----------------------------- MODULE HoldingPen -----------------------------
(***************************************************************************)
(* The workflow objects of the holding pen, kept in a database and copied  *)
(* into a search index, and the requests and tasks that change them.       *)
(*                                                                         *)
(* A session is one web request handler or one Celery task at work.  It    *)
(* loads the object, changes its copy, flushes the change in a savepoint   *)
(* (which takes the row's lock), sends the copy to the search index from   *)
(* the after-save signal, and only then commits.  A resume, restart or     *)
(* restart_step request commits before it hands a task to the broker.      *)
(***************************************************************************)
EXTENDS WorkflowRecord

CONSTANTS
    Objects,        \* identifiers of workflow objects
    Sessions,       \* request handlers and task workers
    Handlers,       \* names in the `actions` registry
    Bodies,         \* request bodies the clients send
    InitialTypes,   \* data types of the objects that exist at the start
    Faults,         \* what may fail: see the assumption
    MaxRequests     \* bound: number of requests the clients send

ASSUME PenAssumption ==
    /\ Bodies \subseteq Body
    /\ InitialTypes \subseteq DataTypes \cup {None}
    /\ Faults \subseteq {"index", "commit", "broker", "crash", "batch", "lost"}
    /\ None \notin Handlers
    /\ MaxRequests \in Nat

Dispatching == {"restart_step", "restart", "resume"}
Ops == Dispatching \cup {"put", "edit", "resolve", "delete"}
RestartPoints == {"restart_task", "continue_next"}

(* What a session is at work on: an operation, or a run of the workflow.   *)
Request == [op : Ops \cup {"run"}, obj : Objects]

Task == [obj : Objects, point : RestartPoints, stamp : Nat]

ASSUME RequestAssumption == None \notin Request

VARIABLES
    row,        \* row[o]: the committed row of o, or None
    docs,       \* docs[i][o]: the document of o in index i, or None
    queue,      \* resume tasks the broker holds
    clock,      \* the last value given to a modified column
    pc,         \* pc[s]: how far session s has come
    req,        \* req[s]: the operation s carries out and its object
    img,        \* img[s]: the object as s loaded and changed it
    pend,       \* pend[s]: the row s flushed and has not committed
    reply,      \* reply[s]: status code of the last answer of s
    requests    \* requests received so far

vars == <<row, docs, queue, clock, pc, req, img, pend, reply, requests>>
store == <<row, docs, queue, clock>>

TypeOK ==
    /\ row \in [Objects -> Row \cup {None}]
    /\ docs \in [Indices -> [Objects -> Doc \cup {None}]]
    /\ queue \subseteq Task
    /\ clock \in Nat
    /\ pc \in [Sessions -> {"idle", "loaded", "saved", "indexed", "committed",
                            "unindexed", "removed"}]
    /\ req \in [Sessions -> Request \cup {None}]
    /\ img \in [Sessions -> Row \cup {None}]
    /\ pend \in [Sessions -> Row \cup {None}]
    /\ reply \in [Sessions -> {0, 200, 204, 404, 500}]
    /\ requests \in 0..MaxRequests
    /\ \A s \in Sessions : pc[s] # "idle" => req[s] # None /\ img[s] # None
    /\ \A s \in Sessions : pc[s] \in {"saved", "indexed"} => pend[s] # None

(* Halted objects that wait for a decision, each indexed by the save that  *)
(* halted it.                                                              *)
HaltedRow == [status : {"HALTED"}, data_type : InitialTypes,
              id_workflow : Workflows, callback_pos : Positions,
              data : Metadata, extra_data : ActionNames, modified : {0}]

Init ==
    /\ row \in [Objects -> HaltedRow]
    /\ docs = [i \in Indices |-> [o \in Objects |->
                 IF record_to_index(record_from_object(row[o])) = i
                   THEN prepare_record(row[o]) ELSE None]]
    /\ queue = {}
    /\ clock = 0
    /\ pc = [s \in Sessions |-> "idle"]
    /\ req = [s \in Sessions |-> None]
    /\ img = [s \in Sessions |-> None]
    /\ pend = [s \in Sessions |-> None]
    /\ reply = [s \in Sessions |-> 0]
    /\ requests = 0

-----------------------------------------------------------------------------
(* Sessions and their transactions.                                        *)

Goto(s, label) == pc' = [pc EXCEPT ![s] = label]

Handles(s, op) == pc[s] = "loaded" /\ req[s].op = op

(* s holds the lock of o's row from its flush to its commit or rollback.   *)
Holds(s, o) == pc[s] \in {"saved", "indexed", "removed"} /\ req[s].obj = o

Unlocked(o) == \A s \in Sessions : ~Holds(s, o)

(* The session is over: it answers, and what it flushed and did not commit *)
(* is rolled back.                                                         *)
Finish(s, code) ==
    /\ Goto(s, "idle")
    /\ reply' = [reply EXCEPT ![s] = code]
    /\ img' = [img EXCEPT ![s] = None]
    /\ pend' = [pend EXCEPT ![s] = None]
    /\ UNCHANGED <<req, requests>>

(* get_record: the session loads the committed row.                        *)
Load(s, op, o) ==
    /\ Goto(s, "loaded")
    /\ req' = [req EXCEPT ![s] = [op |-> op, obj |-> o]]
    /\ img' = [img EXCEPT ![s] = row[o]]
    /\ reply' = [reply EXCEPT ![s] = 0]
    /\ UNCHANGED pend

(* A missing object is handed to the view as if it were there.             *)
ReceiveUnchecked(s, op, o) ==
    /\ pc[s] = "idle" /\ requests < MaxRequests
    /\ requests' = requests + 1
    /\ Load(s, op, o)
    /\ UNCHANGED store

(* pass_workflow_object: a request for an object that is not there is      *)
(* answered 404.                                                           *)
Receive(s, op, o) ==
    /\ pc[s] = "idle" /\ requests < MaxRequests
    /\ requests' = requests + 1
    /\ \/ row[o] # None /\ Load(s, op, o)
       \/ /\ row[o] = None
          /\ req' = [req EXCEPT ![s] = [op |-> op, obj |-> o]]
          /\ reply' = [reply EXCEPT ![s] = 404]
          /\ UNCHANGED <<pc, img, pend>>
    /\ UNCHANGED store

(* An INSERT instead of an error when the row is gone.                     *)
SaveOrInsert(s, new) ==
    LET o == req[s].obj
        stamped == [new EXCEPT !.modified = clock + 1]
    IN  /\ Unlocked(o)
        /\ clock' = clock + 1
        /\ img' = [img EXCEPT ![s] = stamped]
        /\ pend' = [pend EXCEPT ![s] =
                      IF row[o] = None THEN stamped
                      ELSE UpdateStatement(row[o], img[s], stamped)]
        /\ Goto(s, "saved")
        /\ UNCHANGED <<row, docs, queue, req, reply, requests>>

(* The flush does not wait for the row's lock.                             *)
SaveWithoutWaiting(s, new) ==
    LET o == req[s].obj
        stamped == [new EXCEPT !.modified = clock + 1]
    IN  \/ /\ row[o] # None
           /\ clock' = clock + 1
           /\ img' = [img EXCEPT ![s] = stamped]
           /\ pend' = [pend EXCEPT ![s] =
                         UpdateStatement(row[o], img[s], stamped)]
           /\ Goto(s, "saved")
           /\ UNCHANGED <<row, docs, queue, req, reply, requests>>
        \/ row[o] = None /\ Finish(s, 500) /\ UNCHANGED store

(* WorkflowObject.save: stamps the object and flushes it.  The flush waits *)
(* for the row's lock, and fails when the row is gone by then.             *)
Save(s, new) ==
    LET o == req[s].obj
        stamped == [new EXCEPT !.modified = clock + 1]
    IN  /\ Unlocked(o)
        /\ \/ /\ row[o] # None
              /\ clock' = clock + 1
              /\ img' = [img EXCEPT ![s] = stamped]
              /\ pend' = [pend EXCEPT ![s] =
                            UpdateStatement(row[o], img[s], stamped)]
              /\ Goto(s, "saved")
              /\ UNCHANGED <<row, docs, queue, req, reply, requests>>
           \/ row[o] = None /\ Finish(s, 500) /\ UNCHANGED store

(* WorkflowIndexer.index, on the record of w: its document replaces what   *)
(* its index has of o, whatever the stamps; without an index nothing is    *)
(* sent.                                                                   *)
index(o, w) ==
    LET i == record_to_index(record_from_object(w))
    IN  IF i = None THEN docs ELSE [docs EXCEPT ![i][o] = prepare_record(w)]

(* The index is filled from the row that is committed, not from the object *)
(* being saved.                                                            *)
IndexCommittedRow(s) ==
    /\ pc[s] = "saved"
    /\ docs' = IF row[req[s].obj] = None THEN docs
                                        ELSE index(req[s].obj, row[req[s].obj])
    /\ Goto(s, "indexed")
    /\ UNCHANGED <<row, queue, clock, req, img, pend, reply, requests>>

(* The after-save signal: a record is created from the object being saved, *)
(* not yet committed, and indexed.                                         *)
index_workflow_object(s) ==
    /\ pc[s] = "saved"
    /\ docs' = index(req[s].obj, img[s])
    /\ Goto(s, "indexed")
    /\ UNCHANGED <<row, queue, clock, req, img, pend, reply, requests>>

(* A TransportError while indexing is logged and goes no further.          *)
IndexFails(s) ==
    /\ "index" \in Faults /\ pc[s] = "saved"
    /\ Goto(s, "indexed")
    /\ UNCHANGED <<store, req, img, pend, reply, requests>>

(* db.session.commit().                                                    *)
Commit(s) ==
    LET o == req[s].obj
    IN  /\ \/ /\ pc[s] = "indexed"
              /\ row' = [row EXCEPT ![o] = pend[s]]
              /\ \/ /\ req[s].op \in Dispatching
                    /\ Goto(s, "committed")
                    /\ pend' = [pend EXCEPT ![s] = None]
                    /\ UNCHANGED <<req, img, reply, requests>>
                 \/ /\ req[s].op \notin Dispatching
                    /\ Finish(s, 200)
           \/ /\ pc[s] = "removed"
              /\ row' = [row EXCEPT ![o] = None]
              /\ Finish(s, 204)
        /\ UNCHANGED <<docs, queue, clock>>

(* The commit raises: everything flushed is rolled back, the index is not. *)
CommitFails(s) ==
    /\ "commit" \in Faults /\ pc[s] \in {"indexed", "removed"}
    /\ Finish(s, 500)
    /\ UNCHANGED store

(* The process dies: its connection is closed, its transaction rolled      *)
(* back, and no answer is sent.                                            *)
Crash(s) ==
    /\ "crash" \in Faults /\ pc[s] # "idle"
    /\ Finish(s, 0)
    /\ UNCHANGED store

-----------------------------------------------------------------------------
(* The operations of WorkflowUIRecord, as the REST views call them.        *)

(* put: the record becomes the body.  edit: the body updates the record.   *)
(* An empty body changes nothing; a record with a key missing raises.      *)
Store(s, b, rec) ==
    \/ b = EmptyBody /\ Finish(s, 200) /\ UNCHANGED store
    \/ b # EmptyBody /\ ~HasAllKeys(rec) /\ Finish(s, 500) /\ UNCHANGED store
    \/ b # EmptyBody /\ HasAllKeys(rec) /\ Save(s, update_model(img[s], rec))

put(s, b) == Handles(s, "put") /\ Store(s, b, b)

edit(s, b) ==
    Handles(s, "edit") /\ Store(s, b, UpdateDict(record_from_object(img[s]), b))

restart_step(s) ==
    /\ Handles(s, "restart_step")
    /\ Save(s, [img[s] EXCEPT !.status = "RUNNING"])

restart(s) ==
    /\ Handles(s, "restart")
    /\ Save(s, [img[s] EXCEPT !.status = "RUNNING", !.callback_pos = 0])

(* callback_pos is an optional argument: without it the position stays.    *)
resume(s, p) ==
    /\ Handles(s, "resume")
    /\ Save(s, [img[s] EXCEPT !.status = "RUNNING",
                              !.callback_pos = IF p = Absent THEN @ ELSE p])

(* The handler is called whether or not there is an action.                *)
ResolveAnyway(s, d) ==
    /\ Handles(s, "resolve")
    /\ Save(s, [img[s] EXCEPT !.data = d, !.extra_data = None])

(* The handler of the object's action decides (d) and clears the action;   *)
(* without an action nothing happens, and an action name nobody registered *)
(* raises KeyError.                                                        *)
resolve(s, d) ==
    LET action == img[s].extra_data
    IN  /\ Handles(s, "resolve")
        /\ \/ action = None /\ Finish(s, 200) /\ UNCHANGED store
           \/ /\ action # None /\ action \notin Handlers
              /\ Finish(s, 500) /\ UNCHANGED store
           \/ /\ action \in Handlers
              /\ Save(s, [img[s] EXCEPT !.data = d, !.extra_data = None])

(* The request gives up before the broker has the task.                    *)
ForgetTask(s) ==
    /\ pc[s] = "committed" /\ Finish(s, 200) /\ UNCHANGED store

(* The task goes to the broker before the commit.                          *)
DelayBeforeCommit(s) ==
    \/ /\ pc[s] = "indexed" /\ req[s].op \in Dispatching
       /\ queue' = queue \cup {[obj |-> req[s].obj, point |-> "restart_task",
                                stamp |-> img[s].modified]}
       /\ UNCHANGED <<row, docs, clock, pc, req, img, pend, reply, requests>>
    \/ pc[s] = "committed" /\ Finish(s, 200) /\ UNCHANGED store

(* resume.delay: the task goes to the broker and the request is answered.  *)
(* The commit has expired the object, whose id is read again for the task. *)
delay(s) ==
    LET point == IF req[s].op = "resume" THEN "continue_next" ELSE "restart_task"
    IN  /\ pc[s] = "committed" /\ row[req[s].obj] # None
        /\ queue' = queue \cup {[obj |-> req[s].obj, point |-> point,
                                 stamp |-> img[s].modified]}
        /\ Finish(s, 200)
        /\ UNCHANGED <<row, docs, clock>>

(* That raises when the object has been deleted since.                     *)
NothingToDelay(s) ==
    /\ pc[s] = "committed" /\ row[req[s].obj] = None
    /\ Finish(s, 500)
    /\ UNCHANGED store

(* The broker does not take the task: the commit stands.                   *)
DelayFails(s) ==
    /\ "broker" \in Faults /\ pc[s] = "committed"
    /\ Finish(s, 500)
    /\ UNCHANGED store

-----------------------------------------------------------------------------
(* delete: the before_delete listener removes the document while the       *)
(* session flushes, before the DELETE statement takes the row's lock.      *)

(* TransportError is treated like NotFoundError.                           *)
UnindexIgnoringErrors(s) ==
    LET o == req[s].obj
        i == record_to_index(record_from_object(img[s]))
    IN  /\ Handles(s, "delete")
        /\ \/ /\ row[o] # None /\ i # None
              /\ \/ docs' = [docs EXCEPT ![i][o] = None]
                 \/ "index" \in Faults /\ UNCHANGED docs
              /\ Goto(s, "unindexed")
              /\ UNCHANGED <<row, queue, clock, req, img, pend, reply, requests>>
           \/ (row[o] = None \/ i = None) /\ Finish(s, 500) /\ UNCHANGED store

(* The listener reads the row again; a missing row raises, as does a data  *)
(* type without an index (the client takes no empty index name) and an     *)
(* index that cannot be reached.  A document that is not there is fine.    *)
delete_from_index(s) ==
    LET o == req[s].obj
        i == record_to_index(record_from_object(img[s]))
    IN  /\ Handles(s, "delete")
        /\ \/ /\ row[o] # None /\ i # None
              /\ docs' = [docs EXCEPT ![i][o] = None]
              /\ Goto(s, "unindexed")
              /\ UNCHANGED <<row, queue, clock, req, img, pend, reply, requests>>
           \/ /\ row[o] = None \/ i = None \/ "index" \in Faults
              /\ Finish(s, 500) /\ UNCHANGED store

(* The DELETE statement; when the row is gone it deletes nothing.          *)
DeleteRow(s) ==
    /\ pc[s] = "unindexed"
    /\ Unlocked(req[s].obj)
    /\ Goto(s, "removed")
    /\ UNCHANGED <<store, req, img, pend, reply, requests>>

-----------------------------------------------------------------------------
(* The resume task of invenio-workflows: runs the workflow from the        *)
(* restart point and saves where it ended.                                 *)
TakeTask(s, t) ==
    /\ pc[s] = "idle"
    /\ queue' = queue \ {t}
    /\ \/ row[t.obj] # None /\ Load(s, "run", t.obj)
       \/ row[t.obj] = None /\ UNCHANGED <<pc, req, img, pend, reply>>
    /\ UNCHANGED <<row, docs, clock, requests>>

Halt(s, p, d, a) ==
    /\ Handles(s, "run")
    /\ Save(s, [img[s] EXCEPT !.status = "HALTED", !.callback_pos = p,
                              !.data = d, !.extra_data = a])

End(s, status, p, d) ==
    /\ Handles(s, "run")
    /\ Save(s, [img[s] EXCEPT !.status = status, !.callback_pos = p, !.data = d])

-----------------------------------------------------------------------------
(* All requests are answered and no task is left.                          *)
Quiesced ==
    /\ requests = MaxRequests /\ queue = {}
    /\ \A s \in Sessions : pc[s] = "idle"
    /\ UNCHANGED vars

(* What a session does on its own once it has work.                        *)
Work(s) ==
    \/ \E b \in Bodies : put(s, b) \/ edit(s, b)
    \/ restart_step(s)
    \/ restart(s)
    \/ \E p \in Positions \cup {Absent} : resume(s, p)
    \/ \E d \in Metadata : resolve(s, d)
    \/ \E p \in Positions, d \in Metadata, a \in ActionNames : Halt(s, p, d, a)
    \/ \E p \in Positions, d \in Metadata, st \in {"COMPLETED", "ERROR"} :
          End(s, st, p, d)
    \/ index_workflow_object(s)
    \/ delete_from_index(s)
    \/ DeleteRow(s)
    \/ Commit(s)
    \/ delay(s)
    \/ NothingToDelay(s)

Fault(s) == IndexFails(s) \/ CommitFails(s) \/ DelayFails(s) \/ Crash(s)

Next ==
    \/ \E s \in Sessions :
         \/ \E op \in Ops, o \in Objects : Receive(s, op, o)
         \/ \E t \in queue : TakeTask(s, t)
         \/ Work(s)
         \/ Fault(s)
    \/ Quiesced

Spec == Init /\ [][Next]_vars

(* Sessions that have work go on with it and idle workers take tasks;      *)
(* nothing obliges a client to send a request, nor a fault to happen.      *)
Fairness ==
    \A s \in Sessions :
        /\ WF_vars(Work(s))
        /\ WF_vars(\E t \in queue : TakeTask(s, t))

FairSpec == Spec /\ Fairness

-----------------------------------------------------------------------------
(* Properties.                                                             *)

(* A session is between the first effect of a save or a delete of o and    *)
(* its end.                                                                *)
Busy(s, o) ==
    /\ pc[s] \in {"saved", "indexed", "unindexed", "removed"}
    /\ req[s].obj = o

Quiet(o) == \A s \in Sessions : ~Busy(s, o)

(* What every save writes is the same in the document as in the row.       *)
SavedAlike(d, w) ==
    /\ d.record.metadata = w.data
    /\ d.record.extra_data = w.extra_data
    /\ d.record.workflow.callback_pos = w.callback_pos

(* With no fault and an index for every data type, the last committed save *)
(* of an object can be found in some index once nobody is busy with it:    *)
(* overlapping saves, runs and failed deletes never leave an older one.    *)
(* (index wrapper, api.py:55-78, and the after-save receiver.)             *)
LatestSaveIsSearchable ==
    \A o \in Objects : row[o] # None /\ Quiet(o) =>
        \E i \in Indices : /\ docs[i][o] # None
                           /\ docs[i][o].updated = row[o].modified
                           /\ SavedAlike(docs[i][o], row[o])

(* Whatever fails, a document with the stamp of the row has the metadata,  *)
(* extra_data and position of the row: comparing _updated with modified    *)
(* tells a document that is stale in these (indexer.py:44-50), also after  *)
(* commits that failed once it was indexed.  Status, data type and         *)
(* workflow may differ under one stamp: an edit that overlaps a restart    *)
(* indexes the status it loaded and does not write it (api.py:191).        *)
StampIdentifiesContent ==
    \A i \in Indices, o \in Objects :
        /\ docs[i][o] # None /\ row[o] # None
        /\ docs[i][o].updated = row[o].modified
        => SavedAlike(docs[i][o], row[o])

(* An object that has been deleted is in no index (delete, api.py:122-132, *)
(* "Delete model from DB and search index").                               *)
DeletedUnsearchable ==
    \A o \in Objects : row[o] = None /\ Quiet(o) =>
        \A i \in Indices : docs[i][o] = None

(* Something will move o on: a request about to hand over its task, a task *)
(* at the broker, or a worker running the workflow.                        *)
Carried(o) ==
    \/ \E t \in queue : t.obj = o
    \/ \E s \in Sessions :
          /\ pc[s] # "idle" /\ req[s].obj = o
          /\ \/ pc[s] = "committed"
             \/ req[s].op = "run"

(* Unless a process or the broker fails, or a body asks for RUNNING        *)
(* itself, no object is left RUNNING with nothing to run it, however       *)
(* restarts, edits and runs overlap (restart_step, restart and resume,     *)
(* api.py:208-249).                                                        *)
RunningIsCarried ==
    \A o \in Objects :
        row[o] # None /\ row[o].status = "RUNNING" => Carried(o)

(* A task at the broker finds the row its request committed, or a later    *)
(* one (commit before delay, api.py:215-216, 229-230, 245-246).            *)
TaskFollowsCommit ==
    \A t \in queue : row[t.obj] # None => t.stamp <= row[t.obj].modified

(* What keeps sessions that overlap apart, at every point of a             *)
(* transaction (Save to Commit):                                           *)
(* - of the sessions at one object, one has flushed and not committed;     *)
(* - no row, image or document has a stamp that was not given out;         *)
(* - what is flushed is newer than the row, which is still there, and      *)
(*   agrees with the object the signal handler indexes;                    *)
(* - a document with the stamp of a flushed row has what every save writes;*)
(* - a committed restart or resume is not undone before it is handed over. *)
Flushed(s) == pc[s] \in {"saved", "indexed"}

OneWriter ==
    \A s, t \in Sessions, o \in Objects : Holds(s, o) /\ Holds(t, o) => s = t

StampsAreGiven ==
    /\ \A o \in Objects : row[o] # None => row[o].modified <= clock
    /\ \A s \in Sessions : img[s] # None => img[s].modified <= clock
    /\ \A i \in Indices, o \in Objects :
          docs[i][o] # None => docs[i][o].updated <= clock

FlushedIsNext ==
    \A s \in Sessions : Flushed(s) =>
        /\ row[req[s].obj] # None
        /\ row[req[s].obj].modified < pend[s].modified
        /\ pend[s].modified = img[s].modified
        /\ SavedAlike(prepare_record(img[s]), pend[s])

FlushedStampIdentifiesContent ==
    \A i \in Indices, s \in Sessions :
        /\ Flushed(s) /\ docs[i][req[s].obj] # None
        /\ docs[i][req[s].obj].updated = pend[s].modified
        => SavedAlike(docs[i][req[s].obj], pend[s])

CommittedIsKept ==
    \A s \in Sessions : pc[s] = "committed" /\ row[req[s].obj] # None =>
        img[s].modified <= row[req[s].obj].modified

Transactional ==
    /\ OneWriter /\ StampsAreGiven /\ FlushedIsNext
    /\ FlushedStampIdentifiesContent /\ CommittedIsKept

(* s commits the change it made to o for operation op.                     *)
Commits(s, op) ==
    /\ pc[s] = "indexed" /\ req[s].op = op
    /\ pc'[s] # "indexed" /\ row' # row

(* A deleted object stays deleted: a save that loaded it earlier does not  *)
(* bring its row back (get_record, api.py:107-115, then save).             *)
NoResurrection ==
    [][\A o \in Objects : row[o] = None => row'[o] = None]_vars

(* No document comes into an index after its object was deleted: a save    *)
(* that waited for the delete does not index it any more (save, then the   *)
(* after-save receiver, receivers.py:32-46; delete, api.py:122-132).  What *)
(* a save had indexed before may stay: see DeletedUnsearchable.            *)
DeletedStaysOut ==
    [][\A i \in Indices, o \in Objects :
          row[o] = None /\ docs[i][o] = None => docs'[i][o] = None]_vars

(* The index never goes back: while an object is in an index its document  *)
(* is only replaced by that of a later save, although documents are sent   *)
(* without a version (indexer.py:53-77) and before the commit.             *)
DocumentsMoveForward ==
    [][\A i \in Indices, o \in Objects :
          docs[i][o] # None /\ docs'[i][o] # None =>
              docs[i][o].updated <= docs'[i][o].updated]_vars

(* A decision is only stored for an object that still has an action to     *)
(* resolve (resolve, api.py:251-259, "Resolve an action if applicable").   *)
ResolvedOnlyIfApplicable ==
    [][\A s \in Sessions : Commits(s, "resolve") =>
          row[req[s].obj].extra_data # None]_vars

(* Restarting a step leaves the object at the step it is at when it is     *)
(* restarted (restart_step, api.py:208-219, "Restart only the current step *)
(* of the workflow").                                                      *)
RestartStepKeepsPosition ==
    [][\A s \in Sessions : Commits(s, "restart_step") =>
          row'[req[s].obj].callback_pos = row[req[s].obj].callback_pos]_vars

(* An edit whose body has no "_workflow" leaves the object attached to its *)
(* workflow (update_model, api.py:185-198, on record_from_object).         *)
EditKeepsWorkflow ==
    [][\A s \in Sessions : Commits(s, "edit") =>
          row'[req[s].obj].id_workflow = row[req[s].obj].id_workflow]_vars

(* Without faults an object that is RUNNING is eventually not RUNNING any  *)
(* more: halted, completed, in error or deleted.                           *)
Stopped(o) == row[o] = None \/ row[o].status # "RUNNING"
RunningEnds == \A o \in Objects : ~Stopped(o) ~> Stopped(o)

(* The pen as a reader sees it: of the columns of a row those every save   *)
(* writes and every document has.                                          *)
Contents == [metadata : Metadata, extra_data : ActionNames \cup {None},
             callback_pos : Positions]

ASSUME CopyAssumption ==
    None \notin [content : Contents, stamp : Nat] /\ None \notin Doc

SavedCopy(w) ==
    IF w = None THEN None
    ELSE [content |-> [metadata |-> w.data, extra_data |-> w.extra_data,
                       callback_pos |-> w.callback_pos],
          stamp   |-> w.modified]

FoundCopy(d) ==
    IF d = None THEN None
    ELSE [content |-> [metadata |-> d.record.metadata,
                       extra_data |-> d.record.extra_data,
                       callback_pos |-> d.record.workflow.callback_pos],
          stamp   |-> d.updated]

Saved == [o \in Objects |-> SavedCopy(row[o])]
Found == [i \in Indices |-> [o \in Objects |-> FoundCopy(docs[i][o])]]

Pen == INSTANCE SearchablePen WITH saved <- Saved, found <- Found

(* Sessions, locks, rollbacks and crashes come to nothing but publishing,  *)
(* storing, withdrawing and deleting in the order SearchablePen allows     *)
(* (api.py:55-132, receivers.py:32-44).                                    *)
ImplementsPen == Pen!Spec
=============================================================================
