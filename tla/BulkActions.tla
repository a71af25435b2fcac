----------------------------- MODULE BulkActions -----------------------------
(***************************************************************************)
(* The bulk action view and its task resolve_actions.  The task applies    *)
(* one action to a list of objects in one database session, in the order   *)
(* of the list.  What it flushes it keeps locked; only the actions that    *)
(* hand over a resume task commit, each after its object; an error ends    *)
(* the task where it is, a worker may die anywhere, and what is not        *)
(* committed then is rolled back.  The workers also take the resume tasks  *)
(* that were handed over, and run the workflows.                           *)
(***************************************************************************)
EXTENDS WorkflowRecord, Sequences

CONSTANTS
    Objects,        \* identifiers of workflow objects
    Workers,        \* Celery workers
    Handlers,       \* names in the `actions` registry
    Actions,        \* actions the clients ask for
    Lists,          \* lists of object identifiers the clients send
    Outcomes,       \* statuses a run may end with
    BulkFaults,     \* what may fail: see the assumption
    MaxPosts        \* bound: number of bulk requests

Dispatching == {"restart_step", "restart", "resume"}

ASSUME BulkAssumption ==
    /\ Actions \subseteq Dispatching \cup {"resolve", "edit"}
    /\ Lists \subseteq Seq(Objects)
    /\ Outcomes \subseteq {"COMPLETED", "ERROR"}
    /\ BulkFaults \subseteq {"index", "commit", "broker", "crash"}
    /\ MaxPosts \in Nat
    /\ None \notin Objects

VARIABLES
    row,        \* row[o]: the committed row of o, or None
    docs,       \* docs[i][o]: the document of o in index i, or None
    clock,      \* the last value given to a modified column
    posted,     \* bulk tasks the broker holds
    posts,      \* bulk requests received so far
    queue,      \* resume tasks the broker holds
    job,        \* job[w]: the bulk task or the run w is at, or None
    todo,       \* todo[w]: the objects it has not finished
    pc,         \* pc[w]: how far w is with the first of them
    img,        \* img[w]: that object, as w loaded and changed it
    pend,       \* pend[w][o]: the row of o that w flushed, or None
    handed,     \* which bulk task has handed over which object
    ended,      \* bulk tasks that ended, and how
    stranded    \* objects that were left where only a new restart helps

bulkVars == <<row, docs, clock, posted, posts, queue, job, todo, pc, img, pend,
              handed, ended, stranded>>
store == <<row, docs, clock, posted, posts, queue, handed>>
history == <<ended, stranded>>

BulkTask == [id : 1..MaxPosts, ids : Lists, action : Actions]

(* A resume task, with the stamp its restart committed.                    *)
ResumeTask == [obj : Objects, stamp : Nat]

(* A run of the workflow of o is a task for o alone.                       *)
RunOf(o) == [id |-> 0, ids |-> <<o>>, action |-> "run"]

Job == BulkTask \cup {RunOf(o) : o \in Objects}

Ending == [task : BulkTask, outcome : {"done", "failed"}]

(* w has flushed o and not committed: it holds the lock of its row.        *)
Holds(w, o) == pend[w][o] # None

Free(w, o) == \A v \in Workers \ {w} : ~Holds(v, o)

NothingFlushed == [o \in Objects |-> None]

BulkTypeOK ==
    /\ row \in [Objects -> Row \cup {None}]
    /\ docs \in [Indices -> [Objects -> Doc \cup {None}]]
    /\ clock \in Nat
    /\ posted \subseteq BulkTask /\ posts \in 0..MaxPosts
    /\ queue \subseteq ResumeTask
    /\ job \in [Workers -> Job \cup {None}]
    /\ todo \in [Workers -> Seq(Objects)]
    /\ pc \in [Workers -> {"idle", "next", "loaded", "saved", "indexed",
                           "committed"}]
    /\ img \in [Workers -> Row \cup {None}]
    /\ pend \in [Workers -> [Objects -> Row \cup {None}]]
    /\ handed \subseteq [id : 1..MaxPosts, obj : Objects]
    /\ ended \subseteq Ending /\ stranded \subseteq Objects
    /\ \A w \in Workers : pc[w] = "idle" => pend[w] = NothingFlushed
    /\ \A v, w \in Workers, o \in Objects : Holds(v, o) /\ Holds(w, o) => v = w

(* Some objects wait for a decision, some do not, and some are not there.  *)
HaltedRow == [status : {"HALTED"}, data_type : DataTypes, id_workflow : Workflows,
              callback_pos : Positions, data : Metadata,
              extra_data : ActionNames \cup {None}, modified : {0}]

BulkInit ==
    /\ row \in [Objects -> HaltedRow \cup {None}]
    /\ docs = [i \in Indices |-> [o \in Objects |->
                 IF row[o] # None /\ record_to_index(record_from_object(row[o])) = i
                   THEN prepare_record(row[o]) ELSE None]]
    /\ clock = 0 /\ posted = {} /\ posts = 0 /\ queue = {}
    /\ job = [w \in Workers |-> None]
    /\ todo = [w \in Workers |-> <<>>]
    /\ pc = [w \in Workers |-> "idle"]
    /\ img = [w \in Workers |-> None]
    /\ pend = [w \in Workers |-> NothingFlushed]
    /\ handed = {} /\ ended = {} /\ stranded = {}

-----------------------------------------------------------------------------
(* post: the task goes to the broker and the request is answered.          *)
Post(ids, action) ==
    /\ posts < MaxPosts
    /\ posts' = posts + 1
    /\ posted' = posted \cup {[id |-> posts + 1, ids |-> ids, action |-> action]}
    /\ UNCHANGED <<row, docs, clock, queue, job, todo, pc, img, pend, handed, history>>

Start(w, t) ==
    /\ pc[w] = "idle"
    /\ job' = [job EXCEPT ![w] = t]
    /\ todo' = [todo EXCEPT ![w] = t.ids]
    /\ pc' = [pc EXCEPT ![w] = "next"]
    /\ UNCHANGED <<row, docs, clock, posts, img, pend, handed, history>>

Take(w, t) == Start(w, t) /\ posted' = posted \ {t} /\ UNCHANGED queue

(* A worker takes a resume task, once, and runs the workflow.              *)
TakeRun(w, t) ==
    Start(w, RunOf(t.obj)) /\ queue' = queue \ {t} /\ UNCHANGED posted

(* The session is over: what it flushed and did not commit is rolled back. *)
Leave(w) ==
    /\ job' = [job EXCEPT ![w] = None]
    /\ todo' = [todo EXCEPT ![w] = <<>>]
    /\ pc' = [pc EXCEPT ![w] = "idle"]
    /\ img' = [img EXCEPT ![w] = None]
    /\ pend' = [pend EXCEPT ![w] = NothingFlushed]

(* The task ends, and nothing commits what its session holds.  A run that  *)
(* ends here has not moved its object on, and a task that ends between     *)
(* commit and delay has nobody who will.                                   *)
End(w, outcome) ==
    /\ ended' = IF job[w].action = "run" THEN ended
                ELSE ended \cup {[task |-> job[w], outcome |-> outcome]}
    /\ stranded' = IF job[w].action = "run" \/ pc[w] = "committed"
                     THEN stranded \cup {Head(todo[w])} ELSE stranded
    /\ Leave(w)
    /\ UNCHANGED store

(* The process of the worker dies, and the broker forgets its task.        *)
Crash(w) == "crash" \in BulkFaults /\ pc[w] # "idle" /\ End(w, "failed")

(* The same object again.                                                  *)
StayAt(w) ==
    /\ pc' = [pc EXCEPT ![w] = "next"]
    /\ UNCHANGED <<job, todo, img>>

(* The loop is left after its first object.                                *)
AdvanceToEnd(w) ==
    /\ todo' = [todo EXCEPT ![w] = <<>>]
    /\ pc' = [pc EXCEPT ![w] = "next"]
    /\ img' = [img EXCEPT ![w] = None]
    /\ UNCHANGED job

(* On to the next object of the list.                                      *)
Advance(w) ==
    /\ todo' = [todo EXCEPT ![w] = Tail(@)]
    /\ pc' = [pc EXCEPT ![w] = "next"]
    /\ img' = [img EXCEPT ![w] = None]
    /\ UNCHANGED job

(* get_record, which sees what the session flushed itself; an object that  *)
(* is not there raises, and ends the task.                                 *)
get_record(w) ==
    LET o == Head(todo[w])
        found == IF Holds(w, o) THEN pend[w][o] ELSE row[o]
    IN  /\ pc[w] = "next" /\ todo[w] # <<>>
        /\ \/ found = None /\ End(w, "failed")
           \/ /\ found # None
              /\ img' = [img EXCEPT ![w] = found]
              /\ pc' = [pc EXCEPT ![w] = "loaded"]
              /\ UNCHANGED <<store, job, todo, pend, history>>

AllDone(w) == pc[w] = "next" /\ todo[w] = <<>> /\ End(w, "done")

(* The flush does not wait for the lock.                                   *)
SaveWithoutWaiting(w, new) ==
    LET o == Head(todo[w])
        stamped == [new EXCEPT !.modified = clock + 1]
    IN  /\ clock' = clock + 1
        /\ img' = [img EXCEPT ![w] = stamped]
        /\ pend' = [pend EXCEPT ![w][o] = UpdateStatement(row[o], img[w], stamped)]
        /\ pc' = [pc EXCEPT ![w] = "saved"]
        /\ UNCHANGED <<row, docs, posted, posts, queue, job, todo, handed, history>>

(* WorkflowObject.save: waits for the lock, stamps and flushes.            *)
Save(w, new) ==
    LET o == Head(todo[w])
        stamped == [new EXCEPT !.modified = clock + 1]
        base == IF Holds(w, o) THEN pend[w][o] ELSE row[o]
    IN  /\ Free(w, o)
        /\ clock' = clock + 1
        /\ img' = [img EXCEPT ![w] = stamped]
        /\ pend' = [pend EXCEPT ![w][o] = UpdateStatement(base, img[w], stamped)]
        /\ pc' = [pc EXCEPT ![w] = "saved"]
        /\ UNCHANGED <<row, docs, posted, posts, queue, job, todo, handed, history>>

Does(w, action) == pc[w] = "loaded" /\ job[w].action = action

(* edit reads flask.request, and a task has none.                          *)
edit(w) == Does(w, "edit") /\ End(w, "failed")

(* The handler decides (d) and clears the action.                          *)
resolve(w, d) ==
    LET action == img[w].extra_data
    IN  /\ Does(w, "resolve")
        /\ \/ /\ action = None /\ Advance(w)
              /\ UNCHANGED <<store, pend, history>>
           \/ action # None /\ action \notin Handlers /\ End(w, "failed")
           \/ /\ action \in Handlers
              /\ Save(w, [img[w] EXCEPT !.data = d, !.extra_data = None])

(* restart, restart_step and resume differ in the position only; no view   *)
(* gives resume one.                                                       *)
restart(w) ==
    /\ \E action \in Dispatching : Does(w, action)
    /\ Save(w, [img[w] EXCEPT !.status = "RUNNING",
                              !.callback_pos = IF job[w].action = "restart" THEN 0
                                               ELSE @])

(* A run of the workflow ends it or halts it, for an action or another one.*)
Halt(w, p, d, a) ==
    /\ Does(w, "run")
    /\ Save(w, [img[w] EXCEPT !.status = "HALTED", !.callback_pos = p,
                              !.data = d, !.extra_data = a])

Complete(w, status, p, d) ==
    /\ Does(w, "run")
    /\ Save(w, [img[w] EXCEPT !.status = status, !.callback_pos = p, !.data = d])

(* The after-save signal.  An index that cannot be reached is logged.      *)
index_workflow_object(w) ==
    LET o == Head(todo[w])
        i == record_to_index(record_from_object(img[w]))
    IN  /\ pc[w] = "saved"
        /\ \/ docs' = IF i = None THEN docs
                      ELSE [docs EXCEPT ![i][o] = prepare_record(img[w])]
           \/ "index" \in BulkFaults /\ UNCHANGED docs
        /\ pc' = [pc EXCEPT ![w] = "indexed"]
        /\ UNCHANGED <<row, clock, posted, posts, queue, job, todo, img, pend,
                       handed, history>>

(* Back in the loop of the task: a decision stays uncommitted.             *)
Resolved(w) ==
    /\ pc[w] = "indexed" /\ job[w].action = "resolve"
    /\ Advance(w)
    /\ UNCHANGED <<store, pend, history>>

(* The commit is forgotten.                                                *)
SkipCommit(w) ==
    /\ pc[w] = "indexed" /\ job[w].action \in Dispatching
    /\ pc' = [pc EXCEPT ![w] = "committed"]
    /\ UNCHANGED <<store, job, todo, img, pend, history>>

Commits(w) == pc[w] = "indexed" /\ job[w].action \in Dispatching \cup {"run"}

(* db.session.commit(), by the actions that hand over a task and by runs.  *)
Commit(w) ==
    /\ Commits(w)
    /\ row' = [o \in Objects |-> IF Holds(w, o) THEN pend[w][o] ELSE row[o]]
    /\ \/ /\ job[w].action \in Dispatching
          /\ pend' = [pend EXCEPT ![w] = NothingFlushed]
          /\ pc' = [pc EXCEPT ![w] = "committed"]
          /\ stranded' = stranded \ {Head(todo[w])}
          /\ UNCHANGED <<job, todo, img>>
       \/ job[w].action = "run" /\ Leave(w) /\ UNCHANGED stranded
    /\ UNCHANGED <<docs, clock, posted, posts, queue, handed, ended>>

CommitFails(w) == "commit" \in BulkFaults /\ Commits(w) /\ End(w, "failed")

(* The resume task of the object w is at goes to the broker, and w goes on *)
(* with the next one.                                                      *)
HandOver(w) ==
    LET o == Head(todo[w])
    IN  /\ queue' = queue \cup {[obj |-> o, stamp |-> img[w].modified]}
        /\ handed' = handed \cup {[id |-> job[w].id, obj |-> o]}
        /\ Advance(w)
        /\ UNCHANGED <<row, docs, clock, posted, posts, pend, history>>

(* The task is handed over before the commit, which is left to the session.*)
DelayBeforeCommit(w) ==
    pc[w] = "indexed" /\ job[w].action \in Dispatching /\ HandOver(w)

(* The loop goes on without handing the task over.                         *)
ForgetToDelay(w) ==
    /\ pc[w] = "committed"
    /\ Advance(w)
    /\ UNCHANGED <<store, pend, history>>

(* resume.delay.  The identifier it reads again is there: nothing in this  *)
(* module deletes objects.                                                 *)
delay(w) == pc[w] = "committed" /\ HandOver(w)

(* The broker does not take the resume task: the commit stands.            *)
DelayFails(w) == "broker" \in BulkFaults /\ pc[w] = "committed" /\ End(w, "failed")

-----------------------------------------------------------------------------
(* The database ends transactions that wait for each other.                *)

Saves(w) ==
    /\ pc[w] = "loaded"
    /\ job[w].action = "resolve" => img[w].extra_data \in Handlers
    /\ job[w].action # "edit"

WaitsFor(v, w) == v # w /\ Saves(v) /\ Holds(w, Head(todo[v]))

Deadlocked(w) ==
    \E ring \in SUBSET Workers :
        /\ w \in ring
        /\ \A v \in ring : (\E u \in ring : WaitsFor(v, u))
                         /\ (\E u \in ring : WaitsFor(u, v))

DeadlockVictim(w) == Deadlocked(w) /\ End(w, "failed")

-----------------------------------------------------------------------------
Step(w) ==
    \/ \E t \in posted : Take(w, t)
    \/ \E t \in queue : TakeRun(w, t)
    \/ get_record(w)
    \/ AllDone(w)
    \/ edit(w)
    \/ \E d \in Metadata : resolve(w, d)
    \/ restart(w)
    \/ \E p \in Positions, d \in Metadata, a \in ActionNames : Halt(w, p, d, a)
    \/ \E p \in Positions, d \in Metadata, st \in Outcomes :
          Complete(w, st, p, d)
    \/ index_workflow_object(w)
    \/ Resolved(w)
    \/ Commit(w)
    \/ delay(w)
    \/ DeadlockVictim(w)

Quiesced ==
    /\ posts = MaxPosts /\ posted = {} /\ queue = {}
    /\ \A w \in Workers : pc[w] = "idle"
    /\ UNCHANGED bulkVars

BulkNext ==
    \/ \E ids \in Lists, action \in Actions : Post(ids, action)
    \/ \E w \in Workers : Step(w) \/ CommitFails(w) \/ DelayFails(w) \/ Crash(w)
    \/ Quiesced

BulkSpec == BulkInit /\ [][BulkNext]_bulkVars

(* Idle workers take tasks and go on with them.                            *)
BulkFairSpec == BulkSpec /\ \A w \in Workers : WF_bulkVars(Step(w))

-----------------------------------------------------------------------------
(* Properties.                                                             *)

(* Something will move o on: its resume task at the broker, a worker that  *)
(* runs its workflow, or one that has committed its restart and is about   *)
(* to hand it over.                                                        *)
Carried(o) ==
    \/ \E t \in queue : t.obj = o
    \/ \E w \in Workers :
          /\ \/ pc[w] = "committed"
             \/ pc[w] # "idle" /\ job[w].action = "run"
          /\ Head(todo[w]) = o

(* No object is left RUNNING with nothing to run it, although tasks and    *)
(* runs overlap at it and a task may end half way through its list, unless *)
(* a worker died or the broker refused between commit and delay at that    *)
(* very object (api.py:215-216, 229-230), or its run came to a bad end,    *)
(* and nobody has restarted it since: an end anywhere else strands nothing *)
(* (api.py:208-249 in the loop of tasks.py:42-45).                         *)
RunningIsHanded ==
    \A o \in Objects : row[o] # None /\ row[o].status = "RUNNING" =>
        Carried(o) \/ o \in stranded

(* A resume task finds the row its restart committed, or a later one,      *)
(* whatever becomes of the rest of the list and of other tasks at the      *)
(* object (commit before delay, api.py:215-216).  It need not find it      *)
(* RUNNING: a run that another task started may have halted it by then.    *)
HandedIsCommitted ==
    \A t \in queue : row[t.obj] # None /\ t.stamp <= row[t.obj].modified

(* A bulk restart or resume never waits for another task in a circle,      *)
(* whatever the order of the lists: it commits after each object.          *)
OnlyResolveDeadlocks ==
    \A w \in Workers : Deadlocked(w) => job[w].action = "resolve"

(* Every bulk task ends, however the lists overlap.                        *)
BulkEnds ==
    \A id \in 1..MaxPosts :
        (\E t \in posted : t.id = id) ~> (\E e \in ended : e.task.id = id)

Elements(ids) == {ids[k] : k \in DOMAIN ids}

Ended(action, outcome) ==
    {e.task : e \in {e \in ended : e.task.action = action /\ e.outcome = outcome}}

(* A bulk restart, restart_step or resume that ended without an error has  *)
(* handed over every object of its list itself, although other tasks, runs *)
(* and failures get in its way ("Resolve a set of actions.", tasks.py:39). *)
DoneIsHanded ==
    \A action \in Dispatching : \A t \in Ended(action, "done") :
        \A o \in Elements(t.ids) : [id |-> t.id, obj |-> o] \in handed

(* A bulk resolve that ended without an error has resolved its objects     *)
(* ("Resolve a set of actions.", tasks.py:39).                             *)
DecisionsAreStored ==
    \A t \in Ended("resolve", "done") : \A o \in Elements(t.ids) :
        row[o].extra_data = None

=============================================================================
