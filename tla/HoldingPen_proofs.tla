------------------------- MODULE HoldingPen_proofs -------------------------
(***************************************************************************)
(* Theorems about HoldingPen for every set of objects, sessions, bodies    *)
(* and faults.  The type invariant comes first; everything else rests on   *)
(* it.                                                                     *)
(***************************************************************************)
EXTENDS HoldingPen, WorkflowRecord_proofs

-----------------------------------------------------------------------------
(* The type invariant.                                                     *)

Code == {0, 200, 204, 404, 500}

(* The end of a session keeps the sessions' part of the type invariant.    *)
LEMMA FinishType ==
    ASSUME TypeOK, NEW s \in Sessions, NEW code \in Code, Finish(s, code),
           row' \in [Objects -> Row \cup {None}],
           docs' \in [Indices -> [Objects -> Doc \cup {None}]],
           queue' \subseteq Task, clock' \in Nat
    PROVE  TypeOK'
BY DEF TypeOK, Finish, Goto, Code

(* So does a rollback, which leaves the stores alone.                      *)
LEMMA RollbackType ==
    ASSUME TypeOK, NEW s \in Sessions, NEW code \in Code, Finish(s, code),
           UNCHANGED store
    PROVE  TypeOK'
BY FinishType DEF TypeOK, store

(* A session that works on something holds a row.                          *)
LEMMA ImageIsRow ==
    ASSUME TypeOK, NEW s \in Sessions, pc[s] # "idle"
    PROVE  /\ req[s] \in Request /\ req[s].obj \in Objects
           /\ img[s] \in Row
BY DEF TypeOK, Request

(* A save of a well-typed object keeps the type invariant.                 *)
LEMMA SaveType ==
    ASSUME TypeOK, NEW s \in Sessions, pc[s] = "loaded",
           NEW new \in Row, Save(s, new)
    PROVE  TypeOK'
<1> DEFINE o == req[s].obj
           stamped == [new EXCEPT !.modified = clock + 1]
           written == UpdateStatement(row[o], img[s], stamped)
<1>1. o \in Objects /\ img[s] \in Row
  BY ImageIsRow
<1>2. CASE row[o] = None
  <2>1. Finish(s, 500) /\ UNCHANGED store
    BY <1>2 DEF Save
  <2> QED
    BY <2>1, RollbackType DEF Code
<1>3. CASE row[o] # None
  <2>0. clock + 1 \in Nat
    BY DEF TypeOK
  <2>1. stamped \in Row
    BY <2>0 DEF Row
  <2>2. written \in Row
    BY <1>1, <1>3, <2>1, UpdateStatementType DEF TypeOK
  <2>3. /\ clock' = clock + 1
        /\ img' = [img EXCEPT ![s] = stamped]
        /\ pend' = [pend EXCEPT ![s] = written]
        /\ pc' = [pc EXCEPT ![s] = "saved"]
        /\ UNCHANGED <<row, docs, queue, req, reply, requests>>
    BY <1>3 DEF Save, Goto
  <2>4. written # None /\ stamped # None
    BY <2>1, <2>2, SentinelAssumption
  <2> HIDE DEF stamped, written, o
  <2> QED
    BY <2>1, <2>2, <2>3, <2>4 DEF TypeOK
<1> QED
  BY <1>2, <1>3

(* put and edit end the session or save a row.                             *)
LEMMA StoreType ==
    ASSUME TypeOK, NEW s \in Sessions, pc[s] = "loaded",
           NEW b \in Body, NEW rec \in Body, Store(s, b, rec)
    PROVE  TypeOK'
<1>1. CASE Finish(s, 200) /\ UNCHANGED store
  BY <1>1, RollbackType DEF Code
<1>2. CASE Finish(s, 500) /\ UNCHANGED store
  BY <1>2, RollbackType DEF Code
<1>3. CASE HasAllKeys(rec) /\ Save(s, update_model(img[s], rec))
  <2>1. update_model(img[s], rec) \in Row
    BY <1>3, ImageIsRow, UpdateModelType
  <2> QED
    BY <1>3, <2>1, SaveType
<1> QED
  BY <1>1, <1>2, <1>3 DEF Store

(* Loading a row that is there starts a well-typed session.                *)
LEMMA LoadType ==
    ASSUME TypeOK, NEW s \in Sessions, NEW op \in Ops \cup {"run"},
           NEW o \in Objects, row[o] # None, Load(s, op, o),
           UNCHANGED <<row, docs, clock>>, queue' \subseteq Task,
           requests' \in 0..MaxRequests
    PROVE  TypeOK'
<1>1. [op |-> op, obj |-> o] \in Request
  BY DEF Request
<1>2. [op |-> op, obj |-> o] # None
  BY <1>1, RequestAssumption
<1> DEFINE r == [op |-> op, obj |-> o]
<1>3. req' = [req EXCEPT ![s] = r] /\ r \in Request /\ r # None
  BY <1>1, <1>2 DEF Load
<1> HIDE DEF r
<1> QED
  BY <1>3 DEF TypeOK, Load, Goto

(* The type invariant holds at the start: every object is a halted row and *)
(* its document is the one its last save indexed.                          *)
LEMMA InitType == Init => TypeOK
<1> SUFFICES ASSUME Init PROVE TypeOK
  OBVIOUS
<1>1. HaltedRow \subseteq Row
  BY PenAssumption DEF HaltedRow, Row, Status
<1>2. row \in [Objects -> Row \cup {None}]
  BY <1>1 DEF Init
<1>3. docs \in [Indices -> [Objects -> Doc \cup {None}]]
  <2>1. \A o \in Objects : prepare_record(row[o]) \in Doc
    BY <1>1, DocType DEF Init
  <2> QED
    BY <2>1 DEF Init
<1> QED
  BY <1>2, <1>3, PenAssumption DEF Init, TypeOK

(* Every step keeps the type invariant, one step below for each action.    *)
LEMMA NextType == TypeOK /\ [Next]_vars => TypeOK'
<1> SUFFICES ASSUME TypeOK, [Next]_vars PROVE TypeOK'
  OBVIOUS
<1>1. CASE UNCHANGED vars
  BY <1>1 DEF vars, TypeOK
<1>2. ASSUME NEW s \in Sessions, NEW op \in Ops, NEW o \in Objects,
             Receive(s, op, o)
      PROVE  TypeOK'
  <2>1. requests' \in 0..MaxRequests /\ UNCHANGED store
    BY <1>2, PenAssumption DEF Receive, TypeOK
  <2>2. CASE row[o] # None /\ Load(s, op, o)
    BY <2>1, <2>2, LoadType DEF TypeOK, store
  <2>3. CASE /\ req' = [req EXCEPT ![s] = [op |-> op, obj |-> o]]
             /\ reply' = [reply EXCEPT ![s] = 404]
             /\ UNCHANGED <<pc, img, pend>>
    <3> DEFINE r == [op |-> op, obj |-> o]
    <3>1. r \in Request
      BY DEF Request
    <3>2. req' = [req EXCEPT ![s] = r] /\ pc[s] = "idle"
      BY <1>2, <2>3 DEF Receive
    <3> HIDE DEF r
    <3> QED
      BY <2>1, <2>3, <3>1, <3>2 DEF TypeOK, store
  <2> QED
    BY <1>2, <2>2, <2>3 DEF Receive
<1>3. ASSUME NEW s \in Sessions, NEW t \in queue, TakeTask(s, t)
      PROVE  TypeOK'
  <2>1. t \in Task /\ t.obj \in Objects
    BY DEF TypeOK, Task
  <2>2. queue' \subseteq Task
    BY <1>3 DEF TakeTask, TypeOK
  <2>3. CASE row[t.obj] # None /\ Load(s, "run", t.obj)
    BY <1>3, <2>1, <2>2, <2>3, LoadType DEF TakeTask, TypeOK
  <2>4. CASE UNCHANGED <<pc, req, img, pend, reply>>
    BY <1>3, <2>2, <2>4 DEF TakeTask, TypeOK
  <2> QED
    BY <1>3, <2>3, <2>4 DEF TakeTask
<1>4. ASSUME NEW s \in Sessions, Work(s)
      PROVE  TypeOK'
  <2>1. ASSUME NEW b \in Bodies, put(s, b) \/ edit(s, b)
        PROVE  TypeOK'
    <3>1. pc[s] = "loaded" /\ b \in Body
      BY <2>1, PenAssumption DEF put, edit, Handles
    <3>2. UpdateDict(record_from_object(img[s]), b) \in Body
      BY <3>1, ImageIsRow, RecordType, UpdateDictType
    <3> QED
      BY <2>1, <3>1, <3>2, StoreType DEF put, edit
  <2>2. ASSUME NEW new \in Row, pc[s] = "loaded", Save(s, new)
        PROVE  TypeOK'
    BY <2>2, SaveType
  <2>3. CASE restart_step(s)
    <3>1. [img[s] EXCEPT !.status = "RUNNING"] \in Row
      BY <2>3, ImageIsRow DEF restart_step, Handles, Row, Status
    <3> QED
      BY <2>2, <2>3, <3>1 DEF restart_step, Handles
  <2>4. CASE restart(s)
    <3>1. [img[s] EXCEPT !.status = "RUNNING", !.callback_pos = 0] \in Row
      BY <2>4, ImageIsRow, RecordAssumption DEF restart, Handles, Row, Status
    <3> QED
      BY <2>2, <2>4, <3>1 DEF restart, Handles
  <2>5. ASSUME NEW p \in Positions \cup {Absent}, resume(s, p)
        PROVE  TypeOK'
    <3>1. [img[s] EXCEPT !.status = "RUNNING",
                         !.callback_pos = IF p = Absent THEN @ ELSE p] \in Row
      BY <2>5, ImageIsRow DEF resume, Handles, Row, Status
    <3> QED
      BY <2>2, <2>5, <3>1 DEF resume, Handles
  <2>6. ASSUME NEW d \in Metadata, resolve(s, d)
        PROVE  TypeOK'
    <3>1. CASE Finish(s, 200) /\ UNCHANGED store
      BY <3>1, RollbackType DEF Code
    <3>2. CASE Finish(s, 500) /\ UNCHANGED store
      BY <3>2, RollbackType DEF Code
    <3>3. CASE Save(s, [img[s] EXCEPT !.data = d, !.extra_data = None])
      <4>1. [img[s] EXCEPT !.data = d, !.extra_data = None] \in Row
        BY <2>6, ImageIsRow DEF resolve, Handles, Row
      <4> QED
        BY <2>2, <2>6, <3>3, <4>1 DEF resolve, Handles
    <3> QED
      BY <2>6, <3>1, <3>2, <3>3 DEF resolve
  <2>7. ASSUME NEW p \in Positions, NEW d \in Metadata, NEW a \in ActionNames,
               Halt(s, p, d, a)
        PROVE  TypeOK'
    <3>1. [img[s] EXCEPT !.status = "HALTED", !.callback_pos = p,
                         !.data = d, !.extra_data = a] \in Row
      BY <2>7, ImageIsRow DEF Halt, Handles, Row, Status
    <3> QED
      BY <2>2, <2>7, <3>1 DEF Halt, Handles
  <2>8. ASSUME NEW p \in Positions, NEW d \in Metadata,
               NEW st \in {"COMPLETED", "ERROR"}, End(s, st, p, d)
        PROVE  TypeOK'
    <3>1. [img[s] EXCEPT !.status = st, !.callback_pos = p, !.data = d] \in Row
      BY <2>8, ImageIsRow DEF End, Handles, Row, Status
    <3> QED
      BY <2>2, <2>8, <3>1 DEF End, Handles
  <2>9. CASE index_workflow_object(s)
    <3> DEFINE i == record_to_index(record_from_object(img[s]))
               d == prepare_record(img[s])
               o == req[s].obj
    <3>1. /\ i \in Indices \cup {None} /\ d \in Doc /\ o \in Objects
          /\ pc[s] = "saved"
      BY <2>9, ImageIsRow, RecordType, IndexType, DocType
      DEF index_workflow_object
    <3>2. docs' = IF i = None THEN docs ELSE [docs EXCEPT ![i][o] = d]
      BY <2>9 DEF index_workflow_object, index
    <3> HIDE DEF i, d, o
    <3>3. docs' \in [Indices -> [Objects -> Doc \cup {None}]]
      BY <3>1, <3>2 DEF TypeOK
    <3> QED
      BY <2>9, <3>1, <3>3 DEF index_workflow_object, Goto, TypeOK
  <2>10. CASE delete_from_index(s)
    <3> DEFINE i == record_to_index(record_from_object(img[s]))
               o == req[s].obj
    <3>1. i \in Indices \cup {None} /\ o \in Objects /\ pc[s] = "loaded"
      BY <2>10, ImageIsRow, RecordType, IndexType
      DEF delete_from_index, Handles
    <3>2. CASE i # None /\ docs' = [docs EXCEPT ![i][o] = None]
               /\ Goto(s, "unindexed")
               /\ UNCHANGED <<row, queue, clock, req, img, pend, reply, requests>>
      <4> HIDE DEF i, o
      <4>1. docs' \in [Indices -> [Objects -> Doc \cup {None}]]
        BY <3>1, <3>2 DEF TypeOK
      <4> QED
        BY <3>1, <3>2, <4>1 DEF Goto, TypeOK
    <3>3. CASE Finish(s, 500) /\ UNCHANGED store
      BY <3>3, RollbackType DEF Code
    <3> QED
      BY <2>10, <3>2, <3>3 DEF delete_from_index
  <2>11. CASE DeleteRow(s)
    BY <2>11 DEF DeleteRow, Goto, TypeOK, store
  <2>12. CASE Commit(s)
    <3> DEFINE o == req[s].obj
    <3>1. o \in Objects /\ pend[s] \in Row \cup {None}
      BY <2>12, ImageIsRow DEF Commit, TypeOK
    <3>2. row' \in [Objects -> Row \cup {None}]
      BY <2>12, <3>1 DEF Commit, TypeOK
    <3>3. ASSUME NEW code \in Code, Finish(s, code) PROVE TypeOK'
      BY <2>12, <3>2, <3>3, FinishType DEF Commit, TypeOK
    <3>4. CASE /\ pc[s] = "indexed" /\ Goto(s, "committed")
               /\ pend' = [pend EXCEPT ![s] = None]
               /\ UNCHANGED <<req, img, reply, requests>>
      BY <2>12, <3>2, <3>4 DEF Commit, Goto, TypeOK
    <3> QED
      BY <2>12, <3>3, <3>4 DEF Commit, Code
  <2>13. CASE delay(s)
    <3> DEFINE t == [obj |-> req[s].obj,
                     point |-> IF req[s].op = "resume" THEN "continue_next"
                                                       ELSE "restart_task",
                     stamp |-> img[s].modified]
    <3>1. t \in Task
      BY <2>13, ImageIsRow DEF delay, Task, RestartPoints, Row
    <3>2. queue' = queue \cup {t}
      BY <2>13 DEF delay
    <3> HIDE DEF t
    <3> QED
      BY <2>13, <3>1, <3>2, FinishType DEF delay, TypeOK, Code
  <2>14. CASE NothingToDelay(s)
    BY <2>14, RollbackType DEF NothingToDelay, Code
  <2> QED
    BY <1>4, <2>1, <2>3, <2>4, <2>5, <2>6, <2>7, <2>8, <2>9, <2>10, <2>11,
       <2>12, <2>13, <2>14 DEF Work
<1>5. ASSUME NEW s \in Sessions, Fault(s)
      PROVE  TypeOK'
  <2>1. CASE IndexFails(s)
    BY <2>1 DEF IndexFails, Goto, TypeOK, store
  <2>2. CASE \E code \in Code : Finish(s, code) /\ UNCHANGED store
    BY <2>2, RollbackType
  <2> QED
    BY <1>5, <2>1, <2>2 DEF Fault, CommitFails, DelayFails, Crash, Code
<1>6. CASE Quiesced
  BY <1>6 DEF Quiesced, vars, TypeOK
<1> QED
  BY <1>1, <1>2, <1>3, <1>4, <1>5, <1>6 DEF Next

(* The types of the rows, documents, tasks and sessions (api.py, tasks.py  *)
(* and receivers.py): in particular no handler goes on without the object  *)
(* it loaded, and none commits a save it did not flush.                    *)
THEOREM TypeCorrect == Spec => []TypeOK
<1>1. Init => TypeOK
  BY InitType
<1>2. TypeOK /\ [Next]_vars => TypeOK'
  BY NextType
<1> QED
  BY <1>1, <1>2, PTL DEF Spec

-----------------------------------------------------------------------------
(* The kinds of steps: what the operations have in common, so that the     *)
(* invariants below are proved once for all of them.                       *)

(* The status an operation asks for is RUNNING only if the operation hands *)
(* over a task or the object was RUNNING when it was loaded; a run never   *)
(* leaves it RUNNING.                                                      *)
AsksFor(s, new) ==
    /\ new.status = "RUNNING" =>
         req[s].op \in Dispatching \/ img[s].status = "RUNNING"
    /\ req[s].op = "run" => new.status # "RUNNING"

(* s flushes new. *)
Flush(s, new) ==
    /\ pc[s] = "loaded"
    /\ row[req[s].obj] # None
    /\ Unlocked(req[s].obj)
    /\ clock' = clock + 1
    /\ img' = [img EXCEPT ![s] = [new EXCEPT !.modified = clock + 1]]
    /\ pend' = [pend EXCEPT ![s] = UpdateStatement(row[req[s].obj], img[s],
                                      [new EXCEPT !.modified = clock + 1])]
    /\ pc' = [pc EXCEPT ![s] = "saved"]
    /\ UNCHANGED <<row, docs, queue, req, reply, requests>>

(* s ends and changes nothing.                                             *)
GivesUp(s) ==
    /\ pc[s] # "idle"
    /\ \E code \in Code : Finish(s, code)
    /\ UNCHANGED store
    /\ Faults \subseteq {"index"} =>
         \/ pc[s] = "loaded" /\ req[s].op # "run"
         \/ pc[s] \in {"loaded", "committed"} /\ row[req[s].obj] = None
    /\ Faults \cap {"commit", "crash"} = {} => pc[s] \in {"loaded", "committed"}

(* s removes a document and goes on.                                       *)
Unindex(s) ==
    /\ pc[s] = "loaded" /\ req[s].op = "delete"
    /\ \E i \in Indices : docs' = [docs EXCEPT ![i][req[s].obj] = None]
    /\ pc' = [pc EXCEPT ![s] = "unindexed"]
    /\ UNCHANGED <<row, queue, clock, req, img, pend, reply, requests>>

BodiesDoNotRun ==
    \A b \in Bodies : b.workflow \in WorkflowPart => b.workflow.status # "RUNNING"

(* Every run is one the registry knows, and no body detaches an object     *)
(* from its run.                                                           *)
RunsAreKnown ==
    /\ Registered = Workflows
    /\ \A b \in Bodies :
          b.workflow \in WorkflowPart => b.workflow.id_workflow # None

(* Then no operation does.                                                 *)
KeepsRun(s, new) ==
    RunsAreKnown /\ img[s].id_workflow # None => new.id_workflow # None

(* No body says anything of the workflow an object is attached to.         *)
BodiesLeaveRun ==
    /\ Registered = Workflows
    /\ \A b \in Bodies : b.workflow \notin WorkflowPart

(* Then an edit takes it over from the object it loaded.                   *)
Heeds(s, new) ==
    BodiesLeaveRun /\ req[s].op = "edit" => new.id_workflow = img[s].id_workflow

(* A save either flushes or gives up because the row is gone.              *)
LEMMA SaveKinds ==
    ASSUME NEW s \in Sessions, pc[s] = "loaded", NEW new \in Row, Save(s, new)
    PROVE  Flush(s, new) \/ GivesUp(s)
BY DEF Save, Flush, GivesUp, Goto, Code

(* What work is: a flush of some object, a step of the transaction, or the *)
(* end of the session.                                                     *)
LEMMA WorkKinds ==
    ASSUME TypeOK, NEW s \in Sessions, Work(s)
    PROVE  \/ GivesUp(s)
           \/ \E new \in Row : Flush(s, new)
                             /\ (BodiesDoNotRun => AsksFor(s, new))
                             /\ KeepsRun(s, new) /\ Heeds(s, new)
           \/ index_workflow_object(s)
           \/ Unindex(s)
           \/ DeleteRow(s)
           \/ Commit(s)
           \/ delay(s)
<1> DEFINE Goal == \/ GivesUp(s)
                   \/ \E new \in Row : Flush(s, new)
                                     /\ (BodiesDoNotRun => AsksFor(s, new))
                                     /\ KeepsRun(s, new) /\ Heeds(s, new)
<1>1. ASSUME NEW new \in Row, pc[s] = "loaded", Save(s, new),
             BodiesDoNotRun => AsksFor(s, new), KeepsRun(s, new), Heeds(s, new)
      PROVE  Goal
  BY <1>1, SaveKinds
<1>2. ASSUME pc[s] = "loaded", req[s].op # "run", NEW code \in Code,
             Finish(s, code), UNCHANGED store
      PROVE  Goal
  BY <1>2 DEF GivesUp
<1>3. ASSUME NEW b \in Bodies, put(s, b) \/ edit(s, b)
      PROVE  Goal
  <2> DEFINE rec == IF put(s, b) THEN b
                    ELSE UpdateDict(record_from_object(img[s]), b)
  <2>1. pc[s] = "loaded" /\ req[s].op \in {"put", "edit"} /\ b \in Body
    BY <1>3, PenAssumption DEF put, edit, Handles
  <2>2. img[s] \in Row /\ rec \in Body
    BY <2>1, ImageIsRow, RecordType, UpdateDictType
  <2>3. Store(s, b, rec)
    BY <1>3 DEF put, edit
  <2>4. CASE \E code \in Code : Finish(s, code) /\ UNCHANGED store
    BY <1>2, <2>1, <2>4
  <2>5. CASE HasAllKeys(rec) /\ Save(s, update_model(img[s], rec))
    <3>1. update_model(img[s], rec) \in Row
      BY <2>2, <2>5, UpdateModelType
    <3>2. update_model(img[s], rec).status = rec.workflow.status
      BY <2>2 DEF update_model, Row
    <3>3. ASSUME BodiesDoNotRun, rec.workflow.status = "RUNNING"
          PROVE  img[s].status = "RUNNING"
      <4>1. rec.workflow \in WorkflowPart
        BY <2>2, <2>5 DEF HasAllKeys, Body
      <4>2. rec.workflow # b.workflow
        BY <3>3, <4>1 DEF BodiesDoNotRun
      <4>3. rec.workflow = record_from_object(img[s]).workflow
        BY <4>2 DEF UpdateDict
      <4> QED
        BY <3>3, <4>3, <2>2 DEF record_from_object
    <3>4. BodiesDoNotRun => AsksFor(s, update_model(img[s], rec))
      BY <2>1, <3>2, <3>3 DEF AsksFor
    <3>5. KeepsRun(s, update_model(img[s], rec))
      <4>1. rec.workflow \in WorkflowPart
        BY <2>2, <2>5 DEF HasAllKeys, Body
      <4>2. update_model(img[s], rec).id_workflow = rec.workflow.id_workflow
        BY <2>2 DEF update_model, Row
      <4>3. CASE rec.workflow = b.workflow
        BY <4>1, <4>2, <4>3 DEF KeepsRun, RunsAreKnown
      <4>4. CASE rec.workflow = record_from_object(img[s]).workflow
        BY <2>2, <4>2, <4>4 DEF KeepsRun, RunsAreKnown, record_from_object, Row
      <4> QED
        BY <4>3, <4>4 DEF UpdateDict
    <3>6. Heeds(s, update_model(img[s], rec))
      <4>1. update_model(img[s], rec).id_workflow = rec.workflow.id_workflow
        BY <2>2 DEF update_model, Row
      <4>2. ASSUME BodiesLeaveRun
            PROVE  rec.workflow.id_workflow = img[s].id_workflow
        <5>1. rec.workflow \in WorkflowPart /\ b.workflow \notin WorkflowPart
          BY <2>2, <2>5, <4>2 DEF HasAllKeys, Body, BodiesLeaveRun
        <5>2. rec.workflow = record_from_object(img[s]).workflow
          BY <5>1 DEF UpdateDict
        <5> QED
          BY <2>2, <4>2, <5>2 DEF record_from_object, Row, BodiesLeaveRun
      <4> QED
        BY <2>1, <4>1, <4>2 DEF Heeds
    <3> QED
      BY <1>1, <2>1, <2>5, <3>1, <3>4, <3>5, <3>6
  <2> QED
    BY <2>3, <2>4, <2>5 DEF Store, Code
<1>4. CASE restart_step(s)
  <2> DEFINE new == [img[s] EXCEPT !.status = "RUNNING"]
  <2>1. /\ KeepsRun(s, new) /\ Heeds(s, new) /\ new \in Row
        /\ pc[s] = "loaded" /\ req[s].op = "restart_step"
    BY <1>4, ImageIsRow DEF restart_step, Handles, Row, Status, KeepsRun, Heeds
  <2>2. AsksFor(s, new) /\ Save(s, new)
    BY <1>4, <2>1 DEF AsksFor, Dispatching, restart_step
  <2> QED
    BY <1>1, <2>1, <2>2
<1>5. CASE restart(s)
  <2> DEFINE new == [img[s] EXCEPT !.status = "RUNNING", !.callback_pos = 0]
  <2>1. /\ KeepsRun(s, new) /\ Heeds(s, new) /\ new \in Row
        /\ pc[s] = "loaded" /\ req[s].op = "restart"
    BY <1>5, ImageIsRow, RecordAssumption DEF restart, Handles, Row, Status, KeepsRun, Heeds
  <2>2. AsksFor(s, new) /\ Save(s, new)
    BY <1>5, <2>1 DEF AsksFor, Dispatching, restart
  <2> QED
    BY <1>1, <2>1, <2>2
<1>6. ASSUME NEW p \in Positions \cup {Absent}, resume(s, p)
      PROVE  Goal
  <2> DEFINE new == [img[s] EXCEPT !.status = "RUNNING",
                       !.callback_pos = IF p = Absent THEN @ ELSE p]
  <2>1. /\ KeepsRun(s, new) /\ Heeds(s, new) /\ new \in Row
        /\ pc[s] = "loaded" /\ req[s].op = "resume"
    BY <1>6, ImageIsRow DEF resume, Handles, Row, Status, KeepsRun, Heeds
  <2>2. AsksFor(s, new) /\ Save(s, new)
    BY <1>6, <2>1 DEF AsksFor, Dispatching, resume
  <2> QED
    BY <1>1, <2>1, <2>2
<1>7. ASSUME NEW d \in Metadata, resolve(s, d)
      PROVE  Goal
  <2> DEFINE new == [img[s] EXCEPT !.data = d, !.extra_data = None]
  <2>1. /\ KeepsRun(s, new) /\ new \in Row /\ new.status = img[s].status
        /\ pc[s] = "loaded" /\ req[s].op = "resolve"
    BY <1>7, ImageIsRow DEF resolve, Handles, Row, KeepsRun
  <2>2. AsksFor(s, new)
    BY <2>1 DEF AsksFor
  <2>3. CASE \E code \in Code : Finish(s, code) /\ UNCHANGED store
    BY <1>2, <2>1, <2>3
  <2>4. CASE img[s].extra_data \in Handlers /\ Save(s, new)
    <3>1. Heeds(s, new)
      BY <2>1, <2>4, PenAssumption DEF Heeds
    <3> QED
      BY <1>1, <2>1, <2>2, <2>4, <3>1
  <2> QED
    BY <1>7, <2>3, <2>4 DEF resolve, Code
<1>8. ASSUME NEW p \in Positions, NEW d \in Metadata, NEW a \in ActionNames,
             Halt(s, p, d, a)
      PROVE  Goal
  <2> DEFINE new == [img[s] EXCEPT !.status = "HALTED", !.callback_pos = p,
                                   !.data = d, !.extra_data = a]
  <2>1. /\ KeepsRun(s, new) /\ Heeds(s, new) /\ new \in Row
        /\ new.status = "HALTED" /\ pc[s] = "loaded"
    BY <1>8, ImageIsRow DEF Halt, Handles, Row, Status, KeepsRun, Heeds
  <2>2. AsksFor(s, new) /\ Save(s, new)
    BY <1>8, <2>1 DEF AsksFor, Halt
  <2> QED
    BY <1>1, <2>1, <2>2
<1>9. ASSUME NEW p \in Positions, NEW d \in Metadata,
             NEW st \in {"COMPLETED", "ERROR"}, End(s, st, p, d)
      PROVE  Goal
  <2> DEFINE new == [img[s] EXCEPT !.status = st, !.callback_pos = p, !.data = d]
  <2>1. /\ KeepsRun(s, new) /\ Heeds(s, new) /\ new \in Row
        /\ new.status # "RUNNING" /\ pc[s] = "loaded"
    BY <1>9, ImageIsRow DEF End, Handles, Row, Status, KeepsRun, Heeds
  <2>2. AsksFor(s, new) /\ Save(s, new)
    BY <1>9, <2>1 DEF AsksFor, End
  <2> QED
    BY <1>1, <2>1, <2>2
<1>10. CASE delete_from_index(s)
  <2>1. pc[s] = "loaded" /\ req[s].op = "delete" /\ img[s] \in Row
    BY <1>10, ImageIsRow DEF delete_from_index, Handles
  <2>2. record_to_index(record_from_object(img[s])) \in Indices \cup {None}
    BY <2>1, RecordType, IndexType
  <2>3. CASE Finish(s, 500) /\ UNCHANGED store
    BY <1>2, <2>1, <2>3 DEF Code
  <2>4. CASE ~(Finish(s, 500) /\ UNCHANGED store)
    BY <1>10, <2>1, <2>2, <2>4 DEF delete_from_index, Unindex, Goto
  <2> QED
    BY <2>3, <2>4
<1>11. CASE NothingToDelay(s)
  BY <1>11 DEF NothingToDelay, GivesUp, Code
<1> QED
  BY <1>3, <1>4, <1>5, <1>6, <1>7, <1>8, <1>9, <1>10, <1>11 DEF Work

(* s has begun a run of o.                                                 *)
Runs(s, o) ==
    /\ pc'[s] = "loaded"
    /\ req'[s].op = "run" /\ req'[s].obj = o
    /\ img'[s] = row[o]

(* s starts to work on an object that is there, or finds it gone.          *)
Starts(s) ==
    /\ pc[s] = "idle"
    /\ queue' \subseteq queue
    /\ UNCHANGED <<row, docs, clock, pend>>
    /\ \/ \E r \in Request :
            /\ row[r.obj] # None
            /\ pc' = [pc EXCEPT ![s] = "loaded"]
            /\ req' = [req EXCEPT ![s] = r]
            /\ img' = [img EXCEPT ![s] = row[r.obj]]
       \/ UNCHANGED <<pc, img>> /\ \E r : req' = [req EXCEPT ![s] = r]
    /\ \A t \in queue : t \notin queue' /\ row[t.obj] # None => Runs(s, t.obj)

(* A request that is received or a task that is taken starts a session.    *)
LEMMA StartKinds ==
    ASSUME TypeOK, NEW s \in Sessions,
           \/ \E op \in Ops, o \in Objects : Receive(s, op, o)
           \/ \E t \in queue : TakeTask(s, t)
    PROVE  Starts(s)
<1>1. ASSUME NEW op \in Ops \cup {"run"}, NEW o \in Objects, row[o] # None,
             pc[s] = "idle", Load(s, op, o), queue' \subseteq queue,
             \A t \in queue : t \notin queue' => op = "run" /\ t.obj = o,
             UNCHANGED <<row, docs, clock>>
      PROVE  Starts(s)
  <2> DEFINE r == [op |-> op, obj |-> o]
  <2>1. r \in Request /\ r.obj = o /\ r.op = op
    BY DEF Request
  <2>2. /\ pc' = [pc EXCEPT ![s] = "loaded"]
        /\ req' = [req EXCEPT ![s] = r]
        /\ img' = [img EXCEPT ![s] = row[r.obj]]
        /\ UNCHANGED pend
    BY <1>1 DEF Load, Goto
  <2> HIDE DEF r
  <2>3. \A t \in queue : t \notin queue' /\ row[t.obj] # None => Runs(s, t.obj)
    BY <1>1, <2>1, <2>2 DEF TypeOK, Runs
  <2> QED
    BY <1>1, <2>1, <2>2, <2>3 DEF Starts
<1>2. ASSUME NEW op \in Ops, NEW o \in Objects, Receive(s, op, o)
      PROVE  Starts(s)
  <2>1. CASE row[o] # None /\ Load(s, op, o)
    BY <1>1, <1>2, <2>1 DEF Receive, store
  <2>2. CASE /\ req' = [req EXCEPT ![s] = [op |-> op, obj |-> o]]
             /\ UNCHANGED <<pc, img, pend>>
    BY <1>2, <2>2 DEF Receive, store, Starts
  <2> QED
    BY <1>2, <2>1, <2>2 DEF Receive
<1>3. ASSUME NEW t \in queue, TakeTask(s, t)
      PROVE  Starts(s)
  <2>1. t.obj \in Objects /\ queue' = queue \ {t} /\ pc[s] = "idle"
    BY <1>3 DEF TypeOK, Task, TakeTask
  <2>2. CASE row[t.obj] # None /\ Load(s, "run", t.obj)
    BY <1>1, <1>3, <2>1, <2>2 DEF TakeTask
  <2>3. CASE row[t.obj] = None /\ UNCHANGED <<pc, req, img, pend, reply>>
    <3>1. req' = [req EXCEPT ![s] = req[s]]
      BY <2>3 DEF TypeOK
    <3> QED
      BY <1>3, <2>1, <2>3, <3>1 DEF TakeTask, Starts
  <2> QED
    BY <1>3, <2>2, <2>3 DEF TakeTask
<1> QED
  BY <1>2, <1>3

(* Every step is of one of these kinds.                                    *)
Kind(s) ==
    \/ Starts(s)
    \/ GivesUp(s)
    \/ \E new \in Row : /\ Flush(s, new) /\ (BodiesDoNotRun => AsksFor(s, new))
                        /\ KeepsRun(s, new) /\ Heeds(s, new)
    \/ index_workflow_object(s)
    \/ IndexFails(s)
    \/ Unindex(s)
    \/ DeleteRow(s)
    \/ Commit(s)
    \/ delay(s)

(* Every step is of one of these kinds, by some session.                   *)
LEMMA StepKinds ==
    ASSUME TypeOK, [Next]_vars
    PROVE  UNCHANGED vars \/ \E s \in Sessions : Kind(s)
<1>1. ASSUME NEW s \in Sessions, Work(s)
      PROVE  Kind(s)
  BY <1>1, WorkKinds DEF Kind
<1>2. ASSUME NEW s \in Sessions, Fault(s)
      PROVE  Kind(s)
  <2>1. CASE IndexFails(s)
    BY <2>1 DEF Kind
  <2>2. CASE CommitFails(s)
    BY <2>2 DEF CommitFails, GivesUp, Code, Kind
  <2>3. CASE DelayFails(s)
    BY <2>3 DEF DelayFails, GivesUp, Code, Kind
  <2>4. CASE Crash(s)
    BY <2>4 DEF Crash, GivesUp, Code, Kind
  <2> QED
    BY <1>2, <2>1, <2>2, <2>3, <2>4 DEF Fault
<1>3. ASSUME NEW s \in Sessions,
             \/ \E op \in Ops, o \in Objects : Receive(s, op, o)
             \/ \E t \in queue : TakeTask(s, t)
      PROVE  Kind(s)
  BY <1>3, StartKinds DEF Kind
<1> QED
  BY <1>1, <1>2, <1>3 DEF Next, Quiesced

-----------------------------------------------------------------------------
(* Transactions.                                                           *)

Inv ==
    /\ TypeOK
    /\ Transactional
    /\ StampIdentifiesContent
    /\ TaskFollowsCommit

(* Every stamp is a number.                                                *)
LEMMA StampType ==
    ASSUME TypeOK
    PROVE  /\ clock \in Nat
           /\ \A o \in Objects : row[o] # None => row[o].modified \in Nat
           /\ \A s \in Sessions : img[s] # None => img[s].modified \in Nat
           /\ \A s \in Sessions : pend[s] # None => pend[s].modified \in Nat
           /\ \A i \in Indices, o \in Objects :
                 docs[i][o] # None => docs[i][o].updated \in Nat
           /\ \A t \in queue : t.stamp \in Nat /\ t.obj \in Objects
BY DEF TypeOK, Row, Doc, Task

(* At the start nothing is flushed, and every document is its row's.       *)
LEMMA InitInv == Init => Inv
<1> SUFFICES ASSUME Init PROVE Inv
  OBVIOUS
<1>1. TypeOK
  BY InitType
<1>2. \A o \in Objects : row[o] \in HaltedRow /\ row[o].modified = 0
  BY DEF Init, HaltedRow
<1>3. \A i \in Indices, o \in Objects :
        docs[i][o] # None => docs[i][o] = prepare_record(row[o])
  BY DEF Init
<1>4. StampsAreGiven
  <2>1. \A i \in Indices, o \in Objects : docs[i][o] # None => docs[i][o].updated = 0
    <3>1. \A w : prepare_record(w).updated = w.modified
      BY DEF prepare_record
    <3> QED
      BY <1>2, <1>3, <3>1
  <2>2. clock = 0 /\ \A s \in Sessions : img[s] = None
    BY DEF Init
  <2> QED
    BY <1>2, <2>1, <2>2 DEF StampsAreGiven
<1>5. StampIdentifiesContent
  <2>1. \A w : SavedAlike(prepare_record(w), w)
    BY DEF SavedAlike, prepare_record, record_from_object
  <2> QED
    BY <1>3, <2>1 DEF StampIdentifiesContent
<1>6. /\ OneWriter /\ FlushedIsNext /\ FlushedStampIdentifiesContent
      /\ CommittedIsKept /\ TaskFollowsCommit
  BY DEF Init, OneWriter, Holds, FlushedIsNext, Flushed, CommittedIsKept,
         FlushedStampIdentifiesContent, TaskFollowsCommit
<1> QED
  BY <1>1, <1>4, <1>5, <1>6 DEF Inv, Transactional

(* Loading, giving up and the steps of a delete before its commit write no *)
(* row and no stamp.                                                       *)
LEMMA StartKeepsInv ==
    ASSUME Inv, TypeOK', NEW s \in Sessions, Starts(s)
    PROVE  Inv'
<1>1. /\ \A r \in Sessions : pc'[r] # pc[r] => r = s /\ pc'[r] = "loaded"
      /\ \A r \in Sessions : r # s => req'[r] = req[r] /\ img'[r] = img[r]
      /\ pc'[s] \in {"idle", "loaded"}
      /\ UNCHANGED <<row, docs, clock, pend>> /\ queue' \subseteq queue
      /\ img'[s] # None => img'[s] = img[s] \/ \E o \in Objects :
                              row[o] # None /\ img'[s] = row[o]
  BY DEF Inv, TypeOK, Starts, Request
<1>2. OneWriter' /\ FlushedStampIdentifiesContent' /\ CommittedIsKept'
  BY <1>1 DEF Inv, Transactional, OneWriter, Holds, Flushed,
              FlushedStampIdentifiesContent, CommittedIsKept
<1>3. FlushedIsNext' /\ StampsAreGiven'
  BY <1>1 DEF Inv, Transactional, FlushedIsNext, Flushed, StampsAreGiven
<1>4. StampIdentifiesContent' /\ TaskFollowsCommit'
  BY <1>1 DEF Inv, StampIdentifiesContent, TaskFollowsCommit
<1> QED
  BY <1>2, <1>3, <1>4 DEF Inv, Transactional

(* What a session that gives up leaves behind is rolled back.              *)
LEMMA GiveUpKeepsInv ==
    ASSUME Inv, TypeOK', NEW s \in Sessions, GivesUp(s)
    PROVE  Inv'
<1>1. /\ pc'[s] = "idle" /\ img'[s] = None
      /\ \A r \in Sessions : r # s => /\ pc'[r] = pc[r] /\ img'[r] = img[r]
                                     /\ pend'[r] = pend[r]
      /\ UNCHANGED <<row, docs, queue, clock, req>>
  BY DEF Inv, TypeOK, GivesUp, Finish, Goto, store
<1>2. OneWriter' /\ FlushedStampIdentifiesContent' /\ CommittedIsKept'
  BY <1>1 DEF Inv, Transactional, OneWriter, Holds, Flushed,
              FlushedStampIdentifiesContent, CommittedIsKept
<1>3. FlushedIsNext' /\ StampsAreGiven'
  BY <1>1 DEF Inv, Transactional, FlushedIsNext, Flushed, StampsAreGiven
<1>4. StampIdentifiesContent' /\ TaskFollowsCommit'
  BY <1>1 DEF Inv, StampIdentifiesContent, TaskFollowsCommit
<1> QED
  BY <1>2, <1>3, <1>4 DEF Inv, Transactional

(* A flush takes a stamp nothing has yet, and a row nobody holds.          *)
LEMMA FlushKeepsInv ==
    ASSUME Inv, TypeOK', NEW s \in Sessions, NEW new \in Row, Flush(s, new)
    PROVE  Inv'
<1> DEFINE o == req[s].obj
           stamped == [new EXCEPT !.modified = clock + 1]
           written == UpdateStatement(row[o], img[s], stamped)
<1>1. /\ o \in Objects /\ img[s] \in Row /\ row[o] \in Row
  BY ImageIsRow DEF Inv, Flush, TypeOK
<1>2. /\ pc[s] = "loaded" /\ Unlocked(o)
      /\ clock' = clock + 1 /\ pc'[s] = "saved"
      /\ img'[s] = stamped /\ pend'[s] = written
      /\ \A r \in Sessions : r # s => /\ pc'[r] = pc[r] /\ img'[r] = img[r]
                                     /\ pend'[r] = pend[r]
      /\ UNCHANGED <<row, docs, queue, req>>
  BY DEF Inv, TypeOK, Flush
<1>3. stamped.modified = clock + 1 /\ written.modified = clock + 1
  BY DEF Row, UpdateStatement
<1>4. SavedAlike(prepare_record(stamped), written)
  BY DEF SavedAlike, prepare_record, record_from_object, UpdateStatement, Row
<1>5. /\ clock \in Nat
      /\ row[o].modified <= clock /\ row[o].modified \in Nat
      /\ \A i \in Indices : docs[i][o] # None => /\ docs[i][o].updated \in Nat
                                               /\ docs[i][o].updated <= clock
  BY <1>1, StampType, SentinelAssumption DEF Inv, Transactional, StampsAreGiven
<1> HIDE DEF stamped, written
<1>6. OneWriter'
  BY <1>2 DEF Inv, Transactional, OneWriter, Holds, Unlocked
<1>7. StampsAreGiven'
  BY <1>2, <1>3, StampType DEF Inv, Transactional, StampsAreGiven
<1>8. FlushedIsNext'
  <2> SUFFICES ASSUME NEW r \in Sessions, Flushed(r)'
               PROVE  (/\ row[req[r].obj] # None
                       /\ row[req[r].obj].modified < pend[r].modified
                       /\ pend[r].modified = img[r].modified
                       /\ SavedAlike(prepare_record(img[r]), pend[r]))'
    BY DEF FlushedIsNext
  <2>1. CASE r = s
    <3>1. row[o] # None
      BY DEF Flush
    <3>2. row[o].modified < clock + 1
      BY <1>5
    <3> QED
      BY <2>1, <3>1, <3>2, <1>2, <1>3, <1>4
  <2>2. CASE r # s
    BY <1>2, <2>2 DEF Inv, Transactional, FlushedIsNext, Flushed
  <2> QED
    BY <2>1, <2>2
<1>9. FlushedStampIdentifiesContent'
  BY <1>2, <1>3, <1>5
  DEF Inv, Transactional, FlushedStampIdentifiesContent, Flushed
<1>10. CommittedIsKept'
  BY <1>2 DEF Inv, Transactional, CommittedIsKept
<1>11. StampIdentifiesContent' /\ TaskFollowsCommit'
  BY <1>2 DEF Inv, StampIdentifiesContent, TaskFollowsCommit
<1> QED
  BY <1>6, <1>7, <1>8, <1>9, <1>10, <1>11 DEF Inv, Transactional

(* Indexing leaves a document alone or replaces it by that of the object   *)
(* being saved.                                                            *)
LEMMA IndexPuts ==
    ASSUME TypeOK, NEW s \in Sessions, index_workflow_object(s)
    PROVE  \A j \in Indices, p \in Objects :
              \/ docs'[j][p] = docs[j][p]
              \/ p = req[s].obj /\ docs'[j][p] = prepare_record(img[s])
<1> DEFINE o == req[s].obj
           d == prepare_record(img[s])
           i == record_to_index(record_from_object(img[s]))
<1>1. o \in Objects /\ i \in Indices \cup {None}
  BY ImageIsRow, RecordType, IndexType DEF index_workflow_object
<1>2. docs' = IF i = None THEN docs ELSE [docs EXCEPT ![i][o] = d]
  BY DEF index_workflow_object, index
<1>3. docs \in [Indices -> [Objects -> Doc \cup {None}]]
  BY DEF TypeOK
<1> SUFFICES \A j \in Indices, p \in Objects :
                docs'[j][p] = docs[j][p] \/ (p = o /\ docs'[j][p] = d)
  OBVIOUS
<1> HIDE DEF o, d, i
<1>4. CASE i = None
  BY <1>2, <1>4
<1>5. CASE i \in Indices
  BY <1>1, <1>2, <1>3, <1>5, RecordAssumption
<1> QED
  BY <1>1, <1>4, <1>5

(* The document written is that of the object flushed: its stamp is newer  *)
(* than the row's, and nobody else has flushed this object.                *)
LEMMA IndexKeepsInv ==
    ASSUME Inv, TypeOK', NEW s \in Sessions, index_workflow_object(s)
    PROVE  Inv'
<1> DEFINE o == req[s].obj
           d == prepare_record(img[s])
           i == record_to_index(record_from_object(img[s]))
<1>1. /\ o \in Objects /\ img[s] \in Row /\ d \in Doc
      /\ d.updated = img[s].modified /\ pc[s] = "saved"
      /\ i \in Indices \cup {None}
  BY ImageIsRow, DocType, RecordType, IndexType
  DEF Inv, index_workflow_object, prepare_record
<1>2. /\ \A r \in Sessions : r # s => pc'[r] = pc[r]
      /\ pc'[s] = "indexed"
      /\ UNCHANGED <<row, queue, clock, req, img, pend>>
  BY DEF Inv, TypeOK, index_workflow_object, Goto
<1>3. \A j \in Indices, p \in Objects :
        docs'[j][p] = docs[j][p] \/ (p = o /\ docs'[j][p] = d)
  BY IndexPuts DEF Inv
<1>4. /\ row[o] # None
      /\ row[o].modified < pend[s].modified
      /\ pend[s].modified = d.updated
      /\ SavedAlike(d, pend[s])
  BY <1>1 DEF Inv, Transactional, FlushedIsNext, Flushed
<1>5. row[o].modified \in Nat /\ pend[s].modified \in Nat /\ d.updated <= clock
  BY <1>1, <1>4, StampType, SentinelAssumption
  DEF Inv, TypeOK, Transactional, StampsAreGiven
<1> HIDE DEF d, i
<1>6. OneWriter' /\ CommittedIsKept' /\ FlushedIsNext'
  BY <1>1, <1>2 DEF Inv, Transactional, OneWriter, Holds, Flushed,
                    CommittedIsKept, FlushedIsNext
<1>7. StampsAreGiven'
  BY <1>2, <1>3, <1>5 DEF Inv, Transactional, StampsAreGiven
<1>8. FlushedStampIdentifiesContent'
  <2> SUFFICES ASSUME NEW j \in Indices, NEW r \in Sessions, Flushed(r)',
                      (/\ docs[j][req[r].obj] # None
                       /\ docs[j][req[r].obj].updated = pend[r].modified)'
               PROVE  SavedAlike(docs[j][req[r].obj], pend[r])'
    BY DEF FlushedStampIdentifiesContent
  <2>1. Flushed(r) /\ req[r].obj \in Objects
    BY <1>1, <1>2, ImageIsRow DEF Flushed, Inv, TypeOK
  <2>2. req[r].obj = o => r = s
    BY <1>1, <2>1 DEF Inv, Transactional, OneWriter, Holds, Flushed
  <2>3. CASE docs'[j][req[r].obj] = docs[j][req[r].obj]
    BY <1>2, <2>1, <2>3
    DEF Inv, Transactional, FlushedStampIdentifiesContent
  <2>4. CASE req[r].obj = o /\ docs'[j][o] = d
    BY <1>2, <1>4, <2>2, <2>4
  <2> QED
    BY <1>3, <2>1, <2>3, <2>4
<1>9. StampIdentifiesContent'
  BY <1>2, <1>3, <1>4, <1>5 DEF Inv, StampIdentifiesContent
<1>10. TaskFollowsCommit'
  BY <1>2 DEF Inv, TaskFollowsCommit
<1> QED
  BY <1>6, <1>7, <1>8, <1>9, <1>10 DEF Inv, Transactional

(* A document that was not sent changes nothing the invariant speaks of.   *)
LEMMA IndexFailsKeepsInv ==
    ASSUME Inv, TypeOK', NEW s \in Sessions, IndexFails(s)
    PROVE  Inv'
<1>1. /\ \A r \in Sessions : r # s => pc'[r] = pc[r]
      /\ pc[s] = "saved" /\ pc'[s] = "indexed"
      /\ UNCHANGED <<row, docs, queue, clock, req, img, pend>>
  BY DEF Inv, TypeOK, IndexFails, Goto, store
<1>2. OneWriter' /\ CommittedIsKept' /\ FlushedIsNext'
  BY <1>1 DEF Inv, Transactional, OneWriter, Holds, Flushed,
              CommittedIsKept, FlushedIsNext
<1>3. StampsAreGiven' /\ FlushedStampIdentifiesContent'
  BY <1>1 DEF Inv, Transactional, StampsAreGiven, Flushed,
              FlushedStampIdentifiesContent
<1>4. StampIdentifiesContent' /\ TaskFollowsCommit'
  BY <1>1 DEF Inv, StampIdentifiesContent, TaskFollowsCommit
<1> QED
  BY <1>2, <1>3, <1>4 DEF Inv, Transactional

(* A delete takes a document away, then the lock of a row nobody holds.    *)
LEMMA DeleteKeepsInv ==
    ASSUME Inv, TypeOK', NEW s \in Sessions, Unindex(s) \/ DeleteRow(s)
    PROVE  Inv'
<1>1. /\ \A r \in Sessions : r # s => pc'[r] = pc[r]
      /\ pc'[s] = "unindexed" \/ (pc'[s] = "removed" /\ Unlocked(req[s].obj))
      /\ UNCHANGED <<row, queue, clock, req, img, pend>>
  BY DEF Inv, TypeOK, Unindex, DeleteRow, Goto, store
<1>2. \A j \in Indices, p \in Objects :
        docs'[j][p] = docs[j][p] \/ docs'[j][p] = None
  <2>1. docs \in [Indices -> [Objects -> Doc \cup {None}]]
    BY DEF Inv, TypeOK
  <2>2. CASE Unindex(s)
    <3>1. PICK i \in Indices : docs' = [docs EXCEPT ![i][req[s].obj] = None]
      BY <2>2 DEF Unindex
    <3> QED
      BY <2>1, <3>1
  <2>3. CASE DeleteRow(s)
    BY <2>3 DEF DeleteRow, store
  <2> QED
    BY <2>2, <2>3
<1>3. OneWriter' /\ CommittedIsKept' /\ FlushedIsNext'
  BY <1>1 DEF Inv, Transactional, OneWriter, Holds, Unlocked, Flushed,
              CommittedIsKept, FlushedIsNext
<1>4. StampsAreGiven' /\ StampIdentifiesContent' /\ TaskFollowsCommit'
  BY <1>1, <1>2 DEF Inv, Transactional, StampsAreGiven,
                    StampIdentifiesContent, TaskFollowsCommit
<1>5. FlushedStampIdentifiesContent'
  <2>1. \A r \in Sessions : Flushed(r)' =>
          /\ Flushed(r) /\ req'[r] = req[r] /\ pend'[r] = pend[r]
          /\ req[r].obj \in Objects
    BY <1>1, ImageIsRow DEF Inv, Flushed
  <2> QED
    BY <1>2, <2>1 DEF Inv, Transactional, FlushedStampIdentifiesContent
<1> QED
  BY <1>3, <1>4, <1>5 DEF Inv, Transactional

(* A commit writes the row its session holds: no other session has flushed *)
(* it, no document newer than the old row contradicts the new one, and     *)
(* what tasks and committed requests rely on only grows newer.             *)
LEMMA CommitKeepsInv ==
    ASSUME Inv, TypeOK', NEW s \in Sessions, Commit(s)
    PROVE  Inv'
<1> DEFINE o == req[s].obj
<1>1. /\ o \in Objects /\ Holds(s, o) /\ img[s] \in Row
      /\ row \in [Objects -> Row \cup {None}]
  BY ImageIsRow DEF Inv, TypeOK, Commit, Holds
<1>2. \A r \in Sessions : r # s => ~Holds(r, o)
  BY <1>1 DEF Inv, Transactional, OneWriter
<1>3. /\ \A r \in Sessions : r # s => /\ pc'[r] = pc[r] /\ img'[r] = img[r]
                                     /\ pend'[r] = pend[r]
      /\ UNCHANGED <<docs, queue, clock, req>>
      /\ \A p \in Objects : p # o => row'[p] = row[p]
      /\ pc'[s] \in {"idle", "committed"}
      /\ pc'[s] = "committed" => img'[s] = img[s] /\ row'[o] = pend[s]
      /\ pc'[s] = "idle" => img'[s] = None
  BY <1>1 DEF Inv, TypeOK, Commit, Finish, Goto
<1>4. row'[o] = None \/ (Flushed(s) /\ row'[o] = pend[s] /\ pend[s] \in Row)
  BY <1>1 DEF Inv, TypeOK, Commit, Flushed
<1>5. CASE row'[o] = None
  <2>1. pc'[s] = "idle"
    BY <1>1, <1>3, <1>5, <1>4, SentinelAssumption DEF Commit, Finish, Goto, Inv, TypeOK
  <2>2. OneWriter' /\ CommittedIsKept'
    <3>1. OneWriter'
      BY <1>3, <2>1 DEF Inv, Transactional, OneWriter, Holds
    <3>2. ASSUME NEW r \in Sessions, pc'[r] = "committed",
                 row'[req[r].obj] # None
          PROVE  img'[r].modified <= row'[req[r].obj].modified
      <4>1. r # s /\ pc[r] = "committed" /\ req[r].obj \in Objects
        BY <1>3, <2>1, <3>2, ImageIsRow DEF Inv
      <4>2. req[r].obj # o
        BY <1>5, <3>2
      <4> QED
        BY <1>3, <3>2, <4>1, <4>2 DEF Inv, Transactional, CommittedIsKept
    <3>3. CommittedIsKept'
      BY <1>3, <3>2 DEF CommittedIsKept
    <3> QED
      BY <3>1, <3>3
  <2>3. FlushedIsNext'
    BY <1>2, <1>3, <2>1, ImageIsRow
    DEF Inv, Transactional, FlushedIsNext, Flushed, Holds
  <2>4. StampsAreGiven' /\ FlushedStampIdentifiesContent'
    BY <1>1, <1>3, <1>5, <2>1 DEF Inv, Transactional, StampsAreGiven, Flushed,
                                  FlushedStampIdentifiesContent
  <2>5. StampIdentifiesContent' /\ TaskFollowsCommit'
    BY <1>3, <1>5, StampType DEF Inv, StampIdentifiesContent, TaskFollowsCommit
  <2> QED
    BY <2>2, <2>3, <2>4, <2>5 DEF Inv, Transactional
<1>6. CASE Flushed(s) /\ row'[o] = pend[s] /\ pend[s] \in Row
  <2>1. /\ row[o] # None /\ row[o].modified < pend[s].modified
        /\ pend[s].modified = img[s].modified
        /\ img[s].modified <= clock
    BY <1>1, <1>6, SentinelAssumption
    DEF Inv, Transactional, FlushedIsNext, StampsAreGiven
  <2>2. /\ clock \in Nat /\ row[o].modified \in Nat
        /\ pend[s].modified \in Nat
    BY <1>1, <1>6, <2>1, StampType, SentinelAssumption DEF Inv
  <2>3. OneWriter'
    BY <1>3 DEF Inv, Transactional, OneWriter, Holds
  <2>4. CommittedIsKept'
    <3> SUFFICES ASSUME NEW r \in Sessions, pc'[r] = "committed",
                        row'[req[r].obj] # None
                 PROVE  img'[r].modified <= row'[req[r].obj].modified
      BY <1>3 DEF CommittedIsKept
    <3>1. CASE r = s
      BY <1>3, <1>6, <2>1, <2>2, <3>1
    <3>2. CASE r # s
      <4>1. /\ pc[r] = "committed" /\ img'[r] = img[r] /\ img[r] \in Row
            /\ req[r].obj \in Objects
        BY <1>3, <3>2, ImageIsRow DEF Inv
      <4>2. img[r].modified \in Nat
        BY <4>1 DEF Row
      <4>3. CASE req[r].obj = o
        <5>1. img[r].modified <= row[o].modified
          BY <2>1, <4>1, <4>3 DEF Inv, Transactional, CommittedIsKept
        <5> QED
          BY <1>6, <2>1, <2>2, <4>1, <4>2, <4>3, <5>1
      <4>4. CASE req[r].obj # o
        BY <1>3, <4>1, <4>4 DEF Inv, Transactional, CommittedIsKept
      <4> QED
        BY <4>3, <4>4
    <3> QED
      BY <3>1, <3>2
  <2>5. FlushedIsNext'
    BY <1>2, <1>3, ImageIsRow
    DEF Inv, Transactional, FlushedIsNext, Flushed, Holds
  <2>6. StampsAreGiven'
    BY <1>3, <1>6, <2>1 DEF Inv, Transactional, StampsAreGiven
  <2>7. FlushedStampIdentifiesContent'
    BY <1>3 DEF Inv, Transactional, FlushedStampIdentifiesContent, Flushed
  <2>8. StampIdentifiesContent'
    BY <1>3, <1>6 DEF Inv, Transactional, FlushedStampIdentifiesContent,
                      StampIdentifiesContent
  <2>9. TaskFollowsCommit'
    <3> SUFFICES ASSUME NEW t \in queue, row'[t.obj] # None
                 PROVE  t.stamp <= row'[t.obj].modified
      BY <1>3 DEF TaskFollowsCommit
    <3>1. t.stamp \in Nat /\ t.obj \in Objects
      BY StampType DEF Inv
    <3>2. CASE t.obj = o
      <4>1. t.stamp <= row[o].modified
        BY <2>1, <3>2 DEF Inv, TaskFollowsCommit
      <4> QED
        BY <1>6, <2>1, <2>2, <3>1, <3>2, <4>1
    <3>3. CASE t.obj # o
      BY <1>3, <3>1, <3>3 DEF Inv, TaskFollowsCommit
    <3> QED
      BY <3>2, <3>3
  <2> QED
    BY <2>3, <2>4, <2>5, <2>6, <2>7, <2>8, <2>9 DEF Inv, Transactional
<1> QED
  BY <1>4, <1>5, <1>6

(* The task carries the stamp of a commit that has been kept.              *)
LEMMA DelayKeepsInv ==
    ASSUME Inv, TypeOK', NEW s \in Sessions, delay(s)
    PROVE  Inv'
<1>1. /\ pc[s] = "committed" /\ pc'[s] = "idle" /\ img'[s] = None
      /\ \A r \in Sessions : r # s => /\ pc'[r] = pc[r] /\ img'[r] = img[r]
                                     /\ pend'[r] = pend[r]
      /\ UNCHANGED <<row, docs, clock, req>>
  BY DEF Inv, TypeOK, delay, Finish, Goto
<1>2. \A t \in queue' : \/ t \in queue
                         \/ (t.obj = req[s].obj /\ t.stamp = img[s].modified)
  BY DEF delay
<1>3. OneWriter' /\ FlushedStampIdentifiesContent' /\ CommittedIsKept'
  BY <1>1 DEF Inv, Transactional, OneWriter, Holds, Flushed,
              FlushedStampIdentifiesContent, CommittedIsKept
<1>4. FlushedIsNext' /\ StampsAreGiven' /\ StampIdentifiesContent'
  BY <1>1 DEF Inv, Transactional, FlushedIsNext, Flushed, StampsAreGiven,
              StampIdentifiesContent
<1>5. TaskFollowsCommit'
  BY <1>1, <1>2 DEF Inv, Transactional, CommittedIsKept, TaskFollowsCommit
<1> QED
  BY <1>3, <1>4, <1>5 DEF Inv, Transactional

(* Every step keeps the invariant, one lemma above for each kind of step.  *)
LEMMA NextInv == Inv /\ [Next]_vars => Inv'
<1> SUFFICES ASSUME Inv, [Next]_vars PROVE Inv'
  OBVIOUS
<1>1. TypeOK'
  BY NextType DEF Inv
<1>2. CASE UNCHANGED vars
  BY <1>1, <1>2
  DEF vars, Inv, Transactional, OneWriter, Holds, StampsAreGiven, FlushedIsNext,
      Flushed, FlushedStampIdentifiesContent, CommittedIsKept,
      StampIdentifiesContent, TaskFollowsCommit
<1>3. ASSUME NEW s \in Sessions, Kind(s)
      PROVE  Inv'
  <2>1. CASE Starts(s)
    BY <1>1, <2>1, StartKeepsInv
  <2>2. CASE GivesUp(s)
    BY <1>1, <2>2, GiveUpKeepsInv
  <2>3. ASSUME NEW new \in Row, Flush(s, new) PROVE Inv'
    BY <1>1, <2>3, FlushKeepsInv
  <2>4. CASE index_workflow_object(s)
    BY <1>1, <2>4, IndexKeepsInv
  <2>5. CASE IndexFails(s)
    BY <1>1, <2>5, IndexFailsKeepsInv
  <2>6. CASE Unindex(s) \/ DeleteRow(s)
    BY <1>1, <2>6, DeleteKeepsInv
  <2>7. CASE Commit(s)
    BY <1>1, <2>7, CommitKeepsInv
  <2>8. CASE delay(s)
    BY <1>1, <2>8, DelayKeepsInv
  <2> QED
    BY <1>3, <2>1, <2>2, <2>3, <2>4, <2>5, <2>6, <2>7, <2>8 DEF Kind
<1> QED
  BY <1>2, <1>3, StepKinds DEF Inv

(* The inductive invariant of the transactions.                            *)
THEOREM InvHolds == Spec => []Inv
BY InitInv, NextInv, PTL DEF Spec

(* Sessions at one object are kept apart from flush to commit, for any     *)
(* number of sessions and with every fault (api.py:117-120, 208-249).      *)
THEOREM TransactionsAreSerial == Spec => []Transactional
<1>1. Inv => Transactional
  BY DEF Inv
<1> QED
  BY <1>1, InvHolds, PTL

(* A document with the stamp of the row has the row's content, whatever    *)
(* fails (indexer.py:44-50, api.py:64-77).                                 *)
THEOREM StampsIdentify == Spec => []StampIdentifiesContent
<1>1. Inv => StampIdentifiesContent
  BY DEF Inv
<1> QED
  BY <1>1, InvHolds, PTL

(* No worker takes a task before the commit it follows (api.py:215-216).   *)
THEOREM TasksFollowCommits == Spec => []TaskFollowsCommit
<1>1. Inv => TaskFollowsCommit
  BY DEF Inv
<1> QED
  BY <1>1, InvHolds, PTL

(* A commit writes a row that is still there, or deletes it.               *)
LEMMA NoRowReturns ==
    ASSUME Inv, [Next]_vars, NEW o \in Objects, row[o] = None
    PROVE  row'[o] = None
<1>1. CASE UNCHANGED row
  BY <1>1
<1>2. ASSUME NEW s \in Sessions, Commit(s) PROVE row'[o] = None
  <2>1. row \in [Objects -> Row \cup {None}] /\ req[s].obj \in Objects
    BY <1>2, ImageIsRow DEF Inv, TypeOK, Commit
  <2>2. pc[s] = "indexed" => row[req[s].obj] # None
    BY DEF Inv, Transactional, FlushedIsNext, Flushed
  <2> QED
    BY <1>2, <2>1, <2>2 DEF Commit
<1>3. UNCHANGED vars \/ \E s \in Sessions : Kind(s)
  BY StepKinds DEF Inv
<1> QED
  BY <1>1, <1>2, <1>3
  DEF vars, Kind, Starts, GivesUp, store, Flush, index_workflow_object,
      IndexFails, Unindex, DeleteRow, delay

(* No save brings a deleted object back (api.py:107-120).                  *)
THEOREM DeletedForGood == Spec => NoResurrection
<1>1. Inv /\ [Next]_vars =>
        [\A o \in Objects : row[o] = None => row'[o] = None]_vars
  BY NoRowReturns
<1> QED
  BY <1>1, InvHolds, PTL DEF Spec, NoResurrection

(* No document of an object is newer than what is flushed of it.           *)
FlushedIsNewest ==
    \A s \in Sessions, i \in Indices :
        Flushed(s) /\ docs[i][req[s].obj] # None =>
            docs[i][req[s].obj].updated <= pend[s].modified

(* A flush takes a stamp that no document has, and until it is committed   *)
(* no other session indexes the object.                                    *)
LEMMA NextFlushedIsNewest ==
    ASSUME Inv, FlushedIsNewest, [Next]_vars
    PROVE  FlushedIsNewest'
<1> SUFFICES ASSUME NEW r \in Sessions, NEW i \in Indices,
                    Flushed(r)', docs'[i][req'[r].obj] # None
             PROVE  docs'[i][req'[r].obj].updated <= pend'[r].modified
  BY DEF FlushedIsNewest
<1> DEFINE Same == /\ Flushed(r) /\ req'[r] = req[r] /\ pend'[r] = pend[r]
                   /\ \/ docs'[i][req[r].obj] = docs[i][req[r].obj]
                      \/ docs'[i][req[r].obj] = None
<1>1. CASE Same
  BY <1>1 DEF FlushedIsNewest
<1>2. ASSUME NEW s \in Sessions, Kind(s), ~Same
      PROVE  docs'[i][req'[r].obj].updated <= pend'[r].modified
  <2>1. TypeOK
    BY DEF Inv
  <2>2. CASE Starts(s)
    BY <1>2, <2>1, <2>2 DEF Starts, TypeOK, Flushed
  <2>3. CASE GivesUp(s)
    BY <1>2, <2>1, <2>3 DEF GivesUp, Finish, Goto, store, TypeOK, Flushed
  <2>4. ASSUME NEW new \in Row, Flush(s, new)
        PROVE  docs'[i][req'[r].obj].updated <= pend'[r].modified
    <3>1. CASE r # s
      BY <1>2, <2>1, <2>4, <3>1 DEF Flush, TypeOK, Flushed
    <3>2. CASE r = s
      <4>1. /\ req'[r] = req[r] /\ docs' = docs /\ req[r].obj \in Objects
            /\ pend'[r] = UpdateStatement(row[req[r].obj], img[r],
                                [new EXCEPT !.modified = clock + 1])
        BY <2>1, <2>4, <3>2, ImageIsRow DEF Flush, TypeOK
      <4>2. pend'[r].modified = clock + 1
        BY <4>1 DEF UpdateStatement, Row
      <4>3. docs[i][req[r].obj].updated <= clock
        BY <4>1 DEF Inv, Transactional, StampsAreGiven
      <4> QED
        BY <2>1, <4>1, <4>2, <4>3, StampType
    <3> QED
      BY <3>1, <3>2
  <2>5. CASE index_workflow_object(s)
    <3>1. /\ pc[s] = "saved" /\ pc'[s] = "indexed"
          /\ req'[r] = req[r] /\ pend'[r] = pend[r] /\ Flushed(r)
      BY <2>1, <2>5 DEF index_workflow_object, Goto, TypeOK, Flushed
    <3>2. req[r].obj \in Objects
      BY <2>1, <3>1, ImageIsRow DEF Flushed
    <3>3. docs'[i][req[r].obj] = prepare_record(img[s])
          /\ req[r].obj = req[s].obj
      BY <1>2, <2>1, <2>5, <3>1, <3>2, IndexPuts
    <3>4. r = s
      BY <3>1, <3>2, <3>3
      DEF Inv, Transactional, OneWriter, Holds, Flushed
    <3>5. pend[s].modified = img[s].modified /\ pend[s].modified \in Nat
      BY <2>1, <3>1, <3>4, StampType
      DEF Inv, Transactional, FlushedIsNext, Flushed, TypeOK
    <3> QED
      BY <3>1, <3>3, <3>4, <3>5 DEF prepare_record
  <2>6. CASE Unindex(s)
    <3>1. /\ Flushed(r) /\ req'[r] = req[r] /\ pend'[r] = pend[r]
          /\ req[r].obj \in Objects
      BY <2>1, <2>6, ImageIsRow DEF Unindex, TypeOK, Flushed
    <3>2. docs \in [Indices -> [Objects -> Doc \cup {None}]]
      BY <2>1 DEF TypeOK
    <3> QED
      BY <1>2, <2>6, <3>1, <3>2 DEF Unindex
  <2>7. CASE IndexFails(s) \/ DeleteRow(s) \/ delay(s)
    BY <1>2, <2>1, <2>7
    DEF IndexFails, DeleteRow, delay, Finish, Goto, store, TypeOK, Flushed
  <2>8. CASE Commit(s)
    BY <1>2, <2>1, <2>8 DEF Commit, Finish, Goto, TypeOK, Flushed
  <2> QED
    BY <1>2, <2>2, <2>3, <2>4, <2>5, <2>6, <2>7, <2>8 DEF Kind
<1>3. CASE UNCHANGED vars
  BY <1>1, <1>3 DEF vars, Flushed
<1> QED
  BY <1>1, <1>2, <1>3, StepKinds DEF Inv

(* The invariant of the steps below.                                       *)
NewestHolds == Inv /\ FlushedIsNewest

LEMMA InitNewest == Init => NewestHolds
BY InitInv DEF Init, FlushedIsNewest, Flushed, NewestHolds

LEMMA NextNewest == NewestHolds /\ [Next]_vars => NewestHolds'
BY NextInv, NextFlushedIsNewest DEF NewestHolds

(* A document is only replaced by that of a later save, for any number of  *)
(* sessions and with every fault (indexer.py:53-77, api.py:64-77).         *)
THEOREM NoDocumentGoesBack == Spec => DocumentsMoveForward
<1>1. NewestHolds /\ [Next]_vars =>
        [\A i \in Indices, o \in Objects :
            docs[i][o] # None /\ docs'[i][o] # None =>
                docs[i][o].updated <= docs'[i][o].updated]_vars
  <2> SUFFICES ASSUME Inv, FlushedIsNewest, [Next]_vars,
                      NEW i \in Indices, NEW o \in Objects,
                      docs[i][o] # None, docs'[i][o] # None
               PROVE  docs[i][o].updated <= docs'[i][o].updated
    BY DEF NewestHolds
  <2>1. TypeOK /\ docs[i][o].updated \in Nat
    BY StampType DEF Inv
  <2>2. CASE docs'[i][o] = docs[i][o]
    BY <2>1, <2>2
  <2>3. ASSUME NEW s \in Sessions, index_workflow_object(s), o = req[s].obj,
               docs'[i][o] = prepare_record(img[s])
        PROVE  docs[i][o].updated <= docs'[i][o].updated
    <3>1. Flushed(s) /\ pend[s].modified = img[s].modified
      BY <2>3 DEF Inv, Transactional, FlushedIsNext, Flushed,
                  index_workflow_object
    <3> QED
      BY <2>3, <3>1 DEF FlushedIsNewest, prepare_record
  <2>4. ASSUME NEW s \in Sessions, index_workflow_object(s)
        PROVE  docs[i][o].updated <= docs'[i][o].updated
    BY <2>1, <2>2, <2>3, <2>4, IndexPuts
  <2>5. ASSUME NEW s \in Sessions, Unindex(s)
        PROVE  docs'[i][o] = docs[i][o]
    <3>1. docs \in [Indices -> [Objects -> Doc \cup {None}]]
      BY <2>1 DEF TypeOK
    <3> QED
      BY <2>5, <3>1 DEF Unindex
  <2>6. UNCHANGED docs \/ \E s \in Sessions : Unindex(s)
                                             \/ index_workflow_object(s)
    BY <2>1, StepKinds
    DEF vars, Kind, Starts, GivesUp, store, Flush, IndexFails, DeleteRow,
        Commit, delay
  <2> QED
    BY <2>2, <2>4, <2>5, <2>6
<1> QED
  BY <1>1, InitNewest, NextNewest, PTL DEF Spec, DocumentsMoveForward

(* A save indexes only what it flushed, whose row is there until it is     *)
(* committed: what was deleted does not come back into an index, for any   *)
(* number of sessions and with every fault (receivers.py:32-46).           *)
THEOREM DeletedForReaders == Spec => DeletedStaysOut
<1>1. Inv /\ [Next]_vars =>
        [\A i \in Indices, o \in Objects :
            row[o] = None /\ docs[i][o] = None => docs'[i][o] = None]_vars
  <2> SUFFICES ASSUME Inv, [Next]_vars, NEW i \in Indices, NEW o \in Objects,
                      row[o] = None, docs[i][o] = None
               PROVE  docs'[i][o] = None
    OBVIOUS
  <2>1. TypeOK
    BY DEF Inv
  <2>2. ASSUME NEW s \in Sessions, index_workflow_object(s)
        PROVE  docs'[i][o] = docs[i][o]
    <3>1. row[req[s].obj] # None
      BY <2>2 DEF Inv, Transactional, FlushedIsNext, Flushed,
                  index_workflow_object
    <3> QED
      BY <2>1, <2>2, <3>1, IndexPuts
  <2>3. ASSUME NEW s \in Sessions, Unindex(s)
        PROVE  docs'[i][o] = None
    <3>1. docs \in [Indices -> [Objects -> Doc \cup {None}]]
      BY <2>1 DEF TypeOK
    <3> QED
      BY <2>3, <3>1 DEF Unindex
  <2>4. UNCHANGED docs \/ \E s \in Sessions : Unindex(s)
                                             \/ index_workflow_object(s)
    BY <2>1, StepKinds
    DEF vars, Kind, Starts, GivesUp, store, Flush, IndexFails, DeleteRow,
        Commit, delay
  <2> QED
    BY <2>2, <2>3, <2>4
<1> QED
  BY <1>1, InvHolds, PTL DEF Spec, DeletedStaysOut

-----------------------------------------------------------------------------
(* Running objects.                                                        *)

(* Nothing that holds a task is lost, and no client asks for RUNNING.      *)
NothingLost == Faults \subseteq {"index"} /\ BodiesDoNotRun

(* s will move o on: its commit is to be handed over, or it runs o from    *)
(* RUNNING and has not committed another status yet.  A run that loaded    *)
(* another status does not count: its UPDATE may leave the column alone.   *)
Moves(s, o) ==
    /\ req[s].obj = o
    /\ \/ pc[s] = "committed"
       \/ /\ req[s].op = "run"
          /\ \/ pc[s] = "loaded" /\ img[s].status = "RUNNING"
             \/ Flushed(s) /\ pend[s].status # "RUNNING"

Moving(o) == (\E t \in queue : t.obj = o) \/ (\E s \in Sessions : Moves(s, o))

RunningMoves ==
    \A o \in Objects : row[o] # None /\ row[o].status = "RUNNING" => Moving(o)

(* A flush that leaves RUNNING in the row hands over a task, or found      *)
(* RUNNING there.                                                          *)
FlushedRunning ==
    \A s \in Sessions : Flushed(s) /\ pend[s].status = "RUNNING" =>
        req[s].op \in Dispatching \/ row[req[s].obj].status = "RUNNING"

RunInv == Inv /\ RunningMoves /\ FlushedRunning

(* At the start nothing is RUNNING.                                        *)
LEMMA InitRunInv == Init => RunInv
BY InitInv DEF Init, HaltedRow, RunInv, RunningMoves, FlushedRunning, Flushed

(* A step that changes no row and no flush, and stops no one that moves an *)
(* object.                                                                 *)
LEMMA OthersMove ==
    ASSUME RunInv, NEW s \in Sessions, UNCHANGED row,
           \A r \in Sessions : r # s => /\ pc'[r] = pc[r] /\ req'[r] = req[r]
                                      /\ img'[r] = img[r] /\ pend'[r] = pend[r],
           \A t \in queue : row[t.obj] # None => t \in queue' \/ Moves(s, t.obj)',
           \A o \in Objects : Moves(s, o) /\ row[o] # None =>
              Moves(s, o)' \/ \E t \in queue' : t.obj = o,
           Flushed(s)' => Flushed(s) /\ req'[s] = req[s] /\ pend'[s] = pend[s]
    PROVE  RunningMoves' /\ FlushedRunning'
<1>1. FlushedRunning'
  BY DEF RunInv, FlushedRunning, Flushed
<1>2. ASSUME NEW o \in Objects, row[o] # None, row[o].status = "RUNNING"
      PROVE  Moving(o)'
  <2>1. Moving(o)
    BY <1>2 DEF RunInv, RunningMoves
  <2>2. ASSUME NEW t \in queue, t.obj = o PROVE Moving(o)'
    BY <1>2, <2>2 DEF Moving
  <2>3. ASSUME NEW r \in Sessions, Moves(r, o) PROVE Moving(o)'
    <3>1. CASE r = s
      BY <1>2, <2>3, <3>1 DEF Moving
    <3>2. CASE r # s
      BY <2>3, <3>2 DEF Moving, Moves, Flushed
    <3> QED
      BY <3>1, <3>2
  <2> QED
    BY <2>1, <2>2, <2>3 DEF Moving
<1> QED
  BY <1>1, <1>2 DEF RunningMoves

(* A worker that takes the task of a RUNNING object moves it in its place. *)
LEMMA StartKeepsRunInv ==
    ASSUME RunInv, NEW s \in Sessions, Starts(s)
    PROVE  RunningMoves' /\ FlushedRunning'
<1>1. /\ UNCHANGED <<row, pend>> /\ pc[s] = "idle" /\ pc'[s] \in {"idle", "loaded"}
      /\ \A r \in Sessions : r # s => /\ pc'[r] = pc[r] /\ req'[r] = req[r]
                                     /\ img'[r] = img[r] /\ pend'[r] = pend[r]
  BY DEF RunInv, Inv, TypeOK, Starts
<1>2. /\ ~Flushed(s)'
      /\ \A o \in Objects : ~Moves(s, o)
  BY <1>1 DEF Flushed, Moves
<1>3. ASSUME NEW o \in Objects, row[o] # None, row[o].status = "RUNNING"
      PROVE  Moving(o)'
  <2>1. Moving(o)
    BY <1>3 DEF RunInv, RunningMoves
  <2>2. ASSUME NEW r \in Sessions, Moves(r, o) PROVE Moving(o)'
    <3>1. r # s
      BY <1>2, <2>2
    <3> QED
      BY <1>1, <2>2, <3>1 DEF Moving, Moves, Flushed
  <2>3. ASSUME NEW t \in queue, t.obj = o PROVE Moving(o)'
    <3>1. CASE t \in queue'
      BY <2>3, <3>1 DEF Moving
    <3>2. CASE Runs(s, o)
      BY <1>3, <3>2 DEF Runs, Moving, Moves
    <3> QED
      BY <1>3, <2>3, <3>1, <3>2 DEF Starts
  <2> QED
    BY <2>1, <2>2, <2>3 DEF Moving
<1>4. FlushedRunning'
  BY <1>1, <1>2 DEF RunInv, FlushedRunning, Flushed
<1> QED
  BY <1>1, <1>3, <1>4 DEF RunningMoves

(* Only a run of an object that is gone gives up.                          *)
LEMMA GiveUpKeepsRunInv ==
    ASSUME RunInv, NothingLost, NEW s \in Sessions, GivesUp(s)
    PROVE  RunningMoves' /\ FlushedRunning'
<1>1. /\ UNCHANGED <<row, queue, req>> /\ pc'[s] = "idle"
      /\ pc[s] \in {"loaded", "committed"}
      /\ \A r \in Sessions : r # s => /\ pc'[r] = pc[r] /\ req'[r] = req[r]
                                     /\ img'[r] = img[r] /\ pend'[r] = pend[r]
      /\ (pc[s] = "loaded" /\ req[s].op # "run") \/ row[req[s].obj] = None
  BY DEF RunInv, Inv, TypeOK, GivesUp, Finish, Goto, store, NothingLost
<1>2. ~Flushed(s)' /\ \A o \in Objects : Moves(s, o) => row[o] = None
  BY <1>1 DEF Flushed, Moves
<1> QED
  BY <1>1, <1>2, OthersMove

(* A run that found RUNNING flushes another status; a flush that finds     *)
(* RUNNING and keeps it leaves it to those that moved the object before.   *)
LEMMA FlushKeepsRunInv ==
    ASSUME RunInv, NEW s \in Sessions, NEW new \in Row, Flush(s, new),
           AsksFor(s, new)
    PROVE  RunningMoves' /\ FlushedRunning'
<1> DEFINE o == req[s].obj
           stamped == [new EXCEPT !.modified = clock + 1]
           written == UpdateStatement(row[o], img[s], stamped)
<1>1. o \in Objects /\ img[s] \in Row /\ row[o] \in Row
  BY ImageIsRow DEF RunInv, Inv, Flush, TypeOK
<1>2. /\ pc[s] = "loaded" /\ pc'[s] = "saved" /\ pend'[s] = written
      /\ UNCHANGED <<row, docs, queue, req>>
      /\ \A r \in Sessions : r # s => /\ pc'[r] = pc[r] /\ req'[r] = req[r]
                                     /\ img'[r] = img[r] /\ pend'[r] = pend[r]
  BY DEF RunInv, Inv, TypeOK, Flush
<1>3. written.status = IF new.status = img[s].status THEN row[o].status
                                                     ELSE new.status
  BY DEF UpdateStatement, Row
<1> HIDE DEF written, stamped
<1>4. \A p \in Objects : Moves(s, p) => Moves(s, p)'
  <2> SUFFICES ASSUME NEW p \in Objects, Moves(s, p)
               PROVE  Moves(s, p)'
    OBVIOUS
  <2>1. req[s].op = "run" /\ img[s].status = "RUNNING"
    BY <1>2 DEF Moves, Flushed
  <2>2. written.status # "RUNNING"
    BY <1>3, <2>1 DEF AsksFor
  <2> QED
    BY <1>2, <2>1, <2>2 DEF Moves, Flushed
<1>5. RunningMoves'
  <2> SUFFICES ASSUME NEW p \in Objects, row[p] # None, row[p].status = "RUNNING"
               PROVE  Moving(p)'
    BY <1>2 DEF RunningMoves
  <2>1. Moving(p)
    BY DEF RunInv, RunningMoves
  <2>2. \A r \in Sessions : r # s /\ Moves(r, p) => Moves(r, p)'
    BY <1>2 DEF Moves, Flushed
  <2> QED
    BY <1>2, <1>4, <2>1, <2>2 DEF Moving
<1>6. FlushedRunning'
  <2> SUFFICES ASSUME NEW r \in Sessions, Flushed(r)', pend'[r].status = "RUNNING"
               PROVE  req[r].op \in Dispatching \/ row[req[r].obj].status = "RUNNING"
    BY <1>2 DEF FlushedRunning
  <2>1. CASE r = s
    BY <1>2, <1>3, <2>1 DEF AsksFor
  <2>2. CASE r # s
    BY <1>2, <2>2 DEF RunInv, FlushedRunning, Flushed
  <2> QED
    BY <2>1, <2>2
<1> QED
  BY <1>5, <1>6

(* The steps of a transaction that write no row.                           *)
LEMMA IndexKeepsRunInv ==
    ASSUME RunInv, NEW s \in Sessions,
           \/ index_workflow_object(s) \/ IndexFails(s)
           \/ Unindex(s) \/ DeleteRow(s)
    PROVE  RunningMoves' /\ FlushedRunning'
<1>1. /\ UNCHANGED <<row, queue, req, img, pend>>
      /\ \A r \in Sessions : r # s => pc'[r] = pc[r]
      /\ \/ pc[s] = "saved" /\ pc'[s] = "indexed"
         \/ req[s].op = "delete" /\ pc[s] = "loaded" /\ pc'[s] = "unindexed"
         \/ pc[s] = "unindexed" /\ pc'[s] = "removed"
  BY DEF RunInv, Inv, TypeOK, index_workflow_object, IndexFails, Unindex,
         DeleteRow, Goto, store
<1>2. Flushed(s)' => Flushed(s)
  BY <1>1 DEF Flushed
<1>3. \A o \in Objects : Moves(s, o) => Moves(s, o)'
  BY <1>1 DEF Moves, Flushed
<1> QED
  BY <1>1, <1>2, <1>3, OthersMove

(* The task handed over moves the object in place of the session.          *)
LEMMA DelayKeepsRunInv ==
    ASSUME RunInv, NEW s \in Sessions, delay(s)
    PROVE  RunningMoves' /\ FlushedRunning'
<1>1. /\ UNCHANGED <<row, req>> /\ pc'[s] = "idle"
      /\ \A r \in Sessions : r # s => /\ pc'[r] = pc[r] /\ req'[r] = req[r]
                                     /\ img'[r] = img[r] /\ pend'[r] = pend[r]
      /\ queue \subseteq queue'
      /\ \E t \in queue' : t.obj = req[s].obj
  <2> DEFINE t == [obj |-> req[s].obj,
                   point |-> IF req[s].op = "resume" THEN "continue_next"
                                                     ELSE "restart_task",
                   stamp |-> img[s].modified]
  <2>1. queue' = queue \cup {t} /\ t.obj = req[s].obj
    BY DEF delay
  <2> HIDE DEF t
  <2> QED
    BY <2>1 DEF RunInv, Inv, TypeOK, delay, Finish, Goto
<1>2. ~Flushed(s)' /\ \A o \in Objects : Moves(s, o) => o = req[s].obj
  BY <1>1 DEF Flushed, Moves
<1> QED
  BY <1>1, <1>2, OthersMove

(* A commit that leaves RUNNING in the row is to be handed over, or found  *)
(* it there and is not what moves the object.                              *)
LEMMA CommitKeepsRunInv ==
    ASSUME RunInv, NEW s \in Sessions, Commit(s)
    PROVE  RunningMoves' /\ FlushedRunning'
<1> DEFINE o == req[s].obj
<1>1. /\ o \in Objects /\ Holds(s, o)
      /\ row \in [Objects -> Row \cup {None}]
  BY ImageIsRow DEF RunInv, Inv, TypeOK, Commit, Holds
<1>2. \A r \in Sessions : r # s => ~Holds(r, o)
  BY <1>1 DEF RunInv, Inv, Transactional, OneWriter
<1>3. /\ UNCHANGED <<queue, req>>
      /\ pc'[s] \in {"idle", "committed"}
      /\ \A r \in Sessions : r # s => /\ pc'[r] = pc[r] /\ req'[r] = req[r]
                                     /\ img'[r] = img[r] /\ pend'[r] = pend[r]
      /\ \A p \in Objects : p # o => row'[p] = row[p]
  BY <1>1 DEF RunInv, Inv, TypeOK, Commit, Finish, Goto
<1>4. FlushedRunning'
  <2> SUFFICES ASSUME NEW r \in Sessions, Flushed(r)', pend'[r].status = "RUNNING"
               PROVE  req[r].op \in Dispatching \/ row'[req[r].obj].status = "RUNNING"
    BY <1>3 DEF FlushedRunning
  <2>1. r # s /\ Flushed(r)
    BY <1>3 DEF Flushed
  <2>2. req[r].obj \in Objects /\ req[r].obj # o
    BY <1>2, <2>1, ImageIsRow DEF Flushed, Holds, RunInv, Inv
  <2> QED
    BY <1>3, <2>1, <2>2 DEF RunInv, FlushedRunning
<1>5. \A r \in Sessions, p \in Objects : r # s /\ Moves(r, p) => Moves(r, p)'
  BY <1>3 DEF Moves, Flushed
<1>6. ASSUME NEW p \in Objects, Moving(p), ~Moves(s, p)
      PROVE  Moving(p)'
  BY <1>3, <1>5, <1>6 DEF Moving
<1>7. RunningMoves'
  <2> SUFFICES ASSUME NEW p \in Objects, row'[p] # None,
                      row'[p].status = "RUNNING"
               PROVE  Moving(p)'
    BY DEF RunningMoves
  <2>1. CASE p # o
    <3>1. Moving(p) /\ ~Moves(s, p)
      BY <1>3, <2>1 DEF RunInv, RunningMoves, Moves
    <3> QED
      BY <1>6, <3>1
  <2>2. CASE p = o
    <3>1. row'[o] = pend[s] /\ pc[s] = "indexed"
      BY <1>1, <2>2 DEF Commit
    <3>2. CASE req[s].op \in Dispatching
      <4>1. pc'[s] = "committed"
        BY <3>1, <3>2 DEF Commit, Goto, RunInv, Inv, TypeOK
      <4> QED
        BY <1>3, <2>2, <4>1 DEF Moving, Moves
    <3>3. CASE req[s].op \notin Dispatching
      <4>1. row[o].status = "RUNNING" /\ row[o] # None
        BY <2>2, <3>1, <3>3
        DEF RunInv, FlushedRunning, Flushed, Inv, Transactional, FlushedIsNext
      <4>2. Moving(o) /\ ~Moves(s, o)
        BY <1>1, <2>2, <3>1, <4>1 DEF RunInv, RunningMoves, Moves, Flushed
      <4> QED
        BY <1>1, <1>6, <2>2, <4>2
    <3> QED
      BY <3>2, <3>3
  <2> QED
    BY <2>1, <2>2
<1> QED
  BY <1>4, <1>7

(* Every step keeps the invariant when nothing that holds a task is lost.  *)
LEMMA NextRunInv ==
    ASSUME NothingLost
    PROVE  RunInv /\ [Next]_vars => RunInv'
<1> SUFFICES ASSUME RunInv, [Next]_vars PROVE RunInv'
  OBVIOUS
<1>1. Inv'
  BY NextInv DEF RunInv
<1>2. CASE UNCHANGED vars
  BY <1>1, <1>2 DEF vars, RunInv, RunningMoves, Moving, Moves, FlushedRunning,
                    Flushed
<1>3. ASSUME NEW s \in Sessions, Kind(s)
      PROVE  RunInv'
  <2>1. CASE Starts(s)
    BY <1>1, <2>1, StartKeepsRunInv DEF RunInv
  <2>2. CASE GivesUp(s)
    BY <1>1, <2>2, GiveUpKeepsRunInv DEF RunInv
  <2>3. ASSUME NEW new \in Row, Flush(s, new), AsksFor(s, new) PROVE RunInv'
    BY <1>1, <2>3, FlushKeepsRunInv DEF RunInv
  <2>4. CASE \/ index_workflow_object(s) \/ IndexFails(s)
             \/ Unindex(s) \/ DeleteRow(s)
    BY <1>1, <2>4, IndexKeepsRunInv DEF RunInv
  <2>5. CASE Commit(s)
    BY <1>1, <2>5, CommitKeepsRunInv DEF RunInv
  <2>6. CASE delay(s)
    BY <1>1, <2>6, DelayKeepsRunInv DEF RunInv
  <2> QED
    BY <1>3, <2>1, <2>2, <2>3, <2>4, <2>5, <2>6 DEF Kind, NothingLost
<1> QED
  BY <1>2, <1>3, StepKinds DEF RunInv, Inv

(* Unless a process, a commit or the broker fails, nothing is left RUNNING *)
(* with nobody to move it, however many requests and runs overlap          *)
(* (restart_step, restart and resume, api.py:208-249).                     *)
THEOREM NobodyIsStranded ==
    ASSUME NothingLost
    PROVE  Spec => []RunningIsCarried
<1>1. RunInv => RunningIsCarried
  <2> SUFFICES ASSUME RunInv, NEW o \in Objects, row[o] # None,
                      row[o].status = "RUNNING"
               PROVE  Carried(o)
    BY DEF RunningIsCarried
  <2>1. Moving(o)
    BY DEF RunInv, RunningMoves
  <2> QED
    BY <2>1 DEF Moving, Moves, Flushed, Carried
<1>2. RunInv /\ [Next]_vars => RunInv'
  BY NextRunInv
<1> QED
  BY <1>1, <1>2, InitRunInv, PTL DEF Spec
=============================================================================
