------------------------- MODULE BulkActions_proofs -------------------------
(***************************************************************************)
(* Theorems about BulkActions for any objects, workers, lists, actions and *)
(* faults and any number of bulk requests: what a resume task finds is     *)
(* committed, what is RUNNING is being moved on unless it was stranded     *)
(* between commit and delay or by its run, and only tasks that resolve     *)
(* wait for each other in a circle.                                        *)
(***************************************************************************)
EXTENDS BulkActions, WorkflowRecord_proofs, SequenceTheorems

-----------------------------------------------------------------------------
(* What the invariants of the runs leave unsaid.                           *)

At(w) == pc[w] \in {"loaded", "saved", "indexed", "committed"}

Dispatches(w) == job[w].action \in Dispatching

Runs(w) == job[w].action = "run"

(* A worker that is not idle has a task, and the object it is at: loaded,  *)
(* there, and flushed once it is saved.  Only a bulk task reaches the end  *)
(* of its list.                                                            *)
Working ==
    \A w \in Workers :
        /\ pc[w] # "idle" => job[w] \in Job
        /\ pc[w] # "idle" /\ Runs(w) => todo[w] # <<>>
        /\ At(w) => todo[w] # <<>> /\ img[w] \in Row
        /\ pc[w] = "loaded" => Holds(w, Head(todo[w])) \/ row[Head(todo[w])] # None
        /\ pc[w] \in {"saved", "indexed"} => Holds(w, Head(todo[w]))
        /\ pc[w] = "committed" => Dispatches(w)

(* A task that hands over objects, or a run, has flushed at most the one   *)
(* it is at.                                                               *)
HoldsOne ==
    \A w \in Workers, o \in Objects :
        pc[w] # "idle" /\ (Dispatches(w) \/ Runs(w)) /\ Holds(w, o) =>
            pc[w] \in {"saved", "indexed"} /\ Head(todo[w]) = o

(* Stamps grow: from the row to what is flushed upon it, and to what is    *)
(* committed after that.                                                   *)
Stamped ==
    /\ \A o \in Objects : row[o] # None => row[o].modified <= clock
    /\ \A w \in Workers, o \in Objects : Holds(w, o) =>
          /\ row[o] # None /\ row[o].modified <= pend[w][o].modified
          /\ pend[w][o].modified <= clock
    /\ \A w \in Workers : pc[w] \in {"saved", "indexed"} =>
          img[w].modified = pend[w][Head(todo[w])].modified
    /\ \A w \in Workers : pc[w] = "committed" =>
          /\ row[Head(todo[w])] # None
          /\ img[w].modified <= row[Head(todo[w])].modified

(* A run that found its object waiting writes no status: what it flushed   *)
(* is RUNNING only if the row is.                                          *)
RunKeepsStatus ==
    \A w \in Workers :
        LET o == Head(todo[w])
        IN  pc[w] \in {"saved", "indexed"} /\ Runs(w) /\ pend[w][o].status = "RUNNING"
                => row[o].status = "RUNNING"

(* w will hand o over, or take it out of RUNNING.                          *)
Carries(w, o) ==
    /\ pc[w] # "idle" /\ Head(todo[w]) = o
    /\ \/ pc[w] = "committed"
       \/ Runs(w) /\ \/ pc[w] = "next"
                     \/ pc[w] = "loaded" /\ img[w].status = "RUNNING"
                     \/ pc[w] \in {"saved", "indexed"} /\ pend[w][o].status # "RUNNING"

RunningIsMoved ==
    \A o \in Objects : row[o] # None /\ row[o].status = "RUNNING" =>
        \/ \E t \in queue : t.obj = o
        \/ \E w \in Workers : Carries(w, o)
        \/ o \in stranded

(* What a task that hands over has finished is handed over.                *)
FinishedIsHanded ==
    \A w \in Workers : pc[w] # "idle" /\ Dispatches(w) =>
        \A o \in Elements(job[w].ids) :
            [id |-> job[w].id, obj |-> o] \in handed \/ o \in Elements(todo[w])

Inv == BulkTypeOK /\ Working /\ HoldsOne

-----------------------------------------------------------------------------
(* Lists.                                                                  *)

(* A list is its head and its tail.                                        *)
LEMMA ElementsOfTail ==
    ASSUME NEW list \in Seq(Objects), list # <<>>
    PROVE  /\ Head(list) \in Objects
           /\ Tail(list) \in Seq(Objects)
           /\ Elements(list) \subseteq {Head(list)} \cup Elements(Tail(list))
<1>1. /\ Head(list) \in Objects /\ Tail(list) \in Seq(Objects)
      /\ Len(Tail(list)) = Len(list) - 1
      /\ \A k \in 1..Len(Tail(list)) : Tail(list)[k] = list[k + 1]
  BY HeadTailProperties
<1>2. Len(list) \in Nat /\ DOMAIN list = 1..Len(list)
      /\ DOMAIN Tail(list) = 1..Len(Tail(list))
  BY <1>1, LenProperties
<1>3. ASSUME NEW k \in 1..Len(list)
      PROVE  list[k] \in {Head(list)} \cup Elements(Tail(list))
  <2>1. CASE k = 1
    BY <2>1, list[1] = Head(list)
  <2>2. CASE k # 1
    <3>1. k - 1 \in DOMAIN Tail(list) /\ Tail(list)[k - 1] = list[k]
      BY <1>1, <1>2, <2>2
    <3> QED
      BY <3>1 DEF Elements
  <2> QED
    BY <2>1, <2>2
<1> QED
  BY <1>1, <1>2, <1>3 DEF Elements

LEMMA NoElements == Elements(<<>>) = {}
BY DOMAIN <<>> = {} DEF Elements

(* A run is for one object.                                                *)
LEMMA RunIsForOne ==
    ASSUME NEW o \in Objects
    PROVE  /\ RunOf(o) \in Job /\ RunOf(o).action = "run"
           /\ RunOf(o).ids \in Seq(Objects) /\ RunOf(o).ids # <<>>
           /\ Head(RunOf(o).ids) = o
BY DEF RunOf, Job

(* Only runs are not bulk tasks.                                           *)
LEMMA JobIsBulkTask ==
    ASSUME NEW j \in Job
    PROVE  /\ j.action = "run" \/ j \in BulkTask
           /\ j \in BulkTask => j.action \in Dispatching \cup {"resolve", "edit"}
<1>1. \A o \in Objects : RunOf(o).action = "run"
  BY DEF RunOf
<1> QED
  BY <1>1, BulkAssumption DEF Job, BulkTask

-----------------------------------------------------------------------------
(* The kinds of steps a worker takes.                                      *)

Ends(w, outcome) ==
    /\ pc[w] # "idle"
    /\ outcome = "done" => pc[w] = "next" /\ todo[w] = <<>>
    /\ End(w, outcome)

Fetches(w) ==
    LET o == Head(todo[w])
        found == IF Holds(w, o) THEN pend[w][o] ELSE row[o]
    IN  /\ pc[w] = "next" /\ todo[w] # <<>> /\ found # None
        /\ img' = [img EXCEPT ![w] = found]
        /\ pc' = [pc EXCEPT ![w] = "loaded"]
        /\ UNCHANGED <<store, job, todo, pend, history>>

Flushes(w, new) ==
    /\ pc[w] = "loaded"
    /\ Runs(w) => new.status # "RUNNING"
    /\ Save(w, new)

(* w goes on to its next object without having anything to hand over.      *)
Passes(w) ==
    /\ pc[w] \in {"loaded", "indexed"} /\ job[w].action = "resolve"
    /\ Advance(w)
    /\ UNCHANGED <<store, pend, history>>

Moves(w) ==
    \/ \E t \in posted : Take(w, t)
    \/ \E t \in queue : TakeRun(w, t)
    \/ \E outcome \in {"done", "failed"} : Ends(w, outcome)
    \/ Fetches(w)
    \/ \E new \in Row : Flushes(w, new)
    \/ index_workflow_object(w)
    \/ Passes(w)
    \/ Commit(w)
    \/ delay(w)

LEMMA StepKinds ==
    ASSUME BulkTypeOK, Working, NEW w \in Workers,
           Step(w) \/ CommitFails(w) \/ DelayFails(w) \/ Crash(w)
    PROVE  Moves(w)
<1>1. CASE get_record(w)
  BY <1>1 DEF get_record, Ends, Fetches, Moves
<1>2. CASE AllDone(w)
  BY <1>2 DEF AllDone, Ends, Moves
<1>3. CASE edit(w)
  BY <1>3 DEF edit, Does, Ends, Moves
<1>4. ASSUME NEW d \in Metadata, resolve(w, d)
      PROVE  Moves(w)
  <2>1. pc[w] = "loaded" /\ ~Runs(w) /\ img[w] \in Row /\ job[w].action = "resolve"
    BY <1>4 DEF resolve, Does, Runs, Working, At
  <2>2. [img[w] EXCEPT !.data = d, !.extra_data = None] \in Row
    BY <2>1 DEF Row
  <2> QED
    BY <1>4, <2>1, <2>2 DEF resolve, Ends, Passes, Flushes, Moves
<1>5. CASE restart(w)
  <2> DEFINE new == [img[w] EXCEPT !.status = "RUNNING",
                       !.callback_pos = IF job[w].action = "restart" THEN 0 ELSE @]
  <2>1. pc[w] = "loaded" /\ ~Runs(w) /\ img[w] \in Row
    BY <1>5 DEF restart, Does, Runs, Dispatching, Working, At
  <2>2. new \in Row
    BY <2>1, RecordAssumption DEF Row, Status
  <2>3. Save(w, new)
    BY <1>5 DEF restart
  <2> HIDE DEF new
  <2> QED
    BY <2>1, <2>2, <2>3 DEF Flushes, Moves
<1>6. ASSUME NEW p \in Positions, NEW d \in Metadata, NEW a \in ActionNames,
             Halt(w, p, d, a)
      PROVE  Moves(w)
  <2> DEFINE new == [img[w] EXCEPT !.status = "HALTED", !.callback_pos = p,
                                   !.data = d, !.extra_data = a]
  <2>1. pc[w] = "loaded" /\ img[w] \in Row
    BY <1>6 DEF Halt, Does, Working, At
  <2>2. new \in Row /\ new.status # "RUNNING"
    BY <2>1 DEF Row, Status
  <2>3. Save(w, new)
    BY <1>6 DEF Halt
  <2> HIDE DEF new
  <2> QED
    BY <2>1, <2>2, <2>3 DEF Flushes, Moves
<1>7. ASSUME NEW p \in Positions, NEW d \in Metadata, NEW st \in Outcomes,
             Complete(w, st, p, d)
      PROVE  Moves(w)
  <2> DEFINE new == [img[w] EXCEPT !.status = st, !.callback_pos = p, !.data = d]
  <2>1. pc[w] = "loaded" /\ img[w] \in Row
    BY <1>7 DEF Complete, Does, Working, At
  <2>2. new \in Row /\ new.status # "RUNNING"
    BY <2>1, BulkAssumption DEF Row, Status
  <2>3. Save(w, new)
    BY <1>7 DEF Complete
  <2> HIDE DEF new
  <2> QED
    BY <2>1, <2>2, <2>3 DEF Flushes, Moves
<1>8. CASE Resolved(w)
  BY <1>8 DEF Resolved, Passes, Moves
<1>9. CASE DeadlockVictim(w)
  <2>1. pc[w] = "loaded"
    BY <1>9 DEF DeadlockVictim, Deadlocked, WaitsFor, Saves
  <2> QED
    BY <1>9, <2>1 DEF DeadlockVictim, Ends, Moves
<1>10. CASE CommitFails(w) \/ DelayFails(w) \/ Crash(w)
  BY <1>10 DEF CommitFails, Commits, DelayFails, Crash, Ends, Moves
<1> QED
  BY <1>1, <1>2, <1>3, <1>4, <1>5, <1>6, <1>7, <1>8, <1>9, <1>10 DEF Step, Moves

(* What is not a step of a worker changes the requests at most.            *)
LEMMA NextKinds ==
    ASSUME BulkTypeOK, Working, [BulkNext]_bulkVars
    PROVE  \/ UNCHANGED <<row, docs, clock, queue, job, todo, pc, img, pend, handed,
                          history>>
           \/ \E w \in Workers : Moves(w)
BY StepKinds DEF BulkNext, bulkVars, history, Post, Quiesced

(* A step of one worker is none of another.                                *)
LEMMA OthersStay ==
    ASSUME BulkTypeOK, NEW w \in Workers, Moves(w), NEW v \in Workers, v # w
    PROVE  /\ job'[v] = job[v] /\ todo'[v] = todo[v] /\ pc'[v] = pc[v]
           /\ img'[v] = img[v] /\ pend'[v] = pend[v]
BY DEF Moves, Take, TakeRun, Start, Ends, End, Leave, Fetches, Flushes, Save,
       index_workflow_object, Passes, Commit, delay, HandOver, Advance, BulkTypeOK

(* Only a commit writes rows.                                              *)
LEMMA OnlyCommitWrites ==
    ASSUME NEW w \in Workers, Moves(w), ~Commit(w)
    PROVE  row' = row
BY DEF Moves, Take, TakeRun, Start, Ends, End, store, Fetches, Flushes, Save,
       index_workflow_object, Passes, delay, HandOver

-----------------------------------------------------------------------------
(* The type invariant.                                                     *)

(* The end of a task keeps it.                                             *)
LEMMA EndType ==
    ASSUME BulkTypeOK, Working, NEW w \in Workers,
           NEW outcome \in {"done", "failed"}, Ends(w, outcome)
    PROVE  BulkTypeOK' /\ Working'
<1>1. job[w] \in Job /\ pc[w] # "idle"
  BY DEF Ends, Working
<1>2. ended' \subseteq Ending
  <2>1. CASE Runs(w)
    BY <2>1 DEF Ends, End, Runs, BulkTypeOK
  <2>2. CASE ~Runs(w)
    <3>1. [task |-> job[w], outcome |-> outcome] \in Ending
      BY <1>1, <2>2, JobIsBulkTask DEF Runs, Ending
    <3> QED
      BY <2>2, <3>1 DEF Ends, End, Runs, BulkTypeOK
  <2> QED
    BY <2>1, <2>2
<1>3. stranded' \subseteq Objects
  <2>1. Runs(w) \/ pc[w] = "committed" => Head(todo[w]) \in Objects
    BY <1>1, ElementsOfTail DEF Working, At, BulkTypeOK
  <2> QED
    BY <2>1 DEF Ends, End, Runs, BulkTypeOK
<1>4. <<>> \in Seq(Objects) /\ NothingFlushed \in [Objects -> Row \cup {None}]
  BY EmptySeq DEF NothingFlushed
<1>5. /\ UNCHANGED store
      /\ job' = [job EXCEPT ![w] = None]
      /\ todo' = [todo EXCEPT ![w] = <<>>]
      /\ pc' = [pc EXCEPT ![w] = "idle"]
      /\ img' = [img EXCEPT ![w] = None]
      /\ pend' = [pend EXCEPT ![w] = NothingFlushed]
  BY DEF Ends, End, Leave
<1>6. BulkTypeOK'
  BY <1>2, <1>3, <1>4, <1>5 DEF store, BulkTypeOK, Holds, NothingFlushed
<1>7. Working'
  BY <1>5 DEF store, Working, At, Runs, Dispatches, BulkTypeOK, Holds
<1> QED
  BY <1>6, <1>7

(* A flush keeps it: it writes a row, and takes a lock nobody else has.    *)
LEMMA FlushType ==
    ASSUME BulkTypeOK, Working, NEW w \in Workers, NEW new \in Row,
           Flushes(w, new)
    PROVE  BulkTypeOK' /\ Working'
<1> DEFINE o == Head(todo[w])
           stamped == [new EXCEPT !.modified = clock + 1]
           base == IF Holds(w, o) THEN pend[w][o] ELSE row[o]
           written == UpdateStatement(base, img[w], stamped)
<1>1. pc[w] = "loaded" /\ img[w] \in Row /\ o \in Objects
  BY ElementsOfTail DEF Flushes, Working, At, BulkTypeOK
<1>2. base \in Row
  BY <1>1 DEF Working, BulkTypeOK, Holds
<1>3. clock + 1 \in Nat
  BY DEF BulkTypeOK
<1>4. stamped \in Row
  BY <1>3 DEF Row
<1>5. written \in Row /\ written # None
  BY <1>1, <1>2, <1>4, UpdateStatementType, SentinelAssumption
<1>6. /\ Free(w, o)
      /\ clock' = clock + 1
      /\ img' = [img EXCEPT ![w] = stamped]
      /\ pend' = [pend EXCEPT ![w][o] = written]
      /\ pc' = [pc EXCEPT ![w] = "saved"]
      /\ UNCHANGED <<row, docs, posted, posts, queue, job, todo, handed, history>>
  BY DEF Flushes, Save
<1> HIDE DEF o, stamped, base, written
<1>7. pend' \in [Workers -> [Objects -> Row \cup {None}]]
  BY <1>1, <1>5, <1>6 DEF BulkTypeOK
<1>8. \A v, u \in Workers, p \in Objects :
          Holds(v, p)' /\ Holds(u, p)' => v = u
  BY <1>1, <1>6 DEF BulkTypeOK, Holds, Free
<1>9. BulkTypeOK'
  BY <1>1, <1>3, <1>4, <1>6, <1>7, <1>8 DEF BulkTypeOK, history
<1>10. \A v \in Workers, p \in Objects : Holds(v, p) => Holds(v, p)'
  BY <1>1, <1>5, <1>6 DEF Holds, BulkTypeOK
<1>11. Holds(w, Head(todo[w]))'
  BY <1>1, <1>5, <1>6 DEF Holds, BulkTypeOK, o
<1>12. \A v \in Workers : At(v) => Head(todo[v]) \in Objects
  BY ElementsOfTail DEF Working, BulkTypeOK
<1>13. \A v \in Workers : pc[v] # "idle" => /\ job[v] \in Job
                                            /\ Runs(v) => todo[v] # <<>>
  BY DEF Working
<1>14. Working'
  <2> SUFFICES ASSUME NEW v \in Workers
               PROVE  /\ pc'[v] # "idle" => job'[v] \in Job
                      /\ pc'[v] # "idle" /\ Runs(v)' => todo'[v] # <<>>
                      /\ At(v)' => todo'[v] # <<>> /\ img'[v] \in Row
                      /\ pc'[v] = "loaded" =>
                           Holds(v, Head(todo[v]))' \/ row'[Head(todo'[v])] # None
                      /\ pc'[v] \in {"saved", "indexed"} => Holds(v, Head(todo[v]))'
                      /\ pc'[v] = "committed" => Dispatches(v)'
    BY DEF Working
  <2>1. CASE v = w
    <3>1. pc'[v] = "saved" /\ img'[v] = stamped /\ todo' = todo /\ job' = job
      BY <1>6, <2>1 DEF BulkTypeOK
    <3>2. todo[w] # <<>>
      BY <1>1 DEF Working, At
    <3> QED
      BY <1>1, <1>4, <1>11, <1>13, <2>1, <3>1, <3>2
  <2>2. CASE v # w
    <3>1. pc'[v] = pc[v] /\ img'[v] = img[v] /\ todo' = todo /\ job' = job
          /\ row' = row
      BY <1>6, <2>2 DEF BulkTypeOK
    <3> QED
      BY <1>10, <1>12, <3>1 DEF Working, At, Runs, Dispatches
  <2> QED
    BY <2>1, <2>2
<1> QED
  BY <1>9, <1>14

(* A list may be started, and its tail gone on with.                       *)
LEMMA AdvanceType ==
    ASSUME BulkTypeOK, Working, NEW w \in Workers, At(w), ~Runs(w), Advance(w),
           UNCHANGED <<row, docs, clock, posted, posts, pend, history>>,
           queue' \subseteq ResumeTask,
           handed' \subseteq [id : 1..MaxPosts, obj : Objects]
    PROVE  BulkTypeOK' /\ Working'
<1>1. Tail(todo[w]) \in Seq(Objects)
  BY ElementsOfTail DEF Working, BulkTypeOK
<1>2. BulkTypeOK'
  BY <1>1 DEF Advance, BulkTypeOK, Holds, At, history
<1>3. Working'
  BY DEF Advance, Working, At, Runs, Dispatches, BulkTypeOK, Holds
<1> QED
  BY <1>2, <1>3

(* So is a task that a worker takes.                                       *)
LEMMA StartType ==
    ASSUME BulkTypeOK, Working, NEW w \in Workers, NEW t \in Job,
           t.ids \in Seq(Objects), t.action = "run" => t.ids # <<>>, Start(w, t),
           posted' \subseteq posted, queue' \subseteq queue
    PROVE  BulkTypeOK' /\ Working'
<1>1. BulkTypeOK'
  BY DEF Start, BulkTypeOK, Holds, history
<1>2. Working'
  BY DEF Start, Working, At, Runs, Dispatches, Holds, BulkTypeOK
<1> QED
  BY <1>1, <1>2

LEMMA CommitType ==
    ASSUME BulkTypeOK, Working, NEW w \in Workers, Commit(w)
    PROVE  BulkTypeOK' /\ Working'
<1>1. NothingFlushed \in [Objects -> Row \cup {None}] /\ <<>> \in Seq(Objects)
  BY EmptySeq DEF NothingFlushed
<1>2. /\ pc[w] = "indexed" /\ Head(todo[w]) \in Objects
      /\ row' = [o \in Objects |-> IF Holds(w, o) THEN pend[w][o] ELSE row[o]]
      /\ pend' = [pend EXCEPT ![w] = NothingFlushed]
      /\ UNCHANGED <<docs, clock, posted, posts, queue, handed, ended>>
      /\ \/ /\ Dispatches(w) /\ pc' = [pc EXCEPT ![w] = "committed"]
            /\ stranded' = stranded \ {Head(todo[w])}
            /\ UNCHANGED <<job, todo, img>>
         \/ /\ pc' = [pc EXCEPT ![w] = "idle"] /\ stranded' = stranded
            /\ job' = [job EXCEPT ![w] = None]
            /\ todo' = [todo EXCEPT ![w] = <<>>]
            /\ img' = [img EXCEPT ![w] = None]
  BY ElementsOfTail
  DEF Commit, Commits, Leave, Dispatches, Working, At, BulkTypeOK
<1>3. row' \in [Objects -> Row \cup {None}]
  BY <1>2 DEF BulkTypeOK
<1>4. \A o \in Objects : row[o] # None => row'[o] # None
  BY <1>2 DEF Holds
<1>5. \A v \in Workers, o \in Objects : Holds(v, o)' => Holds(v, o) /\ v # w
  BY <1>2 DEF Holds, NothingFlushed, BulkTypeOK
<1>6. BulkTypeOK'
  <2>1. /\ job' \in [Workers -> Job \cup {None}] /\ todo' \in [Workers -> Seq(Objects)]
        /\ pc' \in [Workers -> {"idle", "next", "loaded", "saved", "indexed",
                                "committed"}]
        /\ img' \in [Workers -> Row \cup {None}]
        /\ pend' \in [Workers -> [Objects -> Row \cup {None}]]
        /\ stranded' \subseteq Objects
    BY <1>1, <1>2 DEF BulkTypeOK
  <2>2. \A v \in Workers : pc'[v] = "idle" => pend'[v] = NothingFlushed
    BY <1>2 DEF BulkTypeOK
  <2>3. \A v, u \in Workers, o \in Objects : Holds(v, o)' /\ Holds(u, o)' => v = u
    BY <1>5 DEF BulkTypeOK
  <2> QED
    BY <1>2, <1>3, <2>1, <2>2, <2>3 DEF BulkTypeOK
<1>7. Working'
  <2> SUFFICES ASSUME NEW v \in Workers
               PROVE  /\ pc'[v] # "idle" => job'[v] \in Job
                      /\ pc'[v] # "idle" /\ Runs(v)' => todo'[v] # <<>>
                      /\ At(v)' => todo'[v] # <<>> /\ img'[v] \in Row
                      /\ pc'[v] = "loaded" =>
                           Holds(v, Head(todo[v]))' \/ row'[Head(todo'[v])] # None
                      /\ pc'[v] \in {"saved", "indexed"} => Holds(v, Head(todo[v]))'
                      /\ pc'[v] = "committed" => Dispatches(v)'
    BY DEF Working
  <2>1. CASE v = w
    <3>1. job[w] \in Job /\ todo[w] # <<>> /\ img[w] \in Row
      BY <1>2 DEF Working, At
    <3>2. \/ pc'[w] = "idle"
          \/ /\ pc'[w] = "committed" /\ Dispatches(w)
             /\ UNCHANGED <<job, todo, img>>
      BY <1>2 DEF BulkTypeOK
    <3> QED
      BY <2>1, <3>1, <3>2 DEF At, Dispatches
  <2>2. CASE v # w
    <3>1. /\ pc'[v] = pc[v] /\ pend'[v] = pend[v] /\ todo'[v] = todo[v]
          /\ job'[v] = job[v] /\ img'[v] = img[v]
      BY <1>2, <2>2 DEF BulkTypeOK
    <3>2. At(v) => Head(todo[v]) \in Objects
      BY ElementsOfTail DEF Working, BulkTypeOK
    <3> QED
      BY <1>4, <3>1, <3>2 DEF Working, At, Runs, Dispatches, Holds
  <2> QED
    BY <2>1, <2>2
<1> QED
  BY <1>6, <1>7

LEMMA InitType == BulkInit => BulkTypeOK /\ Working
<1> SUFFICES ASSUME BulkInit PROVE BulkTypeOK /\ Working
  OBVIOUS
<1>1. HaltedRow \subseteq Row
  BY DEF HaltedRow, Row, Status
<1>2. row \in [Objects -> Row \cup {None}]
  BY <1>1 DEF BulkInit
<1>3. docs \in [Indices -> [Objects -> Doc \cup {None}]]
  <2>1. \A o \in Objects : row[o] # None => prepare_record(row[o]) \in Doc
    BY <1>2, DocType
  <2> QED
    BY <2>1 DEF BulkInit
<1>4. <<>> \in Seq(Objects) /\ NothingFlushed \in [Objects -> Row \cup {None}]
  BY EmptySeq DEF NothingFlushed
<1>5. BulkTypeOK
  BY <1>2, <1>3, <1>4, BulkAssumption
  DEF BulkInit, BulkTypeOK, Holds, NothingFlushed
<1> QED
  BY <1>5 DEF BulkInit, Working, At

LEMMA NextType == BulkTypeOK /\ Working /\ [BulkNext]_bulkVars
                    => BulkTypeOK' /\ Working'
<1> SUFFICES ASSUME BulkTypeOK, Working, [BulkNext]_bulkVars
             PROVE  BulkTypeOK' /\ Working'
  OBVIOUS
<1>1. CASE UNCHANGED bulkVars
  BY <1>1 DEF bulkVars, BulkTypeOK, Working, At, Runs, Dispatches, Holds
<1>2. ASSUME NEW ids \in Lists, NEW action \in Actions, Post(ids, action)
      PROVE  BulkTypeOK' /\ Working'
  <2> DEFINE t == [id |-> posts + 1, ids |-> ids, action |-> action]
  <2>1. posts + 1 \in 1..MaxPosts /\ t \in BulkTask
    BY <1>2, BulkAssumption DEF Post, BulkTypeOK, BulkTask
  <2>2. posted' = posted \cup {t}
    BY <1>2 DEF Post
  <2> HIDE DEF t
  <2>3. BulkTypeOK'
    BY <1>2, <2>1, <2>2 DEF Post, BulkTypeOK, Holds, history
  <2> QED
    BY <1>2, <2>3 DEF Post, Working, At, Runs, Dispatches, Holds
<1>3. ASSUME NEW w \in Workers, NEW t \in posted, Take(w, t)
      PROVE  BulkTypeOK' /\ Working'
  <2>1. t \in Job /\ t.ids \in Seq(Objects) /\ t.action # "run"
    BY BulkAssumption DEF BulkTypeOK, BulkTask, Job, Dispatching
  <2> QED
    BY <1>3, <2>1, StartType DEF Take
<1>4. ASSUME NEW w \in Workers, NEW t \in queue, TakeRun(w, t)
      PROVE  BulkTypeOK' /\ Working'
  <2>1. t.obj \in Objects
    BY DEF BulkTypeOK, ResumeTask
  <2> QED
    BY <1>4, <2>1, RunIsForOne, StartType DEF TakeRun
<1>5. ASSUME NEW w \in Workers, Fetches(w)
      PROVE  BulkTypeOK' /\ Working'
  <2> DEFINE o == Head(todo[w])
             found == IF Holds(w, o) THEN pend[w][o] ELSE row[o]
  <2>1. o \in Objects
    BY <1>5, ElementsOfTail DEF Fetches, BulkTypeOK
  <2>2. found \in Row
    BY <1>5, <2>1 DEF Fetches, BulkTypeOK, Holds
  <2>3. /\ img' = [img EXCEPT ![w] = found]
        /\ pc' = [pc EXCEPT ![w] = "loaded"] /\ pc[w] = "next" /\ todo[w] # <<>>
        /\ Holds(w, o) \/ row[o] # None
        /\ UNCHANGED <<row, docs, clock, posted, posts, queue, job, todo, pend,
                       handed, ended, stranded>>
    BY <1>5 DEF Fetches, store, history
  <2> HIDE DEF found
  <2>4. BulkTypeOK'
    BY <2>2, <2>3 DEF BulkTypeOK, Holds
  <2> QED
    BY <2>2, <2>3, <2>4 DEF Working, At, Runs, Dispatches, Holds, BulkTypeOK
<1>6. ASSUME NEW w \in Workers, index_workflow_object(w)
      PROVE  BulkTypeOK' /\ Working'
  <2> DEFINE o == Head(todo[w])
             i == record_to_index(record_from_object(img[w]))
             d == prepare_record(img[w])
  <2>1. pc[w] = "saved" /\ img[w] \in Row /\ o \in Objects
    BY <1>6, ElementsOfTail DEF index_workflow_object, Working, At, BulkTypeOK
  <2>2. i \in Indices \cup {None} /\ d \in Doc
    BY <2>1, RecordType, IndexType, DocType
  <2>3. \/ docs' = docs
        \/ i # None /\ docs' = [docs EXCEPT ![i][o] = d]
    BY <1>6 DEF index_workflow_object
  <2>4. pc' = [pc EXCEPT ![w] = "indexed"]
        /\ UNCHANGED <<row, clock, posted, posts, queue, job, todo, img, pend,
                       handed, ended, stranded>>
    BY <1>6 DEF index_workflow_object, history
  <2> HIDE DEF i, d, o
  <2>5. docs' \in [Indices -> [Objects -> Doc \cup {None}]]
    <3>1. docs \in [Indices -> [Objects -> Doc \cup {None}]]
      BY DEF BulkTypeOK
    <3>2. CASE i # None /\ docs' = [docs EXCEPT ![i][o] = d]
      BY <2>1, <2>2, <3>1, <3>2
    <3> QED
      BY <2>3, <3>1, <3>2
  <2>6. BulkTypeOK'
    BY <2>1, <2>4, <2>5 DEF BulkTypeOK, Holds
  <2> QED
    BY <2>1, <2>4, <2>6 DEF Working, At, Runs, Dispatches, Holds, BulkTypeOK
<1>7. ASSUME NEW w \in Workers, Passes(w)
      PROVE  BulkTypeOK' /\ Working'
  BY <1>7, AdvanceType DEF Passes, At, Runs, BulkTypeOK, store
<1>8. ASSUME NEW w \in Workers, delay(w)
      PROVE  BulkTypeOK' /\ Working'
  <2>1. /\ Head(todo[w]) \in Objects /\ img[w] \in Row
        /\ job[w] \in BulkTask /\ ~Runs(w)
    BY <1>8, ElementsOfTail, JobIsBulkTask
    DEF delay, Working, At, Runs, Dispatches, Dispatching, BulkTypeOK
  <2>2. [obj |-> Head(todo[w]), stamp |-> img[w].modified] \in ResumeTask
    BY <2>1 DEF ResumeTask, Row
  <2>3. [id |-> job[w].id, obj |-> Head(todo[w])] \in [id : 1..MaxPosts, obj : Objects]
    BY <2>1 DEF BulkTask
  <2>4. queue' \subseteq ResumeTask /\ handed' \subseteq [id : 1..MaxPosts, obj : Objects]
    BY <1>8, <2>2, <2>3 DEF delay, HandOver, BulkTypeOK
  <2> QED
    BY <1>8, <2>1, <2>4, AdvanceType DEF delay, HandOver, At
<1>9. CASE Quiesced
  BY <1>1, <1>9 DEF Quiesced
<1> QED
  BY <1>1, <1>2, <1>3, <1>4, <1>5, <1>6, <1>7, <1>8, <1>9, StepKinds, EndType,
     FlushType, CommitType DEF BulkNext, Moves

(* The types of rows, documents, tasks and sessions, the exclusive locks   *)
(* and the rollback at the end of a task (tasks.py:37-45).                 *)
THEOREM BulkTypeCorrect == BulkSpec => []BulkTypeOK
<1>1. BulkTypeOK /\ Working /\ [BulkNext]_bulkVars => BulkTypeOK' /\ Working'
  BY NextType
<1> QED
  BY <1>1, InitType, PTL DEF BulkSpec

-----------------------------------------------------------------------------
(* Locks.                                                                  *)

LEMMA NextHoldsOne ==
    BulkTypeOK /\ Working /\ HoldsOne /\ [BulkNext]_bulkVars => HoldsOne'
<1> SUFFICES ASSUME BulkTypeOK, Working, HoldsOne, [BulkNext]_bulkVars,
                    NEW v \in Workers, NEW p \in Objects,
                    pc'[v] # "idle", Dispatches(v)' \/ Runs(v)',
                    pend'[v][p] # None
             PROVE  pc'[v] \in {"saved", "indexed"} /\ Head(todo'[v]) = p
  BY DEF HoldsOne, Holds
<1> DEFINE Goal == pc'[v] \in {"saved", "indexed"} /\ Head(todo'[v]) = p
<1>1. ASSUME job'[v] = job[v], todo'[v] = todo[v], pc'[v] = pc[v], pend'[v] = pend[v]
      PROVE  Goal
  BY <1>1 DEF HoldsOne, Dispatches, Runs, Holds
<1>2. ASSUME NEW w \in Workers, Moves(w), v # w
      PROVE  Goal
  BY <1>1, <1>2, OthersStay
<1>3. ASSUME NEW t \in posted, Take(v, t) PROVE Goal
  BY <1>3 DEF Take, Start, BulkTypeOK, NothingFlushed
<1>4. ASSUME NEW t \in queue, TakeRun(v, t) PROVE Goal
  BY <1>4 DEF TakeRun, Start, BulkTypeOK, NothingFlushed
<1>5. ASSUME NEW outcome \in {"done", "failed"}, Ends(v, outcome)
      PROVE  Goal
  BY <1>5 DEF Ends, End, Leave, BulkTypeOK
<1>6. CASE Fetches(v)
  BY <1>6 DEF Fetches, HoldsOne, Dispatches, Runs, Holds, BulkTypeOK
<1>7. ASSUME NEW new \in Row, Flushes(v, new) PROVE Goal
  <2> DEFINE o == Head(todo[v])
             written == UpdateStatement(IF Holds(v, o) THEN pend[v][o] ELSE row[o],
                          img[v], [new EXCEPT !.modified = clock + 1])
  <2>1. /\ pc[v] = "loaded" /\ pc' = [pc EXCEPT ![v] = "saved"]
        /\ pend' = [pend EXCEPT ![v][o] = written]
        /\ UNCHANGED <<job, todo>>
    BY <1>7 DEF Flushes, Save
  <2> HIDE DEF written, o
  <2>2. \A q \in Objects : ~Holds(v, q)
    BY <2>1 DEF HoldsOne, Dispatches, Runs
  <2>3. p = o
    BY <2>1, <2>2 DEF Holds, BulkTypeOK
  <2> QED
    BY <2>1, <2>3 DEF BulkTypeOK, o
<1>8. CASE index_workflow_object(v)
  BY <1>8 DEF index_workflow_object, HoldsOne, Dispatches, Runs, Holds, BulkTypeOK
<1>9. CASE Passes(v)
  BY <1>9 DEF Passes, Advance, Dispatches, Runs, Dispatching
<1>10. CASE Commit(v)
  BY <1>10 DEF Commit, Leave, BulkTypeOK, NothingFlushed
<1>11. CASE delay(v)
  BY <1>11 DEF delay, HandOver, Advance, HoldsOne, Dispatches, Runs, Holds, BulkTypeOK
<1>12. ASSUME Moves(v) PROVE Goal
  BY <1>3, <1>4, <1>5, <1>6, <1>7, <1>8, <1>9, <1>10, <1>11, <1>12 DEF Moves
<1> QED
  BY <1>1, <1>2, <1>12, NextKinds

LEMMA InitInv == BulkInit => Inv
BY InitType DEF BulkInit, Inv, HoldsOne

LEMMA NextInv == Inv /\ [BulkNext]_bulkVars => Inv'
BY NextType, NextHoldsOne DEF Inv

(* Only tasks that resolve keep locks while they wait for more, so only    *)
(* they can wait in a circle (tasks.py:42-45, api.py:208-249).             *)
THEOREM ResolveDeadlocks == BulkSpec => []OnlyResolveDeadlocks
<1>1. ASSUME Inv, NEW w \in Workers, Deadlocked(w)
      PROVE  job[w].action = "resolve"
  <2>1. PICK ring \in SUBSET Workers :
              /\ w \in ring
              /\ \A v \in ring : (\E u \in ring : WaitsFor(v, u))
                               /\ (\E u \in ring : WaitsFor(u, v))
    BY <1>1 DEF Deadlocked
  <2>2. PICK u \in ring : WaitsFor(u, w)
    BY <2>1
  <2>3. Saves(w)
    BY <2>1 DEF WaitsFor
  <2>4. u \in Workers /\ At(u) /\ Holds(w, Head(todo[u]))
    BY <2>2 DEF WaitsFor, Saves, At
  <2>5. Head(todo[u]) \in Objects
    BY <1>1, <2>4, ElementsOfTail DEF Inv, Working, BulkTypeOK
  <2>6. ~Dispatches(w) /\ ~Runs(w)
    BY <1>1, <2>3, <2>4, <2>5 DEF Inv, HoldsOne, Saves
  <2>7. job[w] \in Job /\ job[w].action # "edit"
    BY <1>1, <2>3 DEF Inv, Working, Saves
  <2> QED
    BY <2>6, <2>7, JobIsBulkTask DEF Dispatches, Runs
<1>2. Inv => OnlyResolveDeadlocks
  BY <1>1 DEF OnlyResolveDeadlocks
<1> QED
  BY <1>2, InitInv, NextInv, PTL DEF BulkSpec

(* A commit by a task that hands over, or by a run, writes the object it   *)
(* is at and no other.                                                     *)
LEMMA CommitWrites ==
    ASSUME Inv, NEW w \in Workers, Commit(w)
    PROVE  /\ pc[w] = "indexed" /\ Head(todo[w]) \in Objects
           /\ Holds(w, Head(todo[w]))
           /\ row' = [row EXCEPT ![Head(todo[w])] = pend[w][Head(todo[w])]]
           /\ \A v \in Workers \ {w} : ~Holds(v, Head(todo[w]))
<1> DEFINE o == Head(todo[w])
<1>1. pc[w] = "indexed" /\ (Dispatches(w) \/ Runs(w)) /\ o \in Objects /\ Holds(w, o)
  BY ElementsOfTail DEF Commit, Commits, Dispatches, Runs, Inv, Working, At, BulkTypeOK
<1>2. \A p \in Objects : Holds(w, p) => p = o
  BY <1>1 DEF Inv, HoldsOne
<1>3. row' = [row EXCEPT ![o] = pend[w][o]]
  BY <1>1, <1>2 DEF Commit, Inv, BulkTypeOK
<1> QED
  BY <1>1, <1>3 DEF Inv, BulkTypeOK

(* What a flush writes, and upon what.                                     *)
LEMMA FlushWrites ==
    ASSUME Inv, NEW w \in Workers, NEW new \in Row, Flushes(w, new)
    PROVE  LET o == Head(todo[w])
               base == IF Holds(w, o) THEN pend[w][o] ELSE row[o]
           IN  /\ o \in Objects /\ base \in Row /\ img[w] \in Row
               /\ pc' = [pc EXCEPT ![w] = "saved"] /\ UNCHANGED <<job, todo>>
               /\ clock' = clock + 1 /\ img'[w].modified = clock + 1
               /\ pend' = [pend EXCEPT ![w][o] = pend'[w][o]]
               /\ pend'[w][o] # None /\ pend'[w][o].modified = clock + 1
               /\ pend'[w][o].status =
                    IF new.status = img[w].status THEN base.status ELSE new.status
<1> DEFINE o == Head(todo[w])
           stamped == [new EXCEPT !.modified = clock + 1]
           base == IF Holds(w, o) THEN pend[w][o] ELSE row[o]
           written == UpdateStatement(base, img[w], stamped)
<1>1. pc[w] = "loaded" /\ img[w] \in Row /\ o \in Objects
  BY ElementsOfTail DEF Flushes, Inv, Working, At, BulkTypeOK
<1>2. base \in Row
  BY <1>1 DEF Inv, Working, BulkTypeOK, Holds
<1>3. clock + 1 \in Nat
  BY DEF Inv, BulkTypeOK
<1>4. stamped \in Row /\ stamped.modified = clock + 1 /\ stamped.status = new.status
  BY <1>3 DEF Row
<1>5. written \in Row /\ written # None
  BY <1>1, <1>2, <1>4, UpdateStatementType, SentinelAssumption
<1>6. /\ clock' = clock + 1
      /\ img' = [img EXCEPT ![w] = stamped]
      /\ pend' = [pend EXCEPT ![w][o] = written]
      /\ pc' = [pc EXCEPT ![w] = "saved"]
      /\ UNCHANGED <<job, todo>>
  BY DEF Flushes, Save
<1> HIDE DEF base, stamped
<1>7. written.modified = clock + 1
      /\ written.status = IF new.status = img[w].status THEN base.status ELSE new.status
  BY <1>4 DEF UpdateStatement, Row
<1> HIDE DEF written, o
<1>8. img'[w] = stamped /\ pend'[w][o] = written
  BY <1>1, <1>6 DEF Inv, BulkTypeOK
<1> QED
  BY <1>1, <1>2, <1>4, <1>5, <1>6, <1>7, <1>8 DEF o, base

-----------------------------------------------------------------------------
(* Stamps.                                                                 *)

StampInv == Inv /\ Stamped

(* Rows do not go away, and their stamps do not go back.                   *)
LEMMA RowsAdvance ==
    ASSUME StampInv, [BulkNext]_bulkVars, NEW o \in Objects, row[o] # None
    PROVE  row'[o] # None /\ row[o].modified <= row'[o].modified
<1>1. CASE row' = row
  BY <1>1 DEF StampInv, Inv, BulkTypeOK, Row
<1>2. ASSUME NEW w \in Workers, Commit(w)
      PROVE  row'[o] # None /\ row[o].modified <= row'[o].modified
  <2>1. CASE o = Head(todo[w])
    BY <1>2, <2>1, CommitWrites DEF StampInv, Stamped, Inv, BulkTypeOK, Holds
  <2>2. CASE o # Head(todo[w])
    BY <1>2, <2>2, CommitWrites DEF StampInv, Inv, BulkTypeOK, Row
  <2> QED
    BY <2>1, <2>2
<1> QED
  BY <1>1, <1>2, NextKinds, OnlyCommitWrites DEF StampInv, Inv

LEMMA NextStamped == StampInv /\ [BulkNext]_bulkVars => Stamped'
<1> SUFFICES ASSUME StampInv, [BulkNext]_bulkVars PROVE Stamped'
  OBVIOUS
<1>1. BulkTypeOK /\ Working /\ BulkTypeOK'
  BY NextInv DEF StampInv, Inv
<1>2. clock \in Nat /\ clock' \in Nat /\ clock <= clock'
  <2>1. clock' = clock \/ clock' = clock + 1
    BY <1>1, NextKinds
    DEF Moves, Take, TakeRun, Start, Ends, End, store, Fetches, Flushes, Save,
        index_workflow_object, Passes, Commit, delay, HandOver
  <2> QED
    BY <1>1, <2>1 DEF BulkTypeOK
<1>3. \A o \in Objects : row[o] # None => row[o].modified \in Nat
  BY <1>1 DEF BulkTypeOK, Row
<1>4. \A v \in Workers, o \in Objects : Holds(v, o) => pend[v][o].modified \in Nat
  BY <1>1 DEF BulkTypeOK, Row, Holds
<1>5. ASSUME NEW o \in Objects, row'[o] # None
      PROVE  row'[o].modified <= clock'
  <2>1. CASE row' = row
    BY <1>2, <1>3, <1>5, <2>1 DEF StampInv, Stamped
  <2>2. ASSUME NEW w \in Workers, Commit(w) PROVE row'[o].modified <= clock'
    <3>1. clock' = clock
      BY <2>2 DEF Commit
    <3>2. CASE o = Head(todo[w])
      <4>1. row'[o] = pend[w][o] /\ Holds(w, o)
        BY <1>1, <2>2, <3>2, CommitWrites DEF StampInv, BulkTypeOK
      <4> QED
        BY <3>1, <4>1 DEF StampInv, Stamped
    <3>3. CASE o # Head(todo[w])
      <4>1. row'[o] = row[o]
        BY <1>1, <2>2, <3>3, CommitWrites DEF StampInv, BulkTypeOK
      <4> QED
        BY <1>5, <3>1, <4>1 DEF StampInv, Stamped
    <3> QED
      BY <3>2, <3>3
  <2> QED
    BY <1>1, <2>1, <2>2, NextKinds, OnlyCommitWrites
<1> DEFINE Flushed(v, o) ==
             /\ row'[o] # None /\ row'[o].modified <= pend'[v][o].modified
             /\ pend'[v][o].modified <= clock'
           Stamps(v) == /\ pc'[v] \in {"saved", "indexed"} =>
                             img'[v].modified = pend'[v][Head(todo'[v])].modified
                        /\ pc'[v] = "committed" =>
                             /\ row'[Head(todo'[v])] # None
                             /\ img'[v].modified <= row'[Head(todo'[v])].modified
(* A worker whose own variables stay as they were.                         *)
<1>6. ASSUME NEW v \in Workers, NEW o \in Objects, pend'[v] = pend[v], Holds(v, o)'
      PROVE  Flushed(v, o)
  <2>1. Holds(v, o) /\ row[o] # None
    BY <1>6 DEF Holds, StampInv, Stamped
  <2>2. row'[o] = row[o]
    <3>1. ASSUME NEW w \in Workers, Commit(w) PROVE row'[o] = row[o]
      <4>1. v # w
        BY <1>1, <1>6, <2>1, <3>1 DEF Commit, Leave, Holds, NothingFlushed, BulkTypeOK
      <4>2. o # Head(todo[w])
        BY <2>1, <3>1, <4>1, CommitWrites DEF StampInv
      <4> QED
        BY <1>1, <3>1, <4>2, CommitWrites DEF StampInv, BulkTypeOK
    <3> QED
      BY <1>1, <3>1, NextKinds, OnlyCommitWrites
  <2> QED
    BY <1>2, <1>4, <1>6, <2>1, <2>2 DEF StampInv, Stamped
<1>7. ASSUME NEW v \in Workers, pc'[v] = pc[v], todo'[v] = todo[v],
             img'[v] = img[v], pend'[v] = pend[v]
      PROVE  Stamps(v)
  <2>1. pc[v] = "committed" => /\ Head(todo[v]) \in Objects /\ img[v] \in Row
                               /\ row[Head(todo[v])] # None
                               /\ img[v].modified <= row[Head(todo[v])].modified
    BY <1>1, ElementsOfTail DEF Working, At, BulkTypeOK, StampInv, Stamped
  <2>2. pc[v] = "committed" =>
          /\ row'[Head(todo[v])] # None
          /\ row[Head(todo[v])].modified <= row'[Head(todo[v])].modified
    BY <2>1, RowsAdvance
  <2>3. \A o \in Objects : row'[o] # None => row'[o].modified \in Nat
    BY <1>1 DEF BulkTypeOK, Row
  <2> QED
    BY <1>3, <1>7, <2>1, <2>2, <2>3 DEF Row, StampInv, Stamped
(* The worker that takes the step.                                         *)
<1>8. ASSUME NEW w \in Workers, NEW new \in Row, Flushes(w, new)
      PROVE  Stamps(w) /\ \A o \in Objects : Holds(w, o)' => Flushed(w, o)
  <2> DEFINE h == Head(todo[w])
  <2>1. /\ h \in Objects /\ todo' = todo /\ pc' = [pc EXCEPT ![w] = "saved"]
        /\ clock' = clock + 1 /\ img'[w].modified = clock + 1
        /\ pend' = [pend EXCEPT ![w][h] = pend'[w][h]]
        /\ pend'[w][h].modified = clock + 1
        /\ Holds(w, h) \/ row[h] # None
    BY <1>8, FlushWrites
    DEF StampInv, Flushes, Inv, Working
  <2>2. row' = row
    BY <1>8 DEF Flushes, Save
  <2>3. row[h] # None /\ row[h].modified <= clock
    BY <2>1 DEF StampInv, Stamped
  <2>4. Flushed(w, h)
    BY <1>2, <1>3, <2>1, <2>2, <2>3
  <2>5. ASSUME NEW o \in Objects, o # h, Holds(w, o)' PROVE Flushed(w, o)
    <3>1. pend'[w][o] = pend[w][o] /\ Holds(w, o)
      BY <1>1, <2>1, <2>5 DEF Holds, BulkTypeOK
    <3> QED
      BY <1>2, <1>4, <2>1, <2>2, <3>1 DEF StampInv, Stamped
  <2>6. Stamps(w)
    BY <1>1, <2>1 DEF BulkTypeOK
  <2> QED
    BY <2>4, <2>5, <2>6
<1>9. ASSUME NEW w \in Workers, Commit(w)
      PROVE  Stamps(w) /\ \A o \in Objects : ~Holds(w, o)'
  <2>1. \A o \in Objects : ~Holds(w, o)'
    BY <1>1, <1>9 DEF Commit, Leave, Holds, NothingFlushed, BulkTypeOK
  <2>2. \/ pc' = [pc EXCEPT ![w] = "idle"]
        \/ pc' = [pc EXCEPT ![w] = "committed"] /\ todo' = todo /\ img' = img
    BY <1>9 DEF Commit, Leave
  <2>3. /\ Head(todo[w]) \in Objects /\ Holds(w, Head(todo[w]))
        /\ row'[Head(todo[w])] = pend[w][Head(todo[w])]
        /\ img[w].modified = pend[w][Head(todo[w])].modified
    BY <1>1, <1>9, CommitWrites DEF StampInv, Stamped, BulkTypeOK
  <2>4. CASE pc' = [pc EXCEPT ![w] = "idle"]
    BY <1>1, <2>1, <2>4 DEF BulkTypeOK
  <2>5. CASE pc' = [pc EXCEPT ![w] = "committed"] /\ todo' = todo /\ img' = img
    <3>1. pc'[w] = "committed"
      BY <1>1, <2>5 DEF BulkTypeOK
    <3> QED
      BY <1>4, <2>1, <2>3, <2>5, <3>1 DEF Holds
  <2> QED
    BY <2>2, <2>4, <2>5
<1>10. ASSUME NEW w \in Workers, Moves(w), ~Commit(w),
              \A new \in Row : ~Flushes(w, new)
       PROVE  Stamps(w) /\ \A o \in Objects : Holds(w, o)' => Flushed(w, o)
  <2>1. \/ pend'[w] = NothingFlushed
        \/ pend'[w] = pend[w]
    BY <1>1, <1>10
    DEF Moves, Take, TakeRun, Start, Ends, End, Leave, Fetches,
        index_workflow_object, Passes, delay, HandOver, BulkTypeOK
  <2>2. \A o \in Objects : Holds(w, o)' => Flushed(w, o)
    BY <1>6, <2>1 DEF Holds, NothingFlushed
  <2>3. CASE index_workflow_object(w)
    <3>1. /\ pc[w] = "saved" /\ pc'[w] = "indexed"
          /\ UNCHANGED <<todo, img, pend>>
      BY <1>1, <2>3 DEF index_workflow_object, BulkTypeOK
    <3> QED
      BY <2>2, <3>1 DEF StampInv, Stamped
  <2>4. CASE ~index_workflow_object(w)
    <3>1. pc'[w] \in {"idle", "next", "loaded"}
      BY <1>1, <1>10, <2>4
      DEF Moves, Take, TakeRun, Start, Ends, End, Leave, Fetches, Passes, delay,
          HandOver, Advance, BulkTypeOK
    <3> QED
      BY <2>2, <3>1
  <2> QED
    BY <2>2, <2>3, <2>4
<1>11. ASSUME NEW v \in Workers
       PROVE  Stamps(v) /\ \A o \in Objects : Holds(v, o)' => Flushed(v, o)
  <2>1. CASE Moves(v)
    BY <1>8, <1>9, <1>10, <2>1
  <2>2. ASSUME NEW w \in Workers, Moves(w), v # w
        PROVE  Stamps(v) /\ \A o \in Objects : Holds(v, o)' => Flushed(v, o)
    BY <1>1, <1>6, <1>7, <2>2, OthersStay
  <2> QED
    BY <1>1, <1>6, <1>7, <2>1, <2>2, NextKinds
<1> QED
  BY <1>5, <1>11 DEF Stamped

(* A resume task finds the row its restart committed, or a later one       *)
(* (commit before delay, api.py:215-216, in the loop of tasks.py:42-45),   *)
(* although workers die, tasks fail half way through their lists, and      *)
(* other tasks and runs commit the same object.                            *)
THEOREM HandedCommitted == BulkSpec => []HandedIsCommitted
<1>1. BulkInit => StampInv /\ HandedIsCommitted
  BY InitInv DEF BulkInit, StampInv, Stamped, HandedIsCommitted, HaltedRow, Holds,
                 NothingFlushed
<1>2. ASSUME StampInv, HandedIsCommitted, [BulkNext]_bulkVars, NEW t \in queue'
      PROVE  row'[t.obj] # None /\ t.stamp <= row'[t.obj].modified
  <2>1. BulkTypeOK /\ Working /\ BulkTypeOK'
    BY <1>2, NextInv DEF StampInv, Inv
  <2>2. CASE t \in queue
    <3>1. t.obj \in Objects /\ t.stamp \in Nat
          /\ row[t.obj] # None /\ t.stamp <= row[t.obj].modified
      BY <1>2, <2>1, <2>2 DEF HandedIsCommitted, BulkTypeOK, ResumeTask
    <3>2. row'[t.obj] # None /\ row[t.obj].modified <= row'[t.obj].modified
      BY <1>2, <3>1, RowsAdvance
    <3> QED
      BY <2>1, <3>1, <3>2 DEF BulkTypeOK, Row
  <2>3. ASSUME NEW w \in Workers, delay(w), t \notin queue
        PROVE  row'[t.obj] # None /\ t.stamp <= row'[t.obj].modified
    <3>1. /\ pc[w] = "committed" /\ row' = row
          /\ t.obj = Head(todo[w]) /\ t.stamp = img[w].modified
      BY <1>2, <2>3 DEF delay, HandOver
    <3> QED
      BY <1>2, <3>1 DEF StampInv, Stamped
  <2>4. ASSUME NEW w \in Workers, Moves(w), ~delay(w)
        PROVE  queue' \subseteq queue
    BY <2>4
    DEF Moves, Take, TakeRun, Start, Ends, End, store, Fetches, Flushes, Save,
        index_workflow_object, Passes, Commit
  <2> QED
    BY <1>2, <2>1, <2>2, <2>3, <2>4, NextKinds
<1>3. StampInv /\ HandedIsCommitted /\ [BulkNext]_bulkVars
        => StampInv' /\ HandedIsCommitted'
  BY <1>2, NextInv, NextStamped DEF StampInv, HandedIsCommitted
<1> QED
  BY <1>1, <1>3, PTL DEF BulkSpec

-----------------------------------------------------------------------------
(* What is RUNNING is moved on.                                            *)

LEMMA NextRunKeepsStatus ==
    Inv /\ RunKeepsStatus /\ [BulkNext]_bulkVars => RunKeepsStatus'
<1> SUFFICES ASSUME Inv, RunKeepsStatus, [BulkNext]_bulkVars, NEW v \in Workers,
                    pc'[v] \in {"saved", "indexed"}, Runs(v)',
                    pend'[v][Head(todo'[v])].status = "RUNNING"
             PROVE  row'[Head(todo'[v])].status = "RUNNING"
  BY DEF RunKeepsStatus
<1> DEFINE Goal == row'[Head(todo'[v])].status = "RUNNING"
<1>1. BulkTypeOK /\ Working
  BY DEF Inv
<1>2. ASSUME pc[v] \in {"saved", "indexed"}, job'[v] = job[v], todo'[v] = todo[v],
             pend'[v] = pend[v]
      PROVE  Goal
  <2> DEFINE h == Head(todo[v])
  <2>1. h \in Objects /\ Holds(v, h) /\ row[h].status = "RUNNING"
    BY <1>1, <1>2, ElementsOfTail DEF RunKeepsStatus, Runs, Working, At, BulkTypeOK
  <2>2. ASSUME NEW w \in Workers, Commit(w) PROVE row'[h] = row[h]
    <3>1. v # w
      BY <1>1, <1>2, <2>1, <2>2 DEF Commit, Leave, Holds, NothingFlushed, BulkTypeOK
    <3>2. h # Head(todo[w])
      BY <2>1, <2>2, <3>1, CommitWrites
    <3> QED
      BY <1>1, <2>1, <2>2, <3>2, CommitWrites DEF BulkTypeOK
  <2>3. row'[h] = row[h]
    BY <1>1, <2>2, NextKinds, OnlyCommitWrites
  <2> QED
    BY <1>2, <2>1, <2>3
<1>3. ASSUME NEW w \in Workers, Moves(w), v # w PROVE Goal
  BY <1>2, <1>3, OthersStay, <1>1
<1>4. ASSUME NEW new \in Row, Flushes(v, new) PROVE Goal
  <2> DEFINE h == Head(todo[v])
  <2>1. /\ UNCHANGED <<job, todo, row>> /\ new.status # "RUNNING" /\ pc[v] = "loaded"
    BY <1>4 DEF Flushes, Save, Runs
  <2>2. h \in Objects /\ ~Holds(v, h)
    BY <1>1, <1>4, <2>1, FlushWrites DEF Inv, HoldsOne, Runs
  <2>3. pend'[v][h].status = IF new.status = img[v].status THEN row[h].status
                                                           ELSE new.status
    BY <1>4, <2>2, FlushWrites
  <2> QED
    BY <2>1, <2>3
<1>5. CASE index_workflow_object(v)
  <2>1. pc[v] = "saved" /\ UNCHANGED <<job, todo, pend>>
    BY <1>5 DEF index_workflow_object
  <2> QED
    BY <1>2, <2>1
<1>6. ASSUME Moves(v), ~index_workflow_object(v), \A new \in Row : ~Flushes(v, new)
      PROVE  FALSE
  BY <1>1, <1>6
  DEF Moves, Take, TakeRun, Start, Ends, End, Leave, Fetches, Passes, Commit, delay,
      HandOver, Advance, BulkTypeOK
<1>7. CASE UNCHANGED <<job, todo, pc, pend>>
  BY <1>2, <1>7
<1> QED
  BY <1>1, <1>3, <1>4, <1>5, <1>6, <1>7, NextKinds

(* Who carries an object goes on to, or hands it over, or strands it, or   *)
(* takes it out of RUNNING.                                                *)
LEMMA CarriesOn ==
    ASSUME Inv, NEW w \in Workers, Moves(w), NEW o \in Objects, Carries(w, o),
           row[o] # None, row[o].status = "RUNNING",
           row'[o] # None, row'[o].status = "RUNNING"
    PROVE  \/ \E t \in queue' : t.obj = o
           \/ Carries(w, o)'
           \/ o \in stranded'
<1> DEFINE Goal == \/ \E t \in queue' : t.obj = o
                   \/ Carries(w, o)'
                   \/ o \in stranded'
<1>1. BulkTypeOK /\ Working /\ pc[w] # "idle" /\ Head(todo[w]) = o
  BY DEF Inv, Carries
<1>2. pc[w] = "committed" \/ Runs(w)
  BY DEF Carries
<1>3. ASSUME NEW t, Start(w, t) PROVE FALSE
  BY <1>1, <1>3 DEF Start
<1>4. ASSUME NEW outcome \in {"done", "failed"}, Ends(w, outcome) PROVE Goal
  BY <1>1, <1>2, <1>4 DEF Ends, End, Runs
<1>5. CASE Fetches(w)
  <2>1. /\ pc[w] = "next" /\ pc' = [pc EXCEPT ![w] = "loaded"] /\ Runs(w)
        /\ UNCHANGED <<job, todo>>
    BY <1>2, <1>5 DEF Fetches
  <2>2. ~Holds(w, o)
    BY <1>1, <2>1 DEF Inv, HoldsOne
  <2>3. img'[w] = row[o]
    BY <1>1, <1>5, <2>2 DEF Fetches, BulkTypeOK
  <2> QED
    BY <1>1, <2>1, <2>3 DEF Carries, Runs, BulkTypeOK
<1>6. ASSUME NEW new \in Row, Flushes(w, new) PROVE Goal
  <2>1. /\ pc[w] = "loaded" /\ Runs(w) /\ img[w].status = "RUNNING"
        /\ new.status # "RUNNING" /\ UNCHANGED <<job, todo>>
    BY <1>2, <1>6 DEF Flushes, Save, Carries
  <2>2. pend'[w][o].status = new.status /\ pc'[w] = "saved"
    BY <1>1, <1>6, <2>1, FlushWrites DEF BulkTypeOK
  <2> QED
    BY <1>1, <2>1, <2>2 DEF Carries, Runs
<1>7. CASE index_workflow_object(w)
  BY <1>1, <1>7 DEF index_workflow_object, Carries, Runs, BulkTypeOK
<1>8. CASE Passes(w)
  BY <1>2, <1>8 DEF Passes, Runs
<1>9. CASE Commit(w)
  <2>1. pc[w] = "indexed" /\ row'[o] = pend[w][o]
    BY <1>1, <1>9, CommitWrites DEF BulkTypeOK
  <2> QED
    BY <2>1 DEF Carries
<1>10. CASE delay(w)
  <2> DEFINE t == [obj |-> o, stamp |-> img[w].modified]
  <2>1. t \in queue'
    BY <1>1, <1>10 DEF delay, HandOver
  <2>2. t.obj = o
    OBVIOUS
  <2> HIDE DEF t
  <2> QED
    BY <2>1, <2>2
<1> QED
  BY <1>3, <1>4, <1>5, <1>6, <1>7, <1>8, <1>9, <1>10 DEF Moves, Take, TakeRun

LEMMA NextRunningIsMoved ==
    StampInv /\ RunKeepsStatus /\ RunningIsMoved /\ [BulkNext]_bulkVars
        => RunningIsMoved'
<1> SUFFICES ASSUME StampInv, RunKeepsStatus, RunningIsMoved, [BulkNext]_bulkVars,
                    NEW o \in Objects, row'[o] # None,
                    row'[o].status = "RUNNING"
             PROVE  \/ \E t \in queue' : t.obj = o
                    \/ \E w \in Workers : Carries(w, o)'
                    \/ o \in stranded'
  BY DEF RunningIsMoved
<1> DEFINE Goal == \/ \E t \in queue' : t.obj = o
                   \/ \E w \in Workers : Carries(w, o)'
                   \/ o \in stranded'
           Running == row[o] # None /\ row[o].status = "RUNNING"
<1>1. BulkTypeOK /\ Working /\ Inv
  BY DEF StampInv, Inv
<1>2. CASE UNCHANGED <<row, queue, job, todo, pc, img, pend, stranded>>
  BY <1>2 DEF RunningIsMoved, Carries, Runs
<1>3. ASSUME NEW w \in Workers, NEW v \in Workers, Moves(w), v # w, Carries(v, o)
      PROVE  Carries(v, o)'
  BY <1>1, <1>3, OthersStay DEF Carries, Runs
(* A commit that makes the object RUNNING is carried by who did it.        *)
<1>4. ASSUME NEW w \in Workers, Commit(w), Dispatches(w), o = Head(todo[w])
      PROVE  Goal
  BY <1>1, <1>4 DEF Commit, Dispatches, Dispatching, Carries, BulkTypeOK
<1>5. ASSUME NEW w \in Workers, Moves(w),
             ~(Commit(w) /\ Dispatches(w) /\ o = Head(todo[w]))
      PROVE  Running
  <2>1. CASE ~Commit(w)
    BY <1>5, <2>1, OnlyCommitWrites
  <2>2. CASE Commit(w)
    <3>1. CASE o # Head(todo[w])
      BY <1>1, <2>2, <3>1, CommitWrites DEF BulkTypeOK
    <3>2. CASE o = Head(todo[w]) /\ Runs(w)
      <4>1. pc[w] = "indexed" /\ row'[o] = pend[w][o]
        BY <1>1, <2>2, <3>2, CommitWrites DEF BulkTypeOK
      <4>2. row[o].status = "RUNNING"
        BY <3>2, <4>1 DEF RunKeepsStatus
      <4>3. row[o] # None
        BY <1>1, <2>2, <3>2, CommitWrites DEF StampInv, Stamped
      <4> QED
        BY <4>2, <4>3
    <3> QED
      BY <1>5, <2>2, <3>1, <3>2 DEF Commit, Commits, Dispatches, Runs
  <2> QED
    BY <2>1, <2>2
<1>6. ASSUME NEW w \in Workers, Moves(w), Running,
             NEW v \in Workers, Carries(v, o)
      PROVE  Goal
  BY <1>1, <1>3, <1>6, CarriesOn
(* A resume task stays at the broker until a worker takes it.              *)
<1>7. ASSUME NEW w \in Workers, Moves(w), NEW t \in queue, t.obj = o
      PROVE  Goal
  <2>1. CASE t \in queue'
    BY <1>7, <2>1
  <2>2. CASE t \notin queue'
    <3>1. TakeRun(w, t)
      BY <1>7, <2>2
      DEF Moves, Take, TakeRun, Ends, End, store, Fetches, Flushes, Save,
          index_workflow_object, Passes, Commit, delay, HandOver
    <3>2. pc'[w] = "next" /\ job'[w] = RunOf(o) /\ todo'[w] = RunOf(o).ids
      BY <1>1, <1>7, <3>1 DEF TakeRun, Start, BulkTypeOK
    <3> QED
      BY <3>2, RunIsForOne DEF Carries, Runs
  <2> QED
    BY <2>1, <2>2
(* What is stranded stays so until somebody restarts it.                   *)
<1>8. ASSUME NEW w \in Workers, Moves(w), o \in stranded,
             ~(Commit(w) /\ Dispatches(w) /\ o = Head(todo[w]))
      PROVE  o \in stranded'
  BY <1>8
  DEF Moves, Take, TakeRun, Start, Ends, End, history, Fetches, Flushes, Save,
      index_workflow_object, Passes, Commit, Dispatches, delay, HandOver
<1> QED
  BY <1>1, <1>2, <1>4, <1>5, <1>6, <1>7, <1>8, NextKinds DEF RunningIsMoved, history

(* An object that is RUNNING is being moved on, whatever tasks and runs    *)
(* overlap at it and wherever they end, unless a worker died or the broker *)
(* refused between commit and delay at that object (api.py:229-230), or    *)
(* its run came to a bad end, and nobody has restarted it since.           *)
THEOREM RunningHanded == BulkSpec => []RunningIsHanded
<1> DEFINE I == RunKeepsStatus /\ StampInv /\ RunningIsMoved
<1>1. BulkInit => I
  <2> SUFFICES ASSUME BulkInit PROVE I
    OBVIOUS
  <2>1. Inv /\ Stamped
    BY InitInv DEF BulkInit, Stamped, HaltedRow, Holds, NothingFlushed
  <2>2. \A o \in Objects : row[o] # None => row[o].status = "HALTED"
    BY DEF BulkInit, HaltedRow
  <2> QED
    BY <2>1, <2>2 DEF BulkInit, StampInv, RunKeepsStatus, RunningIsMoved
<1>2. I /\ [BulkNext]_bulkVars => I'
  BY NextInv, NextStamped, NextRunKeepsStatus, NextRunningIsMoved DEF StampInv
<1>3. I => RunningIsHanded
  BY DEF RunningIsMoved, RunningIsHanded, Carried, Carries, Runs
<1> QED
  BY <1>1, <1>2, <1>3, PTL DEF BulkSpec

-----------------------------------------------------------------------------
(* A task that is done has handed over its whole list.                     *)

DoneInv == Inv /\ FinishedIsHanded /\ DoneIsHanded

LEMMA HandedStays ==
    ASSUME BulkTypeOK, Working, [BulkNext]_bulkVars
    PROVE  handed \subseteq handed'
BY NextKinds
DEF Moves, Take, TakeRun, Start, Ends, End, store, Fetches, Flushes, Save,
    index_workflow_object, Passes, Commit, delay, HandOver

LEMMA NextFinished ==
    Inv /\ FinishedIsHanded /\ [BulkNext]_bulkVars => FinishedIsHanded'
<1> SUFFICES ASSUME Inv, FinishedIsHanded, [BulkNext]_bulkVars,
                    NEW v \in Workers, pc'[v] # "idle", Dispatches(v)',
                    NEW o \in Elements(job'[v].ids)
             PROVE  \/ [id |-> job'[v].id, obj |-> o] \in handed'
                    \/ o \in Elements(todo'[v])
  BY DEF FinishedIsHanded
<1> DEFINE Goal == \/ [id |-> job'[v].id, obj |-> o] \in handed'
                   \/ o \in Elements(todo'[v])
<1>1. BulkTypeOK /\ Working /\ handed \subseteq handed'
  BY HandedStays DEF Inv
<1>2. ASSUME pc[v] # "idle", job'[v] = job[v], todo'[v] = todo[v]
      PROVE  Goal
  BY <1>1, <1>2 DEF FinishedIsHanded, Dispatches
<1>3. ASSUME NEW t, Start(v, t) PROVE Goal
  <2>1. job'[v] = t /\ todo'[v] = t.ids
    BY <1>1, <1>3 DEF Start, BulkTypeOK
  <2> QED
    BY <2>1
<1>4. CASE delay(v)
  <2>1. /\ job'[v] = job[v] /\ pc[v] = "committed"
        /\ [id |-> job[v].id, obj |-> Head(todo[v])] \in handed'
        /\ todo'[v] = Tail(todo[v])
    BY <1>1, <1>4 DEF delay, HandOver, Advance, BulkTypeOK
  <2>2. Elements(todo[v]) \subseteq {Head(todo[v])} \cup Elements(Tail(todo[v]))
    BY <1>1, <2>1, ElementsOfTail DEF Working, At, BulkTypeOK
  <2>3. [id |-> job[v].id, obj |-> o] \in handed \/ o \in Elements(todo[v])
    BY <2>1 DEF FinishedIsHanded, Dispatches
  <2> QED
    BY <1>1, <2>1, <2>2, <2>3
<1>5. CASE Passes(v)
  BY <1>5 DEF Passes, Advance, Dispatches, Dispatching
<1>6. ASSUME \/ \E outcome \in {"done", "failed"} : Ends(v, outcome)
             \/ Commit(v) /\ Runs(v)
      PROVE  Goal
  BY <1>1, <1>6
  DEF Ends, End, Leave, Commit, Runs, Dispatches, Dispatching, BulkTypeOK
<1>7. ASSUME \/ Fetches(v)
             \/ \E new \in Row : Flushes(v, new)
             \/ index_workflow_object(v)
             \/ Commit(v) /\ ~Runs(v)
      PROVE  Goal
  <2>1. pc[v] # "idle" /\ job' = job /\ todo' = todo
    BY <1>7
    DEF Fetches, Flushes, Save, index_workflow_object, Commit, Commits, Runs
  <2> QED
    BY <1>2, <2>1
<1>8. ASSUME NEW w \in Workers, w # v, Moves(w) PROVE Goal
  BY <1>1, <1>2, <1>8, OthersStay
<1>9. CASE UNCHANGED <<pc, job, todo>>
  BY <1>2, <1>9
<1> QED
  BY <1>1, <1>3, <1>4, <1>5, <1>6, <1>7, <1>8, <1>9, NextKinds DEF Moves, Take, TakeRun

LEMMA NextDone == DoneInv /\ [BulkNext]_bulkVars => DoneIsHanded'
<1> SUFFICES ASSUME DoneInv, [BulkNext]_bulkVars,
                    NEW e \in ended', e.outcome = "done",
                    e.task.action \in Dispatching, NEW o \in Elements(e.task.ids)
             PROVE  [id |-> e.task.id, obj |-> o] \in handed'
  BY DEF DoneIsHanded, Ended
<1>1. BulkTypeOK /\ Working /\ handed \subseteq handed'
  BY HandedStays DEF DoneInv, Inv
<1>2. CASE e \in ended
  BY <1>1, <1>2 DEF DoneInv, DoneIsHanded, Ended
<1>3. ASSUME NEW w \in Workers, NEW outcome \in {"done", "failed"},
             Ends(w, outcome), e \notin ended
      PROVE  [id |-> e.task.id, obj |-> o] \in handed'
  <2>1. e = [task |-> job[w], outcome |-> outcome]
    BY <1>3 DEF Ends, End
  <2>2. pc[w] = "next" /\ todo[w] = <<>> /\ Dispatches(w) /\ e.task = job[w]
    BY <1>3, <2>1 DEF Ends, Dispatches
  <2>3. [id |-> job[w].id, obj |-> o] \in handed \/ o \in Elements(<<>>)
    BY <2>2 DEF DoneInv, FinishedIsHanded
  <2> QED
    BY <1>1, <2>2, <2>3, NoElements
<1>4. ASSUME NEW w \in Workers, Moves(w),
             \A outcome \in {"done", "failed"} : ~Ends(w, outcome)
      PROVE  UNCHANGED ended
  BY <1>4
  DEF Moves, Take, TakeRun, Start, history, Fetches, Flushes, Save,
      index_workflow_object, Passes, Commit, delay, HandOver
<1> QED
  BY <1>1, <1>2, <1>3, <1>4, NextKinds DEF history

(* A bulk restart, restart_step or resume that ended without an error has  *)
(* itself handed over every object of its list (tasks.py:37-45).           *)
THEOREM DoneHanded == BulkSpec => []DoneIsHanded
<1>1. BulkInit => DoneInv
  BY InitInv DEF BulkInit, DoneInv, FinishedIsHanded, DoneIsHanded, Ended
<1>2. DoneInv /\ [BulkNext]_bulkVars => DoneInv'
  BY NextInv, NextFinished, NextDone DEF DoneInv
<1>3. DoneInv => DoneIsHanded
  BY DEF DoneInv
<1> QED
  BY <1>1, <1>2, <1>3, PTL DEF BulkSpec
=============================================================================
