---------------------------- MODULE Reindex_proofs ----------------------------
(***************************************************************************)
(* Theorems about Reindex for every set of objects, sessions and batch     *)
(* sizes: the command and its tasks beside any number of requests and runs *)
(* of HoldingPen, whose invariants hold next to them.                      *)
(***************************************************************************)
EXTENDS Reindex, HoldingPen_proofs, FiniteSetTheorems

-----------------------------------------------------------------------------
(* Sums over finite sets.  MapThenSumSet is a fold, a recursive function   *)
(* on the subsets of its argument; what it computes is proved by taking a  *)
(* smallest subset that would be an exception.                             *)

First(T) == CHOOSE x \in T : TRUE

(* h adds up the batches of every subset of W.                             *)
Sums(h, W) ==
    h = [T \in SUBSET W |->
            IF T = {} THEN 0 ELSE First(T).success + h[T \ {First(T)}]]

SumOver(S) == CHOOSE h : Sums(h, S)

LEMMA SumIsFold ==
    ASSUME NEW S
    PROVE  MapThenSumSet(LAMBDA b : b.success, S) = SumOver(S)[S]
BY DEF MapThenSumSet, MapThenFoldSet, SumOver, Sums, First

(* Among the subsets of a finite set that are in B one is smallest.        *)
LEMMA Smallest ==
    ASSUME NEW S, IsFiniteSet(S), NEW B \in SUBSET SUBSET S, B # {}
    PROVE  \E T \in B : \A U \in B : ~(U \subseteq T /\ U # T)
<1>1. IsWellFoundedOn(StrictSubsetOrdering(S), SUBSET S)
  BY FS_StrictSubsetOrderingWellFounded, FS_FiniteSubsetsOfFinite
<1>2. PICK T \in B : \A U \in B : <<U, T>> \notin StrictSubsetOrdering(S)
  BY <1>1, WFMin
<1> QED
  BY <1>2 DEF StrictSubsetOrdering

LEMMA FirstIsIn ==
    ASSUME NEW T, T # {}
    PROVE  First(T) \in T
BY DEF First

(* What a sum is on a set.                                                 *)
LEMMA SumsOn ==
    ASSUME NEW W, NEW h, Sums(h, W), NEW T \in SUBSET W
    PROVE  h[T] = IF T = {} THEN 0
                            ELSE First(T).success + h[T \ {First(T)}]
BY DEF Sums

(* Two sums agree where both are defined.                                  *)
LEMMA SumsAgree ==
    ASSUME NEW S, IsFiniteSet(S), NEW U \in SUBSET S, NEW V \in SUBSET S,
           NEW g, NEW h, Sums(g, U), Sums(h, V)
    PROVE  \A W \in SUBSET (U \cap V) : g[W] = h[W]
<1> DEFINE B == {T \in SUBSET (U \cap V) : g[T] # h[T]}
<1> SUFFICES ASSUME B # {} PROVE FALSE
  OBVIOUS
<1>1. PICK T \in B : \A W \in B : ~(W \subseteq T /\ W # T)
  <2>1. B \in SUBSET SUBSET S
    OBVIOUS
  <2> HIDE DEF B
  <2> QED
    BY <2>1, Smallest
<1>2. T \in SUBSET U /\ T \in SUBSET V /\ g[T] # h[T]
  BY <1>1
<1>3. T # {}
  BY <1>2, SumsOn
<1>4. g[T \ {First(T)}] = h[T \ {First(T)}]
  BY <1>1, <1>3, FirstIsIn
<1> HIDE DEF B
<1>5. g[T] = First(T).success + g[T \ {First(T)}]
  BY <1>2, <1>3, SumsOn
<1>6. h[T] = First(T).success + h[T \ {First(T)}]
  BY <1>2, <1>3, SumsOn
<1> QED
  BY <1>2, <1>4, <1>5, <1>6

(* A finite set has a sum.                                                 *)
LEMMA SumExists ==
    ASSUME NEW S, IsFiniteSet(S)
    PROVE  \A T \in SUBSET S : Sums(SumOver(T), T)
<1> DEFINE B == {T \in SUBSET S : ~ \E h : Sums(h, T)}
<1>1. ASSUME B # {} PROVE FALSE
  <2>1. PICK T \in B : \A W \in B : ~(W \subseteq T /\ W # T)
    <3>1. B \in SUBSET SUBSET S
      OBVIOUS
    <3> HIDE DEF B
    <3> QED
      BY <1>1, <3>1, Smallest
  <2> DEFINE Rest(W) == W \ {First(W)}
             Value(W) == IF W = {} THEN 0
                         ELSE First(W).success + SumOver(Rest(W))[Rest(W)]
             g == [W \in SUBSET T |-> Value(W)]
  <2>2. \A W \in SUBSET T : W # T => Sums(SumOver(W), W)
    BY <2>1 DEF SumOver
  <2>3. \A W \in SUBSET T : W # {} => Rest(W) \in SUBSET T /\ Rest(W) # T
                                     /\ Rest(W) \in SUBSET W
    BY FirstIsIn
  <2>4. ASSUME NEW W \in SUBSET T, W # {}
        PROVE  g[Rest(W)] = SumOver(Rest(W))[Rest(W)]
    <3> DEFINE X == Rest(W)
    <3>1. X \in SUBSET T /\ X # T /\ Sums(SumOver(X), X)
      BY <2>2, <2>3, <2>4
    <3>2. CASE X = {}
      <4>1. SumOver(X)[{}] = 0
        BY <3>1, SumsOn
      <4>2. g[{}] = 0
        OBVIOUS
      <4> HIDE DEF X, g
      <4>3. g[X] = SumOver(X)[X]
        BY <3>2, <4>1, <4>2
      <4> QED
        BY <4>3 DEF X
    <3>3. CASE X # {}
      <4>1. Rest(X) \in SUBSET T /\ Rest(X) # T /\ Rest(X) \in SUBSET X
            /\ Sums(SumOver(Rest(X)), Rest(X))
        BY <2>2, <2>3, <3>1, <3>3
      <4>2. SumOver(X)[X] = First(X).success + SumOver(X)[Rest(X)]
        <5> HIDE DEF g, Rest, B, X
        <5>1. SumOver(X)[X] = First(X).success + SumOver(X)[X \ {First(X)}]
          BY <3>1, <3>3, SumsOn
        <5> QED
          BY <5>1 DEF Rest
      <4>3. X \in SUBSET S /\ Rest(X) \in SUBSET S
        BY <2>1, <3>1, <4>1
      <4>4. SumOver(X)[Rest(X)] = SumOver(Rest(X))[Rest(X)]
        <5> HIDE DEF Rest, X
        <5>1. Rest(X) \in SUBSET (X \cap Rest(X))
          BY <4>1
        <5> QED
          BY <3>1, <4>1, <4>3, <5>1, SumsAgree
      <4>5. g[X] = Value(X)
        BY <3>1
      <4> QED
        BY <3>3, <4>2, <4>4, <4>5
    <3> QED
      BY <3>2, <3>3
  <2>5. Sums(g, T)
    <3>1. \A W \in SUBSET T : g[W] = IF W = {} THEN 0
                                ELSE First(W).success + g[Rest(W)]
      BY <2>4
    <3> HIDE DEF Value
    <3>2. g = [W \in SUBSET T |-> g[W]]
      OBVIOUS
    <3> HIDE DEF g
    <3> QED
      BY <3>1, <3>2 DEF Sums
  <2> QED
    BY <2>1, <2>5
<1> QED
  BY <1>1 DEF SumOver

(* The sum of numbers is a number.                                         *)
LEMMA SumType ==
    ASSUME NEW S, IsFiniteSet(S), \A b \in S : b.success \in Nat
    PROVE  MapThenSumSet(LAMBDA b : b.success, S) \in Nat
<1> DEFINE B == {T \in SUBSET S : SumOver(S)[T] \notin Nat}
<1>1. Sums(SumOver(S), S)
  BY SumExists
<1>2. ASSUME B # {} PROVE FALSE
  <2>1. PICK T \in B : \A W \in B : ~(W \subseteq T /\ W # T)
    <3>1. B \in SUBSET SUBSET S
      OBVIOUS
    <3> HIDE DEF B
    <3> QED
      BY <1>2, <3>1, Smallest
  <2>2. T \in SUBSET S /\ SumOver(S)[T] \notin Nat
    BY <2>1
  <2>3. T # {} /\ First(T) \in T
    <3>1. {} \in SUBSET S
      OBVIOUS
    <3> HIDE DEF B
    <3>2. SumOver(S)[{}] = 0
      BY <1>1, <3>1, SumsOn
    <3> QED
      BY <2>2, <3>2, FirstIsIn
  <2>4. SumOver(S)[T \ {First(T)}] \in Nat
    BY <2>1, <2>3
  <2>5. SumOver(S)[T] = First(T).success + SumOver(S)[T \ {First(T)}]
    <3> HIDE DEF B
    <3> QED
      BY <1>1, <2>2, <2>3, SumsOn
  <2> QED
    BY <2>2, <2>3, <2>4, <2>5
<1> QED
  BY <1>2, SumIsFold

-----------------------------------------------------------------------------
(* The kinds of steps.                                                     *)

(* The bookkeeping of the command is well typed, and all sets are finite   *)
(* that are counted.                                                       *)
ReindexTypes ==
    /\ TypeOK /\ ReindexTypeOK
    /\ IsFiniteSet(batches)
    /\ \A b \in batches : IsFiniteSet(b.actions)

(* The line of a bulk request for the row of o.                            *)
Line(o) == [obj   |-> o,
            index |-> record_to_index(record_from_object(row[o])),
            doc   |-> prepare_record(row[o])]

LEMMA LineType ==
    ASSUME TypeOK, NEW o \in Objects, row[o] # None
    PROVE  Line(o) \in BulkAction
BY RecordType, IndexType, DocType DEF TypeOK, Line, BulkAction

(* A worker that takes batch b, as c.                                      *)
Takes(b, c) ==
    /\ c.state = "reading" /\ b.state = "queued"
    /\ c.todo = b.todo /\ c.actions = b.actions /\ c.failures = b.failures
    /\ UNCHANGED docs

(* One that reads one object.                                              *)
Reads(b, c) ==
    /\ b.state = "reading" /\ c.state = "reading" /\ c.failures = b.failures
    /\ \E o \in b.todo :
          /\ c.todo = b.todo \ {o}
          /\ \/ row[o] = None /\ c.actions = b.actions
             \/ row[o] # None /\ c.actions = b.actions \cup {Line(o)}
    /\ UNCHANGED docs

(* One that sends what it read.                                            *)
Sends(b, c) ==
    /\ b.state = "reading" /\ b.todo = {}
    /\ c.state = "done" /\ c.todo = {} /\ c.actions = {}
    /\ \E failed \in SUBSET b.actions :
          /\ \A a \in b.actions : a.index = None => a \in failed
          /\ docs' = Overwritten(b.actions \ failed)
          /\ c.success = Cardinality(b.actions \ failed)
          /\ c.failures = {a.obj : a \in failed}

(* One that ends without a result.                                         *)
Breaks(b, c) ==
    /\ c.state \in {"raised", "lost"} /\ c.actions = {}
    /\ c.failures = b.failures /\ UNCHANGED docs

BatchMoves(b, c) ==
    /\ Becomes(b, c)
    /\ b.state \in {"queued", "reading"}
    /\ c.ids = b.ids /\ c.todo \subseteq b.todo
    /\ IsFiniteSet(c.actions)
    /\ UNCHANGED <<row, queue, clock, pc, req, img, pend, reply, requests>>
    /\ UNCHANGED <<size, cli, items, report>>
    /\ Takes(b, c) \/ Reads(b, c) \/ Sends(b, c) \/ Breaks(b, c)

(* A command that schedules nothing more.                                  *)
CommandEnds ==
    /\ UNCHANGED <<vars, size, items, batches>>
    /\ \/ cli = "scheduling" /\ cli' = "failed" /\ UNCHANGED report
       \/ Scheduled
       \/ cli = "waiting" /\ cli' = "failed" /\ UNCHANGED report
       \/ /\ cli = "waiting" /\ cli' = "reported"
          /\ \A b \in batches : b.state = "done"
          /\ report' = [success  |-> MapThenSumSet(LAMBDA b : b.success, batches),
                        failures |-> UNION {b.failures : b \in batches}]

(* Whatever a worker does, one batch moves.                                *)
LEMMA WorkerMoves ==
    ASSUME ReindexTypes, NEW b \in batches,
           Worker(b) \/ BatchRaises(b) \/ BatchLost(b)
    PROVE  \E c \in Batch : BatchMoves(b, c)
<1>1. /\ b \in Batch /\ b.todo \subseteq b.ids /\ IsFiniteSet(b.actions)
      /\ b.actions \in SUBSET BulkAction /\ IsFiniteSet({})
  BY FS_EmptySet DEF ReindexTypes, ReindexTypeOK, Batch
<1>2. CASE TakeBatch(b)
  <2> DEFINE c == [b EXCEPT !.state = "reading"]
  <2>1. c \in Batch /\ Takes(b, c) /\ c.ids = b.ids
    BY <1>1, <1>2 DEF TakeBatch, Batch, Takes, vars
  <2>2. BatchMoves(b, c)
    BY <1>1, <1>2, <2>1 DEF TakeBatch, BatchMoves, vars, Takes
  <2> QED
    BY <2>1, <2>2
<1>3. ASSUME NEW o \in Objects, ReadObject(b, o)
      PROVE  \E c \in Batch : BatchMoves(b, c)
  <2> DEFINE c == [b EXCEPT !.todo = @ \ {o},
                            !.actions = IF row[o] = None THEN @
                                        ELSE @ \cup {Line(o)}]
  <2>1. Becomes(b, c) /\ b.state = "reading" /\ o \in b.todo
        /\ UNCHANGED <<vars, size, cli, items, report>>
    BY <1>3 DEF ReadObject, Line
  <2>2. row[o] # None => Line(o) \in BulkAction
    BY LineType DEF ReindexTypes
  <2> HIDE DEF Line
  <2>3. /\ c \in Batch /\ c.ids = b.ids /\ c.todo = b.todo \ {o}
        /\ c.state = b.state /\ c.failures = b.failures
        /\ c.actions = IF row[o] = None THEN b.actions
                       ELSE b.actions \cup {Line(o)}
    BY <1>1, <2>2 DEF Batch
  <2> HIDE DEF c
  <2>4. IsFiniteSet(c.actions)
    BY <1>1, <2>3, FS_AddElement
  <2>5. Reads(b, c)
    BY <2>1, <2>3 DEF Reads, vars
  <2> QED
    BY <2>1, <2>3, <2>4, <2>5 DEF BatchMoves, vars
<1>4. CASE bulk(b)
  <2>1. PICK failed \in SUBSET b.actions :
          /\ \A a \in b.actions : a.index = None => a \in failed
          /\ docs' = Overwritten(b.actions \ failed)
          /\ Becomes(b, [b EXCEPT !.state = "done", !.actions = {},
                                  !.success = Cardinality(b.actions \ failed),
                                  !.failures = {a.obj : a \in failed}])
    BY <1>4 DEF bulk
  <2> DEFINE n == Cardinality(b.actions \ failed)
             f == {a.obj : a \in failed}
             c == [b EXCEPT !.state = "done", !.actions = {},
                            !.success = n, !.failures = f]
  <2>2. n \in Nat
    BY <1>1, FS_Difference, FS_CardinalityType
  <2>3. f \in SUBSET Objects
    BY <1>1 DEF BulkAction
  <2>4. Becomes(b, c) /\ b.state = "reading" /\ b.todo = {}
        /\ UNCHANGED <<row, queue, clock, pc, req, img, pend, reply, requests>>
        /\ UNCHANGED <<size, cli, items, report>>
    BY <1>4, <2>1 DEF bulk
  <2> HIDE DEF n, f
  <2>5. /\ c \in Batch /\ c.ids = b.ids /\ c.todo = b.todo /\ c.state = "done"
        /\ c.actions = {} /\ c.success = n /\ c.failures = f
    BY <1>1, <2>2, <2>3 DEF Batch
  <2> HIDE DEF c
  <2>6. Sends(b, c)
    BY <2>1, <2>4, <2>5 DEF Sends, n, f
  <2> QED
    BY <1>1, <2>4, <2>5, <2>6 DEF BatchMoves
<1>5. CASE BatchRaises(b) \/ BatchLost(b)
  <2> PICK st \in {"raised", "lost"} :
         Becomes(b, [b EXCEPT !.state = st, !.actions = {}])
    BY <1>5 DEF BatchRaises, BatchLost
  <2> DEFINE c == [b EXCEPT !.state = st, !.actions = {}]
  <2>1. /\ c \in Batch /\ c.ids = b.ids /\ c.todo = b.todo /\ c.actions = {}
        /\ c.state = st /\ c.failures = b.failures /\ Becomes(b, c)
    BY <1>1 DEF Batch
  <2> HIDE DEF c
  <2>2. b.state = "reading" /\ UNCHANGED <<vars, size, cli, items, report>>
    BY <1>5 DEF BatchRaises, BatchLost
  <2> QED
    BY <1>1, <2>1, <2>2 DEF BatchMoves, Breaks, vars
<1> QED
  BY <1>2, <1>3, <1>4, <1>5 DEF Worker

(* Every step is a step of HoldingPen, one of the command, or one of a     *)
(* batch.                                                                  *)
LEMMA ReindexKinds ==
    ASSUME ReindexTypes, [ReindexNext]_allVars
    PROVE  \/ [Next]_vars /\ UNCHANGED commandVars
           \/ RecreateIndices \/ Select \/ Schedule
           \/ CommandEnds
           \/ \E b \in batches : \E c \in Batch : BatchMoves(b, c)
<1>1. CASE UNCHANGED allVars
  BY <1>1 DEF allVars
<1>2. CASE Scheduled \/ Finished \/ ScheduleFails \/ CountFails
  BY <1>2 DEF Scheduled, Finished, ScheduleFails, CountFails, CommandEnds
<1>3. CASE \E b \in batches : Worker(b) \/ BatchRaises(b) \/ BatchLost(b)
  BY <1>3, WorkerMoves
<1> QED
  BY <1>1, <1>2, <1>3 DEF ReindexNext, Command

-----------------------------------------------------------------------------
(* Types.                                                                  *)

(* What is sent are documents of the lines, the others stay.               *)
LEMMA OverwrittenOr ==
    ASSUME NEW sent \in SUBSET BulkAction, NEW i \in Indices, NEW o \in Objects
    PROVE  \/ /\ Overwritten(sent)[i][o] = docs[i][o]
              /\ ~ \E a \in sent : a.index = i /\ a.obj = o
           \/ \E a \in sent : /\ a.index = i /\ a.obj = o
                             /\ Overwritten(sent)[i][o] = a.doc
BY DEF Overwritten

LEMMA OverwrittenType ==
    ASSUME TypeOK, NEW sent \in SUBSET BulkAction
    PROVE  Overwritten(sent) \in [Indices -> [Objects -> Doc \cup {None}]]
<1>1. \A i \in Indices, o \in Objects :
        Overwritten(sent)[i][o] \in Doc \cup {None}
  <2>1. \A a \in sent : a.doc \in Doc
    BY DEF BulkAction
  <2>2. \A i \in Indices, o \in Objects : docs[i][o] \in Doc \cup {None}
    BY DEF TypeOK
  <2> QED
    BY <2>1, <2>2, OverwrittenOr
<1>2. Overwritten(sent) =
        [i \in Indices |-> [o \in Objects |-> Overwritten(sent)[i][o]]]
  BY DEF Overwritten
<1> HIDE DEF Overwritten
<1>3. ASSUME NEW F, F = [i \in Indices |-> [o \in Objects |-> F[i][o]]],
             \A i \in Indices, o \in Objects : F[i][o] \in Doc \cup {None}
      PROVE  F \in [Indices -> [Objects -> Doc \cup {None}]]
  BY <1>3
<1> QED
  BY <1>1, <1>2, <1>3

LEMMA InitReindexTypes == ReindexInit => ReindexTypes
BY InitType, FS_EmptySet DEF ReindexInit, ReindexTypes, ReindexTypeOK

LEMMA NextReindexTypes ==
    ReindexTypes /\ [ReindexNext]_allVars => ReindexTypes'
<1> SUFFICES ASSUME ReindexTypes, [ReindexNext]_allVars
             PROVE  ReindexTypes'
  OBVIOUS
<1>1. CASE [Next]_vars /\ UNCHANGED commandVars
  BY <1>1, NextType DEF ReindexTypes, ReindexTypeOK, commandVars
<1>2. CASE RecreateIndices
  <2>1. TypeOK'
    BY <1>2 DEF ReindexTypes, RecreateIndices, TypeOK
  <2> QED
    BY <1>2, <2>1 DEF ReindexTypes, ReindexTypeOK, RecreateIndices, commandVars
<1>3. CASE Select
  BY <1>3 DEF ReindexTypes, ReindexTypeOK, Select, vars, TypeOK
<1>4. CASE Schedule
  <2>1. PICK ids \in next_batch(items) \ {{}} :
          /\ items' = items \ ids
          /\ batches' = batches \cup
               {[ids |-> ids, state |-> "queued", todo |-> ids, actions |-> {},
                 success |-> 0, failures |-> {}]}
    BY <1>4 DEF Schedule
  <2> DEFINE c == [ids |-> ids, state |-> "queued", todo |-> ids,
                   actions |-> {}, success |-> 0, failures |-> {}]
  <2>2. ids \subseteq items /\ items \subseteq Objects
    BY DEF next_batch, kSubset, ReindexTypes, ReindexTypeOK
  <2>3. /\ c \in Batch /\ c.todo = c.ids /\ c.actions = {} /\ IsFiniteSet({})
    BY <2>2, FS_EmptySet DEF Batch
  <2>4. batches' = batches \cup {c}
    BY <2>1
  <2> HIDE DEF c
  <2>5. IsFiniteSet(batches')
    BY <2>4, FS_AddElement DEF ReindexTypes
  <2>6. TypeOK'
    BY <1>4 DEF ReindexTypes, Schedule, vars, TypeOK
  <2> QED
    BY <1>4, <2>1, <2>2, <2>3, <2>4, <2>5, <2>6
    DEF ReindexTypes, ReindexTypeOK, Schedule
<1>5. CASE CommandEnds
  <2>1. TypeOK'
    BY <1>5 DEF ReindexTypes, CommandEnds, vars, TypeOK
  <2>2. MapThenSumSet(LAMBDA b : b.success, batches) \in Nat
    BY SumType DEF ReindexTypes, ReindexTypeOK, Batch
  <2>3. UNION {b.failures : b \in batches} \subseteq Objects
    BY DEF ReindexTypes, ReindexTypeOK, Batch
  <2>4. report' \in [success : Nat, failures : SUBSET Objects] \cup {None}
    BY <1>5, <2>2, <2>3
    DEF CommandEnds, Scheduled, ReindexTypes, ReindexTypeOK
  <2> QED
    BY <1>5, <2>1, <2>4
    DEF ReindexTypes, ReindexTypeOK, CommandEnds, Scheduled
<1>6. ASSUME NEW b \in batches, NEW c \in Batch, BatchMoves(b, c)
      PROVE  ReindexTypes'
  <2>1. docs' \in [Indices -> [Objects -> Doc \cup {None}]]
    <3>1. CASE UNCHANGED docs
      BY <3>1 DEF ReindexTypes, TypeOK
    <3>2. CASE Sends(b, c)
      <4>1. PICK failed \in SUBSET b.actions :
              docs' = Overwritten(b.actions \ failed)
        BY <3>2 DEF Sends
      <4>2. b.actions \ failed \in SUBSET BulkAction
        BY DEF ReindexTypes, ReindexTypeOK, Batch
      <4> QED
        BY <4>1, <4>2, OverwrittenType DEF ReindexTypes
    <3> QED
      BY <1>6, <3>1, <3>2 DEF BatchMoves, Takes, Reads, Breaks
  <2>2. TypeOK'
    BY <1>6, <2>1 DEF ReindexTypes, TypeOK, BatchMoves
  <2>3. IsFiniteSet(batches')
    BY <1>6, FS_AddElement, FS_RemoveElement
    DEF ReindexTypes, BatchMoves, Becomes
  <2>4. c.todo \subseteq c.ids /\ IsFiniteSet(c.actions)
    BY <1>6 DEF BatchMoves, ReindexTypes, ReindexTypeOK
  <2> QED
    BY <1>6, <2>2, <2>3, <2>4
    DEF ReindexTypes, ReindexTypeOK, BatchMoves, Becomes
<1> QED
  BY <1>1, <1>2, <1>3, <1>4, <1>5, <1>6, ReindexKinds

(* The command's and the tasks' own data are well formed, next to any      *)
(* number of requests (cli.py:83-134, tasks.py:48-90).                     *)
THEOREM ReindexTypeCorrect == ReindexSpec => []ReindexTypeOK
<1>1. ReindexTypes => ReindexTypeOK
  BY DEF ReindexTypes
<1> QED
  BY <1>1, InitReindexTypes, NextReindexTypes, PTL DEF ReindexSpec

-----------------------------------------------------------------------------
(* The transactions of HoldingPen beside the command.  A document that a   *)
(* task has read and not sent yet is bound by its stamp like one that is   *)
(* in an index.                                                            *)
DocFits(d, o) ==
    /\ d.updated <= clock
    /\ row[o] # None /\ d.updated = row[o].modified => SavedAlike(d, row[o])
    /\ \A s \in Sessions :
          Flushed(s) /\ req[s].obj = o /\ d.updated = pend[s].modified =>
              SavedAlike(d, pend[s])

LinesFit == \A b \in batches : \A a \in b.actions : DocFits(a.doc, a.obj)

SharedInv == ReindexTypes /\ Inv /\ LinesFit

(* A save that is flushed takes a stamp no document has; a commit writes   *)
(* what was flushed.                                                       *)
LEMMA StepKeepsFit ==
    ASSUME Inv, [Next]_vars, NEW d \in Doc, NEW o \in Objects, DocFits(d, o)
    PROVE  DocFits(d, o)'
<1>0. TypeOK /\ d.updated \in Nat /\ clock \in Nat
  BY StampType DEF Inv, Doc
<1> DEFINE Same == \A r \in Sessions : Flushed(r)' =>
                      Flushed(r) /\ req'[r] = req[r] /\ pend'[r] = pend[r]
<1>1. ASSUME UNCHANGED <<row, clock>>, Same
      PROVE  DocFits(d, o)'
  BY <1>1 DEF DocFits
<1>2. CASE UNCHANGED vars
  BY <1>2, <1>1 DEF vars, Flushed
<1>3. ASSUME NEW s \in Sessions, Kind(s)
      PROVE  DocFits(d, o)'
  <2>1. CASE Starts(s) \/ GivesUp(s)
    BY <1>0, <1>1, <2>1
    DEF Starts, GivesUp, Finish, Goto, store, TypeOK, Flushed
  <2>2. CASE index_workflow_object(s) \/ IndexFails(s)
    BY <1>0, <1>1, <2>2
    DEF index_workflow_object, IndexFails, Goto, store, TypeOK, Flushed
  <2>3. CASE Unindex(s) \/ DeleteRow(s) \/ delay(s)
    BY <1>0, <1>1, <2>3
    DEF Unindex, DeleteRow, delay, Finish, Goto, store, TypeOK, Flushed
  <2>4. ASSUME NEW new \in Row, Flush(s, new)
        PROVE  DocFits(d, o)'
    <3>1. /\ UNCHANGED <<row, req>> /\ clock' = clock + 1
          /\ \A r \in Sessions : r # s => pc'[r] = pc[r] /\ pend'[r] = pend[r]
          /\ pend'[s] = UpdateStatement(row[req[s].obj], img[s],
                              [new EXCEPT !.modified = clock + 1])
      BY <1>0, <2>4 DEF Flush, TypeOK
    <3>2. pend'[s].modified = clock + 1
      BY <3>1 DEF UpdateStatement, Row
    <3>3. d.updated # clock + 1 /\ d.updated <= clock + 1
      BY <1>0 DEF DocFits
    <3> QED
      BY <3>1, <3>2, <3>3 DEF DocFits, Flushed
  <2>5. CASE Commit(s)
    <3>1. /\ UNCHANGED clock /\ Same /\ req[s].obj \in Objects
          /\ \A p \in Objects : p # req[s].obj => row'[p] = row[p]
          /\ \/ row'[req[s].obj] = None
             \/ row'[req[s].obj] = pend[s] /\ Flushed(s)
      BY <1>0, <2>5, ImageIsRow DEF Commit, Finish, Goto, TypeOK, Flushed
    <3> QED
      BY <3>1 DEF DocFits
  <2> QED
    BY <1>3, <2>1, <2>2, <2>3, <2>4, <2>5 DEF Kind
<1> QED
  BY <1>0, <1>2, <1>3, StepKinds

(* The line of a row that is read fits: what is flushed is newer.          *)
LEMMA LineFits ==
    ASSUME Inv, NEW o \in Objects, row[o] # None
    PROVE  DocFits(Line(o).doc, o)
<1>1. row[o] \in Row /\ row[o].modified \in Nat
  BY StampType DEF Inv, TypeOK
<1>2. Line(o).doc.updated = row[o].modified /\ SavedAlike(Line(o).doc, row[o])
  BY DEF Line, prepare_record, record_from_object, SavedAlike
<1>3. row[o].modified <= clock
  BY DEF Inv, Transactional, StampsAreGiven
<1>4. ASSUME NEW s \in Sessions, Flushed(s), req[s].obj = o
      PROVE  row[o].modified # pend[s].modified
  BY <1>1, <1>4 DEF Inv, Transactional, FlushedIsNext
<1> QED
  BY <1>2, <1>3, <1>4 DEF DocFits

(* Documents that fit can replace those that are there.                    *)
LEMMA DocsKeepInv ==
    ASSUME Inv, TypeOK', UNCHANGED <<row, queue, clock, pc, req, img, pend>>,
           \A i \in Indices, o \in Objects :
              \/ docs'[i][o] = docs[i][o] \/ docs'[i][o] = None
              \/ DocFits(docs'[i][o], o)
    PROVE  Inv'
<1>1. OneWriter' /\ FlushedIsNext' /\ CommittedIsKept' /\ TaskFollowsCommit'
  BY DEF Inv, Transactional, OneWriter, Holds, FlushedIsNext, Flushed,
         CommittedIsKept, TaskFollowsCommit
<1>2. StampsAreGiven' /\ StampIdentifiesContent'
  BY DEF Inv, Transactional, StampsAreGiven, StampIdentifiesContent, DocFits
<1>3. FlushedStampIdentifiesContent'
  <2> SUFFICES ASSUME NEW i \in Indices, NEW s \in Sessions, Flushed(s),
                      docs'[i][req[s].obj] # None,
                      docs'[i][req[s].obj].updated = pend[s].modified
               PROVE  SavedAlike(docs'[i][req[s].obj], pend[s])
    BY DEF FlushedStampIdentifiesContent, Flushed
  <2>1. req[s].obj \in Objects
    BY ImageIsRow DEF Inv, Flushed
  <2> QED
    BY <2>1 DEF Inv, Transactional, FlushedStampIdentifiesContent, DocFits
<1> QED
  BY <1>1, <1>2, <1>3 DEF Inv, Transactional

LEMMA InitShared == ReindexInit => SharedInv
BY InitReindexTypes, InitInv DEF ReindexInit, SharedInv, LinesFit

(* Every step of the command, its tasks and the requests keeps what keeps  *)
(* the transactions apart.                                                 *)
LEMMA NextShared == SharedInv /\ [ReindexNext]_allVars => SharedInv'
<1> SUFFICES ASSUME SharedInv, [ReindexNext]_allVars
             PROVE  SharedInv'
  OBVIOUS
<1>0. /\ ReindexTypes' /\ TypeOK'
      /\ \A b \in batches : \A a \in b.actions :
            a.doc \in Doc /\ a.obj \in Objects
  BY NextReindexTypes
  DEF SharedInv, ReindexTypes, ReindexTypeOK, Batch, BulkAction
<1>1. CASE [Next]_vars /\ UNCHANGED commandVars
  <2>1. Inv'
    BY <1>1, NextInv DEF SharedInv
  <2>2. LinesFit'
    BY <1>0, <1>1, StepKeepsFit DEF SharedInv, LinesFit, commandVars
  <2> QED
    BY <1>0, <2>1, <2>2 DEF SharedInv
<1>2. ASSUME UNCHANGED vars, \/ batches' = batches
                             \/ \E c : /\ batches' = batches \cup {c}
                                      /\ c.actions = {}
      PROVE  SharedInv'
  <2>1. Inv'
    BY <1>2, NextInv DEF SharedInv
  <2>2. LinesFit'
    BY <1>2 DEF SharedInv, LinesFit, DocFits, vars, Flushed
  <2> QED
    BY <1>0, <2>1, <2>2 DEF SharedInv
<1>3. CASE RecreateIndices
  <2>1. Inv'
    BY <1>0, <1>3, DocsKeepInv DEF SharedInv, RecreateIndices
  <2>2. LinesFit'
    BY <1>3 DEF SharedInv, LinesFit, DocFits, RecreateIndices, commandVars,
                Flushed
  <2> QED
    BY <1>0, <2>1, <2>2 DEF SharedInv
<1>4. ASSUME NEW b \in batches, NEW c \in Batch, BatchMoves(b, c)
      PROVE  SharedInv'
  <2>1. ASSUME NEW a \in c.actions PROVE DocFits(a.doc, a.obj)
    <3>1. b.todo \subseteq Objects
      BY DEF SharedInv, ReindexTypes, ReindexTypeOK, Batch
    <3>2. a \in b.actions \/ \E o \in Objects : row[o] # None /\ a = Line(o)
      BY <1>4, <2>1, <3>1 DEF BatchMoves, Takes, Reads, Sends, Breaks
    <3> QED
      BY <3>2, LineFits DEF SharedInv, LinesFit, Line
  <2>2. LinesFit'
    BY <1>4, <2>1
    DEF SharedInv, LinesFit, DocFits, BatchMoves, Becomes, Flushed
  <2>3. CASE UNCHANGED docs
    BY <1>0, <1>4, <2>2, <2>3, DocsKeepInv DEF SharedInv, BatchMoves
  <2>4. CASE Sends(b, c)
    <3>1. PICK failed \in SUBSET b.actions :
            docs' = Overwritten(b.actions \ failed)
      BY <2>4 DEF Sends
    <3> DEFINE sent == b.actions \ failed
    <3>2. sent \in SUBSET BulkAction
      BY DEF SharedInv, ReindexTypes, ReindexTypeOK, Batch
    <3>3. \A a \in sent : DocFits(a.doc, a.obj)
      BY DEF SharedInv, LinesFit
    <3>4. docs' = Overwritten(sent)
      BY <3>1
    <3> HIDE DEF sent
    <3>5. \A i \in Indices, o \in Objects :
            docs'[i][o] = docs[i][o] \/ DocFits(docs'[i][o], o)
      BY <3>2, <3>3, <3>4, OverwrittenOr
    <3>6. Inv'
      BY <1>0, <1>4, <3>5, DocsKeepInv DEF SharedInv, BatchMoves
    <3> QED
      BY <1>0, <2>2, <3>6 DEF SharedInv
  <2> QED
    BY <1>4, <2>3, <2>4 DEF BatchMoves, Takes, Reads, Breaks
<1>5. CASE Select \/ CommandEnds
  BY <1>2, <1>5 DEF Select, CommandEnds
<1>6. CASE Schedule
  <2>1. PICK ids : batches' = batches \cup
               {[ids |-> ids, state |-> "queued", todo |-> ids, actions |-> {},
                 success |-> 0, failures |-> {}]}
    BY <1>6 DEF Schedule
  <2> DEFINE c == [ids |-> ids, state |-> "queued", todo |-> ids,
                   actions |-> {}, success |-> 0, failures |-> {}]
  <2>2. batches' = batches \cup {c} /\ c.actions = {}
    BY <2>1
  <2>3. UNCHANGED vars
    BY <1>6 DEF Schedule
  <2> HIDE DEF c
  <2> QED
    BY <1>2, <2>2, <2>3
<1> QED
  BY <1>1, <1>3, <1>4, <1>5, <1>6, ReindexKinds DEF SharedInv

(* A document with the stamp of the row has its content also while tasks   *)
(* of a reindex send what they read some time ago (tasks.py:60-90,         *)
(* indexer.py:44-50).                                                      *)
THEOREM StampsIdentifyWhileReindexing == ReindexSpec => []StampIdentifiesContent
<1>1. SharedInv => StampIdentifiesContent
  BY DEF SharedInv, Inv
<1> QED
  BY <1>1, InitShared, NextShared, PTL DEF ReindexSpec

-----------------------------------------------------------------------------
(* Counting.                                                               *)

(* A row that is gone stays gone, whatever the command and its tasks do.   *)
LEMMA GoneStays ==
    ASSUME SharedInv, [ReindexNext]_allVars, NEW o \in Objects, row[o] = None
    PROVE  row'[o] = None
<1>1. CASE [Next]_vars
  BY <1>1, NoRowReturns DEF SharedInv
<1>2. CASE UNCHANGED row
  BY <1>2
<1> QED
  BY <1>1, <1>2, ReindexKinds
  DEF SharedInv, RecreateIndices, Select, Schedule, CommandEnds, Scheduled,
      vars, BatchMoves

(* There are not more objects than lines.                                  *)
LEMMA ObjectsOfLines ==
    ASSUME NEW A, IsFiniteSet(A)
    PROVE  /\ IsFiniteSet({a.obj : a \in A})
           /\ Cardinality({a.obj : a \in A}) <= Cardinality(A)
<1> DEFINE T == {a.obj : a \in A}
           f == [a \in A |-> a.obj]
<1>1. f \in Surjection(A, T)
  BY DEF Surjection
<1> HIDE DEF T, f
<1>2. IsFiniteSet(T) /\ Cardinality(T) <= Cardinality(A)
  BY <1>1, FS_Surjection
<1> QED
  BY <1>2 DEF T

Present(X) == {o \in X : row[o] # None}

(* Until a batch is sent it has a line for every object it has read; when  *)
(* it is done, what is there was indexed or failed.                        *)
BatchCounts(b) ==
    /\ b.ids # {} /\ b.ids \cap items = {}
    /\ b.failures \subseteq b.ids
    /\ \A a \in b.actions : a.obj \in b.ids
    /\ b.state \in {"queued", "reading"} =>
          /\ b.failures = {}
          /\ \A o \in Present(b.ids \ b.todo) : \E a \in b.actions : a.obj = o
    /\ b.state = "done" =>
          /\ IsFiniteSet(b.failures) /\ IsFiniteSet(Present(b.ids))
          /\ Cardinality(Present(b.ids)) <= b.success + Cardinality(b.failures)

Apart == \A b, c \in batches : b # c => b.ids \cap c.ids = {}

(* The report of a command whose tasks are all done.                       *)
TotalOf(S) == [success  |-> MapThenSumSet(LAMBDA b : b.success, S),
               failures |-> UNION {b.failures : b \in S}]

(* What the command knows when it stops scheduling, and when it reports.   *)
CommandKnows ==
    /\ cli = "start" => items = {} /\ batches = {}
    /\ cli \in {"waiting", "reported"} => items = {}
    /\ cli = "reported" =>
          /\ \A b \in batches : b.state = "done"
          /\ report = TotalOf(batches)

CountInv ==
    /\ SharedInv /\ Apart /\ CommandKnows
    /\ \A b \in batches : BatchCounts(b)

(* The batches of the command do not overlap: what they count adds up.     *)
LEMMA CountsAddUp ==
    ASSUME NEW S, IsFiniteSet(S),
           \A b \in S : /\ b.success \in Nat
                        /\ b.failures \subseteq b.ids
                        /\ IsFiniteSet(b.failures) /\ IsFiniteSet(Present(b.ids))
                        /\ Cardinality(Present(b.ids))
                             <= b.success + Cardinality(b.failures),
           \A b, c \in S : b # c => b.ids \cap c.ids = {}
    PROVE  Cardinality(Present(UNION {b.ids : b \in S})) <=
             MapThenSumSet(LAMBDA b : b.success, S)
               + Cardinality(UNION {b.failures : b \in S})
<1> DEFINE There(T) == Present(UNION {b.ids : b \in T})
           Failed(T) == UNION {b.failures : b \in T}
           sum == SumOver(S)
           Counted(T) ==
             /\ IsFiniteSet(There(T)) /\ IsFiniteSet(Failed(T)) /\ sum[T] \in Nat
             /\ Cardinality(There(T)) <= sum[T] + Cardinality(Failed(T))
           B == {T \in SUBSET S : ~Counted(T)}
<1>1. Sums(sum, S)
  BY SumExists
<1>2. Counted({})
  <2>1. There({}) = {}
    BY DEF Present
  <2>2. Failed({}) = {}
    OBVIOUS
  <2>3. sum[{}] = 0
    BY <1>1, SumsOn
  <2>4. IsFiniteSet({}) /\ Cardinality({}) = 0
    BY FS_EmptySet
  <2>5. ASSUME NEW X, NEW Y, NEW n, X = {}, Y = {}, n = 0
        PROVE  /\ IsFiniteSet(X) /\ IsFiniteSet(Y) /\ n \in Nat
               /\ Cardinality(X) <= n + Cardinality(Y)
    BY <2>4, <2>5
  <2> HIDE DEF There, Failed, sum, B
  <2> QED
    BY <2>1, <2>2, <2>3, <2>5
<1>3. ASSUME NEW T \in SUBSET S, T # {}, Counted(T \ {First(T)})
      PROVE  Counted(T)
  <2> DEFINE b == First(T)
             R == T \ {b}
  <2>1. b \in T /\ b \in S
    BY <1>3, FirstIsIn
  <2>2. sum[T] = b.success + sum[R]
    <3>1. SumOver(S)[T] = IF T = {} THEN 0
                          ELSE First(T).success + SumOver(S)[T \ {First(T)}]
      <4> HIDE DEF B, Counted
      <4> QED
        BY <1>1, SumsOn
    <3> QED
      BY <1>3, <3>1
  <2>3. There(T) = Present(b.ids) \cup There(R)
    <3> HIDE DEF b
    <3> QED
      BY <2>1 DEF Present
  <2>4. Failed(T) = b.failures \cup Failed(R) /\ b.failures \cap Failed(R) = {}
    <3> HIDE DEF b
    <3> QED
      BY <2>1
  <2>5. Counted(R)
    BY <1>3
  <2>6. /\ b.success \in Nat /\ IsFiniteSet(b.failures) /\ IsFiniteSet(Present(b.ids))
        /\ Cardinality(Present(b.ids)) <= b.success + Cardinality(b.failures)
    BY <2>1
  <2> HIDE DEF b, R, sum, There, Failed
  <2>7. /\ IsFiniteSet(There(T))
        /\ Cardinality(There(T)) <= Cardinality(Present(b.ids)) + Cardinality(There(R))
    <3> DEFINE X == Present(b.ids)
               Y == There(R)
    <3>1. IsFiniteSet(X) /\ IsFiniteSet(Y)
      BY <2>5, <2>6
    <3> HIDE DEF X, Y
    <3>2. /\ IsFiniteSet(X \cup Y) /\ IsFiniteSet(X \cap Y)
          /\ Cardinality(X \cup Y) = Cardinality(X) + Cardinality(Y)
                                      - Cardinality(X \cap Y)
      BY <3>1, FS_Union, FS_Intersection
    <3>3. /\ Cardinality(X) \in Nat /\ Cardinality(Y) \in Nat
          /\ Cardinality(X \cap Y) \in Nat
      BY <3>1, <3>2, FS_CardinalityType
    <3>4. Cardinality(X \cup Y) <= Cardinality(X) + Cardinality(Y)
      BY <3>2, <3>3
    <3> QED
      BY <2>3, <3>2, <3>4 DEF X, Y
  <2>8. /\ IsFiniteSet(Failed(T))
        /\ Cardinality(Failed(T)) = Cardinality(b.failures) + Cardinality(Failed(R))
    <3>1. /\ IsFiniteSet(Failed(T))
          /\ Cardinality(Failed(T)) = Cardinality(b.failures)
                 + Cardinality(Failed(R)) - Cardinality({})
      BY <2>4, <2>5, <2>6, FS_Union
    <3>2. Cardinality({}) = 0
      BY FS_EmptySet
    <3>3. Cardinality(b.failures) \in Nat /\ Cardinality(Failed(R)) \in Nat
      BY <2>5, <2>6, FS_CardinalityType
    <3> QED
      BY <3>1, <3>2, <3>3
  <2>9. /\ Cardinality(There(T)) \in Nat /\ Cardinality(There(R)) \in Nat
        /\ Cardinality(Present(b.ids)) \in Nat
        /\ Cardinality(b.failures) \in Nat /\ Cardinality(Failed(R)) \in Nat
    BY <2>5, <2>6, <2>7, FS_CardinalityType
  <2>10. Cardinality(There(T)) <= sum[T] + Cardinality(Failed(T))
    BY <2>2, <2>5, <2>6, <2>7, <2>8, <2>9
  <2>11. sum[T] \in Nat
    BY <2>2, <2>5, <2>6
  <2> QED
    BY <2>7, <2>8, <2>10, <2>11
<1>4. ASSUME B # {} PROVE FALSE
  <2>1. B \in SUBSET SUBSET S /\ \A T \in SUBSET S : T \notin B => Counted(T)
    OBVIOUS
  <2>2. \A T \in B : T \in SUBSET S /\ ~Counted(T)
    OBVIOUS
  <2> HIDE DEF B, Counted
  <2>3. PICK T \in B : \A W \in B : ~(W \subseteq T /\ W # T)
    BY <1>4, <2>1, Smallest
  <2>4. T \in SUBSET S /\ ~Counted(T) /\ T # {} /\ First(T) \in T
    BY <1>2, <2>2, <2>3, FirstIsIn
  <2>5. Counted(T \ {First(T)})
    BY <2>1, <2>3, <2>4
  <2> QED
    BY <1>3, <2>4, <2>5
<1>5. Counted(S)
  <2>1. S \in SUBSET S
    OBVIOUS
  <2> HIDE DEF Counted
  <2> QED
    BY <1>4, <2>1
<1> QED
  BY <1>5, SumIsFold

(* A batch nobody works at keeps its counts: rows only go.                 *)
LEMMA CountsStay ==
    ASSUME SharedInv, [ReindexNext]_allVars, NEW b \in Batch, BatchCounts(b),
           b.ids \cap items' = {}
    PROVE  BatchCounts(b)'
<1>1. \A X \in SUBSET Objects : Present(X)' \subseteq Present(X)
  BY GoneStays DEF Present
<1>2. b.ids \in SUBSET Objects /\ b.ids \ b.todo \in SUBSET Objects
      /\ b.success \in Nat
  BY DEF Batch
<1>3. ASSUME b.state = "done"
      PROVE  /\ IsFiniteSet(Present(b.ids)')
             /\ Cardinality(Present(b.ids)') <= b.success + Cardinality(b.failures)
  <2> DEFINE X == Present(b.ids)
             Y == Present(b.ids)'
  <2>1. /\ IsFiniteSet(X) /\ IsFiniteSet(b.failures) /\ Y \in SUBSET X
        /\ Cardinality(X) <= b.success + Cardinality(b.failures)
    BY <1>1, <1>2, <1>3 DEF BatchCounts
  <2> HIDE DEF X, Y
  <2>2. IsFiniteSet(Y) /\ Cardinality(Y) <= Cardinality(X)
    BY <2>1, FS_Subset
  <2>3. /\ Cardinality(X) \in Nat /\ Cardinality(Y) \in Nat
        /\ Cardinality(b.failures) \in Nat
    BY <2>1, <2>2, FS_CardinalityType
  <2>4. Cardinality(Y) <= b.success + Cardinality(b.failures)
    BY <1>2, <2>1, <2>2, <2>3
  <2> QED
    BY <2>2, <2>4 DEF Y
<1>4. Present(b.ids \ b.todo)' \subseteq Present(b.ids \ b.todo)
  BY <1>1, <1>2
<1> HIDE DEF Present
<1> QED
  BY <1>3, <1>4 DEF BatchCounts

(* A worker counts what it read.                                           *)
LEMMA MovesCount ==
    ASSUME SharedInv, NEW b \in batches, BatchCounts(b),
           NEW c \in Batch, BatchMoves(b, c)
    PROVE  BatchCounts(c)'
<1>1. /\ UNCHANGED <<row, items>> /\ c.ids = b.ids /\ b.ids \in SUBSET Objects
      /\ b.failures = {} /\ b.todo \subseteq b.ids /\ IsFiniteSet(b.actions)
      /\ b.actions \in SUBSET BulkAction
  BY DEF BatchMoves, BatchCounts, SharedInv, ReindexTypes, ReindexTypeOK, Batch
<1>2. \A X : Present(X)' = Present(X)
  BY <1>1 DEF Present
<1>3. CASE Takes(b, c) \/ Breaks(b, c)
  BY <1>1, <1>2, <1>3 DEF BatchCounts, Takes, Breaks
<1>4. CASE Reads(b, c)
  <2>1. PICK o \in b.todo :
          /\ c.todo = b.todo \ {o}
          /\ \/ row[o] = None /\ c.actions = b.actions
             \/ row[o] # None /\ c.actions = b.actions \cup {Line(o)}
    BY <1>4 DEF Reads
  <2>2. \A p \in Present(b.ids \ b.todo) : \E a \in b.actions : a.obj = p
    BY <1>4 DEF BatchCounts, Reads
  <2>3. \A p \in Present(b.ids \ c.todo) : \E a \in c.actions : a.obj = p
    <3>1. Line(o).obj = o
      BY DEF Line
    <3>2. \A p \in Present(b.ids \ c.todo) :
            p \in Present(b.ids \ b.todo) \/ (p = o /\ row[o] # None)
      BY <2>1 DEF Present
    <3> QED
      BY <2>1, <2>2, <3>1, <3>2
  <2>4. \A a \in c.actions : a.obj \in b.ids
    <3>1. Line(o).obj = o /\ o \in b.ids
      BY <1>1 DEF Line
    <3> QED
      BY <2>1, <3>1 DEF BatchCounts
  <2>5. c.state = "reading" /\ c.failures = {}
    BY <1>1, <1>4 DEF Reads
  <2> QED
    BY <1>1, <1>2, <2>3, <2>4, <2>5 DEF BatchCounts
<1>5. CASE Sends(b, c)
  <2>1. PICK failed \in SUBSET b.actions :
          /\ c.success = Cardinality(b.actions \ failed)
          /\ c.failures = {a.obj : a \in failed}
    BY <1>5 DEF Sends
  <2> DEFINE sent == b.actions \ failed
             X == Present(b.ids)
             Y == {a.obj : a \in sent}
             Z == {a.obj : a \in failed}
  <2>2. IsFiniteSet(sent) /\ IsFiniteSet(failed)
    BY <1>1, FS_Subset
  <2>3. IsFiniteSet(Y) /\ IsFiniteSet(Z) /\ Cardinality(Y) <= Cardinality(sent)
    <3> HIDE DEF sent
    <3> QED
      BY <2>2, ObjectsOfLines
  <2>4. X \in SUBSET (Y \cup Z)
    <3>1. X = Present(b.ids \ b.todo)
      BY <1>5 DEF Sends
    <3>2. \A o \in Present(b.ids \ b.todo) : \E a \in b.actions : a.obj = o
      BY <1>5 DEF BatchCounts, Sends
    <3> HIDE DEF X
    <3> QED
      BY <3>1, <3>2
  <2>5. Z \subseteq b.ids /\ c.failures = Z /\ c.success = Cardinality(sent)
    BY <2>1 DEF BatchCounts
  <2> HIDE DEF sent, X, Y, Z
  <2>6. IsFiniteSet(Y \cup Z) /\ IsFiniteSet(Y \cap Z)
        /\ Cardinality(Y \cup Z) = Cardinality(Y) + Cardinality(Z)
                                    - Cardinality(Y \cap Z)
    BY <2>3, FS_Union, FS_Intersection
  <2>7. IsFiniteSet(X) /\ Cardinality(X) <= Cardinality(Y \cup Z)
    BY <2>4, <2>6, FS_Subset
  <2>8. /\ Cardinality(X) \in Nat /\ Cardinality(Y) \in Nat
        /\ Cardinality(Z) \in Nat /\ Cardinality(Y \cap Z) \in Nat
        /\ Cardinality(Y \cup Z) \in Nat /\ Cardinality(sent) \in Nat
    BY <2>2, <2>3, <2>6, <2>7, FS_CardinalityType
  <2>9. Cardinality(X) <= Cardinality(sent) + Cardinality(Z)
    BY <2>3, <2>6, <2>7, <2>8
  <2>10. IsFiniteSet(Present(c.ids)) /\ Cardinality(Present(c.ids))
             <= c.success + Cardinality(c.failures)
    BY <1>1, <2>5, <2>7, <2>9 DEF X
  <2>11. c.state = "done" /\ c.actions = {} /\ IsFiniteSet(c.failures)
    BY <1>5, <2>3, <2>5 DEF Sends
  <2>12. Present(c.ids)' = Present(c.ids)
    BY <1>2
  <2> HIDE DEF Present
  <2> QED
    BY <1>1, <2>5, <2>10, <2>11, <2>12 DEF BatchCounts
<1> QED
  BY <1>3, <1>4, <1>5 DEF BatchMoves

(* The command stops scheduling when it has scheduled everything, unless   *)
(* it was given a batch size of 0.                                         *)
LEMMA ExhaustedQuery ==
    ASSUME ReindexTypes, 0 \notin BatchSizes, Scheduled
    PROVE  items = {}
<1>1. size \in Nat /\ size # 0
  BY ReindexAssumption DEF ReindexTypes, ReindexTypeOK
<1>2. CASE Cardinality(items) < size
  BY <1>2 DEF Scheduled, next_batch
<1>3. CASE ~(Cardinality(items) < size)
  <2>1. Cardinality({}) = size
    BY <1>3 DEF Scheduled, next_batch, kSubset
  <2> QED
    BY <1>1, <2>1, FS_EmptySet
<1> QED
  BY <1>2, <1>3

(* A new batch takes what is not in any other.                             *)
LEMMA ScheduleCounts ==
    ASSUME CountInv, Schedule
    PROVE  /\ Apart' /\ CommandKnows'
           /\ \A b \in batches' : b \notin batches => BatchCounts(b)'
           /\ \A b \in batches : b.ids \cap items' = {}
<1>1. PICK ids \in next_batch(items) \ {{}} :
        /\ items' = items \ ids
        /\ batches' = batches \cup
             {[ids |-> ids, state |-> "queued", todo |-> ids, actions |-> {},
               success |-> 0, failures |-> {}]}
  BY DEF Schedule
<1> DEFINE c == [ids |-> ids, state |-> "queued", todo |-> ids,
                 actions |-> {}, success |-> 0, failures |-> {}]
<1>2. /\ c.ids = ids /\ c.todo = ids /\ c.state = "queued"
      /\ c.actions = {} /\ c.failures = {}
  OBVIOUS
<1>3. batches' = batches \cup {c} /\ items' = items \ ids
  BY <1>1
<1> HIDE DEF c
<1>4. ids \subseteq items /\ ids # {}
  BY DEF next_batch, kSubset
<1>5. \A b \in batches : b.ids \cap items = {}
  BY DEF CountInv, BatchCounts
<1>6. Apart'
  BY <1>2, <1>3, <1>4, <1>5 DEF CountInv, Apart
<1>7. BatchCounts(c)'
  BY <1>2, <1>3, <1>4 DEF BatchCounts, Present
<1>8. CommandKnows'
  BY DEF CommandKnows, Schedule
<1> QED
  BY <1>3, <1>4, <1>5, <1>6, <1>7, <1>8

LEMMA InitCount == ReindexInit => CountInv
BY InitShared DEF ReindexInit, CountInv, Apart, CommandKnows

LEMMA NextCount ==
    ASSUME 0 \notin BatchSizes
    PROVE  CountInv /\ [ReindexNext]_allVars => CountInv'
<1> SUFFICES ASSUME CountInv, [ReindexNext]_allVars
             PROVE  CountInv'
  OBVIOUS
<1>1. SharedInv'
  BY NextShared DEF CountInv
<1>2. /\ ReindexTypes /\ SharedInv
      /\ \A b \in batches : b \in Batch /\ BatchCounts(b)
                            /\ b.ids \cap items = {}
  BY DEF CountInv, SharedInv, ReindexTypes, ReindexTypeOK, BatchCounts
<1>3. ASSUME UNCHANGED commandVars
      PROVE  CountInv'
  <2>1. UNCHANGED <<cli, items, batches, report>>
    BY <1>3 DEF commandVars
  <2>2. Apart' /\ CommandKnows'
    BY <2>1 DEF CountInv, Apart, CommandKnows
  <2>3. \A b \in batches' : BatchCounts(b)'
    BY <1>2, <2>1, CountsStay
  <2> QED
    BY <1>1, <2>2, <2>3 DEF CountInv
<1>4. CASE Select
  <2>1. batches' = {} /\ cli' = "scheduling"
    BY <1>4 DEF Select, CountInv, CommandKnows
  <2> QED
    BY <1>1, <2>1 DEF CountInv, Apart, CommandKnows
<1>5. CASE Schedule
  <2>1. \A b \in batches' : b \in batches => BatchCounts(b)'
    BY <1>2, <1>5, ScheduleCounts, CountsStay
  <2> QED
    BY <1>1, <1>5, <2>1, ScheduleCounts DEF CountInv
<1>6. CASE CommandEnds
  <2>1. batches' = batches /\ items' = items
    BY <1>6 DEF CommandEnds
  <2>2. CommandKnows'
    <3>1. cli' = "reported" => /\ report' = TotalOf(batches)
                               /\ \A b \in batches : b.state = "done"
                               /\ cli = "waiting"
      BY <1>6 DEF CommandEnds, Scheduled, TotalOf
    <3>2. cli' = "waiting" => items = {}
      BY <1>2, <1>6, ExhaustedQuery DEF CommandEnds
    <3>3. cli' \in {"failed", "waiting", "reported"}
      BY <1>6 DEF CommandEnds, Scheduled
    <3> QED
      BY <2>1, <3>1, <3>2, <3>3 DEF CountInv, CommandKnows
  <2>3. Apart'
    BY <2>1 DEF CountInv, Apart
  <2>4. \A b \in batches' : BatchCounts(b)'
    BY <1>2, <2>1, CountsStay
  <2> QED
    BY <1>1, <2>2, <2>3, <2>4 DEF CountInv
<1>7. ASSUME NEW b \in batches, NEW c \in Batch, BatchMoves(b, c)
      PROVE  CountInv'
  <2>1. /\ batches' = (batches \ {b}) \cup {c} /\ c.ids = b.ids
        /\ UNCHANGED <<cli, items, report>> /\ b.state # "done"
    BY <1>7 DEF BatchMoves, Becomes
  <2>2. Apart'
    BY <2>1 DEF CountInv, Apart
  <2>3. CommandKnows'
    BY <2>1 DEF CountInv, CommandKnows
  <2>4. BatchCounts(c)'
    BY <1>2, <1>7, MovesCount
  <2>5. \A x \in batches : BatchCounts(x)'
    BY <1>2, <2>1, CountsStay
  <2> QED
    BY <1>1, <2>1, <2>2, <2>3, <2>4, <2>5 DEF CountInv
<1> QED
  BY <1>2, <1>3, <1>4, <1>5, <1>6, <1>7, ReindexKinds
  DEF RecreateIndices

(* Whatever else goes on, and whichever lines and tasks fail, a report     *)
(* counts every object the query found and nobody deleted, when the batch  *)
(* size is not 0 (cli.py:83-134, tasks.py:48-90).                          *)
THEOREM AllCounted ==
    ASSUME 0 \notin BatchSizes
    PROVE  ReindexSpec => []AllAreCounted
<1>1. CountInv => AllAreCounted
  <2> SUFFICES ASSUME CountInv, Reported
               PROVE  report.success + Cardinality(report.failures) >=
                        Cardinality({o \in Selected : row[o] # None})
    BY DEF AllAreCounted
  <2> DEFINE n == MapThenSumSet(LAMBDA b : b.success, batches)
             F == UNION {b.failures : b \in batches}
             P == Present(UNION {b.ids : b \in batches})
  <2>1. report = [success |-> n, failures |-> F] /\ items = {}
        /\ \A b \in batches : b.state = "done"
    BY DEF CountInv, CommandKnows, Reported, TotalOf
  <2>2. report.success = n /\ report.failures = F
    BY <2>1
  <2>3. {o \in Selected : row[o] # None} = P
    BY <2>1 DEF Selected, Present
  <2>4. /\ IsFiniteSet(batches)
        /\ \A b \in batches : b.success \in Nat /\ b.failures \subseteq b.ids
        /\ \A b, c \in batches : b # c => b.ids \cap c.ids = {}
        /\ \A b \in batches :
              /\ IsFiniteSet(b.failures) /\ IsFiniteSet(Present(b.ids))
              /\ Cardinality(Present(b.ids)) <= b.success + Cardinality(b.failures)
    BY <2>1 DEF CountInv, SharedInv, ReindexTypes, ReindexTypeOK, Batch, Apart,
                BatchCounts
  <2>5. Cardinality(P) <= n + Cardinality(F)
    BY <2>4, CountsAddUp
  <2> HIDE DEF n, F, P
  <2> QED
    BY <2>2, <2>3, <2>5
<1>2. CountInv /\ [ReindexNext]_allVars => CountInv'
  BY NextCount
<1> QED
  BY <1>1, <1>2, InitCount, PTL DEF ReindexSpec

-----------------------------------------------------------------------------
(* Finding.                                                                *)

(* A delete that has removed the document goes on to remove the row.       *)
Withdrawn(o) ==
    \E s \in Sessions : pc[s] \in {"unindexed", "removed"} /\ req[s].obj = o

InSomeIndex(o) == \E i \in Indices : docs[i][o] # None

Findable(o) == row[o] # None /\ ~Withdrawn(o) => InSomeIndex(o)

SentIsFindable ==
    \A b \in batches : b.state = "done" =>
        \A o \in b.ids \ b.failures : Findable(o)

FoundInv == CountInv /\ SentIsFindable

(* Without failing commits and crashes only a delete takes an object out   *)
(* of the index it is in, and then it deletes the row.                     *)
LEMMA StepKeepsFindable ==
    ASSUME Faults \cap {"commit", "crash"} = {}, Inv, [Next]_vars,
           NEW o \in Objects, Findable(o)
    PROVE  Findable(o)'
<1>0. TypeOK /\ (row'[o] # None => row[o] # None)
  BY NoRowReturns DEF Inv
<1>1. ASSUME InSomeIndex(o) => InSomeIndex(o)', Withdrawn(o) => Withdrawn(o)'
      PROVE  Findable(o)'
  BY <1>0, <1>1 DEF Findable
<1>2. CASE UNCHANGED vars
  BY <1>1, <1>2 DEF vars, InSomeIndex, Withdrawn
<1>3. ASSUME NEW s \in Sessions, Kind(s)
      PROVE  Findable(o)'
  <2>1. CASE Starts(s)
    <3>1. Withdrawn(o) => Withdrawn(o)'
      BY <1>0, <2>1 DEF Starts, TypeOK, Withdrawn
    <3> QED
      BY <1>1, <2>1, <3>1 DEF Starts, InSomeIndex
  <2>2. CASE GivesUp(s) \/ delay(s)
    <3>1. pc[s] \in {"loaded", "committed"}
      BY <2>2 DEF GivesUp, delay
    <3>2. /\ UNCHANGED <<docs, req>>
          /\ \A r \in Sessions : r # s => pc'[r] = pc[r]
      BY <1>0, <2>2 DEF GivesUp, delay, Finish, Goto, store, TypeOK
    <3> QED
      BY <1>1, <3>1, <3>2 DEF InSomeIndex, Withdrawn
  <2>3. ASSUME NEW new \in Row, Flush(s, new) PROVE Findable(o)'
    BY <1>0, <1>1, <2>3 DEF Flush, TypeOK, InSomeIndex, Withdrawn
  <2>4. CASE index_workflow_object(s)
    <3>1. \A i \in Indices : docs[i][o] # None => docs'[i][o] # None
      <4>1. prepare_record(img[s]) # None
        BY <1>0, <2>4, ImageIsRow, DocType, CopyAssumption
        DEF index_workflow_object
      <4> QED
        BY <1>0, <2>4, <4>1, IndexPuts
    <3>2. Withdrawn(o) => Withdrawn(o)'
      BY <1>0, <2>4 DEF index_workflow_object, Goto, TypeOK, Withdrawn
    <3> QED
      BY <1>1, <3>1, <3>2 DEF InSomeIndex
  <2>5. CASE IndexFails(s) \/ DeleteRow(s)
    <3>1. /\ UNCHANGED <<docs, req>>
          /\ \A r \in Sessions : r # s => pc'[r] = pc[r]
          /\ pc[s] \in {"unindexed", "removed"} => pc'[s] = "removed"
      BY <1>0, <2>5 DEF IndexFails, DeleteRow, Goto, store, TypeOK
    <3> QED
      BY <1>1, <3>1 DEF InSomeIndex, Withdrawn
  <2>6. CASE Unindex(s)
    <3>1. /\ UNCHANGED req /\ pc[s] = "loaded" /\ pc'[s] = "unindexed"
          /\ \A r \in Sessions : r # s => pc'[r] = pc[r]
      BY <1>0, <2>6 DEF Unindex, TypeOK
    <3>2. CASE req[s].obj = o
      BY <3>1, <3>2 DEF Findable, Withdrawn
    <3>3. CASE req[s].obj # o
      <4>1. docs \in [Indices -> [Objects -> Doc \cup {None}]]
        BY <1>0 DEF TypeOK
      <4>2. \A i \in Indices : docs'[i][o] = docs[i][o]
        BY <2>6, <3>3, <4>1 DEF Unindex
      <4> QED
        BY <1>1, <3>1, <4>2 DEF InSomeIndex, Withdrawn
    <3> QED
      BY <3>2, <3>3
  <2>7. CASE Commit(s)
    <3>1. /\ UNCHANGED <<docs, req>> /\ pc[s] \in {"indexed", "removed"}
          /\ \A r \in Sessions : r # s => pc'[r] = pc[r]
          /\ pc[s] = "removed" => row' = [row EXCEPT ![req[s].obj] = None]
      BY <1>0, <2>7 DEF Commit, Finish, Goto, TypeOK
    <3>2. CASE pc[s] = "removed" /\ req[s].obj = o
      BY <1>0, <3>1, <3>2 DEF Findable, TypeOK
    <3>3. CASE ~(pc[s] = "removed" /\ req[s].obj = o)
      BY <1>1, <3>1, <3>3 DEF InSomeIndex, Withdrawn
    <3> QED
      BY <3>2, <3>3
  <2> QED
    BY <1>3, <2>1, <2>2, <2>3, <2>4, <2>5, <2>6, <2>7 DEF Kind
<1> QED
  BY <1>0, <1>2, <1>3, StepKinds

(* What a task sends and the index takes can be found; what was there      *)
(* stays.                                                                  *)
LEMMA SendsKeepFindable ==
    ASSUME CountInv, NEW b \in batches, NEW c \in Batch, BatchMoves(b, c)
    PROVE  /\ \A o \in Objects : Findable(o) => Findable(o)'
           /\ c.state = "done" => \A o \in c.ids \ c.failures : Findable(o)'
<1>1. /\ TypeOK /\ UNCHANGED <<row, pc, req>> /\ c.ids = b.ids
      /\ b.actions \in SUBSET BulkAction /\ b.ids \in SUBSET Objects
  BY DEF BatchMoves, CountInv, SharedInv, ReindexTypes, ReindexTypeOK, Batch
<1>2. CASE UNCHANGED docs /\ c.state # "done"
  BY <1>1, <1>2 DEF Findable, InSomeIndex, Withdrawn
<1>3. CASE Sends(b, c)
  <2>1. PICK failed \in SUBSET b.actions :
          /\ \A a \in b.actions : a.index = None => a \in failed
          /\ docs' = Overwritten(b.actions \ failed)
          /\ c.failures = {a.obj : a \in failed}
    BY <1>3 DEF Sends
  <2> DEFINE sent == b.actions \ failed
  <2>2. sent \in SUBSET BulkAction /\ docs' = Overwritten(sent)
    BY <1>1, <2>1
  <2>3. \A a \in sent : a.doc # None
    BY <2>2, CopyAssumption DEF BulkAction
  <2>4. \A a \in sent : a.index \in Indices
    BY <1>1, <2>1 DEF BulkAction
  <2>5. \A o \in b.ids \ c.failures : row[o] # None =>
          \E a \in sent : a.obj = o
    <3>1. b.todo = {} /\ \A o \in Present(b.ids \ b.todo) :
                            \E a \in b.actions : a.obj = o
      BY <1>3 DEF CountInv, BatchCounts, Sends
    <3> QED
      BY <2>1, <3>1 DEF Present
  <2> HIDE DEF sent
  <2>6. \A i \in Indices, o \in Objects :
          \/ docs'[i][o] = docs[i][o]
             /\ ~ \E a \in sent : a.index = i /\ a.obj = o
          \/ docs'[i][o] # None
    BY <2>2, <2>3, OverwrittenOr
  <2>7. \A o \in Objects : Findable(o) => Findable(o)'
    BY <1>1, <2>6 DEF Findable, InSomeIndex, Withdrawn
  <2>8. \A o \in b.ids \ c.failures : row[o] # None => InSomeIndex(o)'
    BY <1>1, <2>4, <2>5, <2>6 DEF InSomeIndex
  <2> QED
    BY <1>1, <2>7, <2>8 DEF Findable
<1> QED
  BY <1>2, <1>3 DEF BatchMoves, Takes, Reads, Breaks

LEMMA InitFound == ReindexInit => FoundInv
BY InitCount DEF FoundInv, SentIsFindable, ReindexInit

LEMMA NextFound ==
    ASSUME 0 \notin BatchSizes, Faults \cap {"commit", "crash"} = {}
    PROVE  FoundInv /\ [ReindexNext]_allVars => FoundInv'
<1> SUFFICES ASSUME FoundInv, [ReindexNext]_allVars
             PROVE  FoundInv'
  OBVIOUS
<1>1. CountInv'
  BY NextCount DEF FoundInv
<1>2. /\ ReindexTypes /\ Inv
      /\ \A b \in batches : b.ids \in SUBSET Objects
  BY DEF FoundInv, CountInv, SharedInv, ReindexTypes, ReindexTypeOK, Batch
<1>3. ASSUME \A o \in Objects : Findable(o) => Findable(o)',
             \A b \in batches' : b.state = "done" =>
                b \in batches \/ \A o \in b.ids \ b.failures : Findable(o)'
      PROVE  FoundInv'
  <2>1. ASSUME NEW b \in batches', b.state = "done",
               NEW o \in b.ids \ b.failures
        PROVE  Findable(o)'
    BY <1>2, <1>3, <2>1 DEF FoundInv, SentIsFindable
  <2> QED
    BY <1>1, <2>1 DEF FoundInv, SentIsFindable
<1>4. CASE [Next]_vars /\ UNCHANGED commandVars
  BY <1>2, <1>3, <1>4, StepKeepsFindable DEF commandVars
<1>5. CASE RecreateIndices
  BY <1>1, <1>5
  DEF RecreateIndices, commandVars, FoundInv, CountInv, CommandKnows,
      SentIsFindable
<1>6. CASE UNCHANGED vars /\ \A b \in batches' : b.state = "done" => b \in batches
  BY <1>3, <1>6 DEF vars, Findable, InSomeIndex, Withdrawn
<1>7. CASE Select \/ CommandEnds
  BY <1>6, <1>7 DEF Select, CommandEnds
<1>8. CASE Schedule
  <2>1. PICK ids : batches' = batches \cup
               {[ids |-> ids, state |-> "queued", todo |-> ids, actions |-> {},
                 success |-> 0, failures |-> {}]}
    BY <1>8 DEF Schedule
  <2> QED
    BY <1>6, <1>8, <2>1 DEF Schedule
<1>9. ASSUME NEW b \in batches, NEW c \in Batch, BatchMoves(b, c)
      PROVE  FoundInv'
  BY <1>3, <1>9, SendsKeepFindable DEF BatchMoves, Becomes, FoundInv
<1> QED
  BY <1>2, <1>4, <1>5, <1>7, <1>8, <1>9, ReindexKinds

(* After a report without failures every object the query found is in some *)
(* index, whatever was saved while it was read and sent, unless it has     *)
(* been deleted; given that no commit fails and no process dies, which     *)
(* would leave a delete half done (tasks.py:48-90, receivers.py:32-44).    *)
THEOREM FoundAgain ==
    ASSUME 0 \notin BatchSizes, Faults \cap {"commit", "crash"} = {}
    PROVE  ReindexSpec => []FoundAfterReindex
<1>1. FoundInv => FoundAfterReindex
  <2> SUFFICES ASSUME FoundInv, Reported, report.failures = {},
                      NEW o \in Selected, row[o] # None, Quiet(o)
               PROVE  InSomeIndex(o)
    BY DEF FoundAfterReindex, InSomeIndex
  <2>1. /\ items = {} /\ report.failures = UNION {b.failures : b \in batches}
        /\ \A b \in batches : b.state = "done"
    BY DEF FoundInv, CountInv, CommandKnows, Reported, TotalOf
  <2>2. PICK b \in batches : o \in b.ids \ b.failures
    BY <2>1 DEF Selected
  <2>3. Findable(o)
    BY <2>1, <2>2 DEF FoundInv, SentIsFindable
  <2>4. ~Withdrawn(o)
    BY DEF Quiet, Busy, Withdrawn
  <2> QED
    BY <2>3, <2>4 DEF Findable
<1>2. FoundInv /\ [ReindexNext]_allVars => FoundInv'
  BY NextFound
<1> QED
  BY <1>1, <1>2, InitFound, PTL DEF ReindexSpec

-----------------------------------------------------------------------------
(* A reindex while nothing else changes the objects.                       *)

(* Without a request nobody works on an object, and every row is there.    *)
Untouched ==
    /\ queue = {} /\ \A s \in Sessions : pc[s] = "idle"
    /\ \A o \in Objects : row[o] # None

(* Then a line is that of the row, what was sent and did not fail is       *)
(* current, and the query has found whatever has one of the types.         *)
CleanSoFar ==
    /\ Untouched
    /\ \A b \in batches : \A a \in b.actions : a = Line(a.obj)
    /\ \A b \in batches : b.state = "done" =>
          \A o \in b.ids \ b.failures : Current(o)
    /\ cli # "start" =>
          \A o \in Objects : row[o].data_type \in Types => o \in Selected

CleanInv == CountInv /\ (requests = 0 => CleanSoFar)

(* Without a request nothing happens in HoldingPen.                        *)
LEMMA NothingHappens ==
    ASSUME TypeOK, [Next]_vars, requests' = 0, requests = 0 => Untouched
    PROVE  requests = 0 /\ UNCHANGED vars
<1>1. requests \in Nat
  BY PenAssumption DEF TypeOK
<1>2. ASSUME NEW s \in Sessions, pc[s] # "idle", Work(s) \/ Fault(s)
      PROVE  requests' = requests
  <2>1. Work(s) => \/ GivesUp(s) \/ \E new \in Row : Flush(s, new)
                   \/ index_workflow_object(s) \/ Unindex(s)
                   \/ DeleteRow(s) \/ Commit(s) \/ delay(s)
    BY WorkKinds
  <2>2. Work(s) => requests' = requests
    BY <2>1 DEF GivesUp, Flush, index_workflow_object, Unindex, DeleteRow,
                Commit, delay, Finish
  <2>3. Fault(s) => requests' = requests
    BY DEF Fault, IndexFails, CommitFails, DelayFails, Crash, Finish
  <2> QED
    BY <1>2, <2>2, <2>3
<1>3. ASSUME NEW s \in Sessions, pc[s] = "idle"
      PROVE  ~Work(s) /\ ~Fault(s)
  <2>1. ~Work(s)
    BY <1>3, WorkKinds
    DEF GivesUp, Flush, index_workflow_object, Unindex, DeleteRow, Commit, delay
  <2>2. ~Fault(s)
    BY <1>3 DEF Fault, IndexFails, CommitFails, DelayFails, Crash
  <2> QED
    BY <2>1, <2>2
<1>4. ASSUME NEW s \in Sessions, NEW op \in Ops, NEW o \in Objects
      PROVE  ~Receive(s, op, o)
  BY <1>1 DEF Receive
<1>5. ASSUME NEW s \in Sessions, NEW t \in queue, TakeTask(s, t)
      PROVE  requests' = requests
  BY <1>5 DEF TakeTask
<1>6. requests = 0
  BY <1>2, <1>3, <1>4, <1>5 DEF Next, Quiesced, vars
<1> QED
  BY <1>3, <1>4, <1>6 DEF Next, Quiesced, Untouched

(* What a task sends is current, and replaces only what is current.        *)
LEMMA SendsKeepCurrent ==
    ASSUME CountInv, CleanSoFar, NEW b \in batches, NEW c \in Batch,
           BatchMoves(b, c)
    PROVE  /\ \A o \in Objects : Current(o) => Current(o)'
           /\ c.state = "done" => \A o \in c.ids \ c.failures : Current(o)'
<1>1. /\ TypeOK /\ UNCHANGED row /\ c.ids = b.ids
      /\ b.actions \in SUBSET BulkAction /\ b.ids \in SUBSET Objects
  BY DEF BatchMoves, CountInv, SharedInv, ReindexTypes, ReindexTypeOK, Batch
<1>2. CASE UNCHANGED docs /\ c.state # "done"
  BY <1>1, <1>2 DEF Current
<1>3. CASE Sends(b, c)
  <2>1. PICK failed \in SUBSET b.actions :
          /\ \A a \in b.actions : a.index = None => a \in failed
          /\ docs' = Overwritten(b.actions \ failed)
          /\ c.failures = {a.obj : a \in failed}
    BY <1>3 DEF Sends
  <2> DEFINE sent == b.actions \ failed
             at(o) == record_to_index(record_from_object(row[o]))
  <2>2. sent \in SUBSET BulkAction /\ docs' = Overwritten(sent)
    BY <1>1, <2>1
  <2>3. \A a \in sent : a.doc = prepare_record(row[a.obj]) /\ a.index = at(a.obj)
    BY DEF CleanSoFar, Line
  <2>4. \A a \in sent : a.index \in Indices
    BY <1>1, <2>1 DEF BulkAction
  <2>5. \A o \in b.ids \ c.failures : \E a \in sent : a.obj = o
    <3>1. b.todo = {} /\ \A o \in Present(b.ids \ b.todo) :
                            \E a \in b.actions : a.obj = o
      BY <1>3 DEF CountInv, BatchCounts, Sends
    <3>2. b.ids \subseteq Present(b.ids \ b.todo)
      BY <1>1, <3>1 DEF Present, CleanSoFar, Untouched
    <3> QED
      BY <2>1, <3>1, <3>2
  <2> HIDE DEF sent
  <2>6. \A i \in Indices, o \in Objects :
          \/ docs'[i][o] = docs[i][o]
             /\ ~ \E a \in sent : a.index = i /\ a.obj = o
          \/ docs'[i][o] = prepare_record(row[o])
    BY <2>2, <2>3, OverwrittenOr
  <2>7. \A o \in Objects : at(o) \in Indices \cup {None}
    BY <1>1, RecordType, IndexType DEF TypeOK, CleanSoFar, Untouched
  <2>8. \A o \in Objects : Current(o)' <=>
          at(o) # None /\ docs'[at(o)][o] = prepare_record(row[o])
    BY <1>1 DEF Current
  <2>9. \A o \in Objects : Current(o) <=>
          at(o) # None /\ docs[at(o)][o] = prepare_record(row[o])
    BY DEF Current
  <2> HIDE DEF at
  <2>10. \A o \in Objects : Current(o) => Current(o)'
    BY <2>6, <2>7, <2>8, <2>9
  <2>11. ASSUME NEW o \in b.ids \ c.failures PROVE Current(o)'
    <3>1. PICK a \in sent : a.obj = o
      BY <2>5
    <3>2. o \in Objects /\ at(o) \in Indices /\ a.index = at(o)
      BY <1>1, <2>3, <2>4, <3>1
    <3>3. docs'[at(o)][o] = prepare_record(row[o])
      BY <2>6, <3>1, <3>2
    <3> QED
      BY <2>8, <3>2, <3>3, RecordAssumption
  <2> QED
    BY <1>1, <2>10, <2>11
<1> QED
  BY <1>2, <1>3 DEF BatchMoves, Takes, Reads, Breaks

LEMMA InitClean == ReindexInit => CleanInv
<1> SUFFICES ASSUME ReindexInit PROVE CleanInv
  OBVIOUS
<1>1. \A o \in Objects : row[o] # None
  BY PenAssumption, SentinelAssumption
  DEF ReindexInit, Init, HaltedRow, Row, Status
<1> QED
  BY <1>1, InitCount DEF ReindexInit, Init, CleanInv, CleanSoFar, Untouched

LEMMA NextClean ==
    ASSUME 0 \notin BatchSizes
    PROVE  CleanInv /\ [ReindexNext]_allVars => CleanInv'
<1> SUFFICES ASSUME CleanInv, [ReindexNext]_allVars, requests' = 0
             PROVE  CleanSoFar'
  BY NextCount DEF CleanInv
<1>1. /\ TypeOK /\ ReindexTypes
      /\ \A b \in batches : b.ids \in SUBSET Objects
  BY DEF CleanInv, CountInv, SharedInv, ReindexTypes, ReindexTypeOK, Batch
<1>2. ASSUME requests = 0, UNCHANGED <<row, docs, queue, pc>>,
             \A b \in batches' :
                b \in batches \/ (b.actions = {} /\ b.state # "done"),
             cli' # "start" =>
                \A o \in Objects : row[o].data_type \in Types => o \in Selected'
      PROVE  CleanSoFar'
  BY <1>2 DEF CleanInv, CleanSoFar, Untouched, Current, Line
<1>3. CASE [Next]_vars /\ UNCHANGED commandVars
  <2>1. requests = 0 /\ UNCHANGED vars
    BY <1>1, <1>3, NothingHappens DEF CleanInv, CleanSoFar
  <2> QED
    BY <1>2, <1>3, <2>1
    DEF vars, commandVars, CleanInv, CleanSoFar, Selected
<1>4. CASE RecreateIndices
  <2>1. /\ requests = 0 /\ batches = {} /\ batches' = {} /\ cli' = "start"
        /\ UNCHANGED <<row, queue, pc>>
    BY <1>4
    DEF RecreateIndices, commandVars, CleanInv, CountInv, CommandKnows
  <2> QED
    BY <2>1 DEF CleanInv, CleanSoFar, Untouched
<1>5. CASE Select
  <2>1. requests = 0 /\ batches' = batches /\ UNCHANGED <<row, docs, queue, pc>>
    BY <1>5 DEF Select, vars
  <2>2. \A o \in Objects : row[o].data_type \in Types => o \in Selected'
    BY <1>5, <2>1 DEF Select, Selected, CleanInv, CleanSoFar, Untouched
  <2> QED
    BY <1>2, <2>1, <2>2
<1>6. CASE Schedule
  <2>1. PICK ids \in next_batch(items) \ {{}} :
          /\ items' = items \ ids
          /\ batches' = batches \cup
               {[ids |-> ids, state |-> "queued", todo |-> ids, actions |-> {},
                 success |-> 0, failures |-> {}]}
    BY <1>6 DEF Schedule
  <2> DEFINE c == [ids |-> ids, state |-> "queued", todo |-> ids,
                   actions |-> {}, success |-> 0, failures |-> {}]
  <2>2. c.ids = ids /\ c.actions = {} /\ c.state # "done"
    OBVIOUS
  <2>3. batches' = batches \cup {c}
    BY <2>1
  <2>4. requests = 0 /\ UNCHANGED <<row, docs, queue, pc>> /\ cli = "scheduling"
    BY <1>6 DEF Schedule, vars
  <2> HIDE DEF c
  <2>5. \A o \in Objects : row[o].data_type \in Types => o \in Selected'
    <3>1. Selected \subseteq Selected'
      BY <2>1, <2>2, <2>3 DEF Selected
    <3> QED
      BY <2>4, <3>1 DEF CleanInv, CleanSoFar
  <2> QED
    BY <1>2, <2>2, <2>3, <2>4, <2>5
<1>7. CASE CommandEnds
  <2>1. /\ requests = 0 /\ UNCHANGED <<batches, items, row, docs, queue, pc>>
        /\ cli # "start"
    BY <1>7 DEF CommandEnds, Scheduled, vars
  <2>2. \A o \in Objects : row[o].data_type \in Types => o \in Selected'
    BY <2>1 DEF Selected, CleanInv, CleanSoFar
  <2> QED
    BY <1>2, <2>1, <2>2
<1>8. ASSUME NEW b \in batches, NEW c \in Batch, BatchMoves(b, c)
      PROVE  CleanSoFar'
  <2>1. /\ requests = 0 /\ batches' = (batches \ {b}) \cup {c} /\ c.ids = b.ids
        /\ UNCHANGED <<row, queue, pc, cli, items>> /\ CleanSoFar /\ CountInv
    BY <1>8 DEF BatchMoves, Becomes, CleanInv
  <2>2. \A a \in c.actions : a = Line(a.obj)
    <3>1. \A o : Line(o).obj = o
      BY DEF Line
    <3>2. \A a \in b.actions : a = Line(a.obj)
      BY <2>1 DEF CleanSoFar
    <3> HIDE DEF Line
    <3> QED
      BY <1>8, <3>1, <3>2 DEF BatchMoves, Takes, Reads, Sends, Breaks
  <2>3. \A x \in batches' : \A a \in x.actions : (a = Line(a.obj))'
    BY <2>1, <2>2 DEF CleanSoFar, Line
  <2>4. \A x \in batches' : x.state = "done" =>
          \A o \in x.ids \ x.failures : Current(o)'
    <3>1. \A o \in c.ids \ c.failures : c.state = "done" => Current(o)'
      BY <1>8, <2>1, SendsKeepCurrent
    <3>2. \A o \in Objects : Current(o) => Current(o)'
      BY <1>8, <2>1, SendsKeepCurrent
    <3> QED
      BY <1>1, <2>1, <3>1, <3>2 DEF CleanSoFar
  <2>5. \A o \in Selected : o \in Selected'
    BY <2>1 DEF Selected
  <2> QED
    BY <2>1, <2>3, <2>4, <2>5 DEF CleanSoFar, Untouched
<1> QED
  BY <1>1, <1>3, <1>4, <1>5, <1>6, <1>7, <1>8, ReindexKinds

(* When nothing else changed the objects, a report without failures means  *)
(* that every object of the types asked for is in its index as it is, for  *)
(* every batch size but 0 (cli.py:83-134, tasks.py:48-90).                 *)
THEOREM CleanReports ==
    ASSUME 0 \notin BatchSizes
    PROVE  ReindexSpec => []CleanReportIsComplete
<1>1. CleanInv => CleanReportIsComplete
  <2> SUFFICES ASSUME CleanInv, Reported, requests = 0, report.failures = {},
                      NEW o \in Objects, row[o].data_type \in Types
               PROVE  Current(o)
    BY DEF CleanReportIsComplete
  <2>1. /\ items = {} /\ report.failures = UNION {b.failures : b \in batches}
        /\ \A b \in batches : b.state = "done"
    BY DEF CleanInv, CountInv, CommandKnows, Reported, TotalOf
  <2>2. o \in Selected
    BY DEF CleanInv, CleanSoFar, Reported
  <2>3. PICK b \in batches : o \in b.ids \ b.failures
    BY <2>1, <2>2 DEF Selected
  <2> QED
    BY <2>1, <2>3 DEF CleanInv, CleanSoFar
<1>2. CleanInv /\ [ReindexNext]_allVars => CleanInv'
  BY NextClean
<1> QED
  BY <1>1, <1>2, InitClean, PTL DEF ReindexSpec
=============================================================================
