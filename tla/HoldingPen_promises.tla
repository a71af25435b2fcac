------------------------- MODULE HoldingPen_promises -------------------------
(***************************************************************************)
(* What a reader of the database and the indices can rely on, for every    *)
(* value of the constants: HoldingPen implements SearchablePen; the last   *)
(* save can be found; and an edit leaves an object attached to its         *)
(* workflow.                                                               *)
(***************************************************************************)
EXTENDS HoldingPen_proofs

-----------------------------------------------------------------------------
(* The refinement: under the mapping of the instance Pen, the initial      *)
(* states are initial states of SearchablePen, and each kind of step is a  *)
(* step there or leaves the copies alone.                                  *)

(* A row makes a copy, which is not None.                                  *)
LEMMA SavedCopyType ==
    ASSUME NEW w \in Row
    PROVE  /\ SavedCopy(w).content \in Contents
           /\ SavedCopy(w).stamp = w.modified
           /\ SavedCopy(w) \in [content : Contents, stamp : Nat]
           /\ SavedCopy(w) # None
<1> DEFINE copy == [content |-> [metadata |-> w.data, extra_data |-> w.extra_data,
                                 callback_pos |-> w.callback_pos],
                    stamp |-> w.modified]
<1>1. SavedCopy(w) = copy
  BY SentinelAssumption DEF SavedCopy
<1>2. copy.content \in Contents /\ copy.stamp = w.modified /\ w.modified \in Nat
  BY DEF Contents, Row
<1>3. copy \in [content : Contents, stamp : Nat]
  BY <1>2
<1> QED
  BY <1>1, <1>2, <1>3, CopyAssumption

(* So does a document.                                                     *)
LEMMA FoundCopyType ==
    ASSUME NEW d \in Doc
    PROVE  /\ FoundCopy(d).stamp = d.updated
           /\ FoundCopy(d) \in [content : Contents, stamp : Nat]
           /\ FoundCopy(d) # None /\ d # None
<1> DEFINE copy == [content |-> [metadata |-> d.record.metadata,
                                 extra_data |-> d.record.extra_data,
                                 callback_pos |-> d.record.workflow.callback_pos],
                    stamp |-> d.updated]
<1>1. FoundCopy(d) = copy
  BY CopyAssumption DEF FoundCopy
<1>2. copy.content \in Contents /\ copy.stamp = d.updated /\ d.updated \in Nat
  BY DEF Contents, Doc, Record, WorkflowPart
<1>3. copy \in [content : Contents, stamp : Nat]
  BY <1>2
<1> QED
  BY <1>1, <1>2, <1>3, CopyAssumption

(* A document that is alike a row and has its stamp makes the row's copy.  *)
LEMMA CopiesAgree ==
    ASSUME NEW w \in Row, NEW d \in Doc, SavedAlike(d, w),
           d.updated = w.modified
    PROVE  FoundCopy(d) = SavedCopy(w)
BY SentinelAssumption, CopyAssumption DEF SavedCopy, FoundCopy, SavedAlike

(* Where there is no row or document there is no copy, and only there.     *)
LEMMA CopyOrNone ==
    ASSUME TypeOK
    PROVE  /\ \A o \in Objects : Saved[o] = None <=> row[o] = None
           /\ \A i \in Indices, o \in Objects :
                 Found[i][o] = None <=> docs[i][o] = None
<1>1. ASSUME NEW o \in Objects PROVE Saved[o] = None <=> row[o] = None
  BY SavedCopyType DEF Saved, SavedCopy, TypeOK
<1>2. ASSUME NEW i \in Indices, NEW o \in Objects
      PROVE  Found[i][o] = None <=> docs[i][o] = None
  BY FoundCopyType DEF Found, FoundCopy, TypeOK
<1> QED
  BY <1>1, <1>2

(* The copies at the start are those of halted rows, found or not.         *)
LEMMA InitRefines == Init => Pen!Init
<1> SUFFICES ASSUME Init PROVE Pen!Init
  OBVIOUS
<1>1. TypeOK
  BY InitType
<1>2. ASSUME NEW o \in Objects
      PROVE  Saved[o] \in [content : Contents, stamp : {0}]
  <2>1. row[o] \in Row /\ row[o].modified = 0
    BY PenAssumption DEF Init, HaltedRow, Row, Status
  <2>2. SavedCopy(row[o]) \in [content : Contents, stamp : Nat]
        /\ SavedCopy(row[o]).stamp = 0
    BY <2>1, SavedCopyType
  <2> QED
    BY <2>2 DEF Saved
<1>3. ASSUME NEW i \in Indices, NEW o \in Objects
      PROVE  Found[i][o] \in {Saved[o], None}
  <2>1. row[o] \in Row
    BY PenAssumption DEF Init, HaltedRow, Row, Status
  <2>2. CASE docs[i][o] = None
    BY <2>2, <1>1, CopyOrNone
  <2>3. CASE docs[i][o] = prepare_record(row[o])
    <3>1. SavedAlike(prepare_record(row[o]), row[o])
          /\ prepare_record(row[o]).updated = row[o].modified
      BY <2>1 DEF SavedAlike, prepare_record, record_from_object
    <3> QED
      BY <2>1, <2>3, <3>1, DocType, CopiesAgree DEF Saved, Found
  <2> QED
    BY <2>2, <2>3 DEF Init
<1>4. Saved \in [Objects -> [content : Contents, stamp : {0}]]
  BY <1>2 DEF Saved
<1>5. Found \in [Indices -> [Objects -> [content : Contents, stamp : {0}]
                                             \cup {None}]]
  <2>1. \A i \in Indices, o \in Objects :
          Found[i][o] \in [content : Contents, stamp : {0}] \cup {None}
    BY <1>2, <1>3
  <2> QED
    BY <2>1 DEF Found
<1> QED
  BY <1>3, <1>4, <1>5 DEF Pen!Init

(* A step that changes neither rows nor documents changes no copy.         *)
LEMMA OthersRefine ==
    ASSUME UNCHANGED <<row, docs>>
    PROVE  UNCHANGED Pen!penVars
BY DEF Pen!penVars, Saved, Found

(* Indexing publishes what was flushed: it is newer than the row, which is *)
(* there, and than every document.                                         *)
LEMMA IndexRefines ==
    ASSUME NewestHolds, TypeOK', NEW s \in Sessions, index_workflow_object(s)
    PROVE  [Pen!Next]_(Pen!penVars)
<1> DEFINE o == req[s].obj
           d == prepare_record(img[s])
           i == record_to_index(record_from_object(img[s]))
<1>1. /\ TypeOK /\ o \in Objects /\ img[s] \in Row /\ d \in Doc
      /\ d.updated = img[s].modified /\ Flushed(s)
      /\ i \in Indices \cup {None} /\ UNCHANGED row
  BY ImageIsRow, DocType, RecordType, IndexType
  DEF NewestHolds, Inv, index_workflow_object, prepare_record, Flushed
<1>2. docs' = IF i = None THEN docs ELSE [docs EXCEPT ![i][o] = d]
  BY DEF index_workflow_object, index
<1>3. docs \in [Indices -> [Objects -> Doc \cup {None}]]
  BY <1>1 DEF TypeOK
<1>4. /\ row[o] \in Row /\ row[o].modified < d.updated
      /\ \A j \in Indices : docs[j][o] # None => docs[j][o].updated <= d.updated
  BY <1>1 DEF NewestHolds, Inv, Transactional, FlushedIsNext, FlushedIsNewest,
              TypeOK
<1> HIDE DEF o, d, i
<1>5. CASE i = None
  BY <1>1, <1>2, <1>5, OthersRefine
<1>6. CASE i \in Indices
  <2>1. /\ docs' = [docs EXCEPT ![i][o] = d] /\ UNCHANGED Saved
        /\ docs'[i][o] = d
    BY <1>1, <1>2, <1>3, <1>6, RecordAssumption DEF Saved
  <2>2. Found' = [Found EXCEPT ![i][o] = FoundCopy(d)]
    BY <1>1, <1>3, <1>6, <2>1 DEF Found
  <2>3. /\ Found'[i][o] = FoundCopy(d) /\ Saved[o] = SavedCopy(row[o])
        /\ Found[i][o] = FoundCopy(docs[i][o])
    BY <1>1, <1>6, <2>2 DEF Saved, Found
  <2>4. /\ Saved[o] # None /\ Found'[i][o] \in Pen!Copy
        /\ Saved[o].stamp < Found'[i][o].stamp
    BY <1>1, <1>4, <2>3, SavedCopyType, FoundCopyType DEF Pen!Copy
  <2>5. Found[i][o] # None => Found[i][o].stamp <= Found'[i][o].stamp
    <3>1. docs[i][o] \in Doc \cup {None}
      BY <1>1, <1>3, <1>6
    <3> QED
      BY <1>1, <1>4, <1>6, <2>3, <3>1, FoundCopyType, CopyOrNone
  <2>6. Pen!Publish(i, o)
    BY <2>1, <2>2, <2>3, <2>4, <2>5 DEF Pen!Publish
  <2> QED
    BY <1>1, <1>6, <2>6 DEF Pen!Next
<1> QED
  BY <1>1, <1>5, <1>6

(* A delete withdraws one document.                                        *)
LEMMA UnindexRefines ==
    ASSUME TypeOK, NEW s \in Sessions, Unindex(s)
    PROVE  [Pen!Next]_(Pen!penVars)
<1>1. req[s].obj \in Objects /\ UNCHANGED Saved
  BY ImageIsRow DEF Unindex, Saved
<1>2. PICK i \in Indices : docs' = [docs EXCEPT ![i][req[s].obj] = None]
  BY DEF Unindex
<1>3. Found' = [Found EXCEPT ![i][req[s].obj] = None]
  <2>1. FoundCopy(None) = None
    BY DEF FoundCopy
  <2>2. docs \in [Indices -> [Objects -> Doc \cup {None}]]
    BY DEF TypeOK
  <2> QED
    BY <1>1, <1>2, <2>1, <2>2 DEF Found
<1> QED
  BY <1>1, <1>3 DEF Pen!Next, Pen!Withdraw

(* A commit stores what was flushed, to which nothing is ahead, or deletes *)
(* the row.                                                                *)
LEMMA CommitRefines ==
    ASSUME NewestHolds, NEW s \in Sessions, Commit(s)
    PROVE  [Pen!Next]_(Pen!penVars)
<1> DEFINE o == req[s].obj
<1>1. /\ TypeOK /\ o \in Objects /\ UNCHANGED Found
      /\ row \in [Objects -> Row \cup {None}]
      /\ docs \in [Indices -> [Objects -> Doc \cup {None}]]
  BY ImageIsRow DEF NewestHolds, Inv, TypeOK, Commit, Found
<1>2. CASE pc[s] = "removed"
  <2>1. row' = [row EXCEPT ![o] = None]
    BY <1>2 DEF Commit
  <2>2. Saved' = [Saved EXCEPT ![o] = None]
    BY <1>1, <2>1 DEF Saved, SavedCopy
  <2> QED
    BY <1>1, <2>2 DEF Pen!Next, Pen!Delete
<1>3. CASE pc[s] = "indexed"
  <2>1. /\ row' = [row EXCEPT ![o] = pend[s]] /\ pend[s] \in Row
        /\ row[o] \in Row /\ row[o].modified < pend[s].modified
    BY <1>1, <1>3
    DEF Commit, NewestHolds, Inv, TypeOK, Transactional, FlushedIsNext, Flushed
  <2>2. Saved' = [Saved EXCEPT ![o] = SavedCopy(pend[s])]
    BY <1>1, <2>1 DEF Saved
  <2>3. Saved'[o] = SavedCopy(pend[s]) /\ Saved[o] = SavedCopy(row[o])
    BY <1>1, <2>2 DEF Saved
  <2>4. /\ Saved[o] # None /\ Saved'[o] \in Pen!Copy
        /\ Saved[o].stamp < Saved'[o].stamp
    BY <2>1, <2>3, SavedCopyType DEF Pen!Copy
  <2>5. ASSUME NEW i \in Indices, Found[i][o] # None
        PROVE  /\ Found[i][o].stamp <= Saved'[o].stamp
               /\ Found[i][o].stamp = Saved'[o].stamp => Found[i][o] = Saved'[o]
    <3>1. docs[i][o] \in Doc /\ Found[i][o] = FoundCopy(docs[i][o])
      BY <1>1, <2>5, CopyOrNone DEF Found
    <3>2. docs[i][o] # None /\ Found[i][o].stamp = docs[i][o].updated
      BY <3>1, FoundCopyType
    <3>3. docs[i][o].updated <= pend[s].modified
      BY <1>3, <3>2 DEF NewestHolds, FlushedIsNewest, Flushed
    <3>4. docs[i][o].updated = pend[s].modified => SavedAlike(docs[i][o], pend[s])
      BY <1>3, <3>2
      DEF NewestHolds, Inv, Transactional, FlushedStampIdentifiesContent, Flushed
    <3> QED
      BY <2>1, <2>3, <3>1, <3>2, <3>3, <3>4, SavedCopyType, CopiesAgree
  <2>6. Pen!Store(o)
    BY <1>1, <2>2, <2>3, <2>4, <2>5 DEF Pen!Store
  <2> QED
    BY <1>1, <2>6 DEF Pen!Next
<1> QED
  BY <1>2, <1>3 DEF Commit

(* Whatever sessions overlap and whatever fails, the database and the      *)
(* indices behave as SearchablePen says (api.py:55-132,                    *)
(* receivers.py:32-44).                                                    *)
THEOREM Refines == Spec => ImplementsPen
<1>1. NewestHolds /\ [Next]_vars => [Pen!Next]_(Pen!penVars)
  <2> SUFFICES ASSUME NewestHolds, [Next]_vars
               PROVE  [Pen!Next]_(Pen!penVars)
    OBVIOUS
  <2>1. TypeOK /\ TypeOK'
    BY NextType DEF NewestHolds, Inv
  <2>2. ASSUME NEW s \in Sessions, Kind(s)
        PROVE  [Pen!Next]_(Pen!penVars)
    <3>1. CASE index_workflow_object(s)
      BY <2>1, <3>1, IndexRefines
    <3>2. CASE Unindex(s)
      BY <2>1, <3>2, UnindexRefines
    <3>3. CASE Commit(s)
      BY <3>3, CommitRefines
    <3>4. CASE \/ Starts(s) \/ GivesUp(s) \/ IndexFails(s)
               \/ DeleteRow(s) \/ delay(s)
               \/ \E new \in Row : Flush(s, new)
      BY <3>4, OthersRefine
      DEF Starts, GivesUp, store, IndexFails, DeleteRow, delay, Flush
    <3> QED
      BY <2>2, <3>1, <3>2, <3>3, <3>4 DEF Kind
  <2>3. CASE UNCHANGED vars
    BY <2>3, OthersRefine DEF vars
  <2> QED
    BY <2>1, <2>2, <2>3, StepKinds
<1> QED
  BY <1>1, InitRefines, InitNewest, NextNewest, PTL
  DEF Spec, ImplementsPen, Pen!Spec

-----------------------------------------------------------------------------
(* The last save can be found.                                             *)

(* Nothing fails; every workflow is one the registry knows and has a data  *)
(* type, every data type has an index, and no body detaches an object from *)
(* its workflow.                                                           *)
Configured ==
    /\ Faults = {}
    /\ RunsAreKnown
    /\ DefinitionType # None
    /\ \A d \in DataTypes : SearchIndex[d] # None

-----------------------------------------------------------------------------
(* Objects stay attached to their runs, so that each has an index.         *)
Attached ==
    /\ \A o \in Objects : row[o] # None => row[o].id_workflow # None
    /\ \A s \in Sessions :
          /\ img[s] # None => img[s].id_workflow # None
          /\ pend[s] # None => pend[s].id_workflow # None

LEMMA AttachedHasIndex ==
    ASSUME Configured, NEW w \in Row, w.id_workflow # None
    PROVE  record_to_index(record_from_object(w)) \in Indices
<1>1. w.id_workflow \in Registered /\ w.data_type \in DataTypes \cup {None}
  BY DEF Configured, RunsAreKnown, Row
<1>2. record_from_object(w).workflow.data_type \in DataTypes \ {None}
  <2>1. None \notin DataTypes /\ DefinitionType \in DataTypes
    BY RecordAssumption DEF Configured
  <2> QED
    BY <1>1, <2>1 DEF record_from_object
<1>3. record_from_object(w) \in Record
  BY RecordType
<1>4. record_to_index(record_from_object(w)) \in Indices \cup {None}
  BY <1>3, IndexType
<1> QED
  BY <1>2, <1>4 DEF record_to_index, Configured

LEMMA InitAttached == Init => Attached
BY RecordAssumption DEF Init, HaltedRow, Attached

LEMMA NextAttached ==
    ASSUME Inv, Configured, Attached, [Next]_vars
    PROVE  Attached'
<1>1. /\ row \in [Objects -> Row \cup {None}]
      /\ img \in [Sessions -> Row \cup {None}]
      /\ pend \in [Sessions -> Row \cup {None}]
  BY DEF Inv, TypeOK
<1>2. CASE UNCHANGED <<row, img, pend>>
  BY <1>2 DEF Attached
<1>3. ASSUME NEW s \in Sessions, Starts(s) PROVE Attached'
  <2>1. CASE \E r \in Request : row[r.obj] # None
                                /\ img' = [img EXCEPT ![s] = row[r.obj]]
    BY <1>1, <1>3, <2>1 DEF Starts, Attached, Request
  <2>2. CASE UNCHANGED img
    BY <1>3, <2>2 DEF Starts, Attached
  <2> QED
    BY <1>3, <2>1, <2>2 DEF Starts
<1>4. ASSUME NEW s \in Sessions, GivesUp(s) \/ delay(s) PROVE Attached'
  BY <1>1, <1>4 DEF GivesUp, delay, Finish, store, Attached
<1>5. ASSUME NEW s \in Sessions, NEW new \in Row, Flush(s, new),
             KeepsRun(s, new)
      PROVE  Attached'
  <2> DEFINE o == req[s].obj
             stamped == [new EXCEPT !.modified = clock + 1]
             written == UpdateStatement(row[o], img[s], stamped)
  <2>1. /\ img[s] \in Row /\ o \in Objects /\ row[o] # None /\ row[o] \in Row
    BY <1>5, ImageIsRow DEF Flush, Inv, TypeOK
  <2>2. img[s].id_workflow # None /\ row[o].id_workflow # None
        /\ new.id_workflow # None
    BY <1>5, <2>1, SentinelAssumption DEF Attached, KeepsRun, Configured
  <2>3. stamped.id_workflow # None
    BY <2>2 DEF Row
  <2>4. written.id_workflow \in {stamped.id_workflow, row[o].id_workflow}
    <3>1. stamped \in [status : Status, data_type : DataTypes \cup {None},
                       id_workflow : Workflows \cup {None},
                       callback_pos : Positions, data : Metadata,
                       extra_data : ActionNames \cup {None}, modified : {clock + 1}]
      BY DEF Row
    <3> HIDE DEF stamped
    <3> QED
      BY <3>1 DEF UpdateStatement
  <2>5. /\ img' = [img EXCEPT ![s] = stamped]
        /\ pend' = [pend EXCEPT ![s] = written]
        /\ row' = row
    BY <1>5 DEF Flush
  <2> HIDE DEF stamped, written
  <2> QED
    BY <1>1, <2>2, <2>3, <2>4, <2>5 DEF Attached
<1>6. ASSUME NEW s \in Sessions, Commit(s) PROVE Attached'
  <2>1. pc[s] = "indexed" => pend[s] # None
    BY DEF Inv, TypeOK
  <2> QED
    BY <1>1, <1>6, <2>1 DEF Commit, Finish, Attached
<1>7. ASSUME NEW s \in Sessions,
             index_workflow_object(s) \/ IndexFails(s) \/ Unindex(s) \/ DeleteRow(s)
      PROVE  Attached'
  BY <1>2, <1>7 DEF index_workflow_object, IndexFails, Unindex, DeleteRow, store
<1> QED
  BY <1>2, <1>3, <1>4, <1>5, <1>6, <1>7, StepKinds DEF Inv, Kind, vars

-----------------------------------------------------------------------------
(* The document of w is in some index.                                     *)
FoundAs(o, w) ==
    \E i \in Indices : /\ docs[i][o] # None
                       /\ docs[i][o].updated = w.modified
                       /\ SavedAlike(docs[i][o], w)

Deleting(s, o) == pc[s] \in {"unindexed", "removed"} /\ req[s].obj = o

Indexed(s, o) == pc[s] = "indexed" /\ req[s].obj = o

(* Unless an object is being deleted, what was indexed last can be found:  *)
(* what is about to be committed, or else the row.                         *)
LastIndexed ==
    \A o \in Objects : row[o] # None /\ (\A s \in Sessions : ~Deleting(s, o)) =>
        /\ \A s \in Sessions : Indexed(s, o) => FoundAs(o, pend[s])
        /\ (\A s \in Sessions : ~Indexed(s, o)) => FoundAs(o, row[o])

SearchableInv == Inv /\ Attached /\ LastIndexed

LEMMA InitLastIndexed == ASSUME Configured, Init PROVE LastIndexed
<1> SUFFICES ASSUME NEW o \in Objects, row[o] # None
             PROVE  FoundAs(o, row[o])
  BY DEF LastIndexed, Indexed, Init
<1>1. row[o] \in Row /\ row[o].id_workflow # None
  BY InitAttached, InitInv DEF Attached, Inv, TypeOK
<1> DEFINE i == record_to_index(record_from_object(row[o]))
           d == prepare_record(row[o])
<1>2. i \in Indices
  BY <1>1, AttachedHasIndex
<1>3. docs[i][o] = d
  BY <1>2 DEF Init
<1>4. d \in Doc /\ d.updated = row[o].modified /\ SavedAlike(d, row[o])
  BY <1>1, DocType DEF prepare_record, SavedAlike, record_from_object
<1>5. d # None
  BY <1>4, CopyAssumption
<1> HIDE DEF i, d
<1> QED
  BY <1>2, <1>3, <1>4, <1>5 DEF FoundAs

(* A step that touches no document, row or flush of o and neither indexes  *)
(* nor deletes it.                                                         *)
LEMMA Undisturbed ==
    ASSUME LastIndexed, NEW o \in Objects,
           row'[o] = row[o] \/ row'[o] = None,
           \A i \in Indices : docs'[i][o] = docs[i][o],
           \A s \in Sessions :
              /\ Deleting(s, o) => Deleting(s, o)' \/ row'[o] = None
              /\ Indexed(s, o) <=> Indexed(s, o)'
              /\ Indexed(s, o) => pend'[s] = pend[s],
           row'[o] # None, \A s \in Sessions : ~Deleting(s, o)'
    PROVE  /\ \A s \in Sessions : Indexed(s, o)' => FoundAs(o, pend[s])'
           /\ (\A s \in Sessions : ~Indexed(s, o)') => FoundAs(o, row[o])'
<1>1. row[o] # None /\ row'[o] = row[o] /\ \A s \in Sessions : ~Deleting(s, o)
  OBVIOUS
<1>2. FoundAs(o, row[o]) => FoundAs(o, row[o])'
  BY <1>1 DEF FoundAs
<1>3. ASSUME NEW s \in Sessions, Indexed(s, o)' PROVE FoundAs(o, pend[s])'
  <2>1. FoundAs(o, pend[s]) /\ pend'[s] = pend[s]
    BY <1>1, <1>3 DEF LastIndexed
  <2> QED
    BY <2>1 DEF FoundAs
<1>4. (\A s \in Sessions : ~Indexed(s, o)') => FoundAs(o, row[o])
  BY <1>1 DEF LastIndexed
<1> QED
  BY <1>2, <1>3, <1>4

LEMMA NextLastIndexed ==
    ASSUME SearchableInv, Configured, [Next]_vars
    PROVE  LastIndexed'
<1> SUFFICES ASSUME NEW o \in Objects, row'[o] # None,
                    \A s \in Sessions : ~Deleting(s, o)'
             PROVE  /\ \A s \in Sessions : Indexed(s, o)' => FoundAs(o, pend[s])'
                    /\ (\A s \in Sessions : ~Indexed(s, o)') => FoundAs(o, row[o])'
  BY DEF LastIndexed
<1> DEFINE Goal == /\ \A s \in Sessions : Indexed(s, o)' => FoundAs(o, pend[s])'
                   /\ (\A s \in Sessions : ~Indexed(s, o)') => FoundAs(o, row[o])'
<1>1. /\ Inv /\ LastIndexed /\ Attached
      /\ row \in [Objects -> Row \cup {None}]
      /\ docs \in [Indices -> [Objects -> Doc \cup {None}]]
      /\ pc \in [Sessions -> {"idle", "loaded", "saved", "indexed", "committed",
                              "unindexed", "removed"}]
      /\ req \in [Sessions -> Request \cup {None}]
      /\ pend \in [Sessions -> Row \cup {None}]
  BY DEF SearchableInv, Inv, TypeOK
<1>2. ASSUME UNCHANGED <<row, docs>>,
             \A s \in Sessions :
                 \/ pc'[s] = pc[s] /\ req'[s] = req[s] /\ pend'[s] = pend[s]
                 \/ /\ pc[s] \notin {"indexed", "unindexed", "removed"}
                    /\ pc'[s] # "indexed"
                 \/ pc[s] = "unindexed" /\ pc'[s] = "removed" /\ req'[s] = req[s]
      PROVE  Goal
  <2>1. \A s \in Sessions : /\ Deleting(s, o) => Deleting(s, o)'
                            /\ Indexed(s, o) <=> Indexed(s, o)'
                            /\ Indexed(s, o) => pend'[s] = pend[s]
    BY <1>2 DEF Deleting, Indexed
  <2> QED
    BY <1>1, <1>2, <2>1, Undisturbed
<1>3. ASSUME NEW s \in Sessions, Starts(s) \/ GivesUp(s) \/ delay(s) \/ DeleteRow(s)
      PROVE  Goal
  BY <1>1, <1>2, <1>3 DEF Starts, GivesUp, delay, DeleteRow, Finish, Goto, store,
                          Configured
<1>4. ASSUME NEW s \in Sessions, NEW new \in Row, Flush(s, new) PROVE Goal
  BY <1>1, <1>2, <1>4 DEF Flush
<1>5. ASSUME NEW s \in Sessions, IndexFails(s) PROVE FALSE
  BY <1>5 DEF IndexFails, Configured
<1>6. ASSUME NEW s \in Sessions, Unindex(s) PROVE Goal
  <2>1. /\ pc[s] = "loaded" /\ pc' = [pc EXCEPT ![s] = "unindexed"]
        /\ UNCHANGED <<row, req, pend>>
        /\ \E i \in Indices : docs' = [docs EXCEPT ![i][req[s].obj] = None]
    BY <1>6 DEF Unindex
  <2>2. req[s].obj # o
    BY <1>1, <2>1 DEF Deleting
  <2>3. \A i \in Indices : docs'[i][o] = docs[i][o]
    BY <1>1, <2>1, <2>2
  <2>4. \A r \in Sessions : /\ Deleting(r, o) => Deleting(r, o)'
                            /\ Indexed(r, o) <=> Indexed(r, o)'
    BY <1>1, <2>1, <2>2 DEF Deleting, Indexed
  <2> QED
    BY <1>1, <2>1, <2>3, <2>4, Undisturbed
<1>7. ASSUME NEW s \in Sessions, index_workflow_object(s) PROVE Goal
  <2>1. /\ pc[s] = "saved" /\ pc' = [pc EXCEPT ![s] = "indexed"]
        /\ UNCHANGED <<row, req, pend>>
    BY <1>7 DEF index_workflow_object, Goto
  <2>2. CASE req[s].obj # o
    <3>1. \A i \in Indices : docs'[i][o] = docs[i][o]
      BY <1>1, <1>7, <2>2, IndexPuts DEF Inv
    <3>2. \A r \in Sessions : /\ Deleting(r, o) => Deleting(r, o)'
                              /\ Indexed(r, o) <=> Indexed(r, o)'
      BY <1>1, <2>1, <2>2 DEF Deleting, Indexed
    <3> QED
      BY <1>1, <2>1, <3>1, <3>2, Undisturbed
  <2>3. CASE req[s].obj = o
    <3> DEFINE i == record_to_index(record_from_object(img[s]))
               d == prepare_record(img[s])
    <3>1. img[s] \in Row /\ img[s].id_workflow # None
      BY <1>1, <2>1, ImageIsRow, SentinelAssumption DEF Inv, Attached
    <3>2. i \in Indices /\ d \in Doc
      BY <3>1, AttachedHasIndex, DocType
    <3>3. docs' = [docs EXCEPT ![i][o] = d]
      <4>1. i # None
        BY <3>2, RecordAssumption
      <4> QED
        BY <1>7, <2>3, <4>1 DEF index_workflow_object, index
    <3>4. d.updated = pend[s].modified /\ SavedAlike(d, pend[s])
      BY <1>1, <2>1 DEF Inv, Transactional, FlushedIsNext, Flushed, prepare_record
    <3>5. d # None
      BY <3>2, CopyAssumption
    <3> HIDE DEF i, d
    <3>6. docs'[i][o] = d
      BY <1>1, <3>2, <3>3
    <3>7. FoundAs(o, pend[s])'
      BY <2>1, <3>2, <3>4, <3>5, <3>6 DEF FoundAs
    <3>8. Indexed(s, o)'
      BY <1>1, <2>1, <2>3 DEF Indexed
    <3>9. \A r \in Sessions : Indexed(r, o)' => r = s
      <4>1. \A r \in Sessions : r # s => ~Holds(r, o)
        BY <1>1, <2>1, <2>3 DEF Inv, Transactional, OneWriter, Holds
      <4> QED
        BY <1>1, <2>1, <4>1 DEF Indexed, Holds
    <3> QED
      BY <3>7, <3>8, <3>9
  <2> QED
    BY <2>2, <2>3
<1>8. ASSUME NEW s \in Sessions, Commit(s) PROVE Goal
  <2>1. /\ \A r \in Sessions : r # s => pc'[r] = pc[r] /\ pend'[r] = pend[r]
        /\ pc'[s] \in {"idle", "committed"}
        /\ pc[s] \in {"indexed", "removed"}
        /\ UNCHANGED <<docs, req>>
    BY <1>1, <1>8 DEF Commit, Finish, Goto
  <2>2. CASE req[s].obj # o
    <3>1. row'[o] = row[o]
      BY <1>1, <1>8, <2>2 DEF Commit
    <3>2. \A r \in Sessions : /\ Deleting(r, o) => Deleting(r, o)'
                              /\ Indexed(r, o) <=> Indexed(r, o)'
                              /\ Indexed(r, o) => pend'[r] = pend[r]
      BY <2>1, <2>2 DEF Deleting, Indexed
    <3> QED
      BY <1>1, <2>1, <3>1, <3>2, Undisturbed
  <2>3. CASE req[s].obj = o
    <3>1. pc[s] = "indexed" /\ row'[o] = pend[s]
      BY <1>1, <1>8, <2>3 DEF Commit
    <3>2. row[o] # None
      BY <1>1, <2>3, <3>1 DEF Inv, Transactional, FlushedIsNext, Flushed
    <3>3. \A r \in Sessions : ~Deleting(r, o)
      BY <2>1, <3>1 DEF Deleting
    <3>4. FoundAs(o, pend[s])
      BY <1>1, <2>3, <3>1, <3>2, <3>3 DEF LastIndexed, Indexed
    <3>5. FoundAs(o, row[o])'
      BY <2>1, <3>1, <3>4 DEF FoundAs
    <3>6. \A r \in Sessions : ~Indexed(r, o)'
      <4>1. \A r \in Sessions : r # s => ~Holds(r, o)
        BY <1>1, <2>3, <3>1 DEF Inv, Transactional, OneWriter, Holds
      <4> QED
        BY <2>1, <4>1 DEF Indexed, Holds
    <3> QED
      BY <3>5, <3>6
  <2> QED
    BY <2>2, <2>3
<1>9. CASE UNCHANGED vars
  BY <1>1, <1>2, <1>9 DEF vars
<1> QED
  BY <1>3, <1>4, <1>5, <1>6, <1>7, <1>8, <1>9, StepKinds DEF SearchableInv, Inv, Kind

(* Without faults the last committed save of an object can be found once   *)
(* nobody is busy with it, however saves, runs and failed deletes of any   *)
(* number of sessions overlap (api.py:55-78, receivers.py:32-44).          *)
THEOREM LatestIsSearchable ==
    ASSUME Configured
    PROVE  Spec => []LatestSaveIsSearchable
<1>1. Init => SearchableInv
  BY InitInv, InitAttached, InitLastIndexed DEF SearchableInv
<1>2. SearchableInv /\ [Next]_vars => SearchableInv'
  BY NextInv, NextAttached, NextLastIndexed DEF SearchableInv
<1>3. SearchableInv => LatestSaveIsSearchable
  <2> SUFFICES ASSUME SearchableInv, NEW o \in Objects, row[o] # None, Quiet(o)
               PROVE  FoundAs(o, row[o])
    BY DEF LatestSaveIsSearchable, FoundAs
  <2>1. \A s \in Sessions : ~Deleting(s, o) /\ ~Indexed(s, o)
    BY DEF Quiet, Busy, Deleting, Indexed
  <2> QED
    BY <2>1 DEF SearchableInv, LastIndexed
<1> QED
  BY <1>1, <1>2, <1>3, PTL DEF Spec

-----------------------------------------------------------------------------
(* Edits.                                                                  *)

(* An edit that has flushed leaves the object's workflow as the row has it.*)
EditedInPlace ==
    \A s \in Sessions : Flushed(s) /\ req[s].op = "edit" =>
        pend[s].id_workflow = row[req[s].obj].id_workflow

(* What a flush writes of the columns an operation takes over.             *)
LEMMA FlushWrites ==
    ASSUME Inv, NEW s \in Sessions, NEW new \in Row, Flush(s, new)
    PROVE  LET cur == row[req[s].obj]
           IN  /\ cur \in Row /\ img[s] \in Row /\ pend'[s] \in Row
               /\ pend'[s].callback_pos = new.callback_pos
               /\ new.id_workflow = img[s].id_workflow =>
                    pend'[s].id_workflow = cur.id_workflow
<1> DEFINE cur == row[req[s].obj]
           stamped == [new EXCEPT !.modified = clock + 1]
           written == UpdateStatement(cur, img[s], stamped)
<1>1. cur \in Row /\ img[s] \in Row /\ clock + 1 \in Nat
  BY ImageIsRow DEF Flush, Inv, TypeOK
<1>2. /\ stamped \in Row /\ stamped.callback_pos = new.callback_pos
      /\ stamped.id_workflow = new.id_workflow
  BY <1>1 DEF Row
<1>3. written \in Row
  BY <1>1, <1>2, UpdateStatementType
<1>4. pend'[s] = written
  BY DEF Flush, Inv, TypeOK
<1> HIDE DEF stamped
<1>5. /\ written.callback_pos = stamped.callback_pos
      /\ stamped.id_workflow = img[s].id_workflow =>
           written.id_workflow = cur.id_workflow
  BY <1>1, <1>2 DEF UpdateStatement, Row
<1> QED
  BY <1>1, <1>2, <1>3, <1>4, <1>5

(* A commit that ends operation op is that of the session's own flush.     *)
LEMMA CommitsFlush ==
    ASSUME Inv, [Next]_vars, NEW s \in Sessions, NEW op, Commits(s, op)
    PROVE  /\ Flushed(s) /\ req[s].op = op
           /\ row'[req[s].obj] = pend[s]
<1>1. /\ pc[s] = "indexed" /\ pc'[s] # "indexed" /\ req[s].obj \in Objects
      /\ row' # row /\ req[s].op = op
  BY ImageIsRow DEF Commits, Inv
<1>2. PICK r \in Sessions : Kind(r)
  BY <1>1, StepKinds DEF Inv, vars
<1>3. Commit(r)
  BY <1>1, <1>2
  DEF Kind, Starts, GivesUp, store, Flush, index_workflow_object, IndexFails,
      Unindex, DeleteRow, delay
<1>4. r = s
  BY <1>1, <1>3 DEF Commit, Finish, Goto, Inv, TypeOK
<1>5. row'[req[s].obj] = pend[s]
  BY <1>1, <1>3, <1>4 DEF Commit, Inv, TypeOK
<1> QED
  BY <1>1, <1>5 DEF Flushed

LEMMA NextEditedInPlace ==
    ASSUME BodiesLeaveRun, Inv, EditedInPlace, [Next]_vars
    PROVE  EditedInPlace'
<1>1. /\ row \in [Objects -> Row \cup {None}]
      /\ pc \in [Sessions -> {"idle", "loaded", "saved", "indexed", "committed",
                              "unindexed", "removed"}]
      /\ req \in [Sessions -> Request \cup {None}]
      /\ pend \in [Sessions -> Row \cup {None}]
  BY DEF Inv, TypeOK
<1>2. ASSUME NEW s \in Sessions, NEW new \in Row, Flush(s, new), Heeds(s, new)
      PROVE  EditedInPlace'
  <2>1. req[s].op = "edit" => pend'[s].id_workflow = row[req[s].obj].id_workflow
    BY <1>2, FlushWrites DEF Heeds
  <2>2. /\ UNCHANGED <<row, req>>
        /\ \A r \in Sessions : r # s => pc'[r] = pc[r] /\ pend'[r] = pend[r]
    BY <1>1, <1>2 DEF Flush
  <2> QED
    BY <2>1, <2>2 DEF EditedInPlace, Flushed
<1>3. ASSUME NEW s \in Sessions, Commit(s)
      PROVE  EditedInPlace'
  <2>1. /\ pc'[s] \in {"idle", "committed"} /\ Holds(s, req[s].obj)
        /\ req[s].obj \in Objects /\ UNCHANGED req
        /\ \A r \in Sessions : r # s => pc'[r] = pc[r] /\ pend'[r] = pend[r]
        /\ \A o \in Objects : o # req[s].obj => row'[o] = row[o]
    BY <1>1, <1>3, ImageIsRow DEF Commit, Finish, Goto, Holds, Inv
  <2>2. ASSUME NEW r \in Sessions, r # s, Flushed(r)
        PROVE  req[r].obj # req[s].obj /\ req[r].obj \in Objects
    <3>1. Holds(r, req[r].obj) /\ req[r].obj \in Objects
      BY <2>2, ImageIsRow DEF Flushed, Holds, Inv
    <3> QED
      BY <2>1, <2>2, <3>1 DEF Inv, Transactional, OneWriter
  <2> QED
    BY <2>1, <2>2 DEF EditedInPlace, Flushed
<1>4. ASSUME NEW s \in Sessions,
             \/ Starts(s) \/ GivesUp(s) \/ index_workflow_object(s)
             \/ IndexFails(s) \/ Unindex(s) \/ DeleteRow(s) \/ delay(s)
      PROVE  EditedInPlace'
  <2>1. /\ UNCHANGED row
        /\ \A r \in Sessions : Flushed(r)' =>
              Flushed(r) /\ req'[r] = req[r] /\ pend'[r] = pend[r]
    BY <1>1, <1>4
    DEF Starts, GivesUp, index_workflow_object, IndexFails, Unindex, DeleteRow,
        delay, Finish, Goto, store, Flushed
  <2> QED
    BY <2>1 DEF EditedInPlace
<1>5. CASE UNCHANGED vars
  BY <1>5 DEF vars, EditedInPlace, Flushed
<1> QED
  BY <1>2, <1>3, <1>4, <1>5, StepKinds DEF Inv, Kind

(* An edit whose body does not say otherwise leaves the object attached to *)
(* its workflow, whatever overlaps it and whatever fails (api.py:185-198). *)
THEOREM EditsLeaveWorkflow ==
    ASSUME BodiesLeaveRun
    PROVE  Spec => EditKeepsWorkflow
<1>1. Init => EditedInPlace
  BY DEF Init, EditedInPlace, Flushed
<1>2. Inv /\ EditedInPlace /\ [Next]_vars =>
        [\A s \in Sessions : Commits(s, "edit") =>
            row'[req[s].obj].id_workflow = row[req[s].obj].id_workflow]_vars
  BY CommitsFlush DEF EditedInPlace
<1>3. Inv /\ EditedInPlace /\ [Next]_vars => EditedInPlace'
  BY NextEditedInPlace
<1> QED
  BY <1>1, <1>2, <1>3, InitInv, NextInv, PTL DEF Spec, EditKeepsWorkflow

=============================================================================
