------------------------ MODULE ConditionalGet_proofs ------------------------
(***************************************************************************)
(* Theorems about ConditionalGet for any clients, sessions, requests,      *)
(* faults and length of a second: what a client keeps is never ahead of    *)
(* the database, and "not modified" is the truth within a second.          *)
(***************************************************************************)
EXTENDS ConditionalGet, HoldingPen_promises

-----------------------------------------------------------------------------
(* A copy comes from the row w or from an earlier one.                     *)
Behind(copy, w) ==
    w # None => /\ copy.stamp <= w.modified
                /\ copy.stamp = w.modified => Shows(copy, w)

(* So do the copies clients keep, whose tags lie between the two, ...      *)
KeptFollows ==
    \A c \in Clients : kept[c] # None =>
        /\ Behind(kept[c].copy, row[kept[c].obj])
        /\ row[kept[c].obj] # None =>
             /\ kept[c].copy.stamp <= kept[c].tag
             /\ kept[c].tag <= row[kept[c].obj].modified
        /\ kept[c].date = Second(kept[c].tag)

(* ... those of PUTs that have not answered, ...                           *)
OwedFollow == \A p \in owed : Behind(p.copy, row[p.obj])

(* ... and the objects that sessions have loaded.                          *)
LoadedFollows ==
    \A s \in Sessions : pc[s] = "loaded" =>
        Behind(ReadCopy(img[s]), row[req[s].obj])

ConditionalInv ==
    /\ Inv /\ ConditionalTypeOK
    /\ KeptFollows /\ OwedFollow /\ LoadedFollows

-----------------------------------------------------------------------------
(* A later stamp is not of an earlier second.                              *)
LEMMA SecondsGrow ==
    ASSUME NEW a \in Nat, NEW b \in Nat, a <= b
    PROVE  Second(a) \in Nat /\ Second(b) \in Nat /\ Second(a) <= Second(b)
BY ConditionalAssumption DEF Second

(* A row stays, goes, or is replaced by a newer one.                       *)
LEMMA RowMoves ==
    ASSUME Inv, [Next]_vars, NEW o \in Objects
    PROVE  \/ row'[o] = row[o]
           \/ row'[o] = None
           \/ row[o] \in Row /\ row'[o] \in Row /\ row[o].modified < row'[o].modified
<1>1. CASE UNCHANGED row
  BY <1>1
<1>2. ASSUME NEW s \in Sessions, Commit(s)
      PROVE  \/ row'[o] = row[o]
             \/ row'[o] = None
             \/ row[o] \in Row /\ row'[o] \in Row /\ row[o].modified < row'[o].modified
  <2>1. row \in [Objects -> Row \cup {None}] /\ req[s].obj \in Objects
    BY <1>2, ImageIsRow DEF Inv, TypeOK, Commit
  <2>2. pc[s] = "indexed" => /\ row[req[s].obj] # None /\ pend[s] \in Row
                             /\ row[req[s].obj].modified < pend[s].modified
    BY DEF Inv, TypeOK, Transactional, FlushedIsNext, Flushed
  <2> QED
    BY <1>2, <2>1, <2>2 DEF Commit
<1>3. UNCHANGED vars \/ \E s \in Sessions : Kind(s)
  BY StepKinds DEF Inv
<1> QED
  BY <1>1, <1>2, <1>3
  DEF vars, Kind, Starts, GivesUp, store, Flush, index_workflow_object,
      IndexFails, Unindex, DeleteRow, delay

(* So what is behind a row stays behind it.                                *)
LEMMA StaysBehind ==
    ASSUME Inv, [Next]_vars, NEW o \in Objects, NEW copy,
           copy.stamp \in Nat, Behind(copy, row[o])
    PROVE  Behind(copy, row'[o])
<1>1. row[o] \in Row => row[o] # None /\ row[o].modified \in Nat
  BY SentinelAssumption DEF Row
<1>2. row'[o] \in Row => row'[o].modified \in Nat
  BY DEF Row
<1> QED
  BY <1>1, <1>2, RowMoves DEF Behind

(* What a copy of a row or of an image is.                                 *)
LEMMA CopyType ==
    ASSUME NEW w \in Row
    PROVE  /\ ReadCopy(w) \in PenCopy /\ ReadCopy(w).stamp = w.modified
           /\ PutCopy(w) \in PenCopy /\ PutCopy(w).stamp = w.modified
           /\ w.modified \in Nat
           /\ Shows(ReadCopy(w), w)
<1>1. record_from_object(w) \in Record
  BY RecordType
<1>2. ReadCopy(w) \in PenCopy /\ ReadCopy(w).stamp = w.modified /\ w.modified \in Nat
  BY <1>1 DEF ReadCopy, PenCopy, Row
<1>3. PutCopy(w) \in PenCopy /\ PutCopy(w).stamp = w.modified
  BY DEF PutCopy, PenCopy, Row, Record, WorkflowPart
<1>4. Shows(ReadCopy(w), w)
  BY DEF Shows, ReadCopy, SavedAlike, record_from_object
<1> QED
  BY <1>2, <1>3, <1>4

(* What a PUT commits is what it answers, of what every save writes.       *)
LEMMA CommitsImage ==
    ASSUME Inv, [Next]_vars, NEW s \in Sessions, Commits(s, "put")
    PROVE  /\ row'[req[s].obj] \in Row
           /\ img[s] \in Row
           /\ img[s].modified = row'[req[s].obj].modified
           /\ Shows(PutCopy(img[s]), row'[req[s].obj])
<1>1. UNCHANGED vars \/ \E r \in Sessions : Kind(r)
  BY StepKinds DEF Inv
<1>2. PICK r \in Sessions : Commit(r)
  BY <1>1
  DEF Commits, vars, Kind, Starts, GivesUp, store, Flush, index_workflow_object,
      IndexFails, Unindex, DeleteRow, delay
<1>3. r = s
  <2>1. r # s => pc'[s] = pc[s]
    BY <1>2 DEF Commit, Goto, Finish, Inv, TypeOK
  <2> QED
    BY <2>1 DEF Commits
<1>4. /\ pend[s] \in Row /\ img[s] \in Row /\ req[s].obj \in Objects
      /\ pend[s].modified = img[s].modified
      /\ SavedAlike(prepare_record(img[s]), pend[s])
  BY ImageIsRow DEF Commits, Inv, TypeOK, Transactional, FlushedIsNext, Flushed
<1>5. row'[req[s].obj] = pend[s]
  BY <1>2, <1>3, <1>4 DEF Commits, Commit, Inv, TypeOK
<1>6. Shows(PutCopy(img[s]), pend[s])
  BY <1>4 DEF Shows, PutCopy, SavedAlike, prepare_record, record_from_object
<1> QED
  BY <1>4, <1>5, <1>6

-----------------------------------------------------------------------------
LEMMA InitConditional == ConditionalInit => ConditionalInv
<1> SUFFICES ASSUME ConditionalInit PROVE ConditionalInv
  OBVIOUS
<1>1. Inv
  BY InitInv DEF ConditionalInit
<1> QED
  BY <1>1 DEF ConditionalInit, ConditionalInv, ConditionalTypeOK, KeptFollows,
              OwedFollow, LoadedFollows, Init

(* What sessions load is the committed row, and what they keep loaded      *)
(* stays behind it.                                                        *)
LEMMA NextLoadedFollows ==
    ASSUME Inv, LoadedFollows, [Next]_vars
    PROVE  LoadedFollows'
<1> SUFFICES ASSUME NEW s \in Sessions, pc'[s] = "loaded"
             PROVE  Behind(ReadCopy(img'[s]), row'[req'[s].obj])
  BY DEF LoadedFollows
<1>1. ASSUME pc[s] = "loaded", img'[s] = img[s], req'[s] = req[s]
      PROVE  Behind(ReadCopy(img'[s]), row'[req'[s].obj])
  <2>1. img[s] \in Row /\ req[s].obj \in Objects
    BY <1>1, ImageIsRow DEF Inv
  <2>2. ReadCopy(img[s]).stamp \in Nat
    BY <2>1, CopyType
  <2> QED
    BY <1>1, <2>1, <2>2, StaysBehind DEF LoadedFollows
<1>2. CASE Starts(s)
  <2>1. PICK r \in Request : /\ row[r.obj] # None
                             /\ req' = [req EXCEPT ![s] = r]
                             /\ img' = [img EXCEPT ![s] = row[r.obj]]
                             /\ row' = row
    BY <1>2 DEF Starts
  <2>2. r.obj \in Objects /\ img'[s] = row[r.obj] /\ req'[s] = r
    BY <2>1 DEF Inv, TypeOK, Request
  <2>3. row[r.obj] \in Row
    BY <2>1, <2>2 DEF Inv, TypeOK
  <2>4. /\ ReadCopy(row[r.obj]).stamp = row[r.obj].modified
        /\ row[r.obj].modified \in Nat /\ Shows(ReadCopy(row[r.obj]), row[r.obj])
    BY <2>3, CopyType
  <2> QED
    BY <2>1, <2>2, <2>4 DEF Behind
<1>3. /\ pc \in [Sessions -> {"idle", "loaded", "saved", "indexed", "committed",
                              "unindexed", "removed"}]
      /\ DOMAIN img = Sessions /\ DOMAIN req = Sessions
  BY DEF Inv, TypeOK
<1>4. ASSUME \/ GivesUp(s) \/ (\E new \in Row : Flush(s, new))
             \/ index_workflow_object(s) \/ IndexFails(s) \/ Unindex(s)
             \/ DeleteRow(s) \/ Commit(s) \/ delay(s)
      PROVE  FALSE
  <2>1. pc'[s] \in {"idle", "saved", "indexed", "unindexed", "removed", "committed"}
    BY <1>3, <1>4 DEF GivesUp, Flush, index_workflow_object, IndexFails, Unindex,
                      DeleteRow, Commit, delay, Finish, Goto
  <2> QED
    BY <2>1
<1>5. ASSUME NEW r \in Sessions, r # s, Kind(r)
      PROVE  pc'[s] = pc[s] /\ img'[s] = img[s] /\ req'[s] = req[s]
  <2>1. CASE Starts(r)
    BY <1>3, <1>5, <2>1 DEF Starts
  <2>2. CASE \/ GivesUp(r) \/ (\E new \in Row : Flush(r, new))
             \/ index_workflow_object(r) \/ IndexFails(r) \/ Unindex(r)
             \/ DeleteRow(r) \/ Commit(r) \/ delay(r)
    BY <1>3, <1>5, <2>2
    DEF GivesUp, Flush, index_workflow_object, IndexFails, Unindex, DeleteRow,
        Commit, delay, Finish, Goto
  <2> QED
    BY <1>5, <2>1, <2>2 DEF Kind
<1> QED
  BY <1>1, <1>2, <1>4, <1>5, StepKinds DEF Inv, Kind, vars

(* A step of HoldingPen.                                                   *)
LEMMA PenKeeps ==
    ASSUME ConditionalInv, PenStep
    PROVE  ConditionalInv'
<1>1. [Next]_vars /\ Inv
  BY DEF PenStep, ConditionalInv
<1>2. Inv' /\ LoadedFollows'
  BY <1>1, NextInv, NextLoadedFollows DEF ConditionalInv
<1> DEFINE Stored == {s \in Sessions : Commits(s, "put")}
           Unchanged == {s \in Sessions : PutsNothing(s)}
           OwesPut(s) == [obj |-> req[s].obj, copy |-> PutCopy(img[s]),
                          expired |-> TRUE]
           OwesRead(s) == [obj |-> req[s].obj, copy |-> ReadCopy(img[s]),
                           expired |-> FALSE]
           Owed == [obj : Objects, copy : PenCopy, expired : BOOLEAN]
<1>3. /\ owed' = owed \cup {OwesPut(s) : s \in Stored}
                       \cup {OwesRead(s) : s \in Unchanged}
      /\ UNCHANGED <<kept, answered>>
  BY DEF PenStep
<1>4. ASSUME NEW s \in Stored
      PROVE  OwesPut(s) \in Owed /\ Behind(OwesPut(s).copy, row'[OwesPut(s).obj])
  <2>1. req[s].obj \in Objects
    BY <1>1, ImageIsRow DEF Commits, Inv
  <2>2. /\ img[s] \in Row /\ row'[req[s].obj] \in Row
        /\ img[s].modified = row'[req[s].obj].modified
        /\ Shows(PutCopy(img[s]), row'[req[s].obj])
    BY <1>1, CommitsImage
  <2>3. PutCopy(img[s]) \in PenCopy /\ PutCopy(img[s]).stamp = img[s].modified
        /\ img[s].modified \in Nat
    BY <2>2, CopyType
  <2> QED
    BY <2>1, <2>2, <2>3 DEF Behind
<1>9. ASSUME NEW s \in Unchanged
      PROVE  OwesRead(s) \in Owed /\ Behind(OwesRead(s).copy, row'[OwesRead(s).obj])
  <2>1. img[s] \in Row /\ req[s].obj \in Objects
    BY <1>1, ImageIsRow DEF PutsNothing, Handles, Inv
  <2>2. ReadCopy(img[s]) \in PenCopy /\ ReadCopy(img[s]).stamp \in Nat
    BY <2>1, CopyType
  <2>3. Behind(ReadCopy(img[s]), row[req[s].obj])
    BY DEF PutsNothing, Handles, ConditionalInv, LoadedFollows
  <2> QED
    BY <1>1, <2>1, <2>2, <2>3, StaysBehind
<1> HIDE DEF Stored, Unchanged, OwesPut, OwesRead
<1>5. ConditionalTypeOK'
  BY <1>3, <1>4, <1>9 DEF ConditionalInv, ConditionalTypeOK
<1>6. OwedFollow'
  <2> SUFFICES ASSUME NEW p \in owed' PROVE Behind(p.copy, row'[p.obj])
    BY DEF OwedFollow
  <2>1. CASE p \in owed
    <3>1. p.obj \in Objects /\ p.copy.stamp \in Nat /\ Behind(p.copy, row[p.obj])
      BY <2>1 DEF ConditionalInv, ConditionalTypeOK, PenCopy, OwedFollow
    <3> QED
      BY <1>1, <3>1, StaysBehind
  <2> QED
    BY <1>3, <1>4, <1>9, <2>1
<1>7. KeptFollows'
  <2> SUFFICES ASSUME NEW c \in Clients, kept[c] # None
               PROVE  /\ Behind(kept[c].copy, row'[kept[c].obj])
                      /\ row'[kept[c].obj] # None =>
                           /\ kept[c].copy.stamp <= kept[c].tag
                           /\ kept[c].tag <= row'[kept[c].obj].modified
                      /\ kept[c].date = Second(kept[c].tag)
    BY <1>3 DEF KeptFollows
  <2> DEFINE o == kept[c].obj
  <2>1. o \in Objects /\ kept[c].tag \in Nat /\ kept[c].copy.stamp \in Nat
    BY DEF ConditionalInv, ConditionalTypeOK, PenCopy
  <2>2. /\ Behind(kept[c].copy, row[o])
        /\ row[o] # None => /\ kept[c].copy.stamp <= kept[c].tag
                            /\ kept[c].tag <= row[o].modified
        /\ kept[c].date = Second(kept[c].tag)
    BY DEF ConditionalInv, KeptFollows
  <2>3. Behind(kept[c].copy, row'[o])
    BY <1>1, <2>1, <2>2, StaysBehind
  <2>4. ASSUME row'[o] # None
        PROVE  row[o] # None /\ row[o].modified <= row'[o].modified
               /\ row[o].modified \in Nat /\ row'[o].modified \in Nat
    <3>1. row[o] \in Row \cup {None} /\ row'[o] \in Row \cup {None}
      BY <1>2, <2>1 DEF Inv, TypeOK, ConditionalInv
    <3>2. row[o] # None
      BY <1>1, <2>1, <2>4, RowMoves, SentinelAssumption
    <3>3. row[o].modified \in Nat /\ row'[o].modified \in Nat
      BY <2>4, <3>1, <3>2 DEF Row
    <3> QED
      BY <1>1, <2>1, <2>4, <3>2, <3>3, RowMoves
  <2> QED
    BY <2>1, <2>2, <2>3, <2>4
<1> QED
  BY <1>2, <1>5, <1>6, <1>7 DEF ConditionalInv

(* A client is answered a copy that is behind the row, with a tag between. *)
LEMMA AnswerKeeps ==
    ASSUME ConditionalInv, NEW c \in Clients, NEW o \in Objects,
           NEW copy \in PenCopy, NEW stamp \in Nat,
           Behind(copy, row[o]),
           row[o] # None => copy.stamp <= stamp /\ stamp <= row[o].modified,
           kept' = [kept EXCEPT ![c] = Answer(o, copy, stamp)],
           Answers(c, 200), owed' \subseteq owed, UNCHANGED vars
    PROVE  ConditionalInv'
<1> DEFINE a == Answer(o, copy, stamp)
<1>1. /\ a.obj = o /\ a.copy = copy /\ a.tag = stamp /\ a.date = Second(stamp)
      /\ a \in [obj : Objects, copy : PenCopy, tag : Nat, date : Nat]
  BY SecondsGrow DEF Answer
<1> HIDE DEF a
<1>2. kept' = [kept EXCEPT ![c] = a]
  BY DEF a
<1>3. Inv' /\ LoadedFollows'
  <2>1. Inv'
    BY NextInv DEF ConditionalInv
  <2> QED
    BY <2>1, NextLoadedFollows DEF ConditionalInv
<1>4. ConditionalTypeOK'
  BY <1>1, <1>2 DEF ConditionalInv, ConditionalTypeOK, Answers
<1>5. row' = row
  BY DEF vars
<1>6. OwedFollow'
  BY <1>5 DEF ConditionalInv, OwedFollow
<1>7. KeptFollows'
  BY <1>1, <1>2, <1>5 DEF ConditionalInv, ConditionalTypeOK, KeptFollows
<1> QED
  BY <1>3, <1>4, <1>6, <1>7 DEF ConditionalInv

(* A client is answered nothing it keeps.                                  *)
LEMMA NothingKept ==
    ASSUME ConditionalInv, NEW c \in Clients, NEW code \in {304, 404, 500},
           Answers(c, code), owed' \subseteq owed, UNCHANGED <<vars, kept>>
    PROVE  ConditionalInv'
<1>1. Inv' /\ LoadedFollows'
  <2>1. Inv'
    BY NextInv DEF ConditionalInv
  <2> QED
    BY <2>1, NextLoadedFollows DEF ConditionalInv
<1>2. ConditionalTypeOK'
  BY DEF ConditionalInv, ConditionalTypeOK, Answers
<1>3. row' = row
  BY DEF vars
<1> QED
  BY <1>1, <1>2, <1>3 DEF ConditionalInv, OwedFollow, KeptFollows

LEMMA NextConditional ==
    ConditionalInv /\ [ConditionalNext]_conditionalVars => ConditionalInv'
<1> SUFFICES ASSUME ConditionalInv, [ConditionalNext]_conditionalVars
             PROVE  ConditionalInv'
  OBVIOUS
<1>1. CASE UNCHANGED conditionalVars
  <2>1. Inv'
    BY <1>1, NextInv DEF ConditionalInv, conditionalVars
  <2>2. LoadedFollows'
    BY <1>1, NextLoadedFollows DEF ConditionalInv, conditionalVars
  <2> QED
    BY <1>1, <2>1, <2>2 DEF ConditionalInv, conditionalVars, vars,
                            ConditionalTypeOK, OwedFollow, KeptFollows
<1>2. ASSUME NEW c \in Clients, NEW o \in Objects,
             NEW headers \in SUBSET {"tag", "date"}, Get(c, o, headers)
      PROVE  ConditionalInv'
  <2>1. ASSUME row[o] # None, Answers(c, 200),
               kept' = [kept EXCEPT ![c] =
                          Answer(o, ReadCopy(row[o]), row[o].modified)]
        PROVE  ConditionalInv'
    <3>1. row[o] \in Row /\ row[o].modified \in Nat
      BY <2>1 DEF ConditionalInv, Inv, TypeOK, Row
    <3>2. /\ ReadCopy(row[o]) \in PenCopy
          /\ ReadCopy(row[o]).stamp = row[o].modified
          /\ Shows(ReadCopy(row[o]), row[o])
      BY <3>1, CopyType
    <3>3. Behind(ReadCopy(row[o]), row[o])
      BY <3>1, <3>2 DEF Behind
    <3>4. owed' \subseteq owed /\ UNCHANGED vars
      BY <1>2 DEF Get
    <3>5. ReadCopy(row[o]).stamp <= row[o].modified
          /\ row[o].modified <= row[o].modified
      BY <3>1, <3>2
    <3> QED
      BY <2>1, <3>1, <3>2, <3>3, <3>4, <3>5, AnswerKeeps
  <2> QED
    BY <1>2, <2>1, NothingKept DEF Get
<1>3. ASSUME NEW c \in Clients, NEW p \in owed, AnswerPut(c, p)
      PROVE  ConditionalInv'
  <2> DEFINE stamp == IF p.expired THEN row[p.obj].modified ELSE p.copy.stamp
  <2>1. p.obj \in Objects /\ p.copy \in PenCopy /\ p.copy.stamp \in Nat
    BY DEF ConditionalInv, ConditionalTypeOK, PenCopy
  <2>2. Behind(p.copy, row[p.obj])
    BY DEF ConditionalInv, OwedFollow
  <2>3. row[p.obj] # None => row[p.obj].modified \in Nat
    BY <2>1 DEF ConditionalInv, Inv, TypeOK, Row
  <2>4. ASSUME p.expired => row[p.obj] # None, Answers(c, 200),
               kept' = [kept EXCEPT ![c] = Answer(p.obj, p.copy, stamp)]
        PROVE  ConditionalInv'
    <3>1. stamp \in Nat
      BY <2>1, <2>3, <2>4
    <3>2. row[p.obj] # None => p.copy.stamp <= stamp /\ stamp <= row[p.obj].modified
      BY <2>1, <2>2, <2>3 DEF Behind
    <3> HIDE DEF stamp
    <3> QED
      BY <1>3, <2>1, <2>2, <2>4, <3>1, <3>2, AnswerKeeps DEF AnswerPut
  <2> QED
    BY <1>3, <2>4, NothingKept DEF AnswerPut
<1> QED
  BY <1>1, <1>2, <1>3, PenKeeps DEF ConditionalNext

-----------------------------------------------------------------------------
(* What clients keep and are owed is well formed (views/rest.py:296-327).  *)
THEOREM ConditionalTypeCorrect == ConditionalSpec => []ConditionalTypeOK
<1>1. ConditionalInv => ConditionalTypeOK
  BY DEF ConditionalInv
<1> QED
  BY <1>1, InitConditional, NextConditional, PTL DEF ConditionalSpec

(* No client is ahead of the database, and a row of the client's own tag   *)
(* is what the client keeps: the whole record after a GET, what every save *)
(* writes after a PUT (views/rest.py:296-327, response.py:44-53).          *)
THEOREM TagsIdentify == ConditionalSpec => []TagIdentifiesAnswer
<1>1. ConditionalInv => TagIdentifiesAnswer
  BY DEF ConditionalInv, KeptFollows, TagIdentifiesAnswer, OwnTag, Behind
<1> QED
  BY <1>1, InitConditional, NextConditional, PTL DEF ConditionalSpec

(* "Not modified" is the truth about the whole record of a GET and about   *)
(* what every save writes of a PUT, but for saves of one second when the   *)
(* client asked by date and PUTs that did not get their own tag            *)
(* (views/rest.py:304-308).                                                *)
THEOREM NotModifiedIsTrue == ConditionalSpec => NotModifiedIsCurrent
<1>1. ASSUME ConditionalInv, NEW c \in Clients, NEW o \in Objects,
             NEW headers \in SUBSET {"tag", "date"},
             Get(c, o, headers), answered'[c] = 304, OwnTag(kept[c])
      PROVE  \/ /\ kept[c].copy.stamp = row[o].modified
                /\ Shows(kept[c].copy, row[o])
             \/ "date" \in headers /\ kept[c].date = Second(row[o].modified)
  <2>1. row[o] # None /\ NotModified(kept[c], headers, row[o])
    BY <1>1 DEF Get, Answers, ConditionalInv, ConditionalTypeOK
  <2>2. kept[c] # None /\ kept[c].obj = o
    BY <1>1, <2>1 DEF Get, NotModified
  <2>3. /\ Behind(kept[c].copy, row[o])
        /\ kept[c].tag <= row[o].modified
        /\ kept[c].date = Second(kept[c].tag)
    BY <1>1, <2>1, <2>2 DEF ConditionalInv, KeptFollows
  <2>4. kept[c].tag \in Nat /\ row[o].modified \in Nat
    BY <1>1, <2>1, <2>2 DEF ConditionalInv, ConditionalTypeOK, Inv, TypeOK, Row
  <2>5. Second(kept[c].tag) \in Nat /\ Second(row[o].modified) \in Nat
        /\ Second(kept[c].tag) <= Second(row[o].modified)
    BY <2>3, <2>4, SecondsGrow
  <2>6. CASE "tag" \in headers /\ kept[c].tag = row[o].modified
    BY <1>1, <2>1, <2>3, <2>6 DEF OwnTag, Behind
  <2>7. CASE "date" \in headers /\ Second(row[o].modified) <= kept[c].date
    BY <2>3, <2>5, <2>7
  <2> QED
    BY <2>1, <2>6, <2>7 DEF NotModified
<1>2. ConditionalInv /\ [ConditionalNext]_conditionalVars =>
        [\A c \in Clients, o \in Objects, headers \in SUBSET {"tag", "date"} :
          /\ Get(c, o, headers) /\ answered'[c] = 304 /\ OwnTag(kept[c])
          => \/ kept[c].copy.stamp = row[o].modified /\ Shows(kept[c].copy, row[o])
             \/ /\ "date" \in headers
                /\ kept[c].date = Second(row[o].modified)]_conditionalVars
  BY <1>1
<1> QED
  BY <1>2, InitConditional, NextConditional, PTL
  DEF ConditionalSpec, NotModifiedIsCurrent
=============================================================================
