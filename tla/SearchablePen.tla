---------------------------- MODULE SearchablePen ----------------------------
(***************************************************************************)
(* What the holding pen promises a reader who knows nothing of sessions,   *)
(* locks and transactions: objects that are saved in the database and      *)
(* found in the search indices.  A copy is a content and the stamp of the  *)
(* save it comes from.  A save is found before it is stored, and may never *)
(* be stored at all; but stamps only grow, and one stamp is one content.   *)
(***************************************************************************)
EXTENDS Naturals

CONSTANTS Objects, Indices, Contents, None

VARIABLES
    saved,      \* saved[o]: the copy in the database, or None
    found       \* found[i][o]: the copy in index i, or None

penVars == <<saved, found>>

Copy == [content : Contents, stamp : Nat]

Init ==
    /\ saved \in [Objects -> [content : Contents, stamp : {0}]]
    /\ found \in [Indices -> [Objects -> [content : Contents, stamp : {0}]
                                              \cup {None}]]
    /\ \A i \in Indices, o \in Objects : found[i][o] \in {saved[o], None}

(* A save of o, newer than what is stored and than what i has, can be      *)
(* found in i before it is stored.                                         *)
Publish(i, o) ==
    LET copy == found'[i][o]
    IN  /\ saved[o] # None /\ copy \in Copy
        /\ saved[o].stamp < copy.stamp
        /\ found[i][o] # None => found[i][o].stamp <= copy.stamp
        /\ found' = [found EXCEPT ![i][o] = copy]
        /\ UNCHANGED saved

(* A newer save of o is stored; no index is ahead of it, and one that has  *)
(* its stamp has its content.                                              *)
Store(o) ==
    LET copy == saved'[o]
    IN  /\ saved[o] # None /\ copy \in Copy
        /\ saved[o].stamp < copy.stamp
        /\ \A i \in Indices : found[i][o] # None =>
              /\ found[i][o].stamp <= copy.stamp
              /\ found[i][o].stamp = copy.stamp => found[i][o] = copy
        /\ saved' = [saved EXCEPT ![o] = copy]
        /\ UNCHANGED found

(* o is taken out of i, which happens before o is deleted.                 *)
Withdraw(i, o) ==
    /\ found' = [found EXCEPT ![i][o] = None]
    /\ UNCHANGED saved

(* o is deleted, for good: nothing publishes or stores it again.           *)
Delete(o) ==
    /\ saved' = [saved EXCEPT ![o] = None]
    /\ UNCHANGED found

Next ==
    \E o \in Objects :
        \/ \E i \in Indices : Publish(i, o) \/ Withdraw(i, o)
        \/ Store(o)
        \/ Delete(o)

Spec == Init /\ [][Next]_penVars
=============================================================================
