---------------------------- MODULE MCBulkActions ----------------------------
(* Values for model checking BulkActions. *)
EXTENDS BulkActions, TLC

CONSTANTS book, incoming, wf, m1, approve, forgotten, o1, o2, w1, w2

BookIndex == [t \in {book} |-> incoming]

(* A data type without an index: no document is written. *)
NoIndex == [t \in {book} |-> None]

(* Both orders of two objects, and one object twice. *)
Orders == {<<o1, o2>>, <<o2, o1>>, <<o1, o1>>}

TwoOrders == {<<o1, o2>>, <<o2, o1>>}

Alike == Permutations(Workers) \cup Permutations(Objects)
=============================================================================
