-------------------------- MODULE MCConditionalGet --------------------------
(* Values for model checking ConditionalGet. *)
EXTENDS ConditionalGet, TLC

CONSTANTS book, incoming, wf, m1, m2, approve

BookIndex == [t \in {book} |-> incoming]

(* No body, one with new metadata only, and one with all keys. *)
HaltedPart == [status |-> "HALTED", data_type |-> book,
               id_workflow |-> wf, callback_pos |-> 0]
PutBodies ==
    {EmptyBody, [EmptyBody EXCEPT !.metadata = m2],
     [workflow |-> HaltedPart, metadata |-> m1, extra_data |-> approve]}

(* Sessions are interchangeable: no constant names one. *)
SessionSymmetry == Permutations(Sessions)
=============================================================================
