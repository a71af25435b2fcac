---------------------------- MODULE MCHoldingPen ----------------------------
(* Values for model checking HoldingPen: one data type, and bodies that    *)
(* name one key each or all of them.                                       *)
EXTENDS HoldingPen, TLC

CONSTANTS book, incoming, wf, m1, m2, approve, forgotten

(* One data type, one index; the class of the workflow names the type.     *)
BookIndex == [t \in {book} |-> incoming]

(* Bodies: nothing; new metadata only; a "_workflow" without its keys; all *)
(* keys, with the object halted at the start of its workflow.              *)
HaltedPart == [status |-> "HALTED", data_type |-> book,
               id_workflow |-> wf, callback_pos |-> 0]
MetadataBody == [EmptyBody EXCEPT !.metadata = m2]
BrokenBody == [EmptyBody EXCEPT !.workflow = None]
FullBody == [workflow |-> HaltedPart, metadata |-> m1, extra_data |-> approve]

SomeBodies == {EmptyBody, MetadataBody, BrokenBody, FullBody}
=============================================================================
