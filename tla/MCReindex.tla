------------------------------ MODULE MCReindex ------------------------------
(* Values for model checking Reindex. *)
EXTENDS Reindex, TLC

CONSTANTS book, video, incoming, wf, m1, m2, approve

(* One data type has an index, the other has none. *)
BookIndexOnly == (book :> incoming @@ video :> None)

(* A body with metadata only. *)
MetadataBodies == {[EmptyBody EXCEPT !.metadata = m1]}

=============================================================================
