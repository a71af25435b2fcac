------------------------------ MODULE MCListing ------------------------------
(* Values for model checking Listing. *)
EXTENDS Listing, TLC

CONSTANTS book, video, incoming, m1, approve, Sizes, Pages, SortKeys

BookIndex == [t \in {book, video} |-> incoming]

DocOf(status, type, stamp) ==
    [record  |-> [workflow   |-> [status |-> status, data_type |-> type,
                                  id_workflow |-> None, callback_pos |-> 0],
                  metadata   |-> m1,
                  extra_data |-> None],
     updated |-> stamp]

(* Pages and sizes in range, and at and beyond its ends. *)
SomePages == 0..2
SomeSizes == {-1, 1, 2, 3}

(* Two documents with the same stamp, one of each status and type. *)
ThreeDocs == {DocOf("HALTED", book, 1), DocOf("COMPLETED", video, 1),
              DocOf("HALTED", video, 2)}

(* The facets of the default configuration, and one as a post filter. *)
TwoFilters == [status |-> "_workflow.status", data_type |-> "_workflow.data_type"]

(* The default options, and two of an overlay. *)
Options ==
    [bestmatch  |-> <<[field |-> "_score", asc |-> TRUE]>>,
     mostrecent |-> <<[field |-> "_workflow.modified", asc |-> TRUE]>>,
     updated    |-> <<[field |-> "_updated", asc |-> TRUE]>>,
     oldest     |-> <<[field |-> "_score", asc |-> FALSE],
                      [field |-> "_updated", asc |-> TRUE]>>]

Defaults == [q \in BOOLEAN |->
    [key |-> IF q THEN "bestmatch" ELSE "updated", asc |-> FALSE]]

MCFilters == {[status |-> {}, data_type |-> {}],
              [status |-> {"HALTED"}, data_type |-> {}],
              [status |-> {}, data_type |-> {video}],
              [status |-> {"HALTED", "COMPLETED"}, data_type |-> {book}]}

MCRequests ==
    [page : Pages, size : Sizes, q : BOOLEAN,
     sort : [key : SortKeys, asc : BOOLEAN] \cup {None}, filters : MCFilters]
=============================================================================
