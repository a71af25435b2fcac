------------------------------- MODULE Listing -------------------------------
(***************************************************************************)
(* The list view (GET /workflows/) and the factories that turn the URL     *)
(* arguments into a search: query, filters, facets, sorting, the slice of  *)
(* a page and the links to the pages before and after it.  A client opens  *)
(* a list and follows its next links.                                      *)
(***************************************************************************)
EXTENDS WorkflowRecord, Integers, Sequences, FiniteSets, Functions

CONSTANTS
    IndexSize,      \* number of documents in the index
    IndexedDocs,    \* documents that may be in it
    Scores,         \* how well a document matches q; 0 does not match
    Filters,        \* "filters" and "post_filters": argument -> field
    PostFilters,    \* arguments of "post_filters"
    SortOptions,    \* WORKFLOWS_UI_REST_SORT_OPTIONS: key -> fields
    DefaultSort,    \* WORKFLOWS_UI_REST_DEFAULT_SORT: with a q, without
    MaxWindow,      \* max_result_window
    Requests        \* URL arguments that clients open a list with

(* A sort argument: a key, after "-" for the reverse order.                *)
SortArg == [key : STRING, asc : BOOLEAN]

(* A field to sort by, as configured or with the order of a request.       *)
SortField == [field : STRING, asc : BOOLEAN]

Args == [page    : Int,
         size    : Int,
         q       : BOOLEAN,
         sort    : SortArg \cup {None},
         filters : [DOMAIN Filters -> SUBSET (Status \cup DataTypes)]]

ASSUME ListingAssumption ==
    /\ IndexSize \in Nat
    /\ IndexedDocs \subseteq Doc
    /\ Scores \subseteq Nat
    /\ PostFilters \subseteq DOMAIN Filters
    /\ \A key \in DOMAIN SortOptions : SortOptions[key] \in Seq(SortField)
    /\ DefaultSort \in [BOOLEAN -> SortArg \cup {None}]
    /\ MaxWindow \in Nat
    /\ Requests \subseteq Args
    /\ None \notin SortArg /\ None \notin Args

VARIABLES
    index,      \* the documents, by their place in the index
    args,       \* arguments of the last request, or None
    opened,     \* arguments the list was opened with, or None
    answer,     \* how the last request was answered
    links,      \* the links of the last answer
    seen        \* seen[i]: how often the pages since then showed document i

listVars == <<index, args, opened, answer, links, seen>>

Places == 1..IndexSize

NoLinks == [prev |-> None, next |-> None]

ListingTypeOK ==
    /\ index \in [Places -> [doc : IndexedDocs, score : Scores]]
    /\ args \in Args \cup {None} /\ opened \in Requests \cup {None}
    /\ answer \in {"none", "page", "refused", "error"}
    /\ links.prev \in Args \cup {None} /\ links.next \in Args \cup {None}
    /\ seen \in [Places -> Nat]
    /\ opened = None <=> args = None
    /\ opened = None <=> answer = "none"
    /\ answer # "page" => links = NoLinks

NoneSeen == [i \in Places |-> 0]

ListingInit ==
    /\ index \in [Places -> [doc : IndexedDocs, score : Scores]]
    /\ args = None /\ opened = None /\ answer = "none"
    /\ links = NoLinks /\ seen = NoneSeen

-----------------------------------------------------------------------------
(* The search.                                                             *)

(* The value of a field: None when documents do not have it.               *)
FieldValue(i, field, a) ==
    LET d == index[i].doc
    IN  CASE field = "_workflow.status"    -> d.record.workflow.status
          [] field = "_workflow.data_type" -> d.record.workflow.data_type
          [] field = "_updated"            -> d.updated
          [] field = "_score"              -> IF a.q THEN index[i].score ELSE 1
          [] OTHER                         -> None

terms_filter(i, name, a) ==
    a.filters[name] = {} \/ FieldValue(i, Filters[name], a) \in a.filters[name]

(* Facets of what is listed.                                               *)
CountPostFiltered(a) ==
    {i \in Places : /\ a.q => index[i].score > 0
                    /\ \A name \in DOMAIN Filters : terms_filter(i, name, a)}

(* Facets are counted over what the query and the filters select...        *)
Counted(a) ==
    {i \in Places : /\ a.q => index[i].score > 0
                    /\ \A name \in DOMAIN Filters \ PostFilters :
                          terms_filter(i, name, a)}

(* ... and the post filters apply to the list alone.                       *)
Matched(a) ==
    {i \in Counted(a) : \A name \in PostFilters : terms_filter(i, name, a)}

FacetCount(a, name, v) ==
    Cardinality({i \in Counted(a) : FieldValue(i, Filters[name], a) = v})

(* Only the key of the sort argument is looked at.                         *)
EvalIgnoringMinus(f, asc) == f

(* A descending request reverses the order of every field.                 *)
eval_field(f, asc) == IF asc THEN f ELSE [f EXCEPT !.asc = ~@]

(* The fields to sort by and the sort argument of the links.  An option    *)
(* that is not configured sorts by nothing and is not in the links.        *)
default_sorter_factory(a) ==
    LET urlfield == IF a.sort # None THEN a.sort ELSE DefaultSort[a.q]
        known    == urlfield # None /\ urlfield.key \in DOMAIN SortOptions
        options  == SortOptions[urlfield.key]
    IN  [fields |-> IF known
                      THEN [k \in DOMAIN options |->
                              eval_field(options[k], urlfield.asc)]
                      ELSE <<>>,
         sort   |-> IF known THEN urlfield ELSE None]

(* x comes before y in this direction; missing values come last.           *)
Precedes(x, y, asc) ==
    /\ x # y /\ x # None
    /\ y = None \/ (IF asc THEN x < y ELSE y < x)

(* The search engine: by the fields in turn, by score if there are none,   *)
(* then by the place in the index.                                         *)
Before(i, j, a) ==
    LET sorted == default_sorter_factory(a).fields
        fields == IF sorted = <<>> THEN <<[field |-> "_score", asc |-> FALSE]>>
                                   ELSE sorted
        Value(p, k) == FieldValue(p, fields[k].field, a)
        Tied(k) == Value(i, k) = Value(j, k)
    IN  \/ \E k \in DOMAIN fields :
              /\ \A m \in 1..(k - 1) : Tied(m)
              /\ Precedes(Value(i, k), Value(j, k), fields[k].asc)
        \/ (\A k \in DOMAIN fields : Tied(k)) /\ i < j

Rank(i, a) == Cardinality({j \in Matched(a) : Before(j, i, a)})

-----------------------------------------------------------------------------
(* The view.                                                               *)

(* Pages are counted from zero.                                            *)
ShownFromZero(a) ==
    {i \in Matched(a) : Rank(i, a) \in (a.page * a.size)..((a.page + 1) * a.size - 1)}

(* searcher[(page-1)*size:page*size]                                       *)
Shown(a) ==
    {i \in Matched(a) : Rank(i, a) \in ((a.page - 1) * a.size)..(a.page * a.size - 1)}

TooMany(a) == a.page * a.size >= MaxWindow

(* A negative bound of the slice raises ValueError.                        *)
Negative(a) == (a.page - 1) * a.size < 0 \/ a.page * a.size < 0

(* The links lose the arguments of the filters.                            *)
LinksWithoutFilters(a) ==
    LET b == [a EXCEPT !.sort = default_sorter_factory(a).sort,
                       !.filters = [name \in DOMAIN Filters |-> {}]]
    IN  [prev |-> IF a.page > 1 THEN [b EXCEPT !.page = @ - 1] ELSE None,
         next |-> IF /\ a.size * a.page < Cardinality(Matched(a))
                     /\ a.size * a.page < MaxWindow
                    THEN [b EXCEPT !.page = @ + 1] ELSE None]

(* The links carry the arguments the factories took notice of.             *)
Links(a) ==
    LET b == [a EXCEPT !.sort = default_sorter_factory(a).sort]
    IN  [prev |-> IF a.page > 1 THEN [b EXCEPT !.page = @ - 1] ELSE None,
         next |-> IF /\ a.size * a.page < Cardinality(Matched(a))
                     /\ a.size * a.page < MaxWindow
                    THEN [b EXCEPT !.page = @ + 1] ELSE None]

Fails(a) == TooMany(a) \/ Negative(a)

(* Links are made before it is known whether the request can be answered.  *)
GetWithEarlyLinks(a) ==
    /\ args' = a
    /\ links' = Links(a)
    /\ answer' = IF TooMany(a) THEN "refused"
                 ELSE IF Negative(a) THEN "error" ELSE "page"
    /\ UNCHANGED index

get(a) ==
    /\ args' = a
    /\ \/ TooMany(a) /\ answer' = "refused" /\ links' = NoLinks
       \/ ~TooMany(a) /\ Negative(a) /\ answer' = "error" /\ links' = NoLinks
       \/ ~Fails(a) /\ answer' = "page" /\ links' = Links(a)
    /\ UNCHANGED index

Showing(a, i) == IF ~Fails(a) /\ i \in Shown(a) THEN 1 ELSE 0

Open(a) ==
    /\ opened = None
    /\ get(a)
    /\ opened' = a
    /\ seen' = [i \in Places |-> Showing(a, i)]

FollowNext ==
    /\ links.next # None
    /\ get(links.next)
    /\ seen' = [i \in Places |-> seen[i] + Showing(links.next, i)]
    /\ UNCHANGED opened

(* The client is done with the list and may open another one.              *)
Leave ==
    /\ opened # None
    /\ args' = None /\ opened' = None /\ answer' = "none"
    /\ links' = NoLinks /\ seen' = NoneSeen
    /\ UNCHANGED index

ListingNext == (\E a \in Requests : Open(a)) \/ FollowNext \/ Leave

ListingSpec == ListingInit /\ [][ListingNext]_listVars

-----------------------------------------------------------------------------
(* Properties.                                                             *)

(* Whoever opens the first page and follows the next links to the last     *)
(* page has seen every document the request selects once, and no other     *)
(* (slice, links and URL arguments of the list view, rest.py:238-263, with *)
(* the search factories, search.py:150-205).                               *)
WalkShowsAll ==
    answer = "page" /\ links.next = None /\ opened.page = 1 =>
        \A i \in Places : seen[i] = IF i \in Matched(opened) THEN 1 ELSE 0

(* The previous link of the next page leads back to a page that shows what *)
(* this one shows.                                                         *)
PrevUndoesNext ==
    answer = "page" /\ links.next # None =>
        LET back == Links(links.next).prev
        IN  args.page > 0 => back # None /\ Shown(back) = Shown(args)

(* A facet promises what choosing it shows: its count is the number of     *)
(* documents listed when its value is the filter, unless another filter    *)
(* applies after the facets (default_facets_factory, search.py:129-147).   *)
FacetKeepsPromise ==
    args # None =>
        \A name \in DOMAIN Filters :
            (\A other \in PostFilters \ {name} : args.filters[other] = {}) =>
            \A v \in Status \cup DataTypes :
                name \in PostFilters \/ args.filters[name] = {}
                  \/ v \in args.filters[name]
                => Cardinality(Matched([args EXCEPT !.filters[name] = {v}]))
                     = FacetCount(args, name, v)

(* "key" and "-key" list documents that differ in opposite order, unless   *)
(* they miss a field (parse_sort_field and eval_field, search.py:81-126).  *)
MinusReverses ==
    args # None =>
        LET a == [args EXCEPT !.sort = default_sorter_factory(args).sort]
            b == [a EXCEPT !.sort.asc = ~@]
            fields == {f.field : f \in Range(default_sorter_factory(a).fields)}
            Has(i) == \A f \in fields : FieldValue(i, f, a) # None
            Differ(i, j) ==
                \E f \in fields : FieldValue(i, f, a) # FieldValue(j, f, a)
        IN  a.sort # None =>
              \A i, j \in Places :
                  Has(i) /\ Has(j) /\ Differ(i, j) =>
                      Before(i, j, a) = Before(j, i, b)

=============================================================================
