--------------------------- MODULE Listing_proofs ---------------------------
(***************************************************************************)
(* Proofs about the list view: what a client that follows the next links   *)
(* sees, that the previous link leads back, that facets count what         *)
(* choosing them shows, and that a "-" reverses the order.  They hold for  *)
(* every index, every request, every configuration of filters, facets and  *)
(* sort options and every result window.                                   *)
(***************************************************************************)
EXTENDS Listing, FiniteSetTheorems, TLAPS

(* The sort argument, where there is one, names a configured option.  The  *)
(* links of a list sorted by an unknown option lose it, and with it the    *)
(* order of the list (search.py:196-199).                                  *)
Configured(a) == a.sort # None => a.sort.key \in DOMAIN SortOptions

(* b asks for a page of the list that a asks for a page of.                *)
SameList(a, b) ==
    /\ b.size = a.size /\ b.q = a.q /\ b.filters = a.filters
    /\ default_sorter_factory(b) = default_sorter_factory(a)

-----------------------------------------------------------------------------
(* The factories and the order of documents.                               *)

(* The sort argument of the links is None or a configured one (search.py:  *)
(* 183-205).                                                               *)
LEMMA SorterType ==
    ASSUME NEW a \in Args
    PROVE  /\ default_sorter_factory(a).sort \in SortArg \cup {None}
           /\ default_sorter_factory(a).sort # None =>
                default_sorter_factory(a).sort.key \in DOMAIN SortOptions
BY ListingAssumption DEF default_sorter_factory, Args

(* The arguments of a link ask for the same list as the request it answers.*)
LEMMA LinkAsksForSameList ==
    ASSUME NEW a \in Args, Configured(a), NEW p \in Int
    PROVE  LET b == [a EXCEPT !.sort = default_sorter_factory(a).sort,
                              !.page = p]
           IN  /\ b \in Args
               /\ b.page = p
               /\ Configured(b)
               /\ SameList(a, b)
<1> DEFINE s == default_sorter_factory(a).sort
           b == [a EXCEPT !.sort = s, !.page = p]
<1>1. s \in SortArg \cup {None} /\ (s # None => s.key \in DOMAIN SortOptions)
  BY SorterType
<1> HIDE DEF s
<1>2. /\ b \in Args
      /\ b.page = p /\ b.size = a.size /\ b.q = a.q /\ b.filters = a.filters
      /\ b.sort = s
  BY <1>1 DEF Args
<1> HIDE DEF b
<1>3. Configured(b)
  BY <1>1, <1>2 DEF Configured
<1>4. s = IF a.sort # None THEN a.sort
          ELSE IF DefaultSort[a.q] # None /\ DefaultSort[a.q].key \in DOMAIN SortOptions
                 THEN DefaultSort[a.q] ELSE None
  BY DEF s, default_sorter_factory, Configured
<1>5. default_sorter_factory(b) = default_sorter_factory(a)
  BY <1>2, <1>4 DEF default_sorter_factory, Configured
<1>6. QED
  BY <1>2, <1>3, <1>5 DEF b, s, SameList

(* Requests for the same list select the same documents in the same order. *)
LEMMA SameDocuments ==
    ASSUME NEW a, NEW b, SameList(a, b)
    PROVE  /\ Matched(b) = Matched(a)
           /\ \A i \in Places : Rank(i, b) = Rank(i, a)
<1>1. \A i, f : FieldValue(i, f, b) = FieldValue(i, f, a)
  BY DEF SameList, FieldValue
<1>2. Matched(b) = Matched(a)
  BY <1>1 DEF SameList, Matched, Counted, terms_filter
<1>3. \A i, j \in Places : Before(j, i, b) <=> Before(j, i, a)
  BY <1>1 DEF SameList, Before
<1>4. Matched(a) \subseteq Places
  BY DEF Matched, Counted
<1>5. \A i \in Places : Rank(i, b) = Rank(i, a)
  <2> TAKE i \in Places
  <2>1. {j \in Matched(b) : Before(j, i, b)} = {j \in Matched(a) : Before(j, i, a)}
    BY <1>2, <1>3, <1>4
  <2>2. QED
    BY <2>1 DEF Rank
<1>6. QED
  BY <1>2, <1>5

(* No document comes before itself.                                        *)
LEMMA BeforeIsIrreflexive ==
    ASSUME NEW i \in Places, NEW a
    PROVE  ~ Before(i, i, a)
<1>1. i \in Int
  BY ListingAssumption DEF Places
<1>2. QED
  BY <1>1 DEF Before, Precedes

(* The rank of a selected document is its place among them.                *)
LEMMA RankInList ==
    ASSUME NEW a
    PROVE  /\ Matched(a) \subseteq Places
           /\ Cardinality(Matched(a)) \in Nat
           /\ \A i \in Matched(a) : /\ Rank(i, a) \in Nat
                                    /\ Rank(i, a) < Cardinality(Matched(a))
<1>1. Matched(a) \subseteq Places
  BY DEF Matched, Counted
<1>2. IsFiniteSet(Matched(a)) /\ Cardinality(Matched(a)) \in Nat
  <2>1. IsFiniteSet(Places)
    <3>1. IndexSize \in Int /\ 1 \in Int
      BY ListingAssumption
    <3>2. QED
      BY <3>1, FS_Interval DEF Places
  <2>2. IsFiniteSet(Matched(a))
    BY <1>1, <2>1, FS_Subset
  <2>3. QED
    BY <2>2, FS_CardinalityType
<1>3. ASSUME NEW i \in Matched(a)
      PROVE  Rank(i, a) \in Nat /\ Rank(i, a) < Cardinality(Matched(a))
  <2> DEFINE Earlier == {j \in Matched(a) : Before(j, i, a)}
  <2>1. Earlier \subseteq Matched(a) /\ i \notin Earlier
    BY <1>1, <1>3, BeforeIsIrreflexive
  <2>2. Rank(i, a) = Cardinality(Earlier)
    BY DEF Rank
  <2> HIDE DEF Earlier
  <2>3. IsFiniteSet(Earlier) /\ Cardinality(Earlier) \in Nat
    BY <2>1, <1>2, FS_Subset, FS_CardinalityType
  <2>4. Cardinality(Earlier) <= Cardinality(Matched(a))
        /\ (Cardinality(Earlier) = Cardinality(Matched(a)) => Earlier = Matched(a))
    BY <2>1, <1>2, FS_Subset
  <2>5. QED
    BY <1>2, <1>3, <2>1, <2>2, <2>3, <2>4
<1>4. QED
  BY <1>1, <1>2, <1>3

-----------------------------------------------------------------------------
(* Types.                                                                  *)

(* The links of an answer are requests or missing.                         *)
LEMMA LinksType ==
    ASSUME NEW a \in Args
    PROVE  /\ Links(a).prev \in Args \cup {None}
           /\ Links(a).next \in Args \cup {None}
<1> DEFINE s == default_sorter_factory(a).sort
<1>1. s \in SortArg \cup {None}
  BY SorterType
<1> HIDE DEF s
<1>2. \A p \in Int : [a EXCEPT !.sort = s, !.page = p] \in Args
  BY <1>1 DEF Args
<1> DEFINE b == [a EXCEPT !.sort = s]
<1>3. b.page = a.page /\ a.page \in Int
  BY DEF Args
<1>4. /\ [b EXCEPT !.page = @ - 1] = [a EXCEPT !.sort = s, !.page = a.page - 1]
      /\ [b EXCEPT !.page = @ + 1] = [a EXCEPT !.sort = s, !.page = a.page + 1]
  BY <1>3 DEF Args
<1>5. a.page - 1 \in Int /\ a.page + 1 \in Int
  BY <1>3
<1>6. [b EXCEPT !.page = @ - 1] \in Args /\ [b EXCEPT !.page = @ + 1] \in Args
  BY <1>2, <1>4, <1>5
<1> HIDE DEF b
<1>7. Links(a) = [prev |-> IF a.page > 1 THEN [b EXCEPT !.page = @ - 1] ELSE None,
                  next |-> IF /\ a.size * a.page < Cardinality(Matched(a))
                              /\ a.size * a.page < MaxWindow
                             THEN [b EXCEPT !.page = @ + 1] ELSE None]
  BY DEF Links, b, s
<1>8. QED
  BY <1>6, <1>7

(* What one request does to the variables.                                 *)
LEMMA GetType ==
    ASSUME NEW a \in Args, get(a)
    PROVE  /\ args' = a /\ index' = index
           /\ answer' \in {"page", "refused", "error"}
           /\ links'.prev \in Args \cup {None} /\ links'.next \in Args \cup {None}
           /\ answer' # "page" => links' = NoLinks
           /\ answer' = "page" => ~ Fails(a) /\ links' = Links(a)
<1>1. CASE ~ Fails(a) /\ answer' = "page" /\ links' = Links(a)
  BY <1>1, LinksType DEF get
<1>2. CASE answer' \in {"refused", "error"} /\ links' = NoLinks
  BY <1>2 DEF get, NoLinks
<1>3. QED
  BY <1>1, <1>2 DEF get

(* The variables keep their types.  A request is answered with a page that *)
(* may have links, or refused or failed without any (get, rest.py:229-268).*)
THEOREM ListingTypeCorrect == ListingSpec => []ListingTypeOK
<1>1. ListingInit => ListingTypeOK
  BY DEF ListingInit, ListingTypeOK, NoLinks, NoneSeen
<1>2. ListingTypeOK /\ [ListingNext]_listVars => ListingTypeOK'
  <2> SUFFICES ASSUME ListingTypeOK, [ListingNext]_listVars
               PROVE  ListingTypeOK'
    OBVIOUS
  <2>0. \A a, i : Showing(a, i) \in Nat
    BY DEF Showing
  <2>1. ASSUME NEW a \in Requests, Open(a)
        PROVE  ListingTypeOK'
    <3>1. a \in Args /\ a # None /\ None \notin Args
      BY ListingAssumption
    <3>2. get(a) /\ opened' = a
      BY <2>1 DEF Open
    <3>3. seen' \in [Places -> Nat]
      BY <2>0, <2>1 DEF Open
    <3> HIDE DEF Args
    <3>4. QED
      BY <3>1, <3>2, <3>3, GetType DEF ListingTypeOK, Places
  <2>2. CASE FollowNext
    <3>1. links.next \in Args /\ links.next # None /\ None \notin Args
      BY <2>2, ListingAssumption DEF ListingTypeOK, FollowNext
    <3>2. get(links.next) /\ opened' = opened
      BY <2>2 DEF FollowNext
    <3>3. seen' \in [Places -> Nat]
      BY <2>0, <2>2 DEF FollowNext, ListingTypeOK
    <3>4. answer # "none"
      BY <2>2 DEF FollowNext, ListingTypeOK, NoLinks
    <3>5. QED
      BY <3>1, <3>2, <3>3, <3>4, GetType DEF ListingTypeOK, Places
  <2>3. CASE Leave
    BY <2>3 DEF Leave, ListingTypeOK, NoLinks, NoneSeen, Places
  <2>4. CASE UNCHANGED listVars
    BY <2>4 DEF listVars, ListingTypeOK, Places
  <2>5. QED
    BY <2>1, <2>2, <2>3, <2>4 DEF ListingNext
<1>3. QED
  BY <1>1, <1>2, PTL DEF ListingSpec

-----------------------------------------------------------------------------
(* Facets.                                                                 *)

(* Choosing a value of a facet lists the documents that the facet counted  *)
(* under it.                                                               *)
LEMMA ChosenIsCounted ==
    ASSUME NEW a \in Args, NEW name \in DOMAIN Filters, NEW v \in Status \cup DataTypes,
           \A other \in PostFilters \ {name} : a.filters[other] = {},
           name \in PostFilters \/ a.filters[name] = {} \/ v \in a.filters[name]
    PROVE  Matched([a EXCEPT !.filters[name] = {v}])
             = {i \in Counted(a) : FieldValue(i, Filters[name], a) = v}
<1> DEFINE b == [a EXCEPT !.filters[name] = {v}]
<1>1. /\ b.q = a.q
      /\ b.filters[name] = {v}
      /\ \A n \in DOMAIN Filters \ {name} : b.filters[n] = a.filters[n]
  BY DEF Args
<1> HIDE DEF b
<1>2. \A i, f : FieldValue(i, f, b) = FieldValue(i, f, a)
  BY <1>1 DEF FieldValue
<1>3. \A i : terms_filter(i, name, b) <=> FieldValue(i, Filters[name], a) = v
  BY <1>1, <1>2 DEF terms_filter
<1>4. \A i : \A n \in DOMAIN Filters \ {name} :
         terms_filter(i, n, b) <=> terms_filter(i, n, a)
  BY <1>1, <1>2 DEF terms_filter
<1>5. \A i : \A n \in PostFilters \ {name} : terms_filter(i, n, a)
  BY DEF terms_filter
<1>6. PostFilters \subseteq DOMAIN Filters
  BY ListingAssumption
<1>7. CASE name \in PostFilters
  <2>1. \A i : (\A n \in DOMAIN Filters \ PostFilters : terms_filter(i, n, b))
                 <=> (\A n \in DOMAIN Filters \ PostFilters : terms_filter(i, n, a))
    BY <1>4, <1>7
  <2>2. Counted(b) = Counted(a)
    BY <1>1, <2>1 DEF Counted
  <2>3. \A i : (\A n \in PostFilters : terms_filter(i, n, b))
                 <=> FieldValue(i, Filters[name], a) = v
    BY <1>3, <1>4, <1>5, <1>6, <1>7
  <2>4. QED
    BY <2>2, <2>3 DEF Matched, b
<1>8. CASE name \notin PostFilters
  <2>1. \A i : FieldValue(i, Filters[name], a) = v => terms_filter(i, name, a)
    BY <1>8 DEF terms_filter
  <2>2. \A i : (\A n \in DOMAIN Filters \ PostFilters : terms_filter(i, n, b))
                 <=> /\ \A n \in DOMAIN Filters \ PostFilters : terms_filter(i, n, a)
                     /\ FieldValue(i, Filters[name], a) = v
    BY <1>3, <1>4, <1>8, <2>1
  <2>3. \A i : \A n \in PostFilters : terms_filter(i, n, b)
    BY <1>4, <1>5, <1>6, <1>8
  <2>4. Matched(b) = Counted(b)
    BY <2>3 DEF Matched
  <2>5. Counted(b) = {i \in Counted(a) : FieldValue(i, Filters[name], a) = v}
    BY <1>1, <2>2 DEF Counted
  <2>6. QED
    BY <2>4, <2>5 DEF b
<1>9. QED
  BY <1>7, <1>8

(* FacetKeepsPromise: the count of a facet's value is the number of        *)
(* documents listed when it is the filter, unless another filter applies   *)
(* after the facets (default_facets_factory, search.py:129-147).           *)
THEOREM FacetsKeepPromise == ListingSpec => []FacetKeepsPromise
<1>1. ListingTypeOK => FacetKeepsPromise
  <2> SUFFICES ASSUME ListingTypeOK, args # None,
                      NEW name \in DOMAIN Filters,
                      \A other \in PostFilters \ {name} : args.filters[other] = {},
                      NEW v \in Status \cup DataTypes,
                      name \in PostFilters \/ args.filters[name] = {}
                        \/ v \in args.filters[name]
               PROVE  Cardinality(Matched([args EXCEPT !.filters[name] = {v}]))
                        = FacetCount(args, name, v)
    BY DEF FacetKeepsPromise
  <2>1. args \in Args
    BY DEF ListingTypeOK
  <2>2. Matched([args EXCEPT !.filters[name] = {v}])
          = {i \in Counted(args) : FieldValue(i, Filters[name], args) = v}
    BY <2>1, ChosenIsCounted
  <2>3. QED
    BY <2>2 DEF FacetCount
<1>2. QED
  BY <1>1, ListingTypeCorrect, PTL

-----------------------------------------------------------------------------
(* The order of a descending request.                                      *)

(* Of documents that have every field to sort by and differ in one, the    *)
(* request for the reverse order lists first the one that was last.        *)
LEMMA ReversedOrder ==
    ASSUME NEW a \in Args, a.sort # None, a.sort.key \in DOMAIN SortOptions,
           NEW i \in Places, NEW j \in Places,
           LET fields == {f.field : f \in Range(default_sorter_factory(a).fields)}
           IN  /\ \A f \in fields : FieldValue(i, f, a) # None
               /\ \A f \in fields : FieldValue(j, f, a) # None
               /\ \E f \in fields : FieldValue(i, f, a) # FieldValue(j, f, a)
    PROVE  Before(i, j, a) = Before(j, i, [a EXCEPT !.sort.asc = ~@])
<1> DEFINE b == [a EXCEPT !.sort.asc = ~@]
           options == SortOptions[a.sort.key]
           F == default_sorter_factory(a).fields
           G == default_sorter_factory(b).fields
           V(p, k) == FieldValue(p, options[k].field, a)
           Tied(k) == V(i, k) = V(j, k)
<1>1. a.sort \in SortArg /\ None \notin SortArg
  BY ListingAssumption DEF Args
<1>2. /\ b.sort \in SortArg /\ b.sort # None
      /\ b.sort.key = a.sort.key /\ b.sort.asc = ~ a.sort.asc
      /\ b.q = a.q
  BY <1>1 DEF Args, SortArg
<1> HIDE DEF b
<1>3. options \in Seq(SortField)
  BY ListingAssumption
<1>4. F = [k \in DOMAIN options |-> eval_field(options[k], a.sort.asc)]
  BY <1>1 DEF default_sorter_factory
<1>5. G = [k \in DOMAIN options |-> eval_field(options[k], b.sort.asc)]
  BY <1>2 DEF default_sorter_factory
<1>6. PICK n \in Nat : DOMAIN options = 1..n
  BY <1>3
<1>7. \A k \in 1..n : options[k] \in SortField
  BY <1>3, <1>6
<1> HIDE DEF options
<1>8. \A k \in 1..n : /\ F[k].field = options[k].field
                      /\ G[k].field = options[k].field
                      /\ F[k].asc \in BOOLEAN
                      /\ G[k].asc = ~ F[k].asc
  BY <1>1, <1>2, <1>4, <1>5, <1>6, <1>7 DEF eval_field, SortField, SortArg
<1>9. DOMAIN F = 1..n /\ DOMAIN G = 1..n
  BY <1>4, <1>5, <1>6
<1> HIDE DEF F, G
<1>10. {f.field : f \in Range(F)} = {options[k].field : k \in 1..n}
  BY <1>8, <1>9 DEF Range
<1>11. \A p, f : FieldValue(p, f, b) = FieldValue(p, f, a)
  BY <1>2 DEF FieldValue
<1>12. /\ \A k \in 1..n : V(i, k) # None /\ V(j, k) # None
       /\ \E k \in 1..n : ~ Tied(k)
  BY <1>10 DEF F
<1> HIDE DEF V
<1>13. F # <<>> /\ G # <<>>
  BY <1>9, <1>12
<1>14. Before(i, j, a) <=> \E k \in 1..n : /\ \A m \in 1..(k - 1) : Tied(m)
                                           /\ Precedes(V(i, k), V(j, k), F[k].asc)
  <2>1. \A k \in 1..n : \A p : FieldValue(p, F[k].field, a) = V(p, k)
    BY <1>8 DEF V
  <2>2. QED
    BY <1>9, <1>12, <1>13, <2>1 DEF Before, F
<1>15. Before(j, i, b) <=> \E k \in 1..n : /\ \A m \in 1..(k - 1) : Tied(m)
                                           /\ Precedes(V(j, k), V(i, k), G[k].asc)
  <2>1. \A k \in 1..n : \A p : FieldValue(p, G[k].field, b) = V(p, k)
    BY <1>8, <1>11 DEF V
  <2>2. QED
    BY <1>9, <1>12, <1>13, <2>1 DEF Before, G
<1>16. \A k \in 1..n : Precedes(V(i, k), V(j, k), F[k].asc)
                         <=> Precedes(V(j, k), V(i, k), G[k].asc)
  BY <1>8, <1>12 DEF Precedes
<1>17. Before(i, j, a) <=> Before(j, i, b)
  BY <1>14, <1>15, <1>16
<1>18. QED
  BY <1>17 DEF b, Before

(* MinusReverses: "key" and "-key" list documents that differ in opposite  *)
(* order, unless they miss a field (parse_sort_field and eval_field,       *)
(* search.py:81-126).                                                      *)
THEOREM MinusReversesOrder == ListingSpec => []MinusReverses
<1>1. ListingTypeOK => MinusReverses
  <2> SUFFICES ASSUME ListingTypeOK, args # None
               PROVE  MinusReverses
    BY DEF MinusReverses
  <2> DEFINE a == [args EXCEPT !.sort = default_sorter_factory(args).sort]
  <2>1. args \in Args
    BY DEF ListingTypeOK
  <2>2. /\ a \in Args
        /\ a.sort # None => a.sort.key \in DOMAIN SortOptions
    BY <2>1, SorterType DEF Args
  <2> HIDE DEF a
  <2>3. QED
    BY <2>2, ReversedOrder DEF MinusReverses, a
<1>2. QED
  BY <1>1, ListingTypeCorrect, PTL

-----------------------------------------------------------------------------
(* Walking the pages.                                                      *)

(* Where the client stands: the last request asks for the list it opened,  *)
(* and a page that was shown carries that page's links.                    *)
OnTheList ==
    opened # None =>
        /\ Configured(args)
        /\ SameList(opened, args)
        /\ answer = "page" => ~ Fails(args) /\ links = Links(args)

(* Documents on the first n pages of a list.                               *)
UpToPage(a, n) == {i \in Matched(a) : Rank(i, a) < n * a.size}

(* A client that began on page 1 has seen what is on the pages so far.     *)
SeenSoFar ==
    answer = "page" /\ opened.page = 1 =>
        /\ opened.size >= 0 /\ args.page >= 1
        /\ \A i \in Places :
              seen[i] = IF i \in UpToPage(opened, args.page) THEN 1 ELSE 0

WalkInv == ListingTypeOK /\ OnTheList /\ SeenSoFar

(* The next link asks for the next page of the same list.                  *)
LEMMA NextLink ==
    ASSUME NEW a \in Args, Configured(a), Links(a).next # None
    PROVE  /\ Links(a).next \in Args
           /\ Links(a).next.page = a.page + 1
           /\ Configured(Links(a).next)
           /\ SameList(a, Links(a).next)
<1> DEFINE s == default_sorter_factory(a).sort
           b == [a EXCEPT !.sort = s, !.page = a.page + 1]
<1>1. s \in SortArg \cup {None} /\ a.page \in Int
  BY SorterType DEF Args
<1>2. b \in Args /\ b.page = a.page + 1 /\ Configured(b) /\ SameList(a, b)
  <2>1. a.page + 1 \in Int
    BY <1>1
  <2> DEFINE p == a.page + 1
  <2> HIDE DEF p
  <2>2. LET c == [a EXCEPT !.sort = default_sorter_factory(a).sort, !.page = p]
        IN  c \in Args /\ c.page = p /\ Configured(c) /\ SameList(a, c)
    BY <2>1, LinkAsksForSameList DEF p
  <2>3. QED
    BY <2>2 DEF p
<1> HIDE DEF s
<1>3. [[a EXCEPT !.sort = s] EXCEPT !.page = @ + 1] = b
  BY <1>1 DEF Args
<1> HIDE DEF b
<1>4. Links(a).next = b
  BY <1>3 DEF Links, s
<1>5. QED
  BY <1>2, <1>4

(* There is no next link on the last page that can be shown: every         *)
(* selected document is on it or before it.                                *)
LEMMA LastPage ==
    ASSUME NEW a \in Args, ~ Fails(a), Links(a).next = None
    PROVE  Cardinality(Matched(a)) <= a.page * a.size
<1> DEFINE s == default_sorter_factory(a).sort
           b == [[a EXCEPT !.sort = s] EXCEPT !.page = @ + 1]
<1>1. a.page \in Int /\ a.size \in Int /\ s \in SortArg \cup {None}
  BY SorterType DEF Args
<1>2. b \in Args
  <2> HIDE DEF s
  <2>1. [a EXCEPT !.sort = s] \in Args
    BY <1>1 DEF Args
  <2>2. \A c \in Args : [c EXCEPT !.page = @ + 1] \in Args
    BY DEF Args
  <2>3. QED
    BY <2>1, <2>2
<1> HIDE DEF b
<1>3. b # None
  BY <1>2, ListingAssumption
<1>4. ~ (/\ a.size * a.page < Cardinality(Matched(a))
         /\ a.size * a.page < MaxWindow)
  BY <1>3 DEF Links, b, s
<1>5. Cardinality(Matched(a)) \in Nat
  BY RankInList
<1>6. a.size * a.page = a.page * a.size /\ a.page * a.size \in Int
  BY <1>1
<1>7. ~ (a.page * a.size >= MaxWindow) /\ MaxWindow \in Nat
  BY ListingAssumption DEF Fails, TooMany
<1>8. QED
  BY <1>4, <1>5, <1>6, <1>7

(* A page shows the documents that are on it and on no page before.        *)
LEMMA ShownIsDifference ==
    ASSUME NEW a \in Args, NEW i \in Places
    PROVE  i \in Shown(a) <=> /\ i \in UpToPage(a, a.page)
                              /\ i \notin UpToPage(a, a.page - 1)
<1>1. (a.page - 1) * a.size \in Int /\ a.page * a.size \in Int
  BY DEF Args
<1>2. i \in Matched(a) => Rank(i, a) \in Nat
  BY RankInList
<1> DEFINE m == (a.page - 1) * a.size
           n == a.page * a.size
<1>3. i \in Shown(a) <=> i \in Matched(a) /\ Rank(i, a) \in m..(n - 1)
  BY DEF Shown
<1>4. i \in UpToPage(a, a.page) <=> i \in Matched(a) /\ Rank(i, a) < n
  BY DEF UpToPage
<1>5. i \in UpToPage(a, a.page - 1) <=> i \in Matched(a) /\ Rank(i, a) < m
  BY DEF UpToPage
<1>6. m \in Int /\ n \in Int
  BY <1>1
<1> HIDE DEF m, n
<1>7. QED
  BY <1>2, <1>3, <1>4, <1>5, <1>6

(* The pages before the first show nothing, and each page adds to them.    *)
LEMMA PagesAdd ==
    ASSUME NEW a \in Args, a.size >= 0
    PROVE  /\ UpToPage(a, 0) = {}
           /\ \A p \in Int : UpToPage(a, p) \subseteq UpToPage(a, p + 1)
<1>1. a.size \in Nat /\ 0 * a.size = 0
  BY DEF Args
<1>2. \A i \in Matched(a) : Rank(i, a) \in Nat
  BY RankInList
<1>3. UpToPage(a, 0) = {}
  BY <1>1, <1>2 DEF UpToPage
<1>4. ASSUME NEW p \in Int
      PROVE  UpToPage(a, p) \subseteq UpToPage(a, p + 1)
  <2>1. /\ p * a.size \in Int
        /\ (p + 1) * a.size = p * a.size + a.size
    BY <1>1
  <2> DEFINE m == p * a.size
  <2>2. \A i \in Matched(a) : Rank(i, a) < m => Rank(i, a) < m + a.size
    <3> HIDE DEF m
    <3>1. QED
      BY <1>1, <1>2, <2>1 DEF m
  <2>3. QED
    BY <2>1, <2>2 DEF UpToPage
<1>5. QED
  BY <1>3, <1>4

(* Pages of the same list show the same.                                   *)
LEMMA SamePages ==
    ASSUME NEW a, NEW b, SameList(a, b), NEW p
    PROVE  UpToPage(b, p) = UpToPage(a, p)
<1>1. Matched(b) = Matched(a) /\ Matched(a) \subseteq Places
  BY SameDocuments DEF Matched, Counted
<1>2. \A i \in Places : Rank(i, b) = Rank(i, a)
  BY SameDocuments
<1>3. b.size = a.size
  BY DEF SameList
<1>4. QED
  BY <1>1, <1>2, <1>3 DEF UpToPage

(* What a request leaves of a list: the index does not change.             *)
LEMMA IndexStays ==
    ASSUME NEW STATE a, NEW STATE o, args' = a, opened' = o, index' = index
    PROVE  /\ Configured(args)' <=> Configured(a)
           /\ SameList(opened, args)' <=> SameList(o, a)
           /\ Fails(args)' <=> Fails(a)
           /\ Links(args)' = Links(a)
           /\ \A p : UpToPage(opened, p)' = UpToPage(o, p)
<1>1. Configured(args)' <=> Configured(a)
  BY DEF Configured
<1>2. SameList(opened, args)' <=> SameList(o, a)
  BY DEF SameList, default_sorter_factory
<1>3. Fails(args)' <=> Fails(a)
  BY DEF Fails, TooMany, Negative
<1>4. Links(args)' = Links(a)
  BY DEF Links, default_sorter_factory, Matched, Counted, terms_filter, FieldValue
<1>5. \A p : UpToPage(opened, p)' = UpToPage(o, p)
  BY DEF UpToPage, Rank, Before, default_sorter_factory, Matched, Counted,
         terms_filter, FieldValue
<1>6. QED
  BY <1>1, <1>2, <1>3, <1>4, <1>5

(* The client stays on the list it opened and has seen its pages so far.   *)
LEMMA WalkInductive ==
    ASSUME \A a \in Requests : Configured(a)
    PROVE  ListingSpec => []WalkInv
<1>1. ListingInit => OnTheList /\ SeenSoFar
  BY DEF ListingInit, OnTheList, SeenSoFar
<1>2. WalkInv /\ ListingTypeOK' /\ [ListingNext]_listVars => (OnTheList /\ SeenSoFar)'
  <2> SUFFICES ASSUME WalkInv, ListingTypeOK', [ListingNext]_listVars
               PROVE  (OnTheList /\ SeenSoFar)'
    OBVIOUS
  <2>0. None \notin Args /\ Requests \subseteq Args
    BY ListingAssumption
  <2>1. ASSUME NEW a \in Requests, Open(a)
        PROVE  (OnTheList /\ SeenSoFar)'
    <3>1. a \in Args /\ get(a) /\ opened' = a /\ Configured(a) /\ SameList(a, a)
      BY <2>0, <2>1 DEF Open, SameList
    <3>2. /\ args' = a /\ index' = index
          /\ answer' = "page" => ~ Fails(a) /\ links' = Links(a)
      BY <3>1, GetType
    <3>3. OnTheList'
      BY <3>1, <3>2, IndexStays DEF OnTheList
    <3>4. ASSUME answer' = "page", a.page = 1
          PROVE  /\ a.size >= 0
                 /\ \A i \in Places : seen'[i] = IF i \in UpToPage(a, 1) THEN 1 ELSE 0
      <4>1. a.size \in Int /\ ~ (1 * a.size < 0)
        BY <3>1, <3>2, <3>4 DEF Fails, Negative, Args
      <4>2. a.size >= 0
        BY <4>1
      <4>3. UpToPage(a, 0) = {} /\ a.page - 1 = 0
        BY <3>1, <3>4, <4>2, PagesAdd
      <4>4. \A i \in Places : i \in Shown(a) <=> i \in UpToPage(a, 1)
        BY <3>1, <3>4, <4>3, ShownIsDifference
      <4>5. QED
        BY <2>1, <3>2, <3>4, <4>2, <4>4 DEF Open, Showing
    <3>5. SeenSoFar'
      <4>1. UpToPage(opened, args.page)' = UpToPage(a, a.page)
        BY <3>1, <3>2, IndexStays
      <4>2. QED
        BY <3>1, <3>2, <3>4, <4>1 DEF SeenSoFar, Places
    <3>6. QED
      BY <3>3, <3>5
  <2>2. CASE FollowNext
    <3> DEFINE n == links.next
    <3>1. /\ n # None /\ n \in Args /\ get(n) /\ opened' = opened
          /\ answer = "page" /\ opened # None /\ opened \in Args /\ args \in Args
      BY <2>0, <2>2 DEF FollowNext, WalkInv, ListingTypeOK, NoLinks
    <3>2. /\ args' = n /\ index' = index
          /\ answer' = "page" => ~ Fails(n) /\ links' = Links(n)
      BY <3>1, GetType
    <3>3. /\ Configured(args) /\ SameList(opened, args) /\ links = Links(args)
      BY <3>1 DEF WalkInv, OnTheList
    <3>4. /\ n.page = args.page + 1 /\ Configured(n) /\ SameList(args, n)
      BY <3>1, <3>3, NextLink
    <3> HIDE DEF n
    <3>5. SameList(opened, n)
      BY <3>3, <3>4 DEF SameList
    <3>6. OnTheList'
      BY <3>1, <3>2, <3>4, <3>5, IndexStays DEF OnTheList
    <3>7. ASSUME answer' = "page", opened.page = 1
          PROVE  /\ opened.size >= 0 /\ n.page >= 1
                 /\ \A i \in Places :
                      seen'[i] = IF i \in UpToPage(opened, n.page) THEN 1 ELSE 0
      <4>1. /\ opened.size >= 0 /\ args.page >= 1 /\ args.page \in Int
            /\ \A i \in Places :
                 seen[i] = IF i \in UpToPage(opened, args.page) THEN 1 ELSE 0
        BY <3>1, <3>7 DEF WalkInv, SeenSoFar, Args
      <4>2. UpToPage(opened, args.page) \subseteq UpToPage(opened, n.page)
        BY <3>1, <3>4, <4>1, PagesAdd
      <4>3. n.page >= 1 /\ n.page - 1 = args.page
        BY <3>4, <4>1
      <4>4. \A i \in Places : i \in Shown(n) <=> /\ i \in UpToPage(opened, n.page)
                                                 /\ i \notin UpToPage(opened, args.page)
        BY <3>1, <3>5, <4>3, ShownIsDifference, SamePages
      <4>5. \A i \in Places :
              seen'[i] = seen[i] + (IF i \in Shown(n) THEN 1 ELSE 0)
        BY <2>2, <3>2, <3>7 DEF FollowNext, Showing, n
      <4>6. QED
        BY <4>1, <4>2, <4>3, <4>4, <4>5
    <3>8. SeenSoFar'
      <4>1. UpToPage(opened, args.page)' = UpToPage(opened, n.page)
        BY <3>1, <3>2, IndexStays
      <4>2. QED
        BY <3>1, <3>2, <3>7, <4>1 DEF SeenSoFar, Places
    <3>9. QED
      BY <3>6, <3>8
  <2>3. CASE Leave
    BY <2>3 DEF Leave, OnTheList, SeenSoFar
  <2>4. CASE UNCHANGED listVars
    <3>1. args' = args /\ opened' = opened /\ index' = index
          /\ answer' = answer /\ links' = links /\ seen' = seen
      BY <2>4 DEF listVars
    <3>2. OnTheList'
      BY <3>1, IndexStays DEF WalkInv, OnTheList
    <3>3. UpToPage(opened, args.page)' = UpToPage(opened, args.page)
      BY <3>1, IndexStays
    <3>4. SeenSoFar'
      BY <3>1, <3>3 DEF WalkInv, SeenSoFar, Places
    <3>5. QED
      BY <3>2, <3>4
  <2>5. QED
    BY <2>1, <2>2, <2>3, <2>4 DEF ListingNext
<1>3. QED
  BY <1>1, <1>2, ListingTypeCorrect, PTL DEF ListingSpec, WalkInv

(* WalkShowsAll: whoever opens the first page and follows the next links   *)
(* to the last page has seen every document the request selects once, and  *)
(* no other, if the option that a request sorts by is configured (slice,   *)
(* links and URL arguments of the list view, rest.py:238-263).             *)
THEOREM WalkShowsAllOnce ==
    ASSUME \A a \in Requests : Configured(a)
    PROVE  ListingSpec => []WalkShowsAll
<1>1. WalkInv => WalkShowsAll
  <2> SUFFICES ASSUME WalkInv, answer = "page", links.next = None, opened.page = 1,
                      NEW i \in Places
               PROVE  seen[i] = IF i \in Matched(opened) THEN 1 ELSE 0
    BY DEF WalkShowsAll
  <2>1. args \in Args /\ opened # None
    BY ListingAssumption DEF WalkInv, ListingTypeOK
  <2>2. SameList(opened, args) /\ ~ Fails(args) /\ links = Links(args)
    BY <2>1 DEF WalkInv, OnTheList
  <2>3. Cardinality(Matched(args)) <= args.page * args.size
    BY <2>1, <2>2, LastPage
  <2>4. Cardinality(Matched(opened)) <= args.page * opened.size
    BY <2>2, <2>3, SameDocuments DEF SameList
  <2>5. args.page * opened.size \in Int
    BY <2>1, <2>2 DEF SameList, Args
  <2> DEFINE m == args.page * opened.size
  <2>6. \A j \in Matched(opened) : Rank(j, opened) < m
    <3>1. m \in Int /\ Cardinality(Matched(opened)) <= m
      BY <2>4, <2>5
    <3> HIDE DEF m
    <3>2. QED
      BY <3>1, RankInList
  <2>7. UpToPage(opened, args.page) = Matched(opened)
    BY <2>6 DEF UpToPage
  <2>8. QED
    BY <2>7 DEF WalkInv, SeenSoFar
<1>2. QED
  BY <1>1, WalkInductive, PTL

(* PrevUndoesNext: the previous link of the next page leads back to a page *)
(* that shows what this one shows, under the same condition: the links     *)
(* carry the page's arguments, the sort argument only when it is known     *)
(* (rest.py:245-263, search.py:196-205).                                   *)
THEOREM PrevLeadsBack ==
    ASSUME \A a \in Requests : Configured(a)
    PROVE  ListingSpec => []PrevUndoesNext
<1>1. WalkInv => PrevUndoesNext
  <2> DEFINE n == links.next
             back == Links(n).prev
  <2> SUFFICES ASSUME WalkInv, answer = "page", n # None, args.page > 0
               PROVE  back # None /\ Shown(back) = Shown(args)
    BY DEF PrevUndoesNext
  <2>1. args \in Args /\ opened # None /\ None \notin Args
    BY ListingAssumption DEF WalkInv, ListingTypeOK
  <2>2. Configured(args) /\ links = Links(args)
    BY <2>1 DEF WalkInv, OnTheList
  <2>3. /\ n \in Args /\ n.page = args.page + 1
        /\ Configured(n) /\ SameList(args, n)
    BY <2>1, <2>2, NextLink
  <2> HIDE DEF n
  <2> DEFINE s == default_sorter_factory(n).sort
             p == args.page
             b == [n EXCEPT !.sort = s, !.page = p]
  <2>4. p \in Int /\ n.page > 1 /\ n.page - 1 = p
    BY <2>1, <2>3 DEF Args
  <2> HIDE DEF p
  <2>5. b \in Args /\ b.page = p /\ SameList(n, b)
    BY <2>3, <2>4, LinkAsksForSameList
  <2>6. back = [[n EXCEPT !.sort = s] EXCEPT !.page = @ - 1]
    BY <2>4 DEF Links
  <2> HIDE DEF s
  <2>7. [[n EXCEPT !.sort = s] EXCEPT !.page = @ - 1] = b
    BY <2>3, <2>4 DEF Args
  <2> HIDE DEF b, back
  <2>8. back = b
    BY <2>6, <2>7
  <2>9. SameList(args, b)
    BY <2>3, <2>5 DEF SameList
  <2>10. /\ Matched(b) = Matched(args) /\ Matched(args) \subseteq Places
         /\ \A i \in Places : Rank(i, b) = Rank(i, args)
    BY <2>9, SameDocuments DEF Matched, Counted
  <2>11. b.page = args.page /\ b.size = args.size
    BY <2>5, <2>9 DEF p, SameList
  <2>12. Shown(b) = Shown(args)
    BY <2>10, <2>11 DEF Shown
  <2>13. QED
    BY <2>1, <2>5, <2>8, <2>12
<1>2. QED
  BY <1>1, WalkInductive, PTL

=============================================================================
