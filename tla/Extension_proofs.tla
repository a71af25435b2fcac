--------------------------- MODULE Extension_proofs ---------------------------
(***************************************************************************)
(* Theorems about Extension for both kinds, any extension objects,         *)
(* settings, entry points and cache and any number of calls: no call       *)
(* replaces what the application set, the cache answers only what was      *)
(* stored for the same key, and the published state is complete.           *)
(***************************************************************************)
EXTENDS Extension, WellFoundedInduction, TLAPS

-----------------------------------------------------------------------------
(* Loading the entry points.                                               *)

(* A set of numbers that is not empty has a smallest.                      *)
LEMMA SmallestNat ==
    ASSUME NEW B \in SUBSET Nat, B # {}
    PROVE  \E m \in B : \A n \in B : ~ (n < m)
<1>1. PICK m \in B : \A n \in B : <<n, m>> \notin OpToRel(<, Nat)
  BY Zenon, NatLessThanWellFounded, WFMin
<1>2. QED
  BY Zenon, <1>1 DEF OpToRel

(* f is the registry after each of the first n entry points of the group.  *)
LoadStep(f, group, k) ==
    IF k = 0 THEN NoActions
    ELSE IF f[k - 1] = None \/ group[k][2] = None THEN None
    ELSE register_action(f[k - 1], group[k][1], group[k][2])

Loads(f, group, n) == f = [k \in 0..n |-> LoadStep(f, group, k)]

LEMMA LoadExists ==
    ASSUME NEW group, NEW N \in Nat
    PROVE  \E f : Loads(f, group, N)
<1> DEFINE B == {n \in Nat : ~ \E f : Loads(f, group, n)}
<1> SUFFICES ASSUME B # {} PROVE FALSE
  OBVIOUS
<1>1. PICK m \in B : \A n \in B : ~ (n < m)
  <2>1. B \in SUBSET Nat
    OBVIOUS
  <2> HIDE DEF B
  <2>2. QED
    BY <2>1, SmallestNat
<1>2. CASE m = 0
  <2>1. Loads([k \in 0..0 |-> NoActions], group, 0)
    BY DEF Loads, LoadStep
  <2>2. QED
    BY <1>2, <2>1
<1>3. CASE m # 0
  <2>1. m - 1 \in Nat /\ m \in Nat /\ m - 1 < m
    BY <1>3
  <2>2. PICK g : Loads(g, group, m - 1)
    BY <1>1, <2>1
  <2> DEFINE h == [k \in 0..m |-> LoadStep(g, group, k)]
  <2>3. \A k \in 0..(m - 1) : h[k] = g[k]
    BY <2>1, <2>2 DEF Loads
  <2>4. \A k \in 0..m : LoadStep(h, group, k) = LoadStep(g, group, k)
    <3> TAKE k \in 0..m
    <3>1. k # 0 => k - 1 \in 0..(m - 1)
      BY <2>1
    <3>2. k # 0 => h[k - 1] = g[k - 1]
      BY <2>3, <3>1
    <3> HIDE DEF h
    <3>3. QED
      BY <3>2 DEF LoadStep
  <2>5. h = [k \in 0..m |-> LoadStep(h, group, k)]
    BY <2>4
  <2>6. Loads(h, group, m)
    BY <2>5 DEF Loads
  <2>7. QED
    BY <1>1, <2>6
<1>4. QED
  BY <1>2, <1>3

(* load_entry_point_group is the last of them.                             *)
LEMMA LoadIsLast ==
    ASSUME NEW group, Len(group) \in Nat
    PROVE  \E f : /\ Loads(f, group, Len(group))
                  /\ load_entry_point_group(group) = f[Len(group)]
<1> DEFINE f == CHOOSE f : Loads(f, group, Len(group))
<1>1. Loads(f, group, Len(group))
  BY LoadExists
<1>2. load_entry_point_group(group) = f[Len(group)]
  BY DEF load_entry_point_group, Loads, LoadStep
<1>3. QED
  BY <1>1, <1>2

(* An entry point group that loads has registered every action it names.   *)
LEMMA LoadIsComplete ==
    ASSUME NEW group \in Seq(Names \X (ActionClasses \cup {None})),
           load_entry_point_group(group) # None
    PROVE  /\ load_entry_point_group(group) \in [Names -> ActionClasses \cup {None}]
           /\ \A k \in DOMAIN group :
                /\ group[k][2] # None
                /\ load_entry_point_group(group)[group[k][1]] = group[k][2]
<1> DEFINE N == Len(group)
<1>1. N \in Nat /\ DOMAIN group = 1..N
  OBVIOUS
<1>2. \A k \in 1..N : /\ group[k][1] \in Names
                      /\ group[k][2] \in ActionClasses \cup {None}
  OBVIOUS
<1>3. PICK f : Loads(f, group, N) /\ load_entry_point_group(group) = f[N]
  BY <1>1, LoadIsLast
<1> HIDE DEF N
<1>4. \A k \in 0..N : f[k] = LoadStep(f, group, k)
  BY <1>3 DEF Loads
<1> DEFINE Good(k) ==
             f[k] # None =>
               /\ f[k] \in [Names -> ActionClasses \cup {None}]
               /\ \A j \in 1..k : group[j][2] # None /\ f[k][group[j][1]] = group[j][2]
           B == {k \in 0..N : ~ Good(k)}
<1>5. ASSUME B # {} PROVE FALSE
  <2>1. PICK m \in B : \A n \in B : ~ (n < m)
    <3>1. B \in SUBSET Nat
      BY <1>1
    <3> HIDE DEF B
    <3>2. QED
      BY <1>5, <3>1, SmallestNat
  <2>2. m \in 0..N /\ ~ Good(m) /\ f[m] # None
    BY <2>1
  <2>3. CASE m = 0
    <3>1. f[0] = NoActions
      BY <1>4, <2>2, <2>3 DEF LoadStep
    <3>2. NoActions \in [Names -> ActionClasses \cup {None}]
      BY DEF NoActions
    <3>3. QED
      BY <2>2, <2>3, <3>1, <3>2, <1>1
  <2>4. CASE m # 0
    <3> DEFINE g == f[m - 1]
               n == group[m][1]
               a == group[m][2]
    <3>1. m \in 1..N /\ m - 1 \in 0..N /\ m - 1 < m
      BY <1>1, <2>2, <2>4
    <3>2. Good(m - 1)
      BY <2>1, <3>1
    <3>3. f[m] = LoadStep(f, group, m)
      BY <1>4, <2>2
    <3>4. g # None /\ a # None /\ f[m] = register_action(g, n, a)
      BY <2>2, <2>4, <3>3 DEF LoadStep
    <3>5. g[n] = None /\ f[m] = [g EXCEPT ![n] = a]
      BY <2>2, <3>4 DEF register_action
    <3>6. /\ g \in [Names -> ActionClasses \cup {None}]
          /\ \A j \in 1..(m - 1) : group[j][2] # None /\ g[group[j][1]] = group[j][2]
      BY <3>2, <3>4
    <3>7. n \in Names /\ a \in ActionClasses
      BY <1>2, <3>1, <3>4
    <3> HIDE DEF g, n, a
    <3>8. f[m] \in [Names -> ActionClasses \cup {None}] /\ f[m][n] = a
      BY <3>5, <3>6, <3>7
    <3>9. \A j \in 1..m : group[j][2] # None /\ f[m][group[j][1]] = group[j][2]
      <4> TAKE j \in 1..m
      <4>1. CASE j = m
        BY <3>4, <3>8, <4>1 DEF n, a
      <4>2. CASE j # m
        <5>1. j \in 1..(m - 1) /\ j \in 1..N
          BY <1>1, <3>1, <4>2
        <5>2. group[j][1] # n /\ group[j][1] \in Names
          BY <1>2, <3>5, <3>6, <5>1
        <5>3. QED
          BY <3>5, <3>6, <5>1, <5>2
      <4>3. QED
        BY <4>1, <4>2
    <3>10. QED
      BY <2>2, <3>8, <3>9
  <2>5. QED
    BY <2>3, <2>4
<1>6. Good(N)
  BY <1>1, <1>5
<1>7. QED
  BY <1>1, <1>3, <1>6

-----------------------------------------------------------------------------
(* The types of the variables.                                             *)

(* The defaults are values, and so is what the application sets.           *)
LEMMA ConfigType ==
    ASSUME NEW c \in [Keys -> ConfigValues]
    PROVE  init_config(c) \in [Keys -> ConfigValues]
BY DEF init_config, Keys, ConfigValues

(* What is set over a choice is a choice.                                  *)
LEMMA ChosenType ==
    ASSUME NEW c \in Choices, NEW d \in Choices
    PROVE  [k \in Keys |-> IF c[k] # None THEN c[k] ELSE d[k]] \in Choices
<1> DEFINE f == [k \in Keys |-> IF c[k] # None THEN c[k] ELSE d[k]]
<1>1. f = [BASE_TEMPLATE              |-> f["BASE_TEMPLATE"],
           WORKFLOWS_UI_BASE_TEMPLATE |-> f["WORKFLOWS_UI_BASE_TEMPLATE"],
           WORKFLOWS_UI_API_CLASS     |-> f["WORKFLOWS_UI_API_CLASS"],
           WORKFLOWS_UI_REST_ENDPOINT |-> f["WORKFLOWS_UI_REST_ENDPOINT"],
           WORKFLOWS_UI_TEMPLATE_CONTEXT_PROCESSORS |->
             f["WORKFLOWS_UI_TEMPLATE_CONTEXT_PROCESSORS"],
           WORKFLOWS_UI_CACHE_PREFIX  |-> f["WORKFLOWS_UI_CACHE_PREFIX"]]
  BY DEF Keys
<1>2. /\ f["BASE_TEMPLATE"] \in {None, "site"}
      /\ f["WORKFLOWS_UI_BASE_TEMPLATE"] \in {None, "own"}
      /\ f["WORKFLOWS_UI_API_CLASS"] \in {None, "own", "unusable"}
      /\ f["WORKFLOWS_UI_REST_ENDPOINT"] \in {None, "own", "unusable",
                                           "half"}
      /\ f["WORKFLOWS_UI_TEMPLATE_CONTEXT_PROCESSORS"] \in {None, "own", "unusable"}
      /\ f["WORKFLOWS_UI_CACHE_PREFIX"] \in {None, "own"}
  BY DEF Keys, Choices
<1> HIDE DEF f
<1>3. f \in Choices
  BY <1>1, <1>2 DEF Choices
<1>4. QED
  BY <1>3 DEF f

LEMMA ChoiceType ==
    ASSUME NEW c \in Choices
    PROVE  c \in [Keys -> ConfigValues]
BY DEF Choices, Keys, ConfigValues

(* Registering changes the registry of the state, or nothing.              *)
LEMMA RegisterKinds ==
    ASSUME ExtensionTypeOK, NEW n \in Names, NEW a \in ActionClasses,
           \/ \E e \in Extensions : RegisterByExtension(e, n, a)
           \/ RegisterByProxy(n, a)
    PROVE  /\ UNCHANGED <<fixed, config, chosen, bound, registered, routes, command,
                          cache, stored>>
           /\ \/ UNCHANGED state
              \/ /\ state \in States /\ state' \in States
                 /\ state.actions[n] = None
                 /\ state' = [state EXCEPT !.actions[n] = a]
<1>1. PICK reached \in BOOLEAN : Register(reached, n, a) /\ (reached => state # None)
  <2>1. ASSUME NEW e \in Extensions, RegisterByExtension(e, n, a)
        PROVE  Register(bound = e, n, a) /\ (bound = e => state # None)
    BY <2>1, ExtensionAssumption DEF RegisterByExtension, ExtensionTypeOK
  <2>2. ASSUME RegisterByProxy(n, a)
        PROVE  Register(state # None, n, a)
    BY <2>2 DEF RegisterByProxy
  <2> QED
    BY <2>1, <2>2
<1>2. CASE UNCHANGED state
  BY <1>1, <1>2 DEF Register
<1>3. CASE ~UNCHANGED state
  <2>1. reached /\ state \in States
    BY <1>1, <1>3 DEF Register, ExtensionTypeOK
  <2> DEFINE actions == register_action(state.actions, n, a)
  <2>2. actions # None /\ state' = [state EXCEPT !.actions = actions]
    BY <1>1, <1>3, <2>1 DEF Register
  <2>3. state.actions[n] = None /\ actions = [state.actions EXCEPT ![n] = a]
    BY <2>2 DEF register_action
  <2>4. actions \in Registries
    BY <2>1, <2>3 DEF States, Registries
  <2>5. state' = [state EXCEPT !.actions[n] = a]
    BY <2>2, <2>3
  <2> HIDE DEF actions
  <2>6. state' \in States
    BY <2>1, <2>2, <2>4 DEF States
  <2> QED
    BY <1>1, <2>1, <2>3, <2>5, <2>6 DEF Register
<1> QED
  BY <1>2, <1>3

(* What a call publishes is a state.                                       *)
LEMMA PublishedIsState ==
    ASSUME ExtensionTypeOK, Builds(init_config(config)), NEW cached \in BOOLEAN
    PROVE  [actions   |-> load_entry_point_group(entries),
            api_class |-> init_config(config).WORKFLOWS_UI_API_CLASS,
            cached    |-> cached] \in States
<1>1. load_entry_point_group(entries) \in Registries
  BY ExtensionAssumption, LoadIsComplete DEF Builds, ExtensionTypeOK, Registries
<1>2. init_config(config).WORKFLOWS_UI_API_CLASS \in ConfigValues
  BY ConfigType DEF ExtensionTypeOK, Keys
<1> QED
  BY <1>1, <1>2 DEF States

LEMMA InitTypes == ExtensionInit => ExtensionTypeOK
<1> SUFFICES ASSUME ExtensionInit PROVE ExtensionTypeOK
  OBVIOUS
<1>1. chosen \in Choices /\ config \in [Keys -> ConfigValues]
  BY ExtensionAssumption, ChoiceType DEF ExtensionInit
<1>2. /\ cache \in [Prefixes \X CacheKeys -> CacheValues \cup {None}]
      /\ stored \in [CacheKeys -> CacheValues \cup {None}]
  BY DEF ExtensionInit
<1> QED
  BY <1>1, <1>2 DEF ExtensionInit, ExtensionTypeOK

(* What init_app does, beside filling in the defaults: nothing; or the     *)
(* views of a half endpoint; or all of it.                                 *)
LEMMA InitAppKinds ==
    ASSUME NEW e \in Extensions, NEW binds \in BOOLEAN, NEW cached \in BOOLEAN,
           init_app(e, binds, cached)
    PROVE  /\ config' = init_config(config)
           /\ UNCHANGED <<fixed, chosen, cache, stored>>
           /\ \/ UNCHANGED started
              \/ /\ ~registered /\ registered'
                 /\ kind = "rest" /\ routes' = RestRoutes
                 /\ UNCHANGED <<state, bound, command>>
              \/ /\ ~registered /\ registered'
                 /\ Builds(init_config(config))
                 /\ Publish(e, binds, cached, init_config(config))
                 /\ routes' = Views(kind)
                 /\ command' = (kind = "ui")
BY DEF init_app, started, StopsHalfWay, Builds, create_blueprint

LEMMA NextTypes ==
    ExtensionTypeOK /\ [ExtensionNext]_extVars => ExtensionTypeOK'
<1> SUFFICES ASSUME ExtensionTypeOK, [ExtensionNext]_extVars
             PROVE  ExtensionTypeOK'
  OBVIOUS
<1>1. ASSUME NEW e \in Extensions, NEW binds \in BOOLEAN, NEW cached \in BOOLEAN,
             init_app(e, binds, cached)
      PROVE  ExtensionTypeOK'
  <2> DEFINE c == init_config(config)
  <2>1. config' \in [Keys -> ConfigValues]
    BY <1>1, InitAppKinds, ConfigType DEF ExtensionTypeOK
  <2>2. CASE UNCHANGED started
    BY <1>1, <2>1, <2>2, InitAppKinds DEF started, fixed, ExtensionTypeOK
  <2>3. CASE /\ registered' /\ kind = "rest" /\ routes' = RestRoutes
             /\ UNCHANGED <<state, bound, command>>
    BY <1>1, <2>1, <2>3, InitAppKinds DEF fixed, ExtensionTypeOK, Views
  <2>4. CASE /\ Builds(c) /\ Publish(e, binds, cached, c)
             /\ registered' /\ routes' = Views(kind) /\ command' = (kind = "ui")
    <3>1. state' \in States /\ bound' \in Extensions \cup {None}
      BY <2>4, PublishedIsState DEF Publish, ExtensionTypeOK
    <3>2. state' # None
      BY <3>1, StateAssumption
    <3> QED
      BY <1>1, <2>1, <2>4, <3>1, <3>2, InitAppKinds DEF fixed, ExtensionTypeOK
  <2> QED
    BY <1>1, <2>2, <2>3, <2>4, InitAppKinds
<1>2. ASSUME NEW n \in Names, NEW a \in ActionClasses,
             \/ \E e \in Extensions : RegisterByExtension(e, n, a)
             \/ RegisterByProxy(n, a)
      PROVE  ExtensionTypeOK'
  <2>1. state' \in States \cup {None} /\ (state # None => state' # None)
    BY <1>2, RegisterKinds, StateAssumption DEF ExtensionTypeOK
  <2> QED
    BY <1>2, <2>1, RegisterKinds DEF fixed, ExtensionTypeOK
<1>3. ASSUME NEW c \in Settings, Configure(c)
      PROVE  ExtensionTypeOK'
  <2>1. c \in Choices /\ c \in [Keys -> ConfigValues]
    BY ExtensionAssumption, ChoiceType
  <2>2. config' \in [Keys -> ConfigValues] /\ chosen' \in Choices
    BY <1>3, <2>1, ChosenType DEF Configure, ExtensionTypeOK
  <2> QED
    BY <1>3, <2>2 DEF Configure, fixed, started, ExtensionTypeOK
<1>4. ASSUME NEW k \in CacheKeys, \/ \E v \in CacheValues : set(k, v)
                                  \/ get(k) \/ delete(k) \/ Others(k)
      PROVE  ExtensionTypeOK'
  <2>1. UNCHANGED <<fixed, config, chosen, started>>
    BY <1>4 DEF set, get, delete, Others, CacheOnly
  <2>2. cache' \in [Prefixes \X CacheKeys -> CacheValues \cup {None}]
    BY <1>4 DEF set, get, delete, Others, CacheKey, ExtensionTypeOK
  <2>3. stored' \in [CacheKeys -> CacheValues \cup {None}]
    BY <1>4 DEF set, get, delete, Others, ExtensionTypeOK
  <2> QED
    BY <2>1, <2>2, <2>3 DEF fixed, started, ExtensionTypeOK
<1>5. CASE AllCalled \/ UNCHANGED extVars
  BY <1>5 DEF AllCalled, extVars, ExtensionTypeOK
<1> QED
  BY <1>1, <1>2, <1>3, <1>4, <1>5 DEF ExtensionNext

(* The variables keep their types; the published state is a registry of    *)
(* action classes, and an extension that has one has the published one     *)
(* (ext.py:89-149).                                                        *)
THEOREM ExtensionTypeCorrect == ExtensionSpec => []ExtensionTypeOK
BY InitTypes, NextTypes, PTL DEF ExtensionSpec

-----------------------------------------------------------------------------
(* The settings.                                                           *)

Prefix == config.WORKFLOWS_UI_CACHE_PREFIX

(* What the application set itself is there; once a state is published the *)
(* cache has a prefix, the application's or the default.                   *)
SettingsInv ==
    /\ OwnSettingsStay
    /\ DOMAIN config = Keys
    /\ Prefix \in {None, "default", "own"}
    /\ state # None => Prefix # None

(* Defaults are written where there is nothing.                            *)
LEMMA DefaultsFillIn ==
    ASSUME NEW c
    PROVE  /\ DOMAIN init_config(c) = Keys
           /\ \A k \in Keys : c[k] # None => init_config(c)[k] = c[k]
           /\ c.WORKFLOWS_UI_CACHE_PREFIX = None =>
                init_config(c).WORKFLOWS_UI_CACHE_PREFIX = "default"
BY DEF init_config, Keys

(* The application has no other prefix to give than its own.               *)
LEMMA GivenPrefix ==
    ASSUME NEW c \in Settings
    PROVE  c.WORKFLOWS_UI_CACHE_PREFIX \in {None, "own"}
BY ExtensionAssumption DEF Choices

LEMMA PrefixIsKey == "WORKFLOWS_UI_CACHE_PREFIX" \in Keys
BY DEF Keys

(* A call either leaves the settings alone, or fills in the defaults, or   *)
(* is the application's own.                                               *)
LEMMA CallKinds ==
    ASSUME ExtensionTypeOK, [ExtensionNext]_extVars
    PROVE  \/ UNCHANGED <<config, chosen>> /\ (state = None => state' = None)
           \/ config' = init_config(config) /\ UNCHANGED <<chosen, cache, stored>>
           \/ \E c \in Settings : Configure(c)
<1>1. ASSUME NEW n \in Names, NEW a \in ActionClasses,
             \/ \E e \in Extensions : RegisterByExtension(e, n, a)
             \/ RegisterByProxy(n, a)
      PROVE  UNCHANGED <<config, chosen>> /\ (state = None => state' = None)
  BY <1>1, RegisterKinds, StateAssumption
<1> QED
  BY <1>1 DEF ExtensionNext, extVars, started, init_app, set, get, delete, Others,
              CacheOnly, AllCalled

LEMMA InitSettings == ExtensionInit => SettingsInv
<1> SUFFICES ASSUME ExtensionInit PROVE SettingsInv
  OBVIOUS
<1>1. config = chosen /\ chosen \in Settings /\ state = None
  BY DEF ExtensionInit
<1>2. DOMAIN chosen = Keys
  BY <1>1, ExtensionAssumption DEF Choices, Keys
<1> QED
  BY <1>1, <1>2, GivenPrefix DEF SettingsInv, OwnSettingsStay, Prefix

LEMMA NextSettings ==
    ExtensionTypeOK /\ SettingsInv /\ [ExtensionNext]_extVars => SettingsInv'
<1> SUFFICES ASSUME ExtensionTypeOK, SettingsInv, [ExtensionNext]_extVars
             PROVE  SettingsInv'
  OBVIOUS
<1>1. CASE UNCHANGED <<config, chosen>> /\ (state = None => state' = None)
  BY <1>1 DEF SettingsInv, OwnSettingsStay, Prefix
<1>2. CASE config' = init_config(config) /\ UNCHANGED <<chosen, cache, stored>>
  <2>1. OwnSettingsStay'
    BY <1>2, DefaultsFillIn DEF SettingsInv, OwnSettingsStay
  <2>2. DOMAIN config' = Keys
    BY <1>2, DefaultsFillIn
  <2>3. Prefix' \in {"default", "own"} /\ Prefix' # None
    BY <1>2, DefaultsFillIn, PrefixIsKey, ExtensionAssumption
    DEF SettingsInv, Prefix, Prefixes
  <2> QED
    BY <2>1, <2>2, <2>3 DEF SettingsInv
<1>3. ASSUME NEW c \in Settings, Configure(c) PROVE SettingsInv'
  <2>1. /\ chosen' = [k \in Keys |-> IF c[k] # None THEN c[k] ELSE chosen[k]]
        /\ config' = [k \in Keys |-> IF c[k] # None THEN c[k] ELSE config[k]]
        /\ state' = state
    BY <1>3 DEF Configure, started
  <2>2. OwnSettingsStay' /\ DOMAIN config' = Keys
    BY <2>1 DEF SettingsInv, OwnSettingsStay
  <2>3. Prefix' \in {None, "default", "own"} /\ (Prefix # None => Prefix' # None)
    BY <2>1, GivenPrefix, PrefixIsKey DEF SettingsInv, Prefix
  <2> QED
    BY <2>1, <2>2, <2>3 DEF SettingsInv
<1> QED
  BY <1>1, <1>2, <1>3, CallKinds

(* No default replaces what the application set, however often and in      *)
(* whatever order the extensions are initialised (ext.py:53-61).           *)
THEOREM SettingsStay == ExtensionSpec => []OwnSettingsStay
<1>1. SettingsInv => OwnSettingsStay
  BY DEF SettingsInv
<1> QED
  BY <1>1, InitTypes, NextTypes, InitSettings, NextSettings, PTL DEF ExtensionSpec

-----------------------------------------------------------------------------
(* The cache.                                                              *)

(* What is under the prefix in use was stored; nothing is yet under the    *)
(* prefix that the application may still set.                              *)
CacheInv ==
    /\ DOMAIN cache = Prefixes \X CacheKeys
    /\ \A k \in CacheKeys :
         /\ Prefix = "own" => cache[<<"own", k>>] \in {stored[k], None}
         /\ Prefix # "own" => /\ cache[<<"own", k>>] = None
                              /\ cache[<<"default", k>>] \in {stored[k], None}
    /\ DOMAIN stored = CacheKeys

(* The application's own prefix stays in use.                              *)
LEMMA PrefixMoves ==
    ASSUME ExtensionTypeOK, SettingsInv, [ExtensionNext]_extVars
    PROVE  Prefix = "own" => Prefix' = "own"
<1>1. CASE UNCHANGED <<config, chosen>>
  BY <1>1 DEF Prefix
<1>2. CASE config' = init_config(config) /\ UNCHANGED <<chosen, cache, stored>>
  BY <1>2, DefaultsFillIn, PrefixIsKey, ExtensionAssumption
  DEF SettingsInv, Prefix, Prefixes
<1>3. ASSUME NEW c \in Settings, Configure(c)
      PROVE  Prefix = "own" => Prefix' = "own"
  BY <1>3, GivenPrefix, PrefixIsKey DEF Configure, Prefix
<1> QED
  BY <1>1, <1>2, <1>3, CallKinds

LEMMA InitCache == ExtensionInit => CacheInv
BY DEF ExtensionInit, CacheInv, Prefixes

LEMMA NextCache ==
    ExtensionTypeOK /\ SettingsInv /\ CacheInv /\ [ExtensionNext]_extVars => CacheInv'
<1> SUFFICES ASSUME ExtensionTypeOK, SettingsInv, CacheInv, [ExtensionNext]_extVars
             PROVE  CacheInv'
  OBVIOUS
<1>1. CASE UNCHANGED <<cache, stored>>
  BY <1>1, PrefixMoves DEF CacheInv
<1>2. ASSUME NEW k \in CacheKeys, NEW v,
             state # None, UNCHANGED config,
             cache' = [cache EXCEPT ![CacheKey(k)] = v],
             stored' = [stored EXCEPT ![k] = v]
      PROVE  CacheInv'
  <2>1. Prefix \in {"default", "own"} /\ Prefix' = Prefix
        /\ cache' = [cache EXCEPT ![<<Prefix, k>>] = v]
    BY <1>2 DEF SettingsInv, Prefix, CacheKey
  <2>2. CASE Prefix = "own"
    BY <1>2, <2>1, <2>2 DEF CacheInv, Prefixes
  <2>3. CASE Prefix = "default"
    BY <1>2, <2>1, <2>3 DEF CacheInv, Prefixes
  <2> QED
    BY <2>1, <2>2, <2>3
<1>3. ASSUME NEW k \in CacheKeys, Others(k) PROVE CacheInv'
  <2>1. Prefix' = Prefix /\ stored' = stored
    BY <1>3 DEF Others, CacheOnly, Prefix
  <2>2. CASE \E v \in CacheValues : cache' = [cache EXCEPT ![<<"", k>>] = v]
    BY <2>1, <2>2 DEF CacheInv, Prefixes
  <2>3. CASE \E p \in Prefixes : cache' = [cache EXCEPT ![<<p, k>>] = None]
    BY <2>1, <2>3 DEF CacheInv, Prefixes
  <2> QED
    BY <1>3, <2>2, <2>3 DEF Others
<1>4. ASSUME NEW k \in CacheKeys, NEW v, set(k, v) PROVE CacheInv'
  BY <1>1, <1>2, <1>4 DEF set, HasCache, CacheOnly
<1>5. ASSUME NEW k \in CacheKeys, delete(k) PROVE CacheInv'
  BY <1>1, <1>2, <1>5 DEF delete, HasCache, CacheOnly
<1>6. CASE \/ \E e \in Extensions :
                \/ \E binds, cached \in BOOLEAN : init_app(e, binds, cached)
                \/ \E n \in Names, a \in ActionClasses : RegisterByExtension(e, n, a)
           \/ \E n \in Names, a \in ActionClasses : RegisterByProxy(n, a)
           \/ \E c \in Settings : Configure(c)
           \/ \E k \in CacheKeys : get(k)
           \/ AllCalled \/ UNCHANGED extVars
  BY <1>1, <1>6 DEF extVars, init_app, RegisterByExtension, RegisterByProxy,
                    Register, Configure, get, AllCalled
<1> QED
  BY <1>3, <1>4, <1>5, <1>6 DEF ExtensionNext

(* The cache never answers what another application, or a call for another *)
(* key, stored (ext.py:63-87).                                             *)
THEOREM CacheIsOwn == ExtensionSpec => CacheAnswersOwn
<1>1. ASSUME SettingsInv, CacheInv, NEW k \in CacheKeys, get(k)
      PROVE  answer' \in {stored[k], None}
  <2>1. state # None /\ answer' = IF HasCache THEN cache[<<Prefix, k>>] ELSE None
    BY <1>1 DEF get, Called, CacheKey, Prefix
  <2>2. Prefix \in {"default", "own"}
    BY <1>1, <2>1 DEF SettingsInv
  <2> QED
    BY <1>1, <2>1, <2>2 DEF CacheInv
<1>2. SettingsInv /\ CacheInv /\ [ExtensionNext]_extVars =>
        [\A k \in CacheKeys : get(k) => answer' \in {stored[k], None}]_extVars
  BY <1>1
<1> QED
  BY <1>2, InitTypes, NextTypes, InitSettings, NextSettings, InitCache, NextCache, PTL
  DEF ExtensionSpec, CacheAnswersOwn

-----------------------------------------------------------------------------
(* The published state.                                                    *)

(* The registry that a call publishes has what the entry points name.      *)
LEMMA PublishedStateIsComplete ==
    ASSUME ExtensionTypeOK, Builds(init_config(config))
    PROVE  /\ \A k \in DOMAIN entries :
                 load_entry_point_group(entries)[entries[k][1]] = entries[k][2]
           /\ init_config(config).WORKFLOWS_UI_API_CLASS # "unusable"
<1>1. entries \in Seq(Names \X (ActionClasses \cup {None}))
  BY ExtensionAssumption DEF ExtensionTypeOK
<1>2. /\ load_entry_point_group(entries) # None
      /\ init_config(config).WORKFLOWS_UI_API_CLASS # "unusable"
  BY DEF Builds, Importable
<1> QED
  BY <1>1, <1>2, LoadIsComplete

(* Every entry point that is installed has an action, once a state is      *)
(* published: the state could not have been made otherwise.                *)
PublishedInv ==
    /\ PublishedIsComplete
    /\ state # None => registered /\ \A k \in DOMAIN entries : entries[k][2] # None

LEMMA NextPublished ==
    ExtensionTypeOK /\ PublishedInv /\ [ExtensionNext]_extVars => PublishedInv'
<1> SUFFICES ASSUME ExtensionTypeOK, PublishedInv, [ExtensionNext]_extVars
             PROVE  PublishedInv'
  OBVIOUS
<1>1. CASE UNCHANGED <<kind, entries, state, registered, routes, command>>
  BY <1>1 DEF PublishedInv, PublishedIsComplete
<1>2. ASSUME NEW e \in Extensions, NEW binds \in BOOLEAN, NEW cached \in BOOLEAN,
             init_app(e, binds, cached)
      PROVE  PublishedInv'
  <2> DEFINE c == init_config(config)
  <2>1. UNCHANGED <<kind, entries>>
    BY <1>2, InitAppKinds DEF fixed
  <2>2. CASE UNCHANGED started
    BY <1>1, <2>1, <2>2 DEF started
  <2>3. CASE ~registered /\ UNCHANGED state
    BY <2>1, <2>3 DEF PublishedInv, PublishedIsComplete
  <2>4. CASE /\ Builds(c) /\ Publish(e, binds, cached, c)
             /\ registered' /\ routes' = Views(kind) /\ command' = (kind = "ui")
    <3>1. /\ state'.actions = load_entry_point_group(entries)
          /\ state'.api_class = c.WORKFLOWS_UI_API_CLASS
      BY <2>4 DEF Publish
    <3>2. \A k \in DOMAIN entries : entries[k][2] # None
      <4>1. entries \in Seq(Names \X (ActionClasses \cup {None}))
        BY ExtensionAssumption DEF ExtensionTypeOK
      <4> QED
        BY <2>4, <4>1, LoadIsComplete DEF Builds
    <3> QED
      BY <2>1, <2>4, <3>1, <3>2, PublishedStateIsComplete
      DEF PublishedInv, PublishedIsComplete
  <2> QED
    BY <1>2, <2>2, <2>3, <2>4, InitAppKinds
<1>3. ASSUME NEW n \in Names, NEW a \in ActionClasses,
             state \in States, state.actions[n] = None,
             state' = [state EXCEPT !.actions[n] = a],
             UNCHANGED <<kind, entries, registered, routes, command>>
      PROVE  PublishedInv'
  <2>1. state # None
    BY <1>3, StateAssumption
  <2>2. entries \in Seq(Names \X (ActionClasses \cup {None}))
    BY ExtensionAssumption DEF ExtensionTypeOK
  <2>3. \A k \in DOMAIN entries : entries[k][1] \in Names /\ entries[k][1] # n
    BY <1>3, <2>1, <2>2 DEF PublishedInv, PublishedIsComplete
  <2>4. /\ state'.api_class = state.api_class
        /\ \A m \in Names : m # n => state'.actions[m] = state.actions[m]
    BY <1>3 DEF States, Registries
  <2> QED
    BY <1>3, <2>1, <2>3, <2>4 DEF PublishedInv, PublishedIsComplete
<1>4. ASSUME NEW n \in Names, NEW a \in ActionClasses,
             \/ \E e \in Extensions : RegisterByExtension(e, n, a)
             \/ RegisterByProxy(n, a)
      PROVE  PublishedInv'
  BY <1>1, <1>3, <1>4, RegisterKinds DEF fixed
<1>5. CASE \/ \E c \in Settings : Configure(c)
           \/ \E k \in CacheKeys : \/ \E v \in CacheValues : set(k, v)
                                   \/ get(k) \/ delete(k) \/ Others(k)
           \/ AllCalled \/ UNCHANGED extVars
  BY <1>1, <1>5
  DEF Configure, set, get, delete, Others, CacheOnly, AllCalled, extVars, fixed,
      started
<1> QED
  BY <1>2, <1>4, <1>5 DEF ExtensionNext

(* PublishedIsComplete: whoever reads the published state finds it         *)
(* complete, all views of its extension answer and the UI has its command, *)
(* after any number of initialisations that failed half way or were        *)
(* repeated: the last step of one that succeeds publishes it, and          *)
(* registrations only add to it (ext.py:40-51, 94-97, 108-149).            *)
THEOREM PublishedStays == ExtensionSpec => []PublishedIsComplete
<1>1. ExtensionInit => PublishedInv
  BY DEF ExtensionInit, PublishedInv, PublishedIsComplete
<1>2. PublishedInv => PublishedIsComplete
  BY DEF PublishedInv
<1> QED
  BY <1>1, <1>2, InitTypes, NextTypes, NextPublished, PTL DEF ExtensionSpec
=============================================================================
