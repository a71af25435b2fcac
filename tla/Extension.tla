------------------------------ MODULE Extension ------------------------------
(***************************************************************************)
(* The extension of one Flask application, which is InvenioWorkflowsUI or  *)
(* InvenioWorkflowsUIREST: how it fills the configuration, registers       *)
(* actions and routes and publishes its state, what the proxies then find, *)
(* and the cache.  The calls come one after the other; each may raise half *)
(* way, and the application may set a value right and call again, also by  *)
(* another extension object of the same class.                             *)
(***************************************************************************)
EXTENDS Naturals, Sequences

CONSTANTS
    Extensions,     \* extension objects, all of the application's kind
    Settings,       \* what the application may set in its configuration
    EntryPoints,    \* lists of entry points that may be installed
    Names,          \* names of actions
    ActionClasses,  \* what is registered under a name
    CacheKeys,      \* cache keys, after str()
    CacheValues,
    MaxCalls,       \* bound: number of calls
    None

(* The values an application may give: an "unusable" class or processor    *)
(* cannot be imported, an "unusable" endpoint has no serializers for a     *)
(* view or no list route, as that of docs/usage.rst has none for files, a  *)
(* "half" endpoint has all but the routes of the files.                    *)
Choices == [BASE_TEMPLATE              : {None, "site"},
            WORKFLOWS_UI_BASE_TEMPLATE : {None, "own"},
            WORKFLOWS_UI_API_CLASS     : {None, "own", "unusable"},
            WORKFLOWS_UI_REST_ENDPOINT : {None, "own", "unusable", "half"},
            WORKFLOWS_UI_TEMPLATE_CONTEXT_PROCESSORS : {None, "own", "unusable"},
            WORKFLOWS_UI_CACHE_PREFIX  : {None, "own"}]

Keys == {"BASE_TEMPLATE", "WORKFLOWS_UI_BASE_TEMPLATE", "WORKFLOWS_UI_API_CLASS",
         "WORKFLOWS_UI_REST_ENDPOINT",
         "WORKFLOWS_UI_TEMPLATE_CONTEXT_PROCESSORS",
         "WORKFLOWS_UI_CACHE_PREFIX"}

Prefixes == {"", "default", "own"}

ASSUME ExtensionAssumption ==
    /\ Settings \subseteq Choices /\ None \notin Extensions
    /\ EntryPoints \subseteq Seq(Names \X (ActionClasses \cup {None}))
    /\ None \notin ActionClasses \cup CacheValues \cup Prefixes
    /\ MaxCalls \in Nat

(* setup.py: the UI is loaded into the main application, the REST          *)
(* extension into the one for the API.                                     *)
Kinds == {"ui", "rest"}

VARIABLES
    kind,       \* the class of the extension objects
    config,     \* app.config
    chosen,     \* what the application set in it itself
    entries,    \* the entry points installed
    state,      \* the _WorkflowsUIState in app.extensions, or None
    bound,      \* the extension whose constructor made it, or None
    registered, \* the application has a blueprint of the name
    routes,     \* the views it answers
    command,    \* it has the command holdingpen
    cache,      \* the cache, shared with other applications
    answer,     \* what the last call returned, or "raised"
    stored,     \* stored[k]: what was last stored under k, or None
    calls       \* number of calls so far

extVars == <<kind, config, chosen, entries, state, bound, registered, routes,
             command, cache, answer, stored, calls>>
fixed == <<kind, entries>>
started == <<state, bound, registered, routes, command>>

RestRoutes == {"list", "item", "action", "bulk_action"}
FileRoutes == {"files", "file"}
UIRoutes == {"index", "list_objects", "details"}

(* The views of an extension, each under a URL of its own.                 *)
Views(k) == IF k = "ui" THEN UIRoutes ELSE RestRoutes \cup FileRoutes

Registries == [Names -> ActionClasses \cup {None}]
ConfigValues == {None, "default", "site", "own", "unusable", "half"}
States == [actions : Registries, api_class : ConfigValues, cached : BOOLEAN]

ASSUME StateAssumption == None \notin States

ExtensionTypeOK ==
    /\ kind \in Kinds
    /\ config \in [Keys -> ConfigValues]
    /\ chosen \in Choices
    /\ entries \in EntryPoints
    /\ state \in States \cup {None}
    /\ bound \in Extensions \cup {None} /\ (bound # None => state # None)
    /\ registered \in BOOLEAN /\ command \in BOOLEAN
    /\ routes \subseteq Views(kind)
    /\ cache \in [Prefixes \X CacheKeys -> CacheValues \cup {None}]
    /\ stored \in [CacheKeys -> CacheValues \cup {None}]

ExtensionInit ==
    /\ kind \in Kinds
    /\ chosen \in Settings /\ config = chosen
    /\ entries \in EntryPoints
    /\ state = None /\ bound = None
    /\ registered = FALSE /\ routes = {} /\ command = FALSE
    /\ cache = [p \in Prefixes \X CacheKeys |-> None]
    /\ answer = None /\ calls = 0
    /\ stored = [k \in CacheKeys |-> None]

Called(result) ==
    /\ calls < MaxCalls /\ calls' = calls + 1
    /\ answer' = result

-----------------------------------------------------------------------------
(* What obj_or_import_string makes something of.                           *)
Importable(v) == v # "unusable"

(* Every default is written, whatever is there.                            *)
WriteDefaults(c) ==
    [k \in Keys |-> IF k = "BASE_TEMPLATE" THEN c[k] ELSE "default"]

(* setdefault: the base template from the application's own one, then      *)
(* everything that config.py names.                                        *)
init_config(c) ==
    [k \in Keys |->
        IF k = "BASE_TEMPLATE" \/ c[k] # None THEN c[k]
        ELSE IF k = "WORKFLOWS_UI_BASE_TEMPLATE" /\ c.BASE_TEMPLATE # None
          THEN c.BASE_TEMPLATE
          ELSE "default"]

NoActions == [n \in Names |-> None]

(* The action that the registry has already is replaced.                   *)
ReplaceAction(actions, n, a) == [actions EXCEPT ![n] = a]

(* A name that is registered already fails the assertion: no registry.     *)
register_action(actions, n, a) ==
    IF actions[n] # None THEN None ELSE [actions EXCEPT ![n] = a]

(* One entry point after the other; None when one of them cannot be loaded *)
(* or registered.                                                          *)
load_entry_point_group(group) ==
    LET loaded[k \in 0..Len(group)] ==
          IF k = 0 THEN NoActions
          ELSE IF loaded[k - 1] = None \/ group[k][2] = None THEN None
          ELSE register_action(loaded[k - 1], group[k][1], group[k][2])
    IN  loaded[Len(group)]

(* The views of a blueprint, None when it cannot be built: a serializer    *)
(* dictionary, or a route that others are joined with, is missing, or a    *)
(* context processor cannot be imported.                                   *)
create_blueprint(c) ==
    IF \/ ~Importable(c.WORKFLOWS_UI_TEMPLATE_CONTEXT_PROCESSORS)
       \/ kind = "rest" /\ c.WORKFLOWS_UI_REST_ENDPOINT = "unusable"
      THEN None
      ELSE Views(kind)

(* An action that cannot be loaded does no harm.                           *)
BuildsWithoutActions(c) ==
    Importable(c.WORKFLOWS_UI_API_CLASS) /\ create_blueprint(c) # None

(* The state and the blueprint can be made.                                *)
Builds(c) ==
    /\ Importable(c.WORKFLOWS_UI_API_CLASS)
    /\ load_entry_point_group(entries) # None
    /\ create_blueprint(c) # None

(* The application registers the views of a half endpoint up to the first  *)
(* that has no route, and raises.                                          *)
StopsHalfWay(c) == kind = "rest" /\ c.WORKFLOWS_UI_REST_ENDPOINT = "half"

(* The state in app.extensions; it is the extension's own as well when the *)
(* constructor called init_app.                                            *)
Publish(e, binds, cached, c) ==
    /\ state' = [actions   |-> load_entry_point_group(entries),
                 api_class |-> c.WORKFLOWS_UI_API_CLASS,
                 cached    |-> cached]
    /\ bound' = IF binds THEN e ELSE bound

(* The state is published before the views are registered.                 *)
PublishFirst(e, binds, cached) ==
    LET c == init_config(config)
    IN  /\ Builds(c) /\ ~registered
        /\ config' = c
        /\ Publish(e, binds, cached, c)
        /\ Called("state")
        /\ registered' = TRUE
        /\ routes' = IF StopsHalfWay(c) THEN RestRoutes ELSE create_blueprint(c)
        /\ command' = (kind = "ui")
        /\ UNCHANGED <<fixed, chosen, cache, stored>>

(* init_app, by itself or from the constructor.  Whatever raises, the      *)
(* defaults stay; a blueprint whose name is taken is refused.              *)
init_app(e, binds, cached) ==
    LET c == init_config(config)
    IN  /\ config' = c
        /\ \/ /\ ~Builds(c) \/ registered
              /\ Called("raised")
              /\ UNCHANGED started
           \/ /\ Builds(c) /\ ~registered
              /\ registered' = TRUE
              /\ \/ /\ StopsHalfWay(c)
                    /\ routes' = RestRoutes
                    /\ Called("raised")
                    /\ UNCHANGED <<state, bound, command>>
                 \/ /\ ~StopsHalfWay(c)
                    /\ routes' = create_blueprint(c)
                    /\ Publish(e, binds, cached, c)
                    /\ command' = (kind = "ui")
                    /\ Called("state")
        /\ UNCHANGED <<fixed, chosen, cache, stored>>

(* The application sets values in its configuration, also between calls.   *)
Configure(c) ==
    /\ chosen' = [k \in Keys |-> IF c[k] # None THEN c[k] ELSE chosen[k]]
    /\ config' = [k \in Keys |-> IF c[k] # None THEN c[k] ELSE config[k]]
    /\ Called(None)
    /\ UNCHANGED <<fixed, started, cache, stored>>

(* An action registered from outside, which raises when there is no state  *)
(* (the proxies raise KeyError, an extension without one recurses in       *)
(* __getattr__) or when it has the name.                                   *)
Register(reached, n, a) ==
    LET actions == IF reached THEN register_action(state.actions, n, a) ELSE None
    IN  /\ \/ actions = None /\ Called("raised") /\ UNCHANGED state
           \/ /\ actions # None /\ Called(None)
              /\ state' = [state EXCEPT !.actions = actions]
        /\ UNCHANGED <<fixed, config, chosen, bound, registered, routes, command,
                       cache, stored>>

(* Through an extension object: __getattr__ leads to its own state.        *)
RegisterByExtension(e, n, a) == Register(bound = e, n, a)

(* Through the proxy current_workflows_ui.                                 *)
RegisterByProxy(n, a) == Register(state # None, n, a)

-----------------------------------------------------------------------------
(* The cache, through the published state.                                 *)

CacheKey(k) == <<config.WORKFLOWS_UI_CACHE_PREFIX, k>>

HasCache == state # None /\ state.cached

CacheOnly == UNCHANGED <<fixed, config, chosen, started>>

set(k, v) ==
    /\ state # None /\ Called(None)
    /\ cache' = IF HasCache THEN [cache EXCEPT ![CacheKey(k)] = v] ELSE cache
    /\ stored' = IF HasCache THEN [stored EXCEPT ![k] = v] ELSE stored
    /\ CacheOnly

(* The prefix is forgotten.                                                *)
GetWithoutPrefix(k) ==
    /\ state # None
    /\ Called(IF HasCache THEN cache[<<"", k>>] ELSE None)
    /\ CacheOnly /\ UNCHANGED <<cache, stored>>

get(k) ==
    /\ state # None
    /\ Called(IF HasCache THEN cache[CacheKey(k)] ELSE None)
    /\ CacheOnly /\ UNCHANGED <<cache, stored>>

delete(k) ==
    /\ state # None /\ Called(None)
    /\ cache' = IF HasCache THEN [cache EXCEPT ![CacheKey(k)] = None] ELSE cache
    /\ stored' = IF HasCache THEN [stored EXCEPT ![k] = None] ELSE stored
    /\ CacheOnly

(* Another application uses the cache, without a prefix, or the cache      *)
(* drops an entry.                                                         *)
Others(k) ==
    /\ Called(None)
    /\ \/ \E v \in CacheValues : cache' = [cache EXCEPT ![<<"", k>>] = v]
       \/ \E p \in Prefixes : cache' = [cache EXCEPT ![<<p, k>>] = None]
    /\ CacheOnly /\ UNCHANGED stored

-----------------------------------------------------------------------------
AllCalled == calls = MaxCalls /\ UNCHANGED extVars

ExtensionNext ==
    \/ \E e \in Extensions :
         \/ \E binds, cached \in BOOLEAN : init_app(e, binds, cached)
         \/ \E n \in Names, a \in ActionClasses : RegisterByExtension(e, n, a)
    \/ \E n \in Names, a \in ActionClasses : RegisterByProxy(n, a)
    \/ \E c \in Settings : Configure(c)
    \/ \E k \in CacheKeys :
         \/ \E v \in CacheValues : set(k, v)
         \/ get(k) \/ delete(k) \/ Others(k)
    \/ AllCalled

ExtensionSpec == ExtensionInit /\ [][ExtensionNext]_extVars

-----------------------------------------------------------------------------
(* Properties.                                                             *)

(* Whoever reads the published state finds it complete, after any number   *)
(* of initialisations that failed half way or were repeated: its class can *)
(* be used, it has every installed action under its own name, all views of *)
(* the extension answer, and with the UI the command is there              *)
(* (ext.py:40-51, 94-97, 108-149).                                         *)
PublishedIsComplete ==
    state # None =>
        /\ state.api_class # "unusable"
        /\ \A k \in DOMAIN entries : state.actions[entries[k][1]] = entries[k][2]
        /\ Views(kind) \subseteq routes
        /\ kind = "ui" => command

(* What the application set itself is never replaced by a default, in any  *)
(* order of settings and initialisations (init_config, ext.py:53-61).      *)
OwnSettingsStay == \A k \in Keys : chosen[k] # None => config[k] = chosen[k]

(* The cache never answers with what another application, or another call, *)
(* stored under a key that looks the same (ext.py:63-87).                  *)
CacheAnswersOwn ==
    [][\A k \in CacheKeys : get(k) => answer' \in {stored[k], None}]_extVars
=============================================================================
