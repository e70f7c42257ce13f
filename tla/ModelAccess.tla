---------------------------- MODULE ModelAccess ----------------------------
(***************************************************************************)
(* How the runtime comes by its models (services/llm): the keys of the     *)
(* providers from the environment, from LLM__PROVIDERS_JSON and from the   *)
(* database, changed while the process runs; and the way a request for a   *)
(* model takes, through an API key or the ChatGPT/Codex subscription.      *)
(*                                                                         *)
(* Whether the subscription is connected is read several times while one   *)
(* agent is built, and each time by the clock and the CLI's file: here     *)
(* each reading is free.  Ids of models are well formed; encryption and    *)
(* the HTTP clients are left out.                                          *)
(***************************************************************************)
EXTENDS Naturals

CONSTANTS
    Providers,     \* keys of PROVIDER_ENV_VARS, with "openai"
    Secrets,       \* API keys
    Models,        \* [provider, alias, name]
    DefaultModel,  \* [Providers -> Models]: PROVIDER_DEFAULT_MODELS
    Configs,       \* [codex_only, fallback, primary, codex_models]
    KeyRequests,   \* requests that change keys
    MaxChanges     \* bound: changes of keys

ASSUME ModelAssumption == "openai" \in Providers /\ DefaultModel \in [Providers -> Models]

VARIABLES
    llm,         \* LLMConfig
    fromShell,   \* [Providers -> key]: the environment the process was given
    fromJson,    \* [Providers -> key]: providers_json
    environ,     \* os.environ
    backup,      \* _env_backup
    active,      \* _providers: the key of each, NoKey for none
    fromDb,      \* _db_providers
    loaded,      \* those found in the database at the start
    storedKeys,  \* rows of kind "api_key"
    change,      \* [KeyRequests -> store or delete under way]
    changes,     \* made so far
    built        \* the last agent: its model and how it is reached

keyVars == <<environ, backup, active, fromDb>>
accessVars == <<llm, fromShell, fromJson, keyVars, loaded, storedKeys, change, changes, built>>

NoKey == "no key"
Untouched == "untouched"
Quiet == [kind |-> "none"]
NoModel == [provider |-> "none", alias |-> FALSE, name |-> "none"]
NotBuilt == [model |-> NoModel, via |-> "none"]
Known(p, keys) == keys[p] # NoKey

-----------------------------------------------------------------------------
(* Keys.                                                                   *)

(* start: stored keys win over the environment, the environment over JSON. *)
(* A load that fails keeps the keys it has read.                           *)
StartAccess(read) ==
    /\ read \subseteq {p \in Providers : Known(p, storedKeys)}
    /\ active' = [p \in Providers |->
            IF p \in read THEN storedKeys[p]
            ELSE IF Known(p, fromJson) THEN fromJson[p] ELSE fromShell[p]]
    /\ environ' = [p \in Providers |->
            IF p \in read THEN storedKeys[p]
            ELSE IF Known(p, fromShell) THEN fromShell[p] ELSE fromJson[p]]
    /\ backup' = [p \in Providers |-> IF p \in read THEN fromShell[p] ELSE Untouched]
    /\ fromDb' = read /\ loaded' = read

Restart ==
    /\ changes < MaxChanges /\ changes' = changes + 1
    /\ \E read \in SUBSET Providers : StartAccess(read)
    /\ change' = [r \in KeyRequests |-> Quiet] /\ built' = NotBuilt
    /\ UNCHANGED <<llm, fromShell, fromJson, storedKeys>>

(* store_provider_key, delete_provider_key: the row is committed, and the  *)
(* request goes on later.  When the answer is lost it ends with an error.  *)
AskChange(r, kind, p, key) ==
    /\ change[r] = Quiet /\ changes < MaxChanges
    /\ changes' = changes + 1
    /\ change' = [change EXCEPT ![r] = [kind |-> kind, p |-> p, key |-> key, done |-> FALSE]]
    /\ UNCHANGED <<llm, fromShell, fromJson, keyVars, loaded, storedKeys, built>>

StoreKey(r) == \E p \in Providers, key \in Secrets : AskChange(r, "store", p, key)
DeleteKey(r) == \E p \in Providers : AskChange(r, "delete", p, NoKey)

CommitKey(r) ==
    /\ change[r] # Quiet /\ ~change[r].done
    /\ storedKeys' = [storedKeys EXCEPT ![change[r].p] = change[r].key]
    /\ \E answered \in BOOLEAN :
          change' = [change EXCEPT ![r] = IF answered THEN [@ EXCEPT !.done = TRUE] ELSE Quiet]
    /\ UNCHANGED <<llm, fromShell, fromJson, keyVars, loaded, changes, built>>

(* The database cannot be reached, or the commit failed.                   *)
NotCommitted(r) ==
    /\ change[r] # Quiet /\ ~change[r].done
    /\ change' = [change EXCEPT ![r] = Quiet]
    /\ UNCHANGED <<llm, fromShell, fromJson, keyVars, loaded, storedKeys, changes, built>>

(* reload_provider_key: what the environment had is kept once.             *)
BugBackedUp(p) == environ[p]       \* Mutant: each stored key backs up the one before.
BackedUp(p) == IF backup[p] = Untouched THEN environ[p] ELSE backup[p]

ReloadProviderKey(r) ==
    LET p == change[r].p IN
    /\ change[r].kind = "store" /\ change[r].done
    /\ active' = [active EXCEPT ![p] = change[r].key]
    /\ fromDb' = fromDb \cup {p}
    /\ backup' = [backup EXCEPT ![p] = BackedUp(p)]
    /\ environ' = [environ EXCEPT ![p] = change[r].key]
    /\ change' = [change EXCEPT ![r] = Quiet]
    /\ UNCHANGED <<llm, fromShell, fromJson, loaded, storedKeys, changes, built>>

(* remove_provider_key                                                     *)
RemoveProviderKey(r) ==
    LET p == change[r].p
        left == IF backup[p] = Untouched THEN environ[p] ELSE backup[p]
    IN
    /\ change[r].kind = "delete" /\ change[r].done
    /\ fromDb' = fromDb \ {p}
    /\ backup' = [backup EXCEPT ![p] = Untouched]
    /\ environ' = [environ EXCEPT ![p] = left]
    /\ active' = [active EXCEPT ![p] = left]
    /\ change' = [change EXCEPT ![r] = Quiet]
    /\ UNCHANGED <<llm, fromShell, fromJson, loaded, storedKeys, changes, built>>

-----------------------------------------------------------------------------
(* Models.  connected is what a reading of the subscription said.          *)

(* _configured_provider_names                                              *)
AvailableModels(connected) ==
    ({p \in Providers : Known(p, active)} \ (IF llm.codex_only THEN {"openai"} ELSE {}))
        \cup (IF connected THEN {"openai"} ELSE {})

(* _effective_model: with fallback, the default of a configured provider;  *)
(* which one is a matter of their order.                                   *)
OfOpenAi(m) == m.provider = "openai"       \* by its own name, or by an alias

EffectiveModels(connected) ==
    LET m == llm.primary
        available == AvailableModels(connected)
    IN IF \/ ~llm.fallback
          \/ llm.codex_only /\ OfOpenAi(m)
          \/ available = {}
          \/ ~m.alias /\ m.provider \in available
       THEN {m} ELSE {DefaultModel[p] : p \in available}

(* _should_use_codex_provider                                              *)
BugRouteOf(m, connected) ==        \* Mutant: the aliases are not looked at.
    IF m.alias \/ ~OfOpenAi(m) THEN "api key"
    ELSE IF llm.codex_models # {} /\ m.name \notin llm.codex_models
         THEN IF llm.codex_only THEN "refused" ELSE "api key"
    ELSE IF connected THEN "subscription"
    ELSE IF llm.codex_only THEN "refused" ELSE "api key"
RouteOf(m, connected) ==
    IF llm.codex_only /\ m.alias THEN "refused"
    ELSE IF m.alias \/ ~OfOpenAi(m) THEN "api key"
    ELSE IF llm.codex_models # {} /\ m.name \notin llm.codex_models
         THEN IF llm.codex_only THEN "refused" ELSE "api key"
    ELSE IF connected THEN "subscription"
    ELSE IF llm.codex_only THEN "refused" ELSE "api key"

(* build_agent: resolve_model, _apply_model_transport_defaults and         *)
(* _resolve_agent_model, which reads twice and asserts the second.         *)
BuildAgent ==
    \E reading \in [1..4 -> BOOLEAN], asked \in Models \cup {NoModel} :
        \E m \in (IF asked = NoModel THEN EffectiveModels(reading[1]) ELSE {asked}) :
            LET settings == RouteOf(m, reading[2])
                route == RouteOf(m, reading[3])
            IN /\ built' = [model |-> m,
                            via |-> IF \/ "refused" \in {settings, route}
                                       \/ route = "subscription" /\ ~reading[4]
                                    THEN "refused" ELSE route]
               /\ UNCHANGED <<llm, fromShell, fromJson, keyVars, loaded, storedKeys, change, changes>>

-----------------------------------------------------------------------------

AccessInit ==
    /\ llm \in Configs
    /\ fromShell \in [Providers -> {NoKey, "shell"}] /\ fromJson \in [Providers -> {NoKey, "json"}]
    /\ storedKeys = [p \in Providers |-> NoKey]
    /\ active = [p \in Providers |-> IF Known(p, fromJson) THEN fromJson[p] ELSE fromShell[p]]
    /\ environ = [p \in Providers |-> IF Known(p, fromShell) THEN fromShell[p] ELSE fromJson[p]]
    /\ backup = [p \in Providers |-> Untouched]
    /\ fromDb = {} /\ loaded = {} /\ changes = 0 /\ built = NotBuilt
    /\ change = [r \in KeyRequests |-> Quiet]

AccessNext ==
    \/ Restart \/ BuildAgent
    \/ \E r \in KeyRequests :
          \/ StoreKey(r) \/ DeleteKey(r) \/ CommitKey(r) \/ NotCommitted(r)
          \/ ReloadProviderKey(r) \/ RemoveProviderKey(r)

-----------------------------------------------------------------------------

(* What a provider is left with when no stored key is in force.  A key     *)
(* from providers_json is not exported, and so does not come back, when a  *)
(* stored key was there at the start.                                      *)
Configured(p) == IF Known(p, fromShell) \/ p \in loaded THEN fromShell[p] ELSE fromJson[p]

(* Stored keys come and go over any stores, deletions and restarts, and    *)
(* the key the operator configured is still what removing one restores.    *)
OperatorKeyComesBack ==
    \A p \in Providers :
        IF p \in fromDb THEN backup[p] = Configured(p) /\ environ[p] = active[p]
        ELSE environ[p] = Configured(p)

(* With LLM__CODEX_ONLY no model of OpenAI is reached with an API key: not *)
(* by an alias, not by the fallback, and not when the subscription expires *)
(* while the agent is built.                                               *)
SubscriptionGuard ==
    llm.codex_only /\ built # NotBuilt /\ OfOpenAi(built.model) => built.via # "api key"

(* Keys and routes stand as the operator set them.                         *)
AccessHolds == OperatorKeyComesBack /\ SubscriptionGuard
=============================================================================
