----------------------------- MODULE TurnSetup -----------------------------
(***************************************************************************)
(* What a turn may do: the tools it is given, the configuration and usage  *)
(* ceilings it runs under, and the handlers its calls run                  *)
(* (AssistantService.prepare_agent_context, ToolRegistry, ToolService,     *)
(* resolve_effective_config, the subagent tool), with the summary of MCP   *)
(* servers that requests share (MCPService).                               *)
(*                                                                         *)
(* The registry is shared by every session and caches, per page with a     *)
(* scope, what it lists and what it builds; tools may be registered at any *)
(* time.  A page is "none", "scoped" (page_scopes allows Scope there) or   *)
(* "other" (not listed).  Configuration is two tunables: max_turns, whose  *)
(* value a request may only lower, and a model, which a request may pick   *)
(* from RequestModels.                                                     *)
(***************************************************************************)
EXTENDS Integers, FiniteSets

CONSTANTS
    Sessions,       \* sessions, each with at most one turn
    Tools,          \* backend tools that are or may be registered
    Idempotent,     \* those of Tools that may be retried
    Scope,          \* those of Tools allowed on the page with a scope
    HostTools,      \* tools of the host, from the configuration
    Hosts,          \* host contexts sent: a page and the actions declared
    Configs,        \* configs sent: max_turns (0 when unset) and a model
    FrozenTurns, DefinitionTurns, OverlayTurns,
                    \* max_turns: configured, of the definition, and the
                    \* values an overlay may ask for
    RequestModels, HostModel,
    SubagentTurns,  \* max_iterations of the subagent
    MaxTurns, MaxOverlays, Askers, MaxMcpCalls

ASSUME SetupAssumption ==
    /\ Idempotent \subseteq Tools /\ Scope \subseteq Tools
    /\ Tools \cap HostTools = {}

VARIABLES
    registry,  \* tools registered and the two caches
    overlay,   \* max_turns of the runtime overlay, 0 when unset
    memory,    \* session -> the host context and config it last sent
    setup,     \* session -> its turn
    begun,     \* turns and overlay changes so far
    mcp,       \* the MCP service
    asker      \* asker -> its wait for the MCP summary

setupVars == <<registry, overlay, memory, setup, begun, mcp, asker>>

Subagent == "run_subagent"
Uncached == {"uncached"}
Keys == {"every tool", "scoped"}
NoHost == [page |-> "none", actions |-> {}]
NoConfig == [turns |-> 0, model |-> HostModel]
HostOmitted == [page |-> "omitted", actions |-> {}]
ConfigOmitted == [turns |-> 0, model |-> "omitted"]
NoCall == [tool |-> "none", attempts |-> 0, effects |-> 0]
NoTurn == [pc |-> "none", mode |-> "none"]

Empties == [key \in Keys |-> Uncached]

----------------------------------------------------------------------------
(* The registry *)

(* The tools a page allows.                                                *)
Allowed(page, tools) == IF page = "scoped" THEN tools \cap Scope ELSE tools

BugKeyOf(host) == "every tool"
KeyOf(host) == IF host.page = "scoped" THEN "scoped" ELSE "every tool"

(* A declared action whose name is taken is ignored.                       *)
RequestActions(host) == host.actions \ (registry.tools \union HostTools)

(* A listing with request actions in it is neither read from nor written   *)
(* to the cache.                                                           *)
Listing(host) ==
    LET cached == registry.listed[KeyOf(host)]
    IN IF RequestActions(host) = {} /\ cached # Uncached THEN cached
       ELSE Allowed(host.page, registry.tools)

Toolset(host) ==
    LET cached == registry.built[KeyOf(host)]
    IN IF cached # Uncached THEN cached ELSE Listing(host)

Cached(host) ==
    [registry EXCEPT
        !.listed[KeyOf(host)] = IF RequestActions(host) = {} THEN Listing(host) ELSE @,
        !.built[KeyOf(host)] = Toolset(host)]

(* Both caches are dropped: every listing is out of date.                  *)
BugAdded(tool) == [registry EXCEPT !.tools = @ \union {tool}, !.listed = Empties]
Added(tool) == [tools |-> registry.tools \union {tool}, listed |-> Empties, built |-> Empties]

Register(tool) ==
    /\ tool \notin registry.tools
    /\ registry' = Added(tool)
    /\ UNCHANGED <<overlay, memory, setup, begun, mcp, asker>>

(* A host that joins a session has its context remembered and the caches   *)
(* filled.                                                                 *)
WarmSession(s, host) ==
    /\ setup[s] = NoTurn
    /\ memory' = [memory EXCEPT ![s].host = host]
    /\ registry' = Cached(host)
    /\ UNCHANGED <<overlay, setup, begun, mcp, asker>>

----------------------------------------------------------------------------
(* Configuration *)

Trusted == IF overlay # 0 THEN overlay ELSE FrozenTurns

Lesser(a, b) == IF a < b THEN a ELSE b

(* max_turns is clamped to what the host allows now, and the definition's  *)
(* own limit to that.                                                      *)
BugRequestLimit(config) ==
    Lesser(IF config.turns = 0 THEN Trusted ELSE config.turns, DefinitionTurns)
RequestLimit(config) ==
    Lesser(IF config.turns = 0 THEN Trusted ELSE Lesser(config.turns, Trusted),
           DefinitionTurns)

OutsideAllowance(model) == model \notin RequestModels

ModelOf(config) == IF OutsideAllowance(config.model) THEN HostModel ELSE config.model

ChangeOverlay(turns) ==
    /\ begun.overlays < MaxOverlays
    /\ overlay # turns
    /\ overlay' = turns
    /\ begun' = [begun EXCEPT !.overlays = @ + 1]
    /\ UNCHANGED <<registry, memory, setup, mcp, asker>>

----------------------------------------------------------------------------
(* Preparing a turn *)

(* A request without a host context, or without a config, gets the         *)
(* session's last one.                                                     *)
Said(s, host, config) ==
    [host |-> IF host = HostOmitted THEN memory[s].host ELSE host,
     config |-> IF config = ConfigOmitted THEN memory[s].config ELSE config]

Configured(t, config) ==
    [t EXCEPT !.limit = RequestLimit(config), !.ceiling = Lesser(Trusted, DefinitionTurns),
              !.model = ModelOf(config), !.pc = "inputs"]

NewTurn(said, mode) ==
    [pc |-> "deps", host |-> said.host, then |-> registry.tools, mode |-> mode,
     listed |-> IF mode = "host_tools" THEN {} ELSE Listing(said.host),
     callable |-> IF mode = "host_tools" THEN {} ELSE Toolset(said.host),
     hosts |-> IF mode = "host_tools" THEN said.host.actions
               ELSE HostTools \union RequestActions(said.host),
     config |-> said.config, limit |-> 0, ceiling |-> 0, model |-> HostModel, used |-> 0,
     call |-> NoCall, helper |-> {}]

(* A host_tools turn is given the actions its host declared and nothing    *)
(* else; "hold" is its own decision and may not be declared.  A text turn  *)
(* may await the definition's dependencies before the configuration is     *)
(* resolved.                                                               *)
Prepare(s, host, config, mode, deps) ==
    LET said == Said(s, host, config)
        new == NewTurn(said, mode)
        refused == mode = "host_tools" /\ "hold" \in said.host.actions
    IN /\ setup[s] = NoTurn
       /\ begun.turns < MaxTurns
       /\ deps => mode = "text"
       /\ begun' = [begun EXCEPT !.turns = @ + 1]
       /\ memory' = [memory EXCEPT ![s] = said]
       /\ registry' = IF mode = "text" THEN Cached(said.host) ELSE registry
       /\ setup' = [setup EXCEPT ![s] = IF refused THEN NoTurn
                                        ELSE IF deps THEN new
                                        ELSE Configured(new, said.config)]
       /\ UNCHANGED <<overlay, mcp, asker>>

DepsReady(s) ==
    /\ setup[s].pc = "deps"
    /\ setup' = [setup EXCEPT ![s] = Configured(setup[s], setup[s].config)]
    /\ UNCHANGED <<registry, overlay, memory, begun, mcp, asker>>

BuildAgent(s) ==
    /\ setup[s].pc = "inputs"
    /\ setup' = [setup EXCEPT ![s].pc = "model"]
    /\ UNCHANGED <<registry, overlay, memory, begun, mcp, asker>>

----------------------------------------------------------------------------
(* Running it *)

Becomes(s, t) ==
    /\ setup' = [setup EXCEPT ![s] = t]
    /\ UNCHANGED <<registry, overlay, memory, begun, mcp, asker>>

(* A request to the model: it answers, asks the host, or calls a tool.  At *)
(* the limit the run ends instead.                                         *)
AskModel(s) ==
    /\ setup[s].pc = "model"
    /\ IF setup[s].used >= setup[s].limit
       THEN Becomes(s, NoTurn)
       ELSE \/ Becomes(s, NoTurn)
            \/ \E tool \in setup[s].callable \ {Subagent} :
                 Becomes(s, [setup[s] EXCEPT !.used = @ + 1, !.pc = "tool",
                               !.call = [tool |-> tool, attempts |-> 1, effects |-> 0]])

HelperTools(s) == Listing(setup[s].host) \ {Subagent}

Delegate(s) ==
    /\ setup[s].pc = "model"
    /\ setup[s].used < setup[s].limit
    /\ Subagent \in setup[s].callable
    /\ Becomes(s, [setup[s] EXCEPT !.used = @ + 1, !.pc = "helper", !.helper = HelperTools(s)])

(* It counts its requests in the turn's own usage, within the turn's       *)
(* limit and its own.                                                      *)
BugHelperLimit(s) == SubagentTurns
HelperLimit(s) == Lesser(SubagentTurns, setup[s].limit)

HelperAsks(s) ==
    /\ setup[s].pc = "helper"
    /\ setup[s].used < HelperLimit(s)
    /\ \E tool \in setup[s].helper :
         Becomes(s, [setup[s] EXCEPT !.used = @ + 1, !.pc = "helper tool",
                       !.call = [tool |-> tool, attempts |-> 1, effects |-> 0]])

(* It answers, fails, reaches its limit, or the tool's own timeout ends    *)
(* it; each is one result of the call.                                     *)
HelperEnds(s) ==
    /\ setup[s].pc = "helper"
    /\ \E asked \in {0, 1} :
         /\ setup[s].used + asked <= HelperLimit(s) \/ asked = 0
         /\ Becomes(s, [setup[s] EXCEPT !.used = @ + asked, !.pc = "model", !.helper = {}])

AfterCall(s) == [setup[s] EXCEPT !.pc = IF @ = "tool" THEN "model" ELSE "helper",
                                 !.call = NoCall]

(* The handler returns, or raises an error the model gets as a result.     *)
Handled(s) ==
    /\ setup[s].pc \in {"tool", "helper tool"}
    /\ Becomes(s, AfterCall(s))

(* An attempt timed out or lost its connection; what it was to do may be   *)
(* done.  Only an idempotent tool is tried again, once.                    *)
BugRetries(call) == call.attempts < 2
Retries(call) == call.tool \in Idempotent /\ call.attempts < 2

Interrupted(s) ==
    /\ setup[s].pc \in {"tool", "helper tool"}
    /\ LET call == setup[s].call IN
       Becomes(s, IF Retries(call)
                  THEN [setup[s] EXCEPT !.call.attempts = @ + 1, !.call.effects = @ + 1]
                  ELSE AfterCall(s))

----------------------------------------------------------------------------
(* The MCP summary *)

McpStart == [started |-> TRUE, cached |-> FALSE, producers |-> 0, calls |-> 0]

(* One producer fills the cache, whoever waits for it.                     *)
BugNeedsProducer == TRUE
NeedsProducer == mcp.producers = 0

AskSummary(a) ==
    /\ asker[a] = "none"
    /\ mcp.calls < MaxMcpCalls
    /\ IF ~mcp.started \/ mcp.cached
       THEN /\ mcp' = [mcp EXCEPT !.calls = @ + 1]
            /\ UNCHANGED asker
       ELSE /\ mcp' = [mcp EXCEPT !.calls = @ + 1,
                                  !.producers = IF NeedsProducer THEN @ + 1 ELSE @]
            /\ asker' = [asker EXCEPT ![a] = "waiting"]
    /\ UNCHANGED <<registry, overlay, memory, setup, begun>>

(* A server that cannot be listed counts as one without tools.             *)
SummaryBuilt ==
    /\ mcp.producers > 0
    /\ mcp' = [mcp EXCEPT !.producers = 0, !.cached = TRUE]
    /\ asker' = [a \in Askers |-> IF asker[a] = "waiting" THEN "none" ELSE asker[a]]
    /\ UNCHANGED <<registry, overlay, memory, setup, begun>>

(* The producer is shielded from the cancellation of one that waits.       *)
BugAfterCancel(a) == [b \in Askers |-> IF b = a THEN "none"
                                       ELSE IF asker[b] = "waiting" THEN "lost" ELSE asker[b]]
AfterCancel(a) == [asker EXCEPT ![a] = "none"]

AskerCancelled(a) ==
    /\ asker[a] = "waiting"
    /\ asker' = AfterCancel(a)
    /\ UNCHANGED <<registry, overlay, memory, setup, begun, mcp>>

StopMcp ==
    /\ mcp.started
    /\ mcp' = [mcp EXCEPT !.started = FALSE, !.cached = FALSE, !.producers = 0]
    /\ asker' = [a \in Askers |-> IF asker[a] = "waiting" THEN "lost" ELSE asker[a]]
    /\ UNCHANGED <<registry, overlay, memory, setup, begun>>

----------------------------------------------------------------------------
SetupInit ==
    /\ registry = [tools |-> Tools \intersect (Scope \union {Subagent}),
                   listed |-> Empties, built |-> Empties]
    /\ overlay = 0
    /\ memory = [s \in Sessions |-> [host |-> NoHost, config |-> NoConfig]]
    /\ setup = [s \in Sessions |-> NoTurn]
    /\ begun = [turns |-> 0, overlays |-> 0]
    /\ mcp = McpStart
    /\ asker = [a \in Askers |-> "none"]

SetupNext ==
    \/ \E tool \in Tools : Register(tool)
    \/ \E turns \in OverlayTurns \union {0} : ChangeOverlay(turns)
    \/ \E s \in Sessions :
        \/ \E host \in Hosts : WarmSession(s, host)
        \/ \E host \in Hosts \union {HostOmitted}, config \in Configs \union {ConfigOmitted},
              mode \in {"text", "host_tools"}, deps \in BOOLEAN :
             Prepare(s, host, config, mode, deps)
        \/ DepsReady(s)
        \/ BuildAgent(s)
        \/ AskModel(s)
        \/ Delegate(s)
        \/ HelperAsks(s)
        \/ HelperEnds(s)
        \/ Handled(s)
        \/ Interrupted(s)
    \/ \E a \in Askers : AskSummary(a) \/ AskerCancelled(a)
    \/ SummaryBuilt
    \/ StopMcp

SetupSpec == SetupInit /\ [][SetupNext]_setupVars

----------------------------------------------------------------------------
(* Properties *)

Active(s) == setup[s] # NoTurn

(* However sessions, registrations and warmed caches interleave, a turn    *)
(* lists and can call exactly the backend tools its page allows of those   *)
(* registered when it was prepared; its host tools are the configured ones *)
(* and the actions its own host declared; and a subagent never gets past   *)
(* its turn's page or delegates further.                                   *)
ToolsAreTheTurns ==
    \A s \in Sessions : Active(s) =>
        /\ setup[s].mode = "text" =>
             /\ setup[s].listed = Allowed(setup[s].host.page, setup[s].then)
             /\ setup[s].callable = setup[s].listed
             /\ setup[s].hosts \ HostTools \subseteq setup[s].host.actions
             /\ setup[s].hosts \cap setup[s].listed = {}
        /\ setup[s].mode = "host_tools" =>
             setup[s].callable = {} /\ setup[s].hosts = setup[s].host.actions
        /\ setup[s].helper \subseteq Allowed(setup[s].host.page, Tools) \ {Subagent}

(* A turn never makes more requests to a model than the host allowed when  *)
(* its configuration was resolved, its subagents' requests included,       *)
(* whatever the request or the session's remembered config asked for.      *)
BudgetKept ==
    \A s \in Sessions : Active(s) /\ setup[s].pc # "deps" =>
        /\ setup[s].used <= setup[s].ceiling
        /\ setup[s].model \in RequestModels \union {HostModel}

(* What a timed-out call may already have done is done at most once, unless*)
(* the tool says that doing it again is harmless.                          *)
NoSecondWrite ==
    \A s \in Sessions : Active(s) =>
        setup[s].call.effects = 0 \/ setup[s].call.tool \in Idempotent

(* The servers are listed by one producer at a time, and a request that    *)
(* goes away takes no other request's answer with it.                      *)
SummaryShared ==
    /\ mcp.producers <= 1
    /\ mcp.started => \A a \in Askers : asker[a] # "lost"

SetupHolds == ToolsAreTheTurns /\ BudgetKept /\ NoSecondWrite /\ SummaryShared
=============================================================================
