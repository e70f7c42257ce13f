------------------------------- MODULE MCTurn -------------------------------
(* Instances of what a turn is made of: host calls (MCHostActions), the    *)
(* turn's setup, its prompt, the model's input, the agent run and its      *)
(* stream, the AG-UI runs that carry it and the media jobs its tools       *)
(* start.  They share no state, so a behaviour of the run is one of a      *)
(* single component.                                                       *)
EXTENDS MCHostActions, TurnSetup, PromptInputs, ModelInput, TurnEvents, AgUiRuns, MediaJobs

VARIABLE part
allVars == <<vars, setupVars, promptInputVars, inputVars, turnVars, agUiVars, mediaVars, part>>

AllInit == /\ Init /\ SetupInit /\ PromptsInit /\ InputInit /\ TurnInit /\ AgUiInit /\ MediaInit
           /\ part \in {"host", "setup", "prompt", "input", "run", "agui", "media"}
AllNext ==
    \/ /\ part = "host" /\ Next
       /\ UNCHANGED <<setupVars, promptInputVars, inputVars, turnVars, agUiVars, mediaVars, part>>
    \/ /\ part = "setup" /\ SetupNext
       /\ UNCHANGED <<vars, promptInputVars, inputVars, turnVars, agUiVars, mediaVars, part>>
    \/ /\ part = "prompt" /\ PromptsNext
       /\ UNCHANGED <<vars, setupVars, inputVars, turnVars, agUiVars, mediaVars, part>>
    \/ /\ part = "input" /\ InputNext
       /\ UNCHANGED <<vars, setupVars, promptInputVars, turnVars, agUiVars, mediaVars, part>>
    \/ /\ part = "run" /\ TurnNext
       /\ UNCHANGED <<vars, setupVars, promptInputVars, inputVars, agUiVars, mediaVars, part>>
    \/ /\ part = "agui" /\ AgUiNext
       /\ UNCHANGED <<vars, setupVars, promptInputVars, inputVars, turnVars, mediaVars, part>>
    \/ /\ part = "media" /\ MediaNext
       /\ UNCHANGED <<vars, setupVars, promptInputVars, inputVars, turnVars, agUiVars, part>>
AllSpec == AllInit /\ [][AllNext]_allVars

(* What a host declares, and what a session's settings may say.            *)
HostOffers == {[page |-> "scoped", actions |-> {}], [page |-> "other", actions |-> {"write"}],
               [page |-> "scoped", actions |-> {"hold"}]}
Settings == {[turns |-> 4, model |-> "x"], [turns |-> 1, model |-> "m"]}

(* MCP servers are asked while no turn is set up, and turns are set up one *)
(* at a time: two, or one and a change of the overlay, the second of these *)
(* when every tool is registered.  Sessions are alike, and so are askers:  *)
(* s1 and a1 are first.                                                    *)
OneSetup ==
    /\ \/ mcp = McpStart
       \/ begun.turns = 0 /\ begun.overlays = 0 /\ registry.built = Empties /\ registry.tools # Tools
    /\ Cardinality({s \in Sessions : setup[s].pc \notin {"none", "deps"}}) <= 1
    /\ \/ begun.turns + begun.overlays <= 1
       \/ begun.turns + begun.overlays = 2 /\ registry.tools = Tools
    /\ begun.turns <= 1 => setup["s2"] = NoTurn
    /\ asker["a1"] = "none" => asker["a2"] = "none"

(* Two profiles, one of which includes the other and has a document and an *)
(* artifact per subject, a text of which is left from before it had.       *)
(* The other has no subjects; prompts are for "s" or none, one is saved.   *)
Declared2 == [q \in {"p", "o"} |->
    IF q = "p" THEN <<[name |-> "a", scope |-> "profile"], [name |-> "b", scope |-> "subject"]>>
    ELSE <<[name |-> "working_memory", scope |-> "profile"]>>]
Includes == [q \in {"p", "o"} |-> IF q = "p" THEN <<"o">> ELSE <<>>]
Collections == [q \in {"p", "o"} |-> IF q = "p" THEN {"d"} ELSE {}]
FormerTexts == {Slot("p", "", "b")}
OnePrompt ==
    /\ records = {} /\ (snapshots = {} \/ \E p \in Builds : prompt[p].step = "save")
    /\ \A p \in Builds : prompt[p] # NotBuilding => prompt[p].of.subject # "t"
    /\ recent["o"] = <<>>

(* The native events of two runs, or three runs without.                   *)
FewEvents == (\E r \in Runs : run[r].events > 0) => Len(run) <= 2

(* Videos or images, which are asked for in order.                         *)
InOrder(jobs) == \A n, m \in DOMAIN jobs : n < m /\ jobs[m] # "new" => jobs[n] # "new"
OneKind == /\ (\A v \in Videos : videoJob[v] = "new") \/ (\A i \in Images : image[i] = "new")
           /\ InOrder(videoJob) /\ InOrder(image)

OneStory == OneScenario /\ OneSetup /\ OnePrompt /\ FewEvents /\ OneKind

-----------------------------------------------------------------------------
(* The properties of each component, of its own behaviours.                *)

PromptSafety == part = "prompt" => PromptsSafety
RunSafety    == part = "run" => TurnIsRecorded
=============================================================================
