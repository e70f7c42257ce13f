----------------------------- MODULE MCRecords -----------------------------
(* Instances of HostState, ActionRecords and Artifacts.  The three share   *)
(* no state, so a behaviour of one run is one of a single component.       *)
EXTENDS HostState, ActionRecords, Artifacts, TLC

VARIABLE part
vars == <<hostVars, actionVars, artifactVars, part>>

Init == /\ HostInit /\ ActionInit /\ ArtifactInit
        /\ part \in {"host", "action", "artifact"}
        /\ part # "artifact" => policy.activate /\ default = ""
Next == \/ part = "host" /\ HostNext /\ UNCHANGED <<actionVars, artifactVars, part>>
        \/ part = "action" /\ ActionNext /\ UNCHANGED <<hostVars, artifactVars, part>>
        \/ part = "artifact" /\ ArtifactNext /\ UNCHANGED <<hostVars, actionVars, part>>
Spec == Init /\ [][Next]_vars

(* An assistant that proposes, and one that edits and decides.             *)
TwoPolicies == {[edit |-> "propose", activate |-> FALSE, host |-> TRUE],
                [edit |-> "autonomous", activate |-> TRUE, host |-> TRUE]}

NoPrompts == \A v \in Views, p \in Prompts : cached[v] = Idle /\ load[p] = Idle

(* An artifact's life has one scenario.  Decide: requests that meet, no    *)
(* restart.  Seed: requests one after another, and restarts, a second one  *)
(* while there are few.  Prompt: two writes of hosts, none a proposal or   *)
(* conditional, that meet prompts of which one view is kept.               *)
OneScenario ==
    \/ NoPrompts /\ starts = 0
    \/ /\ NoPrompts /\ (commits <= 2 \/ starts <= 1)
       /\ \E w \in Writers : \A u \in Writers \ {w} : write[u] = Idle
    \/ /\ starts = 0 /\ commits <= 2 /\ policy.activate /\ default = "t1"
       /\ \A n \in Numbered(versions) : versions[n].status \in {"active", "superseded"}
                                       /\ versions[n].kind # "assistant"
       /\ \A w \in Writers : write[w].step = "begun" =>
                                   write[w].expected = NotAsked /\ write[w].kind = "host"
       /\ \A v \in Views : cached[v] = Idle \/ \A u \in Views \ {v} : cached[u] = Idle

Symmetric == Permutations(Writers) \cup Permutations(Views)
             \cup Permutations(Prompts)
=============================================================================
