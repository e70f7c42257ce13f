----------------------------- MODULE MCProcess -----------------------------
(* Instances of what a process has one of: the admission of calls to its   *)
(* sessions (MCSessionAdmission), its start and stop with the settings it  *)
(* loads, the login at a model provider, the keys of the others and the    *)
(* store of its artifacts.  They share no state, so a behaviour of the run *)
(* is one of a single component.                                           *)
EXTENDS MCSessionAdmission, RuntimeStart, OAuthLogin, ModelAccess, ArtifactStores

VARIABLE part
allVars == <<vars, runtimeVars, loginVars, accessVars, storesVars, part>>

AllInit ==
    /\ part \in {"admission", "start", "login", "access", "stores"}
    /\ Init /\ (part # "admission" => owner = Missing)
    /\ RuntimeInit
    /\ part # "start" => /\ server.schema = "old"
                         /\ \A p \in Processes : Config(p).required /\ Config(p).migrate
    /\ LoginInit
    /\ part # "login" => saved = 0 /\ cliLogin = 0 /\ \A t \in Tokens : age[t] = "fresh"
    /\ AccessInit
    /\ part # "access" => /\ llm = CHOOSE l \in Configs : TRUE
                          /\ \A p \in Providers : fromShell[p] = NoKey /\ fromJson[p] = NoKey
    /\ StoresInit /\ (part # "stores" => rule.activate /\ versionRows = {})
AllNext ==
    \/ /\ part = "admission" /\ Next
       /\ UNCHANGED <<runtimeVars, loginVars, accessVars, storesVars, part>>
    \/ /\ part = "start" /\ RuntimeNext
       /\ UNCHANGED <<vars, loginVars, accessVars, storesVars, part>>
    \/ /\ part = "login" /\ LoginNext
       /\ UNCHANGED <<vars, runtimeVars, accessVars, storesVars, part>>
    \/ /\ part = "access" /\ AccessNext
       /\ UNCHANGED <<vars, runtimeVars, loginVars, storesVars, part>>
    \/ /\ part = "stores" /\ StoresNext
       /\ UNCHANGED <<vars, runtimeVars, loginVars, accessVars, part>>
AllSpec == AllInit /\ [][AllNext]_allVars

(* Models of two providers, one by an alias, and settings that fall back.  *)
Own(n) == [provider |-> "openai", alias |-> FALSE, name |-> n]
Other == [provider |-> "anthropic", alias |-> FALSE, name |-> "a"]
Alias == [provider |-> "openai", alias |-> TRUE, name |-> "m1"]
KnownModels == {Own("m1"), Own("m2"), Alias, Other}
Defaults == [p \in Providers |-> IF p = "openai" THEN Own("m1") ELSE Other]
Settings == [codex_only : BOOLEAN, fallback : {TRUE}, primary : {Other, Alias},
             codex_models : {{"m1"}}]

(* An artifact of two subjects' kinds, proposed or edited on its own.      *)
TwoArtifacts == {[profile |-> "p", subject |-> "s", name |-> "b"],
                 [profile |-> "q", subject |-> "", name |-> "c"]}
TwoRules == {[edit |-> "propose", activate |-> FALSE, host |-> TRUE],
             [edit |-> "autonomous", activate |-> TRUE, host |-> FALSE]}

(* Processes start together, or one is given settings and starts again, or *)
(* each is given one while nothing fails.                                  *)
OneStart ==
    /\ history.starts <= 1 => proc["p2"] = Off(Config("p2"))
    /\ \/ history.updates = 0
       \/ proc["p2"] = Off(Config("p2")) /\ Config("p1").migrate
       \/ history.starts <= 2 /\ history.updates <= 1 /\ history.faults = 0

(* A third token, or a restart.                                            *)
OneLogin == tokensIssued <= 2 \/ (stops = 0 /\ ~blind)

(* A client that is built is used once.                                    *)
OneBuilt == built = NotBuilt

(* The first text is "x", and a third comes where the assistant decides.   *)
OneStored == /\ \A r \in versionRows : r.id = 1 => r.text = "x"
             /\ idsIssued <= 2 \/ rule.activate

OneStory == OneScenario /\ OneStart /\ OneLogin /\ OneBuilt /\ OneStored

-----------------------------------------------------------------------------
(* What the stores answer is a property of their own behaviours; those of  *)
(* the other components hold also while they stand still.                  *)

=============================================================================
