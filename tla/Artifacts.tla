----------------------------- MODULE Artifacts -----------------------------
(***************************************************************************)
(* The artifact service (services/artifacts) with a required database: the *)
(* versions of one artifact of a profile, the requests that write them,    *)
(* the cached texts of the profile's views, and the seeding of defaults at *)
(* a start.  Artifacts, profiles and subjects do not mix: each has rows    *)
(* and a lock of its own, and one is enough here.                          *)
(*                                                                         *)
(* A write is a transaction under the artifact's advisory lock: it reads,  *)
(* checks, writes and commits, and only then moves the generation on, so   *)
(* that no view answers from before it.  It can fail, or be cancelled      *)
(* while its commit is awaited, which may then have happened or not.       *)
(* Events about proposals and decisions are left out.                      *)
(***************************************************************************)
EXTENDS Integers, FiniteSets

CONSTANTS
    Writers,        \* requests that write, one at a time each
    Texts,          \* stripped, not empty
    Policies,       \* [edit, activate, host]: ArtifactPolicy
    Keep,           \* keep_versions
    Views,          \* of the profile: its own and one per subject
    Prompts,        \* prompts under construction
    MaxVersion,     \* bound: versions
    MaxCommits,     \* bound: writes
    MaxStarts       \* bound: restarts

ASSUME ArtifactAssumption == Keep \in Nat \ {0} /\ MaxVersion \in Nat \ {0}

VARIABLES
    policy,         \* the artifact's
    default,        \* its default text, "" for none
    versions,       \* [Numbers -> Version]: committed rows
    locked,         \* the writer that holds the lock
    write,          \* [Writers -> what it does]
    generation,     \* _generation of the owner
    cached,         \* [Views -> its cached text]
    load,           \* [Prompts -> _load_active]
    commits, starts,    \* what the bounds count
    lapsed,         \* a commit was made whose generation is not moved on
    touched         \* history: since the last deletion others than seeds wrote

storeVars == <<policy, default, versions, touched>>
promptVars == <<cached, load>>
boundVars == <<commits, starts>>
artifactVars == <<storeVars, locked, write, generation, promptVars, boundVars, lapsed>>

Numbers == 1..MaxVersion
NoVersion == [status |-> "none"]
Nobody == "nobody"
Numbered(vs) == {n \in Numbers : vs[n] # NoVersion}
Newest(vs) == IF Numbered(vs) = {} THEN 0
              ELSE CHOOSE n \in Numbered(vs) : \A m \in Numbered(vs) : m <= n
ActiveOf(vs) == {n \in Numbers : vs[n].status = "active"}
Active(vs) == IF ActiveOf(vs) = {} THEN 0 ELSE CHOOSE n \in ActiveOf(vs) : TRUE

(* The text and version a prompt is given.                                 *)
Live(vs) == IF Active(vs) = 0 THEN [text |-> default, version |-> 0]
            ELSE [text |-> vs[Active(vs)].text, version |-> Active(vs)]

-----------------------------------------------------------------------------
(* The store: propose, approve, reject, prune_superseded.                  *)

Proposed(vs, text, kind) ==
    [vs EXCEPT ![Newest(vs) + 1] =
        [text |-> text, status |-> "pending", kind |-> kind, decider |-> Nobody]]

Approved(vs, n, decider) ==
    [m \in Numbers |->
        IF m = n THEN [vs[n] EXCEPT !.status = "active",
                           !.decider = IF vs[n].status = "pending" THEN decider ELSE @]
        ELSE IF m \in ActiveOf(vs) THEN [vs[m] EXCEPT !.status = "superseded"]
        ELSE vs[m]]

Declined(vs, n, decider) ==
    IF vs[n].status = "pending"
    THEN [vs EXCEPT ![n].status = "rejected", ![n].decider = decider] ELSE vs

Superseded(vs) == {n \in Numbers : vs[n].status = "superseded"}
Kept(vs) == {n \in Superseded(vs) : Cardinality({m \in Superseded(vs) : m > n}) < Keep}
Pruned(vs) == [n \in Numbers |-> IF n \in Superseded(vs) \ Kept(vs) THEN NoVersion ELSE vs[n]]

(* _seed_replaceable, and what _seed_defaults makes of the versions.       *)
BugReplaceable(vs, text) ==   \* Mutant: the newest need not be active.
    /\ \A n \in Numbered(vs) : vs[n].kind = "seed"
    /\ vs[Newest(vs)].text # text
Replaceable(vs, text) ==
    /\ vs[Newest(vs)].kind = "seed" /\ Newest(vs) = Active(vs)
    /\ vs[Newest(vs)].text # text
    /\ \A n \in Numbered(vs) : vs[n].kind = "seed"

Emptied == [n \in Numbers |-> NoVersion]
Seeded(vs, text) ==
    IF Numbered(vs) # {} /\ ~Replaceable(vs, text) THEN vs
    ELSE IF text = "" THEN Emptied
    ELSE LET new == Proposed(vs, text, "seed") IN Pruned(Approved(new, Newest(new), Nobody))

-----------------------------------------------------------------------------
(* Writers.                                                                *)

(* _permitted                                                              *)
Permitted(kind, action) ==
    IF kind = "host" THEN policy.host
    ELSE CASE action = "propose" -> policy.edit \in {"propose", "autonomous"}
           [] action = "update" -> policy.edit = "autonomous"
           [] action \in {"activate", "reject"} -> policy.activate
           [] OTHER -> FALSE

Idle == [step |-> "idle"]
Begun(action, kind, n, text, expected) ==
    [step |-> "begun", action |-> action, kind |-> kind, number |-> n, text |-> text,
     expected |-> expected]
NotAsked == -1

ArtifactInit ==
    /\ policy \in Policies /\ default \in Texts \cup {""}
    /\ versions = Seeded(Emptied, default)
    /\ locked = Nobody /\ write = [w \in Writers |-> Idle]
    /\ generation = 0 /\ cached = [v \in Views |-> Idle] /\ load = [p \in Prompts |-> Idle]
    /\ commits = 0 /\ starts = 0 /\ lapsed = FALSE /\ touched = FALSE

BugUnlocked == TRUE   \* Mutant: the transactions do not wait for one another.
Unlocked == locked = Nobody

Begin(w, b) ==
    /\ write[w] = Idle /\ Permitted(b.kind, b.action) /\ Unlocked
    /\ commits < MaxCommits
    /\ locked' = w /\ write' = [write EXCEPT ![w] = b]
    /\ UNCHANGED <<storeVars, generation, promptVars, boundVars, lapsed>>

(* propose and update: refused if the active version is not the expected   *)
(* one, and with nothing to do if it has the text.                         *)
BeginWrite(w, kind, action, text, expected) ==
    /\ action \in {"propose", "update"} /\ Newest(versions) < MaxVersion
    /\ expected \in {NotAsked, Active(versions)}
    /\ Active(versions) # 0 => versions[Active(versions)].text # text
    /\ Begin(w, Begun(action, kind, 0, text, expected))

(* A decision stands: what was rejected is not activated.                  *)
BeginDecision(w, kind, action, n) ==
    /\ \/ action = "activate" /\ versions[n].status \notin {"none", "rejected"}
       \/ action = "reject" /\ versions[n].status = "pending"
    /\ Begin(w, Begun(action, kind, n, "", NotAsked))

BeginDelete(w, kind) == Begin(w, Begun("delete", kind, 0, "", NotAsked))

(* What the transaction of b makes of the versions.                        *)
Result(b) ==
    CASE b.action = "propose" -> Proposed(versions, b.text, b.kind)
      [] b.action = "update" ->
           LET new == Proposed(versions, b.text, b.kind)
           IN Pruned(Approved(new, Newest(new), Nobody))
      [] b.action = "activate" -> Pruned(Approved(versions, b.number, b.kind))
      [] b.action = "reject" -> Declined(versions, b.number, b.kind)
      [] OTHER -> Emptied

Moves(b) == b.action \in {"update", "activate", "delete"}

Stores(b) ==
    /\ versions' = Result(b)
    /\ touched' = CASE b.action \in {"propose", "update"} -> TRUE
                    [] b.action = "delete" -> FALSE
                    [] OTHER -> touched

Commit(w) ==
    /\ write[w].step = "begun" /\ Stores(write[w])
    /\ locked' = Nobody /\ commits' = commits + 1
    /\ write' = [write EXCEPT ![w] = IF Moves(@) THEN [step |-> "committed"] ELSE Idle]
    /\ UNCHANGED <<policy, default, generation, promptVars, starts, lapsed>>

(* invalidate                                                              *)
Invalidate(w) ==
    /\ write[w].step = "committed"
    /\ generation' = generation + 1 /\ lapsed' = FALSE
    /\ write' = [write EXCEPT ![w] = Idle]
    /\ UNCHANGED <<storeVars, locked, promptVars, boundVars>>

(* The transaction fails, or is cancelled before its commit is sent.       *)
Fail(w) ==
    /\ write[w].step = "begun"
    /\ locked' = Nobody /\ write' = [write EXCEPT ![w] = Idle]
    /\ commits' = commits + 1
    /\ UNCHANGED <<storeVars, generation, promptVars, starts, lapsed>>

(* It is cancelled, or the connection is lost, while the commit is awaited *)
(* and happens all the same.                                               *)
LoseAnswer(w) ==
    /\ write[w].step = "begun" /\ Stores(write[w])
    /\ locked' = Nobody /\ write' = [write EXCEPT ![w] = Idle]
    /\ commits' = commits + 1 /\ lapsed' = TRUE
    /\ UNCHANGED <<policy, default, generation, promptVars, starts>>

-----------------------------------------------------------------------------
(* Prompts: _load_active of a view.  A read that fails changes nothing.    *)

(* A cached text that is current and has not expired is used as it is;     *)
(* otherwise the store is read.                                            *)
LoadStarts(p, v) ==
    /\ load[p] = Idle
    /\ load' = [load EXCEPT ![p] = [step |-> "query", view |-> v, gen |-> generation]]
    /\ UNCHANGED <<storeVars, locked, write, generation, cached, boundVars, lapsed>>

LoadReads(p) ==
    /\ load[p].step = "query"
    /\ load' = [load EXCEPT ![p] = [step |-> "read", view |-> load[p].view,
                                    gen |-> load[p].gen, live |-> Live(versions)]]
    /\ UNCHANGED <<storeVars, locked, write, generation, cached, boundVars, lapsed>>

(* It is cached unless a write has moved the generation on meanwhile.      *)
BugCurrent(gen) == TRUE   \* Mutant: it is cached in any case.
Current(gen) == gen = generation

LoadEnds(p) ==
    /\ load[p].step = "read"
    /\ cached' = IF Current(load[p].gen)
                 THEN [cached EXCEPT ![load[p].view] =
                         [step |-> "cached", gen |-> generation, live |-> load[p].live]]
                 ELSE cached
    /\ load' = [load EXCEPT ![p] = Idle]
    /\ UNCHANGED <<storeVars, locked, write, generation, boundVars, lapsed>>

-----------------------------------------------------------------------------
(* The process dies, or is stopped, and starts with its default as it was, *)
(* changed or emptied.                                                     *)
Start(text) ==
    /\ starts < MaxStarts /\ starts' = starts + 1
    /\ default' = text /\ versions' = Seeded(versions, text)
    /\ Newest(versions) < MaxVersion
    /\ locked' = Nobody /\ write' = [w \in Writers |-> Idle]
    /\ generation' = 0 /\ lapsed' = FALSE
    /\ cached' = [v \in Views |-> Idle] /\ load' = [p \in Prompts |-> Idle]
    /\ UNCHANGED <<policy, touched, commits>>

ArtifactNext ==
    \/ \E w \in Writers :
          \/ \E kind \in {"assistant", "host"} :
                \/ \E action \in {"propose", "update"}, text \in Texts,
                      expected \in 0..MaxVersion \cup {NotAsked} :
                         BeginWrite(w, kind, action, text, expected)
                \/ \E action \in {"activate", "reject"}, n \in Numbers :
                         BeginDecision(w, kind, action, n)
                \/ BeginDelete(w, kind)
          \/ Commit(w) \/ Invalidate(w) \/ Fail(w) \/ LoseAnswer(w)
    \/ \E p \in Prompts :
          (\E v \in Views : LoadStarts(p, v)) \/ LoadReads(p) \/ LoadEnds(p)
    \/ \E text \in Texts \cup {""} : Start(text)

ArtifactSpec == ArtifactInit /\ [][ArtifactNext]_artifactVars

-----------------------------------------------------------------------------
(* Properties.                                                             *)

(* A write "affects the next prompt built": once it has returned, no view  *)
(* has an older text to answer with, also from a read that began before    *)
(* it.  A write whose answer was lost is seen when the cached text expires *)
(* or the next write returns.                                              *)
PromptIsFresh ==
    \A v \in Views :
        (/\ cached[v] # Idle /\ cached[v].gen = generation
         /\ ~lapsed /\ \A w \in Writers : write[w].step # "committed")
            => cached[v].live = Live(versions)

(* "A shipped default never overwrites anyone's choice": a start changes   *)
(* the stored versions only while nobody else has written one since they   *)
(* were last deleted, and the newest is the active one.                    *)
SeedsYield ==
    [][starts' # starts /\ versions' # versions =>
             ~touched /\ Active(versions) = Newest(versions)]_artifactVars

(* Decisions stand, whatever is decided at the same time: what was         *)
(* rejected stays so until the artifact is deleted, one version at most is *)
(* active, an edit replaces the version its author named, and what the     *)
(* assistant wrote is shown to the model only as the policy allows.        *)
DecisionsStand ==
    [][/\ \A n \in Numbers : versions[n].status = "rejected" =>
             versions'[n] = versions[n] \/ versions' = Emptied
       /\ Cardinality(ActiveOf(versions')) <= 1
       /\ \A w \in Writers :
             (/\ write[w].step = "begun" /\ write[w].expected # NotAsked
              /\ versions' # versions /\ write'[w] # write[w]
              /\ starts' = starts) => write[w].expected = Active(versions)
       /\ \A n \in ActiveOf(versions') :
             versions'[n].kind = "assistant" /\ ~policy.activate
                /\ policy.edit # "autonomous" => versions'[n].decider = "host"]_artifactVars

(* An artifact's texts are whose they should be: fresh in prompts, the     *)
(* user's before the shipped ones, and as they were decided.               *)
ArtifactsHold == []PromptIsFresh /\ SeedsYield /\ DecisionsStand
=============================================================================
