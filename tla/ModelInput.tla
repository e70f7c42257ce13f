----------------------------- MODULE ModelInput -----------------------------
(***************************************************************************)
(* What the model is sent of a conversation that outgrows its budget       *)
(* (services/history): old tool results are cleared, then the older        *)
(* messages become a summary, kept in the session for the branch it was    *)
(* made on.  And the working memory extracted after the turns.  A message  *)
(* is [kind, id, says]: two prompts with the same text have the same       *)
(* `says`.  The dropping of orphans by Pydantic AI is left out.            *)
(***************************************************************************)
EXTENDS Integers, Sequences, FiniteSets, SequencesExt, FiniteSetsExt

CONSTANTS
    Budget,          \* token_budget, in the weights below
    RetainRecent,    \* retain_recent
    ProtectResults,  \* protect_recent_tool_results
    MaxMessages,     \* bound: messages made
    MaxForks         \* bound: edits of earlier prompts

ASSUME InputAssumption ==
    /\ Budget \in Nat /\ RetainRecent \in Nat \ {0} /\ ProtectResults \in Nat
    /\ MaxMessages \in Nat /\ MaxForks \in Nat

VARIABLES
    path,        \* the stored messages from the root to the active leaf
    messages,    \* the message list of the agent run, as Pydantic AI holds it
    own,         \* the ids of the current run's messages
    since,       \* the messages of the current turn, which its row will get
    compaction,  \* COMPACTION_CACHE_KEY: [count, prints, covers]
    modelSaw,    \* the latest model input
    asking,      \* "idle", "request" (a model request is due), "answer"
    chain,       \* the extractions queued behind each other: turns
    extracting,  \* the extractions that have read the memory: [turn, base]
    entries,     \* the turns whose extraction is in the working memory
    learnt,      \* the turns whose extraction has ended well
    made         \* [messages, forks, turns]

inputVars == <<path, messages, own, since, compaction, modelSaw, asking, chain, extracting, entries, learnt, made>>

InputInit ==
    /\ path = <<>> /\ messages = <<>> /\ own = {} /\ since = <<>> /\ modelSaw = <<>>
    /\ compaction = [count |-> 0, prints |-> <<>>, covers |-> {}]
    /\ asking = "idle"
    /\ chain = <<>> /\ extracting = {} /\ entries = {} /\ learnt = {}
    /\ made = [messages |-> 0, forks |-> 0, turns |-> 0]

Message(kind, id, says) == [kind |-> kind, id |-> id, says |-> says, cleared |-> FALSE, covers |-> {}]
Summary(covers) == [kind |-> "summary", id |-> 0, says |-> 0, cleared |-> FALSE, covers |-> covers]

(* _fingerprint: calls and results by their id, text by its content.       *)
PrintOf(m) == <<m.kind, IF m.kind = "prompt" THEN m.says ELSE m.id, m.covers>>
Fingerprint(ms) == [i \in DOMAIN ms |-> PrintOf(ms[i])]

(* _estimate_tokens: a tool result is the long thing, until it is cleared. *)
Weight(m) == IF m.kind = "results" THEN (IF m.cleared THEN 0 ELSE 2) ELSE 1
EstimateTokens(ms) == FoldSeq(LAMBDA m, sum : sum + Weight(m), 0, ms)

(* path_records_to_model_history; the frozen messages are the run's own.   *)
ModelHistory == path
FrozenFrom(ms) == LET at == {i \in DOMAIN ms : ms[i].id \in own} IN IF at = {} THEN Len(ms) ELSE Min(at) - 1

-----------------------------------------------------------------------------
(* _apply_tiered_tool_clearing                                             *)
BugClearable(ms, i) == TRUE                 \* Mutant: the run's own results are cleared too.
Clearable(ms, i) == i <= FrozenFrom(ms)

Clear(ms) ==
    LET results == {i \in DOMAIN ms : ms[i].kind = "results"}
        later(i) == Cardinality({j \in results : j > i})
    IN  [i \in DOMAIN ms |->
            IF i \in results /\ later(i) >= ProtectResults /\ Clearable(ms, i)
            THEN [ms[i] EXCEPT !.cleared = TRUE] ELSE ms[i]]

Split(ms) ==
    LET naive == Min({Len(ms) - RetainRecent, FrozenFrom(ms)})
        safe == {i \in 0..naive : i = 0 \/ ms[i + 1].kind # "results"}
    IN  IF naive < 0 THEN naive ELSE Max(safe)

IsPrompt(m) == m.kind \in {"prompt", "summary"}
Matches(a, b) == IsPrompt(a) /\ IsPrompt(b) /\ PrintOf(a) = PrintOf(b)
HeadOf(ms) == ms[Min({i \in DOMAIN ms : IsPrompt(ms[i])})]

(* _assemble                                                               *)
Assemble(head, covers, tail) ==
    (IF \E m \in ToSet(tail) : Matches(m, head) THEN <<>> ELSE <<head>>) \o <<Summary(covers)>> \o tail

(* _cached_summary: only for a prefix of this history.                     *)
BugCachedSummary(ms) == compaction.count > 0 /\ compaction.count <= Len(ms)   \* Mutant: no fingerprint.
CachedSummary(ms) ==
    /\ compaction.count > 0 /\ compaction.count <= Len(ms)
    /\ Fingerprint(SubSeq(ms, 1, compaction.count)) = compaction.prints

(* summarize_structured, and what replaces it when the model call fails:   *)
(* either way the summary goes on from the one there was.                  *)
Covered(ms) == UNION {IF m.kind = "summary" THEN m.covers ELSE {PrintOf(m)} : m \in ToSet(ms)}
Summarized(existing, ms) == existing \cup Covered(ms)
FallbackCovered(ms) == Covered(ms)          \* Counted and opened, not told.
BugFallback(existing, ms) == FallbackCovered(ms) \* Mutant: the fallback forgets the summary it should extend.
Fallback(existing, ms) == existing \cup FallbackCovered(ms)

(* _compact: what the model is sent and what the session keeps.            *)
Sends(input, kept) == [input |-> input, kept |-> kept]

Compact(ms, works) ==
    LET split == Split(ms)
        head == HeadOf(ms)
        start == IF CachedSummary(ms) THEN compaction.count ELSE 0
        existing == IF CachedSummary(ms) THEN compaction.covers ELSE {}
        reused == Assemble(head, existing, SubSeq(ms, start + 1, Len(ms)))
        older == SubSeq(ms, start + 1, split)
        fold == IF older # <<>> /\ Matches(older[1], head) THEN Tail(older) ELSE older
        covers == IF works THEN Summarized(existing, fold) ELSE Fallback(existing, fold)
    IN  IF split <= 0 THEN Sends(ms, compaction)
        ELSE IF CachedSummary(ms) /\ (split <= start \/ EstimateTokens(reused) <= Budget \/ fold = <<>>)
             THEN Sends(reused, compaction)
        ELSE IF fold = <<>> THEN Sends(ms, compaction)
        ELSE Sends(Assemble(head, covers, SubSeq(ms, split + 1, Len(ms))),
                   [count |-> split, prints |-> Fingerprint(SubSeq(ms, 1, split)), covers |-> covers])

(* prepare_history                                                         *)
Prepared(ms, works) ==
    IF EstimateTokens(ms) <= Budget THEN Sends(ms, compaction)
    ELSE IF EstimateTokens(Clear(ms)) <= Budget THEN Sends(Clear(ms), compaction)
    ELSE Compact(Clear(ms), works)

-----------------------------------------------------------------------------
(* Turns.  A prompt is new text or that of the conversation's first.       *)

Says(history) == {made.messages + 1} \cup {history[1].says : i \in DOMAIN history}

Ask(history) ==
    /\ asking = "idle" /\ made.messages + 2 <= MaxMessages
    /\ \E says \in Says(history) :
         LET prompt == Message("prompt", made.messages + 1, says)
         IN  /\ messages' = Append(history, prompt) /\ since' = <<prompt>>
    /\ own' = {made.messages + 1}
    /\ path' = history
    /\ asking' = "request"
    /\ UNCHANGED <<compaction, modelSaw, chain, extracting, entries, learnt>>

StartMessage ==
    /\ \A i \in DOMAIN path : i = Len(path) => path[i].kind # "calls"
    /\ Ask(ModelHistory)
    /\ made' = [made EXCEPT !.messages = @ + 1]

(* A message whose parent is an earlier reply: another branch.             *)
Fork ==
    /\ made.forks < MaxForks
    /\ \E n \in {i \in 0..Len(path) - 1 : i = 0 \/ path[i].kind = "text"} : Ask(SubSeq(path, 1, n))
    /\ made' = [made EXCEPT !.messages = @ + 1, !.forks = @ + 1]

(* The result of the host call the last turn ended with.                   *)
StartContinuation ==
    /\ asking = "idle" /\ path # <<>> /\ made.messages + 2 <= MaxMessages
    /\ Last(path).kind = "calls"
    /\ LET results == Message("results", made.messages + 1, Last(path).id)
       IN  messages' = Append(ModelHistory, results) /\ since' = <<results>>
    /\ own' = {made.messages + 1} /\ asking' = "request"
    /\ made' = [made EXCEPT !.messages = @ + 1]
    /\ UNCHANGED <<path, compaction, modelSaw, chain, extracting, entries, learnt>>

(* HistoryProcessor.process before a request; Pydantic AI goes on with the *)
(* list it returns.                                                        *)
Process ==
    /\ asking = "request"
    /\ \E works \in BOOLEAN :
         LET p == Prepared(messages, works)
         IN  messages' = p.input /\ modelSaw' = p.input /\ compaction' = p.kept
    /\ asking' = "answer"
    /\ UNCHANGED <<path, own, since, chain, extracting, entries, learnt, made>>

Adds(new) ==
    /\ messages' = messages \o new /\ since' = since \o new
    /\ own' = own \cup {m.id : m \in ToSet(new)}
    /\ made' = [made EXCEPT !.messages = @ + Len(new)]

(* The model calls tools; the results are in the next request.             *)
CallsTools ==
    /\ asking = "answer" /\ made.messages + 3 <= MaxMessages
    /\ LET id == made.messages + 1 IN Adds(<<Message("calls", id, 0), Message("results", id + 1, id)>>)
    /\ asking' = "request"
    /\ UNCHANGED <<path, compaction, modelSaw, chain, extracting, entries, learnt>>

(* It answers, or calls the host: the turn's messages become the row's. A  *)
(* turn that is not a continuation has its memory extracted.               *)
TurnAnswers ==
    /\ asking = "answer" /\ made.messages < MaxMessages
    /\ \E kind \in {"text", "calls"} :
         LET reply == Message(kind, made.messages + 1, 0)
         IN  path' = path \o since \o <<reply>>
    /\ chain' = IF since[1].kind = "prompt" THEN Append(chain, made.turns + 1) ELSE chain
    /\ made' = [made EXCEPT !.messages = @ + 1, !.turns = @ + 1]
    /\ messages' = <<>> /\ own' = {} /\ since' = <<>> /\ asking' = "idle"
    /\ UNCHANGED <<compaction, modelSaw, extracting, entries, learnt>>

(* Steering that waited is another run on the list the first one left.     *)
FollowUp ==
    /\ asking = "answer" /\ made.messages + 3 <= MaxMessages
    /\ LET reply == Message("text", made.messages + 1, 0)
           steer == Message("prompt", made.messages + 2, made.messages + 2)
       IN  /\ messages' = messages \o <<reply, steer>> /\ since' = since \o <<reply, steer>>
           /\ own' = {steer.id}
    /\ made' = [made EXCEPT !.messages = @ + 2]
    /\ asking' = "request"
    /\ UNCHANGED <<path, compaction, modelSaw, chain, extracting, entries, learnt>>

-----------------------------------------------------------------------------
(* extract_memory_delta: reads the memory, asks a model, adds what the     *)
(* turn taught.  _spawn_background runs the extractions of a session one   *)
(* after the other.                                                        *)

BugMayExtract(t) == t \in ToSet(chain)      \* Mutant: the extractions run side by side.
MayExtract(t) == chain # <<>> /\ t = Head(chain) /\ extracting = {}

Learn(base, turn) == base \cup {turn}

ReadMemory ==
    /\ \E t \in ToSet(chain) :
         /\ MayExtract(t)
         /\ extracting' = extracting \cup {[turn |-> t, base |-> entries]}
         /\ chain' = SelectSeq(chain, LAMBDA u : u # t)
    /\ UNCHANGED <<path, messages, own, since, compaction, modelSaw, asking, entries, learnt, made>>

(* apply_deltas; a failed extraction leaves the memory as it was read.     *)
ApplyDeltas ==
    /\ \E x \in extracting, works \in BOOLEAN :
         /\ entries' = IF works THEN Learn(x.base, x.turn) ELSE x.base
         /\ learnt' = IF works THEN learnt \cup {x.turn} ELSE learnt
         /\ extracting' = extracting \ {x}
    /\ UNCHANGED <<path, messages, own, since, compaction, modelSaw, asking, chain, made>>

InputNext ==
    \/ StartMessage \/ Fork \/ StartContinuation \/ Process \/ CallsTools \/ TurnAnswers \/ FollowUp
    \/ ReadMemory \/ ApplyDeltas

-----------------------------------------------------------------------------
(* The messages the model has to know when it is asked.                    *)
Conversation == path \o since
SentCovers == UNION {m.covers : m \in {x \in ToSet(modelSaw) : x.kind = "summary"}}

(* Whenever a model is asked, every message of the active branch is in its *)
(* input or in the summary it carries, and the summary holds nothing from  *)
(* another branch.                                                         *)
NothingForgotten ==
    asking = "answer" =>
        LET here == {PrintOf(m) : m \in ToSet(Conversation)}
            sent == {PrintOf(m) : m \in {x \in ToSet(modelSaw) : x.kind # "summary"}}
        IN  here \subseteq sent \cup SentCovers /\ sent \cup SentCovers \subseteq here

(* The current run's messages are sent as they are, and last.  A prompt    *)
(* that repeats one of the branch it replaces is found in the summary of   *)
(* that branch and not sent again: prepare_history says otherwise.         *)
OwnMessages == SelectSeq(Conversation, LAMBDA m : m.id \in own)
RunIsVerbatim == asking = "answer" => IsSuffix(OwnMessages, modelSaw)

(* What holds of it: only such a prompt is missing.  And no result is sent *)
(* without its call.                                                       *)
RunIsWhole ==
    asking = "answer" =>
        /\ RunIsVerbatim \/ \E m \in ToSet(OwnMessages) : m.kind = "prompt" /\ PrintOf(m) \in SentCovers
        /\ \A r \in ToSet(modelSaw) : r.kind = "results" =>
              \E c \in ToSet(modelSaw) : c.kind = "calls" /\ c.id = r.says

(* What an extraction taught is not overwritten by a later one.            *)
MemoryKept == learnt \subseteq entries

InputIsFaithful == NothingForgotten /\ RunIsWhole /\ MemoryKept

=============================================================================
