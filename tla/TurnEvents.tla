----------------------------- MODULE TurnEvents -----------------------------
(***************************************************************************)
(* What one assistant row gets from the turns that write it, and what its  *)
(* client is sent meanwhile (TurnRunner, EventCoordinator, RunSnapshot):   *)
(* a message turn, the continuations that answer its host calls, and the   *)
(* background extraction of working memory.  Text and calls are numbers in *)
(* the order the model makes them; a text stands for the content of one    *)
(* segment.  Batches of host calls are HostActions', the model's input is  *)
(* ModelInput's.                                                           *)
(***************************************************************************)
EXTENDS Integers, Sequences, FiniteSets, SequencesExt, FiniteSetsExt

CONSTANTS
    MaxMade,       \* bound: texts and calls of the row
    MaxRequests,   \* bound: model requests
    MaxContinued,  \* bound: continuations
    MaxStreamed,   \* max_events_per_stream
    MaxTurnFaults  \* bound: interruptions and failures

VARIABLES
    plan,         \* the TurnPlan: kind, and what it read from the row
    agentRun,     \* the agent run: step, the response and calls in flight
    state,        \* RunSnapshot
    stream,       \* the EventCoordinator and the client: envelope, count, parts
    shown,        \* what the row's client has been shown by all turns: [parts, results]
    saved,        \* the assistant row: [is, parts, answers, usage]
    waiting,      \* the pending action of the session: a call, or 0
    remembering,  \* the extraction scheduled in the background
    owed,         \* what the row must account for: [run, sum, wm]
    tally         \* [made, requests, continued, faults, behind]

turnVars == <<plan, agentRun, state, stream, shown, saved, waiting, remembering, owed, tally>>

NoUsage == [run |-> 0, sum |-> 0, wm |-> 0]
Idle == [step |-> "idle", response |-> <<>>, open |-> {}, called |-> {}, host |-> {}, native |-> <<>>,
         heard |-> <<>>, kept |-> <<>>, deferred |-> FALSE]
FreshRun == [parts |-> <<>>, answers |-> <<>>, used |-> 0, usage |-> NoUsage, summed |-> 0,
             accepted |-> <<>>, persisted |-> FALSE, cancelled |-> FALSE, outcome |-> "none"]

TurnInit ==
    /\ plan = [kind |-> "none", prior |-> NoUsage, suppressed |-> {}]
    /\ agentRun = Idle /\ state = FreshRun
    /\ stream = [sent |-> <<>>, count |-> 0]
    /\ shown = [parts |-> <<>>, results |-> <<>>]
    /\ saved = [is |-> FALSE, parts |-> <<>>, answers |-> <<>>, usage |-> NoUsage]
    /\ waiting = 0 /\ remembering = "none" /\ owed = NoUsage
    /\ tally = [made |-> 0, requests |-> 0, continued |-> 0, faults |-> 0, behind |-> FALSE]

Step(s) == agentRun' = [agentRun EXCEPT !.step = s]

-----------------------------------------------------------------------------
(* What the client is sent.  Only what happens inside a turn is counted    *)
(* against the limit; the terminal events always go out.                   *)

Fits(n) == stream.count + n <= MaxStreamed
Counted(n) == stream' = [stream EXCEPT !.count = @ + n]
BugTerminal(s, events) ==        \* Mutant: the terminal error is counted like any event.
    [s EXCEPT !.count = @ + 1, !.sent = @ \o IF Len(events) = 1 \/ Fits(1) THEN events ELSE <<Head(events)>>]
Terminal(s, events) == [s EXCEPT !.count = @ + 1, !.sent = @ \o events]

FinalResponses == {"answer", "pending", "failed"}
OutcomeEvents == <<"failed", "error">>
Completed(s) == Terminal(s, <<"completed">>)

(* _setup_failure_envelope: the turn was refused before it had a plan.     *)
SetupFailureEnvelope ==
    /\ agentRun.step = "idle" /\ tally.faults < MaxTurnFaults
    /\ tally' = [tally EXCEPT !.faults = @ + 1]
    /\ stream' = [sent |-> <<"started">> \o OutcomeEvents \o <<"completed">>, count |-> 0]
    /\ UNCHANGED <<plan, agentRun, state, shown, saved, waiting, remembering, owed>>

(* A plan: a message starts the row, a continuation takes it over.         *)
Begins(kind) ==
    /\ agentRun.step = "idle"
    /\ agentRun' = [Idle EXCEPT !.step = IF kind = "message" THEN "setup" ELSE "accept"]
    /\ stream' = [sent |-> <<"started">>, count |-> 1]
    /\ plan' = [kind |-> kind, prior |-> saved.usage,
                suppressed |-> IF kind = "message" THEN {} ELSE {waiting}]
    /\ state' = [FreshRun EXCEPT !.parts = saved.parts, !.answers = saved.answers, !.usage = saved.usage]
    /\ UNCHANGED <<shown, saved, remembering, owed>>

BeginMessage ==
    /\ ~saved.is /\ tally.made = 0 /\ tally.requests = 0 /\ Begins("message")
    /\ UNCHANGED <<waiting, tally>>

BeginContinuation ==
    /\ saved.is /\ waiting # 0 /\ tally.continued < MaxContinued /\ Begins("continuation")
    /\ tally' = [tally EXCEPT !.continued = @ + 1]
    /\ UNCHANGED waiting

-----------------------------------------------------------------------------
(* persist_snapshot: the row as the turn has it, with the sections another *)
(* writer added meanwhile.                                                 *)

BugKeepRowAuxiliary(mine, row) == mine            \* Mutant: the turn's copy of the row wins.
KeepRowAuxiliary(mine, row) == [mine EXCEPT !.wm = row.wm]

WithAuxiliary(usage, summed) == [usage EXCEPT !.sum = @ + summed]

Stored(s) ==
    LET mine == WithAuxiliary(s.usage, s.summed)
    IN  [is |-> TRUE, parts |-> s.parts, answers |-> s.answers,
         usage |-> IF saved.is THEN KeepRowAuxiliary(mine, saved.usage) ELSE mine]

Persists(s) == saved' = Stored(s) /\ waiting' = 0

(* The host's result is saved before anything can fail.                    *)
TakeResult ==
    /\ agentRun.step = "accept"
    /\ \E how \in {"ok", "failed"} :
         LET kept == [state EXCEPT !.answers = Append(@, <<waiting, how>>), !.accepted = <<<<waiting, how>>>>]
         IN  /\ Persists(kept)
             /\ state' = [kept EXCEPT !.persisted = TRUE]
    /\ Step("setup")
    /\ UNCHANGED <<plan, stream, shown, remembering, owed, tally>>

(* prepare_agent_context; a resumed run starts from the accepted result.   *)
SetUp ==
    /\ agentRun.step = "setup"
    /\ agentRun' = [agentRun EXCEPT !.step = "ask", !.heard = state.accepted]
    /\ UNCHANGED <<plan, state, stream, shown, saved, waiting, remembering, owed, tally>>

(* A model request, after the summary it may have needed.                  *)
RequestModel ==
    /\ agentRun.step = "ask" /\ tally.requests < MaxRequests
    /\ \E sums \in {0, 1} :
         /\ state' = [state EXCEPT !.summed = @ + sums]
         /\ owed' = [owed EXCEPT !.sum = @ + sums]
    /\ tally' = [tally EXCEPT !.requests = @ + 1]
    /\ Step("stream")
    /\ UNCHANGED <<plan, stream, shown, saved, waiting, remembering>>

(* Text of the response, as one or two events of its segment.              *)
EmitText ==
    /\ agentRun.step = "stream" /\ tally.made < MaxMade
    /\ agentRun.response = <<>>
    /\ \E n \in 1..2 :
         /\ Fits(n) /\ Counted(n)
         /\ tally' = [tally EXCEPT !.made = @ + 1]
         /\ agentRun' = [agentRun EXCEPT !.response = Append(@, <<"text", tally.made + 1>>)]
         /\ shown' = [shown EXCEPT !.parts = Append(@, <<"text", tally.made + 1>>)]
    /\ UNCHANGED <<plan, state, saved, waiting, remembering, owed>>

(* The response is whole: its parts are messages, its calls are to run.    *)
ResponseEnds ==
    /\ agentRun.step = "stream"
    /\ \E n \in 0..2, deferred \in BOOLEAN :
         LET calls == [i \in 1..n |-> <<"call", tally.made + i>>]
         IN  /\ tally.made + n <= MaxMade /\ (deferred => n > 0)
             /\ (n = 0) => (agentRun.response # <<>>)
             /\ tally' = [tally EXCEPT !.made = @ + n]
             /\ agentRun' = [agentRun EXCEPT !.native = @ \o agentRun.response \o calls, !.response = <<>>,
                                             !.open = tally.made + 1 .. tally.made + n,
                                             !.host = IF deferred THEN {tally.made + n} ELSE {},
                                             !.step = IF n = 0 THEN "over" ELSE "tools"]
    /\ state' = [state EXCEPT !.used = @ + 1]
    /\ owed' = [owed EXCEPT !.run = @ + 1]
    /\ UNCHANGED <<plan, stream, shown, saved, waiting, remembering>>

(* FunctionToolCallEvent; calls of the batch being continued were sent by  *)
(* the turn that made them and come up again when the run resumes.         *)
BugSuppressed(c) == FALSE                          \* Mutant: a resumed call is shown twice.
Suppressed(c) == c \in plan.suppressed

CallAgain ==
    /\ agentRun.step = "stream" /\ agentRun.response = <<>> /\ agentRun.native = <<>>
    /\ \E c \in plan.suppressed \ agentRun.called :
         /\ agentRun' = [agentRun EXCEPT !.called = @ \cup {c}]
         /\ IF Suppressed(c) THEN UNCHANGED <<stream, shown>>
            ELSE Fits(1) /\ Counted(1) /\ shown' = [shown EXCEPT !.parts = Append(@, <<"call", c>>)]
    /\ UNCHANGED <<plan, state, saved, waiting, remembering, owed, tally>>

EmitCall ==
    /\ agentRun.step = "tools" /\ Fits(1) /\ agentRun.open \ agentRun.called # {}
    /\ Counted(1)
    /\ LET c == Min(agentRun.open \ agentRun.called)
       IN  /\ agentRun' = [agentRun EXCEPT !.called = @ \cup {c}]
           /\ shown' = [shown EXCEPT !.parts = Append(@, <<"call", c>>)]
    /\ UNCHANGED <<plan, state, saved, waiting, remembering, owed, tally>>

(* FunctionToolResultEvent: a failure is sent as tool_error, then as the   *)
(* result.  The call is answered in the messages once all of them are.     *)
EmitResult ==
    /\ agentRun.step = "tools" /\ agentRun.open \subseteq agentRun.called
    /\ \E c \in agentRun.open \ agentRun.host, how \in {"ok", "failed", "retry"} :
         LET events == IF how = "ok" THEN 1 ELSE 2
         IN  /\ Fits(events) /\ Counted(events)
             /\ agentRun' = [agentRun EXCEPT !.open = @ \ {c}, !.kept = Append(@, <<c, how>>)]
             /\ shown' = [shown EXCEPT !.results = Append(@, <<c, how>>)]
    /\ UNCHANGED <<plan, state, saved, waiting, remembering, owed, tally>>

ToolsDone ==
    /\ agentRun.step = "tools" /\ agentRun.open \subseteq agentRun.host \cap agentRun.called
    /\ agentRun' = [agentRun EXCEPT !.heard = @ \o agentRun.kept, !.kept = <<>>,
                                    !.deferred = agentRun.open # {}, !.step = IF agentRun.open = {} THEN "ask" ELSE "over"]
    /\ UNCHANGED <<plan, state, stream, shown, saved, waiting, remembering, owed, tally>>

-----------------------------------------------------------------------------
(* capture_result: the messages of the run join the turn's; the accepted   *)
(* result, saved on its own, gives way to the one the run reports.  The    *)
(* run's usage is the turn's so far, added to what the row had.            *)

BugUsage(s) == [s.usage EXCEPT !.run = @ + s.used] \* Mutant: a second run counts the first again.
Usage(s) == [plan.prior EXCEPT !.run = @ + s.used]

BugWithoutAccepted(s) == s.answers                 \* Mutant: the result is in the row twice.
WithoutAccepted(s) ==
    IF s.accepted # <<>> /\ s.accepted[1] \in ToSet(agentRun.heard)
    THEN SelectSeq(s.answers, LAMBDA a : a # s.accepted[1]) ELSE s.answers

Captured(s, extra, results) ==
    [s EXCEPT !.parts = @ \o agentRun.native \o extra, !.answers = WithoutAccepted(s) \o agentRun.heard \o results,
              !.accepted = <<>>, !.usage = Usage(s)]

Between == [Idle EXCEPT !.deferred = agentRun.deferred, !.host = agentRun.open]

(* The run ends: its snapshot is saved, then its output taken.             *)
SaveRun ==
    /\ agentRun.step = "over"
    /\ LET s == Captured(state, <<>>, <<>>)
       IN  Persists(s) /\ state' = [s EXCEPT !.persisted = TRUE]
    /\ agentRun' = [Between EXCEPT !.step = "output"]
    /\ tally' = [tally EXCEPT !.behind = FALSE]
    /\ UNCHANGED <<plan, stream, shown, remembering, owed>>

SaveRunFails ==
    /\ agentRun.step = "over" /\ tally.faults < MaxTurnFaults
    /\ state' = Captured(state, <<>>, <<>>)
    /\ agentRun' = [Between EXCEPT !.step = "fail"]
    /\ tally' = [tally EXCEPT !.faults = @ + 1]
    /\ UNCHANGED <<plan, stream, shown, saved, waiting, remembering, owed>>

(* _handle_output: a deferred call waits for the host, steering that came  *)
(* meanwhile is another run on the row, anything else is the answer.       *)
TakeOutput ==
    /\ agentRun.step = "output"
    /\ IF agentRun.deferred
       THEN /\ waiting' = Min(agentRun.host)
            /\ stream' = Terminal(stream, <<"pending">>) /\ Step("end")
       ELSE /\ UNCHANGED waiting
            /\ \/ stream' = Terminal(stream, <<"answer">>) /\ Step("end")
               \/ tally.requests < MaxRequests /\ Step("ask") /\ UNCHANGED stream
    /\ UNCHANGED <<plan, state, shown, saved, remembering, owed, tally>>

(* Cancellation, the time limit, a usage limit or an error stop the run;   *)
(* what it made is captured as far as the run reports it.                  *)
TurnStopped(how, unsent) ==
    /\ \E extra \in {<<>>, agentRun.response, agentRun.response \o unsent}, results \in {<<>>, agentRun.kept} :
         state' = [Captured(state, extra, results) EXCEPT !.cancelled = how = "cancelled", !.outcome = how]
    /\ agentRun' = [Idle EXCEPT !.step = IF how = "failed" THEN "fail" ELSE "close"]

Interrupt ==
    /\ agentRun.step \in {"ask", "stream", "tools", "output"} /\ tally.faults < MaxTurnFaults
    /\ \E how \in {"cancelled", "timeout", "usage_limit", "failed"} : TurnStopped(how, <<>>)
    /\ tally' = [tally EXCEPT !.faults = @ + 1]
    /\ UNCHANGED <<plan, stream, shown, saved, waiting, remembering, owed>>

(* EventLimitError: the event that would exceed the limit is not sent, the *)
(* run it came from has failed.                                            *)
LimitReached ==
    /\ \/ agentRun.step = "stream" /\ ~Fits(1)
       \/ agentRun.step = "tools" /\ ~Fits(2)
    /\ TurnStopped("failed", IF agentRun.step = "stream" THEN <<<<"text", tally.made + 1>>>> ELSE <<>>)
    /\ UNCHANGED <<plan, stream, shown, saved, waiting, remembering, owed, tally>>

SetupFails ==
    /\ agentRun.step = "setup" /\ tally.faults < MaxTurnFaults
    /\ Step("fail")
    /\ tally' = [tally EXCEPT !.faults = @ + 1]
    /\ UNCHANGED <<plan, state, stream, shown, saved, waiting, remembering, owed>>

(* mark_unanswered_calls: only a result closes a call, a retry prompt does *)
(* not.                                                                    *)
ResultsOf(s) == {a[1] : a \in {b \in ToSet(s.answers) : b[2] # "retry"}}
BugUnanswered(s) == <<>>                           \* Mutant: open calls are left open.
Unanswered(s) == SelectSeq(s.parts, LAMBDA p : p[1] = "call" /\ p[2] \notin ResultsOf(s))
MarkUnanswered(s) ==
    [s EXCEPT !.answers = @ \o [i \in DOMAIN Unanswered(s) |-> <<Unanswered(s)[i][2], "interrupted">>]]

(* _persist_cancelled, and _resolve_unanswered_calls after a failure, that *)
(* saves nothing when there is nothing; then the outcome is sent.          *)
CloseTurn ==
    /\ agentRun.step \in {"close", "fail"}
    /\ LET nothing == agentRun.step = "fail" /\ state.parts = <<>> /\ state.answers = <<>>
           closed == MarkUnanswered(state)
       IN  \/ /\ ~nothing
              /\ Persists(closed)
              /\ state' = [closed EXCEPT !.persisted = TRUE, !.cancelled = state.outcome # "usage_limit"]
              /\ tally' = [tally EXCEPT !.behind = FALSE]
           \/ /\ nothing \/ tally.faults < MaxTurnFaults
              /\ state' = [closed EXCEPT !.cancelled = state.outcome # "usage_limit"]
              /\ tally' = [tally EXCEPT !.behind = TRUE, !.faults = IF nothing THEN @ ELSE @ + 1]
              /\ UNCHANGED <<saved, waiting>>
    /\ stream' = Terminal(stream, OutcomeEvents)
    /\ Step("end")
    /\ UNCHANGED <<plan, shown, remembering, owed>>

(* The turn ends; a message turn that left a row has its memory extracted. *)
FinishRunTurn ==
    /\ agentRun.step = "end"
    /\ stream' = Completed(stream)
    /\ IF plan.kind = "message" /\ state.persisted /\ ~state.cancelled
       THEN \E wanted \in {"none", "queued"} : remembering' = wanted
       ELSE UNCHANGED remembering
    /\ agentRun' = Idle
    /\ UNCHANGED <<plan, state, shown, saved, waiting, owed, tally>>

(* _update_working_memory adds its usage to the row as it is now.          *)
UpdateWorkingMemory ==
    /\ remembering = "queued" /\ remembering' = "none"
    /\ saved' = [saved EXCEPT !.usage.wm = @ + 1]
    /\ owed' = [owed EXCEPT !.wm = @ + 1]
    /\ UNCHANGED <<plan, agentRun, state, stream, shown, waiting, tally>>

TurnNext ==
    \/ SetupFailureEnvelope \/ BeginMessage \/ BeginContinuation \/ TakeResult \/ SetUp
    \/ RequestModel \/ EmitText \/ ResponseEnds \/ CallAgain \/ EmitCall \/ EmitResult \/ ToolsDone
    \/ SaveRun \/ SaveRunFails \/ TakeOutput \/ Interrupt \/ LimitReached \/ SetupFails
    \/ CloseTurn \/ FinishRunTurn \/ UpdateWorkingMemory

-----------------------------------------------------------------------------
(* What the client saw is what the row says.                               *)

Open(s) == {p \in ToSet(s.parts) : p[1] = "call" /\ p[2] \notin {a[1] : a \in ToSet(s.answers)}}
EndedWell == Len(stream.sent) = 3
OneEnvelope ==
    agentRun.step = "idle" =>
             \/ stream.sent = <<>>
             \/ stream.sent = <<"started", "failed", "error", "completed">>
             \/ \E final \in FinalResponses \ {"failed"} : stream.sent = <<"started", final, "completed">>
AnsweredOnce(answers) ==
    \A i, j \in DOMAIN answers :
        i # j /\ answers[i][1] = answers[j][1] => "retry" \in {answers[i][2], answers[j][2]}

(* Every turn ends in one whole envelope, also past the event limit.  The  *)
(* parts of the row are the parts its client was shown, in that order, up  *)
(* to what an interruption lost; after an orderly end they are the same,   *)
(* with the same results, and no call is left open but the one the session *)
(* waits for.  No call has two results in the messages.                    *)
StreamIsRow ==
    /\ OneEnvelope
    /\ AnsweredOnce(saved.answers)
    /\ agentRun.step = "idle" /\ saved.is /\ ~tally.behind =>
               /\ IsPrefix(shown.parts, saved.parts) \/ IsPrefix(saved.parts, shown.parts)
               /\ Open(saved) = IF waiting = 0 THEN {} ELSE {<<"call", waiting>>}
               /\ EndedWell => /\ shown.parts = saved.parts
                               /\ ToSet(shown.results) \subseteq ToSet(saved.answers)

(* The usage of the row counts every model request once, its summaries and *)
(* its memory extraction too, over the runs of a turn, its continuations   *)
(* and an extraction that finishes while one of them is under way.         *)
UsageCountedOnce ==
    /\ saved.usage.wm = owed.wm
    /\ saved.usage.run <= owed.run /\ saved.usage.sum <= owed.sum
    /\ agentRun.step = "idle" /\ saved.is /\ ~tally.behind => saved.usage = owed

(* What is kept of a turn is what the client was shown of it, and what it  *)
(* cost is counted once.                                                   *)
TurnIsRecorded == StreamIsRow /\ UsageCountedOnce
=============================================================================
