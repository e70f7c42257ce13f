------------------------------ MODULE AgUiRuns ------------------------------
(***************************************************************************)
(* AG-UI runs on the turn pipeline (app/routes/agui.py, _agui.py).  A      *)
(* client posts a run: a user message, or the results of the host calls    *)
(* the last response asked for, with the tools its frontend offers.  The   *)
(* requests of a run are made one after the other in a task of its own,    *)
(* whose native events the response streams.  A client may go away at any  *)
(* time and post again, so runs of one session overlap.                    *)
(*                                                                         *)
(* One session and its admission to one turn at a time are modelled as far *)
(* as a run sees them; HostActions and SessionAdmission have them in full. *)
(* Calls are numbered in the order the model makes them; MaxRuns, MaxCalls *)
(* and MaxEvents bound runs, calls, and the native events of a turn.       *)
(***************************************************************************)
EXTENDS Integers, Sequences, FiniteSets

CONSTANTS MaxRuns, MaxCalls, MaxEvents

VARIABLES
    run,     \* the runs posted so far
    session  \* pending calls, the batch they are of, what was answered,
             \* calls made, host context last sent, the run whose turn it is

agUiVars == <<run, session>>

NoRun == 0
Runs == DOMAIN run

AgUiInit ==
    /\ run = <<>>
    /\ session = [pending |-> <<>>, batch |-> <<>>, recorded |-> <<>>, calls |-> 0,
                  host |-> FALSE, turn |-> NoRun]

Sets(r, new) == run' = [run EXCEPT ![r] = new]
Native(request) == [kind |-> "event", of |-> request]
Error == [kind |-> "error", of |-> 0]
Done == [kind |-> "done", of |-> 0]
Queued(r, items) == [run[r] EXCEPT !.queue = @ \o items]

----------------------------------------------------------------------------
(* The input *)

(* Every run declares its own frontend tools, and none is a context too:   *)
(* a previous run's does not carry over.                                   *)
BugHostContext(tools) == tools \/ session.host
HostContext(tools) == tools

Continuation(call) == [kind |-> "result", call |-> call]
UserMessage == [kind |-> "message", call |-> 0]

(* The trailing tool messages are continuations in their order; otherwise  *)
(* the last message is a user message.                                     *)
RunRequests(results) ==
    IF results = <<>> THEN <<UserMessage>>
    ELSE [i \in DOMAIN results |-> Continuation(results[i])]

(* The client resends the results of the whole last batch it was shown.    *)
Post(tools, results) ==
    /\ Len(run) < MaxRuns
    /\ results \in {<<>>, session.batch}
    /\ run' = Append(run, [tools |-> tools, requests |-> RunRequests(results), next |-> 1,
                           pc |-> "ready", events |-> 0, queue |-> <<>>, shown |-> <<>>,
                           open |-> TRUE, made |-> {}, failed |-> 0])
    /\ UNCHANGED session

----------------------------------------------------------------------------
(* The task that makes the requests *)

Current(r) == run[r].requests[run[r].next]

(* stream_message: a new message cancels the turn that is running, and     *)
(* each waits until it has drained.                                        *)
Replace(r) ==
    /\ run[r].pc = "ready"
    /\ run[r].next <= Len(run[r].requests)
    /\ session.turn # NoRun
    /\ Current(r) = UserMessage
    /\ run[session.turn].pc \in {"planning", "model"}
    /\ Sets(session.turn, [run[session.turn] EXCEPT !.pc = "cancelling"])
    /\ UNCHANGED session

BeginRun(r) ==
    /\ run[r].pc = "ready"
    /\ run[r].next <= Len(run[r].requests)
    /\ session.turn = NoRun
    /\ Sets(r, [run[r] EXCEPT !.pc = "planning", !.events = 0])
    /\ session' = [session EXCEPT !.turn = r]

(* A terminal error is the last thing of a run: no later request is made.  *)
BugAfterError(r) == [Queued(r, <<Error>>) EXCEPT !.pc = "ready", !.next = @ + 1,
                         !.failed = IF @ = 0 THEN run[r].next ELSE @]
AfterError(r) == [Queued(r, <<Error, Done>>) EXCEPT !.pc = "over",
                         !.failed = run[r].next]

TurnOver == [session EXCEPT !.turn = NoRun]

(* A continuation is for the call that is pending, which has no result.    *)
BugIsPending(call) == session.pending # <<>>
IsPending(call) ==
    /\ call \notin {session.recorded[i] : i \in DOMAIN session.recorded}
    /\ session.pending # <<>>
    /\ Head(session.pending) = call

RefuseResult(r) ==
    /\ run[r].pc = "planning"
    /\ Current(r).kind = "result"
    /\ ~IsPending(Current(r).call)
    /\ Sets(r, AfterError(r))
    /\ session' = TurnOver

(* The result is recorded; the next pending call is handed over without a  *)
(* model run, or the model resumes with the results of the whole batch.    *)
AcceptOutcome(r) ==
    /\ run[r].pc = "planning"
    /\ Current(r).kind = "result"
    /\ IsPending(Current(r).call)
    /\ LET rest == Tail(session.pending)
           accepted == [session EXCEPT !.pending = rest, !.recorded = Append(@, Current(r).call),
                                       !.host = HostContext(run[r].tools)]
       IN IF rest # <<>>
          THEN /\ Sets(r, [run[r] EXCEPT !.pc = "ready", !.next = @ + 1])
               /\ session' = [accepted EXCEPT !.turn = NoRun]
          ELSE /\ Sets(r, [run[r] EXCEPT !.pc = "model"])
               /\ session' = accepted

(* A new message gives up the calls that still wait for a result.          *)
AcceptMessage(r) ==
    /\ run[r].pc = "planning"
    /\ Current(r) = UserMessage
    /\ Sets(r, [run[r] EXCEPT !.pc = "model"])
    /\ session' = [session EXCEPT !.pending = <<>>, !.recorded = @ \o session.pending,
                                  !.host = HostContext(run[r].tools)]

(* Native events go to an unbounded queue: a slow client stalls nothing.   *)
NativeEvent(r) ==
    /\ run[r].pc = "model"
    /\ run[r].events < MaxEvents
    /\ Sets(r, [Queued(r, <<Native(run[r].next)>>) EXCEPT !.events = @ + 1])
    /\ UNCHANGED session

(* The model answers, or asks for up to two calls of the tools it has.     *)
ModelEnds(r) ==
    /\ run[r].pc = "model"
    /\ \E n \in 0..2 :
         LET asked == [i \in 1..n |-> session.calls + i]
         IN /\ n > 0 => session.host
            /\ session.calls + n <= MaxCalls
            /\ session' = [TurnOver EXCEPT !.calls = @ + n, !.pending = asked,
                              !.batch = IF n > 0 THEN asked ELSE @]
            /\ Sets(r, [run[r] EXCEPT !.pc = "ready", !.next = @ + 1,
                            !.made = @ \union {asked[i] : i \in 1..n}])

ModelFails(r) ==
    /\ run[r].pc = "model"
    /\ Sets(r, AfterError(r))
    /\ session' = TurnOver

(* A cancelled turn saves what it has, then drains; its run ends with it.  *)
CancelledTurnEnds(r) ==
    /\ run[r].pc = "cancelling"
    /\ Sets(r, AfterError(r))
    /\ session' = TurnOver

AllMade(r) ==
    /\ run[r].pc = "ready"
    /\ run[r].next > Len(run[r].requests)
    /\ Sets(r, [Queued(r, <<Done>>) EXCEPT !.pc = "over"])
    /\ UNCHANGED session

----------------------------------------------------------------------------
(* The response *)

(* An item is streamed; an error raised by the iterator ends the stream.   *)
Stream(r) ==
    /\ run[r].open
    /\ run[r].queue # <<>>
    /\ LET item == Head(run[r].queue)
       IN Sets(r, [run[r] EXCEPT !.queue = Tail(@), !.shown = Append(@, item),
                                 !.open = item \notin {Error, Done}])
    /\ UNCHANGED session

(* A client that goes away closes the iterator, which cancels the task and *)
(* waits for it; the turn drains as for any other consumer.                *)
BugOnClose(r) == [run[r] EXCEPT !.open = FALSE]
OnClose(r) ==
    [run[r] EXCEPT !.open = FALSE,
        !.pc = IF @ \in {"planning", "model"} THEN "cancelling"
               ELSE IF @ = "ready" THEN "over" ELSE @]

Disconnect(r) ==
    /\ run[r].open
    /\ Sets(r, OnClose(r))
    /\ UNCHANGED session

AgUiNext ==
    \/ \E tools \in BOOLEAN, results \in {<<>>, session.batch} : Post(tools, results)
    \/ \E r \in Runs :
        \/ Replace(r)
        \/ BeginRun(r)
        \/ RefuseResult(r)
        \/ AcceptOutcome(r)
        \/ AcceptMessage(r)
        \/ NativeEvent(r)
        \/ ModelEnds(r)
        \/ ModelFails(r)
        \/ CancelledTurnEnds(r)
        \/ AllMade(r)
        \/ Stream(r)
        \/ Disconnect(r)

AgUiSpec == AgUiInit /\ [][AgUiNext]_agUiVars

----------------------------------------------------------------------------
(* Properties *)

(* A stream has the events of one request of its run, the last made, and   *)
(* nothing follows the error that ends it; after a request failed none of  *)
(* the same run is made, and a run nobody reads makes no further one.      *)
StreamIsTheRuns ==
    \A r \in Runs :
        /\ \A i \in DOMAIN run[r].shown :
             /\ i < Len(run[r].shown) => run[r].shown[i].kind = "event"
             /\ run[r].shown[i].kind = "event" =>
                  run[r].shown[i].of = Len(run[r].requests)
        /\ run[r].failed # 0 => run[r].next = run[r].failed
        /\ ~run[r].open => run[r].pc \in {"over", "cancelling"}

(* However runs overlap, are resent or broken off: no result is recorded   *)
(* twice, the model resumes only with the results of all it asked for, and *)
(* it calls only what the run that asked it declared.                      *)
CallsAreTheRuns ==
    /\ \A i, j \in DOMAIN session.recorded :
         session.recorded[i] = session.recorded[j] => i = j
    /\ \A r \in Runs :
        /\ run[r].made # {} => run[r].tools
        /\ run[r].pc = "model" /\ Current(r).kind = "result" =>
             /\ session.pending = <<>>
             /\ \A i \in DOMAIN session.batch :
                  \E j \in DOMAIN session.recorded : session.recorded[j] = session.batch[i]

AgUiRunsHold == StreamIsTheRuns /\ CallsAreTheRuns
=============================================================================
