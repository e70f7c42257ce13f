-------------------------- MODULE SocketTransport --------------------------
(***************************************************************************)
(* How one session's turns reach its Socket.IO client:                     *)
(* app/socketio_server.py (AssistantNamespace) with the turn registration  *)
(* of app/streaming/interface.py (stream_message, _produce_turn).          *)
(*                                                                         *)
(* A transport is a task that consumes a turn's events and emits them      *)
(* (_run_stream); the turn itself is produced by a task of its own, which  *)
(* a slow client does not hold up.  Handlers of one session take turns     *)
(* (_session_locks); transports and producers move between their awaits.   *)
(* A turn's events are `started`, a final response, perhaps deferred to a  *)
(* host call, and `completed`: 1, 2 and 3.                                 *)
(***************************************************************************)
EXTENDS Integers, Sequences, FiniteSets, TLC

CONSTANTS MaxTransports,   \* transports that are started
          MaxFailures  \* producers that break off, emissions that fail,
                       \* requests that are turned away

VARIABLES
    active,       \* _active_streams[session]: a transport, 0 for none
    carrier,      \* the transports, in the order they are started
    streamed,     \* the turn of each transport
    sessionSlot,  \* _active_turns[session]: the transport of the turn, 0 for none
    handler,      \* the handler that holds the session's lock
    clientSaw,    \* what each request's client has been told
    failures

socketVars == <<active, carrier, streamed, sessionSlot, handler, clientSaw, failures>>

ErrorEvent == 0
StartedEvent == 1
Final == 2
DoneEvent == 3

Transports == DOMAIN carrier
NoHandler == [step |-> "none"]
NoStream == [made |-> 0, step |-> "none", cancelled |-> FALSE, deferred |-> FALSE]

(* An envelope, whose events are there from the start, closes the request  *)
(* of a transport that was stopped.                                        *)
Envelope == [NoStream EXCEPT !.made = DoneEvent, !.step = "done"]

TransportEnded(t) == carrier[t].step = "done"
MayBegin == Len(carrier) < MaxTransports

-----------------------------------------------------------------------------
(* Transports: _start_transport and _run_stream.                           *)

BeginsTransport(kind, request, events) ==
    /\ carrier' = Append(carrier, [kind |-> kind, of |-> request, step |-> "scheduled",
                                   read |-> 0, waits |-> 0, claimed |-> FALSE])
    /\ streamed' = Append(streamed, events)
    /\ active' = Len(carrier) + 1
    /\ clientSaw' = Append(clientSaw, <<>>)

BugReleased(t) == 0   \* Mutant: whoever ends takes the session's entry away.
Released(t) == IF active = t THEN 0 ELSE active

Tells(t, event) == [clientSaw EXCEPT ![carrier[t].of] = Append(@, event)]

Ends(t) ==
    /\ carrier' = [carrier EXCEPT ![t].step = "done"]
    /\ active' = Released(t)

(* turn.cancel(): a turn that has no outcome yet defers nothing.           *)
Cancels(ts) ==
    [s \in Transports |-> IF s \in ts /\ streamed[s].step = "running" /\ streamed[s].made < Final
                          THEN [streamed[s] EXCEPT !.cancelled = TRUE] ELSE streamed[s]]
CancelStreamed(s) == Cancels({s})

(* The admission of stream_message: a turn in the session is waited for,   *)
(* and cancelled by an ordinary request.                                   *)
AdmitStream(t) ==
    /\ \/ carrier[t].step = "scheduled" /\ streamed[t].step = "none"
       \/ carrier[t].step = "joining" /\ streamed[carrier[t].waits].step = "done"
    /\ IF sessionSlot = 0
       THEN /\ sessionSlot' = t
            /\ streamed' = [streamed EXCEPT ![t].step = "running"]
            /\ carrier' = [carrier EXCEPT ![t].step = "reading", ![t].waits = 0]
       ELSE /\ streamed' = IF carrier[t].kind = "plain" THEN CancelStreamed(sessionSlot) ELSE streamed
            /\ carrier' = [carrier EXCEPT ![t].step = "joining", ![t].waits = sessionSlot]
            /\ UNCHANGED sessionSlot
    /\ UNCHANGED <<active, handler, clientSaw, failures>>

(* The session is not the caller's, or in use by a call: an error, no turn.*)
Turned(t) ==
    /\ carrier[t].step \in {"scheduled", "joining"} /\ streamed[t].step = "none"
    /\ failures < MaxFailures /\ failures' = failures + 1
    /\ Ends(t)
    /\ clientSaw' = Tells(t, ErrorEvent)
    /\ UNCHANGED <<streamed, sessionSlot, handler>>

OpenEnvelope(t) ==
    /\ carrier[t].step = "scheduled" /\ streamed[t].step = "done"
    /\ carrier' = [carrier EXCEPT ![t].step = "reading"]
    /\ UNCHANGED <<active, streamed, sessionSlot, handler, clientSaw, failures>>

(* The session is free for the client's next request before it is told;    *)
(* an emission may arrive as soon as it begins.                            *)
Frees(t, event) == event = DoneEvent \/ (event = Final /\ streamed[t].deferred)

ReadEvent(t) ==
    LET event == carrier[t].read + 1
    IN  /\ carrier[t].step = "reading" /\ event <= streamed[t].made
        /\ active' = IF Frees(t, event) THEN Released(t) ELSE active
        /\ carrier' = [carrier EXCEPT ![t].step = "emitting", ![t].read = event,
                                      ![t].claimed = @ \/ event = StartedEvent]
        /\ clientSaw' = Tells(t, event)
        /\ UNCHANGED <<streamed, sessionSlot, handler, failures>>

Emitted(t) ==
    /\ carrier[t].step = "emitting"
    /\ carrier' = [carrier EXCEPT ![t].step = IF carrier[t].read = DoneEvent THEN "closing"
                                              ELSE "reading"]
    /\ streamed' = IF carrier[t].read = DoneEvent THEN CancelStreamed(t) ELSE streamed
    /\ UNCHANGED <<active, sessionSlot, handler, clientSaw, failures>>

EmissionFails(t) ==
    /\ carrier[t].step = "emitting" /\ failures < MaxFailures
    /\ carrier' = [carrier EXCEPT ![t].step = "failing"]
    /\ streamed' = CancelStreamed(t) /\ failures' = failures + 1
    /\ UNCHANGED <<active, sessionSlot, handler, clientSaw>>

(* The queue ends before `completed`: the turn's own error is raised.      *)
BrokenOff(t) ==
    /\ carrier[t].step = "reading" /\ streamed[t].step = "done" /\ carrier[t].read = streamed[t].made
    /\ carrier' = [carrier EXCEPT ![t].step = "failing"]
    /\ UNCHANGED <<active, streamed, sessionSlot, handler, clientSaw, failures>>

(* The iterator's finally: the turn is waited for.                         *)
CloseStream(t) ==
    /\ carrier[t].step \in {"closing", "failing"} /\ streamed[t].step = "done"
    /\ Ends(t)
    /\ clientSaw' = IF carrier[t].step = "failing"
                    THEN Tells(t, ErrorEvent)
                    ELSE clientSaw
    /\ UNCHANGED <<streamed, sessionSlot, handler, failures>>

-----------------------------------------------------------------------------
(* _produce_turn.                                                          *)

Make(t) ==
    /\ streamed[t].step = "running" /\ streamed[t].made < DoneEvent
    /\ \E d \in BOOLEAN :
         /\ d => streamed[t].made + 1 = Final /\ ~streamed[t].cancelled
         /\ streamed' = [streamed EXCEPT ![t].made = @ + 1, ![t].deferred = @ \/ d]
    /\ UNCHANGED <<active, carrier, sessionSlot, handler, clientSaw, failures>>

FinishStreamed(t) ==
    /\ streamed[t].step = "running"
    /\ IF streamed[t].made = DoneEvent THEN UNCHANGED failures
       ELSE failures < MaxFailures /\ failures' = failures + 1
    /\ streamed' = [streamed EXCEPT ![t].step = "done"]
    /\ sessionSlot' = 0
    /\ UNCHANGED <<active, carrier, handler, clientSaw>>

-----------------------------------------------------------------------------
(* on_assistant_message.                                                   *)

Handles(h) == handler = NoHandler /\ handler' = h

(* _start_stream of request Len(carrier) + 1.                              *)
StartStream(kind) ==
    /\ MayBegin
    /\ BeginsTransport(kind, Len(carrier) + 1, NoStream)
    /\ handler' = NoHandler
    /\ UNCHANGED <<sessionSlot, failures>>

Continue == handler = NoHandler /\ StartStream("continuation")

PlainMessage ==
    \/ handler = NoHandler /\ active = 0 /\ StartStream("plain")
    \/ /\ active # 0 /\ Handles([step |-> "ask", for |-> "message", task |-> active])
       /\ UNCHANGED <<active, carrier, streamed, sessionSlot, clientSaw, failures>>

(* accept_steering: queued behind a live stream, a pending host call or a  *)
(* turn in flight, refused, or promoted to run.                            *)
Steer ==
    /\ Handles([step |-> "accept", live |-> active # 0])
    /\ UNCHANGED <<active, carrier, streamed, sessionSlot, clientSaw, failures>>
Promote == handler.step = "accept" /\ ~handler.live /\ StartStream("steering")
QueueOrRefuse ==
    /\ handler.step = "accept" /\ handler' = NoHandler
    /\ UNCHANGED <<active, carrier, streamed, sessionSlot, clientSaw, failures>>

(* on_assistant_cancel: the transport is looked up before the service is   *)
(* asked, whether it has begun to tell its client after.                   *)
Cancel ==
    /\ Handles([step |-> "ask", for |-> "cancel", task |-> active])
    /\ UNCHANGED <<active, carrier, streamed, sessionSlot, clientSaw, failures>>

(* task.cancel(): a transport that waits to be admitted ends with that; a  *)
(* running one closes its turn, and one that closes is left at once.       *)
StoppedAt(t) == IF carrier[t].step \in {"reading", "emitting"} THEN "closing" ELSE "done"
Stops(t) ==
    /\ carrier' = [carrier EXCEPT ![t].step = StoppedAt(t)]
    /\ active' = IF StoppedAt(t) = "done" THEN Released(t) ELSE active

BugUnclaimed(t) == carrier[t].read = 0 \/ carrier[t].step = "emitting"   \* Mutant: claimed only once emitted.
Unclaimed(t) == ~carrier[t].claimed

(* cancel_session.  A message drains the turn and then stops its           *)
(* transport; a cancellation first stops one that has told nothing.        *)
CancelSession ==
    /\ handler.step = "ask"
    /\ LET t == handler.task
       IN  IF handler.for = "message"
           THEN /\ handler' = [handler EXCEPT !.step = "drain"] @@ [waits |-> sessionSlot]
                /\ streamed' = CancelStreamed(sessionSlot)
                /\ UNCHANGED <<active, carrier>>
           ELSE IF t # 0 /\ Unclaimed(t)
           THEN /\ handler' = [handler EXCEPT !.step = "gather"]
                /\ IF TransportEnded(t) THEN streamed' = CancelStreamed(sessionSlot) /\ UNCHANGED <<active, carrier>>
                   ELSE /\ Stops(t)
                        /\ streamed' = Cancels({sessionSlot, t})
           ELSE /\ handler' = NoHandler
                /\ streamed' = CancelStreamed(sessionSlot)
                /\ UNCHANGED <<active, carrier>>
    /\ UNCHANGED <<sessionSlot, clientSaw, failures>>

Forbidden ==
    /\ handler.step = "ask" /\ handler' = NoHandler
    /\ UNCHANGED <<active, carrier, streamed, sessionSlot, clientSaw, failures>>

(* wait_for_session.                                                       *)
Drained ==
    /\ handler.step = "drain" /\ handler.waits \in {0} \cup {t \in Transports : streamed[t].step = "done"}
    /\ IF handler.for = "cancel"
       THEN /\ MayBegin
            /\ BeginsTransport("envelope", carrier[handler.task].of, Envelope)
            /\ handler' = NoHandler
       ELSE /\ handler' = [handler EXCEPT !.step = "gather"]
            /\ IF TransportEnded(handler.task) THEN UNCHANGED <<active, carrier, streamed>>
               ELSE Stops(handler.task) /\ streamed' = CancelStreamed(handler.task)
            /\ UNCHANGED clientSaw
    /\ UNCHANGED <<sessionSlot, failures>>

BugGathered == TRUE   \* Mutant: the transport is told to stop, not waited for.
Gathered == TransportEnded(handler.task)

Gather ==
    /\ handler.step = "gather" /\ Gathered
    /\ IF handler.for = "message" THEN StartStream("plain")
       ELSE /\ handler' = [step |-> "drain", for |-> "cancel", task |-> handler.task, waits |-> sessionSlot]
            /\ UNCHANGED <<active, carrier, streamed, sessionSlot, clientSaw, failures>>

-----------------------------------------------------------------------------
SocketInit ==
    /\ active = 0 /\ carrier = <<>> /\ streamed = <<>> /\ sessionSlot = 0
    /\ handler = NoHandler /\ clientSaw = <<>> /\ failures = 0

SocketNext ==
    \/ Continue \/ PlainMessage \/ Steer \/ Promote \/ QueueOrRefuse
    \/ Cancel \/ CancelSession \/ Forbidden \/ Drained \/ Gather
    \/ \E t \in Transports :
         \/ AdmitStream(t) \/ Turned(t) \/ OpenEnvelope(t) \/ ReadEvent(t) \/ Emitted(t)
         \/ EmissionFails(t) \/ BrokenOff(t) \/ CloseStream(t) \/ Make(t) \/ FinishStreamed(t)

SocketSpec == SocketInit /\ [][SocketNext]_socketVars

-----------------------------------------------------------------------------
(* Properties.                                                             *)

HasTold(t) == carrier[t].read # 0 /\ Frees(t, carrier[t].read)

(* "Close the accepted transport lifecycle after cleanup": whatever is     *)
(* cancelled when, a request's client is told one lifecycle, in order,     *)
(* never a second `started`, and nothing after `completed`.                *)
OneLifecycle ==
    \A r \in Transports :
        LET events == SelectSeq(clientSaw[r], LAMBDA e : e # ErrorEvent)
        IN  \A i \in DOMAIN events : events[i] = i

(* A transport that still has its outcome to tell can be reached by what   *)
(* the client sends next, unless a later one was started.                  *)
NewestIsActive ==
    carrier # <<>> =>
        LET t == Len(carrier)
        IN  ~TransportEnded(t) /\ ~HasTold(t) => active = t

(* "Finish that consumer before exposing a replacement": when an ordinary  *)
(* request's transport exists, an earlier one goes on only if it had told  *)
(* its outcome, or gave the session up to a continuation.                  *)
Replaced ==
    \A t, u \in Transports :
        t < u /\ carrier[u].kind \in {"plain", "envelope"} /\ ~TransportEnded(t)
        => HasTold(t) \/ \E c \in t + 1..u : carrier[c].kind \in {"continuation", "steering"}

OneTransportSpeaks == OneLifecycle /\ NewestIsActive /\ Replaced
=============================================================================
