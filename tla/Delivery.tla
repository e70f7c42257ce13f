------------------------------ MODULE Delivery ------------------------------
(***************************************************************************)
(* How a message that is not a turn of its own reaches the model of one    *)
(* session: an event another system records (app/event_log), a message     *)
(* injected through the ingress (app/ingress) and steering a person types  *)
(* (accept_steering).  It becomes steering of the session, handed to the   *)
(* running turn, to the next one, or run as a turn (TurnPolicy and         *)
(* _handle_output); while no session takes it, it waits in the inbox and   *)
(* is drained into the next message turn.                                  *)
(*                                                                         *)
(* The actors are the requests that bring messages, the turns of the       *)
(* session, a voice call that may hold it, and the death of the process.   *)
(* The turn slot and the admission lock are those of SessionAdmission.  A  *)
(* database write is two actions: its commit, and what the code does when  *)
(* the await returns.  With Postgres; without it the inbox and the         *)
(* steering live in the process and are never read again after it.         *)
(***************************************************************************)
EXTENDS Integers, FiniteSets

CONSTANTS
    Events,         \* (source, event_id) keys
    Requests,       \* requests that bring a message, each made once
    Carries,        \* [Requests -> Events \cup Kinds]
    MessageTurns,   \* user messages, each run once as a turn
    ProfileOf,      \* [Requests \cup MessageTurns -> Profiles \cup {None}]
    DefaultProfile, \* the startup profile
    MaxRounds,      \* bound: model requests of one turn (usage_limits)
    MaxCrashes,     \* bound: how often the process dies and restarts
    MaxFaults       \* bound: how many writes raise

None == "none"

(* "inject" is POST /assistant/inject or /inbox, "tick" the heartbeat,     *)
(* which never queues for later, "steer" a socket's steering message; any  *)
(* other request records the event it carries.                             *)
Kinds == {"inject", "tick", "steer"}
Posts == {r \in Requests : Carries[r] \in Events}
Turns == MessageTurns \cup Requests

ASSUME RequestsAssumption ==
    /\ None \notin Turns \cup Events /\ Events \cap Kinds = {}
    /\ MessageTurns \cap Requests = {}
    /\ Carries \in [Requests -> Events \cup Kinds]
    /\ \A t \in MessageTurns : ProfileOf[t] # None
    /\ DefaultProfile # None
ASSUME BoundsAssumption ==
    MaxRounds \in Nat \ {0} /\ MaxCrashes \in Nat /\ MaxFaults \in Nat

(* The id of the steering a request becomes: fresh for one it queues, and  *)
(* inbox-<id> for one that waited.                                         *)
Direct(r) == <<"steering", r>>
Inbox(r)  == <<"inbox", r>>
Ids == {Direct(r) : r \in Requests} \cup {Inbox(r) : r \in Requests}

VARIABLES
    delivery,           \* [Events -> Deliveries]: the events row
    inbox,              \* [Requests -> {None, "waiting", "surfaced"}]: inbox rows
    row,                \* [Ids -> Marks]: steering rows
    exists,             \* the session has a row and an active leaf
    mem,                \* [Ids -> Marks]: steering_index of the cached context
    saved,              \* steering in the messages of the assistant rows
    held,               \* a voice call reserves the session
    lock,               \* the request inside accept_steering
    pc, answer, live,   \* of each request
    promoted,           \* requests whose own turn waits for the slot
    turn, phase,        \* the running turn and where its code is
    ran,                \* user messages that had their turn
    current,            \* current_assistant_message_id is set
    todo, item,         \* what drain has still to queue, and queues
    inflight, consumed, \* TurnPolicy of the current run
    said,               \* steering in RunSnapshot.assistant_messages
    failed,             \* the run was interrupted or raised
    rounds,             \* model requests it made
    heard,              \* ids a completed model request carried
    unsaved,            \* ids whose turn could not be saved
    crashes, faults

rows    == <<delivery, inbox, row, exists, saved>>
intake  == <<lock, pc, answer, live>>
draining == <<todo, item>>
run     == <<inflight, consumed, said, failed, rounds>>
ghosts  == <<heard, unsaved>>
bounds  == <<crashes, faults>>
slot   == <<turn, phase, ran, current>>
outer  == <<held, promoted>>
vars == <<rows, mem, outer, intake, slot, draining, run, ghosts, bounds>>

Marks == {None, "pending", "delivered"}
Hows  == {"queued", "promoted", "inbox"}
Deliveries == {None, "received", "started", "error"} \cup Hows
DrainPhases == {"drain", "item", "publish", "consume"}
RunPhases == {"prompt", "request", "ack", "acked", "tools"}
Phases == {None, "plan", "setup", "save", "closing", "tail"} \cup DrainPhases \cup RunPhases

TypeOK ==
    /\ delivery \in [Events -> Deliveries]
    /\ inbox \in [Requests -> {None, "waiting", "surfaced"}]
    /\ row \in [Ids -> Marks] /\ mem \in [Ids -> Marks]
    /\ exists \in BOOLEAN /\ held \in BOOLEAN /\ current \in BOOLEAN
    /\ failed \in BOOLEAN /\ ran \subseteq MessageTurns
    /\ lock \in Requests \cup {None}
    /\ pc \in [Requests -> {"idle", "claim", "resolve", "accept", "write", "publish",
                            "wait", "outcome", "done", "lost"}]
    /\ answer \in [Requests -> Hows \cup {None, "error"}] /\ live \in [Requests -> BOOLEAN]
    /\ promoted \subseteq Requests /\ turn \in Turns \cup {None}
    /\ phase \in Phases
    /\ todo \subseteq Requests /\ item \in Requests \cup {None}
    /\ \A S \in {saved, inflight, consumed, said, heard, unsaved} : S \subseteq Ids
    /\ rounds \in 0..MaxRounds /\ crashes \in 0..MaxCrashes /\ faults \in 0..MaxFaults

Init ==
    /\ delivery = [e \in Events |-> None]
    /\ inbox = [r \in Requests |-> None]
    /\ row = [i \in Ids |-> None] /\ mem = [i \in Ids |-> None]
    /\ exists = FALSE /\ held = FALSE /\ current = FALSE
    /\ failed = FALSE /\ ran = {}
    /\ lock = None /\ turn = None /\ phase = None /\ item = None
    /\ pc = [r \in Requests |-> "idle"] /\ answer = [r \in Requests |-> None]
    /\ live = [r \in Requests |-> FALSE]
    /\ promoted = {} /\ todo = {}
    /\ saved = {} /\ inflight = {} /\ consumed = {} /\ said = {}
    /\ heard = {} /\ unsaved = {}
    /\ rounds = 0 /\ crashes = 0 /\ faults = 0

Goto(r, where) == pc' = [pc EXCEPT ![r] = where]
Answer(r, how) == answer' = [answer EXCEPT ![r] = how]

(* A write raises: nothing is committed.                                   *)
Fault == faults < MaxFaults /\ faults' = faults + 1 /\ UNCHANGED crashes

-----------------------------------------------------------------------------
(* Requests that bring a message.                                          *)

(* EventLogService.record: the event is stored once; whether to deliver it *)
(* is decided on the record as this transaction saw it.                    *)
Record(r) ==
    /\ r \in Posts /\ pc[r] = "idle"
    /\ LET e == Carries[r] IN
       /\ delivery' = [delivery EXCEPT ![e] = IF @ = None THEN "received" ELSE @]
       /\ Goto(r, IF delivery[e] \in {None, "received"} THEN "claim" ELSE "done")
    /\ UNCHANGED <<inbox, row, exists, saved, mem, outer, lock, answer, live,
                   slot, draining, run, ghosts, bounds>>

(* _deliver, first transaction: under the row's lock, the start is noted   *)
(* unless another request has noted it.                                    *)
BugMayStart(e) == TRUE   \* Mutant: the row is not read again under its lock.
MayStart(e) == delivery[e] = "received"

StartDelivery(r) ==
    /\ r \in Posts /\ pc[r] = "claim"
    /\ LET e == Carries[r] IN
       IF MayStart(e)
       THEN delivery' = [delivery EXCEPT ![e] = "started"] /\ Goto(r, "resolve")
       ELSE UNCHANGED delivery /\ Goto(r, "done")
    /\ UNCHANGED <<inbox, row, exists, saved, mem, outer, lock, answer, live,
                   slot, draining, run, ghosts, bounds>>

(* An injected message, a heartbeat, or steering from a socket, which      *)
(* looks whether its session streams before it waits for the lock.         *)
Arrive(r) ==
    /\ r \notin Posts /\ pc[r] = "idle"
    /\ Goto(r, IF Carries[r] = "steer" THEN "accept" ELSE "resolve")
    /\ live' = [live EXCEPT ![r] = Carries[r] = "steer" /\ turn # None]
    /\ UNCHANGED <<rows, mem, outer, lock, answer, slot, draining, run,
                   ghosts, bounds>>

(* IngressService.deliver and _resolve_session: no session, no steering.   *)
Resolve(r) ==
    /\ pc[r] = "resolve"
    /\ Goto(r, IF exists THEN "accept" ELSE IF Carries[r] = "tick" THEN "done" ELSE "wait")
    /\ UNCHANGED <<rows, mem, outer, lock, answer, live, slot, draining, run,
                   ghosts, bounds>>

(* Where a request goes with what it brought: an event's outcome is noted. *)
Reported(r) == IF r \in Posts THEN "outcome" ELSE "done"

(* deliver, when accept_steering raised: held means wait, else give up.    *)
Refused(r) == IF held /\ Carries[r] # "steer" THEN "wait" ELSE Reported(r)

(* accept_steering under the admission lock: refused while a voice call    *)
(* has the session; behind a live stream or a turn in flight it is queued. *)
AcceptSteering(r) ==
    /\ pc[r] = "accept" /\ lock = None
    /\ IF held \/ ~exists
       THEN /\ Goto(r, Refused(r))
            /\ Answer(r, IF Refused(r) = "wait" THEN None ELSE "error")
            /\ UNCHANGED lock
       ELSE /\ lock' = r
            /\ Goto(r, "write")
            /\ Answer(r, IF live[r] \/ current THEN "queued" ELSE "promoted")
    /\ UNCHANGED <<rows, mem, outer, live, slot, draining, run, ghosts,
                   bounds>>

(* queue_steering: the row, then the cached context.                       *)
CreateSteering(r) ==
    /\ pc[r] = "write"
    /\ \/ /\ row' = [row EXCEPT ![Direct(r)] = "pending"]
          /\ Goto(r, "publish")
          /\ UNCHANGED <<lock, answer, bounds>>
       \/ /\ Fault
          /\ lock' = None
          /\ Goto(r, Reported(r)) /\ Answer(r, "error")
          /\ UNCHANGED row
    /\ UNCHANGED <<delivery, inbox, exists, saved, mem, outer, live, slot,
                   draining, run, ghosts>>

AddSteering(r) ==
    /\ pc[r] = "publish"
    /\ mem' = [mem EXCEPT ![Direct(r)] = "pending"]
    /\ lock' = None
    /\ promoted' = IF answer[r] = "promoted" THEN promoted \cup {r} ELSE promoted
    /\ Goto(r, Reported(r))
    /\ UNCHANGED <<rows, held, answer, live, slot, draining, run, ghosts,
                   bounds>>

(* IngressService._queue: a write that fails is raised, never kept only in *)
(* memory.                                                                 *)
QueueInInbox(r) ==
    /\ pc[r] = "wait"
    /\ \/ /\ inbox' = [inbox EXCEPT ![r] = "waiting"]
          /\ Answer(r, "inbox") /\ UNCHANGED bounds
       \/ /\ Fault
          /\ Answer(r, "error") /\ UNCHANGED inbox
    /\ Goto(r, Reported(r))
    /\ UNCHANGED <<delivery, row, exists, saved, mem, outer, lock, live, slot,
                   draining, run, ghosts>>

(* _deliver, last transaction: how it went.                                *)
NoteOutcome(r) ==
    /\ r \in Posts /\ pc[r] = "outcome"
    /\ \/ delivery' = [delivery EXCEPT ![Carries[r]] = answer[r]] /\ UNCHANGED bounds
       \/ Fault /\ UNCHANGED delivery
    /\ Goto(r, "done")
    /\ UNCHANGED <<inbox, row, exists, saved, mem, outer, lock, answer, live,
                   slot, draining, run, ghosts>>

-----------------------------------------------------------------------------
(* A voice call: reserve_session takes the session only while no turn      *)
(* runs, under the admission lock.                                         *)
Reserve == /\ exists /\ ~held /\ turn = None /\ lock = None
           /\ held' = TRUE
           /\ UNCHANGED <<rows, mem, promoted, intake, slot, draining, run, ghosts, bounds>>

Release == /\ held /\ held' = FALSE
           /\ UNCHANGED <<rows, mem, promoted, intake, slot, draining, run, ghosts, bounds>>

-----------------------------------------------------------------------------
(* Turns: stream_message, TurnPlanner.plan, drain, TurnRunner.run.         *)

Enter(t) == /\ turn = None /\ lock = None /\ ~held
            /\ turn' = t /\ phase' = "plan"
            /\ failed' = FALSE /\ inflight' = {} /\ consumed' = {}
            /\ said' = {} /\ rounds' = 0

RegisterMessage(t) ==
    /\ t \in MessageTurns \ ran
    /\ Enter(t) /\ ran' = ran \cup {t}
    /\ UNCHANGED <<rows, mem, outer, intake, current, draining, ghosts, bounds>>

(* IngressService._run or the socket's stream: a promoted steering waits   *)
(* for the slot, and is refused while a voice call holds the session.      *)
RunPromoted(r) ==
    /\ r \in promoted
    /\ promoted' = promoted \ {r}
    /\ \/ Enter(r) /\ UNCHANGED <<ran, current>>
       \/ held /\ UNCHANGED <<slot, run>>
    /\ UNCHANGED <<rows, mem, held, intake, draining, ghosts, bounds>>

Leave == turn' = None /\ phase' = None

(* _plan_message writes the user's message, and with it a new session.     *)
PlanMessage ==
    /\ phase = "plan" /\ turn \in MessageTurns
    /\ exists' = TRUE /\ current' = TRUE
    /\ phase' = "drain"
    /\ UNCHANGED <<delivery, inbox, row, saved, mem, outer, intake, turn, ran, draining,
                   run, ghosts, bounds>>

(* _plan_steering: "already delivered by another turn", or run for it.     *)
PlanSteering ==
    /\ phase = "plan" /\ turn \in Requests
    /\ IF mem[Direct(turn)] = "pending"
       THEN current' = TRUE /\ phase' = "setup" /\ UNCHANGED turn
       ELSE Leave /\ UNCHANGED current
    /\ UNCHANGED <<rows, mem, outer, intake, ran, draining, run, ghosts, bounds>>

(* Cancelled while planning, or a plan that raises.                        *)
PlanFails == /\ phase = "plan" /\ Leave
             /\ UNCHANGED <<rows, mem, outer, intake, ran, current, draining, run,
                            ghosts, bounds>>

(* IngressService.drain: what waits is read once.                          *)
ReadInbox ==
    /\ phase = "drain"
    /\ todo' = {r \in Requests : inbox[r] = "waiting"}
    /\ phase' = "item"
    /\ UNCHANGED <<rows, mem, outer, intake, turn, ran, current, item, run, ghosts, bounds>>

(* queue_steering of one message: an id that exists, in the cached context *)
(* or in the table, was queued on a previous attempt.                      *)
QueueDrained(r) ==
    /\ phase = "item" /\ r \in todo
    /\ todo' = todo \ {r} /\ item' = r
    /\ IF mem[Inbox(r)] # None \/ row[Inbox(r)] # None
       THEN phase' = "consume" /\ UNCHANGED row
       ELSE phase' = "publish" /\ row' = [row EXCEPT ![Inbox(r)] = "pending"]
    /\ UNCHANGED <<delivery, inbox, exists, saved, mem, outer, intake, turn, ran, current,
                   run, ghosts, bounds>>

AddDrained ==
    /\ phase = "publish"
    /\ mem' = [mem EXCEPT ![Inbox(item)] = "pending"]
    /\ phase' = "consume"
    /\ UNCHANGED <<rows, outer, intake, turn, ran, current, draining, run, ghosts, bounds>>

(* _consume: a write that fails is logged; the message stays and is        *)
(* consumed by a later drain.                                              *)
Consume ==
    /\ phase = "consume"
    /\ \/ inbox' = [inbox EXCEPT ![item] = "surfaced"] /\ UNCHANGED bounds
       \/ Fault /\ UNCHANGED inbox
    /\ item' = None /\ phase' = "item"
    /\ UNCHANGED <<delivery, row, exists, saved, mem, outer, intake, turn, ran, current,
                   todo, run, ghosts>>

(* The drain is over, it raised, or it was cancelled at one of its awaits. *)
DrainEnds ==
    /\ phase \in DrainPhases
    /\ todo' = {} /\ item' = None /\ phase' = "setup"
    /\ UNCHANGED <<rows, mem, outer, intake, turn, ran, current, run, ghosts, bounds>>

-----------------------------------------------------------------------------
(* The run of the model.                                                   *)

Profile(t) == IF ProfileOf[t] = None THEN DefaultProfile ELSE ProfileOf[t]

(* The profile a steering record asks for; ingress records ask for none.   *)
Selector(i) == IF i[1] = "inbox" THEN None ELSE ProfileOf[i[2]]

(* list_pending_steering for the profile of the turn.                      *)
Pending == {i \in Ids : mem[i] = "pending"}
PendingFor(t) == {i \in Pending : Selector(i) \in {None, Profile(t)}}

StartRun == /\ phase = "setup" /\ phase' = "prompt"
            /\ UNCHANGED <<rows, mem, outer, intake, turn, ran, current, draining, run,
                           ghosts, bounds>>

(* Before the first model request of a run and before each one that        *)
(* follows tool results, what is pending is put into the request.          *)
EnqueueSteering ==
    /\ phase \in {"prompt", "tools"} /\ rounds < MaxRounds
    /\ LET fresh == PendingFor(turn) \ inflight IN
       /\ inflight' = inflight \cup fresh
       /\ consumed' = consumed \cup fresh
       /\ said' = said \cup fresh
    /\ rounds' = rounds + 1 /\ phase' = "request"
    /\ UNCHANGED <<rows, mem, outer, intake, turn, ran, current, draining, failed, ghosts,
                   bounds>>

(* The response arrives whole.                                             *)
Respond ==
    /\ phase = "request"
    /\ heard' = heard \cup consumed
    /\ phase' = "ack"
    /\ UNCHANGED <<rows, mem, outer, intake, turn, ran, current, draining, run, unsaved,
                   bounds>>

(* after_node_run: mark_steering_delivered, the rows and then the context, *)
(* of the records this run's completed requests consumed.                  *)
BugConsumed == PendingFor(turn)   \* Mutant: whatever is pending by then.
Consumed == consumed \cap Pending

Acknowledge ==
    /\ phase = "ack"
    /\ row' = [i \in Ids |-> IF i \in Consumed THEN "delivered" ELSE row[i]]
    /\ phase' = "acked"
    /\ UNCHANGED <<delivery, inbox, exists, saved, mem, outer, intake, turn, ran, current,
                   draining, run, ghosts, bounds>>

(* The response asks for tools, or it ends the run.                        *)
Acknowledged ==
    /\ phase = "acked"
    /\ mem' = [i \in Ids |-> IF i \in Consumed THEN "delivered" ELSE mem[i]]
    /\ consumed' = {}
    /\ phase' \in {"tools", "save"}
    /\ UNCHANGED <<rows, outer, intake, turn, ran, current, draining, inflight, said,
                   failed, rounds, ghosts, bounds>>

(* Cancellation, an error of the model or of a write, a timeout and the    *)
(* usage limit end the run at any of its awaits.                           *)
Interrupt ==
    /\ phase \in RunPhases \cup {"setup"}
    /\ failed' = TRUE /\ phase' = "save"
    /\ UNCHANGED <<rows, mem, outer, intake, turn, ran, current, draining, inflight,
                   consumed, said, rounds, ghosts, bounds>>

(* persist_snapshot leaves out what is still pending (_without_steering).  *)
BugWithoutSteering(S) == S   \* Mutant: the snapshot keeps pending steering.
WithoutSteering(S) == S \ Pending

(* _handle_output: steering that this turn can consume is pending.         *)
BugFollowUp == Pending # {}   \* Mutant: steering of any profile.
FollowUp == PendingFor(turn) # {}

(* After the save the turn may run again for that steering.  A save that   *)
(* raises is tried once more, by the handler of the failed run.            *)
PersistSnapshot ==
    /\ phase = "save"
    /\ \/ /\ saved' = saved \cup WithoutSteering(said)
          /\ said' = WithoutSteering(said)
          /\ IF ~failed /\ FollowUp
             THEN phase' = "prompt" /\ inflight' = {} /\ consumed' = {}
             ELSE phase' = "closing" /\ UNCHANGED <<inflight, consumed>>
          /\ UNCHANGED <<failed, unsaved, bounds>>
       \/ /\ Fault
          /\ failed' = TRUE
          /\ IF failed THEN phase' = "closing" /\ unsaved' = unsaved \cup said
                       ELSE UNCHANGED <<phase, unsaved>>
          /\ UNCHANGED <<saved, said, inflight, consumed>>
    /\ UNCHANGED <<delivery, inbox, row, exists, mem, outer, intake, turn, ran, current,
                   draining, rounds, heard>>

(* The finally clause of run: from here steering is promoted again.        *)
Close == /\ phase = "closing" /\ phase' = "tail" /\ current' = FALSE
         /\ UNCHANGED <<rows, mem, outer, intake, turn, ran, draining, run, ghosts, bounds>>

(* _produce_turn frees the slot.                                           *)
Free == /\ phase = "tail" /\ Leave
        /\ UNCHANGED <<rows, mem, outer, intake, ran, current, draining, run, ghosts, bounds>>

-----------------------------------------------------------------------------
(* The process dies; the next one reads the rows.                          *)
Crash ==
    /\ crashes < MaxCrashes /\ crashes' = crashes + 1
    /\ mem' = row
    /\ unsaved' = unsaved \cup {i \in Ids : row[i] = "delivered" /\ i \notin saved}
    /\ held' = FALSE /\ promoted' = {} /\ lock' = None
    /\ pc' = [r \in Requests |-> IF pc[r] \in {"idle", "done"} THEN pc[r] ELSE "lost"]
    /\ Leave /\ current' = FALSE
    /\ todo' = {} /\ item' = None
    /\ inflight' = {} /\ consumed' = {} /\ said' = {} /\ failed' = FALSE /\ rounds' = 0
    /\ UNCHANGED <<rows, answer, live, ran, heard, faults>>

Intake(r) == \/ Record(r) \/ StartDelivery(r) \/ Arrive(r) \/ Resolve(r)
             \/ AcceptSteering(r) \/ CreateSteering(r) \/ AddSteering(r)
             \/ QueueInInbox(r) \/ NoteOutcome(r)

TurnStep ==
    \/ PlanMessage \/ PlanSteering \/ PlanFails
    \/ ReadInbox \/ (\E r \in Requests : QueueDrained(r)) \/ AddDrained \/ Consume \/ DrainEnds
    \/ StartRun \/ EnqueueSteering \/ Respond \/ Acknowledge \/ Acknowledged \/ Interrupt
    \/ PersistSnapshot \/ Close \/ Free

Next == \/ \E r \in Requests : Intake(r) \/ RunPromoted(r)
        \/ \E t \in MessageTurns : RegisterMessage(t)
        \/ TurnStep \/ Reserve \/ Release \/ Crash

Spec == Init /\ [][Next]_vars

-----------------------------------------------------------------------------
(* Properties.                                                             *)

(* An event becomes at most one message of the session, however often it   *)
(* is recorded, by however many requests at once, and over a restart:      *)
(* steering of its own, a waiting message, or the steering that message    *)
(* became ("never again", EventLogService.record).                         *)
Copies(r) == {i \in {Direct(r), Inbox(r)} : row[i] # None}
             \cup {i \in {Inbox(r)} : inbox[r] # None}
DeliveredOnce ==
    \A e \in Events : Cardinality(UNION {Copies(r) : r \in {p \in Posts : Carries[p] = e}}) <= 1

(* Between turns the saved messages and the queue agree: what later turns  *)
(* replay is exactly what was acknowledged, so nothing is replayed and     *)
(* sent again.  A turn whose messages could not be saved, because writes   *)
(* failed or the process died, is the exception.                           *)
ReplayedOnce ==
    turn = None => \A i \in Ids :
        /\ i \in saved => mem[i] = "delivered"
        /\ mem[i] = "delivered" => i \in saved \cup unsaved

(* A message reaches its session's runs once, and what is replayed to a    *)
(* provider replays each turn once.                                        *)
OnceOnly == DeliveredOnce /\ ReplayedOnce

(* A follow-up run always has something new to say to the model, also when *)
(* what is pending asks for another profile.                               *)
FollowUpHasNews ==
    [][phase = "prompt" /\ phase' = "request" /\ rounds > 0 => consumed' # {}]_vars

(* What was taken is kept until the model heard it.                        *)
Fate(r) == IF "delivered" \in {row[Direct(r)], row[Inbox(r)]} THEN "done"
           ELSE IF Copies(r) # {} THEN "kept" ELSE "offered"
Promise == INSTANCE DeliveryPromise WITH
    Messages <- Requests,
    fate <- [r \in Requests |-> Fate(r)],
    heard <- {r \in Requests : {Direct(r), Inbox(r)} \cap heard # {}}
KeepsItsPromise == Promise!Spec
(* The same, cheaper to check: a step that changes nothing is told first.  *)
PromiseKept ==
    /\ Promise!Init
    /\ [][UNCHANGED vars \/ Promise!Next]_(Promise!vars)

(* "A heartbeat is only meaningful now: never queue one for later."        *)
HeartbeatNeverWaits == \A r \in Requests : Carries[r] = "tick" => inbox[r] = None
=============================================================================
