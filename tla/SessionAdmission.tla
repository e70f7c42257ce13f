-------------------------- MODULE SessionAdmission --------------------------
(***************************************************************************)
(* Who may act on one conversation, and when.  This is                     *)
(* app/streaming/interface.py (StreamingService) with _control.py          *)
(* (TurnControl): the per-session admission lock, the single turn slot     *)
(* (_active_turns), the voice reservation (_session_leases), the           *)
(* administrative mutation mark (_session_mutations), cache pins, the      *)
(* post-turn background chain and the shutdown sequence.                   *)
(*                                                                         *)
(* Sessions share nothing but `started`, so the module has one session.    *)
(* Every call of the service is a process of Procs; an action is the code  *)
(* between two suspension points of one process.  asyncio.Lock serves its  *)
(* waiters first come first served: `holder` and `waiters`.                *)
(***************************************************************************)
EXTENDS Integers, Sequences, FiniteSets, SequencesExt

CONSTANTS
    Procs,       \* the calls made on the session, one process each
    Kind,        \* [Procs -> Kinds]: which operation the call is
    Actor,       \* [Procs -> Principals]: who makes it
    LeaseOf,     \* [Procs -> Procs \cup {None}]: the voice call it belongs to
    Principals,  \* identities of access control
    Admins       \* those that hold the admin role

None    == "none"      \* no process
NoOwner == "unowned"   \* a context whose owner_id is None
Missing == "missing"   \* no context in memory and no row

TurnKinds == {"message", "result", "steering"}   \* stream_message requests
Kinds == TurnKinds \cup {"call", "host", "steer", "assign", "delete",
                         "repair", "cancel", "join"}

OfKind(ks)  == {p \in Procs : Kind[p] \in ks}
Turns       == OfKind(TurnKinds)
Calls       == OfKind({"call"})               \* voice calls
HostWrites  == OfKind({"host"})               \* append_host_message
Steers      == OfKind({"steer"})              \* accept_steering
Assigns     == OfKind({"assign"})             \* set_session_owner
Mutations   == OfKind({"delete", "repair"})   \* routes under session_mutation
Cancels     == OfKind({"cancel"})             \* cancel_session
Joins       == OfKind({"join"})               \* on_assistant_join_session

ASSUME ProcsAssumption == /\ None \notin Procs
                          /\ Kind \in [Procs -> Kinds]
                          /\ Actor \in [Procs -> Principals]
ASSUME PrincipalsAssumption == /\ Admins \subseteq Principals
                               /\ {NoOwner, Missing} \cap Principals = {}
(* Only a turn can carry another process's lease; a call carries its own.  *)
ASSUME LeaseAssumption ==
    /\ LeaseOf \in [Procs -> Calls \cup {None}]
    /\ \A c \in Calls : LeaseOf[c] = c
    /\ \A p \in Procs \ (Turns \cup Calls) : LeaseOf[p] = None

VARIABLES
    started, stopPhase, stopWaits,   \* StreamingService.stop
    holder, waiters,                 \* the admission lock and its queue
    slot,                            \* _active_turns[session]
    lease,                           \* _session_leases[session]
    mutating,                        \* _session_mutations
    pins,                            \* SessionStore._pinned[session]
    background,                      \* _background_chains: turns with memory work
    owner, said,                     \* owner_id and message_count > 0
    pc, waitsFor,                    \* where each process is, whom it drains
    accepting, cancelled, outcome    \* TurnControl, and how the turn ended

stopVars == <<started, stopPhase, stopWaits>>
lockVars == <<holder, waiters>>
ownVars  == <<owner, said>>
ctlVars  == <<accepting, cancelled, outcome>>
vars == <<stopVars, lockVars, slot, lease, mutating, pins, background,
          ownVars, pc, waitsFor, ctlVars>>

Places == {"idle", "lock", "drain", "planning", "running", "publishing",
           "closing", "writing", "confirm", "connecting", "live", "hangup",
           "cancelwork", "settle", "warming", "done", "left"}
Outcomes == {"none", "rejected", "forbidden", "refused", "completed",
             "cancelled", "failed"}

ActivePlaces == {"planning", "running", "publishing", "closing"}
LeasePlaces  == {"confirm", "connecting", "live", "hangup", "cancelwork",
                 "settle"}

Init ==
    /\ started = TRUE /\ stopPhase = "up" /\ stopWaits = None
    /\ holder = None /\ waiters = <<>>
    /\ slot = None /\ lease = None /\ mutating = None
    /\ pins = 0 /\ background = <<>>
    /\ owner \in Principals \cup {NoOwner, Missing}
    /\ said \in BOOLEAN /\ (owner = Missing => ~said)
    /\ (owner = NoOwner => said)       \* rows older than ownership have messages
    /\ pc = [p \in Procs |-> "idle"]
    /\ waitsFor = [p \in Procs |-> None]
    /\ accepting = {} /\ cancelled = {}
    /\ outcome = [p \in Procs |-> "none"]

-----------------------------------------------------------------------------
(* The checks every operation makes.                                       *)

CanAccess(a, o) == a \in Admins \/ o = a        \* can_access_session

(* _authorize: an existing context decides; a missing one is protected by  *)
(* the turn that is about to create it (a host write has no owner_id).     *)
Authorized(p) ==
    \/ Actor[p] \in Admins
    \/ owner = Actor[p]
    \/ owner = Missing /\ slot \notin HostWrites
                       /\ (slot \in Turns => Actor[slot] = Actor[p])

(* Mutant: the check forgets the administrative mutation.                  *)
BugAvailable(p) == lease \in {None, LeaseOf[p]}
(* check_session_available with the caller's own lease.                    *)
Available(p) == mutating = None /\ lease \in {None, LeaseOf[p]}

(* Mutant: a turn that was told to stop no longer counts.                  *)
BugSlotFree == slot \in {None} \cup cancelled
SlotFree == slot = None

(* TurnControl.cancel on the process in the turn slot, if there is one.    *)
CancelSlot == cancelled' = cancelled \cup ({slot} \cap accepting)

Goto(p, place) == pc' = [pc EXCEPT ![p] = place]
EndAs(t, o)    == outcome' = [outcome EXCEPT ![t] = o]

(* `async with self._admission_lock(...)`: enter, and leave.               *)
TakeLock(p) ==
    IF holder = None THEN holder' = p /\ UNCHANGED waiters
                     ELSE waiters' = Append(waiters, p) /\ UNCHANGED holder
FreeLock ==
    IF waiters = <<>> THEN holder' = None /\ UNCHANGED waiters
                      ELSE holder' = Head(waiters) /\ waiters' = Tail(waiters)

(* _admission_lock refuses once the service stops.                         *)
EnterLock(p, place) ==
    IF started THEN Goto(p, place) /\ TakeLock(p)
               ELSE Goto(p, "left") /\ UNCHANGED lockVars

HasLock(p, place) == holder = p /\ pc[p] = place

(* The operation ends: answered or refused.                                *)
Leave(p) == Goto(p, "left") /\ FreeLock

-----------------------------------------------------------------------------
(* stream_message and _produce_turn.                                       *)

(* A voice call's worker runs one turn at a time and none after hang-up.   *)
CallAllows(t) ==
    LeaseOf[t] # None =>
        /\ pc[LeaseOf[t]] = "live"
        /\ \A u \in Turns \ {t} : LeaseOf[u] = LeaseOf[t] =>
                                      pc[u] \in {"idle", "done", "left"}

Submit(t) ==
    /\ pc[t] = "idle" /\ CallAllows(t)
    /\ EnterLock(t, "lock")
    /\ UNCHANGED <<stopVars, slot, lease, mutating, pins, background, ownVars,
                   waitsFor, ctlVars>>

(* SessionError and StreamingError leave the call; AccessDeniedError ends  *)
(* it with a `forbidden` envelope.                                         *)
RefuseTurn(t) ==
    /\ HasLock(t, "lock")
    /\ ~(Authorized(t) /\ started /\ Available(t))
    /\ EndAs(t, IF Authorized(t) THEN "rejected" ELSE "forbidden")
    /\ Leave(t)
    /\ UNCHANGED <<stopVars, slot, lease, mutating, pins, background, ownVars,
                   waitsFor, accepting, cancelled>>

RegisterTurn(t) ==
    /\ HasLock(t, "lock") /\ Authorized(t) /\ started /\ Available(t)
    /\ SlotFree
    /\ slot' = t
    /\ pins' = pins + 1
    /\ accepting' = accepting \cup {t}
    /\ Goto(t, "planning")
    /\ FreeLock
    /\ UNCHANGED <<stopVars, lease, mutating, background, ownVars, waitsFor,
                   cancelled, outcome>>

(* Mutant: the predecessor is drained inside `async with`.                 *)
BugStepOutToDrain(t) == Goto(t, "drain") /\ UNCHANGED lockVars
(* The wait for the predecessor is outside the lock.                       *)
StepOutToDrain(t) == Goto(t, "drain") /\ FreeLock

(* Only an ordinary message cancels the turn it waits for.                 *)
DrainPrevious(t) ==
    /\ HasLock(t, "lock") /\ Authorized(t) /\ started /\ Available(t)
    /\ ~SlotFree
    /\ IF Kind[t] = "message" THEN CancelSlot ELSE UNCHANGED cancelled
    /\ waitsFor' = [waitsFor EXCEPT ![t] = slot]
    /\ StepOutToDrain(t)
    /\ UNCHANGED <<stopVars, slot, lease, mutating, pins, background, ownVars,
                   accepting, outcome>>

Drained(t) ==
    /\ pc[t] = "drain" /\ pc[waitsFor[t]] = "done"
    /\ waitsFor' = [waitsFor EXCEPT ![t] = None]
    /\ EnterLock(t, "lock")
    /\ UNCHANGED <<stopVars, slot, lease, mutating, pins, background, ownVars,
                   ctlVars>>

(* The consumer is cancelled before its turn was registered.               *)
LeaveQueue(t) ==
    /\ pc[t] \in {"lock", "drain"}
    /\ Goto(t, "left")
    /\ waitsFor' = [waitsFor EXCEPT ![t] = None]
    /\ \/ holder = t /\ FreeLock
       \/ \E i \in DOMAIN waiters : /\ waiters[i] = t
                                    /\ waiters' = RemoveAt(waiters, i)
                                    /\ UNCHANGED holder
       \/ pc[t] = "drain" /\ UNCHANGED lockVars
    /\ UNCHANGED <<stopVars, slot, lease, mutating, pins, background, ownVars,
                   ctlVars>>

(* The consumer closes its iterator: its `finally` calls turn.cancel().    *)
CloseStream(t) ==
    /\ t \in accepting \ cancelled
    /\ cancelled' = cancelled \cup {t}
    /\ UNCHANGED <<stopVars, lockVars, slot, lease, mutating, pins, background,
                   ownVars, pc, waitsFor, accepting, outcome>>

(* The owner register_user_message or register_host_message leaves.        *)
Claimed(p) == IF owner = Missing \/ (owner = NoOwner /\ ~said) THEN Actor[p]
                                                               ELSE owner

(* TurnPlanner.plan accepts: it authorizes again, and a message creates or *)
(* claims the session when its user message is saved.                      *)
PlanTurn(t) ==
    /\ pc[t] = "planning"
    /\ \/ /\ Kind[t] = "message"
          /\ owner = Missing \/ CanAccess(Actor[t], owner)
          /\ owner' = Claimed(t) /\ said' = TRUE
       \/ /\ Kind[t] # "message" /\ owner # Missing
          /\ CanAccess(Actor[t], owner)
          /\ UNCHANGED ownVars
    /\ Goto(t, "running")
    /\ UNCHANGED <<stopVars, lockVars, slot, lease, mutating, pins, background,
                   waitsFor, ctlVars>>

(* The plan fails: denied, cancelled in setup, or a request that does not  *)
(* fit.  The user message may have been saved before the failure.          *)
FailPlan(t) ==
    /\ pc[t] = "planning"
    /\ LET denied == owner # Missing /\ ~CanAccess(Actor[t], owner) IN
       /\ \E o \in {"forbidden", "cancelled", "refused"} :
             /\ (o = "forbidden") = denied
             /\ o = "cancelled" => t \in cancelled
             /\ EndAs(t, o)
       /\ \/ UNCHANGED ownVars
          \/ /\ ~denied /\ Kind[t] = "message"
             /\ owner' = Claimed(t) /\ said' = TRUE
    /\ Goto(t, "closing")
    /\ UNCHANGED <<stopVars, lockVars, slot, lease, mutating, pins, background,
                   waitsFor, accepting, cancelled>>

(* A tool of the running turn publishes a session event: emit_session_event *)
(* takes the admission lock to check each subscriber, then delivers.       *)
Publish(t) ==
    /\ pc[t] = "running" /\ started
    /\ Goto(t, "publishing") /\ TakeLock(t)
    /\ UNCHANGED <<stopVars, slot, lease, mutating, pins, background, ownVars,
                   waitsFor, ctlVars>>

Deliver(t) ==
    /\ HasLock(t, "publishing")
    /\ Goto(t, "running") /\ FreeLock
    /\ UNCHANGED <<stopVars, slot, lease, mutating, pins, background, ownVars,
                   waitsFor, ctlVars>>

(* Mutant: the last check_cancelled before the final event is dropped.     *)
BugMayComplete(t) == TRUE
(* The run passes its last check_cancelled; an accepted host result needs  *)
(* none.                                                                   *)
MayComplete(t) == Kind[t] = "result" \/ t \notin cancelled

(* TurnRunner.run reaches its final event.  A run ends     *)
(* normally, cancelled, or in an error, a limit or a timeout.              *)
EndRun(t) ==
    /\ pc[t] = "running"
    /\ \E o \in {"completed", "cancelled", "failed"} :
          /\ o = "completed" => MayComplete(t)
          /\ o = "cancelled" => t \in cancelled
          /\ EndAs(t, o)
    /\ accepting' = accepting \ {t}
    /\ Goto(t, "closing")
    /\ UNCHANGED <<stopVars, lockVars, slot, lease, mutating, pins, background,
                   ownVars, waitsFor, cancelled>>

(* Mutant: memory work relies on the pin of the turn that spawned it.      *)
BugSpawnMemory(t) == pins' = pins - 1 /\ background' = Append(background, t)
(* pin and _spawn_background; the turn's own unpin follows.                *)
SpawnMemory(t) == pins' = pins /\ background' = Append(background, t)

(* After `completed`: memory work is spawned with a pin of its own, and    *)
(* without suspending again the turn leaves the slot and is done.          *)
FinishTurn(t) ==
    /\ pc[t] = "closing"
    /\ slot' = None
    /\ accepting' = accepting \ {t}
    /\ Goto(t, "done")
    /\ \/ pins' = pins - 1 /\ UNCHANGED background
       \/ /\ outcome[t] \in {"completed", "failed"} /\ t \notin cancelled
          /\ SpawnMemory(t)
    /\ UNCHANGED <<stopVars, lockVars, lease, mutating, ownVars, waitsFor,
                   cancelled, outcome>>

(* The oldest memory update of the session ends and gives its pin back.    *)
EndBackground ==
    /\ background # <<>>
    /\ background' = Tail(background)
    /\ pins' = pins - 1
    /\ UNCHANGED <<stopVars, lockVars, slot, lease, mutating, ownVars, pc,
                   waitsFor, ctlVars>>

-----------------------------------------------------------------------------
(* A voice call: reserve_session, its set-up, and the end of _run.         *)

RequestCall(c) ==
    /\ pc[c] = "idle"
    /\ IF Authorized(c) /\ Available(c)
       THEN EnterLock(c, "lock")
       ELSE Goto(c, "left") /\ UNCHANGED lockVars
    /\ UNCHANGED <<stopVars, slot, lease, mutating, pins, background, ownVars,
                   waitsFor, ctlVars>>

TakeLease(c) ==
    /\ HasLock(c, "lock") /\ Available(c) /\ SlotFree
    /\ lease' = c
    /\ pins' = pins + 1
    /\ Goto(c, "confirm")
    /\ FreeLock
    /\ UNCHANGED <<stopVars, slot, mutating, background, ownVars, waitsFor,
                   ctlVars>>

RefuseLease(c) ==
    /\ HasLock(c, "lock") /\ ~(Available(c) /\ SlotFree)
    /\ Leave(c)
    /\ UNCHANGED <<stopVars, slot, lease, mutating, pins, background, ownVars,
                   waitsFor, ctlVars>>

(* Mutant: the permission checked before the wait is trusted.              *)
BugStillAuthorized(c) == TRUE
StillAuthorized(c) == Authorized(c)

(* Authorized again under the lease, then ensure_owned_session.            *)
ConfirmCall(c) ==
    /\ pc[c] = "confirm" /\ StillAuthorized(c)
    /\ owner' = IF owner \in {Missing, NoOwner} THEN Actor[c] ELSE owner
    /\ Goto(c, "connecting")
    /\ UNCHANGED <<stopVars, lockVars, slot, lease, mutating, pins, background,
                   said, waitsFor, ctlVars>>

ReleaseSession == lease' = None /\ pins' = pins - 1

(* Denied, a pending host action, or a transport that does not connect.    *)
FailCall(c) ==
    /\ pc[c] \in {"confirm", "connecting"}
    /\ ReleaseSession
    /\ Goto(c, "left")
    /\ UNCHANGED <<stopVars, lockVars, slot, mutating, background, ownVars,
                   waitsFor, ctlVars>>

Connect(c) ==
    /\ pc[c] = "connecting"
    /\ Goto(c, "live")
    /\ UNCHANGED <<stopVars, lockVars, slot, lease, mutating, pins, background,
                   ownVars, waitsFor, ctlVars>>

HangUp(c) ==
    /\ pc[c] = "live"
    /\ Goto(c, "hangup")
    /\ UNCHANGED <<stopVars, lockVars, slot, lease, mutating, pins, background,
                   ownVars, waitsFor, ctlVars>>

(* The worker has been gathered; cancel_reserved_work asks for the lock    *)
(* (a refusal there is suppressed).                                        *)
CleanUpCall(c) ==
    /\ pc[c] = "hangup"
    /\ \A t \in Turns : LeaseOf[t] = c => pc[t] \in {"idle", "done", "left"}
    /\ IF started THEN Goto(c, "cancelwork") /\ TakeLock(c)
                  ELSE Goto(c, "settle") /\ UNCHANGED lockVars
    /\ UNCHANGED <<stopVars, slot, lease, mutating, pins, background, ownVars,
                   waitsFor, ctlVars>>

CancelReserved(c) ==
    /\ HasLock(c, "cancelwork")
    /\ IF Authorized(c) /\ started /\ Available(c)
       THEN CancelSlot /\ waitsFor' = [waitsFor EXCEPT ![c] = slot]
       ELSE UNCHANGED <<cancelled, waitsFor>>
    /\ Goto(c, "settle")
    /\ FreeLock
    /\ UNCHANGED <<stopVars, slot, lease, mutating, pins, background, ownVars,
                   accepting, outcome>>

ReleaseCall(c) ==
    /\ pc[c] = "settle"
    /\ waitsFor[c] # None => pc[waitsFor[c]] = "done"
    /\ ReleaseSession
    /\ Goto(c, "left")
    /\ UNCHANGED <<stopVars, lockVars, slot, mutating, background, ownVars,
                   waitsFor, ctlVars>>

-----------------------------------------------------------------------------
(* append_host_message: the write holds the lock and the turn slot.        *)

Request(p) ==
    /\ pc[p] = "idle"
    /\ EnterLock(p, "lock")
    /\ UNCHANGED <<stopVars, slot, lease, mutating, pins, background, ownVars,
                   waitsFor, ctlVars>>

BeginHostWrite(h) ==
    /\ HasLock(h, "lock") /\ Available(h) /\ SlotFree
    /\ owner # Missing => Authorized(h)
    /\ slot' = h
    /\ Goto(h, "writing")
    /\ UNCHANGED <<stopVars, lockVars, lease, mutating, pins, background,
                   ownVars, waitsFor, ctlVars>>

(* Unavailable, busy, denied, or a pending host action or binding that     *)
(* this module does not track: the write may always be refused.            *)
RefuseHostWrite(h) ==
    /\ HasLock(h, "lock")
    /\ Leave(h)
    /\ UNCHANGED <<stopVars, slot, lease, mutating, pins, background, ownVars,
                   waitsFor, ctlVars>>

EndHostWrite(h) ==
    /\ pc[h] = "writing"
    /\ slot' = None
    /\ \/ owner' = Claimed(h) /\ said' = TRUE
       \/ UNCHANGED ownVars            \* the row could not be written
    /\ Goto(h, "done")
    /\ FreeLock
    /\ UNCHANGED <<stopVars, lease, mutating, pins, background, waitsFor,
                   ctlVars>>

(* accept_steering: from the check to the queue write under the lock.      *)
BeginSteer(s) ==
    /\ HasLock(s, "lock") /\ Available(s) /\ owner # Missing /\ Authorized(s)
    /\ Goto(s, "writing")
    /\ UNCHANGED <<stopVars, lockVars, slot, lease, mutating, pins, background,
                   ownVars, waitsFor, ctlVars>>

(* As above, or a session without an active conversation.                  *)
RefuseSteer(s) ==
    /\ HasLock(s, "lock")
    /\ Leave(s)
    /\ UNCHANGED <<stopVars, slot, lease, mutating, pins, background, ownVars,
                   waitsFor, ctlVars>>

EndSteer(s) ==
    /\ pc[s] = "writing"
    /\ Leave(s)
    /\ UNCHANGED <<stopVars, slot, lease, mutating, pins, background, ownVars,
                   waitsFor, ctlVars>>

-----------------------------------------------------------------------------
(* set_session_owner: a mutation under the lock.                           *)

BeginAssign(a) ==
    /\ HasLock(a, "lock") /\ Available(a)
    /\ mutating' = a
    /\ Goto(a, "writing")
    /\ UNCHANGED <<stopVars, lockVars, slot, lease, pins, background, ownVars,
                   waitsFor, ctlVars>>

RefuseAssign(a) ==
    /\ HasLock(a, "lock") /\ ~Available(a)
    /\ Leave(a)
    /\ UNCHANGED <<stopVars, slot, lease, mutating, pins, background, ownVars,
                   waitsFor, ctlVars>>

EndAssign(a) ==
    /\ pc[a] = "writing"
    /\ \/ owner = Missing /\ UNCHANGED owner          \* LookupError
       \/ owner # Missing /\ owner' \in Principals \cup {NoOwner}
    /\ mutating' = None
    /\ Goto(a, "left")
    /\ FreeLock
    /\ UNCHANGED <<stopVars, slot, lease, pins, background, said, waitsFor,
                   ctlVars>>

(* The delete and repair routes: a mutation that takes no lock.            *)
BeginMutation(m) ==
    /\ pc[m] = "idle" /\ Available(m)
    /\ owner # Missing /\ CanAccess(Actor[m], owner)
    /\ mutating' = m
    /\ Goto(m, "writing")
    /\ UNCHANGED <<stopVars, lockVars, slot, lease, pins, background, ownVars,
                   waitsFor, ctlVars>>

RefuseMutation(m) ==
    /\ pc[m] = "idle"
    /\ ~(Available(m) /\ owner # Missing /\ CanAccess(Actor[m], owner))
    /\ Goto(m, "left")
    /\ UNCHANGED <<stopVars, lockVars, slot, lease, mutating, pins, background,
                   ownVars, waitsFor, ctlVars>>

EndMutation(m) ==
    /\ pc[m] = "writing"
    /\ IF Kind[m] = "delete" THEN owner' = Missing /\ said' = FALSE
                             ELSE UNCHANGED ownVars
    /\ mutating' = None
    /\ Goto(m, "left")
    /\ UNCHANGED <<stopVars, lockVars, slot, lease, pins, background, waitsFor,
                   ctlVars>>

-----------------------------------------------------------------------------
(* cancel_session.                                                         *)
CancelSession(x) ==
    /\ HasLock(x, "lock")
    /\ IF Authorized(x) /\ started /\ Available(x) THEN CancelSlot
                                                   ELSE UNCHANGED cancelled
    /\ Leave(x)
    /\ UNCHANGED <<stopVars, slot, lease, mutating, pins, background, ownVars,
                   waitsFor, accepting, outcome>>

(* on_assistant_join_session: join under the lock, then warm_session.      *)
EnterRoom(j) ==
    /\ HasLock(j, "lock")
    /\ Goto(j, IF Authorized(j) /\ started THEN "warming" ELSE "left")
    /\ FreeLock
    /\ UNCHANGED <<stopVars, slot, lease, mutating, pins, background, ownVars,
                   waitsFor, ctlVars>>

(* get_context_async leaves an empty unowned context for a new session.    *)
WarmSession(j) ==
    /\ pc[j] = "warming"
    /\ IF started /\ Authorized(j) /\ owner = Missing
       THEN owner' = NoOwner /\ UNCHANGED said
       ELSE UNCHANGED ownVars
    /\ Goto(j, "left")
    /\ UNCHANGED <<stopVars, lockVars, slot, lease, mutating, pins, background,
                   waitsFor, ctlVars>>

-----------------------------------------------------------------------------
(* stop: refuse, cancel and drain turns, drain memory work, drain locks.   *)

BeginStop ==
    /\ stopPhase = "up"
    /\ started' = FALSE
    /\ CancelSlot
    /\ stopWaits' = slot
    /\ stopPhase' = "turns"
    /\ UNCHANGED <<lockVars, slot, lease, mutating, pins, background, ownVars,
                   pc, waitsFor, accepting, outcome>>

(* Mutant: the turns are cancelled and not awaited.                        *)
BugTurnsDrained == TRUE
TurnsDrained == stopWaits # None => pc[stopWaits] = "done"

AdvanceStop ==
    /\ \/ /\ stopPhase = "turns" /\ stopPhase' = "background"
          /\ TurnsDrained
       \/ /\ stopPhase = "background" /\ stopPhase' = "locks"
          /\ background = <<>>
       \/ /\ stopPhase = "locks" /\ stopPhase' = "down"
          /\ holder = None
    /\ UNCHANGED <<started, stopWaits, lockVars, slot, lease, mutating, pins,
                   background, ownVars, pc, waitsFor, ctlVars>>

-----------------------------------------------------------------------------
TurnNext(t) ==
    \/ Submit(t) \/ RefuseTurn(t) \/ RegisterTurn(t) \/ DrainPrevious(t)
    \/ Drained(t) \/ LeaveQueue(t) \/ CloseStream(t)
    \/ PlanTurn(t) \/ FailPlan(t) \/ Publish(t) \/ Deliver(t)
    \/ EndRun(t) \/ FinishTurn(t)

CallNext(c) ==
    \/ RequestCall(c) \/ TakeLease(c) \/ RefuseLease(c) \/ ConfirmCall(c)
    \/ FailCall(c) \/ Connect(c) \/ HangUp(c) \/ CleanUpCall(c)
    \/ CancelReserved(c) \/ ReleaseCall(c)

HostNext(h)   == \/ Request(h) \/ BeginHostWrite(h) \/ RefuseHostWrite(h)
                 \/ EndHostWrite(h)
SteerNext(s)  == Request(s) \/ BeginSteer(s) \/ RefuseSteer(s) \/ EndSteer(s)
AssignNext(a) == \/ Request(a) \/ BeginAssign(a) \/ RefuseAssign(a)
                 \/ EndAssign(a)
MutationNext(m) == BeginMutation(m) \/ RefuseMutation(m) \/ EndMutation(m)
CancelNext(x) == Request(x) \/ CancelSession(x)
JoinNext(j)   == Request(j) \/ EnterRoom(j) \/ WarmSession(j)

Next ==
    \/ \E t \in Turns : TurnNext(t)
    \/ \E c \in Calls : CallNext(c)
    \/ \E h \in HostWrites : HostNext(h)
    \/ \E s \in Steers : SteerNext(s)
    \/ \E a \in Assigns : AssignNext(a)
    \/ \E m \in Mutations : MutationNext(m)
    \/ \E x \in Cancels : CancelNext(x)
    \/ \E j \in Joins : JoinNext(j)
    \/ EndBackground \/ BeginStop \/ AdvanceStop

Spec == Init /\ [][Next]_vars

(* Fairness.  The event loop runs every ready task, asyncio.Lock is first  *)
(* come first served, and a run ends by its request limit or its time-out  *)
(* however many events its tools publish (strong fairness of EndRun, which *)
(* a publishing tool disables for a while).  No client is assumed to act:  *)
(* arrivals, hang-ups, closed streams, events and stop are never forced.   *)
TurnProgress(t) ==
    \/ RefuseTurn(t) \/ RegisterTurn(t) \/ DrainPrevious(t) \/ Drained(t)
    \/ PlanTurn(t) \/ FailPlan(t) \/ Deliver(t) \/ FinishTurn(t)
CallProgress(c) ==
    \/ TakeLease(c) \/ RefuseLease(c) \/ ConfirmCall(c) \/ FailCall(c)
    \/ Connect(c) \/ CleanUpCall(c) \/ CancelReserved(c) \/ ReleaseCall(c)
OtherProgress(p) ==
    \/ p \in HostWrites /\ (BeginHostWrite(p) \/ RefuseHostWrite(p) \/ EndHostWrite(p))
    \/ p \in Steers /\ (BeginSteer(p) \/ RefuseSteer(p) \/ EndSteer(p))
    \/ p \in Assigns /\ (BeginAssign(p) \/ RefuseAssign(p) \/ EndAssign(p))
    \/ p \in Mutations /\ EndMutation(p)
    \/ p \in Cancels /\ CancelSession(p)
    \/ p \in Joins /\ (EnterRoom(p) \/ WarmSession(p))

Fairness ==
    /\ \A t \in Turns : WF_vars(TurnProgress(t)) /\ SF_vars(EndRun(t))
    /\ \A c \in Calls : WF_vars(CallProgress(c))
    /\ \A p \in Procs \ (Turns \cup Calls) : WF_vars(OtherProgress(p))
    /\ WF_vars(EndBackground) /\ WF_vars(AdvanceStop)

FairSpec == Spec /\ Fairness

-----------------------------------------------------------------------------
(* Properties.                                                             *)

(* The values each variable takes (StreamingService.__init__, TurnControl).*)
TypeOK ==
    /\ started \in BOOLEAN
    /\ stopPhase \in {"up", "turns", "background", "locks", "down"}
    /\ stopWaits \in Turns \cup HostWrites \cup {None}
    /\ holder \in Procs \cup {None} /\ waiters \in Seq(Procs)
    /\ slot \in Turns \cup HostWrites \cup {None}
    /\ lease \in Calls \cup {None}
    /\ mutating \in Assigns \cup Mutations \cup {None}
    /\ pins \in Nat /\ background \in Seq(Turns)
    /\ owner \in Principals \cup {NoOwner, Missing} /\ said \in BOOLEAN
    /\ pc \in [Procs -> Places]
    /\ waitsFor \in [Procs -> Turns \cup HostWrites \cup {None}]
    /\ accepting \subseteq Turns /\ cancelled \subseteq Turns
    /\ outcome \in [Procs -> Outcomes]

(* At most one turn is between its registration and its release, and no    *)
(* turn runs while a host message is being written: whatever waits for the *)
(* slot waits until the holder has saved its work ("A new ordinary turn    *)
(* replaces the previous turn only after it has drained").                 *)
OneTurnAtATime ==
    /\ \A t \in Turns : pc[t] \in ActivePlaces <=> slot = t
    /\ \A h \in HostWrites : pc[h] = "writing" <=> slot = h

(* While a voice call holds the reservation nobody else acts on the        *)
(* session: only the call's own turn occupies the slot, no host message or *)
(* steering is being written, and no owner change, delete or repair is     *)
(* under way, whenever each of them was started (_admission_locks comment).*)
VoiceExclusive ==
    lease # None =>
        /\ slot # None => slot \in Turns /\ LeaseOf[slot] = lease
        /\ mutating = None
        /\ \A p \in HostWrites \cup Steers \cup Assigns : pc[p] # "writing"

(* Every pin has one holder that will give it back: the running turn, the  *)
(* voice reservation, or a memory update still to run.  One too few and    *)
(* the session can be evicted under its turn, one too many and it never is.*)
One(b) == IF b THEN 1 ELSE 0
PinsBalanced ==
    pins = One(slot \in Turns) + One(lease # None) + Len(background)

(* A cancellation that was acknowledged is honoured: a turn other than a   *)
(* host-result receipt never answers normally after TurnControl.cancel     *)
(* returned True for it, however late the cancel arrived.                  *)
CancelHonoured ==
    \A t \in cancelled : outcome[t] = "completed" => Kind[t] = "result"

(* From the moment a reservation is confirmed until it is released its     *)
(* caller may act on the session, although the owner can change while the  *)
(* reservation waits for the lock.                                         *)
CallerMayAct ==
    \A c \in Calls : pc[c] \in LeasePlaces \ {"confirm"} =>
                         CanAccess(Actor[c], owner)

(* When stop has returned, nothing of the service still works on the       *)
(* session: no turn, no host or steering write, no memory update, nobody   *)
(* in or behind the lock.                                                  *)
StopQuiescent ==
    stopPhase = "down" =>
        /\ slot = None /\ background = <<>> /\ holder = None /\ waiters = <<>>
        /\ \A p \in HostWrites \cup Steers \cup Assigns : pc[p] # "writing"

(* Every call made on the session is answered: a turn, write or request    *)
(* ends, a reservation is refused or becomes a live call, and a call that  *)
(* hangs up is released - although turns wait for turns, tools of a turn   *)
(* wait for the lock, and any of them may be cancelled.  So is stop().     *)
CallsReturn ==
    /\ \A p \in Procs :
           pc[p] \notin {"idle", "live"} ~> pc[p] \in {"done", "left", "live"}
    /\ stopPhase = "turns" ~> stopPhase = "down"

(* "A context created ahead of the first message belongs to whoever sends  *)
(* it": a turn is denied only where the session has an owner or messages.  *)
FirstMessageOwns ==
    [][\A t \in Turns :
          outcome[t] # "forbidden" /\ outcome'[t] = "forbidden" =>
              owner \in Principals \/ said \/ slot # None]_vars
=============================================================================
