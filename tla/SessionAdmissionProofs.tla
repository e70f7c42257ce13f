----------------------- MODULE SessionAdmissionProofs -----------------------
(* The safety of SessionAdmission for any set of calls and principals.     *)
EXTENDS SessionAdmission, SequenceTheorems, TLAPS

(* Whoever writes under the admission lock is its holder.                  *)
WritersHoldLock ==
    \A p \in HostWrites \cup Steers \cup Assigns :
        pc[p] = "writing" => holder = p

LockServed == holder = None => waiters = <<>>

(* The lease names the one call that has to release it.                    *)
LeaseHeld == \A c \in Calls : pc[c] \in LeasePlaces <=> lease = c

(* The mutation mark names the one operation that has to remove it.        *)
MarkHeld == \A m \in Assigns \cup Mutations : pc[m] = "writing" <=> mutating = m

(* A turn accepts cancellation only before its outcome can be normal.      *)
AcceptingOpen ==
    /\ \A t \in accepting : pc[t] \in ActivePlaces /\ outcome[t] # "completed"
    /\ \A t \in Turns :
          pc[t] \in {"idle", "lock", "drain", "planning", "running", "publishing"}
              => outcome[t] = "none"

(* What each phase of stop has established stays established.              *)
StopKept ==
    /\ started <=> stopPhase = "up"
    /\ ~started /\ slot \in Turns => slot = stopWaits
    /\ stopPhase \in {"background", "locks", "down"} => slot \notin Turns
    /\ stopPhase \in {"locks", "down"} => background = <<>>
    /\ stopPhase = "down" => holder = None

IInv == /\ TypeOK
        /\ OneTurnAtATime /\ WritersHoldLock /\ LockServed
        /\ LeaseHeld /\ MarkHeld /\ VoiceExclusive
        /\ PinsBalanced /\ AcceptingOpen /\ CancelHonoured
        /\ CallerMayAct /\ StopKept

Writers == HostWrites \cup Steers \cup Assigns \cup Mutations

(* The kinds divide the processes.                                         *)
LEMMA Types ==
    /\ Turns \cup Calls \cup Writers \cup Cancels \cup Joins \subseteq Procs
    /\ None \notin Procs
    /\ Turns \cap Calls = {} /\ (Turns \cup Calls) \cap Writers = {}
    /\ (Cancels \cup Joins) \cap (Turns \cup Calls \cup Writers) = {}
    /\ HostWrites \cap (Steers \cup Assigns \cup Mutations) = {}
    /\ Steers \cap (Assigns \cup Mutations) = {} /\ Assigns \cap Mutations = {}
  BY ProcsAssumption DEF Turns, Calls, HostWrites, Steers, Assigns, Mutations,
                         Cancels, Joins, Writers, OfKind, TurnKinds

-----------------------------------------------------------------------------
(* The lock.  Every step of a process enters it, leaves it or lets it be.  *)

LockStep(p) ==
    /\ holder' \in Procs \cup {None} /\ waiters' \in Seq(Procs)
    /\ holder' = None => waiters' = <<>>
    /\ holder' # holder => holder \in {None, p}
    /\ holder = None /\ ~started => holder' = None

(* A step that leaves the lock alone is a lock step.                       *)
LEMMA LockKept ==
  ASSUME TypeOK, LockServed, NEW p \in Procs, UNCHANGED lockVars
  PROVE  LockStep(p)
  BY DEF TypeOK, LockServed, LockStep, lockVars

(* Asking for the lock takes it, or queues behind its holder.              *)
LEMMA LockTaken ==
  ASSUME TypeOK, LockServed, NEW p \in Procs, started, TakeLock(p)
  PROVE  LockStep(p)
  BY Types DEF TypeOK, LockServed, LockStep, TakeLock

(* Releasing the lock hands it to the first waiter.                        *)
LEMMA LockFreed ==
  ASSUME TypeOK, LockServed, NEW p \in Procs, holder = p, FreeLock
  PROVE  LockStep(p)
<1>1. CASE waiters = <<>>
  BY <1>1, Types DEF TypeOK, LockStep, FreeLock
<1>2. CASE waiters # <<>>
  <2>1. Head(waiters) \in Procs /\ Tail(waiters) \in Seq(Procs)
    BY <1>2, HeadTailProperties DEF TypeOK
  <2> QED BY <1>2, <2>1, Types DEF LockStep, FreeLock
<1> QED BY <1>1, <1>2

(* A waiter that gives up leaves the others in their order.                *)
LEMMA LockLeft ==
  ASSUME TypeOK, LockServed, NEW p \in Procs, NEW i \in DOMAIN waiters,
         waiters' = RemoveAt(waiters, i), UNCHANGED holder
  PROVE  LockStep(p)
<1>1. waiters # <<>> /\ holder # None
  BY DEF LockServed, TypeOK
<1>2. waiters' \in Seq(Procs)
  BY DEF TypeOK, RemoveAt
<1> QED BY <1>1, <1>2 DEF TypeOK, LockStep

-----------------------------------------------------------------------------
(* Most steps only move one process between places that own nothing.       *)

Early == {"idle", "lock", "drain", "planning", "running", "publishing"}

QuietMove(p, place) ==
    /\ place \in Places /\ pc' = [pc EXCEPT ![p] = place]
    /\ pc[p] = "writing" => p \in Steers
    /\ place = "writing" => p \in Steers /\ holder' = p /\ lease = None
    /\ p \in Turns => /\ pc[p] \in ActivePlaces <=> place \in ActivePlaces
                      /\ place \in Early => pc[p] \in Early /\ outcome' = outcome
    /\ p \in Calls => /\ pc[p] \in LeasePlaces <=> place \in LeasePlaces
                      /\ pc[p] = "confirm" => place = "confirm"

QuietEffect(p) ==
    /\ UNCHANGED <<stopVars, slot, lease, mutating, pins, background, ownVars,
                   accepting>>
    /\ waitsFor' \in [Procs -> Turns \cup HostWrites \cup {None}]
    /\ cancelled' \subseteq cancelled \cup accepting
    /\ \/ outcome' = outcome
       \/ \E o \in Outcomes \ {"completed"} : outcome' = [outcome EXCEPT ![p] = o]

(* A step that only moves a process in and out of the lock keeps the       *)
(* invariant.                                                              *)
LEMMA QuietStep ==
  ASSUME IInv, NEW p \in Procs, LockStep(p), QuietEffect(p),
         \E place \in Places : QuietMove(p, place)
  PROVE  IInv'
<1> PICK place \in Places : QuietMove(p, place)
  OBVIOUS
<1> USE Types DEF IInv, stopVars, ownVars, QuietMove, QuietEffect, Writers
<1>1. TypeOK'
  <2>1. outcome' \in [Procs -> Outcomes]
    BY DEF TypeOK
  <2>2. pc' \in [Procs -> Places]
    BY DEF TypeOK
  <2>3. cancelled' \subseteq Turns /\ accepting' \subseteq Turns
    BY DEF TypeOK
  <2> QED BY <2>1, <2>2, <2>3 DEF TypeOK, LockStep
<1>2. OneTurnAtATime'
  BY DEF TypeOK, OneTurnAtATime, ActivePlaces
<1>3. WritersHoldLock' /\ LockServed'
  BY DEF TypeOK, WritersHoldLock, LockServed, LockStep
<1>4. LeaseHeld' /\ MarkHeld'
  BY DEF TypeOK, LeaseHeld, MarkHeld
<1>5. VoiceExclusive' /\ PinsBalanced'
  BY DEF TypeOK, VoiceExclusive, PinsBalanced, One
<1>6. AcceptingOpen' /\ CancelHonoured'
  BY DEF TypeOK, AcceptingOpen, CancelHonoured, ActivePlaces, Early
<1>7. CallerMayAct'
  BY DEF TypeOK, CallerMayAct, CanAccess
<1>8. StopKept'
  BY DEF TypeOK, StopKept, LockStep
<1> QED BY <1>1, <1>2, <1>3, <1>4, <1>5, <1>6, <1>7, <1>8
-----------------------------------------------------------------------------
(* The quiet steps of each kind of process.                                *)

(* A turn before it is registered, and while its tools publish.            *)
LEMMA QuietTurns ==
  ASSUME IInv, NEW t \in Turns,
         Submit(t) \/ RefuseTurn(t) \/ DrainPrevious(t) \/ Drained(t) \/
         LeaveQueue(t) \/ CloseStream(t) \/ Publish(t) \/ Deliver(t)
  PROVE  IInv'
<1> USE Types DEF IInv, Writers, ctlVars
<1>1. CASE Submit(t)
  <2>1. LockStep(t)
    BY <1>1, LockTaken, LockKept DEF Submit, EnterLock
  <2>2. QuietMove(t, IF started THEN "lock" ELSE "left")
    BY <1>1
    DEF Submit, TypeOK, QuietMove, Goto, Places, ActivePlaces, Early, EnterLock
  <2>3. QuietEffect(t)
    BY <1>1 DEF Submit, TypeOK, QuietEffect, Outcomes, EndAs, EnterLock
  <2> QED BY <2>1, <2>2, <2>3, QuietStep DEF QuietMove
<1>2. CASE RefuseTurn(t)
  <2>1. LockStep(t)
    BY <1>2, LockFreed DEF RefuseTurn, Leave, HasLock
  <2>2. QuietMove(t, "left")
    BY <1>2
    DEF RefuseTurn, TypeOK, QuietMove, Goto, Places, ActivePlaces, Early,
        Leave, HasLock
  <2>3. QuietEffect(t)
    BY <1>2
    DEF RefuseTurn, TypeOK, QuietEffect, Outcomes, EndAs, Leave, HasLock
  <2> QED BY <2>1, <2>2, <2>3, QuietStep DEF QuietMove
<1>3. CASE DrainPrevious(t)
  <2>1. LockStep(t)
    BY <1>3, LockFreed
    DEF DrainPrevious, StepOutToDrain, CancelSlot, SlotFree, HasLock
  <2>2. QuietMove(t, "drain")
    BY <1>3
    DEF DrainPrevious, TypeOK, QuietMove, Goto, Places, ActivePlaces, Early,
        StepOutToDrain, CancelSlot, SlotFree, HasLock
  <2>3. QuietEffect(t)
    BY <1>3
    DEF DrainPrevious, TypeOK, QuietEffect, Outcomes, EndAs, StepOutToDrain,
        CancelSlot, SlotFree, HasLock
  <2> QED BY <2>1, <2>2, <2>3, QuietStep DEF QuietMove
<1>4. CASE Drained(t)
  <2>1. LockStep(t)
    BY <1>4, LockTaken, LockKept DEF Drained, EnterLock
  <2>2. QuietMove(t, IF started THEN "lock" ELSE "left")
    BY <1>4
    DEF Drained, TypeOK, QuietMove, Goto, Places, ActivePlaces, Early,
        EnterLock
  <2>3. QuietEffect(t)
    BY <1>4 DEF Drained, TypeOK, QuietEffect, Outcomes, EndAs, EnterLock
  <2> QED BY <2>1, <2>2, <2>3, QuietStep DEF QuietMove
<1>5. CASE LeaveQueue(t)
  <2>1. LockStep(t)
    BY <1>5, LockFreed, LockLeft, LockKept DEF LeaveQueue
  <2>2. QuietMove(t, "left")
    BY <1>5
    DEF LeaveQueue, TypeOK, QuietMove, Goto, Places, ActivePlaces, Early
  <2>3. QuietEffect(t)
    BY <1>5 DEF LeaveQueue, TypeOK, QuietEffect, Outcomes, EndAs
  <2> QED BY <2>1, <2>2, <2>3, QuietStep DEF QuietMove
<1>6. CASE CloseStream(t)
  <2>1. LockStep(t)
    BY <1>6, LockKept DEF CloseStream, AcceptingOpen
  <2>2. QuietMove(t, pc[t])
    BY <1>6
    DEF CloseStream, TypeOK, QuietMove, Goto, Places, ActivePlaces, Early,
        AcceptingOpen
  <2>3. QuietEffect(t)
    BY <1>6
    DEF CloseStream, TypeOK, QuietEffect, Outcomes, EndAs, AcceptingOpen
  <2> QED BY <2>1, <2>2, <2>3, QuietStep DEF QuietMove
<1>7. CASE Publish(t)
  <2>1. LockStep(t)
    BY <1>7, LockTaken DEF Publish
  <2>2. QuietMove(t, "publishing")
    BY <1>7 DEF Publish, TypeOK, QuietMove, Goto, Places, ActivePlaces, Early
  <2>3. QuietEffect(t)
    BY <1>7 DEF Publish, TypeOK, QuietEffect, Outcomes, EndAs
  <2> QED BY <2>1, <2>2, <2>3, QuietStep DEF QuietMove
<1>8. CASE Deliver(t)
  <2>1. LockStep(t)
    BY <1>8, LockFreed DEF Deliver, HasLock
  <2>2. QuietMove(t, "running")
    BY <1>8
    DEF Deliver, TypeOK, QuietMove, Goto, Places, ActivePlaces, Early, HasLock
  <2>3. QuietEffect(t)
    BY <1>8 DEF Deliver, TypeOK, QuietEffect, Outcomes, EndAs, HasLock
  <2> QED BY <2>1, <2>2, <2>3, QuietStep DEF QuietMove
<1> QED BY <1>1, <1>2, <1>3, <1>4, <1>5, <1>6, <1>7, <1>8

(* A voice call that neither takes nor gives back the lease.               *)
LEMMA QuietCalls ==
  ASSUME IInv, NEW c \in Calls,
         RequestCall(c) \/ RefuseLease(c) \/ HangUp(c) \/ Connect(c) \/
         CleanUpCall(c) \/ CancelReserved(c)
  PROVE  IInv'
<1> USE Types DEF IInv, Writers, ctlVars
<1>1. CASE RequestCall(c)
  <2>1. LockStep(c)
    BY <1>1, LockTaken, LockKept DEF RequestCall, EnterLock
  <2>2. QuietMove(c, IF Authorized(c) /\ Available(c) /\ started THEN "lock" ELSE "left")
    BY <1>1
    DEF RequestCall, TypeOK, QuietMove, Goto, Places, LeasePlaces, EnterLock
  <2>3. QuietEffect(c)
    BY <1>1 DEF RequestCall, TypeOK, QuietEffect, Outcomes, EndAs, EnterLock
  <2> QED BY <2>1, <2>2, <2>3, QuietStep DEF QuietMove
<1>2. CASE RefuseLease(c)
  <2>1. LockStep(c)
    BY <1>2, LockFreed DEF RefuseLease, Leave, HasLock
  <2>2. QuietMove(c, "left")
    BY <1>2
    DEF RefuseLease, TypeOK, QuietMove, Goto, Places, LeasePlaces, Leave,
        HasLock
  <2>3. QuietEffect(c)
    BY <1>2
    DEF RefuseLease, TypeOK, QuietEffect, Outcomes, EndAs, Leave, HasLock
  <2> QED BY <2>1, <2>2, <2>3, QuietStep DEF QuietMove
<1>3. CASE HangUp(c)
  <2>1. LockStep(c)
    BY <1>3, LockKept DEF HangUp
  <2>2. QuietMove(c, "hangup")
    BY <1>3 DEF HangUp, TypeOK, QuietMove, Goto, Places, LeasePlaces
  <2>3. QuietEffect(c)
    BY <1>3 DEF HangUp, TypeOK, QuietEffect, Outcomes, EndAs
  <2> QED BY <2>1, <2>2, <2>3, QuietStep DEF QuietMove
<1>4. CASE Connect(c)
  <2>1. LockStep(c)
    BY <1>4, LockKept DEF Connect
  <2>2. QuietMove(c, "live")
    BY <1>4 DEF Connect, TypeOK, QuietMove, Goto, Places, LeasePlaces
  <2>3. QuietEffect(c)
    BY <1>4 DEF Connect, TypeOK, QuietEffect, Outcomes, EndAs
  <2> QED BY <2>1, <2>2, <2>3, QuietStep DEF QuietMove
<1>5. CASE CleanUpCall(c)
  <2>1. LockStep(c)
    BY <1>5, LockTaken, LockKept DEF CleanUpCall
  <2>2. QuietMove(c, IF started THEN "cancelwork" ELSE "settle")
    BY <1>5 DEF CleanUpCall, TypeOK, QuietMove, Goto, Places, LeasePlaces
  <2>3. QuietEffect(c)
    BY <1>5 DEF CleanUpCall, TypeOK, QuietEffect, Outcomes, EndAs
  <2> QED BY <2>1, <2>2, <2>3, QuietStep DEF QuietMove
<1>6. CASE CancelReserved(c)
  <2>1. LockStep(c)
    BY <1>6, LockFreed DEF CancelReserved, CancelSlot, HasLock
  <2>2. QuietMove(c, "settle")
    BY <1>6
    DEF CancelReserved, TypeOK, QuietMove, Goto, Places, LeasePlaces,
        CancelSlot, HasLock
  <2>3. QuietEffect(c)
    BY <1>6
    DEF CancelReserved, TypeOK, QuietEffect, Outcomes, EndAs, CancelSlot,
        HasLock
  <2> QED BY <2>1, <2>2, <2>3, QuietStep DEF QuietMove
<1> QED BY <1>1, <1>2, <1>3, <1>4, <1>5, <1>6

(* Every other operation asks for the lock.                                *)
LEMMA QuietRequests ==
  ASSUME IInv, NEW p \in Procs \ (Turns \cup Calls),
         Request(p)
  PROVE  IInv'
<1> USE Types DEF IInv, Writers, ctlVars
<1>1. CASE Request(p)
  <2>1. LockStep(p)
    BY <1>1, LockTaken, LockKept DEF Request, EnterLock
  <2>2. QuietMove(p, IF started THEN "lock" ELSE "left")
    BY <1>1 DEF Request, TypeOK, QuietMove, Goto, Places, EnterLock
  <2>3. QuietEffect(p)
    BY <1>1 DEF Request, TypeOK, QuietEffect, Outcomes, EndAs, EnterLock
  <2> QED BY <2>1, <2>2, <2>3, QuietStep DEF QuietMove
<1> QED BY <1>1

(* Steering only writes its queue, under the lock.                         *)
LEMMA QuietSteers ==
  ASSUME IInv, NEW s \in Steers,
         BeginSteer(s) \/ RefuseSteer(s) \/ EndSteer(s)
  PROVE  IInv'
<1> USE Types DEF IInv, Writers, ctlVars
<1>1. CASE BeginSteer(s)
  <2>1. LockStep(s)
    BY <1>1, LockKept DEF BeginSteer, HasLock, Available, lockVars
  <2>2. QuietMove(s, "writing")
    BY <1>1, LeaseAssumption
    DEF BeginSteer, TypeOK, QuietMove, Goto, Places, HasLock, Available,
        lockVars
  <2>3. QuietEffect(s)
    BY <1>1
    DEF BeginSteer, TypeOK, QuietEffect, Outcomes, EndAs, HasLock, Available,
        lockVars
  <2> QED BY <2>1, <2>2, <2>3, QuietStep DEF QuietMove
<1>2. CASE RefuseSteer(s)
  <2>1. LockStep(s)
    BY <1>2, LockFreed DEF RefuseSteer, Leave, HasLock
  <2>2. QuietMove(s, "left")
    BY <1>2, LeaseAssumption
    DEF RefuseSteer, TypeOK, QuietMove, Goto, Places, Leave, HasLock
  <2>3. QuietEffect(s)
    BY <1>2
    DEF RefuseSteer, TypeOK, QuietEffect, Outcomes, EndAs, Leave, HasLock
  <2> QED BY <2>1, <2>2, <2>3, QuietStep DEF QuietMove
<1>3. CASE EndSteer(s)
  <2>1. LockStep(s)
    BY <1>3, LockFreed DEF EndSteer, Leave, WritersHoldLock
  <2>2. QuietMove(s, "left")
    BY <1>3, LeaseAssumption
    DEF EndSteer, TypeOK, QuietMove, Goto, Places, Leave, WritersHoldLock
  <2>3. QuietEffect(s)
    BY <1>3
    DEF EndSteer, TypeOK, QuietEffect, Outcomes, EndAs, Leave, WritersHoldLock
  <2> QED BY <2>1, <2>2, <2>3, QuietStep DEF QuietMove
<1> QED BY <1>1, <1>2, <1>3

(* Refusals, cancel requests and joins.                                    *)
LEMMA QuietOthers ==
  ASSUME IInv
  PROVE  /\ \A h \in HostWrites : RefuseHostWrite(h) => IInv'
         /\ \A a \in Assigns : RefuseAssign(a) => IInv'
         /\ \A m \in Mutations : RefuseMutation(m) => IInv'
         /\ \A x \in Cancels : CancelSession(x) => IInv'
         /\ \A j \in Joins : EnterRoom(j) => IInv'
<1> USE Types DEF IInv, Writers, ctlVars
<1>1. ASSUME NEW h \in HostWrites, RefuseHostWrite(h) PROVE IInv'
  <2>1. LockStep(h)
    BY <1>1, LockFreed DEF RefuseHostWrite, Leave, HasLock
  <2>2. QuietMove(h, "left")
    BY <1>1
    DEF RefuseHostWrite, TypeOK, QuietMove, Goto, Places, Leave, HasLock
  <2>3. QuietEffect(h)
    BY <1>1
    DEF RefuseHostWrite, TypeOK, QuietEffect, Outcomes, EndAs, Leave, HasLock
  <2> QED BY <2>1, <2>2, <2>3, QuietStep DEF QuietMove
<1>2. ASSUME NEW a \in Assigns, RefuseAssign(a) PROVE IInv'
  <2>1. LockStep(a)
    BY <1>2, LockFreed DEF RefuseAssign, Leave, HasLock
  <2>2. QuietMove(a, "left")
    BY <1>2 DEF RefuseAssign, TypeOK, QuietMove, Goto, Places, Leave, HasLock
  <2>3. QuietEffect(a)
    BY <1>2
    DEF RefuseAssign, TypeOK, QuietEffect, Outcomes, EndAs, Leave, HasLock
  <2> QED BY <2>1, <2>2, <2>3, QuietStep DEF QuietMove
<1>3. ASSUME NEW m \in Mutations, RefuseMutation(m) PROVE IInv'
  <2>1. LockStep(m)
    BY <1>3, LockKept DEF RefuseMutation
  <2>2. QuietMove(m, "left")
    BY <1>3 DEF RefuseMutation, TypeOK, QuietMove, Goto, Places
  <2>3. QuietEffect(m)
    BY <1>3 DEF RefuseMutation, TypeOK, QuietEffect, Outcomes, EndAs
  <2> QED BY <2>1, <2>2, <2>3, QuietStep DEF QuietMove
<1>4. ASSUME NEW x \in Cancels, CancelSession(x) PROVE IInv'
  <2>1. LockStep(x)
    BY <1>4, LockFreed DEF CancelSession, Leave, HasLock, CancelSlot
  <2>2. QuietMove(x, "left")
    BY <1>4
    DEF CancelSession, TypeOK, QuietMove, Goto, Places, Leave, HasLock,
        CancelSlot
  <2>3. QuietEffect(x)
    BY <1>4
    DEF CancelSession, TypeOK, QuietEffect, Outcomes, EndAs, Leave, HasLock,
        CancelSlot
  <2> QED BY <2>1, <2>2, <2>3, QuietStep DEF QuietMove
<1>5. ASSUME NEW j \in Joins, EnterRoom(j) PROVE IInv'
  <2>1. LockStep(j)
    BY <1>5, LockFreed DEF EnterRoom, HasLock
  <2>2. QuietMove(j, IF Authorized(j) /\ started THEN "warming" ELSE "left")
    BY <1>5 DEF EnterRoom, TypeOK, QuietMove, Goto, Places, HasLock
  <2>3. QuietEffect(j)
    BY <1>5 DEF EnterRoom, TypeOK, QuietEffect, Outcomes, EndAs, HasLock
  <2> QED BY <2>1, <2>2, <2>3, QuietStep DEF QuietMove
<1> QED BY <1>1, <1>2, <1>3, <1>4, <1>5

-----------------------------------------------------------------------------
(* The steps that change what the invariant is about.                      *)

(* Claiming a session takes no permission from a caller that has it.       *)
LEMMA Claims ==
  ASSUME TypeOK, NEW p \in Procs, owner' = Claimed(p) \/ owner' = owner
  PROVE  /\ owner' \in Principals \cup {NoOwner, Missing}
         /\ \A c \in Calls : CanAccess(Actor[c], owner) => CanAccess(Actor[c], owner')
  BY Types, ProcsAssumption, PrincipalsAssumption
  DEF TypeOK, Claimed, CanAccess

(* The slot, the pins and the outcome of a turn.                           *)
LEMMA TurnSteps ==
  ASSUME IInv, NEW t \in Turns,
         RegisterTurn(t) \/ PlanTurn(t) \/ FailPlan(t) \/ EndRun(t) \/
         FinishTurn(t)
  PROVE  IInv'
<1> USE Types DEF IInv, Writers, stopVars, ownVars, ctlVars
<1>1. CASE RegisterTurn(t)
  <2>1. LockStep(t)
    BY <1>1, LockFreed DEF RegisterTurn, HasLock, SlotFree, Available, Goto
  <2>2. TypeOK'
    BY <2>1, <1>1
    DEF RegisterTurn, HasLock, SlotFree, Available, Goto, TypeOK, Places,
        Outcomes, LockStep
  <2>3. OneTurnAtATime' /\ VoiceExclusive'
    BY <2>1, <1>1
    DEF RegisterTurn, HasLock, SlotFree, Available, Goto, TypeOK,
        OneTurnAtATime, VoiceExclusive, ActivePlaces
  <2>4. WritersHoldLock' /\ LockServed'
    BY <2>1, <1>1
    DEF RegisterTurn, HasLock, SlotFree, Available, Goto, TypeOK,
        WritersHoldLock, LockServed, LockStep
  <2>5. LeaseHeld' /\ MarkHeld'
    BY <2>1, <1>1
    DEF RegisterTurn, HasLock, SlotFree, Available, Goto, TypeOK, LeaseHeld,
        MarkHeld, LeasePlaces
  <2>6. PinsBalanced'
    BY <2>1, <1>1
    DEF RegisterTurn, HasLock, SlotFree, Available, Goto, TypeOK, PinsBalanced,
        One
  <2>7. AcceptingOpen' /\ CancelHonoured'
    BY <2>1, <1>1
    DEF RegisterTurn, HasLock, SlotFree, Available, Goto, TypeOK,
        AcceptingOpen, CancelHonoured, ActivePlaces
  <2>8. CallerMayAct'
    BY <2>1, <1>1
    DEF RegisterTurn, HasLock, SlotFree, Available, Goto, TypeOK, CallerMayAct,
        CanAccess, LeasePlaces
  <2>9. StopKept'
    BY <2>1, <1>1
    DEF RegisterTurn, HasLock, SlotFree, Available, Goto, TypeOK, StopKept,
        LockStep
  <2> QED BY <2>2, <2>3, <2>4, <2>5, <2>6, <2>7, <2>8, <2>9
<1>2. CASE PlanTurn(t)
  <2>1. LockStep(t)
    BY <1>2, LockKept DEF PlanTurn, CanAccess, Claimed, Goto
  <2>2. /\ owner' \in Principals \cup {NoOwner, Missing} /\ said' \in BOOLEAN
        /\ \A c \in Calls : CanAccess(Actor[c], owner) => CanAccess(Actor[c], owner')
    BY <1>2, Claims DEF PlanTurn, TypeOK
  <2>3. TypeOK'
    BY <2>1, <2>2, <1>2 DEF PlanTurn, Goto, TypeOK, Places, Outcomes, LockStep
  <2>4. OneTurnAtATime' /\ VoiceExclusive'
    BY <2>1, <2>2, <1>2
    DEF PlanTurn, Goto, TypeOK, OneTurnAtATime, VoiceExclusive, ActivePlaces
  <2>5. WritersHoldLock' /\ LockServed'
    BY <2>1, <2>2, <1>2
    DEF PlanTurn, Goto, TypeOK, WritersHoldLock, LockServed, LockStep
  <2>6. LeaseHeld' /\ MarkHeld'
    BY <2>1, <2>2, <1>2
    DEF PlanTurn, Goto, TypeOK, LeaseHeld, MarkHeld, LeasePlaces
  <2>7. PinsBalanced'
    BY <2>1, <2>2, <1>2 DEF PlanTurn, Goto, TypeOK, PinsBalanced, One
  <2>8. AcceptingOpen' /\ CancelHonoured'
    BY <2>1, <2>2, <1>2
    DEF PlanTurn, Goto, TypeOK, AcceptingOpen, CancelHonoured, ActivePlaces
  <2>9. CallerMayAct'
    BY <2>1, <2>2, <1>2
    DEF PlanTurn, Goto, TypeOK, CallerMayAct, CanAccess, LeasePlaces
  <2>10. StopKept'
    BY <2>1, <2>2, <1>2 DEF PlanTurn, Goto, TypeOK, StopKept, LockStep
  <2> QED BY <2>2, <2>3, <2>4, <2>5, <2>6, <2>7, <2>8, <2>9, <2>10
<1>3. CASE FailPlan(t)
  <2>1. LockStep(t)
    BY <1>3, LockKept DEF FailPlan, EndAs, Goto
  <2>2. /\ owner' \in Principals \cup {NoOwner, Missing} /\ said' \in BOOLEAN
        /\ \A c \in Calls : CanAccess(Actor[c], owner) => CanAccess(Actor[c], owner')
    BY <1>3, Claims DEF FailPlan, TypeOK
  <2>3. TypeOK'
    BY <2>1, <2>2, <1>3
    DEF FailPlan, EndAs, Goto, TypeOK, Places, Outcomes, LockStep
  <2>4. OneTurnAtATime' /\ VoiceExclusive'
    BY <2>1, <2>2, <1>3
    DEF FailPlan, EndAs, Goto, TypeOK, OneTurnAtATime, VoiceExclusive,
        ActivePlaces
  <2>5. WritersHoldLock' /\ LockServed'
    BY <2>1, <2>2, <1>3
    DEF FailPlan, EndAs, Goto, TypeOK, WritersHoldLock, LockServed, LockStep
  <2>6. LeaseHeld' /\ MarkHeld'
    BY <2>1, <2>2, <1>3
    DEF FailPlan, EndAs, Goto, TypeOK, LeaseHeld, MarkHeld, LeasePlaces
  <2>7. PinsBalanced'
    BY <2>1, <2>2, <1>3 DEF FailPlan, EndAs, Goto, TypeOK, PinsBalanced, One
  <2>8. AcceptingOpen' /\ CancelHonoured'
    BY <2>1, <2>2, <1>3
    DEF FailPlan, EndAs, Goto, TypeOK, AcceptingOpen, CancelHonoured,
        ActivePlaces
  <2>9. CallerMayAct'
    BY <2>1, <2>2, <1>3
    DEF FailPlan, EndAs, Goto, TypeOK, CallerMayAct, CanAccess, LeasePlaces
  <2>10. StopKept'
    BY <2>1, <2>2, <1>3 DEF FailPlan, EndAs, Goto, TypeOK, StopKept, LockStep
  <2> QED BY <2>2, <2>3, <2>4, <2>5, <2>6, <2>7, <2>8, <2>9, <2>10
<1>4. CASE EndRun(t)
  <2>1. LockStep(t)
    BY <1>4, LockKept DEF EndRun, EndAs, MayComplete, Goto
  <2>2. TypeOK'
    BY <2>1, <1>4
    DEF EndRun, EndAs, MayComplete, Goto, TypeOK, Places, Outcomes, LockStep
  <2>3. OneTurnAtATime' /\ VoiceExclusive'
    BY <2>1, <1>4
    DEF EndRun, EndAs, MayComplete, Goto, TypeOK, OneTurnAtATime,
        VoiceExclusive, ActivePlaces
  <2>4. WritersHoldLock' /\ LockServed'
    BY <2>1, <1>4
    DEF EndRun, EndAs, MayComplete, Goto, TypeOK, WritersHoldLock, LockServed,
        LockStep
  <2>5. LeaseHeld' /\ MarkHeld'
    BY <2>1, <1>4
    DEF EndRun, EndAs, MayComplete, Goto, TypeOK, LeaseHeld, MarkHeld,
        LeasePlaces
  <2>6. PinsBalanced'
    BY <2>1, <1>4
    DEF EndRun, EndAs, MayComplete, Goto, TypeOK, PinsBalanced, One
  <2>7. AcceptingOpen' /\ CancelHonoured'
    BY <2>1, <1>4
    DEF EndRun, EndAs, MayComplete, Goto, TypeOK, AcceptingOpen,
        CancelHonoured, ActivePlaces
  <2>8. CallerMayAct'
    BY <2>1, <1>4
    DEF EndRun, EndAs, MayComplete, Goto, TypeOK, CallerMayAct, CanAccess,
        LeasePlaces
  <2>9. StopKept'
    BY <2>1, <1>4
    DEF EndRun, EndAs, MayComplete, Goto, TypeOK, StopKept, LockStep
  <2> QED BY <2>2, <2>3, <2>4, <2>5, <2>6, <2>7, <2>8, <2>9
<1>5. CASE FinishTurn(t)
  <2>1. LockStep(t)
    BY <1>5, LockKept DEF FinishTurn, SpawnMemory, Goto
  <2>2. TypeOK'
    <3>1. slot = t
      BY <1>5 DEF FinishTurn, OneTurnAtATime, ActivePlaces
    <3>2. pins' \in Nat
      BY <1>5, <3>1 DEF FinishTurn, SpawnMemory, TypeOK, PinsBalanced, One
    <3>3. background' \in Seq(Turns)
      BY <1>5 DEF FinishTurn, SpawnMemory, TypeOK
    <3> QED
      BY <2>1, <1>5, <3>2, <3>3 DEF FinishTurn, Goto, TypeOK, Places, LockStep
  <2>3. OneTurnAtATime' /\ VoiceExclusive'
    BY <2>1, <1>5
    DEF FinishTurn, SpawnMemory, Goto, TypeOK, OneTurnAtATime, VoiceExclusive,
        ActivePlaces
  <2>4. WritersHoldLock' /\ LockServed'
    BY <2>1, <1>5
    DEF FinishTurn, SpawnMemory, Goto, TypeOK, WritersHoldLock, LockServed,
        LockStep
  <2>5. LeaseHeld' /\ MarkHeld'
    BY <2>1, <1>5
    DEF FinishTurn, SpawnMemory, Goto, TypeOK, LeaseHeld, MarkHeld, LeasePlaces
  <2>6. PinsBalanced'
    BY <2>1, <1>5, AppendProperties
    DEF FinishTurn, SpawnMemory, Goto, TypeOK, PinsBalanced, One,
        OneTurnAtATime, ActivePlaces
  <2>7. AcceptingOpen' /\ CancelHonoured'
    BY <2>1, <1>5
    DEF FinishTurn, SpawnMemory, Goto, TypeOK, AcceptingOpen, CancelHonoured,
        ActivePlaces
  <2>8. CallerMayAct'
    BY <2>1, <1>5
    DEF FinishTurn, SpawnMemory, Goto, TypeOK, CallerMayAct, CanAccess,
        LeasePlaces
  <2>9. StopKept'
    BY <2>1, <1>5
    DEF FinishTurn, SpawnMemory, Goto, TypeOK, StopKept, LockStep,
        OneTurnAtATime, ActivePlaces
  <2> QED BY <2>2, <2>3, <2>4, <2>5, <2>6, <2>7, <2>8, <2>9
<1> QED BY <1>1, <1>2, <1>3, <1>4, <1>5

(* The lease and the permission of a voice call.                           *)
LEMMA CallSteps ==
  ASSUME IInv, NEW c \in Calls,
         TakeLease(c) \/ ConfirmCall(c) \/ FailCall(c) \/ ReleaseCall(c)
  PROVE  IInv'
<1> USE Types DEF IInv, Writers, stopVars, ownVars, ctlVars
<1>1. CASE TakeLease(c)
  <2>1. LockStep(c)
    BY <1>1, LockFreed DEF TakeLease, HasLock, SlotFree, Available, Goto
  <2>2. TypeOK'
    BY <2>1, <1>1, LeaseAssumption
    DEF TakeLease, HasLock, SlotFree, Available, Goto, TypeOK, Places,
        Outcomes, LockStep
  <2>3. OneTurnAtATime' /\ VoiceExclusive'
    BY <2>1, <1>1, LeaseAssumption
    DEF TakeLease, HasLock, SlotFree, Available, Goto, TypeOK, OneTurnAtATime,
        VoiceExclusive, ActivePlaces, WritersHoldLock, MarkHeld, LeasePlaces,
        LeaseHeld
  <2>4. WritersHoldLock' /\ LockServed'
    BY <2>1, <1>1, LeaseAssumption
    DEF TakeLease, HasLock, SlotFree, Available, Goto, TypeOK, WritersHoldLock,
        LockServed, LockStep
  <2>5. LeaseHeld' /\ MarkHeld'
    BY <2>1, <1>1, LeaseAssumption
    DEF TakeLease, HasLock, SlotFree, Available, Goto, TypeOK, LeaseHeld,
        MarkHeld, LeasePlaces
  <2>6. PinsBalanced'
    BY <2>1, <1>1, LeaseAssumption
    DEF TakeLease, HasLock, SlotFree, Available, Goto, TypeOK, PinsBalanced,
        One, LeaseHeld, LeasePlaces
  <2>7. AcceptingOpen' /\ CancelHonoured'
    BY <2>1, <1>1, LeaseAssumption
    DEF TakeLease, HasLock, SlotFree, Available, Goto, TypeOK, AcceptingOpen,
        CancelHonoured, ActivePlaces
  <2>8. CallerMayAct'
    BY <2>1, <1>1, LeaseAssumption
    DEF TakeLease, HasLock, SlotFree, Available, Goto, TypeOK, CallerMayAct,
        CanAccess, LeasePlaces, LeaseHeld
  <2>9. StopKept'
    BY <2>1, <1>1, LeaseAssumption
    DEF TakeLease, HasLock, SlotFree, Available, Goto, TypeOK, StopKept,
        LockStep
  <2> QED BY <2>2, <2>3, <2>4, <2>5, <2>6, <2>7, <2>8, <2>9
<1>2. CASE ConfirmCall(c)
  <2>1. LockStep(c)
    BY <1>2, LockKept
    DEF ConfirmCall, StillAuthorized, Authorized, CanAccess, Goto
  <2>2. TypeOK'
    BY <2>1, <1>2, ProcsAssumption
    DEF ConfirmCall, StillAuthorized, Authorized, CanAccess, Goto, TypeOK,
        Places, Outcomes, LockStep
  <2>3. OneTurnAtATime' /\ VoiceExclusive'
    BY <2>1, <1>2
    DEF ConfirmCall, StillAuthorized, Authorized, CanAccess, Goto, TypeOK,
        OneTurnAtATime, VoiceExclusive, ActivePlaces
  <2>4. WritersHoldLock' /\ LockServed'
    BY <2>1, <1>2
    DEF ConfirmCall, StillAuthorized, Authorized, CanAccess, Goto, TypeOK,
        WritersHoldLock, LockServed, LockStep
  <2>5. LeaseHeld' /\ MarkHeld'
    BY <2>1, <1>2
    DEF ConfirmCall, StillAuthorized, Authorized, CanAccess, Goto, TypeOK,
        LeaseHeld, MarkHeld, LeasePlaces
  <2>6. PinsBalanced'
    BY <2>1, <1>2
    DEF ConfirmCall, StillAuthorized, Authorized, CanAccess, Goto, TypeOK,
        PinsBalanced, One
  <2>7. AcceptingOpen' /\ CancelHonoured'
    BY <2>1, <1>2
    DEF ConfirmCall, StillAuthorized, Authorized, CanAccess, Goto, TypeOK,
        AcceptingOpen, CancelHonoured, ActivePlaces
  <2>8. CallerMayAct'
    BY <2>1, <1>2
    DEF ConfirmCall, StillAuthorized, Authorized, CanAccess, Goto, TypeOK,
        CallerMayAct, CanAccess, LeasePlaces, LeaseHeld
  <2>9. StopKept'
    BY <2>1, <1>2
    DEF ConfirmCall, StillAuthorized, Authorized, CanAccess, Goto, TypeOK,
        StopKept, LockStep
  <2> QED BY <2>2, <2>3, <2>4, <2>5, <2>6, <2>7, <2>8, <2>9
<1>3. CASE FailCall(c)
  <2>1. LockStep(c)
    BY <1>3, LockKept DEF FailCall, ReleaseSession, Goto
  <2>2. TypeOK'
    BY <2>1, <1>3
    DEF FailCall, ReleaseSession, Goto, TypeOK, Places, Outcomes, LockStep,
        PinsBalanced, One, LeaseHeld, LeasePlaces
  <2>3. OneTurnAtATime' /\ VoiceExclusive'
    BY <2>1, <1>3
    DEF FailCall, ReleaseSession, Goto, TypeOK, OneTurnAtATime, VoiceExclusive,
        ActivePlaces
  <2>4. WritersHoldLock' /\ LockServed'
    BY <2>1, <1>3
    DEF FailCall, ReleaseSession, Goto, TypeOK, WritersHoldLock, LockServed,
        LockStep
  <2>5. LeaseHeld' /\ MarkHeld'
    BY <2>1, <1>3
    DEF FailCall, ReleaseSession, Goto, TypeOK, LeaseHeld, MarkHeld,
        LeasePlaces
  <2>6. PinsBalanced'
    BY <2>1, <1>3
    DEF FailCall, ReleaseSession, Goto, TypeOK, PinsBalanced, One, LeaseHeld,
        LeasePlaces
  <2>7. AcceptingOpen' /\ CancelHonoured'
    BY <2>1, <1>3
    DEF FailCall, ReleaseSession, Goto, TypeOK, AcceptingOpen, CancelHonoured,
        ActivePlaces
  <2>8. CallerMayAct'
    BY <2>1, <1>3
    DEF FailCall, ReleaseSession, Goto, TypeOK, CallerMayAct, CanAccess,
        LeasePlaces
  <2>9. StopKept'
    BY <2>1, <1>3
    DEF FailCall, ReleaseSession, Goto, TypeOK, StopKept, LockStep
  <2> QED BY <2>2, <2>3, <2>4, <2>5, <2>6, <2>7, <2>8, <2>9
<1>4. CASE ReleaseCall(c)
  <2>1. LockStep(c)
    BY <1>4, LockKept DEF ReleaseCall, ReleaseSession, Goto
  <2>2. TypeOK'
    BY <2>1, <1>4
    DEF ReleaseCall, ReleaseSession, Goto, TypeOK, Places, Outcomes, LockStep,
        PinsBalanced, One, LeaseHeld, LeasePlaces
  <2>3. OneTurnAtATime' /\ VoiceExclusive'
    BY <2>1, <1>4
    DEF ReleaseCall, ReleaseSession, Goto, TypeOK, OneTurnAtATime,
        VoiceExclusive, ActivePlaces
  <2>4. WritersHoldLock' /\ LockServed'
    BY <2>1, <1>4
    DEF ReleaseCall, ReleaseSession, Goto, TypeOK, WritersHoldLock, LockServed,
        LockStep
  <2>5. LeaseHeld' /\ MarkHeld'
    BY <2>1, <1>4
    DEF ReleaseCall, ReleaseSession, Goto, TypeOK, LeaseHeld, MarkHeld,
        LeasePlaces
  <2>6. PinsBalanced'
    BY <2>1, <1>4
    DEF ReleaseCall, ReleaseSession, Goto, TypeOK, PinsBalanced, One,
        LeaseHeld, LeasePlaces
  <2>7. AcceptingOpen' /\ CancelHonoured'
    BY <2>1, <1>4
    DEF ReleaseCall, ReleaseSession, Goto, TypeOK, AcceptingOpen,
        CancelHonoured, ActivePlaces
  <2>8. CallerMayAct'
    BY <2>1, <1>4
    DEF ReleaseCall, ReleaseSession, Goto, TypeOK, CallerMayAct, CanAccess,
        LeasePlaces
  <2>9. StopKept'
    BY <2>1, <1>4
    DEF ReleaseCall, ReleaseSession, Goto, TypeOK, StopKept, LockStep
  <2> QED BY <2>2, <2>3, <2>4, <2>5, <2>6, <2>7, <2>8, <2>9
<1> QED BY <1>1, <1>2, <1>3, <1>4

(* Writes, owner changes, deletions and warm-ups.                          *)
LEMMA WriterSteps ==
  ASSUME IInv
  PROVE  /\ \A h \in HostWrites : BeginHostWrite(h) \/ EndHostWrite(h) => IInv'
         /\ \A a \in Assigns : BeginAssign(a) \/ EndAssign(a) => IInv'
         /\ \A m \in Mutations : BeginMutation(m) \/ EndMutation(m) => IInv'
         /\ \A j \in Joins : WarmSession(j) => IInv'
<1> USE Types DEF IInv, Writers, stopVars, ownVars, ctlVars
<1>1. ASSUME NEW h \in HostWrites, BeginHostWrite(h) PROVE IInv'
  <2>1. LockStep(h)
    BY <1>1, LockKept DEF BeginHostWrite, HasLock, SlotFree, Available, Goto
  <2>2. TypeOK'
    BY <2>1, <1>1, LeaseAssumption
    DEF BeginHostWrite, HasLock, SlotFree, Available, Goto, TypeOK, Places,
        Outcomes, LockStep
  <2>3. OneTurnAtATime' /\ VoiceExclusive'
    BY <2>1, <1>1, LeaseAssumption
    DEF BeginHostWrite, HasLock, SlotFree, Available, Goto, TypeOK,
        OneTurnAtATime, VoiceExclusive, ActivePlaces
  <2>4. WritersHoldLock' /\ LockServed'
    BY <2>1, <1>1, LeaseAssumption
    DEF BeginHostWrite, HasLock, SlotFree, Available, Goto, TypeOK,
        WritersHoldLock, LockServed, LockStep, lockVars
  <2>5. LeaseHeld' /\ MarkHeld'
    BY <2>1, <1>1, LeaseAssumption
    DEF BeginHostWrite, HasLock, SlotFree, Available, Goto, TypeOK, LeaseHeld,
        MarkHeld, LeasePlaces
  <2>6. PinsBalanced'
    BY <2>1, <1>1, LeaseAssumption
    DEF BeginHostWrite, HasLock, SlotFree, Available, Goto, TypeOK,
        PinsBalanced, One
  <2>7. AcceptingOpen' /\ CancelHonoured'
    BY <2>1, <1>1, LeaseAssumption
    DEF BeginHostWrite, HasLock, SlotFree, Available, Goto, TypeOK,
        AcceptingOpen, CancelHonoured, ActivePlaces
  <2>8. CallerMayAct'
    BY <2>1, <1>1, LeaseAssumption
    DEF BeginHostWrite, HasLock, SlotFree, Available, Goto, TypeOK,
        CallerMayAct, CanAccess, LeasePlaces
  <2>9. StopKept'
    BY <2>1, <1>1, LeaseAssumption
    DEF BeginHostWrite, HasLock, SlotFree, Available, Goto, TypeOK, StopKept,
        LockStep, OneTurnAtATime
  <2> QED BY <2>2, <2>3, <2>4, <2>5, <2>6, <2>7, <2>8, <2>9
<1>2. ASSUME NEW h \in HostWrites, EndHostWrite(h) PROVE IInv'
  <2>1. LockStep(h)
    BY <1>2, LockFreed DEF EndHostWrite, WritersHoldLock, Goto
  <2>2. /\ owner' \in Principals \cup {NoOwner, Missing} /\ said' \in BOOLEAN
        /\ \A c \in Calls : CanAccess(Actor[c], owner) => CanAccess(Actor[c], owner')
    BY <1>2, Claims DEF EndHostWrite, TypeOK
  <2>3. TypeOK'
    BY <2>1, <2>2, <1>2
    DEF EndHostWrite, WritersHoldLock, Goto, TypeOK, Places, Outcomes, LockStep
  <2>4. OneTurnAtATime' /\ VoiceExclusive'
    BY <2>1, <2>2, <1>2
    DEF EndHostWrite, WritersHoldLock, Goto, TypeOK, OneTurnAtATime,
        VoiceExclusive, ActivePlaces
  <2>5. WritersHoldLock' /\ LockServed'
    BY <2>1, <2>2, <1>2
    DEF EndHostWrite, WritersHoldLock, Goto, TypeOK, WritersHoldLock,
        LockServed, LockStep
  <2>6. LeaseHeld' /\ MarkHeld'
    BY <2>1, <2>2, <1>2
    DEF EndHostWrite, WritersHoldLock, Goto, TypeOK, LeaseHeld, MarkHeld,
        LeasePlaces
  <2>7. PinsBalanced'
    BY <2>1, <2>2, <1>2
    DEF EndHostWrite, WritersHoldLock, Goto, TypeOK, PinsBalanced, One,
        OneTurnAtATime
  <2>8. AcceptingOpen' /\ CancelHonoured'
    BY <2>1, <2>2, <1>2
    DEF EndHostWrite, WritersHoldLock, Goto, TypeOK, AcceptingOpen,
        CancelHonoured, ActivePlaces
  <2>9. CallerMayAct'
    BY <2>1, <2>2, <1>2
    DEF EndHostWrite, WritersHoldLock, Goto, TypeOK, CallerMayAct, CanAccess,
        LeasePlaces, OneTurnAtATime, LeaseHeld, VoiceExclusive
  <2>10. StopKept'
    BY <2>1, <2>2, <1>2
    DEF EndHostWrite, WritersHoldLock, Goto, TypeOK, StopKept, LockStep,
        OneTurnAtATime
  <2> QED BY <2>2, <2>3, <2>4, <2>5, <2>6, <2>7, <2>8, <2>9, <2>10
<1>3. ASSUME NEW a \in Assigns, BeginAssign(a) PROVE IInv'
  <2>1. LockStep(a)
    BY <1>3, LockKept DEF BeginAssign, HasLock, Available, Goto
  <2>2. TypeOK'
    BY <2>1, <1>3, LeaseAssumption
    DEF BeginAssign, HasLock, Available, Goto, TypeOK, Places, Outcomes,
        LockStep
  <2>3. OneTurnAtATime' /\ VoiceExclusive'
    BY <2>1, <1>3, LeaseAssumption
    DEF BeginAssign, HasLock, Available, Goto, TypeOK, OneTurnAtATime,
        VoiceExclusive, ActivePlaces, MarkHeld
  <2>4. WritersHoldLock' /\ LockServed'
    BY <2>1, <1>3, LeaseAssumption
    DEF BeginAssign, HasLock, Available, Goto, TypeOK, WritersHoldLock,
        LockServed, LockStep, lockVars
  <2>5. LeaseHeld' /\ MarkHeld'
    BY <2>1, <1>3, LeaseAssumption
    DEF BeginAssign, HasLock, Available, Goto, TypeOK, LeaseHeld, MarkHeld,
        LeasePlaces
  <2>6. PinsBalanced'
    BY <2>1, <1>3, LeaseAssumption
    DEF BeginAssign, HasLock, Available, Goto, TypeOK, PinsBalanced, One
  <2>7. AcceptingOpen' /\ CancelHonoured'
    BY <2>1, <1>3, LeaseAssumption
    DEF BeginAssign, HasLock, Available, Goto, TypeOK, AcceptingOpen,
        CancelHonoured, ActivePlaces
  <2>8. CallerMayAct'
    BY <2>1, <1>3, LeaseAssumption
    DEF BeginAssign, HasLock, Available, Goto, TypeOK, CallerMayAct, CanAccess,
        LeasePlaces
  <2>9. StopKept'
    BY <2>1, <1>3, LeaseAssumption
    DEF BeginAssign, HasLock, Available, Goto, TypeOK, StopKept, LockStep
  <2> QED BY <2>2, <2>3, <2>4, <2>5, <2>6, <2>7, <2>8, <2>9
<1>4. ASSUME NEW a \in Assigns, EndAssign(a) PROVE IInv'
  <2>1. LockStep(a)
    BY <1>4, LockFreed DEF EndAssign, WritersHoldLock, Goto
  <2>2. TypeOK'
    BY <2>1, <1>4
    DEF EndAssign, WritersHoldLock, Goto, TypeOK, Places, Outcomes, LockStep
  <2>3. OneTurnAtATime' /\ VoiceExclusive'
    BY <2>1, <1>4
    DEF EndAssign, WritersHoldLock, Goto, TypeOK, OneTurnAtATime,
        VoiceExclusive, ActivePlaces
  <2>4. WritersHoldLock' /\ LockServed'
    BY <2>1, <1>4
    DEF EndAssign, WritersHoldLock, Goto, TypeOK, WritersHoldLock, LockServed,
        LockStep
  <2>5. LeaseHeld' /\ MarkHeld'
    BY <2>1, <1>4
    DEF EndAssign, WritersHoldLock, Goto, TypeOK, LeaseHeld, MarkHeld,
        LeasePlaces
  <2>6. PinsBalanced'
    BY <2>1, <1>4
    DEF EndAssign, WritersHoldLock, Goto, TypeOK, PinsBalanced, One
  <2>7. AcceptingOpen' /\ CancelHonoured'
    BY <2>1, <1>4
    DEF EndAssign, WritersHoldLock, Goto, TypeOK, AcceptingOpen,
        CancelHonoured, ActivePlaces
  <2>8. CallerMayAct'
    BY <2>1, <1>4
    DEF EndAssign, WritersHoldLock, Goto, TypeOK, CallerMayAct, CanAccess,
        LeasePlaces, LeaseHeld, VoiceExclusive
  <2>9. StopKept'
    BY <2>1, <1>4
    DEF EndAssign, WritersHoldLock, Goto, TypeOK, StopKept, LockStep
  <2> QED BY <2>2, <2>3, <2>4, <2>5, <2>6, <2>7, <2>8, <2>9
<1>5. ASSUME NEW m \in Mutations, BeginMutation(m) PROVE IInv'
  <2>1. LockStep(m)
    BY <1>5, LockKept DEF BeginMutation, Available, CanAccess, Goto
  <2>2. TypeOK'
    BY <2>1, <1>5, LeaseAssumption
    DEF BeginMutation, Available, CanAccess, Goto, TypeOK, Places, Outcomes,
        LockStep
  <2>3. OneTurnAtATime' /\ VoiceExclusive'
    BY <2>1, <1>5, LeaseAssumption
    DEF BeginMutation, Available, CanAccess, Goto, TypeOK, OneTurnAtATime,
        VoiceExclusive, ActivePlaces
  <2>4. WritersHoldLock' /\ LockServed'
    BY <2>1, <1>5, LeaseAssumption
    DEF BeginMutation, Available, CanAccess, Goto, TypeOK, WritersHoldLock,
        LockServed, LockStep
  <2>5. LeaseHeld' /\ MarkHeld'
    BY <2>1, <1>5, LeaseAssumption
    DEF BeginMutation, Available, CanAccess, Goto, TypeOK, LeaseHeld, MarkHeld,
        LeasePlaces
  <2>6. PinsBalanced'
    BY <2>1, <1>5, LeaseAssumption
    DEF BeginMutation, Available, CanAccess, Goto, TypeOK, PinsBalanced, One
  <2>7. AcceptingOpen' /\ CancelHonoured'
    BY <2>1, <1>5, LeaseAssumption
    DEF BeginMutation, Available, CanAccess, Goto, TypeOK, AcceptingOpen,
        CancelHonoured, ActivePlaces
  <2>8. CallerMayAct'
    BY <2>1, <1>5, LeaseAssumption
    DEF BeginMutation, Available, CanAccess, Goto, TypeOK, CallerMayAct,
        CanAccess, LeasePlaces
  <2>9. StopKept'
    BY <2>1, <1>5, LeaseAssumption
    DEF BeginMutation, Available, CanAccess, Goto, TypeOK, StopKept, LockStep
  <2> QED BY <2>2, <2>3, <2>4, <2>5, <2>6, <2>7, <2>8, <2>9
<1>6. ASSUME NEW m \in Mutations, EndMutation(m) PROVE IInv'
  <2>1. LockStep(m)
    BY <1>6, LockKept DEF EndMutation, Goto
  <2>2. TypeOK'
    BY <2>1, <1>6 DEF EndMutation, Goto, TypeOK, Places, Outcomes, LockStep
  <2>3. OneTurnAtATime' /\ VoiceExclusive'
    BY <2>1, <1>6
    DEF EndMutation, Goto, TypeOK, OneTurnAtATime, VoiceExclusive, ActivePlaces
  <2>4. WritersHoldLock' /\ LockServed'
    BY <2>1, <1>6
    DEF EndMutation, Goto, TypeOK, WritersHoldLock, LockServed, LockStep
  <2>5. LeaseHeld' /\ MarkHeld'
    BY <2>1, <1>6
    DEF EndMutation, Goto, TypeOK, LeaseHeld, MarkHeld, LeasePlaces
  <2>6. PinsBalanced'
    BY <2>1, <1>6 DEF EndMutation, Goto, TypeOK, PinsBalanced, One
  <2>7. AcceptingOpen' /\ CancelHonoured'
    BY <2>1, <1>6
    DEF EndMutation, Goto, TypeOK, AcceptingOpen, CancelHonoured, ActivePlaces
  <2>8. CallerMayAct'
    BY <2>1, <1>6
    DEF EndMutation, Goto, TypeOK, CallerMayAct, CanAccess, LeasePlaces,
        LeaseHeld, VoiceExclusive, MarkHeld
  <2>9. StopKept'
    BY <2>1, <1>6 DEF EndMutation, Goto, TypeOK, StopKept, LockStep
  <2> QED BY <2>2, <2>3, <2>4, <2>5, <2>6, <2>7, <2>8, <2>9
<1>7. ASSUME NEW j \in Joins, WarmSession(j) PROVE IInv'
  <2>1. LockStep(j)
    BY <1>7, LockKept DEF WarmSession, Goto
  <2>2. TypeOK'
    BY <2>1, <1>7, ProcsAssumption, PrincipalsAssumption
    DEF WarmSession, Goto, TypeOK, Places, Outcomes, LockStep
  <2>3. OneTurnAtATime' /\ VoiceExclusive'
    BY <2>1, <1>7, ProcsAssumption, PrincipalsAssumption
    DEF WarmSession, Goto, TypeOK, OneTurnAtATime, VoiceExclusive, ActivePlaces
  <2>4. WritersHoldLock' /\ LockServed'
    BY <2>1, <1>7, ProcsAssumption, PrincipalsAssumption
    DEF WarmSession, Goto, TypeOK, WritersHoldLock, LockServed, LockStep
  <2>5. LeaseHeld' /\ MarkHeld'
    BY <2>1, <1>7, ProcsAssumption, PrincipalsAssumption
    DEF WarmSession, Goto, TypeOK, LeaseHeld, MarkHeld, LeasePlaces
  <2>6. PinsBalanced'
    BY <2>1, <1>7, ProcsAssumption, PrincipalsAssumption
    DEF WarmSession, Goto, TypeOK, PinsBalanced, One
  <2>7. AcceptingOpen' /\ CancelHonoured'
    BY <2>1, <1>7, ProcsAssumption, PrincipalsAssumption
    DEF WarmSession, Goto, TypeOK, AcceptingOpen, CancelHonoured, ActivePlaces
  <2>8. CallerMayAct'
    BY <2>1, <1>7, ProcsAssumption, PrincipalsAssumption
    DEF WarmSession, Goto, TypeOK, CallerMayAct, CanAccess, LeasePlaces
  <2>9. StopKept'
    BY <2>1, <1>7, ProcsAssumption, PrincipalsAssumption
    DEF WarmSession, Goto, TypeOK, StopKept, LockStep
  <2> QED BY <2>2, <2>3, <2>4, <2>5, <2>6, <2>7, <2>8, <2>9
<1> QED BY <1>1, <1>2, <1>3, <1>4, <1>5, <1>6, <1>7

(* Memory updates and the phases of stop.                                  *)
LEMMA ServiceSteps ==
  ASSUME IInv, EndBackground \/ BeginStop \/ AdvanceStop
  PROVE  IInv'
<1> USE Types DEF IInv, Writers, stopVars, ownVars, ctlVars
<1>1. CASE EndBackground
  <2>1. TypeOK'
    BY <1>1, HeadTailProperties
    DEF EndBackground, lockVars, TypeOK, Places, Outcomes, PinsBalanced, One
  <2>2. OneTurnAtATime' /\ VoiceExclusive'
    BY <1>1
    DEF EndBackground, lockVars, TypeOK, OneTurnAtATime, VoiceExclusive,
        ActivePlaces
  <2>3. WritersHoldLock' /\ LockServed'
    BY <1>1 DEF EndBackground, lockVars, TypeOK, WritersHoldLock, LockServed
  <2>4. LeaseHeld' /\ MarkHeld'
    BY <1>1
    DEF EndBackground, lockVars, TypeOK, LeaseHeld, MarkHeld, LeasePlaces
  <2>5. PinsBalanced'
    BY <1>1, HeadTailProperties
    DEF EndBackground, lockVars, TypeOK, PinsBalanced, One
  <2>6. AcceptingOpen' /\ CancelHonoured'
    BY <1>1
    DEF EndBackground, lockVars, TypeOK, AcceptingOpen, CancelHonoured,
        ActivePlaces
  <2>7. CallerMayAct'
    BY <1>1
    DEF EndBackground, lockVars, TypeOK, CallerMayAct, CanAccess, LeasePlaces
  <2>8. StopKept'
    BY <1>1 DEF EndBackground, lockVars, TypeOK, StopKept
  <2> QED BY <2>1, <2>2, <2>3, <2>4, <2>5, <2>6, <2>7, <2>8
<1>2. CASE BeginStop
  <2>1. TypeOK'
    BY <1>2 DEF BeginStop, lockVars, CancelSlot, TypeOK, Places, Outcomes
  <2>2. OneTurnAtATime' /\ VoiceExclusive'
    BY <1>2
    DEF BeginStop, lockVars, CancelSlot, TypeOK, OneTurnAtATime,
        VoiceExclusive, ActivePlaces
  <2>3. WritersHoldLock' /\ LockServed'
    BY <1>2
    DEF BeginStop, lockVars, CancelSlot, TypeOK, WritersHoldLock, LockServed
  <2>4. LeaseHeld' /\ MarkHeld'
    BY <1>2
    DEF BeginStop, lockVars, CancelSlot, TypeOK, LeaseHeld, MarkHeld,
        LeasePlaces
  <2>5. PinsBalanced'
    BY <1>2 DEF BeginStop, lockVars, CancelSlot, TypeOK, PinsBalanced, One
  <2>6. AcceptingOpen' /\ CancelHonoured'
    BY <1>2
    DEF BeginStop, lockVars, CancelSlot, TypeOK, AcceptingOpen, CancelHonoured,
        ActivePlaces
  <2>7. CallerMayAct'
    BY <1>2
    DEF BeginStop, lockVars, CancelSlot, TypeOK, CallerMayAct, CanAccess,
        LeasePlaces
  <2>8. StopKept'
    BY <1>2 DEF BeginStop, lockVars, CancelSlot, TypeOK, StopKept
  <2> QED BY <2>1, <2>2, <2>3, <2>4, <2>5, <2>6, <2>7, <2>8
<1>3. CASE AdvanceStop
  <2>1. TypeOK'
    BY <1>3 DEF AdvanceStop, lockVars, TurnsDrained, TypeOK, Places, Outcomes
  <2>2. OneTurnAtATime' /\ VoiceExclusive'
    BY <1>3
    DEF AdvanceStop, lockVars, TurnsDrained, TypeOK, OneTurnAtATime,
        VoiceExclusive, ActivePlaces
  <2>3. WritersHoldLock' /\ LockServed'
    BY <1>3
    DEF AdvanceStop, lockVars, TurnsDrained, TypeOK, WritersHoldLock,
        LockServed
  <2>4. LeaseHeld' /\ MarkHeld'
    BY <1>3
    DEF AdvanceStop, lockVars, TurnsDrained, TypeOK, LeaseHeld, MarkHeld,
        LeasePlaces
  <2>5. PinsBalanced'
    BY <1>3 DEF AdvanceStop, lockVars, TurnsDrained, TypeOK, PinsBalanced, One
  <2>6. AcceptingOpen' /\ CancelHonoured'
    BY <1>3
    DEF AdvanceStop, lockVars, TurnsDrained, TypeOK, AcceptingOpen,
        CancelHonoured, ActivePlaces
  <2>7. CallerMayAct'
    BY <1>3
    DEF AdvanceStop, lockVars, TurnsDrained, TypeOK, CallerMayAct, CanAccess,
        LeasePlaces
  <2>8. StopKept'
    BY <1>3
    DEF AdvanceStop, lockVars, TurnsDrained, TypeOK, StopKept, OneTurnAtATime,
        ActivePlaces
  <2> QED BY <2>1, <2>2, <2>3, <2>4, <2>5, <2>6, <2>7, <2>8
<1> QED BY <1>1, <1>2, <1>3

-----------------------------------------------------------------------------
(* The invariant holds before any call is made.                            *)
LEMMA Initially == Init => IInv
<1> SUFFICES ASSUME Init PROVE IInv
  OBVIOUS
<1> USE Types DEF Init, Writers
<1>1. TypeOK
  BY DEF TypeOK, Places, Outcomes
<1>2. OneTurnAtATime /\ WritersHoldLock /\ LockServed /\ VoiceExclusive
  BY DEF OneTurnAtATime, ActivePlaces, WritersHoldLock, LockServed,
         VoiceExclusive
<1>3. LeaseHeld /\ MarkHeld /\ CallerMayAct
  BY DEF LeaseHeld, LeasePlaces, MarkHeld, CallerMayAct
<1>4. PinsBalanced
  BY DEF PinsBalanced, One
<1>5. AcceptingOpen /\ CancelHonoured /\ StopKept
  BY DEF AcceptingOpen, CancelHonoured, StopKept
<1> QED BY <1>1, <1>2, <1>3, <1>4, <1>5 DEF IInv

(* It is kept when nothing happens.                                        *)
LEMMA Stuttering == IInv /\ UNCHANGED vars => IInv'
  BY DEF vars, stopVars, lockVars, ownVars, ctlVars, IInv, TypeOK,
     OneTurnAtATime, WritersHoldLock, LockServed, LeaseHeld, MarkHeld,
     VoiceExclusive, PinsBalanced, AcceptingOpen, CancelHonoured,
     CallerMayAct, CanAccess, StopKept

(* The invariant is inductive: no operation, in any interleaving, breaks a *)
(* part of it.                                                             *)
LEMMA Inductive == IInv /\ [Next]_vars => IInv'
<1> SUFFICES ASSUME IInv, [Next]_vars PROVE IInv'
  OBVIOUS
<1>1. ASSUME NEW t \in Turns, TurnNext(t) PROVE IInv'
  BY <1>1, QuietTurns, TurnSteps DEF TurnNext
<1>2. ASSUME NEW c \in Calls, CallNext(c) PROVE IInv'
  BY <1>2, QuietCalls, CallSteps DEF CallNext
<1>3. ASSUME NEW h \in HostWrites, HostNext(h) PROVE IInv'
  BY <1>3, QuietRequests, QuietOthers, WriterSteps, Types DEF HostNext, Writers
<1>4. ASSUME NEW s \in Steers, SteerNext(s) PROVE IInv'
  BY <1>4, QuietRequests, QuietSteers, Types DEF SteerNext, Writers
<1>5. ASSUME NEW a \in Assigns, AssignNext(a) PROVE IInv'
  BY <1>5, QuietRequests, QuietOthers, WriterSteps, Types
  DEF AssignNext, Writers
<1>6. ASSUME NEW m \in Mutations, MutationNext(m) PROVE IInv'
  BY <1>6, QuietOthers, WriterSteps DEF MutationNext
<1>7. ASSUME NEW x \in Cancels, CancelNext(x) PROVE IInv'
  BY <1>7, QuietRequests, QuietOthers, Types DEF CancelNext
<1>8. ASSUME NEW j \in Joins, JoinNext(j) PROVE IInv'
  BY <1>8, QuietRequests, QuietOthers, WriterSteps, Types DEF JoinNext
<1>9. CASE EndBackground \/ BeginStop \/ AdvanceStop
  BY <1>9, ServiceSteps
<1>10. CASE UNCHANGED vars
  BY <1>10, Stuttering
<1> QED
  BY <1>1, <1>2, <1>3, <1>4, <1>5, <1>6, <1>7, <1>8, <1>9, <1>10 DEF Next

(* The inductive invariant holds in every reachable state of the admission *)
(* service.                                                                *)
THEOREM Invariance == Spec => []IInv
<1>1. Init => IInv
  BY Initially
<1>2. IInv /\ [Next]_vars => IInv'
  BY Inductive
<1> QED
  BY <1>1, <1>2, PTL DEF Spec

(* Variables keep their types; in particular no pin count goes below zero. *)
THEOREM TypeCorrect == Spec => []TypeOK
<1>1. IInv => TypeOK
  BY DEF IInv
<1> QED BY <1>1, Invariance, PTL

(* One turn or host write at a time, whatever calls are made on a session. *)
THEOREM MutualExclusion == Spec => []OneTurnAtATime
<1>1. IInv => OneTurnAtATime
  BY DEF IInv
<1> QED BY <1>1, Invariance, PTL

(* A voice call has its session to itself while it holds the lease.        *)
THEOREM VoiceExclusion == Spec => []VoiceExclusive
<1>1. IInv => VoiceExclusive
  BY DEF IInv
<1> QED BY <1>1, Invariance, PTL

(* Pins are balanced: the cache can neither evict a session in use nor     *)
(* keep one for ever.                                                      *)
THEOREM PinBalance == Spec => []PinsBalanced
<1>1. IInv => PinsBalanced
  BY DEF IInv
<1> QED BY <1>1, Invariance, PTL

(* An acknowledged cancellation is never followed by a normal answer.      *)
THEOREM Cancellation == Spec => []CancelHonoured
<1>1. IInv => CancelHonoured
  BY DEF IInv
<1> QED BY <1>1, Invariance, PTL

(* The caller of a confirmed voice call keeps its permission to act.       *)
THEOREM CallerPermission == Spec => []CallerMayAct
<1>1. IInv => CallerMayAct
  BY DEF IInv
<1> QED BY <1>1, Invariance, PTL

(* Once stop has returned the service works on nothing.                    *)
THEOREM Quiescence == Spec => []StopQuiescent
<1>1. IInv => StopQuiescent
  BY Types DEF IInv, StopQuiescent, StopKept, LockServed, WritersHoldLock,
               OneTurnAtATime, TypeOK, Writers
<1> QED BY <1>1, Invariance, PTL
=============================================================================
