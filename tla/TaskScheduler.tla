---------------------------- MODULE TaskScheduler ----------------------------
(***************************************************************************)
(* Background turns: app/tasks/interface.py (TaskService) with _runner.py  *)
(* (BackgroundTurnRunner) and _store.py on the database.  Tasks and the    *)
(* messages of persistent agents are queued, wait in order behind the work *)
(* of the same key, wait for one of max_concurrent slots, run as a turn    *)
(* and record their end.  Requests cancel work, start, move, configure and *)
(* stop agents, and shut the service down; the process may die and restart *)
(* and another runtime may start on the same database.                     *)
(*                                                                         *)
(* asyncio's Lock and Semaphore serve first come first served: a line is   *)
(* the sequence of those that hold or wait, and whoever is among its first *)
(* (1, or MaxConcurrent) elements holds.  An action is the code between    *)
(* two suspension points, a database write is one action that commits and  *)
(* one that returns, and a cancelled worker's next step is Killed.         *)
(***************************************************************************)
EXTENDS Integers, Sequences, FiniteSets, SequencesExt

CONSTANTS
    Jobs,            \* pieces of background work: tasks and agent messages
    AgentOf,         \* [Jobs -> Agents \cup {None}]: None for a task
    SubjectOf,       \* [Jobs -> Subjects \cup {None}]: a task's order key
    Subjects, Agents, Sessions,
    Home,            \* [Agents -> Sessions]: where an agent starts
    IdentityOf,      \* [Agents -> Identities]: its (profile, subject)
    Identities,
    Ops,             \* requests other than queueing work
    OpKind,          \* [Ops -> {"cancel", "start", "move", "configure",
                     \*          "stop", "shutdown"}]
    Target,          \* [Ops -> Jobs \cup Agents \cup {None}]
    Goal,            \* [Ops -> Sessions]: the session a move asks for
    MaxConcurrent, MaxWaiting,   \* TasksConfig
    MaxCrashes, MaxOthers, MaxFaults  \* bounds: crashes, other runtimes
                                      \* starting, failing writes

None == "none"
Messages == {j \in Jobs : AgentOf[j] # None}
Tasks    == Jobs \ Messages
OfKind(k) == {o \in Ops : OpKind[o] = k}
(* execute's order_key: the agent, or the task's (profile, subject).       *)
KeyOf(j) == IF j \in Messages THEN AgentOf[j] ELSE SubjectOf[j]
Keys     == Agents \cup Subjects

ASSUME JobsAssumption ==
    /\ AgentOf \in [Jobs -> Agents \cup {None}]
    /\ SubjectOf \in [Jobs -> Subjects \cup {None}]
    /\ None \notin Keys \cup Jobs \cup Sessions /\ Jobs \cap Ops = {}
    /\ Agents \cap Subjects = {}   \* ("agent", id) and (profile, subject)
ASSUME LimitsAssumption ==
    /\ MaxConcurrent \in Nat \ {0} /\ MaxWaiting \in Nat \ {0}
    /\ MaxCrashes \in Nat /\ MaxOthers \in Nat /\ MaxFaults \in Nat
ASSUME OpsAssumption ==
    /\ OpKind \in [Ops -> {"cancel", "start", "move", "configure", "stop",
                           "shutdown"}]
    /\ Goal \in [Ops -> Sessions] /\ Home \in [Agents -> Sessions]
    /\ IdentityOf \in [Agents -> Identities]
    /\ \A o \in Ops : Target[o] \in CASE OpKind[o] = "cancel" -> Jobs
                                      [] OpKind[o] = "shutdown" -> {None}
                                      [] OTHER -> Agents
(* Agents that are there at the start were started before.                 *)
Older == {a \in Agents : \A o \in OfKind("start") : Target[o] # a}
ASSUME AgentsAssumption ==
    /\ IsFiniteSet(Agents) /\ IsFiniteSet(Ops)
    /\ \A a, b \in Older : a # b => Home[a] # Home[b] /\ IdentityOf[a] # IdentityOf[b]

VARIABLES
    status, told,     \* the records, and the ends published for them
    born,             \* the records in order of creation (created_at)
    agent,            \* [Agents -> [status, session, config]]
    up, open,         \* the process runs; TaskService._store is set
    reserved, tracked, requested,  \* the runner's _reserved, _running and
                                   \* _cancel_requested
    ready,                        \* the event loop's new workers, in order
    orders, slots, admission,      \* lines: _order_locks, _slots and
                                   \* _agent_admission
    pc, verdict, bound,   \* a worker's place, the end it is recording, and
                          \* the session and config its turn runs with
    killed,               \* workers with a CancelledError to be thrown
    opc, todo, victim,    \* a request's place, whom it still has to cancel,
                          \* and the worker it awaits
    pins,                 \* StreamingService pins taken for agents
    crashes, others, faults

recordVars == <<status, told, born>>
runnerVars == <<reserved, tracked, requested>>
waitVars   == <<ready, orders, slots>>
lineVars   == <<waitVars, admission>>
workerVars == <<pc, verdict, bound>>
opVars     == <<opc, todo, victim>>
faultVars  == <<crashes, others, faults>>
vars == <<recordVars, agent, up, open, runnerVars, lineVars, workerVars,
          killed, opVars, pins, faultVars>>

Unfinished == {"queued", "running"}
Ends       == {"done", "failed", "cancelled", "interrupted"}
Statuses   == {"absent"} \cup Unfinished \cup Ends

Unbound    == [session |-> None, config |-> {}]
Callers    == {"ask", "creating", "created"}        \* start_task, message_agent
SlotPlaces == {"admit", "starting", "started", "missed", "turn"}
Workers    == {"unstarted", "order", "slot", "ending", "ended", "lapsed"}
                  \cup SlotPlaces
Places     == {"idle", "refused", "over"} \cup Callers \cup Workers

Init ==
    /\ status = [j \in Jobs |-> "absent"]
    /\ told = [j \in Jobs |-> <<>>] /\ born = <<>>
    /\ agent = [a \in Agents |->
                  [status |-> IF a \in Older THEN "active" ELSE "absent",
                   session |-> Home[a], config |-> {}]]
    /\ up = TRUE /\ open = TRUE
    /\ reserved = 0 /\ tracked = {} /\ requested = {}
    /\ ready = <<>>
    /\ orders = [k \in Keys |-> <<>>] /\ slots = <<>> /\ admission = <<>>
    /\ pc = [j \in Jobs |-> "idle"]
    /\ verdict = [j \in Jobs |-> None] /\ bound = [j \in Jobs |-> Unbound]
    /\ killed = {}
    /\ opc = [o \in Ops |-> "idle"]
    /\ todo = [o \in Ops |-> {}] /\ victim = [o \in Ops |-> None]
    /\ pins = [s \in Sessions |-> Cardinality({a \in Agents :
                   agent[a].status = "active" /\ agent[a].session = s})]
    /\ crashes = 0 /\ others = 0 /\ faults = 0

-----------------------------------------------------------------------------
(* Lines.                                                                  *)

(* x gives up its place in a line, wherever it stands.                     *)
Without(line, x) ==
    IF \E i \in DOMAIN line : line[i] = x
    THEN RemoveAt(line, CHOOSE i \in DOMAIN line : line[i] = x)
    ELSE line

InFront(line, x) == line # <<>> /\ Head(line) = x

HasSlot(j) == \E i \in DOMAIN slots : slots[i] = j /\ i <= MaxConcurrent

(* Mutant: an exception leaves the order and forgets what else was held.   *)
BugLeaveLines(j) ==
    /\ orders' = [k \in Keys |-> Without(orders[k], j)]
    /\ UNCHANGED <<ready, slots, admission>>
(* `async with self._in_order(key), self._slots` and the admission are     *)
(* left, in whatever way.                                                  *)
LeaveLines(j) ==
    /\ orders' = [k \in Keys |-> Without(orders[k], j)]
    /\ slots' = Without(slots, j)
    /\ admission' = Without(admission, j)
    /\ UNCHANGED ready

Goto(j, place) == pc' = [pc EXCEPT ![j] = place]
OpGoto(o, place) == opc' = [opc EXCEPT ![o] = place]

(* execute's `finally`, and _finish_unstarted.                             *)
Forget(j) == tracked' = tracked \ {j} /\ requested' = requested \ {j}

(* Mutant: a terminal update forgets `only_from`.                          *)
BugMayEnd(j) == TRUE
MayEnd(j) == status[j] \in Unfinished

Active(a) == agent[a].status = "active"

-----------------------------------------------------------------------------
(* start_task and message_agent, up to the call of submit.                 *)

HasRoom == Cardinality(tracked) + reserved < MaxWaiting

AskTask(j) ==
    /\ j \in Tasks /\ pc[j] = "idle" /\ open
    /\ IF HasRoom THEN Goto(j, "creating") /\ reserved' = reserved + 1
                  ELSE Goto(j, "refused") /\ UNCHANGED reserved
    /\ UNCHANGED <<recordVars, agent, up, open, tracked, requested, lineVars,
                   verdict, bound, killed, opVars, pins, faultVars>>

AskMessage(j) ==
    /\ j \in Messages /\ pc[j] = "idle" /\ open
    /\ Goto(j, "ask") /\ admission' = Append(admission, j)
    /\ UNCHANGED <<recordVars, agent, up, open, runnerVars, waitVars,
                   verdict, bound, killed, opVars, pins, faultVars>>

(* Under the admission lock: the agent is looked up and must be active.    *)
AcceptMessage(j) ==
    /\ pc[j] = "ask" /\ InFront(admission, j)
    /\ IF Active(AgentOf[j]) /\ HasRoom
       THEN Goto(j, "creating") /\ reserved' = reserved + 1
            /\ UNCHANGED admission
       ELSE Goto(j, "refused") /\ admission' = Without(admission, j)
            /\ UNCHANGED reserved
    /\ UNCHANGED <<recordVars, agent, up, open, tracked, requested, waitVars, verdict, bound, killed, opVars, pins, faultVars>>

CreateRecord(j) ==
    /\ pc[j] = "creating"
    /\ status' = [status EXCEPT ![j] = "queued"]
    /\ born' = Append(born, j)
    /\ Goto(j, "created")
    /\ UNCHANGED <<told, agent, up, open, runnerVars, lineVars, verdict, bound,
                   killed, opVars, pins, faultVars>>

Submit(j) ==
    /\ pc[j] = "created"
    /\ reserved' = reserved - 1
    /\ tracked' = tracked \cup {j}
    /\ admission' = Without(admission, j)
    /\ ready' = Append(ready, j)
    /\ Goto(j, "unstarted")
    /\ UNCHANGED <<recordVars, agent, up, open, requested, orders, slots,
                   verdict, bound, killed, opVars, pins, faultVars>>

(* reserve()'s `finally`.                                                  *)
Unreserve(j) == reserved' = IF pc[j] = "ask" THEN reserved ELSE reserved - 1

(* The caller is cancelled while it waits, or its insert fails; a record   *)
(* that was already committed stays queued with nobody to run it.          *)
LoseCaller(j) ==
    /\ pc[j] \in Callers
    /\ Unreserve(j)
    /\ admission' = Without(admission, j)
    /\ Goto(j, "refused")
    /\ UNCHANGED <<recordVars, agent, up, open, tracked, requested, waitVars, verdict, bound, killed, opVars, pins, faultVars>>

-----------------------------------------------------------------------------
(* The worker: _run or _run_message, and execute.                          *)

Runs(j, place) == pc[j] = place /\ j \notin killed

(* create_task: the event loop enters new workers in order of submission.  *)
NextReady(j) == InFront(ready, j) /\ ready' = Tail(ready)

(* The first step requires the store (a stopped service has none) and      *)
(* enters the order of its key.                                            *)
BeginWork(j) ==
    /\ Runs(j, "unstarted") /\ NextReady(j)
    /\ \/ ~open /\ Goto(j, "over") /\ UNCHANGED <<orders, slots>>
       \/ /\ open /\ KeyOf(j) = None
          /\ Goto(j, "slot") /\ slots' = Append(slots, j)
          /\ UNCHANGED orders
       \/ /\ open /\ KeyOf(j) # None
          /\ Goto(j, "order")
          /\ orders' = [orders EXCEPT ![KeyOf(j)] = Append(@, j)]
          /\ UNCHANGED slots
    /\ UNCHANGED <<recordVars, agent, up, open, runnerVars, admission, verdict,
                   bound, killed, opVars, pins, faultVars>>

(* Mutant: the order lock is made anew for every user.                     *)
BugMyTurn(j) == TRUE
MyTurn(j) == InFront(orders[KeyOf(j)], j)

QueueForSlot(j) ==
    /\ Runs(j, "order") /\ MyTurn(j)
    /\ Goto(j, "slot") /\ slots' = Append(slots, j)
    /\ UNCHANGED <<recordVars, agent, up, open, runnerVars, ready, orders, admission,
                   verdict, bound, killed, opVars, pins, faultVars>>

(* With a slot, start() begins: a task's update is under way, a message    *)
(* asks for the admission lock.                                            *)
TakeSlot(j) ==
    /\ Runs(j, "slot") /\ HasSlot(j)
    /\ IF j \in Tasks
       THEN Goto(j, "starting") /\ UNCHANGED admission
       ELSE Goto(j, "admit") /\ admission' = Append(admission, j)
    /\ UNCHANGED <<recordVars, agent, up, open, runnerVars, waitVars,
                   verdict, bound, killed, opVars, pins, faultVars>>

(* The worker's end begins to be recorded: everything it held is released. *)
RecordEnd(j, end) ==
    /\ Goto(j, "ending")
    /\ verdict' = [verdict EXCEPT ![j] = end]
    /\ LeaveLines(j)

(* Mutant: the agent is read outside the admission lock.                   *)
BugKeepAdmission(j) == admission' = Without(admission, j)
KeepAdmission(j) == UNCHANGED admission

(* The request a message runs with: its agent's session and config now.    *)
Bound(a) == [session |-> agent[a].session, config |-> agent[a].config]

(* The agent is read under admission; a stopped one ends the message as    *)
(* its stop would have.                                                    *)
ReadAgent(j) ==
    /\ Runs(j, "admit") /\ InFront(admission, j)
    /\ \/ /\ Active(AgentOf[j])
          /\ bound' = [bound EXCEPT ![j] = Bound(AgentOf[j])]
          /\ Goto(j, "starting") /\ KeepAdmission(j)
          /\ UNCHANGED <<waitVars, verdict, requested>>
       \/ /\ ~Active(AgentOf[j])
          /\ requested' = requested \cup {j}
          /\ RecordEnd(j, "cancelled") /\ UNCHANGED bound
    /\ UNCHANGED <<recordVars, agent, up, open, reserved, tracked, killed,
                   opVars, pins, faultVars>>

(* update(only_from=("queued",), status="running") commits, and returns.   *)
CommitStart(j) ==
    /\ Runs(j, "starting")
    /\ IF status[j] = "queued"
       THEN Goto(j, "started") /\ status' = [status EXCEPT ![j] = "running"]
       ELSE Goto(j, "missed") /\ UNCHANGED status
    /\ UNCHANGED <<told, born, agent, up, open, runnerVars, lineVars, verdict,
                   bound, killed, opVars, pins, faultVars>>

StartTurn(j) ==
    /\ Runs(j, "started")
    /\ Goto(j, "turn") /\ admission' = Without(admission, j)
    /\ UNCHANGED <<recordVars, agent, up, open, runnerVars, waitVars,
                   verdict, bound, killed, opVars, pins, faultVars>>

(* It ended before it could start; its end was recorded then.              *)
MissStart(j) ==
    /\ Runs(j, "missed")
    /\ Goto(j, "over") /\ LeaveLines(j) /\ Forget(j)
    /\ UNCHANGED <<recordVars, agent, up, open, reserved, verdict, bound,
                   killed, opVars, pins, faultVars>>

(* run_message answers, or it fails, asks for the host or runs out of time.*)
EndTurn(j) ==
    /\ Runs(j, "turn")
    /\ \E end \in {"done", "failed"} : RecordEnd(j, end)
    /\ UNCHANGED <<recordVars, agent, up, open, runnerVars, bound, killed,
                   opVars, pins, faultVars>>

(* update(only_from=_UNFINISHED, status=verdict) commits, and returns.     *)
CommitEnd(j) ==
    /\ Runs(j, "ending")
    /\ IF MayEnd(j)
       THEN Goto(j, "ended") /\ status' = [status EXCEPT ![j] = verdict[j]]
       ELSE Goto(j, "lapsed") /\ UNCHANGED status
    /\ UNCHANGED <<told, born, agent, up, open, runnerVars, lineVars, verdict,
                   bound, killed, opVars, pins, faultVars>>

Announce(j) == told' = IF pc[j] = "ended"
                       THEN [told EXCEPT ![j] = Append(@, verdict[j])]
                       ELSE told

FinishWork(j) ==
    /\ Runs(j, "ended") \/ Runs(j, "lapsed")
    /\ Goto(j, "over") /\ Forget(j) /\ Announce(j)
    /\ UNCHANGED <<status, born, agent, up, open, reserved, lineVars, verdict,
                   bound, killed, opVars, pins, faultVars>>

(* The database refuses a write of the worker: the handler of Exception    *)
(* records a failure, and a failure inside a handler leaves the worker.    *)
FailWrite(j) ==
    /\ faults < MaxFaults /\ faults' = faults + 1
    /\ \/ /\ Runs(j, "starting") \/ (Runs(j, "ending") /\ verdict[j] = "done")
          /\ RecordEnd(j, "failed") /\ UNCHANGED runnerVars
       \/ /\ Runs(j, "ending") /\ verdict[j] # "done"
          /\ Goto(j, "over") /\ Forget(j)
          /\ UNCHANGED <<reserved, lineVars, verdict>>
    /\ UNCHANGED <<recordVars, agent, up, open, bound, killed, opVars, pins,
                   crashes, others>>

(* CancelledError is thrown into the worker.  A worker that never ran is   *)
(* not entered when the event loop comes to it; `except CancelledError`    *)
(* records the end of one that did run; one that was already in a handler  *)
(* leaves through `finally`.                                               *)
Killed(j) ==
    /\ j \in killed /\ killed' = killed \ {j}
    /\ \/ /\ pc[j] = "unstarted" /\ NextReady(j)
          /\ Goto(j, "over")
          /\ UNCHANGED <<orders, slots, admission, verdict, runnerVars>>
       \/ /\ \/ pc[j] \in {"order", "slot"} \cup SlotPlaces
             \/ pc[j] \in {"ending", "ended", "lapsed"} /\ verdict[j] = "done"
          /\ RecordEnd(j, IF j \in requested THEN "cancelled" ELSE "interrupted")
          /\ UNCHANGED runnerVars
       \/ /\ pc[j] \in {"ending", "ended", "lapsed"} /\ verdict[j] # "done"
          /\ Goto(j, "over") /\ Forget(j)
          /\ UNCHANGED <<reserved, lineVars, verdict>>
    /\ UNCHANGED <<recordVars, agent, up, open, bound, opVars, pins, faultVars>>

-----------------------------------------------------------------------------
(* Requests.  worker.cancel() on a worker that has not ended.              *)
Kill(js) == killed' = killed \cup {j \in js : pc[j] # "over"}

(* TaskService.cancel: a record that is finished is returned as it is.     *)
AskCancel(o) ==
    /\ OpKind[o] = "cancel" /\ opc[o] = "idle" /\ open
    /\ status[Target[o]] # "absent"
    /\ OpGoto(o, IF status[Target[o]] \in Ends THEN "done" ELSE "cancelling")
    /\ todo' = [todo EXCEPT ![o] = {Target[o]}]
    /\ UNCHANGED <<recordVars, agent, up, open, runnerVars, lineVars,
                   workerVars, killed, victim, pins, faultVars>>

(* BackgroundTurnRunner.cancel, for one of those to cancel.                *)
CancelNext(o) ==
    /\ opc[o] = "cancelling"
    /\ \E j \in todo[o] :
          /\ todo' = [todo EXCEPT ![o] = @ \ {j}]
          /\ IF j \in tracked
             THEN /\ requested' = requested \cup {j}
                  /\ Kill({j})
                  /\ victim' = [victim EXCEPT ![o] = j]
                  /\ OpGoto(o, "await")
             ELSE UNCHANGED <<requested, killed, victim, opc>>
    /\ UNCHANGED <<recordVars, agent, up, open, reserved, tracked, lineVars,
                   workerVars, pins, faultVars>>

(* BackgroundTurnRunner.stop cancels every worker, then awaits each.       *)
Shutdown(o) ==
    /\ OpKind[o] = "shutdown" /\ opc[o] = "idle" /\ open
    /\ Kill(tracked)
    /\ todo' = [todo EXCEPT ![o] = tracked]
    /\ OpGoto(o, "draining")
    /\ UNCHANGED <<recordVars, agent, up, open, runnerVars, lineVars,
                   workerVars, victim, pins, faultVars>>

DrainNext(o) ==
    /\ opc[o] = "draining"
    /\ \E j \in todo[o] :
          /\ todo' = [todo EXCEPT ![o] = @ \ {j}]
          /\ victim' = [victim EXCEPT ![o] = j]
          /\ OpGoto(o, "await")
    /\ UNCHANGED <<recordVars, agent, up, open, runnerVars, lineVars,
                   workerVars, killed, pins, faultVars>>

Resumes(o) == IF OpKind[o] = "shutdown" THEN "draining" ELSE "cancelling"

(* Mutant: a worker that was never entered is taken for one that finished. *)
BugNeverEntered(j) == FALSE
NeverEntered(j) == j \in tracked

(* The awaited worker has ended; one that was never entered is still       *)
(* tracked, and _finish_unstarted does its work.                           *)
AwaitWorker(o) ==
    /\ opc[o] = "await" /\ pc[victim[o]] = "over"
    /\ IF NeverEntered(victim[o])
       THEN Forget(victim[o]) /\ OpGoto(o, "closing")
       ELSE UNCHANGED <<tracked, requested>> /\ OpGoto(o, Resumes(o))
    /\ UNCHANGED <<recordVars, agent, up, open, reserved, lineVars, workerVars,
                   killed, todo, victim, pins, faultVars>>

FinishUnstarted(o) ==
    /\ opc[o] = "closing"
    /\ LET j   == victim[o]
           end == IF OpKind[o] = "shutdown" THEN "interrupted" ELSE "cancelled"
       IN IF MayEnd(j)
          THEN /\ status' = [status EXCEPT ![j] = end]
               /\ told' = [told EXCEPT ![j] = Append(@, end)]
          ELSE UNCHANGED <<status, told>>
    /\ OpGoto(o, Resumes(o))
    /\ UNCHANGED <<born, agent, up, open, runnerVars, lineVars, workerVars,
                   killed, todo, victim, pins, faultVars>>

(* Nobody is left: a cancel returns, a stopped agent's session loses its   *)
(* pin, and a service that stopped has no store.                           *)
FinishOp(o) ==
    /\ opc[o] \in {"cancelling", "draining"} /\ todo[o] = {}
    /\ OpGoto(o, "done")
    /\ open' = (open /\ OpKind[o] # "shutdown")
    /\ pins' = IF OpKind[o] = "stop"
               THEN [pins EXCEPT ![agent[Target[o]].session] = @ - 1]
               ELSE pins
    /\ UNCHANGED <<recordVars, agent, up, runnerVars, lineVars, workerVars,
                   killed, todo, victim, faultVars>>

(* The agent operations: under admission they read, check and write.       *)
AgentOps == Ops \ (OfKind("cancel") \cup OfKind("shutdown"))

AskAgent(o) ==
    /\ o \in AgentOps /\ opc[o] = "idle" /\ open
    /\ OpGoto(o, "admit") /\ admission' = Append(admission, o)
    /\ UNCHANGED <<recordVars, agent, up, open, runnerVars, waitVars,
                   workerVars, killed, todo, victim, pins, faultVars>>

(* _check_free: no active agent uses the session, or the identity.         *)
SessionFree(s) == \A a \in Agents : Active(a) => agent[a].session # s

IdentityFree(i) == \A a \in Agents : Active(a) => IdentityOf[a] # i

(* Whether the operation goes on after its checks, made under admission.   *)
MayAct(o) ==
    LET a == Target[o] IN
    CASE OpKind[o] = "start" -> agent[a].status = "absent"
                                /\ IdentityFree(IdentityOf[a])
                                /\ SessionFree(Home[a])
      [] OpKind[o] = "move"  -> Active(a) /\ SessionFree(Goal[o])
      [] OTHER               -> Active(a)

CheckAgent(o) ==
    /\ opc[o] = "admit" /\ InFront(admission, o)
    /\ IF MayAct(o)
       THEN OpGoto(o, "acting") /\ UNCHANGED admission
       ELSE OpGoto(o, "done") /\ admission' = Without(admission, o)
    /\ UNCHANGED <<recordVars, agent, up, open, runnerVars, waitVars,
                   workerVars, killed, todo, victim, pins, faultVars>>

StartAgent(o) ==
    /\ OpKind[o] = "start" /\ opc[o] = "acting"
    /\ agent' = [agent EXCEPT ![Target[o]].status = "active"]
    /\ pins' = [pins EXCEPT ![Home[Target[o]]] = @ + 1]
    /\ OpGoto(o, "done") /\ admission' = Without(admission, o)
    /\ UNCHANGED <<recordVars, up, open, runnerVars, waitVars, workerVars,
                   killed, todo, victim, faultVars>>

(* Mutant: the session that is left keeps its pin.                         *)
BugSwapPins(old, new) == pins' = [pins EXCEPT ![new] = @ + 1]
SwapPins(old, new) == pins' = [[pins EXCEPT ![new] = @ + 1] EXCEPT ![old] = @ - 1]

MoveAgent(o) ==
    /\ OpKind[o] = "move" /\ opc[o] = "acting"
    /\ agent' = [agent EXCEPT ![Target[o]].session = Goal[o]]
    /\ SwapPins(agent[Target[o]].session, Goal[o])
    /\ OpGoto(o, "done") /\ admission' = Without(admission, o)
    /\ UNCHANGED <<recordVars, up, open, runnerVars, waitVars, workerVars,
                   killed, todo, victim, faultVars>>

(* configure_agent merges its fields into the config it read.              *)
ConfigureAgent(o) ==
    /\ OpKind[o] = "configure" /\ opc[o] = "acting"
    /\ agent' = [agent EXCEPT ![Target[o]].config = @ \cup {o}]
    /\ OpGoto(o, "done") /\ admission' = Without(admission, o)
    /\ UNCHANGED <<recordVars, up, open, runnerVars, waitVars, workerVars,
                   killed, todo, victim, pins, faultVars>>

(* Mutant: only the running message of the agent is cancelled.             *)
BugWorkOf(a) == {j \in tracked : AgentOf[j] = a /\ pc[j] = "turn"}
(* cancel_agent: every message of the agent, as of now.                    *)
WorkOf(a) == {j \in tracked : AgentOf[j] = a}

(* stop_agent: the record, then every message queued or running for it.    *)
StopAgent(o) ==
    /\ OpKind[o] = "stop" /\ opc[o] = "acting"
    /\ agent' = [agent EXCEPT ![Target[o]].status = "stopped"]
    /\ todo' = [todo EXCEPT ![o] = WorkOf(Target[o])]
    /\ OpGoto(o, "cancelling") /\ admission' = Without(admission, o)
    /\ UNCHANGED <<recordVars, up, open, runnerVars, waitVars, workerVars,
                   killed, victim, pins, faultVars>>

-----------------------------------------------------------------------------
(* TaskService.start, here or in another runtime on the same database:     *)
(* mark_unfinished, and the end of each record it changed is published.    *)
Recover ==
    /\ status' = [j \in Jobs |-> IF status[j] \in Unfinished
                                 THEN "interrupted" ELSE status[j]]
    /\ told' = [j \in Jobs |-> IF status[j] \in Unfinished
                               THEN Append(told[j], "interrupted") ELSE told[j]]

OtherStarts ==
    /\ others < MaxOthers /\ others' = others + 1
    /\ Recover
    /\ UNCHANGED <<born, agent, up, open, runnerVars, lineVars, workerVars,
                   killed, opVars, pins, crashes, faults>>

(* The process dies, or exits after its services stopped.                  *)
Crash ==
    /\ up /\ crashes < MaxCrashes /\ crashes' = crashes + 1
    /\ up' = FALSE /\ open' = FALSE
    /\ reserved' = 0 /\ tracked' = {} /\ requested' = {} /\ killed' = {}
    /\ ready' = <<>>
    /\ orders' = [k \in Keys |-> <<>>] /\ slots' = <<>> /\ admission' = <<>>
    /\ pc' = [j \in Jobs |-> IF pc[j] = "idle" THEN "idle" ELSE "over"]
    /\ opc' = [o \in Ops |-> IF opc[o] = "idle" THEN "idle" ELSE "done"]
    /\ todo' = [o \in Ops |-> {}] /\ victim' = [o \in Ops |-> None]
    /\ pins' = [s \in Sessions |-> 0]
    /\ UNCHANGED <<recordVars, agent, verdict, bound, others, faults>>

Restart ==
    /\ ~up /\ up' = TRUE /\ open' = TRUE
    /\ Recover
    /\ pins' = [s \in Sessions |-> Cardinality({a \in Agents :
                                  Active(a) /\ agent[a].session = s})]
    /\ UNCHANGED <<born, agent, runnerVars, lineVars, workerVars, killed,
                   opVars, faultVars>>

-----------------------------------------------------------------------------
CallerStep(j) == \/ AskTask(j) \/ AskMessage(j) \/ AcceptMessage(j)
                 \/ CreateRecord(j) \/ Submit(j)
WorkerStep(j) == \/ BeginWork(j) \/ QueueForSlot(j) \/ TakeSlot(j)
                 \/ ReadAgent(j) \/ CommitStart(j) \/ StartTurn(j)
                 \/ MissStart(j) \/ EndTurn(j) \/ CommitEnd(j)
                 \/ FinishWork(j) \/ Killed(j)
OpStep(o)     == \/ CancelNext(o) \/ DrainNext(o) \/ AwaitWorker(o)
                 \/ FinishUnstarted(o) \/ FinishOp(o) \/ CheckAgent(o)
                 \/ StartAgent(o) \/ MoveAgent(o) \/ ConfigureAgent(o)
                 \/ StopAgent(o)
OpArrives(o)  == AskCancel(o) \/ AskAgent(o) \/ Shutdown(o)

Next == \/ \E j \in Jobs : \/ CallerStep(j) \/ LoseCaller(j)
                           \/ WorkerStep(j) \/ FailWrite(j)
        \/ \E o \in Ops : OpArrives(o) \/ OpStep(o)
        \/ OtherStarts \/ Crash \/ Restart

Spec == Init /\ [][Next]_vars

(* The event loop runs every ready task, a turn ends by timeout_seconds,   *)
(* and the database answers.  No request is forced to arrive.              *)
Fairness ==
    /\ \A j \in Jobs : /\ WF_vars(WorkerStep(j))
                       /\ WF_vars(AcceptMessage(j) \/ CreateRecord(j) \/ Submit(j))
    /\ \A o \in Ops : WF_vars(OpStep(o))

FairSpec == Spec /\ Fairness

-----------------------------------------------------------------------------
(* Properties.                                                             *)

(* The values each variable takes.                                         *)
TypeOK ==
    /\ status \in [Jobs -> Statuses] /\ told \in [Jobs -> Seq(Ends)]
    /\ born \in Seq(Jobs)
    /\ agent \in [Agents -> [status : {"absent", "active", "stopped"},
                            session : Sessions, config : SUBSET Ops]]
    /\ up \in BOOLEAN /\ open \in BOOLEAN
    /\ reserved \in Nat /\ tracked \subseteq Jobs /\ requested \subseteq Jobs
    /\ ready \in Seq(Jobs) /\ orders \in [Keys -> Seq(Jobs)] /\ slots \in Seq(Jobs)
    /\ admission \in Seq(Jobs \cup Ops)
    /\ pc \in [Jobs -> Places]
    /\ verdict \in [Jobs -> Ends \cup {None}]
    /\ bound \in [Jobs -> [session : Sessions \cup {None}, config : SUBSET Ops]]
    /\ killed \subseteq Jobs
    /\ opc \in [Ops -> {"idle", "admit", "acting", "cancelling", "draining",
                        "await", "closing", "done"}]
    /\ todo \in [Ops -> SUBSET Jobs] /\ victim \in [Ops -> Jobs \cup {None}]
    /\ pins \in [Sessions -> Int]
    /\ {crashes, others, faults} \subseteq Nat

(* "Tasks about the same (profile, subject) run one at a time", and so do  *)
(* the messages of one agent, in the order their records were created: one *)
(* that runs has no older message of the agent still ahead of its turn,    *)
(* however workers enter and are cancelled.                                *)
TurnsInOrder ==
    /\ \A i, j \in Jobs : i # j /\ KeyOf(i) = KeyOf(j) /\ KeyOf(i) # None =>
           ~(pc[i] \in SlotPlaces /\ pc[j] \in SlotPlaces)
    /\ \A m, n \in DOMAIN born :
           LET i == born[m]  j == born[n] IN
           m < n /\ KeyOf(i) = KeyOf(j) /\ i \in Messages /\ pc[j] \in SlotPlaces =>
               pc[i] \notin Callers \cup {"unstarted", "order", "slot"}

(* "at most max_concurrent run at once", messages and tasks together, and  *)
(* max_waiting bounds what is queued and running with what is being        *)
(* created, over every interleaving of the callers' inserts; and a place   *)
(* in the queue is never lost: whatever is counted has a worker or a       *)
(* request that will take it out.                                          *)
CapacityKept ==
    /\ Cardinality({j \in Jobs : pc[j] \in SlotPlaces}) <= MaxConcurrent
    /\ Cardinality(tracked) + reserved <= MaxWaiting
    /\ open => \A j \in tracked :
                 \/ pc[j] \in Workers
                 \/ \E o \in Ops : victim[o] = j /\ opc[o] = "await"
                 \/ \E o \in OfKind("shutdown") : j \in todo[o]

(* Once stop_agent has returned, none of the agent's messages is queued or *)
(* running in this process, and none is ever accepted again.               *)
Stopping(o) == OpKind[o] = "stop" /\ opc[o] \in {"cancelling", "await", "closing"}
StoppedAgentsAreSilent ==
    \A a \in Agents :
        agent[a].status = "stopped" /\ (\A o \in Ops : Target[o] = a => ~Stopping(o)) =>
            \A j \in Messages : AgentOf[j] = a =>
                pc[j] \in {"idle", "ask", "refused", "over", "ending", "ended", "lapsed"}

(* "messages that start from now on run there": from the moment it reads   *)
(* its agent until its turn starts, the agent is active and has the session *)
(* and the config the turn will run with, whoever moves, configures or     *)
(* stops agents meanwhile.                                                 *)
StartsAsItsAgentIs ==
    \A j \in Messages : pc[j] \in {"starting", "started"} =>
        Active(AgentOf[j]) /\ bound[j] = Bound(AgentOf[j])

(* Two active agents never share a session or a (profile, subject), though *)
(* starts and moves check and write in several steps; and a session is     *)
(* pinned in the cache exactly while an active agent uses it or a stop has *)
(* still to give the pin back.                                             *)
SessionsBelong ==
    /\ \A a, b \in Agents : a # b /\ Active(a) /\ Active(b) =>
           agent[a].session # agent[b].session /\ IdentityOf[a] # IdentityOf[b]
    /\ up => \A s \in Sessions : pins[s] =
           Cardinality({a \in Agents : Active(a) /\ agent[a].session = s})
           + Cardinality({o \in Ops : Stopping(o) /\ agent[Target[o]].session = s})

(* An agent's owner is obeyed: a stop silences it, its work starts as the  *)
(* agent is by then, and what the agent has is nobody else's.              *)
AgentsObeyed == StoppedAgentsAreSilent /\ StartsAsItsAgentIs /\ SessionsBelong

(* Records live as TaskLife says.                                          *)
Life == INSTANCE TaskLife
KeepsItsPromise == Life!Spec

(* What was accepted ends and every request is answered, whatever is       *)
(* cancelled, moved or stopped: no line of waiters is ever stuck behind a  *)
(* worker that left.                                                       *)
NobodyIsStuck ==
    /\ \A j \in Jobs : pc[j] = "unstarted" ~> pc[j] = "over"
    /\ \A o \in Ops : opc[o] # "idle" ~> opc[o] = "done"

(* "Cancel a queued or running background turn and wait until its end is   *)
(* recorded": when cancel has returned and the worker is gone, the record  *)
(* is finished or somebody is still about to finish it.                    *)
CancelRecorded ==
    \A o \in OfKind("cancel") :
        opc[o] = "done" /\ pc[Target[o]] = "over" /\ crashes = 0 =>
            \/ status[Target[o]] \notin Unfinished
            \/ \E p \in Ops : victim[p] = Target[o] /\ opc[p] \in {"await", "closing"}
=============================================================================
