---------------------------- MODULE HostActions ----------------------------
(***************************************************************************)
(* The life of host-tool calls in one session: what the rows hold, what    *)
(* the cache holds, and how turns, retries, cancellation, failing writes,  *)
(* an operator's repair and a crash move them.  This is _host_tool.py, the *)
(* planning of a turn in _turn.py, the persistence points of TurnRunner    *)
(* (_runner.py, _snapshot.py) and the pending-action part of SessionStore. *)
(*                                                                         *)
(* The turn slot (SessionAdmission) lets one turn run at a time, so one    *)
(* set of variables describes the running turn.  An assistant message is   *)
(* named by the request whose turn created it; its content is the outcome  *)
(* of each call made in it.  A database write is two actions: the commit,  *)
(* and what the code does when the await returns.                          *)
(***************************************************************************)
EXTENDS Integers

CONSTANTS
    Calls,      \* ids of host-tool calls the model may make
    Requests,   \* requests on the session, each made once
    Kind,       \* [Requests -> Kinds]
    CallOf,     \* [Requests -> Calls \cup {None}]: the call a result answers
    Batches,    \* the sets of calls one model response may ask for
    Place,      \* [Calls -> Nat]: the order in which responses name the calls
    MaxCrashes, \* bound: how often the process dies and restarts
    MaxFaults   \* bound: how many writes raise

None == "none"

(* "message" is a user message, "result" a continuation, "receipt" one     *)
(* that inherits output_mode host_tools, "release" a voice call that hands *)
(* the session back, "repair" the repair route.                            *)
Kinds == {"message", "result", "receipt", "steering", "release", "repair"}
Results == {r \in Requests : Kind[r] \in {"result", "receipt"}}
Repairs == {r \in Requests : Kind[r] = "repair"}
Turns   == Requests \ Repairs

ASSUME RequestsAssumption == /\ None \notin Requests \cup Calls
                             /\ Kind \in [Requests -> Kinds]
                             /\ CallOf \in [Requests -> Calls \cup {None}]
                             /\ \A r \in Results : CallOf[r] \in Calls
ASSUME BatchesAssumption ==
    /\ Batches \subseteq SUBSET Calls /\ {} \notin Batches
    /\ Place \in [Calls -> Nat]
    /\ \A c, d \in Calls : Place[c] = Place[d] => c = d
ASSUME BoundsAssumption == MaxCrashes \in Nat /\ MaxFaults \in Nat

(* A call is absent from the row, open (no output), or resolved; "result"  *)
(* stands for completed and failed.                                        *)
Resolved == {"result", "superseded", "cancelled", "unknown"}
Outcomes == {"absent", "open"} \cup Resolved
NoPending == [call |-> None, batch |-> {}]

(* The call of a batch, or of what is left of it, that the host is asked   *)
(* for next: a model makes each call once, so the order of a response is   *)
(* one of its calls.                                                       *)
First(batch) == {c \in batch : \A d \in batch : Place[c] <= Place[d]}

VARIABLES
    row, rowPending,            \* the message rows and sessions.pending_action
    said,                       \* the session has an active leaf
    cached, mem, memPending,    \* the context in SessionStore._sessions
    home,                       \* the assistant message each call was made in
    turn,                       \* the request whose turn has the slot
    phase, step,                \* where its code is: see Places
    message,                    \* its assistant message
    seen,                       \* RunSnapshot: outcomes in its messages
    rest,                       \* remaining (next_pending) of its plan
    ask,                        \* DeferredToolRequests of its last run
    stopping,                   \* its cancellation token
    pc,                         \* what became of each request
    touched, stale,             \* what a repair has still to write
    handed,                     \* calls given to the host to perform
    crashes, faults

rowVars   == <<row, rowPending, said>>
cacheVars == <<cached, mem, memPending>>
runVars   == <<message, seen, rest, ask>>
fixVars   == <<touched, stale>>
boundVars == <<crashes, faults>>
vars == <<rowVars, cacheVars, home, turn, phase, step, runVars, stopping, pc,
          fixVars, handed, boundVars>>

(* phase: why the running turn writes.  step: "write" awaits the commit of *)
(* a message row and "publish" has it, "drop" and "set" await that of the  *)
(* pending action, "after" has it.                                         *)
Phases == {"none", "plan", "accept", "save", "close"}
Steps  == {"none", "plan", "write", "publish", "drop", "after", "model", "set", "hand"}

Nothing == [c \in Calls |-> "absent"]

Init ==
    /\ row = Nothing /\ rowPending = NoPending /\ said = FALSE
    /\ cached = FALSE /\ mem = Nothing /\ memPending = NoPending
    /\ home = [c \in Calls |-> None]
    /\ turn = None /\ phase = "none" /\ step = "none"
    /\ message = None /\ seen = Nothing /\ rest = {} /\ ask = {}
    /\ stopping = FALSE
    /\ pc = [r \in Requests |-> "idle"]
    /\ touched = {} /\ stale = Nothing
    /\ handed = {}
    /\ crashes = 0 /\ faults = 0

(* The calls of message m take the outcomes of `new`, the others keep.     *)
Overlay(old, new, m) == [c \in Calls |-> IF home[c] = m THEN new[c] ELSE old[c]]
(* resolve_tool_entry on the open calls of cs.                             *)
Resolve(f, cs, status) ==
    [c \in Calls |-> IF c \in cs /\ f[c] = "open" THEN status ELSE f[c]]

-----------------------------------------------------------------------------
(* Hydration: _load_session_singleflight, on the first use after a start.  *)

(* Mutant: the row's action is taken without looking at its message.       *)
BugRestorable == rowPending # NoPending
Restorable == rowPending # NoPending /\ row[rowPending.call] = "open"
Kept  == IF Restorable THEN rowPending.batch ELSE {}
Stale == {c \in Calls : row[c] = "open"} \ Kept

(* Calls that nobody can answer any more become unknown, on the rows.      *)
RepairRows ==
    /\ ~cached /\ Stale # {}
    /\ row' = Resolve(row, Stale, "unknown")
    /\ UNCHANGED <<rowPending, said, cacheVars, home, turn, phase, step, runVars,
                   stopping, pc, fixVars, handed, boundVars>>

(* The context is published; a stored action that its message has already  *)
(* resolved is dropped from the row too.                                   *)
Hydrate ==
    /\ ~cached /\ Stale = {}
    /\ cached' = TRUE /\ mem' = row
    /\ memPending' = IF Restorable
                     THEN [rowPending EXCEPT !.batch = {c \in @ : row[c] # "absent"}]
                     ELSE NoPending
    /\ rowPending' = IF Restorable THEN rowPending ELSE NoPending
    /\ UNCHANGED <<row, said, home, turn, phase, step, runVars, stopping, pc,
                   fixVars, handed, boundVars>>

-----------------------------------------------------------------------------
(* Planning (TurnPlanner).                                                 *)

Goto(p, s) == phase' = p /\ step' = s

EndTurn(how) ==
    /\ pc' = [pc EXCEPT ![turn] = how]
    /\ turn' = None /\ Goto("none", "none") /\ stopping' = FALSE
    /\ message' = None /\ seen' = Nothing /\ rest' = {} /\ ask' = {}

(* accept_steering starts a turn of its own only while nothing is pending  *)
(* or running; the turn then waits for the slot like any other.  A turn is *)
(* seen to run (current_assistant_message_id) once it is planned.          *)
AcceptSteering(s) ==
    /\ cached /\ Kind[s] = "steering" /\ pc[s] = "idle" /\ said
    /\ phase \in {"none", "plan"} /\ memPending = NoPending
    /\ pc' = [pc EXCEPT ![s] = "promoted"]
    /\ UNCHANGED <<rowVars, cacheVars, home, turn, phase, step, runVars,
                   stopping, fixVars, handed, boundVars>>

Admit(r) ==
    /\ turn = None /\ r \in Turns
    /\ pc[r] = IF Kind[r] = "steering" THEN "promoted" ELSE "idle"
    /\ turn' = r /\ Goto("plan", "plan")
    /\ pc' = [pc EXCEPT ![r] = "running"]
    /\ UNCHANGED <<rowVars, cacheVars, home, runVars, stopping, fixVars, handed, boundVars>>

Planning(kinds) == turn # None /\ Kind[turn] \in kinds
                   /\ phase = "plan" /\ step = "plan" /\ cached

StaleStatus == IF Kind[turn] = "release" THEN "cancelled" ELSE "superseded"

(* clear_stale_pending_call: the waiting batch is resolved on its message  *)
(* before the new message is written.                                      *)
ClearStale ==
    /\ Planning({"message", "release"}) /\ memPending # NoPending
    /\ message' = home[memPending.call]
    /\ seen' = Resolve(mem, memPending.batch \cup {memPending.call}, StaleStatus)
    /\ Goto("plan", "write")
    /\ UNCHANGED <<rowVars, cacheVars, home, turn, rest, ask, stopping, pc,
                   fixVars, handed, boundVars>>

(* Mutant: a new message leaves the waiting call alone.                    *)
BugNothingStale ==
    /\ Planning({"message", "release"})
    /\ Goto("plan", "after")
    /\ UNCHANGED <<rowVars, cacheVars, home, turn, runVars, stopping, pc,
                   fixVars, handed, boundVars>>

NothingStale ==
    /\ Planning({"message", "release"}) /\ memPending = NoPending
    /\ Goto("plan", "after")
    /\ UNCHANGED <<rowVars, cacheVars, home, turn, runVars, stopping, pc,
                   fixVars, handed, boundVars>>

(* _plan_continuation: a result is taken for the pending call, while its   *)
(* entry has no output, and never otherwise.                               *)
Answerable(c) == mem[c] \notin Resolved /\ memPending.call = c

(* Mutant: the rest of the batch is forgotten.                             *)
BugRemaining == {}
Remaining == {c \in memPending.batch : c # memPending.call /\ mem[c] = "open"}

PlanResult ==
    /\ Planning({"result", "receipt"}) /\ Answerable(CallOf[turn])
    /\ message' = home[CallOf[turn]]
    /\ seen' = [mem EXCEPT ![CallOf[turn]] = "result"]
    /\ rest' = Remaining /\ ask' = memPending.batch
    /\ Goto("accept", "write")
    /\ UNCHANGED <<rowVars, cacheVars, home, turn, stopping, pc, fixVars, handed, boundVars>>

RejectResult ==
    /\ Planning({"result", "receipt"}) /\ ~Answerable(CallOf[turn])
    /\ EndTurn("rejected")
    /\ UNCHANGED <<rowVars, cacheVars, home, fixVars, handed, boundVars>>

(* _plan_steering: rejected when another turn delivered it, else it runs   *)
(* on the active leaf.  It does not look at the pending action.            *)
PlanSteering ==
    /\ Planning({"steering"})
    /\ message' = IF memPending = NoPending THEN turn ELSE home[memPending.call]
    /\ seen' = mem /\ Goto("save", "model")
    /\ UNCHANGED <<rowVars, cacheVars, home, turn, rest, ask, stopping, pc,
                   fixVars, handed, boundVars>>

RejectSteering ==
    /\ Planning({"steering"})
    /\ EndTurn("rejected")
    /\ UNCHANGED <<rowVars, cacheVars, home, fixVars, handed, boundVars>>

-----------------------------------------------------------------------------
(* Persistence points.                                                     *)

(* update_message commits the row and then publishes it to the cache.      *)
(* Mutant: the cache is told of a write that was not made.                 *)
BugCommitRow ==
    /\ turn # None /\ step = "write"
    /\ Goto(phase, "publish")
    /\ UNCHANGED <<rowVars, cacheVars, home, turn, runVars, stopping, pc,
                   fixVars, handed, boundVars>>

CommitRow ==
    /\ turn # None /\ step = "write"
    /\ row' = Overlay(row, seen, message)
    /\ Goto(phase, "publish")
    /\ UNCHANGED <<rowPending, said, cacheVars, home, turn, runVars, stopping, pc,
                   fixVars, handed, boundVars>>

(* Mutant: the answered action stays in memory.                            *)
BugPublishRow ==
    /\ turn # None /\ step = "publish"
    /\ mem' = Overlay(mem, seen, message)
    /\ Goto(phase, IF memPending = NoPending THEN "after" ELSE "drop")
    /\ UNCHANGED <<rowVars, cached, memPending, home, turn, runVars, stopping, pc,
                   fixVars, handed, boundVars>>

(* clear_pending_action forgets the action in memory and then on the row,  *)
(* which is written only when something was pending.                       *)
PublishRow ==
    /\ turn # None /\ step = "publish"
    /\ mem' = Overlay(mem, seen, message)
    /\ memPending' = NoPending
    /\ Goto(phase, IF memPending = NoPending THEN "after" ELSE "drop")
    /\ UNCHANGED <<rowVars, cached, home, turn, runVars, stopping, pc, fixVars, handed, boundVars>>

CommitDrop ==
    /\ turn # None /\ step = "drop"
    /\ rowPending' = memPending
    /\ Goto(phase, "after")
    /\ UNCHANGED <<row, said, cacheVars, home, turn, runVars, stopping, pc, fixVars, handed, boundVars>>

(* set_pending_action, in memory first.                                    *)
Wait(batch, c) ==
    /\ memPending' = [call |-> c, batch |-> batch]
    /\ Goto(phase, "set")
    /\ UNCHANGED <<rowVars, cached, mem, home, turn, runVars, stopping, pc,
                   fixVars, handed, boundVars>>

(* register_user_message: the user row holds no call, and its last write   *)
(* saves the session's state.                                              *)
StartRun ==
    /\ step = "after" /\ phase = "plan" /\ Kind[turn] = "message"
    /\ said' = TRUE /\ rowPending' = memPending
    /\ message' = turn /\ seen' = mem
    /\ Goto("save", "model")
    /\ UNCHANGED <<row, cacheVars, home, turn, rest, ask, stopping, pc,
                   fixVars, handed, boundVars>>

(* The model resumes only when the whole batch has its results.            *)
ResumeRun ==
    /\ step = "after" /\ phase = "accept" /\ rest = {} /\ Kind[turn] = "result"
    /\ ~stopping /\ ask' = {}
    /\ Goto("save", "model")
    /\ UNCHANGED <<rowVars, cacheVars, home, turn, message, seen, rest, stopping, pc,
                   fixVars, handed, boundVars>>

(* The next call of the batch waits for its result, without a model run.   *)
WaitForRest ==
    /\ step = "after" /\ phase = "accept"
    /\ \E c \in First(rest) : Wait(ask, c)

(* _take_output on a run that asked for host actions.                      *)
WaitForHost ==
    /\ step = "after" /\ phase = "save"
    /\ \E c \in First(ask) : Wait(ask, c)

CommitSet ==
    /\ turn # None /\ step = "set"
    /\ rowPending' = memPending
    /\ Goto(phase, "hand")
    /\ UNCHANGED <<row, said, cacheVars, home, turn, runVars, stopping, pc, fixVars, handed, boundVars>>

-----------------------------------------------------------------------------
(* The model run and the end of the turn (TurnRunner.run).                 *)

Fresh(batch) == \A c \in batch : home[c] = None

(* Calls the run asked for appear in its messages; a turn that extends a   *)
(* message whose call is open may find it closed by the agent library.     *)
Asked(batch, closed) ==
    /\ home' = [c \in Calls |-> IF c \in batch THEN message ELSE home[c]]
    /\ seen' = [c \in Calls |-> IF c \in batch THEN "open"
                                ELSE IF closed /\ home[c] = message /\ seen[c] = "open"
                                     THEN "superseded" ELSE seen[c]]

ModelAnswers ==
    /\ step = "model" /\ ~stopping
    /\ \E batch \in Batches \cup {{}}, closed \in BOOLEAN :
          /\ Fresh(batch) /\ Asked(batch, closed) /\ ask' = batch
    /\ Goto("save", "write")
    /\ UNCHANGED <<rowVars, cacheVars, turn, message, rest, stopping, pc,
                   fixVars, handed, boundVars>>

(* _persist_cancelled and _resolve_unanswered_calls: what was done is kept *)
(* and every call of the turn left without a result is cancelled.          *)
(* Mutant: calls that have a result are cancelled too.                     *)
BugClosed(f) == [c \in Calls |-> IF home'[c] = message /\ f[c] # "absent"
                                 THEN "cancelled" ELSE f[c]]
Closed(f) == [c \in Calls |-> IF home'[c] = message /\ f[c] = "open"
                              THEN "cancelled" ELSE f[c]]

(* The run is cancelled, times out, meets a usage limit or raises.         *)
ModelStops ==
    /\ step = "model"
    /\ \E batch \in Batches \cup {{}} :
          /\ Fresh(batch)
          /\ home' = [c \in Calls |-> IF c \in batch THEN message ELSE home[c]]
          /\ seen' = Closed([c \in Calls |-> IF c \in batch THEN "open" ELSE seen[c]])
    /\ Goto("close", "write")
    /\ UNCHANGED <<rowVars, cacheVars, turn, message, rest, ask, stopping, pc,
                   fixVars, handed, boundVars>>

(* check_cancelled before the model resumes, and after its output was      *)
(* handled.                                                                *)
CloseLate ==
    /\ stopping
    /\ \/ phase = "save" /\ step = "hand"
       \/ phase = "save" /\ step = "after" /\ ask = {}
       \/ phase = "accept" /\ step = "after" /\ rest = {} /\ Kind[turn] = "result"
    /\ home' = home /\ seen' = Closed(seen) /\ Goto("close", "write")
    /\ UNCHANGED <<rowVars, cacheVars, turn, message, rest, ask, stopping, pc,
                   fixVars, handed, boundVars>>

(* final_response with pending_tool_call: the host is told what to do.     *)
HandOver ==
    /\ step = "hand" /\ (phase = "save" => ~stopping)
    /\ handed' = handed \cup First(IF phase = "accept" THEN rest ELSE ask)
    /\ EndTurn("over")
    /\ UNCHANGED <<rowVars, cacheVars, home, fixVars, boundVars>>

(* Every other end: an answer, a receipt, a release, a closed turn.        *)
FinishTurn ==
    /\ step = "after"
    /\ \/ phase = "close"
       \/ phase = "plan" /\ Kind[turn] = "release"
       \/ phase = "accept" /\ rest = {} /\ Kind[turn] = "receipt"
       \/ phase = "save" /\ ask = {} /\ ~stopping
    /\ EndTurn("over")
    /\ UNCHANGED <<rowVars, cacheVars, home, fixVars, handed, boundVars>>

-----------------------------------------------------------------------------
(* Cancellation, failing writes, repair and the process.                   *)

(* TurnControl.cancel before the plan is complete throws at its await: the *)
(* write under way may have been committed.                                *)
AbortPlan ==
    /\ turn # None /\ phase = "plan" /\ Kind[turn] # "release"
    /\ \/ step = "write" /\ row' = Overlay(row, seen, message) /\ UNCHANGED rowPending
       \/ step = "drop" /\ rowPending' = memPending /\ UNCHANGED row
       \/ UNCHANGED <<row, rowPending>>
    /\ EndTurn("failed")
    /\ UNCHANGED <<said, cacheVars, home, fixVars, handed, boundVars>>

(* TurnControl.cancel while accepting_cancel, seen at the next check.      *)
CancelTurn ==
    /\ turn # None /\ ~stopping /\ phase \in {"accept", "save"}
    /\ ~(phase = "accept" /\ step = "hand")
    /\ stopping' = TRUE
    /\ UNCHANGED <<rowVars, cacheVars, home, turn, phase, step, runVars, pc,
                   fixVars, handed, boundVars>>

(* A write of the running turn raises; it may have been committed.  A plan *)
(* is given up, a run keeps what it did and closes, and a turn that cannot *)
(* save even that ends with persistence_error.                             *)
FailWrite ==
    /\ turn # None /\ faults < MaxFaults /\ faults' = faults + 1
    /\ \/ step = "write" /\ row' \in {row, Overlay(row, seen, message)}
          /\ UNCHANGED rowPending
       \/ step \in {"drop", "set"} /\ rowPending' \in {rowPending, memPending}
          /\ UNCHANGED row
    /\ \/ phase = "plan" /\ EndTurn("failed") /\ home' = home
       \/ phase = "close" /\ EndTurn("unsaved") /\ home' = home
       \/ /\ phase \in {"accept", "save"} /\ home' = home
          /\ seen' = Closed(seen) /\ Goto("close", "write")
          /\ UNCHANGED <<turn, message, rest, ask, stopping, pc>>
    /\ UNCHANGED <<said, cacheVars, fixVars, handed, crashes>>

(* repair_stale_host_tools takes no part in the turn slot.  The pending    *)
(* action goes first, then every open call becomes unknown in memory, then *)
(* on the rows of the messages it touched, as they were at that moment.    *)
BeginRepair(r) ==
    /\ cached /\ r \in Repairs /\ pc[r] = "idle" /\ memPending # NoPending
    /\ pc' = [pc EXCEPT ![r] = "dropping"]
    /\ memPending' = NoPending
    /\ UNCHANGED <<rowVars, cached, mem, home, turn, phase, step, runVars,
                   stopping, fixVars, handed, boundVars>>

DropForRepair(r) ==
    /\ pc[r] = "dropping"
    /\ rowPending' = memPending
    /\ pc' = [pc EXCEPT ![r] = "dropped"]
    /\ UNCHANGED <<row, said, cacheVars, home, turn, phase, step, runVars,
                   stopping, fixVars, handed, boundVars>>

MarkUnknown(r) ==
    /\ r \in Repairs
    /\ \/ pc[r] = "dropped"
       \/ pc[r] = "idle" /\ cached /\ memPending = NoPending
    /\ touched' = {home[c] : c \in {d \in Calls : mem[d] = "open"}}
    /\ mem' = Resolve(mem, Calls, "unknown") /\ stale' = mem'
    /\ pc' = [pc EXCEPT ![r] = "repairing"]
    /\ UNCHANGED <<rowVars, cached, memPending, home, turn, phase, step,
                   runVars, stopping, handed, boundVars>>

CommitRepair(r) ==
    /\ pc[r] = "repairing"
    /\ row' = [c \in Calls |-> IF home[c] \in touched THEN stale[c] ELSE row[c]]
    /\ touched' = {} /\ stale' = Nothing
    /\ pc' = [pc EXCEPT ![r] = "over"]
    /\ UNCHANGED <<rowPending, said, cacheVars, home, turn, phase, step, runVars,
                   stopping, handed, boundVars>>

(* The process dies and starts again: the rows stay, the context and every *)
(* request in progress are gone.                                           *)
Crash ==
    /\ crashes < MaxCrashes /\ crashes' = crashes + 1
    /\ cached' = FALSE /\ mem' = Nothing /\ memPending' = NoPending
    /\ turn' = None /\ Goto("none", "none") /\ stopping' = FALSE
    /\ message' = None /\ seen' = Nothing /\ rest' = {} /\ ask' = {}
    /\ touched' = {} /\ stale' = Nothing
    /\ pc' = [r \in Requests |-> IF pc[r] \in {"running", "promoted", "dropping",
                                             "dropped", "repairing"}
                                 THEN "over" ELSE pc[r]]
    /\ UNCHANGED <<rowVars, home, handed, faults>>

-----------------------------------------------------------------------------
Plan == \/ ClearStale \/ NothingStale \/ PlanResult \/ RejectResult
        \/ PlanSteering \/ RejectSteering
Persist == CommitRow \/ PublishRow \/ CommitDrop \/ CommitSet
Run == \/ StartRun \/ ResumeRun \/ WaitForRest \/ WaitForHost
       \/ ModelAnswers \/ ModelStops \/ CloseLate \/ HandOver \/ FinishTurn
Disturb == AbortPlan \/ CancelTurn \/ FailWrite \/ Crash
Repair(r) == \/ BeginRepair(r) \/ DropForRepair(r) \/ MarkUnknown(r)
             \/ CommitRepair(r)

Next == \/ RepairRows \/ Hydrate
        \/ \E r \in Requests : AcceptSteering(r) \/ Admit(r) \/ Repair(r)
        \/ Plan \/ Persist \/ Run \/ Disturb

Spec == Init /\ [][Next]_vars

-----------------------------------------------------------------------------
(* Properties.                                                             *)

(* The values each variable takes.                                         *)
TypeOK ==
    /\ row \in [Calls -> Outcomes] /\ mem \in [Calls -> Outcomes]
    /\ \A p \in {rowPending, memPending} :
          p = NoPending \/ (p.call \in Calls /\ p.batch \subseteq Calls)
    /\ cached \in BOOLEAN /\ said \in BOOLEAN /\ stopping \in BOOLEAN
    /\ home \in [Calls -> Requests \cup {None}]
    /\ turn \in Turns \cup {None} /\ message \in Requests \cup {None}
    /\ phase \in Phases /\ step \in Steps
    /\ seen \in [Calls -> Outcomes] /\ stale \in [Calls -> Outcomes]
    /\ rest \subseteq Calls /\ ask \subseteq Calls
    /\ pc \in [Requests -> {"idle", "promoted", "running", "over", "rejected", "failed",
                            "unsaved", "dropping", "dropped", "repairing"}]
    /\ touched \subseteq Requests \cup {None} /\ handed \subseteq Calls
    /\ crashes \in Nat /\ faults \in Nat

(* What a reader of the session is told of a call: the cache is            *)
(* authoritative while it is there, the row otherwise.                     *)
View(c) == IF cached THEN mem[c] ELSE row[c]

(* A repair writes rows beside a running turn, and promoted steering runs  *)
(* on a message whose call still waits: some properties are of sessions in *)
(* which neither happened.                                                 *)
Never(kind) == \A r \in Requests : Kind[r] = kind => pc[r] = "idle"

(* "Once a call's result is recorded (whatever its status) ... [it] is     *)
(* never applied twice, in the same process or after a restart": a call    *)
(* that has an outcome keeps it, over retries, cancellations at any point, *)
(* failing writes and crashes.                                             *)
OutcomeIsFinal ==
    [][\A c \in Calls : Never("repair")' /\ View(c) \in Resolved
                         => View(c)' = View(c)]_vars

(* update_message: "Commit an update before publishing it": an outcome the *)
(* process acts on is on the row already.                                  *)
CacheIsDurable ==
    Never("repair") => \A c \in Calls : mem[c] \in Resolved => row[c] = mem[c]

(* Between turns the pending call can be answered, and the calls queued    *)
(* behind it are of the same message.                                      *)
PendingIsAnswerable ==
    Never("repair") /\ cached /\ turn = None /\ memPending # NoPending =>
        /\ mem[memPending.call] = "open"
        /\ \A c \in memPending.batch : home[c] = home[memPending.call]

(* Between turns no call is left without a result and without anybody who  *)
(* may give it one, unless a turn could not save its end.                  *)
NoCallForgotten ==
    /\ Never("repair") /\ Never("steering") /\ cached /\ turn = None
    /\ \A r \in Requests : pc[r] # "unsaved"
    => \A c \in Calls : mem[c] = "open" => c \in memPending.batch

(* "the model resumes once all have results".                              *)
ModelSeesWholeBatch ==
    Never("steering") /\ step = "model" /\ Kind[turn] = "result" =>
        \A c \in Calls : home[c] = message => seen[c] # "open"

(* The host is given one call at a time: whatever it was given is          *)
(* resolved, or is the one call the session waits for.                     *)
OneCallAtATime ==
    Never("repair") /\ Never("steering") /\ cached /\ turn = None =>
        \A c \in handed : mem[c] \in Resolved \/ c = memPending.call

(* Whatever races and failures left behind, a restart heals: the context   *)
(* it loads waits for every call that is still open, the next of them      *)
(* first, and no outcome a row held is changed.                            *)
RestartHeals ==
    [][~cached =>
        /\ cached' => \A c \in Calls : mem'[c] = "open" => c \in memPending'.batch
        /\ cached' /\ memPending' # NoPending => mem'[memPending'.call] = "open"
        /\ \A c \in Calls : row[c] \in Resolved => row'[c] = row[c]]_vars

(* A call the host was asked for is not lost: between turns the pending    *)
(* one and those behind it can be answered, whatever the host was given is *)
(* resolved or pending, and the model sees the outcomes of a whole batch.  *)
CallsKept == /\ PendingIsAnswerable /\ NoCallForgotten
             /\ OneCallAtATime /\ ModelSeesWholeBatch

(* What is decided is kept: no outcome changes, and a restart heals what   *)
(* races and failures left behind.                                         *)
OutcomesStand == OutcomeIsFinal /\ RestartHeals

(* Steering "never cancels anything": an action the host was asked for is  *)
(* not dropped by a steering turn.                                         *)
SteeringKeepsPending ==
    [][memPending.call \in handed /\ memPending' = NoPending /\ cached'
         => turn # None /\ Kind[turn] # "steering"]_vars
=============================================================================
