----------------------------- MODULE VoiceWork -----------------------------
(***************************************************************************)
(* The backend work of one delegated voice call (app/voice): from the      *)
(* moment its sideband is attached to the moment its reservation is given  *)
(* back.  Creating the call and reserving its session are in               *)
(* SessionAdmission.                                                       *)
(*                                                                         *)
(* Four tasks share the call: the reader of the provider's frames          *)
(* (_receive), the worker (_worker) with the turn it runs (_execute), the  *)
(* cancel (_cancel_backend) and the runner that ends the call (_run).      *)
(* Host results and cancels come in as requests.  The sections under       *)
(* control_lock contain no await, so each is one step.  A turn of the      *)
(* session is taken from StreamingService as it is seen from here: it is   *)
(* planned, runs, and ends with a text, a host call, an error, or by       *)
(* cancellation after its cleanup.                                         *)
(***************************************************************************)
EXTENDS Integers, Sequences, FiniteSets

CONSTANTS
    Delegations,    \* delegation ids the provider may create
    Results,        \* tool_result requests, each made once
    AnswerTo,       \* [Results -> 1..MaxAsks]: the host call a result names
    Cancels,        \* cancel_work requests, each made once
    QueueSize,      \* maxsize of VoiceCall.queue
    MaxAsks         \* bound: host calls the turns of the call make

None == "none"

ASSUME ConstantsAssumption ==
    /\ None \notin Delegations \cup Results \cup Cancels
    /\ QueueSize \in Nat \ {0} /\ MaxAsks \in Nat
    /\ AnswerTo \in [Results -> 1..MaxAsks]

VARIABLES
    status,     \* [Delegations -> Statuses]: call.delegations
    active,     \* active_delegation
    pending,    \* which host call waits for its result, or 0
    asked,      \* host calls made so far
    queue,      \* what the worker has to do
    deferred,   \* deferred_delegation
    canceller,  \* whose cancel_task it is
    cancel,     \* [Cancels -> CancelPhases]: _cancel_backend
    previous,   \* [Cancels -> Delegations \cup {None}]: what it cancels
    reply,      \* [Results -> Replies]: the receipt of a result
    recorded,   \* results a turn has saved
    worker,     \* where _worker is
    item,       \* what it works on
    work,       \* where the turn of the item is
    protected,  \* work_continuation
    killed,     \* work.cancelling()
    reader,     \* where _receive is
    runner,     \* where _run is
    stop        \* stop_requested

callVars   == <<status, active, pending, asked>>
cancelVars == <<deferred, canceller, cancel, previous>>
workVars   == <<worker, item, work, protected, killed>>
resultVars == <<reply, recorded>>
vars == <<callVars, queue, cancelVars, workVars, reader, resultVars, runner, stop>>

Unfinished == {"running", "waiting", "pending_host"}
Statuses == Unfinished \cup {None, "superseded", "cancelled", "result_sent",
                             "result_accepted", "result_rejected"}
CancelPhases == {"idle", "barrier", "reached", "refused", "done"}

(* Items of the queue: (ident, request, receipt) of _enqueue.              *)
Task(d) == <<"task", d>>
Result(d, r) == <<"result", d, r>>
Barrier == <<"barrier">>
Sentinel == <<"stop">>
Items == {Task(d) : d \in Delegations} \cup {Barrier, Sentinel}
         \cup {Result(d, r) : d \in Delegations, r \in Results}
IsWork(i) == i[1] \in {"task", "result"}
Subject(i) == IF IsWork(i) THEN i[2] ELSE None
Nothing == <<"none">>

TypeOK ==
    /\ status \in [Delegations -> Statuses]
    /\ {active, deferred} \subseteq Delegations \cup {None}
    /\ pending \in 0..MaxAsks /\ asked \in 0..MaxAsks
    /\ queue \in Seq(Items) /\ Len(queue) <= QueueSize
    /\ canceller \in Cancels \cup {None}
    /\ cancel \in [Cancels -> CancelPhases]
    /\ previous \in [Cancels -> Delegations \cup {None}]
    /\ reply \in [Results -> {None, "waiting", "accepted", "refused"}]
    /\ recorded \subseteq Results
    /\ worker \in {"get", "working", "speak", "done", "dead"}
    /\ item \in Items \cup {Nothing}
    /\ work \in {None, "plan", "run", "drain", "send", "ended", "failed"}
    /\ \A b \in {protected, killed, stop} : b \in BOOLEAN
    /\ reader \in {"read", "speak", "closed", "lost"}
    /\ runner \in {"wait", "closing", "put", "join", "drained", "done"}

Init ==
    /\ status = [d \in Delegations |-> None]
    /\ active = None /\ deferred = None
    /\ pending = 0 /\ asked = 0 /\ queue = <<>>
    /\ canceller = None /\ cancel = [c \in Cancels |-> "idle"]
    /\ previous = [c \in Cancels |-> None]
    /\ reply = [r \in Results |-> None] /\ recorded = {}
    /\ worker = "get" /\ item = Nothing /\ work = None
    /\ protected = FALSE /\ killed = FALSE /\ stop = FALSE
    /\ reader = "read" /\ runner = "wait"

Full == Len(queue) >= QueueSize
Label(d, s) == status' = [status EXCEPT ![d] = s]
Cancelling == canceller # None /\ cancel[canceller] \in {"barrier", "reached", "refused"}
Working == work \in {"plan", "run", "drain", "send"}

(* _cancel_unprotected, if the condition holds.                            *)
BugCancelUnprotected(cond) ==   \* Mutant: protected work too.
    killed' = (killed \/ (cond /\ Working))
CancelUnprotected(cond) == killed' = (killed \/ (cond /\ Working /\ ~protected))

(* What an answer needs: it is the active delegation's, of a running call. *)
BugMayAnswer(d) == ~stop   \* Mutant: whoever's answer it is.
MayAnswer(d) == d = active /\ ~stop

(* The delegation a new one or a cancel puts an end to.                    *)
Old == IF active # None /\ status[active] \in Unfinished THEN active ELSE None

-----------------------------------------------------------------------------
(* The reader.                                                             *)

(* session.delegation.created; an id that is known is ignored.  With a     *)
(* full queue the answer "could not complete" is sent at once.             *)
Delegate(d) ==
    /\ reader = "read" /\ ~stop /\ status[d] = None
    /\ LET new == IF Cancelling THEN "waiting" ELSE IF Full THEN "result_sent" ELSE "running"
       IN /\ status' = [x \in Delegations |->
                          IF x = d THEN new ELSE IF x = Old THEN "superseded" ELSE status[x]]
          /\ queue' = IF new = "running" THEN Append(queue, Task(d)) ELSE queue
          /\ reader' = IF new = "result_sent" THEN "speak" ELSE "read"
    /\ CancelUnprotected(Old # None /\ Old = Subject(item))
    /\ deferred' = IF Cancelling THEN d ELSE deferred
    /\ active' = d /\ pending' = 0
    /\ UNCHANGED <<asked, canceller, cancel, previous, worker, item, work, protected,
                   resultVars, runner, stop>>

(* _speak_failure: a failed send ends the call.                            *)
ReaderSpeaks ==
    /\ reader = "speak" /\ reader' = "read"
    /\ stop' \in {stop, TRUE}
    /\ UNCHANGED <<callVars, queue, cancelVars, workVars, resultVars, runner>>

(* session.commentary.appended, or an error that names the command.        *)
Acknowledge(d) ==
    /\ reader = "read" /\ status[d] = "result_sent"
    /\ \E s \in {"result_accepted", "result_rejected"} : Label(d, s)
    /\ UNCHANGED <<active, pending, asked, queue, cancelVars, workVars, reader,
                   resultVars, runner, stop>>

(* session.closed, or the connection breaks.                               *)
ReaderEnds ==
    /\ reader = "read"
    /\ \/ reader' = "closed" /\ stop' = TRUE
       \/ reader' = "lost" /\ UNCHANGED stop
    /\ UNCHANGED <<callVars, queue, cancelVars, workVars, resultVars, runner>>

-----------------------------------------------------------------------------
(* Requests.  One that is answered with an error changes nothing.          *)

(* close, the shutdown, and the limits of a call.                          *)
Close ==
    /\ runner # "done" /\ ~stop /\ stop' = TRUE
    /\ UNCHANGED <<callVars, queue, cancelVars, workVars, reader, resultVars, runner>>

(* tool_result                                                             *)
SubmitResult(r) ==
    /\ ~stop /\ runner # "done" /\ reply[r] = None
    /\ pending = AnswerTo[r] /\ ~Full
    /\ queue' = Append(queue, Result(active, r))
    /\ reply' = [reply EXCEPT ![r] = "waiting"]
    /\ pending' = 0
    /\ UNCHANGED <<status, active, asked, cancelVars, workVars, reader, recorded,
                   runner, stop>>

(* cancel_work: a second request joins the cancel under way, and takes     *)
(* back the delegation that waits for it.                                  *)
JoinCancel(c) ==
    /\ ~stop /\ runner # "done" /\ cancel[c] = "idle" /\ Cancelling
    /\ cancel' = [cancel EXCEPT ![c] = "done"]
    /\ deferred' = None
    /\ IF deferred = None THEN UNCHANGED <<status, active>>
                          ELSE Label(deferred, "cancelled") /\ active' = None
    /\ UNCHANGED <<pending, asked, queue, canceller, previous, workVars, reader,
                   resultVars, runner, stop>>

(* The cancel waits until the worker has reached its barrier.              *)
BugFirstPhase == "reached"   \* Mutant: it does not wait.
FirstPhase == "barrier"

CancelWork(c) ==
    /\ ~stop /\ runner # "done" /\ cancel[c] = "idle" /\ ~Cancelling /\ ~Full
    /\ queue' = Append(queue, Barrier)
    /\ canceller' = c /\ cancel' = [cancel EXCEPT ![c] = FirstPhase]
    /\ previous' = [previous EXCEPT ![c] = Old]
    /\ active' = None /\ pending' = 0
    /\ CancelUnprotected(Old # None /\ Old = Subject(item))
    /\ UNCHANGED <<status, asked, deferred, worker, item, work, protected, reader,
                   resultVars, runner, stop>>

(* The finally clause of _cancel_backend, when the call goes on: what was  *)
(* deferred is queued.  The queue has room (see Attended), so the clause's *)
(* answer to a full one is never given.                                    *)
BugDeferredRuns == FALSE   \* Mutant: what was deferred is forgotten.
DeferredRuns == deferred # None /\ deferred = active

CancelSucceeds(c) ==
    /\ cancel[c] = "reached"
    /\ LET runs == DeferredRuns /\ ~stop
       IN /\ status' = [d \in Delegations |->
                          IF runs /\ d = deferred THEN "running"
                          ELSE IF d = previous[c] THEN "cancelled" ELSE status[d]]
          /\ queue' = IF runs THEN Append(queue, Task(deferred)) ELSE queue
    /\ cancel' = [cancel EXCEPT ![c] = "done"]
    /\ deferred' = None
    /\ UNCHANGED <<active, pending, asked, canceller, previous, workVars, reader,
                   resultVars, runner, stop>>

(* The barrier was refused, or cancel_reserved_work raised: the call ends. *)
CancelFails(c) ==
    /\ cancel[c] \in {"reached", "refused"}
    /\ stop' = TRUE /\ deferred' = None
    /\ cancel' = [cancel EXCEPT ![c] = "done"]
    /\ UNCHANGED <<callVars, queue, canceller, previous, workVars, reader, resultVars, runner>>

-----------------------------------------------------------------------------
(* The worker.                                                             *)

(* It takes the next item.                                                 *)
Take == worker = "get" /\ queue # <<>> /\ queue' = Tail(queue)

Start(i) == worker' = "working" /\ item' = i /\ work' = "plan" /\ protected' = (i[1] = "result")

TakeSignal ==
    /\ Take /\ ~IsWork(Head(queue))
    /\ IF Head(queue) = Sentinel
       THEN worker' = "done" /\ UNCHANGED cancel
       ELSE cancel' = [cancel EXCEPT ![canceller] = "reached"] /\ UNCHANGED worker
    /\ UNCHANGED <<callVars, deferred, canceller, previous, item, work, protected, killed,
                   reader, resultVars, runner, stop>>

TakeResult ==
    /\ Take /\ Head(queue)[1] = "result"
    /\ Start(Head(queue))
    /\ UNCHANGED <<callVars, cancelVars, killed, reader, resultVars, runner, stop>>

(* A stale task is dropped; one the user said nothing for is answered.     *)
TakeTask ==
    /\ Take /\ Head(queue)[1] = "task"
    /\ LET d == Subject(Head(queue)) IN
       \/ /\ ~MayAnswer(d)
          /\ UNCHANGED <<status, worker, item, work, protected>>
       \/ /\ MayAnswer(d)
          /\ Start(Head(queue)) /\ UNCHANGED status
       \/ /\ MayAnswer(d)
          /\ Label(d, "result_sent") /\ worker' = "speak"
          /\ UNCHANGED <<item, work, protected>>
    /\ UNCHANGED <<active, pending, asked, cancelVars, killed, reader, resultVars, runner, stop>>

(* An answer of its own: a failed send ends the worker.                    *)
WorkerSpeaks ==
    /\ worker = "speak" /\ worker' \in {"get", "dead"}
    /\ UNCHANGED <<callVars, queue, cancelVars, item, work, protected, killed, reader,
                   resultVars, runner, stop>>

(* The work has ended: the receipt follows, and a failure is answered.     *)
WorkerReturns ==
    /\ worker = "working" /\ work \in {"ended", "failed"}
    /\ reply' = [r \in Results |->
                   IF item = Result(Subject(item), r)
                   THEN IF work = "failed" THEN "refused" ELSE "accepted" ELSE reply[r]]
    /\ IF work = "failed" /\ MayAnswer(Subject(item))
       THEN Label(Subject(item), "result_sent") /\ worker' = "speak"
       ELSE worker' = "get" /\ UNCHANGED status
    /\ item' = Nothing /\ work' = None /\ protected' = FALSE /\ killed' = FALSE
    /\ UNCHANGED <<active, pending, asked, queue, cancelVars, reader, recorded, runner, stop>>

-----------------------------------------------------------------------------
(* The turn of an item (_execute).                                         *)

Saved == IF item[1] = "result" THEN recorded \cup {item[3]} ELSE recorded

(* Planned; cancel_after_plan ends the turn of a result nobody waits for.  *)
WorkPlans ==
    /\ work = "plan" /\ ~killed
    /\ protected' = FALSE
    /\ work' = IF item[1] = "result" /\ ~MayAnswer(Subject(item)) THEN "drain" ELSE "run"
    /\ UNCHANGED <<callVars, queue, cancelVars, worker, item, killed, reader, resultVars,
                   runner, stop>>

(* Refused, an error of the turn, or a result that could not be sent.      *)
WorkFails ==
    /\ work \in {"plan", "run", "send"} /\ ~killed
    /\ work' = "failed"
    /\ UNCHANGED <<callVars, queue, cancelVars, worker, item, protected, killed, reader,
                   resultVars, runner, stop>>

(* The turn ends: with a host call, or with an answer that is sent.        *)
WorkRuns ==
    /\ work \in {"run", "drain"} /\ ~killed
    /\ recorded' = Saved
    /\ LET d == Subject(item) IN
       \/ /\ ~MayAnswer(d)
          /\ work' = "ended" /\ UNCHANGED <<status, pending, asked>>
       \/ /\ MayAnswer(d) /\ asked < MaxAsks
          /\ asked' = asked + 1 /\ pending' = asked + 1
          /\ Label(d, "pending_host") /\ work' = "ended"
       \/ /\ MayAnswer(d)
          /\ Label(d, "result_sent") /\ work' = "send"
          /\ UNCHANGED <<pending, asked>>
    /\ UNCHANGED <<active, queue, cancelVars, worker, item, protected, killed, reader, reply,
                   runner, stop>>

WorkSends ==
    /\ work = "send" /\ ~killed /\ work' = "ended"
    /\ UNCHANGED <<callVars, queue, cancelVars, worker, item, protected, killed, reader,
                   resultVars, runner, stop>>

(* Cancelled: the turn drains, and saves a result it was planned with.     *)
WorkCancelled ==
    /\ killed /\ Working
    /\ recorded' = IF work = "plan" THEN recorded ELSE Saved
    /\ work' = "ended"
    /\ UNCHANGED <<callVars, queue, cancelVars, worker, item, protected, killed, reader, reply,
                   runner, stop>>

-----------------------------------------------------------------------------
(* The runner.                                                             *)

(* The reader, the worker or the duration ends the wait, or a request did: *)
(* the provider is asked to close.                                         *)
RunCloses ==
    /\ runner = "wait" /\ reader \notin {"closed", "lost"}
    /\ runner' = "closing" /\ stop' = TRUE
    /\ CancelUnprotected(TRUE)
    /\ UNCHANGED <<callVars, queue, cancelVars, worker, item, work, protected, reader, resultVars>>

(* The reader ended, or did not within close_timeout, or the send failed.  *)
RunFinally ==
    /\ \/ runner = "wait" /\ reader \in {"closed", "lost"}
       \/ runner = "closing"
    /\ stop' = TRUE
    /\ CancelUnprotected(TRUE)
    /\ IF worker \in {"done", "dead"} THEN runner' = "join" /\ UNCHANGED queue
       ELSE IF Full THEN runner' = "put" /\ UNCHANGED queue
       ELSE runner' = "join" /\ queue' = Append(queue, Sentinel)
    /\ UNCHANGED <<callVars, cancelVars, worker, item, work, protected, reader, resultVars>>

(* queue.put waits for room.                                               *)
RunPuts ==
    /\ runner = "put" /\ ~Full
    /\ queue' = Append(queue, Sentinel) /\ runner' = "join"
    /\ UNCHANGED <<callVars, cancelVars, workVars, reader, resultVars, stop>>

(* The worker has ended; what it left in the queue is answered.            *)
Left == {queue[n] : n \in 1..Len(queue)}
BugRefused == [cancel EXCEPT ![canceller] = @]   \* Mutant: a left barrier is dropped.
Refused == [cancel EXCEPT ![canceller] = "refused"]

RunDrains ==
    /\ runner = "join" /\ worker \in {"done", "dead"}
    /\ queue' = <<>>
    /\ reply' = [r \in Results |->
                   IF \E i \in Left : i[1] = "result" /\ i[3] = r THEN "refused" ELSE reply[r]]
    /\ cancel' = IF Barrier \in Left THEN Refused ELSE cancel
    /\ runner' = "drained"
    /\ UNCHANGED <<callVars, deferred, canceller, previous, workVars, reader, recorded, stop>>

(* After the cancel task: delegations are closed, the lease is released.   *)
BugClosed(d) == IF status[d] = "running" THEN "cancelled" ELSE status[d]   \* Mutant.
Closed(d) == IF status[d] \in Unfinished THEN "cancelled" ELSE status[d]

RunEnds ==
    /\ runner = "drained" /\ (canceller # None => cancel[canceller] = "done")
    /\ status' = [d \in Delegations |-> Closed(d)]
    /\ pending' = 0
    /\ reader' = IF reader \in {"read", "speak"} THEN "closed" ELSE reader
    /\ runner' = "done"
    /\ UNCHANGED <<active, asked, queue, cancelVars, workVars, resultVars, stop>>

Read == ReaderSpeaks \/ ReaderEnds
        \/ \E d \in Delegations : Delegate(d) \/ Acknowledge(d)
Ask == Close \/ (\E r \in Results : SubmitResult(r))
       \/ \E c \in Cancels : JoinCancel(c) \/ CancelWork(c)
CancelStep(c) == CancelSucceeds(c) \/ CancelFails(c)
WorkerStep == TakeSignal \/ TakeResult \/ TakeTask \/ WorkerSpeaks \/ WorkerReturns
WorkStep == WorkPlans \/ WorkFails \/ WorkRuns \/ WorkSends \/ WorkCancelled
RunStep == RunCloses \/ RunFinally \/ RunPuts \/ RunDrains \/ RunEnds

Next == Read \/ Ask \/ (\E c \in Cancels : CancelStep(c)) \/ WorkerStep \/ WorkStep \/ RunStep

(* The event loop runs the call's own tasks, turns end, sends time out     *)
(* after ten seconds and the call after max_duration_seconds.  Nobody      *)
(* outside has to act.                                                     *)
Fairness == /\ WF_vars(WorkerStep) /\ WF_vars(WorkStep) /\ WF_vars(RunStep)
            /\ \A c \in Cancels : WF_vars(CancelStep(c))

Spec == Init /\ [][Next]_vars /\ Fairness

-----------------------------------------------------------------------------
(* Properties.                                                             *)

(* Of a running call, every unfinished delegation is somebody's: it is     *)
(* queued, at work, waits for a host result or for the cancel, or it is    *)
(* what the cancel cancels.  No request of the user is left behind, and    *)
(* what waits for the cancel will find room in the queue.                  *)
AtWork(i) == i = item \/ i \in Left
Attended ==
    ~stop /\ worker # "dead" => \A d \in Delegations :
        /\ status[d] \in Unfinished =>
             d = active \/ (Cancelling /\ previous[canceller] = d)
        /\ d = active => CASE status[d] = "running" -> AtWork(Task(d))
                           [] status[d] = "waiting" -> Cancelling /\ deferred = d
                           [] status[d] = "pending_host" ->
                                pending # 0 \/ \E r \in Results : AtWork(Result(d, r))
                           [] OTHER -> pending = 0
        /\ \A c \in Cancels : cancel[c] = "reached" /\ DeferredRuns => ~Full

(* "The receipt follows the native continuation and persistence": a host   *)
(* result that was accepted is saved, whatever superseded, cancelled or    *)
(* ended the call meanwhile.                                               *)
ReceiptMeansRecorded == \A r \in Results : reply[r] = "accepted" => r \in recorded

(* What was superseded or cancelled is never spoken nor relabelled.        *)
FinalStays ==
    [][\A d \in Delegations : status[d] \in {"superseded", "cancelled"}
                                => status'[d] = status[d]]_vars

(* When a cancel reports its delegation cancelled, nothing works on it.    *)
CancelledIsQuiet ==
    \A d \in Delegations : status[d] = "cancelled" =>
        ~(Working /\ Subject(item) = d) /\ \A r \in Results : Result(d, r) \notin Left

(* When the reservation is given back nothing of the call is left: no turn *)
(* of it, no unfinished delegation, and no host result without an answer.  *)
EndsClean ==
    runner = "done" => /\ worker \in {"done", "dead"} /\ ~Working /\ queue = <<>> /\ ~Cancelling
                       /\ \A d \in Delegations : status[d] \notin Unfinished
                       /\ \A r \in Results : reply[r] # "waiting"

(* A call leaves nothing behind: while it runs somebody attends to every   *)
(* delegation of it, and when it has ended nothing of it is left.          *)
CallKept == Attended /\ EndsClean

(* What a call reported is so: an accepted result is saved, and nothing    *)
(* works on a delegation that was reported cancelled.                      *)
ReportsTrue == ReceiptMeansRecorded /\ CancelledIsQuiet

(* Every call ends and gives its session back, unless its worker died of a *)
(* failed send while the runner waited for room in a full queue.           *)
Stuck == runner = "put" /\ worker = "dead" /\ Full
CallEnds == <>(runner = "done" \/ Stuck)
=============================================================================
