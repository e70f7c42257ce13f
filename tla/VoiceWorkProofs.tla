--------------------------- MODULE VoiceWorkProofs ---------------------------
(***************************************************************************)
(* What VoiceWork promises of a delegated call holds for any number of     *)
(* delegations, host results and cancels and any size of the queue: what   *)
(* the user asked for stays in somebody's hands and nothing of it is left  *)
(* when the session is given back (NothingIsLeft), what the call reported  *)
(* is so (ReportsAreTrue), and what is final stays final (FinalIsFinal).   *)
(*                                                                         *)
(* All follow from one inductive invariant, VInv.  Its parts relate the    *)
(* label of a delegation to the one piece of work there is for it, in the  *)
(* queue or in the worker's hands, and order the queue by the barrier of   *)
(* the cancel under way.  Each part has a lemma that every step preserves  *)
(* it, with one case per action that writes what the part reads.           *)
(***************************************************************************)
EXTENDS VoiceWork, TLAPS

-----------------------------------------------------------------------------
(* Types, one part for each group of variables.                            *)
StatusTypes == status \in [Delegations -> Statuses]
CountTypes  == pending \in 0..MaxAsks /\ asked \in 0..MaxAsks
NameTypes   == active \in Delegations \cup {None} /\ deferred \in Delegations \cup {None}
QueueTypes  == queue \in Seq(Items) /\ Len(queue) <= QueueSize
CancelTypes == /\ canceller \in Cancels \cup {None}
               /\ cancel \in [Cancels -> CancelPhases]
               /\ previous \in [Cancels -> Delegations \cup {None}]
ReplyTypes  == /\ reply \in [Results -> {None, "waiting", "accepted", "refused"}]
               /\ recorded \subseteq Results
WorkerTypes == /\ worker \in {"get", "working", "speak", "done", "dead"}
               /\ work \in {None, "plan", "run", "drain", "send", "ended", "failed"}
               /\ protected \in BOOLEAN /\ killed \in BOOLEAN
ItemTypes   == item \in Items \cup {Nothing}
EndTypes    == /\ reader \in {"read", "speak", "closed", "lost"} /\ stop \in BOOLEAN
               /\ runner \in {"wait", "closing", "put", "join", "drained", "done"}

-----------------------------------------------------------------------------
(* The call, its queue and its worker.                                     *)

(* The worker has an item while it works, and a host result is protected   *)
(* until its turn is planned.                                              *)
Bench ==
    /\ worker = "working" <=> item # Nothing
    /\ worker = "working" <=> work # None
    /\ worker = "working" => IsWork(item)
    /\ protected => item[1] = "result" /\ work \in {"plan", "failed"} /\ ~killed
    /\ work = "plan" /\ item[1] = "result" => protected
    /\ killed => worker = "working"

(* A turn that ended well has saved its result; so has an accepted one.    *)
SavedFirst ==
    /\ worker = "working" /\ item[1] = "result" /\ work \in {"send", "ended"}
          => item[3] \in recorded
    /\ \A r \in Results : reply[r] = "accepted" => r \in recorded

(* Who waits for the answer to a result can be found.                      *)
Awaited ==
    \A r \in Results : reply[r] = "waiting" =>
        \/ \E n \in 1..Len(queue) : queue[n][1] = "result" /\ queue[n][3] = r
        \/ worker = "working" /\ item[1] = "result" /\ item[3] = r

(* How far the end of the call is.                                         *)
Ending ==
    /\ runner # "wait" => stop
    /\ runner \in {"drained", "done"} => queue = <<>> /\ worker \in {"done", "dead"}
    /\ runner = "done" => ~Cancelling /\ \A d \in Delegations : status[d] \notin Unfinished

(* What was never begun, or waits for the cancel, has no work.             *)
NoWorkFor(d) == /\ \A n \in 1..Len(queue) : IsWork(queue[n]) => queue[n][2] # d
                /\ worker = "working" => item[2] # d
Fresh == \A d \in Delegations : status[d] \in {None, "waiting"} => NoWorkFor(d)
(* Nor has what was cancelled.                                             *)
Quiet == \A d \in Delegations : status[d] = "cancelled" => NoWorkFor(d)

(* One cancel is under way, and one barrier; nothing new begins behind it. *)
OneCancel ==
    /\ \A c \in Cancels : cancel[c] \in {"barrier", "reached", "refused"} => c = canceller
    /\ \A n \in 1..Len(queue) : queue[n][1] = "barrier" =>
          canceller # None /\ cancel[canceller] = "barrier"
    /\ \A m, n \in 1..Len(queue) : queue[m][1] = "barrier" /\ queue[n][1] = "barrier" => m = n
    /\ deferred # None => Cancelling /\ active = deferred /\ status[deferred] = "waiting"
    /\ Cancelling /\ active # None => active = deferred

(* What a cancel cancels has no work behind the barrier.                   *)
Behind ==
    \A c \in Cancels : cancel[c] \in {"barrier", "reached", "refused"} /\ previous[c] # None =>
        /\ previous[c] # active /\ status[previous[c]] \in Unfinished
        /\ cancel[c] = "barrier" => \A m, n \in 1..Len(queue) :
              queue[m][1] = "barrier" /\ IsWork(queue[n]) /\ queue[n][2] = previous[c] => n < m
        /\ cancel[c] = "reached" => NoWorkFor(previous[c])

(* The active delegation.                                                  *)
Active ==
    /\ active # None => status[active] # None
    /\ active # None /\ ~stop => status[active] \notin {"superseded", "cancelled"}
    /\ active # None /\ ~stop /\ status[active] = "waiting" => deferred = active
    /\ pending # 0 => active # None /\ status[active] = "pending_host"

(* A delegation has one piece of work at a time.                           *)
OneTask ==
    /\ \A m, n \in 1..Len(queue) :
          IsWork(queue[m]) /\ IsWork(queue[n]) /\ queue[m][2] = queue[n][2] => m = n
    /\ worker = "working" /\ work # "ended" =>
          \A n \in 1..Len(queue) : IsWork(queue[n]) => queue[n][2] # item[2]
    /\ pending # 0 => /\ \A n \in 1..Len(queue) : IsWork(queue[n]) => queue[n][2] # active
                      /\ worker = "working" /\ item[2] = active => work = "ended"

(* A turn that was cancelled, or drains, is not the active delegation's.   *)
Stale ==
    worker = "working" /\ item[2] = active /\ ~stop => ~killed /\ work # "drain"

(* While the call runs, what is unfinished is in somebody's hands.         *)
Carried(kind, d) ==
    \/ \E n \in 1..Len(queue) : queue[n][1] = kind /\ queue[n][2] = d
    \/ worker = "working" /\ item[1] = kind /\ item[2] = d /\ work \in {"plan", "run", "failed"}
Accounted ==
    ~stop =>
        /\ \A d \in Delegations : status[d] \in Unfinished =>
              d = active \/ (Cancelling /\ previous[canceller] = d)
        /\ active # None /\ status[active] = "running" => Carried("task", active)
        /\ active # None /\ status[active] = "pending_host"
              => pending # 0 \/ Carried("result", active)

(* A barrier that was reached has left its place.                          *)
Room ==
    ~stop /\ Cancelling /\ cancel[canceller] = "reached" => Len(queue) < QueueSize

-----------------------------------------------------------------------------
(* Items of the queue, and what appending and taking one does to it.       *)

LEMMA Forms ==
    /\ \A d \in Delegations : Task(d) \in Items /\ Task(d)[1] = "task" /\ Task(d)[2] = d
    /\ \A d \in Delegations, r \in Results :
          /\ Result(d, r) \in Items /\ Result(d, r)[1] = "result"
          /\ Result(d, r)[2] = d /\ Result(d, r)[3] = r
    /\ Barrier \in Items /\ Barrier[1] = "barrier"
    /\ Sentinel \in Items /\ Sentinel[1] = "stop"
    /\ \A i \in Items : \/ i[1] = "task" /\ i[2] \in Delegations /\ i = Task(i[2])
                        \/ /\ i[1] = "result" /\ i[2] \in Delegations /\ i[3] \in Results
                           /\ i = Result(i[2], i[3])
                        \/ i[1] = "barrier" /\ i = Barrier
                        \/ i[1] = "stop" /\ i = Sentinel
    /\ Nothing \notin Items
  BY DEF Items, Task, Result, Barrier, Sentinel, Nothing

LEMMA QueueFacts ==
    ASSUME QueueTypes
    PROVE  /\ Len(queue) \in Nat
           /\ \A n \in 1..Len(queue) : queue[n] \in Items
           /\ \A i \in Items :
                 /\ Append(queue, i) \in Seq(Items)
                 /\ Len(Append(queue, i)) = Len(queue) + 1
                 /\ Append(queue, i)[Len(queue) + 1] = i
                 /\ Len(queue) + 1 \in 1..Len(Append(queue, i))
                 /\ \A n \in 1..Len(queue) : n \in 1..Len(Append(queue, i)) /\ Append(queue, i)[n] = queue[n]
           /\ queue # <<>> =>
                 /\ Len(queue) >= 1 /\ Head(queue) = queue[1]
                 /\ Tail(queue) \in Seq(Items)
                 /\ Len(Tail(queue)) = Len(queue) - 1
                 /\ \A n \in 1..Len(Tail(queue)) : Tail(queue)[n] = queue[n + 1]
                 /\ \A n \in 1..Len(queue) : n # 1 =>
                       n - 1 \in 1..Len(Tail(queue)) /\ Tail(queue)[n - 1] = queue[n]
  BY DEF QueueTypes

LEMMA Appended ==
    ASSUME QueueTypes, NEW i \in Items, queue' = Append(queue, i)
    PROVE  /\ \E k \in 1..Len(queue') : queue'[k] = i
           /\ \A n \in 1..Len(queue) : \E k \in 1..Len(queue') : queue'[k] = queue[n]
  <1>1. queue'[Len(queue) + 1] = i /\ Len(queue) + 1 \in 1..Len(queue')
    OBVIOUS
  <1>2. \A n \in 1..Len(queue) : n \in 1..Len(queue') /\ queue'[n] = queue[n]
    OBVIOUS
  <1> QED  BY <1>1, <1>2

LEMMA Taken ==
    ASSUME QueueTypes, Take
    PROVE  /\ 1 \in 1..Len(queue) /\ Head(queue) = queue[1] /\ Head(queue) \in Items
           /\ \A n \in 1..Len(queue) :
                 n = 1 \/ \E k \in 1..Len(queue') : queue'[k] = queue[n]
           /\ worker = "get"
  <1>1. queue # <<>> /\ queue' = Tail(queue) /\ worker = "get"
    BY DEF Take
  <1>2. ASSUME NEW n \in 1..Len(queue), n # 1
        PROVE  \E k \in 1..Len(queue') : queue'[k] = queue[n]
    <2>1. n - 1 \in 1..Len(queue') /\ queue'[n - 1] = queue[n]
      BY <1>1, <1>2
    <2> QED  BY <2>1
  <1>3. 1 \in 1..Len(queue) /\ Head(queue) = queue[1] /\ queue[1] \in Items
    BY <1>1, QueueFacts
  <1> QED  BY <1>1, <1>2, <1>3

(* What RunFinally does, whether or not it finds room in the queue.        *)
LEMMA Finally ==
    ASSUME RunFinally
    PROVE  /\ queue' = queue \/ (~Full /\ queue' = Append(queue, Sentinel))
           /\ stop' /\ runner # "done" /\ runner # "drained"
           /\ UNCHANGED <<status, active, pending, asked, deferred, canceller, cancel, previous,
                          worker, item, work, protected, reader, reply, recorded>>
  BY DEF RunFinally, callVars, cancelVars, resultVars

LEMMA Grown ==
    ASSUME QueueTypes, NEW i \in Items, queue' = queue \/ queue' = Append(queue, i)
    PROVE  \A n \in 1..Len(queue') : \/ n \in 1..Len(queue) /\ queue'[n] = queue[n]
                                     \/ n = Len(queue) + 1 /\ queue'[n] = i
  OBVIOUS

-----------------------------------------------------------------------------
(* Every step preserves every part.                                        *)

(* status keeps its type.                                                  *)
LEMMA StatusTypesStep ==
    ASSUME StatusTypes, Next
    PROVE  StatusTypes'
  <1>1. CASE UNCHANGED status
    BY <1>1 DEF StatusTypes
  <1>2. ASSUME NEW d \in Delegations, Delegate(d) PROVE StatusTypes'
    BY <1>2 DEF StatusTypes, Delegate, Statuses, Unfinished
  <1>3. ASSUME NEW d \in Delegations, Acknowledge(d) PROVE StatusTypes'
    BY <1>3 DEF StatusTypes, Acknowledge, Label, Statuses
  <1>4. ASSUME NEW c \in Cancels, JoinCancel(c) PROVE StatusTypes'
    BY <1>4 DEF StatusTypes, JoinCancel, Label, Statuses
  <1>5. ASSUME NEW c \in Cancels, CancelSucceeds(c) PROVE StatusTypes'
    BY <1>5 DEF StatusTypes, CancelSucceeds, Statuses, Unfinished
  <1>6. ASSUME TakeTask PROVE StatusTypes'
    BY <1>6 DEF StatusTypes, TakeTask, Label, Statuses
  <1>7. ASSUME WorkerReturns PROVE StatusTypes'
    BY <1>7 DEF StatusTypes, WorkerReturns, Label, Statuses
  <1>8. ASSUME WorkRuns PROVE StatusTypes'
    BY <1>8 DEF StatusTypes, WorkRuns, Label, Statuses, Unfinished
  <1>9. ASSUME RunEnds PROVE StatusTypes'
    BY <1>9 DEF StatusTypes, RunEnds, Closed, Statuses
  <1>10. ASSUME ReaderSpeaks \/ ReaderEnds \/ Close \/ TakeSignal \/ TakeResult
              \/ WorkerSpeaks \/ WorkPlans \/ WorkFails \/ WorkSends
              \/ WorkCancelled \/ RunCloses \/ RunFinally \/ RunPuts \/ RunDrains
       PROVE  UNCHANGED status
    BY <1>10 DEF ReaderSpeaks, callVars, ReaderEnds, Close, TakeSignal, TakeResult,
        WorkerSpeaks, WorkPlans, WorkFails, WorkSends, WorkCancelled, RunCloses,
        RunFinally, RunPuts, RunDrains
  <1>11. ASSUME NEW r \in Results, SubmitResult(r) PROVE UNCHANGED status
    BY <1>11 DEF SubmitResult
  <1>12. ASSUME NEW c \in Cancels, CancelWork(c) \/ CancelFails(c)
       PROVE  UNCHANGED status
    BY <1>12 DEF CancelWork, CancelFails, callVars
  <1> QED  BY <1>1, <1>2, <1>3, <1>4, <1>5, <1>6, <1>7, <1>8, <1>9, <1>10, <1>11, <1>12
      DEF Next, Read, Ask, CancelStep, WorkerStep, WorkStep, RunStep

(* Counters keep their types.                                              *)
LEMMA CountTypesStep ==
    ASSUME CountTypes, Next
    PROVE  CountTypes'
  <1>1. CASE UNCHANGED <<pending, asked>>
    BY <1>1 DEF CountTypes
  <1>2. ASSUME NEW d \in Delegations, Delegate(d) PROVE CountTypes'
    BY <1>2, ConstantsAssumption DEF CountTypes, Delegate
  <1>3. ASSUME NEW r \in Results, SubmitResult(r) PROVE CountTypes'
    BY <1>3, ConstantsAssumption DEF CountTypes, SubmitResult
  <1>4. ASSUME NEW c \in Cancels, CancelWork(c) PROVE CountTypes'
    BY <1>4, ConstantsAssumption DEF CountTypes, CancelWork
  <1>5. ASSUME WorkRuns PROVE CountTypes'
    BY <1>5, ConstantsAssumption DEF CountTypes, WorkRuns
  <1>6. ASSUME RunEnds PROVE CountTypes'
    BY <1>6, ConstantsAssumption DEF CountTypes, RunEnds
  <1>7. ASSUME NEW d \in Delegations, Acknowledge(d) PROVE UNCHANGED <<pending, asked>>
    BY <1>7 DEF Acknowledge
  <1>8. ASSUME ReaderSpeaks \/ ReaderEnds \/ Close \/ TakeSignal \/ TakeResult
              \/ TakeTask \/ WorkerSpeaks \/ WorkerReturns \/ WorkPlans \/ WorkFails
              \/ WorkSends \/ WorkCancelled \/ RunCloses \/ RunFinally \/ RunPuts
              \/ RunDrains
       PROVE  UNCHANGED <<pending, asked>>
    BY <1>8 DEF ReaderSpeaks, callVars, ReaderEnds, Close, TakeSignal, TakeResult,
        TakeTask, WorkerSpeaks, WorkerReturns, WorkPlans, WorkFails, WorkSends,
        WorkCancelled, RunCloses, RunFinally, RunPuts, RunDrains
  <1>9. ASSUME NEW c \in Cancels, JoinCancel(c) \/ CancelSucceeds(c)
              \/ CancelFails(c)
       PROVE  UNCHANGED <<pending, asked>>
    BY <1>9 DEF JoinCancel, CancelSucceeds, CancelFails, callVars
  <1> QED  BY <1>1, <1>2, <1>3, <1>4, <1>5, <1>6, <1>7, <1>8, <1>9
      DEF Next, Read, Ask, CancelStep, WorkerStep, WorkStep, RunStep

(* Names of delegations keep their types.                                  *)
LEMMA NameTypesStep ==
    ASSUME NameTypes, Next
    PROVE  NameTypes'
  <1>1. CASE UNCHANGED <<active, deferred>>
    BY <1>1 DEF NameTypes
  <1>2. ASSUME NEW d \in Delegations, Delegate(d) PROVE NameTypes'
    BY <1>2 DEF NameTypes, Delegate
  <1>3. ASSUME NEW c \in Cancels, JoinCancel(c) PROVE NameTypes'
    BY <1>3 DEF NameTypes, JoinCancel
  <1>4. ASSUME NEW c \in Cancels, CancelWork(c) PROVE NameTypes'
    BY <1>4 DEF NameTypes, CancelWork
  <1>5. ASSUME NEW c \in Cancels, CancelSucceeds(c) PROVE NameTypes'
    BY <1>5 DEF NameTypes, CancelSucceeds
  <1>6. ASSUME NEW c \in Cancels, CancelFails(c) PROVE NameTypes'
    BY <1>6 DEF NameTypes, CancelFails, callVars
  <1>7. ASSUME NEW d \in Delegations, Acknowledge(d)
       PROVE  UNCHANGED <<active, deferred>>
    BY <1>7 DEF Acknowledge, cancelVars
  <1>8. ASSUME ReaderSpeaks \/ ReaderEnds \/ Close \/ TakeSignal \/ TakeResult
              \/ TakeTask \/ WorkerSpeaks \/ WorkerReturns \/ WorkPlans \/ WorkFails
              \/ WorkRuns \/ WorkSends \/ WorkCancelled \/ RunCloses \/ RunFinally
              \/ RunPuts \/ RunDrains \/ RunEnds
       PROVE  UNCHANGED <<active, deferred>>
    BY <1>8 DEF ReaderSpeaks, callVars, cancelVars, ReaderEnds, Close, TakeSignal,
        TakeResult, TakeTask, WorkerSpeaks, WorkerReturns, WorkPlans, WorkFails,
        WorkRuns, WorkSends, WorkCancelled, RunCloses, RunFinally, RunPuts, RunDrains,
        RunEnds
  <1>9. ASSUME NEW r \in Results, SubmitResult(r) PROVE UNCHANGED <<active, deferred>>
    BY <1>9 DEF SubmitResult, cancelVars
  <1> QED  BY <1>1, <1>2, <1>3, <1>4, <1>5, <1>6, <1>7, <1>8, <1>9
      DEF Next, Read, Ask, CancelStep, WorkerStep, WorkStep, RunStep

(* The state of the cancels keeps its type.                                *)
LEMMA CancelTypesStep ==
    ASSUME CancelTypes, NameTypes, Next
    PROVE  CancelTypes'
  <1>1. CASE UNCHANGED <<canceller, cancel, previous>>
    BY <1>1 DEF CancelTypes
  <1>2. ASSUME NEW c \in Cancels, JoinCancel(c) PROVE CancelTypes'
    BY <1>2 DEF CancelTypes, JoinCancel, CancelPhases
  <1>3. ASSUME NEW c \in Cancels, CancelWork(c) PROVE CancelTypes'
    BY <1>3 DEF CancelTypes, NameTypes, CancelWork, Old, FirstPhase, CancelPhases
  <1>4. ASSUME NEW c \in Cancels, CancelSucceeds(c) PROVE CancelTypes'
    BY <1>4 DEF CancelTypes, CancelSucceeds, CancelPhases
  <1>5. ASSUME NEW c \in Cancels, CancelFails(c) PROVE CancelTypes'
    BY <1>5 DEF CancelTypes, CancelFails, CancelPhases
  <1>6. ASSUME TakeSignal PROVE CancelTypes'
    BY <1>6 DEF CancelTypes, TakeSignal, CancelPhases
  <1>7. ASSUME RunDrains PROVE CancelTypes'
    BY <1>7 DEF CancelTypes, RunDrains, Refused, CancelPhases
  <1>8. ASSUME NEW d \in Delegations, Delegate(d) \/ Acknowledge(d)
       PROVE  UNCHANGED <<canceller, cancel, previous>>
    BY <1>8 DEF Delegate, Acknowledge, cancelVars
  <1>9. ASSUME ReaderSpeaks \/ ReaderEnds \/ Close \/ TakeResult \/ TakeTask
              \/ WorkerSpeaks \/ WorkerReturns \/ WorkPlans \/ WorkFails \/ WorkRuns
              \/ WorkSends \/ WorkCancelled \/ RunCloses \/ RunFinally \/ RunPuts
              \/ RunEnds
       PROVE  UNCHANGED <<canceller, cancel, previous>>
    BY <1>9 DEF ReaderSpeaks, cancelVars, ReaderEnds, Close, TakeResult, TakeTask,
        WorkerSpeaks, WorkerReturns, WorkPlans, WorkFails, WorkRuns, WorkSends,
        WorkCancelled, RunCloses, RunFinally, RunPuts, RunEnds
  <1>10. ASSUME NEW r \in Results, SubmitResult(r)
       PROVE  UNCHANGED <<canceller, cancel, previous>>
    BY <1>10 DEF SubmitResult, cancelVars
  <1> QED  BY <1>1, <1>2, <1>3, <1>4, <1>5, <1>6, <1>7, <1>8, <1>9, <1>10
      DEF Next, Read, Ask, CancelStep, WorkerStep, WorkStep, RunStep

(* The state of the worker keeps its type.                                 *)
LEMMA WorkerTypesStep ==
    ASSUME WorkerTypes, Next
    PROVE  WorkerTypes'
  <1>1. CASE UNCHANGED <<worker, work, protected, killed>>
    BY <1>1 DEF WorkerTypes
  <1>2. ASSUME NEW d \in Delegations, Delegate(d) PROVE WorkerTypes'
    BY <1>2 DEF WorkerTypes, Delegate, CancelUnprotected
  <1>3. ASSUME NEW c \in Cancels, CancelWork(c) PROVE WorkerTypes'
    BY <1>3 DEF WorkerTypes, CancelWork, CancelUnprotected
  <1>4. ASSUME TakeSignal PROVE WorkerTypes'
    BY <1>4 DEF WorkerTypes, TakeSignal
  <1>5. ASSUME TakeResult PROVE WorkerTypes'
    BY <1>5 DEF WorkerTypes, TakeResult, Start
  <1>6. ASSUME TakeTask PROVE WorkerTypes'
    BY <1>6 DEF WorkerTypes, TakeTask, Start
  <1>7. ASSUME WorkerSpeaks PROVE WorkerTypes'
    BY <1>7 DEF WorkerTypes, WorkerSpeaks
  <1>8. ASSUME WorkerReturns PROVE WorkerTypes'
    BY <1>8 DEF WorkerTypes, WorkerReturns
  <1>9. ASSUME WorkPlans PROVE WorkerTypes'
    BY <1>9 DEF WorkerTypes, WorkPlans
  <1>10. ASSUME WorkFails PROVE WorkerTypes'
    BY <1>10 DEF WorkerTypes, WorkFails
  <1>11. ASSUME WorkRuns PROVE WorkerTypes'
    BY <1>11 DEF WorkerTypes, WorkRuns
  <1>12. ASSUME WorkSends PROVE WorkerTypes'
    BY <1>12 DEF WorkerTypes, WorkSends
  <1>13. ASSUME WorkCancelled PROVE WorkerTypes'
    BY <1>13 DEF WorkerTypes, WorkCancelled
  <1>14. ASSUME RunCloses PROVE WorkerTypes'
    BY <1>14 DEF WorkerTypes, RunCloses, CancelUnprotected
  <1>15. ASSUME RunFinally PROVE WorkerTypes'
    BY <1>15 DEF WorkerTypes, RunFinally, CancelUnprotected
  <1>16. ASSUME NEW d \in Delegations, Acknowledge(d)
       PROVE  UNCHANGED <<worker, work, protected, killed>>
    BY <1>16 DEF Acknowledge, workVars
  <1>17. ASSUME ReaderSpeaks \/ ReaderEnds \/ Close \/ RunPuts \/ RunDrains
              \/ RunEnds
       PROVE  UNCHANGED <<worker, work, protected, killed>>
    BY <1>17 DEF ReaderSpeaks, workVars, ReaderEnds, Close, RunPuts, RunDrains, RunEnds
  <1>18. ASSUME NEW r \in Results, SubmitResult(r)
       PROVE  UNCHANGED <<worker, work, protected, killed>>
    BY <1>18 DEF SubmitResult, workVars
  <1>19. ASSUME NEW c \in Cancels, JoinCancel(c) \/ CancelSucceeds(c)
              \/ CancelFails(c)
       PROVE  UNCHANGED <<worker, work, protected, killed>>
    BY <1>19 DEF JoinCancel, workVars, CancelSucceeds, CancelFails
  <1> QED  BY <1>1, <1>2, <1>3, <1>4, <1>5, <1>6, <1>7, <1>8, <1>9, <1>10, <1>11, <1>12,
              <1>13, <1>14, <1>15, <1>16, <1>17, <1>18, <1>19
      DEF Next, Read, Ask, CancelStep, WorkerStep, WorkStep, RunStep

(* The state of the reader and the runner keeps its type.                  *)
LEMMA EndTypesStep ==
    ASSUME EndTypes, Next
    PROVE  EndTypes'
  <1>1. CASE UNCHANGED <<reader, stop, runner>>
    BY <1>1 DEF EndTypes
  <1>2. ASSUME NEW d \in Delegations, Delegate(d) PROVE EndTypes'
    BY <1>2 DEF EndTypes, Delegate
  <1>3. ASSUME ReaderSpeaks PROVE EndTypes'
    BY <1>3 DEF EndTypes, ReaderSpeaks
  <1>4. ASSUME ReaderEnds PROVE EndTypes'
    BY <1>4 DEF EndTypes, ReaderEnds
  <1>5. ASSUME Close PROVE EndTypes'
    BY <1>5 DEF EndTypes, Close
  <1>6. ASSUME NEW c \in Cancels, CancelFails(c) PROVE EndTypes'
    BY <1>6 DEF EndTypes, CancelFails
  <1>7. ASSUME RunCloses PROVE EndTypes'
    BY <1>7 DEF EndTypes, RunCloses
  <1>8. ASSUME RunFinally PROVE EndTypes'
    BY <1>8 DEF EndTypes, RunFinally
  <1>9. ASSUME RunPuts PROVE EndTypes'
    BY <1>9 DEF EndTypes, RunPuts
  <1>10. ASSUME RunDrains PROVE EndTypes'
    BY <1>10 DEF EndTypes, RunDrains
  <1>11. ASSUME RunEnds PROVE EndTypes'
    BY <1>11 DEF EndTypes, RunEnds
  <1>12. ASSUME NEW d \in Delegations, Acknowledge(d)
       PROVE  UNCHANGED <<reader, stop, runner>>
    BY <1>12 DEF Acknowledge
  <1>13. ASSUME NEW r \in Results, SubmitResult(r)
       PROVE  UNCHANGED <<reader, stop, runner>>
    BY <1>13 DEF SubmitResult
  <1>14. ASSUME NEW c \in Cancels, JoinCancel(c) \/ CancelWork(c)
              \/ CancelSucceeds(c)
       PROVE  UNCHANGED <<reader, stop, runner>>
    BY <1>14 DEF JoinCancel, CancelWork, CancelSucceeds
  <1>15. ASSUME TakeSignal \/ TakeResult \/ TakeTask \/ WorkerSpeaks
              \/ WorkerReturns \/ WorkPlans \/ WorkFails \/ WorkRuns \/ WorkSends
              \/ WorkCancelled
       PROVE  UNCHANGED <<reader, stop, runner>>
    BY <1>15 DEF TakeSignal, TakeResult, TakeTask, WorkerSpeaks, WorkerReturns,
        WorkPlans, WorkFails, WorkRuns, WorkSends, WorkCancelled
  <1> QED  BY <1>1, <1>2, <1>3, <1>4, <1>5, <1>6, <1>7, <1>8, <1>9, <1>10, <1>11, <1>12,
              <1>13, <1>14, <1>15
      DEF Next, Read, Ask, CancelStep, WorkerStep, WorkStep, RunStep

(* What the worker works on is an item.                                    *)
LEMMA ItemTypesStep ==
    ASSUME ItemTypes, QueueTypes, Next
    PROVE  ItemTypes'
  <1>1. CASE UNCHANGED item
    BY <1>1 DEF ItemTypes
  <1>2. ASSUME TakeResult PROVE ItemTypes'
    BY <1>2, QueueFacts DEF ItemTypes, TakeResult, Take, Start
  <1>3. ASSUME TakeTask PROVE ItemTypes'
    BY <1>3, QueueFacts DEF ItemTypes, TakeTask, Take, Start
  <1>4. ASSUME WorkerReturns PROVE ItemTypes'
    BY <1>4 DEF ItemTypes, WorkerReturns
  <1>5. ASSUME NEW d \in Delegations, Delegate(d) \/ Acknowledge(d) PROVE UNCHANGED item
    BY <1>5 DEF Delegate, Acknowledge, workVars
  <1>6. ASSUME ReaderSpeaks \/ ReaderEnds \/ Close \/ TakeSignal \/ WorkerSpeaks
              \/ WorkPlans \/ WorkFails \/ WorkRuns \/ WorkSends \/ WorkCancelled
              \/ RunCloses \/ RunFinally \/ RunPuts \/ RunDrains \/ RunEnds
       PROVE  UNCHANGED item
    BY <1>6 DEF ReaderSpeaks, workVars, ReaderEnds, Close, TakeSignal, WorkerSpeaks,
        WorkPlans, WorkFails, WorkRuns, WorkSends, WorkCancelled, RunCloses, RunFinally,
        RunPuts, RunDrains, RunEnds
  <1>7. ASSUME NEW r \in Results, SubmitResult(r) PROVE UNCHANGED item
    BY <1>7 DEF SubmitResult, workVars
  <1>8. ASSUME NEW c \in Cancels, JoinCancel(c) \/ CancelWork(c)
              \/ CancelSucceeds(c) \/ CancelFails(c)
       PROVE  UNCHANGED item
    BY <1>8 DEF JoinCancel, workVars, CancelWork, CancelSucceeds, CancelFails
  <1> QED  BY <1>1, <1>2, <1>3, <1>4, <1>5, <1>6, <1>7, <1>8
      DEF Next, Read, Ask, CancelStep, WorkerStep, WorkStep, RunStep

(* Receipts keep their types.                                              *)
LEMMA ReplyTypesStep ==
    ASSUME ReplyTypes, ItemTypes, WorkerTypes, Bench, Next
    PROVE  ReplyTypes'
  <1>1. CASE UNCHANGED <<reply, recorded>>
    BY <1>1 DEF ReplyTypes
  <1>2. ASSUME NEW r \in Results, SubmitResult(r) PROVE ReplyTypes'
    BY <1>2 DEF ReplyTypes, SubmitResult
  <1>3. ASSUME WorkerReturns PROVE ReplyTypes'
    BY <1>3 DEF ReplyTypes, WorkerReturns
  <1>4. ASSUME WorkRuns PROVE ReplyTypes'
    BY <1>4, Forms DEF ReplyTypes, ItemTypes, Bench, WorkRuns, Saved, None
  <1>5. ASSUME WorkCancelled PROVE ReplyTypes'
    BY <1>5, Forms DEF ReplyTypes, ItemTypes, Bench, WorkCancelled, Saved
  <1>6. ASSUME RunDrains PROVE ReplyTypes'
    BY <1>6 DEF ReplyTypes, RunDrains
  <1>7. ASSUME NEW d \in Delegations, Delegate(d) \/ Acknowledge(d)
       PROVE  UNCHANGED <<reply, recorded>>
    BY <1>7 DEF Delegate, resultVars, Acknowledge
  <1>8. ASSUME ReaderSpeaks \/ ReaderEnds \/ Close \/ TakeSignal \/ TakeResult
              \/ TakeTask \/ WorkerSpeaks \/ WorkPlans \/ WorkFails \/ WorkSends
              \/ RunCloses \/ RunFinally \/ RunPuts \/ RunEnds
       PROVE  UNCHANGED <<reply, recorded>>
    BY <1>8 DEF ReaderSpeaks, resultVars, ReaderEnds, Close, TakeSignal, TakeResult,
        TakeTask, WorkerSpeaks, WorkPlans, WorkFails, WorkSends, RunCloses, RunFinally,
        RunPuts, RunEnds
  <1>9. ASSUME NEW c \in Cancels, JoinCancel(c) \/ CancelWork(c)
              \/ CancelSucceeds(c) \/ CancelFails(c)
       PROVE  UNCHANGED <<reply, recorded>>
    BY <1>9 DEF JoinCancel, resultVars, CancelWork, CancelSucceeds, CancelFails
  <1> QED  BY <1>1, <1>2, <1>3, <1>4, <1>5, <1>6, <1>7, <1>8, <1>9
      DEF Next, Read, Ask, CancelStep, WorkerStep, WorkStep, RunStep

(* The queue holds items, and never more than it may.                      *)
LEMMA QueueTypesStep ==
    ASSUME QueueTypes, Active, CountTypes, OneCancel, Room, NameTypes, CancelTypes, Next
    PROVE  QueueTypes'
  <1>1. CASE UNCHANGED queue
    BY <1>1 DEF QueueTypes
  <1>2. ASSUME NEW d \in Delegations, Delegate(d) PROVE QueueTypes'
    BY <1>2, Forms, ConstantsAssumption DEF QueueTypes, Delegate, Full
  <1>3. ASSUME NEW r \in Results, SubmitResult(r) PROVE QueueTypes'
    BY <1>3, Forms, ConstantsAssumption DEF QueueTypes, Active, NameTypes, SubmitResult,
        Full
  <1>4. ASSUME NEW c \in Cancels, CancelWork(c) PROVE QueueTypes'
    BY <1>4, Forms, ConstantsAssumption DEF QueueTypes, CancelWork, Full
  <1>5. ASSUME NEW c \in Cancels, CancelSucceeds(c) PROVE QueueTypes'
    BY <1>5, Forms, ConstantsAssumption DEF QueueTypes, OneCancel, Room, NameTypes,
        CancelSucceeds, DeferredRuns
  <1>6. ASSUME TakeSignal PROVE QueueTypes'
    BY <1>6, ConstantsAssumption DEF QueueTypes, TakeSignal, Take
  <1>7. ASSUME TakeResult PROVE QueueTypes'
    BY <1>7, ConstantsAssumption DEF QueueTypes, TakeResult, Take
  <1>8. ASSUME TakeTask PROVE QueueTypes'
    BY <1>8, ConstantsAssumption DEF QueueTypes, TakeTask, Take
  <1>9. ASSUME RunFinally PROVE QueueTypes'
    <2>1. queue' = queue \/ (Len(queue) < QueueSize /\ queue' = Append(queue, Sentinel))
      BY <1>9, Finally, ConstantsAssumption DEF Full
    <2> QED  BY <2>1, Forms, ConstantsAssumption DEF QueueTypes
  <1>10. ASSUME RunPuts PROVE QueueTypes'
    BY <1>10, Forms, ConstantsAssumption DEF QueueTypes, RunPuts, Full
  <1>11. ASSUME RunDrains PROVE QueueTypes'
    BY <1>11, ConstantsAssumption DEF QueueTypes, RunDrains
  <1>12. ASSUME NEW d \in Delegations, Acknowledge(d) PROVE UNCHANGED queue
    BY <1>12 DEF Acknowledge
  <1>13. ASSUME ReaderSpeaks \/ ReaderEnds \/ Close \/ WorkerSpeaks \/ WorkerReturns
              \/ WorkPlans \/ WorkFails \/ WorkRuns \/ WorkSends \/ WorkCancelled
              \/ RunCloses \/ RunEnds
       PROVE  UNCHANGED queue
    BY <1>13 DEF ReaderSpeaks, ReaderEnds, Close, WorkerSpeaks, WorkerReturns,
        WorkPlans, WorkFails, WorkRuns, WorkSends, WorkCancelled, RunCloses, RunEnds
  <1>14. ASSUME NEW c \in Cancels, JoinCancel(c) \/ CancelFails(c) PROVE UNCHANGED queue
    BY <1>14 DEF JoinCancel, CancelFails
  <1> QED  BY <1>1, <1>2, <1>3, <1>4, <1>5, <1>6, <1>7, <1>8, <1>9, <1>10, <1>11, <1>12,
              <1>13, <1>14
      DEF Next, Read, Ask, CancelStep, WorkerStep, WorkStep, RunStep

(* The worker and its item go together.                                    *)
LEMMA BenchStep ==
    ASSUME Bench, WorkerTypes, ItemTypes, QueueTypes, Next
    PROVE  Bench'
  <1>1. CASE UNCHANGED <<worker, item, work, protected, killed>>
    BY <1>1 DEF Bench
  <1>2. ASSUME NEW d \in Delegations, Delegate(d) PROVE Bench'
    BY <1>2 DEF Bench, Delegate, CancelUnprotected, Working, None
  <1>3. ASSUME NEW c \in Cancels, CancelWork(c) PROVE Bench'
    BY <1>3 DEF Bench, CancelWork, CancelUnprotected, Working, None
  <1>4. ASSUME TakeSignal PROVE Bench'
    BY <1>4 DEF Bench, TakeSignal, Take
  <1>5. ASSUME TakeResult PROVE Bench'
    <2>1. /\ worker' = "working" /\ work' = "plan" /\ item' = Head(queue)
          /\ Head(queue)[1] = "result" /\ Take /\ UNCHANGED killed
      BY <1>5 DEF TakeResult, Start
    <2>2. protected' = TRUE
      BY <1>5 DEF TakeResult, Start
    <2>3. ~killed
      BY <2>1, Taken DEF Bench
    <2> QED  BY <2>1, <2>2, <2>3, Taken, Forms DEF Bench, None, IsWork
  <1>6. ASSUME TakeTask PROVE Bench'
    BY <1>6, QueueFacts, Forms DEF Bench, WorkerTypes, TakeTask, Take, Start, None,
        IsWork
  <1>7. ASSUME WorkerSpeaks PROVE Bench'
    BY <1>7 DEF Bench, WorkerSpeaks
  <1>8. ASSUME WorkerReturns PROVE Bench'
    BY <1>8 DEF Bench, WorkerReturns, None
  <1>9. ASSUME WorkPlans PROVE Bench'
    BY <1>9 DEF Bench, WorkPlans, None
  <1>10. ASSUME WorkFails PROVE Bench'
    BY <1>10 DEF Bench, WorkFails, None
  <1>11. ASSUME WorkRuns PROVE Bench'
    BY <1>11 DEF Bench, WorkRuns, None
  <1>12. ASSUME WorkSends PROVE Bench'
    BY <1>12 DEF Bench, WorkSends, None
  <1>13. ASSUME WorkCancelled PROVE Bench'
    BY <1>13 DEF Bench, WorkCancelled, None
  <1>14. ASSUME RunCloses PROVE Bench'
    BY <1>14 DEF Bench, RunCloses, CancelUnprotected, Working, None
  <1>15. ASSUME RunFinally PROVE Bench'
    BY <1>15 DEF Bench, RunFinally, CancelUnprotected, Working, None
  <1>16. ASSUME NEW d \in Delegations, Acknowledge(d)
       PROVE  UNCHANGED <<worker, item, work, protected, killed>>
    BY <1>16 DEF Acknowledge, workVars
  <1>17. ASSUME ReaderSpeaks \/ ReaderEnds \/ Close \/ RunPuts \/ RunDrains
              \/ RunEnds
       PROVE  UNCHANGED <<worker, item, work, protected, killed>>
    BY <1>17 DEF ReaderSpeaks, workVars, ReaderEnds, Close, RunPuts, RunDrains, RunEnds
  <1>18. ASSUME NEW r \in Results, SubmitResult(r)
       PROVE  UNCHANGED <<worker, item, work, protected, killed>>
    BY <1>18 DEF SubmitResult, workVars
  <1>19. ASSUME NEW c \in Cancels, JoinCancel(c) \/ CancelSucceeds(c)
              \/ CancelFails(c)
       PROVE  UNCHANGED <<worker, item, work, protected, killed>>
    BY <1>19 DEF JoinCancel, workVars, CancelSucceeds, CancelFails
  <1> QED  BY <1>1, <1>2, <1>3, <1>4, <1>5, <1>6, <1>7, <1>8, <1>9, <1>10, <1>11, <1>12,
              <1>13, <1>14, <1>15, <1>16, <1>17, <1>18, <1>19
      DEF Next, Read, Ask, CancelStep, WorkerStep, WorkStep, RunStep

(* A result is saved before its turn ends well.                            *)
LEMMA SavedFirstStep ==
    ASSUME SavedFirst, Bench, ItemTypes, WorkerTypes, ReplyTypes, QueueTypes, Next
    PROVE  SavedFirst'
  <1>1. CASE UNCHANGED <<worker, item, work, recorded, reply>>
    BY <1>1 DEF SavedFirst
  <1>2. ASSUME NEW r \in Results, SubmitResult(r) PROVE SavedFirst'
    BY <1>2 DEF SavedFirst, SubmitResult, workVars
  <1>3. ASSUME TakeSignal PROVE SavedFirst'
    BY <1>3 DEF SavedFirst, TakeSignal, resultVars
  <1>4. ASSUME TakeResult PROVE SavedFirst'
    BY <1>4 DEF SavedFirst, TakeResult, Start, resultVars
  <1>5. ASSUME TakeTask PROVE SavedFirst'
    BY <1>5 DEF SavedFirst, TakeTask, Start, resultVars
  <1>6. ASSUME WorkerSpeaks PROVE SavedFirst'
    BY <1>6 DEF SavedFirst, WorkerSpeaks, resultVars
  <1>7. ASSUME WorkerReturns PROVE SavedFirst'
    BY <1>7, Forms DEF SavedFirst, Bench, ItemTypes, WorkerReturns, Subject, IsWork
  <1>8. ASSUME WorkPlans PROVE SavedFirst'
    BY <1>8 DEF SavedFirst, WorkPlans, resultVars
  <1>9. ASSUME WorkFails PROVE SavedFirst'
    BY <1>9 DEF SavedFirst, WorkFails, resultVars
  <1>10. ASSUME WorkRuns PROVE SavedFirst'
    BY <1>10 DEF SavedFirst, WorkRuns, Saved
  <1>11. ASSUME WorkSends PROVE SavedFirst'
    BY <1>11 DEF SavedFirst, WorkSends, resultVars
  <1>12. ASSUME WorkCancelled PROVE SavedFirst'
    BY <1>12 DEF SavedFirst, Bench, WorkCancelled, Saved
  <1>13. ASSUME RunDrains PROVE SavedFirst'
    BY <1>13 DEF SavedFirst, RunDrains, workVars
  <1>14. ASSUME NEW d \in Delegations, Delegate(d) \/ Acknowledge(d)
       PROVE  UNCHANGED <<worker, item, work, recorded, reply>>
    BY <1>14 DEF Delegate, resultVars, Acknowledge, workVars
  <1>15. ASSUME ReaderSpeaks \/ ReaderEnds \/ Close \/ RunCloses \/ RunFinally
              \/ RunPuts \/ RunEnds
       PROVE  UNCHANGED <<worker, item, work, recorded, reply>>
    BY <1>15 DEF ReaderSpeaks, workVars, resultVars, ReaderEnds, Close, RunCloses,
        RunFinally, RunPuts, RunEnds
  <1>16. ASSUME NEW c \in Cancels, JoinCancel(c) \/ CancelWork(c)
              \/ CancelSucceeds(c) \/ CancelFails(c)
       PROVE  UNCHANGED <<worker, item, work, recorded, reply>>
    BY <1>16 DEF JoinCancel, workVars, resultVars, CancelWork, CancelSucceeds,
        CancelFails
  <1> QED  BY <1>1, <1>2, <1>3, <1>4, <1>5, <1>6, <1>7, <1>8, <1>9, <1>10, <1>11, <1>12,
              <1>13, <1>14, <1>15, <1>16
      DEF Next, Read, Ask, CancelStep, WorkerStep, WorkStep, RunStep

(* Who waits for an answer keeps being found.                              *)
LEMMA AwaitedStep ==
    ASSUME Awaited, Bench, ItemTypes, WorkerTypes, ReplyTypes, QueueTypes, Ending,
          Active, NameTypes, CountTypes, OneCancel, CancelTypes, Next
    PROVE  Awaited'
  <1>1. CASE UNCHANGED <<reply, queue, worker, item>>
    BY <1>1 DEF Awaited
  <1>2. ASSUME NEW d \in Delegations, Delegate(d) PROVE Awaited'
    BY <1>2 DEF Awaited, Delegate, resultVars
  <1>3. ASSUME NEW r \in Results, SubmitResult(r) PROVE Awaited'
    <2>1. queue' = Append(queue, Result(active, r)) /\ active \in Delegations
      BY <1>3, ConstantsAssumption DEF SubmitResult, Active, NameTypes
    <2>2. UNCHANGED <<worker, item>> /\ \A s \in Results : s # r => reply'[s] = reply[s]
      BY <1>3 DEF SubmitResult, workVars
    <2> QED  BY <2>1, <2>2, Forms DEF Awaited
  <1>4. ASSUME NEW c \in Cancels, CancelWork(c) PROVE Awaited'
    BY <1>4 DEF Awaited, CancelWork, resultVars
  <1>5. ASSUME NEW c \in Cancels, CancelSucceeds(c) PROVE Awaited'
    BY <1>5 DEF Awaited, CancelSucceeds, workVars, resultVars
  <1>6. ASSUME TakeSignal PROVE Awaited'
    <2>1. Take /\ UNCHANGED reply
      BY <1>6 DEF TakeSignal, resultVars
    <2> SUFFICES ASSUME NEW s \in Results, reply[s] = "waiting",
                        ~\E n \in 1..Len(queue') : queue'[n][1] = "result" /\ queue'[n][3] = s
                 PROVE  worker' = "working" /\ item'[1] = "result" /\ item'[3] = s
      BY <2>1 DEF Awaited
    <2>2. PICK n \in 1..Len(queue) : queue[n][1] = "result" /\ queue[n][3] = s
      BY <2>1, Taken DEF Awaited
    <2>3. n = 1
      BY <2>1, <2>2, Taken
    <2> QED  BY <1>6, <2>1, <2>2, <2>3 DEF TakeSignal, IsWork
  <1>7. ASSUME TakeResult PROVE Awaited'
    <2>1. Take /\ UNCHANGED reply
      BY <1>7 DEF TakeResult, resultVars
    <2> SUFFICES ASSUME NEW s \in Results, reply[s] = "waiting",
                        ~\E n \in 1..Len(queue') : queue'[n][1] = "result" /\ queue'[n][3] = s
                 PROVE  worker' = "working" /\ item'[1] = "result" /\ item'[3] = s
      BY <2>1 DEF Awaited
    <2>2. PICK n \in 1..Len(queue) : queue[n][1] = "result" /\ queue[n][3] = s
      BY <2>1, Taken DEF Awaited
    <2>3. n = 1
      BY <2>1, <2>2, Taken
    <2> QED  BY <1>7, <2>1, <2>2, <2>3 DEF TakeResult, Start
  <1>8. ASSUME TakeTask PROVE Awaited'
    <2>1. Take /\ UNCHANGED reply
      BY <1>8 DEF TakeTask, resultVars
    <2> SUFFICES ASSUME NEW s \in Results, reply[s] = "waiting",
                        ~\E n \in 1..Len(queue') : queue'[n][1] = "result" /\ queue'[n][3] = s
                 PROVE  worker' = "working" /\ item'[1] = "result" /\ item'[3] = s
      BY <2>1 DEF Awaited
    <2>2. PICK n \in 1..Len(queue) : queue[n][1] = "result" /\ queue[n][3] = s
      BY <2>1, Taken DEF Awaited
    <2>3. n = 1
      BY <2>1, <2>2, Taken
    <2> QED  BY <1>8, <2>1, <2>2, <2>3 DEF TakeTask
  <1>9. ASSUME WorkerSpeaks PROVE Awaited'
    BY <1>9 DEF Awaited, WorkerSpeaks, resultVars
  <1>10. ASSUME WorkerReturns PROVE Awaited'
    <2>1. UNCHANGED queue /\ worker = "working"
      BY <1>10 DEF WorkerReturns
    <2>2. ASSUME NEW s \in Results, reply'[s] = "waiting"
          PROVE  reply[s] = "waiting" /\ item # Result(Subject(item), s)
      BY <1>10, <2>2 DEF WorkerReturns
    <2>3. item \in Items /\ Subject(item) = item[2]
      BY <2>1 DEF Bench, ItemTypes, Subject
    <2>4. ASSUME NEW s \in Results, reply'[s] = "waiting", item[1] = "result"
          PROVE  item[3] # s
      BY <2>2, <2>3, <2>4, Forms
    <2> QED  BY <2>1, <2>2, <2>4 DEF Awaited
  <1>11. ASSUME RunFinally PROVE Awaited'
    <2>1. \A n \in 1..Len(queue') : (n \in 1..Len(queue) /\ queue'[n] = queue[n]) \/ queue'[n] = Sentinel
      BY <1>11, Finally
    <2>2. \A n \in 1..Len(queue) : n \in 1..Len(queue') /\ queue'[n] = queue[n]
      BY <1>11, Finally
    <2> QED  BY <1>11, <2>1, <2>2, Finally DEF Awaited
  <1>12. ASSUME RunPuts PROVE Awaited'
    BY <1>12 DEF Awaited, RunPuts, workVars, resultVars
  <1>13. ASSUME RunDrains PROVE Awaited'
    BY <1>13 DEF Awaited, RunDrains, Left
  <1>14. ASSUME NEW d \in Delegations, Acknowledge(d)
       PROVE  UNCHANGED <<reply, queue, worker, item>>
    BY <1>14 DEF Acknowledge, workVars, resultVars
  <1>15. ASSUME ReaderSpeaks \/ ReaderEnds \/ Close \/ WorkPlans \/ WorkFails
              \/ WorkRuns \/ WorkSends \/ WorkCancelled \/ RunCloses \/ RunEnds
       PROVE  UNCHANGED <<reply, queue, worker, item>>
    BY <1>15 DEF ReaderSpeaks, workVars, resultVars, ReaderEnds, Close, WorkPlans,
        WorkFails, WorkRuns, WorkSends, WorkCancelled, RunCloses, RunEnds
  <1>16. ASSUME NEW c \in Cancels, JoinCancel(c) \/ CancelFails(c)
       PROVE  UNCHANGED <<reply, queue, worker, item>>
    BY <1>16 DEF JoinCancel, workVars, resultVars, CancelFails
  <1> QED  BY <1>1, <1>2, <1>3, <1>4, <1>5, <1>6, <1>7, <1>8, <1>9, <1>10, <1>11, <1>12,
              <1>13, <1>14, <1>15, <1>16
      DEF Next, Read, Ask, CancelStep, WorkerStep, WorkStep, RunStep

(* What the end of the call has done stays done.                           *)
LEMMA EndingStep ==
    ASSUME Ending, EndTypes, WorkerTypes, CancelTypes, QueueTypes, OneCancel, Bench,
          Next
    PROVE  Ending'
  <1>1. CASE UNCHANGED <<runner, stop, queue, worker, status, cancel, canceller>>
    BY <1>1 DEF Ending, Cancelling
  <1>2. ASSUME NEW d \in Delegations, Delegate(d) PROVE Ending'
    BY <1>2 DEF Ending, Delegate
  <1>3. ASSUME NEW d \in Delegations, Acknowledge(d) PROVE Ending'
    BY <1>3 DEF Ending, Acknowledge, Label, cancelVars, workVars, Unfinished, Cancelling
  <1>4. ASSUME ReaderSpeaks PROVE Ending'
    BY <1>4 DEF Ending, ReaderSpeaks, callVars, cancelVars, workVars, Cancelling
  <1>5. ASSUME ReaderEnds PROVE Ending'
    BY <1>5 DEF Ending, ReaderEnds, callVars, cancelVars, workVars, Cancelling
  <1>6. ASSUME Close PROVE Ending'
    BY <1>6 DEF Ending, Close
  <1>7. ASSUME NEW r \in Results, SubmitResult(r) PROVE Ending'
    BY <1>7 DEF Ending, SubmitResult
  <1>8. ASSUME NEW c \in Cancels, JoinCancel(c) PROVE Ending'
    BY <1>8 DEF Ending, JoinCancel
  <1>9. ASSUME NEW c \in Cancels, CancelWork(c) PROVE Ending'
    BY <1>9 DEF Ending, CancelWork
  <1>10. ASSUME NEW c \in Cancels, CancelSucceeds(c) PROVE Ending'
    BY <1>10 DEF Ending, CancelSucceeds, workVars, Unfinished, Cancelling
  <1>11. ASSUME NEW c \in Cancels, CancelFails(c) PROVE Ending'
    BY <1>11 DEF Ending, CancelFails, callVars, workVars, Cancelling
  <1>12. ASSUME TakeSignal PROVE Ending'
    BY <1>12 DEF Ending, TakeSignal, Take
  <1>13. ASSUME TakeResult PROVE Ending'
    BY <1>13 DEF Ending, TakeResult, Take
  <1>14. ASSUME TakeTask PROVE Ending'
    BY <1>14 DEF Ending, TakeTask, Take
  <1>15. ASSUME WorkerSpeaks PROVE Ending'
    BY <1>15 DEF Ending, WorkerSpeaks
  <1>16. ASSUME WorkerReturns PROVE Ending'
    BY <1>16 DEF Ending, WorkerReturns
  <1>17. ASSUME WorkRuns PROVE Ending'
    BY <1>17 DEF Ending, Bench, WorkRuns, None
  <1>18. ASSUME RunCloses PROVE Ending'
    BY <1>18 DEF Ending, RunCloses
  <1>19. ASSUME RunFinally PROVE Ending'
    BY <1>19 DEF Ending, RunFinally
  <1>20. ASSUME RunPuts PROVE Ending'
    BY <1>20 DEF Ending, RunPuts
  <1>21. ASSUME RunDrains PROVE Ending'
    BY <1>21 DEF Ending, RunDrains, workVars
  <1>22. ASSUME RunEnds PROVE Ending'
    BY <1>22 DEF Ending, RunEnds, Closed, cancelVars, workVars, Unfinished, Cancelling
  <1>23. ASSUME WorkPlans \/ WorkFails \/ WorkSends \/ WorkCancelled
       PROVE  UNCHANGED <<runner, stop, queue, worker, status, cancel, canceller>>
    BY <1>23 DEF WorkPlans, callVars, cancelVars, WorkFails, WorkSends, WorkCancelled
  <1> QED  BY <1>1, <1>2, <1>3, <1>4, <1>5, <1>6, <1>7, <1>8, <1>9, <1>10, <1>11, <1>12,
              <1>13, <1>14, <1>15, <1>16, <1>17, <1>18, <1>19, <1>20, <1>21, <1>22,
              <1>23
      DEF Next, Read, Ask, CancelStep, WorkerStep, WorkStep, RunStep

(* No work is made for a delegation that is new or waits.                  *)
LEMMA FreshStep ==
    ASSUME Fresh, QueueTypes, StatusTypes, NameTypes, ItemTypes, Bench, Active,
          OneCancel, CountTypes, CancelTypes, Next
    PROVE  Fresh'
  <1>1. CASE UNCHANGED <<status, queue, worker, item>>
    BY <1>1 DEF Fresh, NoWorkFor
  <1>2. ASSUME NEW d \in Delegations, Delegate(d) PROVE Fresh'
    BY <1>2, Forms DEF Fresh, Delegate, None, NoWorkFor
  <1>3. ASSUME NEW d \in Delegations, Acknowledge(d) PROVE Fresh'
    BY <1>3 DEF Fresh, Acknowledge, Label, workVars, None, NoWorkFor
  <1>4. ASSUME NEW r \in Results, SubmitResult(r) PROVE Fresh'
    BY <1>4, Forms, ConstantsAssumption DEF Fresh, NameTypes, Active, SubmitResult,
        workVars, NoWorkFor
  <1>5. ASSUME NEW c \in Cancels, JoinCancel(c) PROVE Fresh'
    BY <1>5 DEF Fresh, StatusTypes, OneCancel, JoinCancel, Label, workVars, NoWorkFor
  <1>6. ASSUME NEW c \in Cancels, CancelWork(c) PROVE Fresh'
    BY <1>6, Forms DEF Fresh, CancelWork, NoWorkFor, IsWork
  <1>7. ASSUME NEW c \in Cancels, CancelSucceeds(c) PROVE Fresh'
    BY <1>7, Forms DEF Fresh, NameTypes, CancelSucceeds, DeferredRuns, workVars, None,
        NoWorkFor
  <1>8. ASSUME TakeSignal PROVE Fresh'
    BY <1>8 DEF Fresh, TakeSignal, Take, callVars, NoWorkFor
  <1>9. ASSUME TakeResult PROVE Fresh'
    BY <1>9 DEF Fresh, TakeResult, Take, Start, callVars, NoWorkFor, IsWork
  <1>10. ASSUME TakeTask PROVE Fresh'
    BY <1>10 DEF Fresh, StatusTypes, TakeTask, Label, Take, Start, None, NoWorkFor,
        IsWork
  <1>11. ASSUME WorkerSpeaks PROVE Fresh'
    BY <1>11 DEF Fresh, WorkerSpeaks, callVars, NoWorkFor
  <1>12. ASSUME WorkerReturns PROVE Fresh'
    BY <1>12 DEF Fresh, StatusTypes, WorkerReturns, Label, None, NoWorkFor
  <1>13. ASSUME WorkRuns PROVE Fresh'
    BY <1>13 DEF Fresh, StatusTypes, WorkRuns, Label, None, NoWorkFor
  <1>14. ASSUME RunFinally PROVE Fresh'
    <2>1. \A n \in 1..Len(queue') : (n \in 1..Len(queue) /\ queue'[n] = queue[n]) \/ queue'[n] = Sentinel
      BY <1>14, Finally
    <2>2. \A n \in 1..Len(queue) : n \in 1..Len(queue') /\ queue'[n] = queue[n]
      BY <1>14, Finally
    <2> QED  BY <1>14, <2>1, <2>2, Finally, Forms DEF Fresh, NoWorkFor, IsWork
  <1>15. ASSUME RunPuts PROVE Fresh'
    BY <1>15, Forms DEF Fresh, RunPuts, callVars, workVars, NoWorkFor, IsWork
  <1>16. ASSUME RunDrains PROVE Fresh'
    BY <1>16 DEF Fresh, RunDrains, workVars, NoWorkFor
  <1>17. ASSUME RunEnds PROVE Fresh'
    BY <1>17 DEF Fresh, RunEnds, Closed, workVars, None, NoWorkFor
  <1>18. ASSUME ReaderSpeaks \/ ReaderEnds \/ Close \/ WorkPlans \/ WorkFails
              \/ WorkSends \/ WorkCancelled \/ RunCloses
       PROVE  UNCHANGED <<status, queue, worker, item>>
    BY <1>18 DEF ReaderSpeaks, callVars, workVars, ReaderEnds, Close, WorkPlans,
        WorkFails, WorkSends, WorkCancelled, RunCloses
  <1>19. ASSUME NEW c \in Cancels, CancelFails(c)
       PROVE  UNCHANGED <<status, queue, worker, item>>
    BY <1>19 DEF CancelFails, callVars, workVars
  <1> QED  BY <1>1, <1>2, <1>3, <1>4, <1>5, <1>6, <1>7, <1>8, <1>9, <1>10, <1>11, <1>12,
              <1>13, <1>14, <1>15, <1>16, <1>17, <1>18, <1>19
      DEF Next, Read, Ask, CancelStep, WorkerStep, WorkStep, RunStep

(* Nor for one that was cancelled.                                         *)
LEMMA QuietStep ==
    ASSUME Quiet, QueueTypes, NameTypes, ItemTypes, Bench, Active, OneCancel,
          CountTypes, CancelTypes, Fresh, Behind, Ending, WorkerTypes, StatusTypes, Next
    PROVE  Quiet'
  <1>1. CASE UNCHANGED <<status, queue, worker, item>>
    BY <1>1 DEF Quiet, NoWorkFor
  <1>2. ASSUME NEW d \in Delegations, Delegate(d) PROVE Quiet'
    BY <1>2, Forms DEF Quiet, Delegate, NoWorkFor
  <1>3. ASSUME NEW d \in Delegations, Acknowledge(d) PROVE Quiet'
    BY <1>3 DEF Quiet, Acknowledge, Label, workVars, NoWorkFor
  <1>4. ASSUME NEW r \in Results, SubmitResult(r) PROVE Quiet'
    BY <1>4, Forms, ConstantsAssumption DEF Quiet, NameTypes, Active, SubmitResult,
        workVars, NoWorkFor
  <1>5. ASSUME NEW c \in Cancels, JoinCancel(c) PROVE Quiet'
    BY <1>5 DEF Quiet, OneCancel, Fresh, StatusTypes, JoinCancel, Label, workVars,
        NoWorkFor
  <1>6. ASSUME NEW c \in Cancels, CancelWork(c) PROVE Quiet'
    BY <1>6, Forms DEF Quiet, CancelWork, NoWorkFor, IsWork
  <1>7. ASSUME NEW c \in Cancels, CancelSucceeds(c) PROVE Quiet'
    BY <1>7, Forms, ConstantsAssumption DEF Quiet, NameTypes, Behind, CancelSucceeds,
        DeferredRuns, workVars, NoWorkFor
  <1>8. ASSUME TakeSignal PROVE Quiet'
    BY <1>8 DEF Quiet, TakeSignal, Take, callVars, NoWorkFor
  <1>9. ASSUME TakeResult PROVE Quiet'
    BY <1>9 DEF Quiet, TakeResult, Take, Start, callVars, NoWorkFor, IsWork
  <1>10. ASSUME TakeTask PROVE Quiet'
    BY <1>10 DEF Quiet, StatusTypes, TakeTask, Label, Take, Start, NoWorkFor, IsWork
  <1>11. ASSUME WorkerSpeaks PROVE Quiet'
    BY <1>11 DEF Quiet, WorkerSpeaks, callVars, NoWorkFor
  <1>12. ASSUME WorkerReturns PROVE Quiet'
    BY <1>12 DEF Quiet, StatusTypes, WorkerReturns, Label, NoWorkFor
  <1>13. ASSUME WorkRuns PROVE Quiet'
    BY <1>13 DEF Quiet, StatusTypes, WorkRuns, Label, NoWorkFor
  <1>14. ASSUME RunFinally PROVE Quiet'
    <2>1. \A n \in 1..Len(queue') : (n \in 1..Len(queue) /\ queue'[n] = queue[n]) \/ queue'[n] = Sentinel
      BY <1>14, Finally
    <2>2. \A n \in 1..Len(queue) : n \in 1..Len(queue') /\ queue'[n] = queue[n]
      BY <1>14, Finally
    <2> QED  BY <1>14, <2>1, <2>2, Finally, Forms DEF Quiet, NoWorkFor, IsWork
  <1>15. ASSUME RunPuts PROVE Quiet'
    BY <1>15, Forms DEF Quiet, RunPuts, callVars, workVars, NoWorkFor, IsWork
  <1>16. ASSUME RunDrains PROVE Quiet'
    BY <1>16 DEF Quiet, RunDrains, workVars, NoWorkFor
  <1>17. ASSUME RunEnds PROVE Quiet'
    BY <1>17 DEF Quiet, Ending, RunEnds, workVars, NoWorkFor
  <1>18. ASSUME ReaderSpeaks \/ ReaderEnds \/ Close \/ WorkPlans \/ WorkFails
              \/ WorkSends \/ WorkCancelled \/ RunCloses
       PROVE  UNCHANGED <<status, queue, worker, item>>
    BY <1>18 DEF ReaderSpeaks, callVars, workVars, ReaderEnds, Close, WorkPlans,
        WorkFails, WorkSends, WorkCancelled, RunCloses
  <1>19. ASSUME NEW c \in Cancels, CancelFails(c)
       PROVE  UNCHANGED <<status, queue, worker, item>>
    BY <1>19 DEF CancelFails, callVars, workVars
  <1> QED  BY <1>1, <1>2, <1>3, <1>4, <1>5, <1>6, <1>7, <1>8, <1>9, <1>10, <1>11, <1>12,
              <1>13, <1>14, <1>15, <1>16, <1>17, <1>18, <1>19
      DEF Next, Read, Ask, CancelStep, WorkerStep, WorkStep, RunStep

(* One cancel is under way at a time, with its barrier.                    *)
LEMMA OneCancelStep ==
    ASSUME OneCancel, QueueTypes, NameTypes, CancelTypes, Active, Ending, StatusTypes,
          Fresh, ItemTypes, Bench, Next
    PROVE  OneCancel'
  <1>1. CASE UNCHANGED <<cancel, canceller, queue, deferred, active, status>>
    BY <1>1 DEF OneCancel, Cancelling
  <1>2. ASSUME NEW d \in Delegations, Delegate(d) PROVE OneCancel'
    BY <1>2, Forms DEF OneCancel, Delegate, Cancelling
  <1>3. ASSUME NEW d \in Delegations, Acknowledge(d) PROVE OneCancel'
    BY <1>3 DEF OneCancel, Acknowledge, Label, cancelVars, Cancelling
  <1>4. ASSUME NEW r \in Results, SubmitResult(r) PROVE OneCancel'
    BY <1>4, Forms, ConstantsAssumption DEF OneCancel, NameTypes, Active, SubmitResult,
        cancelVars, Cancelling
  <1>5. ASSUME NEW c \in Cancels, JoinCancel(c) PROVE OneCancel'
    BY <1>5 DEF OneCancel, JoinCancel
  <1>6. ASSUME NEW c \in Cancels, CancelWork(c) PROVE OneCancel'
    BY <1>6, ConstantsAssumption DEF OneCancel, CancelTypes, CancelWork, Cancelling,
        FirstPhase
  <1>7. ASSUME NEW c \in Cancels, CancelSucceeds(c) PROVE OneCancel'
    BY <1>7, Forms DEF OneCancel, NameTypes, CancelTypes, CancelSucceeds, DeferredRuns,
        Cancelling
  <1>8. ASSUME NEW c \in Cancels, CancelFails(c) PROVE OneCancel'
    BY <1>8 DEF OneCancel, CancelTypes, CancelFails, Cancelling
  <1>9. ASSUME TakeSignal PROVE OneCancel'
    BY <1>9, QueueFacts, Forms DEF OneCancel, CancelTypes, Fresh, ItemTypes, Bench,
        TakeSignal, Take, callVars, Cancelling, Unfinished, IsWork
  <1>10. ASSUME TakeResult PROVE OneCancel'
    BY <1>10 DEF OneCancel, TakeResult, Take, callVars, cancelVars, Cancelling
  <1>11. ASSUME TakeTask PROVE OneCancel'
    BY <1>11 DEF OneCancel, NameTypes, StatusTypes, Fresh, Bench, TakeTask, Label, Take,
        Subject, cancelVars, Cancelling, NoWorkFor
  <1>12. ASSUME WorkerReturns PROVE OneCancel'
    BY <1>12 DEF OneCancel, NameTypes, StatusTypes, Fresh, WorkerReturns, Label,
        Subject, cancelVars, Cancelling, NoWorkFor
  <1>13. ASSUME WorkRuns PROVE OneCancel'
    BY <1>13 DEF OneCancel, NameTypes, StatusTypes, Fresh, Bench, WorkRuns, Label,
        Subject, cancelVars, None, Cancelling, NoWorkFor
  <1>14. ASSUME RunFinally PROVE OneCancel'
    <2>1. \A n \in 1..Len(queue') : (n \in 1..Len(queue) /\ queue'[n] = queue[n]) \/ queue'[n] = Sentinel
      BY <1>14, Finally
    <2>2. \A n \in 1..Len(queue) : n \in 1..Len(queue') /\ queue'[n] = queue[n]
      BY <1>14, Finally
    <2> QED  BY <1>14, <2>1, <2>2, Finally, Forms DEF OneCancel, Cancelling
  <1>15. ASSUME RunPuts PROVE OneCancel'
    BY <1>15, Forms DEF OneCancel, RunPuts, callVars, cancelVars, Cancelling
  <1>16. ASSUME RunDrains PROVE OneCancel'
    BY <1>16, Forms DEF OneCancel, RunDrains, Refused, Left, callVars, Cancelling
  <1>17. ASSUME RunEnds PROVE OneCancel'
    BY <1>17 DEF OneCancel, RunEnds, cancelVars, Cancelling
  <1>18. ASSUME ReaderSpeaks \/ ReaderEnds \/ Close \/ WorkerSpeaks \/ WorkPlans
              \/ WorkFails \/ WorkSends \/ WorkCancelled \/ RunCloses
       PROVE  UNCHANGED <<cancel, canceller, queue, deferred, active, status>>
    BY <1>18 DEF ReaderSpeaks, callVars, cancelVars, ReaderEnds, Close, WorkerSpeaks,
        WorkPlans, WorkFails, WorkSends, WorkCancelled, RunCloses
  <1> QED  BY <1>1, <1>2, <1>3, <1>4, <1>5, <1>6, <1>7, <1>8, <1>9, <1>10, <1>11, <1>12,
              <1>13, <1>14, <1>15, <1>16, <1>17, <1>18
      DEF Next, Read, Ask, CancelStep, WorkerStep, WorkStep, RunStep

(* Nothing of what a cancel cancels comes behind its barrier.              *)
LEMMA BehindStep ==
    ASSUME Behind, QueueTypes, NameTypes, CancelTypes, Active, OneCancel, StatusTypes,
          Fresh, ItemTypes, Bench, CountTypes, Ending, WorkerTypes, Next
    PROVE  Behind'
  <1>1. CASE UNCHANGED <<cancel, previous, active, status, queue, worker, item>>
    BY <1>1 DEF Behind, NoWorkFor
  <1>2. ASSUME NEW d \in Delegations, Delegate(d) PROVE Behind'
    <2>1. /\ status[d] = None /\ UNCHANGED <<cancel, canceller, previous, worker, item>>
          /\ d # active /\ active' = d
      BY <1>2, ConstantsAssumption DEF Delegate, Active
    <2>2. queue' = queue \/ queue' = Append(queue, Task(d))
      BY <1>2 DEF Delegate
    <2> SUFFICES ASSUME NEW c \in Cancels, cancel[c] \in {"barrier", "reached", "refused"},
                        previous[c] # None
                 PROVE  /\ previous[c] # d /\ status'[previous[c]] = status[previous[c]]
                        /\ status[previous[c]] \in Unfinished
                        /\ cancel[c] = "barrier" => \A i, j \in 1..Len(queue') :
                              queue'[i][1] = "barrier" /\ IsWork(queue'[j])
                                 /\ queue'[j][2] = previous[c] => j < i
                        /\ cancel[c] = "reached" => NoWorkFor(previous[c])'
      BY <2>1 DEF Behind, NoWorkFor, IsWork, Unfinished
    <2>3. previous[c] # d /\ status[previous[c]] \in Unfinished /\ previous[c] # active
      BY <2>1 DEF Behind, Unfinished, None
    <2>4. status'[previous[c]] = status[previous[c]]
      BY <1>2, <2>3 DEF Delegate, Old, CancelTypes
    <2>5. cancel[c] = "barrier" => \A i, j \in 1..Len(queue') :
             queue'[i][1] = "barrier" /\ IsWork(queue'[j])
                /\ queue'[j][2] = previous[c] => j < i
      <3>1. \A n \in 1..Len(queue') : \/ n \in 1..Len(queue) /\ queue'[n] = queue[n]
                                      \/ queue'[n] = Task(d)
        BY <2>2
      <3> QED  BY <2>3, <3>1, Forms DEF Behind
    <2>6. cancel[c] = "reached" => NoWorkFor(previous[c])'
      BY <2>1, <2>2, <2>3, Forms DEF Behind, NoWorkFor, IsWork
    <2> QED  BY <2>3, <2>4, <2>5, <2>6
  <1>3. ASSUME NEW d \in Delegations, Acknowledge(d) PROVE Behind'
    BY <1>3 DEF Behind, Acknowledge, Label, cancelVars, workVars, Unfinished, NoWorkFor
  <1>4. ASSUME NEW r \in Results, SubmitResult(r) PROVE Behind'
    BY <1>4, ConstantsAssumption DEF Behind, Active, OneCancel, SubmitResult,
        cancelVars, Cancelling
  <1>5. ASSUME NEW c \in Cancels, JoinCancel(c) PROVE Behind'
    BY <1>5 DEF Behind, CancelTypes, OneCancel, StatusTypes, JoinCancel, Label,
        workVars, NoWorkFor
  <1>6. ASSUME NEW c \in Cancels, CancelWork(c) PROVE Behind'
    BY <1>6, Forms DEF Behind, CancelTypes, OneCancel, WorkerTypes, CancelWork, Old,
        Cancelling, FirstPhase, NoWorkFor, IsWork
  <1>7. ASSUME NEW c \in Cancels, CancelSucceeds(c) PROVE Behind'
    BY <1>7 DEF Behind, CancelTypes, OneCancel, CancelSucceeds
  <1>8. ASSUME NEW c \in Cancels, CancelFails(c) PROVE Behind'
    BY <1>8 DEF Behind, CancelTypes, OneCancel, CancelFails
  <1>9. ASSUME TakeSignal PROVE Behind'
    <2>1. /\ queue # <<>> /\ queue' = Tail(queue) /\ worker = "get" /\ ~IsWork(Head(queue))
          /\ UNCHANGED <<active, status, canceller, previous, item>>
          /\ worker' \in {"get", "done"}
      BY <1>9 DEF TakeSignal, Take, callVars
    <2>2. /\ Head(queue) = queue[1] /\ 1 \in 1..Len(queue) /\ queue[1] \in Items
          /\ \A n \in 1..Len(queue') :
                n + 1 \in 1..Len(queue) /\ n + 1 > 1 /\ queue'[n] = queue[n + 1]
      BY <2>1, QueueFacts
    <2>3. \/ cancel' = cancel
          \/ /\ queue[1][1] = "barrier"
             /\ cancel' = [cancel EXCEPT ![canceller] = "reached"]
      <3>1. Head(queue) = Sentinel \/ Head(queue)[1] = "barrier"
        BY <2>1, <2>2 DEF Items, IsWork, Task, Result, Barrier
      <3>2. Head(queue) = Sentinel => cancel' = cancel
        BY <1>9 DEF TakeSignal
      <3>3. Head(queue) # Sentinel => cancel' = [cancel EXCEPT ![canceller] = "reached"]
        BY <1>9 DEF TakeSignal
      <3> QED  BY <2>2, <3>1, <3>2, <3>3
    <2>4. CASE cancel' = cancel
      <3>1. \A d : NoWorkFor(d) => NoWorkFor(d)'
        BY <2>1, <2>2 DEF NoWorkFor, IsWork
      <3> SUFFICES ASSUME NEW c \in Cancels, cancel[c] \in {"barrier", "reached", "refused"},
                          previous[c] # None, cancel[c] = "barrier",
                          NEW m \in 1..Len(queue'), NEW n \in 1..Len(queue'),
                          queue'[m][1] = "barrier", IsWork(queue'[n]),
                          queue'[n][2] = previous[c]
                   PROVE  n < m
        BY <2>1, <2>4, <3>1 DEF Behind, Unfinished
      <3>2. n + 1 < m + 1
        BY <2>2 DEF Behind, IsWork
      <3> QED  BY <3>2
    <2>5. CASE /\ queue[1][1] = "barrier"
               /\ cancel' = [cancel EXCEPT ![canceller] = "reached"]
      <3>1. canceller \in Cancels /\ cancel[canceller] = "barrier"
        BY <2>2, <2>5 DEF OneCancel, CancelTypes
      <3>2. \A c \in Cancels : cancel'[c] \in {"barrier", "reached", "refused"} =>
               c = canceller /\ cancel'[c] = "reached"
        BY <2>5, <3>1 DEF OneCancel, CancelTypes
      <3>3. previous[canceller] # None => NoWorkFor(previous[canceller])'
        <4>1. previous[canceller] # None => \A n \in 1..Len(queue) :
                 IsWork(queue[n]) => queue[n][2] # previous[canceller]
          BY <2>2, <2>5, <3>1 DEF Behind
        <4> QED  BY <2>1, <2>2, <4>1 DEF NoWorkFor, IsWork
      <3>4. previous[canceller] # None =>
               previous[canceller] # active /\ status[previous[canceller]] \in Unfinished
        BY <3>1 DEF Behind
      <3> QED  BY <2>1, <3>2, <3>3, <3>4 DEF Behind, Unfinished, NoWorkFor
    <2> QED  BY <2>3, <2>4, <2>5
  <1>10. ASSUME TakeResult PROVE Behind'
    BY <1>10, QueueFacts DEF Behind, ItemTypes, TakeResult, Take, Start, callVars,
        cancelVars, NoWorkFor, IsWork
  <1>11. ASSUME TakeTask PROVE Behind'
    BY <1>11 DEF Behind, CancelTypes, StatusTypes, ItemTypes, Bench, CountTypes,
        TakeTask, Label, Take, Start, MayAnswer, cancelVars, None, NoWorkFor, IsWork
  <1>12. ASSUME WorkerSpeaks PROVE Behind'
    BY <1>12 DEF Behind, WorkerSpeaks, callVars, cancelVars, NoWorkFor
  <1>13. ASSUME WorkerReturns PROVE Behind'
    BY <1>13 DEF Behind, CancelTypes, StatusTypes, WorkerReturns, Label, MayAnswer,
        cancelVars, NoWorkFor
  <1>14. ASSUME WorkRuns PROVE Behind'
    BY <1>14 DEF Behind, CancelTypes, StatusTypes, WorkRuns, Label, MayAnswer,
        cancelVars, NoWorkFor
  <1>15. ASSUME RunFinally PROVE Behind'
    <2>1. \A n \in 1..Len(queue') :
             (n \in 1..Len(queue) /\ queue'[n] = queue[n]) \/ queue'[n] = Sentinel
      BY <1>15, Finally
    <2>2. UNCHANGED <<cancel, canceller, previous, active, status, worker, item>>
      BY <1>15, Finally
    <2> SUFFICES ASSUME NEW c \in Cancels, cancel[c] \in {"barrier", "reached", "refused"},
                        previous[c] # None
                 PROVE  /\ cancel[c] = "barrier" => \A i, j \in 1..Len(queue') :
                              queue'[i][1] = "barrier" /\ IsWork(queue'[j])
                                 /\ queue'[j][2] = previous[c] => j < i
                        /\ cancel[c] = "reached" => NoWorkFor(previous[c])'
      BY <2>2 DEF Behind, NoWorkFor, IsWork
    <2>3. cancel[c] = "barrier" => \A i, j \in 1..Len(queue') :
             queue'[i][1] = "barrier" /\ IsWork(queue'[j])
                /\ queue'[j][2] = previous[c] => j < i
      BY <2>1, Forms DEF Behind, IsWork
    <2>4. cancel[c] = "reached" => NoWorkFor(previous[c])'
      BY <2>1, <2>2, Forms DEF Behind, NoWorkFor, IsWork
    <2> QED  BY <2>3, <2>4
  <1>16. ASSUME RunPuts PROVE Behind'
    BY <1>16, Forms DEF Behind, RunPuts, callVars, cancelVars, workVars, NoWorkFor,
        IsWork
  <1>17. ASSUME RunDrains PROVE Behind'
    BY <1>17, Forms DEF Behind, OneCancel, RunDrains, Refused, Left, callVars, workVars,
        NoWorkFor
  <1>18. ASSUME RunEnds PROVE Behind'
    BY <1>18, ConstantsAssumption DEF Behind, OneCancel, RunEnds, cancelVars
  <1>19. ASSUME ReaderSpeaks \/ ReaderEnds \/ Close \/ WorkPlans \/ WorkFails
              \/ WorkSends \/ WorkCancelled \/ RunCloses
       PROVE  UNCHANGED <<cancel, previous, active, status, queue, worker, item>>
    BY <1>19 DEF ReaderSpeaks, callVars, cancelVars, workVars, ReaderEnds, Close,
        WorkPlans, WorkFails, WorkSends, WorkCancelled, RunCloses
  <1> QED  BY <1>1, <1>2, <1>3, <1>4, <1>5, <1>6, <1>7, <1>8, <1>9, <1>10, <1>11, <1>12,
              <1>13, <1>14, <1>15, <1>16, <1>17, <1>18, <1>19
      DEF Next, Read, Ask, CancelStep, WorkerStep, WorkStep, RunStep

(* The active delegation keeps its state.                                  *)
LEMMA ActiveStep ==
    ASSUME Active, QueueTypes, OneTask, Ending, NameTypes, CancelTypes, OneCancel,
          StatusTypes, ItemTypes, Bench, CountTypes, Behind, Fresh, Next
    PROVE  Active'
  <1>1. CASE UNCHANGED <<active, status, stop, deferred, pending>>
    BY <1>1 DEF Active
  <1>2. ASSUME NEW d \in Delegations, Delegate(d) PROVE Active'
    BY <1>2 DEF Active, Delegate, None
  <1>3. ASSUME NEW d \in Delegations, Acknowledge(d) PROVE Active'
    BY <1>3 DEF Active, Acknowledge, Label, cancelVars, None
  <1>4. ASSUME ReaderSpeaks PROVE Active'
    BY <1>4 DEF Active, ReaderSpeaks, callVars, cancelVars
  <1>5. ASSUME ReaderEnds PROVE Active'
    BY <1>5 DEF Active, ReaderEnds, callVars, cancelVars
  <1>6. ASSUME Close PROVE Active'
    BY <1>6 DEF Active, Close, callVars
  <1>7. ASSUME NEW r \in Results, SubmitResult(r) PROVE Active'
    BY <1>7 DEF Active, SubmitResult, cancelVars
  <1>8. ASSUME NEW c \in Cancels, JoinCancel(c) PROVE Active'
    BY <1>8 DEF Active, OneCancel, JoinCancel
  <1>9. ASSUME NEW c \in Cancels, CancelWork(c) PROVE Active'
    BY <1>9 DEF Active, CancelWork
  <1>10. ASSUME NEW c \in Cancels, CancelSucceeds(c) PROVE Active'
    BY <1>10 DEF Active, NameTypes, OneCancel, Behind, CancelSucceeds, DeferredRuns,
        None
  <1>11. ASSUME NEW c \in Cancels, CancelFails(c) PROVE Active'
    BY <1>11 DEF Active, CancelFails, callVars
  <1>12. ASSUME TakeTask PROVE Active'
    BY <1>12 DEF Active, OneTask, NameTypes, StatusTypes, TakeTask, Label, Take,
        Subject, cancelVars, None
  <1>13. ASSUME WorkerReturns PROVE Active'
    BY <1>13 DEF Active, OneTask, NameTypes, StatusTypes, WorkerReturns, Label, Subject,
        cancelVars, None
  <1>14. ASSUME WorkRuns PROVE Active'
    BY <1>14, Forms, ConstantsAssumption DEF Active, OneTask, StatusTypes, ItemTypes,
        Bench, WorkRuns, Label, MayAnswer, Subject, cancelVars, None, IsWork
  <1>15. ASSUME RunCloses PROVE Active'
    BY <1>15 DEF Active, RunCloses, callVars
  <1>16. ASSUME RunFinally PROVE Active'
    BY <1>16 DEF Active, RunFinally, callVars
  <1>17. ASSUME RunEnds PROVE Active'
    BY <1>17 DEF Active, Ending, NameTypes, RunEnds, Closed, None
  <1>18. ASSUME TakeSignal \/ TakeResult \/ WorkerSpeaks \/ WorkPlans \/ WorkFails
              \/ WorkSends \/ WorkCancelled \/ RunPuts \/ RunDrains
       PROVE  UNCHANGED <<active, status, stop, deferred, pending>>
    BY <1>18 DEF TakeSignal, callVars, TakeResult, cancelVars, WorkerSpeaks, WorkPlans,
        WorkFails, WorkSends, WorkCancelled, RunPuts, RunDrains
  <1> QED  BY <1>1, <1>2, <1>3, <1>4, <1>5, <1>6, <1>7, <1>8, <1>9, <1>10, <1>11, <1>12,
              <1>13, <1>14, <1>15, <1>16, <1>17, <1>18
      DEF Next, Read, Ask, CancelStep, WorkerStep, WorkStep, RunStep

(* No delegation gets a second piece of work.                              *)
LEMMA OneTaskStep ==
    ASSUME OneTask, QueueTypes, NameTypes, CancelTypes, Active, OneCancel, StatusTypes,
          Fresh, ItemTypes, Bench, CountTypes, Stale, WorkerTypes, Next
    PROVE  OneTask'
  <1>1. CASE UNCHANGED <<queue, worker, work, item, pending, active>>
    BY <1>1 DEF OneTask
  <1>2. ASSUME NEW d \in Delegations, Delegate(d) PROVE OneTask'
    <2>1. /\ status[d] = None /\ UNCHANGED <<worker, item, work>>
          /\ active' = d /\ pending' = 0
      BY <1>2 DEF Delegate
    <2>2. queue' = queue \/ queue' = Append(queue, Task(d))
      BY <1>2 DEF Delegate
    <2>3. \A n \in 1..Len(queue') : \/ n \in 1..Len(queue) /\ queue'[n] = queue[n]
                                    \/ n = Len(queue) + 1 /\ queue'[n] = Task(d)
      <3>1. Task(d) \in Items
        BY Forms
      <3> QED  BY <2>2, <3>1
    <2>4. NoWorkFor(d)
      BY <2>1 DEF Fresh
    <2> QED  BY <2>1, <2>3, <2>4, Forms DEF OneTask, NoWorkFor, IsWork
  <1>3. ASSUME NEW r \in Results, SubmitResult(r) PROVE OneTask'
    BY <1>3, Forms, ConstantsAssumption DEF OneTask, NameTypes, Active, OneCancel,
        StatusTypes, SubmitResult, Full, workVars, IsWork, NoWorkFor
  <1>4. ASSUME NEW c \in Cancels, JoinCancel(c) PROVE OneTask'
    BY <1>4 DEF OneTask, Active, OneCancel, JoinCancel, workVars
  <1>5. ASSUME NEW c \in Cancels, CancelWork(c) PROVE OneTask'
    BY <1>5, Forms DEF OneTask, Bench, CancelWork, IsWork
  <1>6. ASSUME NEW c \in Cancels, CancelSucceeds(c) PROVE OneTask'
    BY <1>6, Forms DEF OneTask, NameTypes, Active, OneCancel, Fresh, CancelSucceeds,
        DeferredRuns, workVars, NoWorkFor
  <1>7. ASSUME TakeSignal PROVE OneTask'
    BY <1>7 DEF OneTask, Fresh, WorkerTypes, TakeSignal, Take, callVars
  <1>8. ASSUME TakeResult PROVE OneTask'
    BY <1>8, QueueFacts DEF OneTask, Fresh, TakeResult, Take, Start, callVars, IsWork,
        Cancelling, NoWorkFor
  <1>9. ASSUME TakeTask PROVE OneTask'
    BY <1>9 DEF OneTask, TakeTask, Take, Start, IsWork
  <1>10. ASSUME WorkerSpeaks PROVE OneTask'
    BY <1>10 DEF OneTask, WorkerSpeaks, callVars
  <1>11. ASSUME WorkerReturns PROVE OneTask'
    BY <1>11 DEF OneTask, WorkerReturns
  <1>12. ASSUME WorkPlans PROVE OneTask'
    BY <1>12 DEF OneTask, WorkPlans, callVars
  <1>13. ASSUME WorkFails PROVE OneTask'
    BY <1>13 DEF OneTask, WorkFails, callVars
  <1>14. ASSUME WorkRuns PROVE OneTask'
    BY <1>14 DEF OneTask, Bench, WorkRuns, MayAnswer, Subject, None
  <1>15. ASSUME WorkSends PROVE OneTask'
    BY <1>15 DEF OneTask, WorkSends, callVars
  <1>16. ASSUME WorkCancelled PROVE OneTask'
    BY <1>16 DEF OneTask, WorkCancelled, callVars
  <1>17. ASSUME RunFinally PROVE OneTask'
    <2>1. \A n \in 1..Len(queue') : (n \in 1..Len(queue) /\ queue'[n] = queue[n]) \/ queue'[n] = Sentinel
      BY <1>17, Finally
    <2>2. \A n \in 1..Len(queue) : n \in 1..Len(queue') /\ queue'[n] = queue[n]
      BY <1>17, Finally
    <2> QED  BY <1>17, <2>1, <2>2, Finally, Forms DEF OneTask, IsWork
  <1>18. ASSUME RunPuts PROVE OneTask'
    BY <1>18, Forms DEF OneTask, RunPuts, callVars, workVars, IsWork
  <1>19. ASSUME RunDrains PROVE OneTask'
    BY <1>19 DEF OneTask, RunDrains, workVars
  <1>20. ASSUME RunEnds PROVE OneTask'
    BY <1>20 DEF OneTask, RunEnds, workVars
  <1>21. ASSUME NEW d \in Delegations, Acknowledge(d)
       PROVE  UNCHANGED <<queue, worker, work, item, pending, active>>
    BY <1>21 DEF Acknowledge, workVars
  <1>22. ASSUME ReaderSpeaks \/ ReaderEnds \/ Close \/ RunCloses
       PROVE  UNCHANGED <<queue, worker, work, item, pending, active>>
    BY <1>22 DEF ReaderSpeaks, callVars, workVars, ReaderEnds, Close, RunCloses
  <1>23. ASSUME NEW c \in Cancels, CancelFails(c)
       PROVE  UNCHANGED <<queue, worker, work, item, pending, active>>
    BY <1>23 DEF CancelFails, callVars, workVars
  <1> QED  BY <1>1, <1>2, <1>3, <1>4, <1>5, <1>6, <1>7, <1>8, <1>9, <1>10, <1>11, <1>12,
              <1>13, <1>14, <1>15, <1>16, <1>17, <1>18, <1>19, <1>20, <1>21, <1>22,
              <1>23
      DEF Next, Read, Ask, CancelStep, WorkerStep, WorkStep, RunStep

(* A turn that is cancelled, or drains, stays stale.                       *)
LEMMA StaleStep ==
    ASSUME Stale, QueueTypes, NameTypes, ItemTypes, Bench, Active, Fresh, WorkerTypes,
          StatusTypes, Next
    PROVE  Stale'
  <1>1. CASE UNCHANGED <<worker, item, active, stop, killed, work>>
    BY <1>1 DEF Stale
  <1>2. ASSUME NEW d \in Delegations, Delegate(d) PROVE Stale'
    BY <1>2 DEF Stale, Fresh, Delegate, NoWorkFor
  <1>3. ASSUME ReaderSpeaks PROVE Stale'
    BY <1>3 DEF Stale, ReaderSpeaks, callVars, workVars
  <1>4. ASSUME ReaderEnds PROVE Stale'
    BY <1>4 DEF Stale, ReaderEnds, callVars, workVars
  <1>5. ASSUME Close PROVE Stale'
    BY <1>5 DEF Stale, Close
  <1>6. ASSUME NEW c \in Cancels, JoinCancel(c) PROVE Stale'
    BY <1>6, Forms, ConstantsAssumption DEF Stale, ItemTypes, Bench, JoinCancel,
        workVars, IsWork
  <1>7. ASSUME NEW c \in Cancels, CancelWork(c) PROVE Stale'
    BY <1>7, Forms, ConstantsAssumption DEF Stale, ItemTypes, Bench, CancelWork, IsWork
  <1>8. ASSUME NEW c \in Cancels, CancelFails(c) PROVE Stale'
    BY <1>8 DEF Stale, CancelFails
  <1>9. ASSUME TakeSignal PROVE Stale'
    BY <1>9 DEF Stale, TakeSignal, Take
  <1>10. ASSUME TakeResult PROVE Stale'
    BY <1>10 DEF Stale, Bench, TakeResult, Take, Start
  <1>11. ASSUME TakeTask PROVE Stale'
    BY <1>11 DEF Stale, Bench, TakeTask, Take, Start
  <1>12. ASSUME WorkerSpeaks PROVE Stale'
    BY <1>12 DEF Stale, WorkerSpeaks
  <1>13. ASSUME WorkerReturns PROVE Stale'
    BY <1>13 DEF Stale, WorkerReturns
  <1>14. ASSUME WorkPlans PROVE Stale'
    BY <1>14 DEF Stale, Bench, WorkPlans, MayAnswer, Subject, callVars
  <1>15. ASSUME WorkFails PROVE Stale'
    BY <1>15 DEF Stale, WorkFails
  <1>16. ASSUME WorkRuns PROVE Stale'
    BY <1>16 DEF Stale, WorkRuns
  <1>17. ASSUME WorkSends PROVE Stale'
    BY <1>17 DEF Stale, WorkSends
  <1>18. ASSUME WorkCancelled PROVE Stale'
    BY <1>18 DEF Stale, WorkCancelled, callVars
  <1>19. ASSUME RunCloses PROVE Stale'
    BY <1>19 DEF Stale, RunCloses
  <1>20. ASSUME RunFinally PROVE Stale'
    BY <1>20 DEF Stale, RunFinally
  <1>21. ASSUME NEW d \in Delegations, Acknowledge(d)
       PROVE  UNCHANGED <<worker, item, active, stop, killed, work>>
    BY <1>21 DEF Acknowledge, workVars
  <1>22. ASSUME NEW r \in Results, SubmitResult(r)
       PROVE  UNCHANGED <<worker, item, active, stop, killed, work>>
    BY <1>22 DEF SubmitResult, workVars
  <1>23. ASSUME NEW c \in Cancels, CancelSucceeds(c)
       PROVE  UNCHANGED <<worker, item, active, stop, killed, work>>
    BY <1>23 DEF CancelSucceeds, workVars
  <1>24. ASSUME RunPuts \/ RunDrains \/ RunEnds
       PROVE  UNCHANGED <<worker, item, active, stop, killed, work>>
    BY <1>24 DEF RunPuts, callVars, workVars, RunDrains, RunEnds
  <1> QED  BY <1>1, <1>2, <1>3, <1>4, <1>5, <1>6, <1>7, <1>8, <1>9, <1>10, <1>11, <1>12,
              <1>13, <1>14, <1>15, <1>16, <1>17, <1>18, <1>19, <1>20, <1>21, <1>22,
              <1>23, <1>24
      DEF Next, Read, Ask, CancelStep, WorkerStep, WorkStep, RunStep

(* What is unfinished stays in somebody's hands.                           *)
LEMMA AccountedStep ==
    ASSUME Accounted, QueueTypes, Ending, EndTypes, NameTypes, CancelTypes, Active,
          OneCancel, StatusTypes, Fresh, ItemTypes, Bench, CountTypes, Stale,
          WorkerTypes, Behind, Next
    PROVE  Accounted'
  <1>1. CASE UNCHANGED <<stop, status, active, canceller, cancel, previous, queue, worker, item, work, pending>>
    BY <1>1 DEF Accounted, Cancelling, Carried
  <1>2. ASSUME NEW d \in Delegations, Delegate(d) PROVE Accounted'
    BY <1>2, Forms DEF Accounted, Delegate, Old, Cancelling, Unfinished, Carried
  <1>3. ASSUME NEW d \in Delegations, Acknowledge(d) PROVE Accounted'
    BY <1>3 DEF Accounted, Acknowledge, Label, cancelVars, workVars, Unfinished,
        Cancelling, Carried
  <1>4. ASSUME ReaderSpeaks PROVE Accounted'
    BY <1>4 DEF Accounted, ReaderSpeaks, callVars, cancelVars, workVars, Cancelling,
        Carried
  <1>5. ASSUME ReaderEnds PROVE Accounted'
    BY <1>5 DEF Accounted, ReaderEnds, callVars, cancelVars, workVars, Cancelling,
        Carried
  <1>6. ASSUME Close PROVE Accounted'
    BY <1>6 DEF Accounted, Close
  <1>7. ASSUME NEW r \in Results, SubmitResult(r) PROVE Accounted'
    BY <1>7, Forms DEF Accounted, NameTypes, SubmitResult, cancelVars, workVars,
        Cancelling, Carried
  <1>8. ASSUME NEW c \in Cancels, JoinCancel(c) PROVE Accounted'
    BY <1>8 DEF Accounted, OneCancel, StatusTypes, JoinCancel, Label, Cancelling,
        Unfinished
  <1>9. ASSUME NEW c \in Cancels, CancelWork(c) PROVE Accounted'
    BY <1>9, ConstantsAssumption DEF Accounted, CancelTypes, CancelWork, Old,
        Cancelling, FirstPhase
  <1>10. ASSUME NEW c \in Cancels, CancelSucceeds(c) PROVE Accounted'
    <2>1. c = canceller /\ cancel' = [cancel EXCEPT ![c] = "done"] /\ canceller # None
          /\ UNCHANGED <<active, pending, stop, worker, item, work>> /\ Cancelling
      BY <1>10, ConstantsAssumption DEF CancelSucceeds, OneCancel, workVars, Cancelling
    <2> SUFFICES ASSUME ~stop PROVE Accounted'
      BY <2>1 DEF Accounted
    <2>2. active # None => /\ active = deferred /\ active # previous[c] /\ active \in Delegations
                           /\ queue' = Append(queue, Task(active)) /\ status'[active] = "running"
      BY <1>10, <2>1 DEF CancelSucceeds, DeferredRuns, OneCancel, Behind, NameTypes
    <2>3. ASSUME NEW d \in Delegations, status'[d] \in Unfinished
          PROVE  d = active
      BY <1>10, <2>1, <2>3 DEF CancelSucceeds, DeferredRuns, Accounted, Unfinished
    <2>4. active # None => Carried("task", active)'
      <3>1. ASSUME active # None PROVE Task(active) \in Items
        BY <2>2, <3>1, Forms
      <3>2. ASSUME active # None
            PROVE  \E k \in 1..Len(queue') : queue'[k] = Task(active)
        BY <2>2, <3>1, <3>2
      <3> QED  BY <2>1, <2>2, <3>2, Forms DEF Carried
    <2> QED  BY <2>1, <2>2, <2>3, <2>4 DEF Accounted
  <1>11. ASSUME NEW c \in Cancels, CancelFails(c) PROVE Accounted'
    BY <1>11 DEF Accounted, CancelFails
  <1>12. ASSUME TakeSignal PROVE Accounted'
    <2>1. Take /\ UNCHANGED <<stop, active, pending, canceller, previous>>
      BY <1>12 DEF TakeSignal, callVars
    <2>2. ASSUME NEW d \in Delegations, status'[d] \in Unfinished
          PROVE  status[d] = status'[d]
      BY <1>12 DEF TakeSignal, callVars, Unfinished
    <2>3. Cancelling => Cancelling' \/ stop
      BY <1>12, <2>1 DEF TakeSignal, Cancelling, CancelTypes
    <2>4. ASSUME ~stop, active # None, status'[active] = "running"
          PROVE  Carried("task", active)'
      <3>1. PICK n \in 1..Len(queue) : queue[n][1] = "task" /\ queue[n][2] = active
        BY <2>1, <2>2, <2>4, Taken DEF Accounted, Carried, NameTypes, Unfinished
      <3> QED  BY <1>12, <2>1, <2>4, <3>1, Taken DEF TakeSignal, Carried, IsWork
    <2>5. ASSUME ~stop, active # None, status'[active] = "pending_host", pending = 0
          PROVE  Carried("result", active)'
      <3>1. PICK n \in 1..Len(queue) : queue[n][1] = "result" /\ queue[n][2] = active
        BY <2>1, <2>2, <2>5, Taken DEF Accounted, Carried, NameTypes, Unfinished
      <3> QED  BY <1>12, <2>1, <3>1, Taken DEF TakeSignal, Carried, IsWork
    <2> QED  BY <2>1, <2>2, <2>3, <2>4, <2>5 DEF Accounted
  <1>13. ASSUME TakeResult PROVE Accounted'
    <2>1. Take /\ UNCHANGED <<stop, active, pending, canceller, previous>>
      BY <1>13 DEF TakeResult, callVars, cancelVars
    <2>2. ASSUME NEW d \in Delegations, status'[d] \in Unfinished
          PROVE  status[d] = status'[d]
      BY <1>13 DEF TakeResult, callVars, Unfinished
    <2>3. Cancelling => Cancelling' \/ stop
      BY <1>13, <2>1 DEF TakeResult, cancelVars, Cancelling
    <2>4. ASSUME ~stop, active # None, status'[active] = "running"
          PROVE  Carried("task", active)'
      <3>1. PICK n \in 1..Len(queue) : queue[n][1] = "task" /\ queue[n][2] = active
        BY <2>1, <2>2, <2>4, Taken DEF Accounted, Carried, NameTypes, Unfinished
      <3> QED  BY <1>13, <2>1, <2>4, <3>1, Taken DEF TakeResult, Carried
    <2>5. ASSUME ~stop, active # None, status'[active] = "pending_host", pending = 0
          PROVE  Carried("result", active)'
      <3>1. PICK n \in 1..Len(queue) : queue[n][1] = "result" /\ queue[n][2] = active
        BY <2>1, <2>2, <2>5, Taken DEF Accounted, Carried, NameTypes, Unfinished
      <3> QED  BY <1>13, <2>1, <3>1, Taken DEF TakeResult, Start, Carried
    <2> QED  BY <2>1, <2>2, <2>3, <2>4, <2>5 DEF Accounted
  <1>14. ASSUME TakeTask PROVE Accounted'
    <2>1. Take /\ UNCHANGED <<stop, active, pending, canceller, previous>>
      BY <1>14 DEF TakeTask, cancelVars
    <2>2. ASSUME NEW d \in Delegations, status'[d] \in Unfinished
          PROVE  status[d] = status'[d]
      <3>1. status' = status \/ \E x : status' = [status EXCEPT ![x] = "result_sent"]
        BY <1>14 DEF TakeTask, Label
      <3> QED  BY <2>2, <3>1 DEF Unfinished, StatusTypes
    <2>3. Cancelling => Cancelling' \/ stop
      BY <1>14, <2>1 DEF TakeTask, cancelVars, Cancelling
    <2>4. ASSUME ~stop, active # None, status'[active] = "running"
          PROVE  Carried("task", active)'
      <3>1. PICK n \in 1..Len(queue) : queue[n][1] = "task" /\ queue[n][2] = active
        BY <2>1, <2>2, <2>4, Taken DEF Accounted, Carried, NameTypes, Unfinished
      <3> QED  BY <1>14, <2>1, <2>4, <3>1, Taken
          DEF TakeTask, Start, Label, MayAnswer, Subject, Carried, IsWork, NameTypes,
              StatusTypes
    <2>5. ASSUME ~stop, active # None, status'[active] = "pending_host", pending = 0
          PROVE  Carried("result", active)'
      <3>1. PICK n \in 1..Len(queue) : queue[n][1] = "result" /\ queue[n][2] = active
        BY <2>1, <2>2, <2>5, Taken DEF Accounted, Carried, NameTypes, Unfinished
      <3> QED  BY <1>14, <2>1, <3>1, Taken DEF TakeTask, Carried
    <2> QED  BY <2>1, <2>2, <2>3, <2>4, <2>5 DEF Accounted
  <1>15. ASSUME WorkerSpeaks PROVE Accounted'
    BY <1>15 DEF Accounted, WorkerSpeaks, callVars, cancelVars, Cancelling, Carried
  <1>16. ASSUME WorkerReturns PROVE Accounted'
    BY <1>16 DEF Accounted, NameTypes, StatusTypes, Bench, WorkerReturns, Label,
        MayAnswer, Subject, cancelVars, Cancelling, Carried
  <1>17. ASSUME WorkPlans PROVE Accounted'
    BY <1>17 DEF Accounted, Bench, WorkPlans, MayAnswer, Subject, callVars, cancelVars,
        Cancelling, Carried
  <1>18. ASSUME WorkFails PROVE Accounted'
    BY <1>18 DEF Accounted, WorkFails, callVars, cancelVars, Cancelling, Carried
  <1>19. ASSUME WorkRuns PROVE Accounted'
    BY <1>19 DEF Accounted, NameTypes, StatusTypes, Bench, CountTypes, WorkRuns, Label,
        MayAnswer, Subject, cancelVars, Cancelling, Carried
  <1>20. ASSUME WorkSends PROVE Accounted'
    BY <1>20 DEF Accounted, WorkSends, callVars, cancelVars, Cancelling, Carried
  <1>21. ASSUME WorkCancelled PROVE Accounted'
    BY <1>21 DEF Accounted, Stale, WorkCancelled, callVars, cancelVars, Cancelling,
        Carried
  <1>22. ASSUME RunCloses PROVE Accounted'
    BY <1>22 DEF Accounted, RunCloses
  <1>23. ASSUME RunFinally PROVE Accounted'
    <2>1. \A n \in 1..Len(queue') : (n \in 1..Len(queue) /\ queue'[n] = queue[n]) \/ queue'[n] = Sentinel
      BY <1>23, Finally
    <2>2. \A n \in 1..Len(queue) : n \in 1..Len(queue') /\ queue'[n] = queue[n]
      BY <1>23, Finally
    <2> QED  BY <1>23, <2>1, <2>2, Finally DEF Accounted
  <1>24. ASSUME RunPuts PROVE Accounted'
    BY <1>24 DEF Accounted, Ending, RunPuts
  <1>25. ASSUME RunDrains PROVE Accounted'
    BY <1>25 DEF Accounted, Ending, RunDrains
  <1>26. ASSUME RunEnds PROVE Accounted'
    BY <1>26 DEF Accounted, Ending, RunEnds
  <1> QED  BY <1>1, <1>2, <1>3, <1>4, <1>5, <1>6, <1>7, <1>8, <1>9, <1>10, <1>11, <1>12,
              <1>13, <1>14, <1>15, <1>16, <1>17, <1>18, <1>19, <1>20, <1>21, <1>22,
              <1>23, <1>24, <1>25, <1>26
      DEF Next, Read, Ask, CancelStep, WorkerStep, WorkStep, RunStep

(* The place of the barrier stays free until the cancel is done.           *)
LEMMA RoomStep ==
    ASSUME Room, QueueTypes, Ending, EndTypes, NameTypes, CancelTypes, Active,
          OneCancel, CountTypes, Next
    PROVE  Room'
  <1>1. CASE UNCHANGED <<stop, canceller, cancel, queue>>
    BY <1>1 DEF Room, Cancelling
  <1>2. ASSUME NEW d \in Delegations, Delegate(d) PROVE Room'
    BY <1>2 DEF Room, Delegate, Cancelling
  <1>3. ASSUME ReaderSpeaks PROVE Room'
    BY <1>3 DEF Room, ReaderSpeaks, cancelVars, Cancelling
  <1>4. ASSUME ReaderEnds PROVE Room'
    BY <1>4 DEF Room, ReaderEnds, cancelVars, Cancelling
  <1>5. ASSUME Close PROVE Room'
    BY <1>5 DEF Room, Close
  <1>6. ASSUME NEW r \in Results, SubmitResult(r) PROVE Room'
    BY <1>6, ConstantsAssumption DEF Room, Active, OneCancel, SubmitResult, cancelVars,
        Cancelling
  <1>7. ASSUME NEW c \in Cancels, JoinCancel(c) PROVE Room'
    BY <1>7 DEF Room, JoinCancel
  <1>8. ASSUME NEW c \in Cancels, CancelWork(c) PROVE Room'
    BY <1>8 DEF Room, CancelWork, FirstPhase
  <1>9. ASSUME NEW c \in Cancels, CancelSucceeds(c) PROVE Room'
    BY <1>9 DEF Room, CancelTypes, OneCancel, CancelSucceeds
  <1>10. ASSUME NEW c \in Cancels, CancelFails(c) PROVE Room'
    BY <1>10 DEF Room, CancelFails
  <1>11. ASSUME TakeSignal PROVE Room'
    BY <1>11, ConstantsAssumption DEF Room, QueueTypes, TakeSignal, Take
  <1>12. ASSUME TakeResult PROVE Room'
    BY <1>12, ConstantsAssumption DEF Room, QueueTypes, TakeResult, Take
  <1>13. ASSUME TakeTask PROVE Room'
    BY <1>13, ConstantsAssumption DEF Room, QueueTypes, TakeTask, Take
  <1>14. ASSUME RunCloses PROVE Room'
    BY <1>14 DEF Room, RunCloses
  <1>15. ASSUME RunFinally PROVE Room'
    <2>1. \A n \in 1..Len(queue') : (n \in 1..Len(queue) /\ queue'[n] = queue[n]) \/ queue'[n] = Sentinel
      BY <1>15, Finally
    <2>2. \A n \in 1..Len(queue) : n \in 1..Len(queue') /\ queue'[n] = queue[n]
      BY <1>15, Finally
    <2> QED  BY <1>15, <2>1, <2>2, Finally DEF Room
  <1>16. ASSUME RunPuts PROVE Room'
    BY <1>16 DEF Room, Ending, RunPuts
  <1>17. ASSUME RunDrains PROVE Room'
    BY <1>17 DEF Room, Ending, RunDrains
  <1>18. ASSUME NEW d \in Delegations, Acknowledge(d)
       PROVE  UNCHANGED <<stop, canceller, cancel, queue>>
    BY <1>18 DEF Acknowledge, cancelVars
  <1>19. ASSUME WorkerSpeaks \/ WorkerReturns \/ WorkPlans \/ WorkFails \/ WorkRuns
              \/ WorkSends \/ WorkCancelled \/ RunEnds
       PROVE  UNCHANGED <<stop, canceller, cancel, queue>>
    BY <1>19 DEF WorkerSpeaks, cancelVars, WorkerReturns, WorkPlans, WorkFails,
        WorkRuns, WorkSends, WorkCancelled, RunEnds
  <1> QED  BY <1>1, <1>2, <1>3, <1>4, <1>5, <1>6, <1>7, <1>8, <1>9, <1>10, <1>11, <1>12,
              <1>13, <1>14, <1>15, <1>16, <1>17, <1>18, <1>19
      DEF Next, Read, Ask, CancelStep, WorkerStep, WorkStep, RunStep

-----------------------------------------------------------------------------
(* The inductive invariant.                                                *)

Types ==
    /\ StatusTypes /\ CountTypes /\ NameTypes /\ CancelTypes /\ WorkerTypes
    /\ EndTypes /\ ItemTypes /\ ReplyTypes /\ QueueTypes
WorkKept ==
    /\ Bench /\ Ending /\ Awaited
CallState ==
    /\ OneCancel /\ Behind /\ Active /\ Room
Hands ==
    /\ Fresh /\ Quiet /\ OneTask /\ Stale /\ Accounted /\ SavedFirst
VInv == Types /\ WorkKept /\ CallState /\ Hands

(* Every part holds at the start.                                          *)
LEMMA Starts == Init => VInv
  <1> SUFFICES ASSUME Init PROVE VInv
    OBVIOUS
  <1>1. StatusTypes
    BY DEF Init, StatusTypes, Statuses
  <1>2. CountTypes
    BY ConstantsAssumption DEF Init, CountTypes
  <1>3. NameTypes
    BY DEF Init, NameTypes
  <1>4. CancelTypes
    BY DEF Init, CancelTypes, CancelPhases
  <1>5. WorkerTypes
    BY DEF Init, WorkerTypes
  <1>6. EndTypes
    BY DEF Init, EndTypes
  <1>7. ItemTypes
    BY DEF Init, ItemTypes
  <1>8. ReplyTypes
    BY DEF Init, ReplyTypes
  <1>9. QueueTypes
    BY ConstantsAssumption DEF Init, QueueTypes
  <1>10. Bench
    BY DEF Init, Bench, None
  <1>11. Ending
    BY DEF Init, Ending
  <1>12. Awaited
    BY DEF Init, Awaited, None
  <1>13. OneCancel
    BY DEF Init, OneCancel
  <1>14. Behind
    BY DEF Init, Behind
  <1>15. Active
    BY DEF Init, Active
  <1>16. Room
    BY DEF Init, Room, Cancelling
  <1>17. Fresh
    BY DEF Init, Fresh, NoWorkFor
  <1>18. Quiet
    BY DEF Init, Quiet, NoWorkFor
  <1>19. OneTask
    BY DEF Init, OneTask
  <1>20. Stale
    BY DEF Init, Stale
  <1>21. Accounted
    BY DEF Init, Accounted, Unfinished, None
  <1>22. SavedFirst
    BY DEF Init, SavedFirst, None
  <1> QED  BY <1>1, <1>2, <1>3, <1>4, <1>5, <1>6, <1>7, <1>8, <1>9, <1>10, <1>11, <1>12,
              <1>13, <1>14, <1>15, <1>16, <1>17, <1>18, <1>19, <1>20, <1>21, <1>22
      DEF VInv, Types, WorkKept, CallState, Hands

(* Every part is preserved by every step.                                  *)
LEMMA Preserves == ASSUME VInv, Next PROVE VInv'
  <1>1. Types'
    <2>1. StatusTypes'
      BY StatusTypesStep DEF VInv, Types
    <2>2. CountTypes'
      BY CountTypesStep DEF VInv, Types
    <2>3. NameTypes'
      BY NameTypesStep DEF VInv, Types
    <2>4. CancelTypes'
      BY CancelTypesStep DEF VInv, Types
    <2>5. WorkerTypes'
      BY WorkerTypesStep DEF VInv, Types
    <2>6. EndTypes'
      BY EndTypesStep DEF VInv, Types
    <2>7. ItemTypes'
      BY ItemTypesStep DEF VInv, Types
    <2>8. ReplyTypes'
      BY ReplyTypesStep DEF VInv, Types, WorkKept
    <2>9. QueueTypes'
      BY QueueTypesStep DEF VInv, Types, CallState
    <2> QED  BY <2>1, <2>2, <2>3, <2>4, <2>5, <2>6, <2>7, <2>8, <2>9 DEF Types
  <1>2. WorkKept'
    <2>1. Bench'
      BY BenchStep DEF VInv, Types, WorkKept
    <2>2. Ending'
      BY EndingStep DEF VInv, Types, WorkKept, CallState
    <2>3. Awaited'
      BY AwaitedStep DEF VInv, Types, WorkKept, CallState
    <2> QED  BY <2>1, <2>2, <2>3 DEF WorkKept
  <1>3. CallState'
    <2>1. OneCancel'
      BY OneCancelStep DEF VInv, Types, WorkKept, CallState, Hands
    <2>2. Behind'
      BY BehindStep DEF VInv, Types, WorkKept, CallState, Hands
    <2>3. Active'
      BY ActiveStep DEF VInv, Types, WorkKept, CallState, Hands
    <2>4. Room'
      BY RoomStep DEF VInv, Types, WorkKept, CallState
    <2> QED  BY <2>1, <2>2, <2>3, <2>4 DEF CallState
  <1>4. Hands'
    <2>1. Fresh'
      BY FreshStep DEF VInv, Types, WorkKept, CallState, Hands
    <2>2. Quiet'
      BY QuietStep DEF VInv, Types, WorkKept, CallState, Hands
    <2>3. OneTask'
      BY OneTaskStep DEF VInv, Types, WorkKept, CallState, Hands
    <2>4. Stale'
      BY StaleStep DEF VInv, Types, WorkKept, CallState, Hands
    <2>5. Accounted'
      BY AccountedStep DEF VInv, Types, WorkKept, CallState, Hands
    <2>6. SavedFirst'
      BY SavedFirstStep DEF VInv, Types, WorkKept, Hands
    <2> QED  BY <2>1, <2>2, <2>3, <2>4, <2>5, <2>6 DEF Hands
  <1> QED  BY <1>1, <1>2, <1>3, <1>4 DEF VInv

(* Every part is preserved when nothing changes.                           *)
LEMMA Stutters == ASSUME VInv, UNCHANGED vars PROVE VInv'
  <1> USE DEF vars, callVars, cancelVars, workVars, resultVars
  <1>1. Types'
    BY DEF VInv, Types, StatusTypes, CountTypes, NameTypes, CancelTypes, WorkerTypes,
        EndTypes, ItemTypes, ReplyTypes, QueueTypes
  <1>2. WorkKept'
    <2>1. Bench'
      BY DEF VInv, WorkKept, Bench
    <2>2. Ending'
      BY DEF VInv, WorkKept, Ending, Cancelling
    <2>3. Awaited'
      BY DEF VInv, WorkKept, Awaited
    <2> QED  BY <2>1, <2>2, <2>3 DEF WorkKept
  <1>3. CallState'
    <2>1. OneCancel'
      BY DEF VInv, CallState, OneCancel, Cancelling
    <2>2. Behind'
      BY DEF VInv, CallState, Behind, NoWorkFor
    <2>3. Active'
      BY DEF VInv, CallState, Active
    <2>4. Room'
      BY DEF VInv, CallState, Room, Cancelling
    <2> QED  BY <2>1, <2>2, <2>3, <2>4 DEF CallState
  <1>4. Hands'
    <2>1. Fresh'
      BY DEF VInv, Hands, Fresh, NoWorkFor
    <2>2. Quiet'
      BY DEF VInv, Hands, Quiet, NoWorkFor
    <2>3. OneTask'
      BY DEF VInv, Hands, OneTask
    <2>4. Stale'
      BY DEF VInv, Hands, Stale
    <2>5. Accounted'
      BY DEF VInv, Hands, Accounted, Cancelling, Carried
    <2>6. SavedFirst'
      BY DEF VInv, Hands, SavedFirst
    <2> QED  BY <2>1, <2>2, <2>3, <2>4, <2>5, <2>6 DEF Hands
  <1> QED  BY <1>1, <1>2, <1>3, <1>4 DEF VInv

-----------------------------------------------------------------------------
(* What was superseded or cancelled keeps that label over every step.      *)
LEMMA FinalStep ==
    ASSUME VInv, Next, NEW d \in Delegations, status[d] \in {"superseded", "cancelled"}
    PROVE  status'[d] = status[d]
  <1> USE DEF VInv, Types, WorkKept, CallState, Hands
  <1>1. ASSUME NEW x \in Delegations, Delegate(x) PROVE status'[d] = status[d]
    BY <1>1, ConstantsAssumption DEF Delegate, Old, Unfinished, None
  <1>2. ASSUME NEW x \in Delegations, Acknowledge(x) PROVE status'[d] = status[d]
    BY <1>2 DEF Acknowledge, Label
  <1>3. ASSUME NEW c \in Cancels, JoinCancel(c) PROVE status'[d] = status[d]
    BY <1>3 DEF JoinCancel, Label, StatusTypes, OneCancel
  <1>4. ASSUME NEW c \in Cancels, CancelSucceeds(c) PROVE status'[d] = status[d]
    <2>1. deferred # d
      BY ConstantsAssumption DEF OneCancel
    <2>2. previous[c] # d
      BY <1>4, ConstantsAssumption DEF CancelSucceeds, Behind, Unfinished
    <2> QED  BY <1>4, <2>1, <2>2 DEF CancelSucceeds
  <1>5. ASSUME NEW x \in Delegations, MayAnswer(x) PROVE x # d
    BY <1>5, ConstantsAssumption DEF MayAnswer, Active
  <1>6. ASSUME TakeTask PROVE status'[d] = status[d]
    <2>1. Subject(Head(queue)) \in Delegations
      BY <1>6, Taken, Forms DEF TakeTask, Subject, IsWork
    <2>2. \/ status' = status
          \/ /\ MayAnswer(Subject(Head(queue)))
             /\ status' = [status EXCEPT ![Subject(Head(queue))] = "result_sent"]
      BY <1>6 DEF TakeTask, Label
    <2> QED  BY <1>5, <2>1, <2>2 DEF StatusTypes
  <1>7. ASSUME item # Nothing PROVE Subject(item) \in Delegations
    BY <1>7, Forms DEF Bench, ItemTypes, Subject, IsWork
  <1>8. ASSUME WorkerReturns PROVE status'[d] = status[d]
    <2>1. Subject(item) \in Delegations
      BY <1>7, <1>8 DEF WorkerReturns, Bench
    <2>2. \/ status' = status
          \/ /\ MayAnswer(Subject(item))
             /\ status' = [status EXCEPT ![Subject(item)] = "result_sent"]
      BY <1>8 DEF WorkerReturns, Label
    <2> QED  BY <1>5, <2>1, <2>2 DEF StatusTypes
  <1>9. ASSUME WorkRuns PROVE status'[d] = status[d]
    <2>1. Subject(item) \in Delegations
      BY <1>7, <1>9 DEF WorkRuns, Bench, None
    <2>2. \/ status' = status
          \/ /\ MayAnswer(Subject(item))
             /\ \E s : status' = [status EXCEPT ![Subject(item)] = s]
      BY <1>9 DEF WorkRuns, Label
    <2> QED  BY <1>5, <2>1, <2>2 DEF StatusTypes
  <1>10. ASSUME RunEnds PROVE status'[d] = status[d]
    BY <1>10 DEF RunEnds, Closed, Unfinished
  <1>11. ASSUME \/ ReaderSpeaks \/ ReaderEnds \/ Close \/ WorkerSpeaks \/ WorkPlans \/ WorkFails
                \/ WorkSends \/ WorkCancelled \/ TakeSignal \/ TakeResult
                \/ RunCloses \/ RunFinally \/ RunPuts \/ RunDrains
         PROVE  status' = status
    BY <1>11 DEF ReaderSpeaks, ReaderEnds, Close, WorkerSpeaks, WorkPlans, WorkFails,
        WorkSends, WorkCancelled, TakeSignal, TakeResult, RunCloses, RunFinally,
        RunPuts, RunDrains, callVars
  <1>12. ASSUME NEW r \in Results, SubmitResult(r) PROVE status' = status
    BY <1>12 DEF SubmitResult
  <1>13. ASSUME NEW c \in Cancels, CancelWork(c) \/ CancelFails(c) PROVE status' = status
    BY <1>13 DEF CancelWork, CancelFails, callVars
  <1> QED  BY <1>1, <1>2, <1>3, <1>4, <1>6, <1>8, <1>9, <1>10, <1>11, <1>12, <1>13
      DEF Next, Read, Ask, CancelStep, WorkerStep, WorkStep, RunStep

-----------------------------------------------------------------------------
(* VInv holds in every state of every behaviour (app/voice/_call.py).      *)
THEOREM Invariance == Spec => []VInv
  <1>1. VInv /\ [Next]_vars => VInv'
    BY Preserves, Stutters
  <1> QED  BY Starts, <1>1, PTL DEF Spec

(* The variables of the call keep their types, and its queue never holds   *)
(* more than its maxsize (VoiceCall.queue).                                *)
THEOREM TypeCorrect == Spec => []TypeOK
  <1>1. VInv => TypeOK
    BY DEF VInv, Types, TypeOK, StatusTypes, CountTypes, NameTypes, QueueTypes,
        CancelTypes, ReplyTypes, WorkerTypes, ItemTypes, EndTypes
  <1> QED  BY <1>1, Invariance, PTL

(* While the call runs every unfinished delegation is in somebody's hands, *)
(* and when its reservation is given back nothing of it is left            *)
(* (_receive, _cancel_backend, _run).                                      *)
THEOREM NothingIsLeft == Spec => []CallKept
  <1>1. ASSUME VInv PROVE Attended
    <2> USE <1>1 DEF VInv, Types, WorkKept, CallState, Hands
    <2> SUFFICES ASSUME ~stop, worker # "dead", NEW d \in Delegations
                 PROVE  /\ status[d] \in Unfinished =>
                              d = active \/ (Cancelling /\ previous[canceller] = d)
                        /\ d = active =>
                              CASE status[d] = "running" -> AtWork(Task(d))
                                [] status[d] = "waiting" -> Cancelling /\ deferred = d
                                [] status[d] = "pending_host" ->
                                     pending # 0 \/ \E r \in Results : AtWork(Result(d, r))
                                [] OTHER -> pending = 0
                        /\ \A c \in Cancels : cancel[c] = "reached" /\ DeferredRuns => ~Full
      BY DEF Attended
    <2>1. status[d] \in Unfinished => d = active \/ (Cancelling /\ previous[canceller] = d)
      BY DEF Accounted
    <2>2. ASSUME d = active, status[d] = "running" PROVE AtWork(Task(d))
      <3>1. Carried("task", d)
        BY <2>2, ConstantsAssumption DEF Accounted
      <3>2. ASSUME NEW n \in 1..Len(queue), queue[n][1] = "task", queue[n][2] = d
            PROVE  Task(d) \in Left
        BY <3>2, Forms, QueueFacts DEF Left
      <3> QED  BY <3>1, <3>2, Forms DEF Carried, AtWork, Bench, ItemTypes
    <2>3. ASSUME d = active, status[d] = "waiting" PROVE Cancelling /\ deferred = d
      BY <2>3, ConstantsAssumption DEF Active, OneCancel
    <2>4. ASSUME d = active, status[d] = "pending_host", pending = 0
          PROVE  \E r \in Results : AtWork(Result(d, r))
      <3>1. Carried("result", d)
        BY <2>4, ConstantsAssumption DEF Accounted
      <3>2. ASSUME NEW n \in 1..Len(queue), queue[n][1] = "result", queue[n][2] = d
            PROVE  \E r \in Results : Result(d, r) \in Left
        BY <3>2, Forms, QueueFacts DEF Left
      <3> QED  BY <3>1, <3>2, Forms DEF Carried, AtWork, Bench, ItemTypes
    <2>5. ASSUME d = active, status[d] # "pending_host" PROVE pending = 0
      BY <2>5 DEF Active
    <2>6. ASSUME NEW c \in Cancels, cancel[c] = "reached", DeferredRuns PROVE ~Full
      <3>1. Cancelling /\ c = canceller
        BY <2>6 DEF OneCancel, DeferredRuns, Cancelling
      <3> QED  BY <2>6, <3>1, ConstantsAssumption DEF Room, Full
    <2> QED  BY <2>1, <2>2, <2>3, <2>4, <2>5, <2>6
  <1>2. ASSUME VInv PROVE EndsClean
    <2> USE <1>2 DEF VInv, Types, WorkKept, CallState, Hands
    <2>1. runner = "done" => \A r \in Results : reply[r] # "waiting"
      BY DEF Awaited, Ending
    <2> QED  BY <2>1 DEF EndsClean, Ending, Bench, Working, None
  <1> QED  BY <1>1, <1>2, Invariance, PTL DEF CallKept

(* "The receipt follows the native continuation and persistence", and when *)
(* a cancel reports its delegation cancelled nothing works on it           *)
(* (_worker, _execute, _cancel_backend).                                   *)
THEOREM ReportsAreTrue == Spec => []ReportsTrue
  <1>1. VInv => ReceiptMeansRecorded
    BY DEF VInv, Hands, SavedFirst, ReceiptMeansRecorded
  <1>2. ASSUME VInv PROVE CancelledIsQuiet
    <2> USE <1>2 DEF VInv, Types, WorkKept, CallState, Hands
    <2> SUFFICES ASSUME NEW d \in Delegations, status[d] = "cancelled"
                 PROVE  /\ ~(Working /\ Subject(item) = d)
                        /\ \A r \in Results : Result(d, r) \notin Left
      BY DEF CancelledIsQuiet
    <2>1. NoWorkFor(d)
      BY DEF Quiet
    <2>2. ~(Working /\ Subject(item) = d)
      BY <2>1 DEF NoWorkFor, Working, Bench, Subject, None
    <2>3. ASSUME NEW r \in Results PROVE Result(d, r) \notin Left
      BY <2>1, Forms DEF NoWorkFor, IsWork, Left
    <2> QED  BY <2>2, <2>3
  <1> QED  BY <1>1, <1>2, Invariance, PTL DEF ReportsTrue

(* What was superseded or cancelled is never relabelled nor spoken         *)
(* (_receive, _worker, _speak).                                            *)
THEOREM FinalIsFinal == Spec => FinalStays
  <1>1. VInv /\ [Next]_vars
        => [\A d \in Delegations : status[d] \in {"superseded", "cancelled"}
                                   => status'[d] = status[d]]_vars
    BY FinalStep
  <1> QED  BY <1>1, Invariance, PTL DEF Spec, FinalStays
==============================================================================
