------------------------- MODULE HostActionsProofs -------------------------
(***************************************************************************)
(* What HostActions promises of host calls holds for any number of calls,  *)
(* requests, batches, failing writes and deaths of the process: an outcome *)
(* the process acts on is on the row (WritesComeFirst), a call the host    *)
(* was asked for can be answered or has been (NoCallIsLost), and what is   *)
(* decided is never changed, by a restart either (DecisionsStand).         *)
(*                                                                         *)
(* All follow from one inductive invariant, HInv.  PlacesKept relates what *)
(* waits to the place of the running turn.  OutcomesKept relates the three *)
(* copies of an outcome, the row, the cached context and what the turn     *)
(* would write, and the pending action to the calls that are open.  Each   *)
(* part has a lemma that every step preserves it, with one case per action *)
(* that writes what the part reads.                                        *)
(***************************************************************************)
EXTENDS HostActions, TLAPS

-----------------------------------------------------------------------------
(* Types, one part for each group of variables.                            *)
RowTypes    == /\ row \in [Calls -> Outcomes] /\ mem \in [Calls -> Outcomes]
               /\ stale \in [Calls -> Outcomes] /\ seen \in [Calls -> Outcomes]
HomeTypes   == home \in [Calls -> Requests \cup {None}]
FlagTypes   == /\ cached \in BOOLEAN /\ said \in BOOLEAN /\ stopping \in BOOLEAN
CountTypes  == crashes \in Nat /\ faults \in Nat
PlaceTypes  == turn \in Turns \cup {None} /\ phase \in Phases /\ step \in Steps
MessageTypes == message \in Requests \cup {None}
RequestTypes == pc \in [Requests -> {"idle", "promoted", "running", "over", "rejected",
                                     "failed", "unsaved", "dropping", "dropped",
                                     "repairing"}]
SetTypes    == /\ rest \subseteq Calls /\ ask \subseteq Calls /\ handed \subseteq Calls
               /\ touched \subseteq Requests \cup {None}

-----------------------------------------------------------------------------
(* Where the running turn is, what waits, and the copies of an outcome.    *)

(* A pending action names a call of its batch, and the calls of a batch    *)
(* are of one message.                                                     *)
Pending(p) == /\ p.call \in Calls /\ p.batch \subseteq Calls /\ p.call \in p.batch
              /\ home[p.call] # None /\ \A c \in p.batch : home[c] = home[p.call]
PendingKept ==
    /\ \/ rowPending = NoPending
       \/ rowPending \in [call : Calls, batch : SUBSET Calls] /\ Pending(rowPending)
    /\ \/ memPending = NoPending
       \/ memPending \in [call : Calls, batch : SUBSET Calls] /\ Pending(memPending)

(* Which places a turn's code passes, and for which requests.              *)
PhaseSteps ==
    /\ phase = "none" <=> turn = None
    /\ phase = "none" <=> step = "none"
    /\ phase = "plan" => /\ step \in {"plan", "write", "publish", "drop", "after"}
                         /\ step # "plan" => Kind[turn] \in {"message", "release"}
    /\ phase = "accept" => /\ step \in {"write", "publish", "drop", "after", "set", "hand"}
                           /\ Kind[turn] \in {"result", "receipt"}
    /\ phase = "save" => /\ step \in {"model", "write", "publish", "drop", "after", "set", "hand"}
                         /\ Kind[turn] \in {"message", "result", "steering"}
    /\ phase = "close" => step \in {"write", "publish", "drop", "after"}

(* One request runs, and a repair is the operator's.                       *)
OneRuns ==
    /\ turn # None => pc[turn] = "running"
    /\ \A r \in Requests : pc[r] = "running" => r = turn
    /\ \A r \in Requests : pc[r] \in {"dropping", "dropped", "repairing"} => r \in Repairs

(* Whoever works on the session has its context.                           *)
InCache ==
    /\ step \notin {"none", "plan"} => cached
    /\ ~cached => memPending = NoPending
    /\ \A r \in Requests : pc[r] \in {"dropping", "dropped", "repairing"} => cached

(* A call belongs to a message whose request has been planned, and there   *)
(* is no trace of it before.                                               *)
Owned ==
    /\ \A c \in Calls : home[c] = None =>
          row[c] = "absent" /\ mem[c] = "absent" /\ seen[c] = "absent" /\ stale[c] = "absent"
    /\ \A c \in Calls : home[c] # None =>
          /\ pc[home[c]] \notin {"idle", "promoted"}
          /\ home[c] = turn => phase # "plan"
    /\ message # None => pc[message] \notin {"idle", "promoted"}

(* The message a turn writes, and the calls it has to wait for.            *)
Working == {"model", "write", "publish", "set", "hand"}
AtWork ==
    /\ phase = "none" \/ (phase = "plan" /\ step = "plan") => message = None
    /\ phase \in {"none", "plan"} => rest = {} /\ ask = {}
    /\ phase \in {"accept", "save", "close"} => message # None
    /\ phase = "save" => rest = {}
    /\ phase = "save" /\ step = "model" => ask = {}
    /\ rest \subseteq ask
    /\ \A c \in ask : home[c] = message
    /\ phase = "accept" => \A c \in rest : seen[c] = "open"
    /\ phase = "save" => \A c \in ask : seen[c] = "open"

(* What is pending while a turn writes is of the message it writes.        *)
PendingHere ==
    /\ step \in {"drop", "after"} => memPending = NoPending
    /\ phase # "none" /\ step \in Working /\ memPending # NoPending
          => home[memPending.call] = message
    /\ phase \in {"plan", "accept"} /\ step \in {"write", "publish"} /\ memPending # NoPending
          => \A c \in memPending.batch : seen[c] = "open" => c \in rest
    /\ phase = "accept" /\ step \in {"write", "publish"} /\ memPending # NoPending
          => seen[memPending.call] = "result" /\ ask = memPending.batch
    /\ phase = "plan" /\ step \in {"write", "publish"} /\ memPending # NoPending
          => seen[memPending.call] # "open"
    /\ step \in {"set", "hand"} /\ memPending # NoPending =>
          /\ memPending.batch = ask
          /\ memPending.call \in First(IF phase = "accept" THEN rest ELSE ask)

(* Without steering a run begins with nothing pending.                     *)
NothingWaits ==
    Never("steering") /\ phase = "save" /\ step \in {"model", "write", "publish"}
        => memPending = NoPending

(* What the turn would write has no open call but those it waits for.      *)
SeenOpen ==
    /\ phase = "close" => \A c \in Calls : home[c] = message => seen[c] # "open"
    /\ Never("steering") =>
       \A c \in Calls : home[c] = message /\ seen[c] = "open" =>
          /\ phase # "plan"
          /\ phase = "accept" => c \in rest
          /\ phase = "save" => c \in ask

(* The cached context has no open call the turn did not see as open.       *)
MemSeen ==
    step \in {"drop", "after", "set", "hand"} /\ phase \in {"accept", "save"} =>
        \A c \in Calls : home[c] = message /\ mem[c] = "open" => seen[c] = "open"

(* The open calls of a message that waits are those of its batch.          *)
PendingWhole ==
    Never("steering") /\ memPending # NoPending =>
        \A c \in Calls : mem[c] = "open" /\ home[c] = home[memPending.call]
                         => c \in memPending.batch

(* While nobody repairs: what the turn would write keeps what was decided, *)
(* and what it wrote is what the cached context has.                       *)
SeenExtends ==
    Never("repair") =>
        /\ message # None => \A c \in Calls : home[c] = message =>
              /\ mem[c] \in Resolved => seen[c] = mem[c]
              /\ mem[c] = "open" => seen[c] # "absent"
        /\ step \in {"drop", "after", "set", "hand"} /\ phase \in {"accept", "save", "close"} =>
              \A c \in Calls : home[c] = message => mem[c] = seen[c]

(* The rows are never behind the cached context.                           *)
RowAhead ==
    Never("repair") =>
        /\ \A c \in Calls : /\ mem[c] \in Resolved => row[c] = mem[c]
                            /\ mem[c] = "open" => row[c] # "absent"
        /\ step = "publish" => \A c \in Calls : home[c] = message => row[c] = seen[c]

(* A pending call has no result, and after its commit its row says so.     *)
PendingOpen ==
    Never("repair") =>
        /\ memPending # NoPending => mem[memPending.call] = "open"
        /\ step = "hand" => memPending # NoPending /\ rowPending = memPending
        /\ step = "set" => memPending # NoPending
        /\ phase \in {"plan", "accept"} /\ step \in {"write", "publish"}
              => memPending # NoPending

(* Every open call is waited for, by the session or by the running turn.   *)
Tracked(c) ==
    \/ memPending # NoPending /\ c \in memPending.batch
    \/ phase = "accept" /\ step \in {"drop", "after"} /\ c \in rest
    \/ phase = "save" /\ step \in {"drop", "after"} /\ c \in ask
    \/ phase = "close" /\ step \in {"write", "publish"} /\ home[c] = message
Clean == /\ Never("repair") /\ Never("steering")
         /\ \A r \in Requests : pc[r] # "unsaved"
OpenAccounted ==
    Clean => \A c \in Calls : mem[c] = "open" => Tracked(c)

(* A call that was handed to the host is resolved or the one that waits,   *)
(* in the cached context and on the rows.                                  *)
HandedKept ==
    Never("repair") /\ Never("steering") =>
        /\ cached => \A c \in handed : mem[c] \in Resolved \/ c = memPending.call
        /\ \A c \in handed : row[c] \in Resolved
                             \/ (row[c] = "open" /\ rowPending.call = c)
        /\ step \in {"write", "publish"} /\ memPending # NoPending
              => seen[memPending.call] \in Resolved

-----------------------------------------------------------------------------
(* Every step preserves every part.                                        *)

(* What a run of the model leaves: B are the calls it made.                *)
Makes(B) ==
    /\ step = "model" /\ turn # None
    /\ \A c \in B : home[c] = None
    /\ \A c \in Calls : home'[c] = IF c \in B THEN message ELSE home[c]
    /\ step' = "write"
    /\ UNCHANGED <<row, rowPending, said, cached, mem, memPending, turn, message, rest,
                   stopping, pc, touched, stale, handed, crashes, faults>>
Answered(B) ==
    /\ Makes(B) /\ phase' = "save" /\ ask' = B
    /\ \A c \in B : seen'[c] = "open"
    /\ \A c \in Calls \ B : \/ seen'[c] = seen[c]
                            \/ /\ home[c] = message /\ seen[c] = "open"
                               /\ seen'[c] = "superseded"
Stopped(B) ==
    /\ Makes(B) /\ phase' = "close" /\ ask' = ask
    /\ \A c \in B : seen'[c] = "cancelled"
    /\ \A c \in Calls \ B : seen'[c] = IF home[c] = message /\ seen[c] = "open"
                                       THEN "cancelled" ELSE seen[c]

(* A run that answers leaves that.                                         *)
LEMMA Answering ==
    ASSUME HomeTypes, RowTypes, PhaseSteps, PlaceTypes, ModelAnswers
    PROVE  \E B \in SUBSET Calls : Answered(B)
  <1>1. PICK B \in Batches \cup {{}}, closed \in BOOLEAN :
            Fresh(B) /\ Asked(B, closed) /\ ask' = B
    BY DEF ModelAnswers
  <1>2. B \in SUBSET Calls
    BY <1>1, BatchesAssumption
  <1>3. Answered(B)
    BY <1>1, <1>2 DEF ModelAnswers, Answered, Makes, Fresh, Asked, Goto, HomeTypes,
        PhaseSteps, rowVars, cacheVars, fixVars, boundVars
  <1> QED  BY <1>2, <1>3

(* A run that stops leaves that.                                           *)
LEMMA Stopping ==
    ASSUME HomeTypes, RowTypes, PhaseSteps, PlaceTypes, ModelStops
    PROVE  \E B \in SUBSET Calls : Stopped(B)
  <1>1. PICK B \in Batches \cup {{}} :
            /\ Fresh(B)
            /\ home' = [c \in Calls |-> IF c \in B THEN message ELSE home[c]]
            /\ seen' = Closed([c \in Calls |-> IF c \in B THEN "open" ELSE seen[c]])
    BY DEF ModelStops
  <1>2. B \in SUBSET Calls
    BY <1>1, BatchesAssumption
  <1>3. Stopped(B)
    BY <1>1, <1>2 DEF ModelStops, Stopped, Makes, Fresh, Closed, Goto, HomeTypes,
        PhaseSteps, rowVars, cacheVars, fixVars, boundVars
  <1> QED  BY <1>2, <1>3

(* Outcomes keep their types.                                              *)
LEMMA RowTypesStep ==
    ASSUME RowTypes, Next
    PROVE  RowTypes'
  <1>1. CASE UNCHANGED <<row, mem, stale, seen>>
    BY <1>1 DEF RowTypes, Outcomes, Resolved
  <1>2. ASSUME RepairRows PROVE RowTypes'
    BY <1>2 DEF RowTypes, RepairRows, Resolve, cacheVars, runVars, fixVars, Outcomes,
        Resolved
  <1>3. ASSUME Hydrate PROVE RowTypes'
    BY <1>3 DEF RowTypes, Hydrate, runVars, fixVars, Outcomes, Resolved
  <1>4. ASSUME ClearStale PROVE RowTypes'
    BY <1>4 DEF RowTypes, ClearStale, Resolve, StaleStatus, rowVars, cacheVars, fixVars,
        Outcomes, Resolved
  <1>5. ASSUME PlanResult PROVE RowTypes'
    BY <1>5 DEF RowTypes, PlanResult, rowVars, cacheVars, fixVars, Outcomes, Resolved
  <1>6. ASSUME RejectResult PROVE RowTypes'
    BY <1>6 DEF RowTypes, RejectResult, EndTurn, rowVars, cacheVars, fixVars, Outcomes,
        Nothing
  <1>7. ASSUME PlanSteering PROVE RowTypes'
    BY <1>7 DEF RowTypes, PlanSteering, rowVars, cacheVars, fixVars
  <1>8. ASSUME RejectSteering PROVE RowTypes'
    BY <1>8 DEF RowTypes, RejectSteering, EndTurn, Planning, rowVars, cacheVars,
        fixVars, Outcomes, Nothing
  <1>9. ASSUME CommitRow PROVE RowTypes'
    BY <1>9 DEF RowTypes, CommitRow, Overlay, cacheVars, runVars, fixVars
  <1>10. ASSUME PublishRow PROVE RowTypes'
    BY <1>10 DEF RowTypes, PublishRow, Overlay, rowVars, runVars, fixVars
  <1>11. ASSUME StartRun PROVE RowTypes'
    BY <1>11 DEF RowTypes, StartRun, cacheVars, fixVars, Outcomes, Resolved
  <1>12. ASSUME ModelAnswers PROVE RowTypes'
    BY <1>12 DEF RowTypes, ModelAnswers, Asked, rowVars, cacheVars, fixVars, Outcomes,
        Resolved
  <1>13. ASSUME ModelStops PROVE RowTypes'
    BY <1>13 DEF RowTypes, ModelStops, Closed, rowVars, cacheVars, fixVars, Outcomes,
        Resolved
  <1>14. ASSUME CloseLate PROVE RowTypes'
    BY <1>14 DEF RowTypes, CloseLate, Closed, rowVars, cacheVars, fixVars, Outcomes,
        Resolved
  <1>15. ASSUME HandOver PROVE RowTypes'
    BY <1>15 DEF RowTypes, HandOver, EndTurn, rowVars, cacheVars, fixVars, Outcomes,
        Nothing
  <1>16. ASSUME FinishTurn PROVE RowTypes'
    BY <1>16 DEF RowTypes, FinishTurn, EndTurn, rowVars, cacheVars, fixVars, Outcomes,
        Nothing
  <1>17. ASSUME AbortPlan PROVE RowTypes'
    BY <1>17 DEF RowTypes, AbortPlan, EndTurn, Overlay, cacheVars, fixVars, Outcomes,
        Nothing
  <1>18. ASSUME FailWrite PROVE RowTypes'
    BY <1>18 DEF RowTypes, FailWrite, EndTurn, Overlay, Closed, cacheVars, fixVars,
        Outcomes, Resolved, Nothing
  <1>19. ASSUME NEW r \in Requests, MarkUnknown(r) PROVE RowTypes'
    BY <1>19 DEF RowTypes, MarkUnknown, Resolve, rowVars, runVars, Outcomes, Resolved
  <1>20. ASSUME NEW r \in Requests, CommitRepair(r) PROVE RowTypes'
    BY <1>20 DEF RowTypes, CommitRepair, cacheVars, runVars, Outcomes, Resolved, Nothing
  <1>21. ASSUME Crash PROVE RowTypes'
    BY <1>21 DEF RowTypes, Crash, rowVars, Outcomes, Resolved, Nothing
  <1>22. ASSUME NEW r \in Requests, AcceptSteering(r) \/ Admit(r) \/ BeginRepair(r)
              \/ DropForRepair(r)
       PROVE  UNCHANGED <<row, mem, stale, seen>>
    BY <1>22 DEF AcceptSteering, rowVars, cacheVars, runVars, fixVars, Admit,
        BeginRepair, DropForRepair
  <1>23. ASSUME NothingStale \/ CommitDrop \/ ResumeRun \/ WaitForRest
              \/ WaitForHost \/ CommitSet \/ CancelTurn
       PROVE  UNCHANGED <<row, mem, stale, seen>>
    BY <1>23 DEF NothingStale, rowVars, cacheVars, runVars, fixVars, CommitDrop,
        ResumeRun, WaitForRest, Wait, WaitForHost, CommitSet, CancelTurn
  <1> QED  BY <1>1, <1>2, <1>3, <1>4, <1>5, <1>6, <1>7, <1>8, <1>9, <1>10, <1>11, <1>12,
              <1>13, <1>14, <1>15, <1>16, <1>17, <1>18, <1>19, <1>20, <1>21, <1>22,
              <1>23
      DEF Next, Plan, Persist, Run, Disturb, Repair

(* home keeps its type.                                                    *)
LEMMA HomeTypesStep ==
    ASSUME HomeTypes, MessageTypes, Next
    PROVE  HomeTypes'
  <1>1. CASE UNCHANGED home
    BY <1>1 DEF HomeTypes
  <1>2. ASSUME ModelAnswers PROVE HomeTypes'
    BY <1>2 DEF HomeTypes, MessageTypes, ModelAnswers, Asked
  <1>3. ASSUME ModelStops PROVE HomeTypes'
    BY <1>3 DEF HomeTypes, MessageTypes, ModelStops
  <1>4. ASSUME CloseLate PROVE HomeTypes'
    BY <1>4 DEF HomeTypes, MessageTypes, CloseLate
  <1>5. ASSUME FailWrite PROVE HomeTypes'
    BY <1>5 DEF HomeTypes, MessageTypes, FailWrite
  <1>6. ASSUME RepairRows \/ Hydrate \/ ClearStale \/ NothingStale \/ PlanResult
              \/ RejectResult \/ PlanSteering \/ RejectSteering \/ CommitRow
              \/ PublishRow \/ CommitDrop \/ StartRun \/ ResumeRun \/ WaitForRest
              \/ WaitForHost \/ CommitSet \/ HandOver \/ FinishTurn \/ AbortPlan
              \/ CancelTurn \/ Crash
       PROVE  UNCHANGED home
    BY <1>6 DEF RepairRows, Hydrate, ClearStale, NothingStale, PlanResult, RejectResult,
        PlanSteering, RejectSteering, CommitRow, PublishRow, CommitDrop, StartRun,
        ResumeRun, WaitForRest, Wait, WaitForHost, CommitSet, HandOver, FinishTurn,
        AbortPlan, CancelTurn, Crash
  <1>7. ASSUME NEW r \in Requests, AcceptSteering(r) \/ Admit(r) \/ BeginRepair(r)
              \/ DropForRepair(r) \/ MarkUnknown(r) \/ CommitRepair(r)
       PROVE  UNCHANGED home
    BY <1>7 DEF AcceptSteering, Admit, BeginRepair, DropForRepair, MarkUnknown,
        CommitRepair
  <1> QED  BY <1>1, <1>2, <1>3, <1>4, <1>5, <1>6, <1>7
      DEF Next, Plan, Persist, Run, Disturb, Repair

(* Flags keep their types.                                                 *)
LEMMA FlagTypesStep ==
    ASSUME FlagTypes, Next
    PROVE  FlagTypes'
  <1>1. CASE UNCHANGED <<cached, said, stopping>>
    BY <1>1 DEF FlagTypes
  <1>2. ASSUME Hydrate PROVE FlagTypes'
    BY <1>2 DEF FlagTypes, Hydrate
  <1>3. ASSUME RejectResult PROVE FlagTypes'
    BY <1>3 DEF FlagTypes, RejectResult, EndTurn, rowVars, cacheVars
  <1>4. ASSUME RejectSteering PROVE FlagTypes'
    BY <1>4 DEF FlagTypes, RejectSteering, EndTurn, rowVars, cacheVars
  <1>5. ASSUME StartRun PROVE FlagTypes'
    BY <1>5 DEF FlagTypes, StartRun, cacheVars
  <1>6. ASSUME HandOver PROVE FlagTypes'
    BY <1>6 DEF FlagTypes, HandOver, EndTurn, rowVars, cacheVars
  <1>7. ASSUME FinishTurn PROVE FlagTypes'
    BY <1>7 DEF FlagTypes, FinishTurn, EndTurn, rowVars, cacheVars
  <1>8. ASSUME AbortPlan PROVE FlagTypes'
    BY <1>8 DEF FlagTypes, AbortPlan, EndTurn, cacheVars
  <1>9. ASSUME CancelTurn PROVE FlagTypes'
    BY <1>9 DEF FlagTypes, CancelTurn, rowVars, cacheVars
  <1>10. ASSUME FailWrite PROVE FlagTypes'
    BY <1>10 DEF FlagTypes, FailWrite, EndTurn, cacheVars
  <1>11. ASSUME Crash PROVE FlagTypes'
    BY <1>11 DEF FlagTypes, Crash, rowVars
  <1>12. ASSUME RepairRows \/ ClearStale \/ NothingStale \/ PlanResult
              \/ PlanSteering \/ CommitRow \/ PublishRow \/ CommitDrop \/ ResumeRun
              \/ WaitForRest \/ WaitForHost \/ CommitSet \/ ModelAnswers
              \/ ModelStops \/ CloseLate
       PROVE  UNCHANGED <<cached, said, stopping>>
    BY <1>12 DEF RepairRows, cacheVars, ClearStale, rowVars, NothingStale, PlanResult,
        PlanSteering, CommitRow, PublishRow, CommitDrop, ResumeRun, WaitForRest, Wait,
        WaitForHost, CommitSet, ModelAnswers, ModelStops, CloseLate
  <1>13. ASSUME NEW r \in Requests, AcceptSteering(r) \/ Admit(r) \/ BeginRepair(r)
              \/ DropForRepair(r) \/ MarkUnknown(r) \/ CommitRepair(r)
       PROVE  UNCHANGED <<cached, said, stopping>>
    BY <1>13 DEF AcceptSteering, rowVars, cacheVars, Admit, BeginRepair, DropForRepair,
        MarkUnknown, CommitRepair
  <1> QED  BY <1>1, <1>2, <1>3, <1>4, <1>5, <1>6, <1>7, <1>8, <1>9, <1>10, <1>11, <1>12,
              <1>13
      DEF Next, Plan, Persist, Run, Disturb, Repair

(* Counters keep their types.                                              *)
LEMMA CountTypesStep ==
    ASSUME CountTypes, Next
    PROVE  CountTypes'
  <1>1. CASE UNCHANGED <<crashes, faults>>
    BY <1>1 DEF CountTypes
  <1>2. ASSUME FailWrite PROVE CountTypes'
    BY <1>2 DEF CountTypes, FailWrite
  <1>3. ASSUME Crash PROVE CountTypes'
    BY <1>3 DEF CountTypes, Crash
  <1>4. ASSUME RepairRows \/ Hydrate \/ ClearStale \/ NothingStale \/ PlanResult
              \/ RejectResult \/ PlanSteering \/ RejectSteering \/ CommitRow
              \/ PublishRow \/ CommitDrop \/ StartRun \/ ResumeRun \/ WaitForRest
              \/ WaitForHost \/ CommitSet \/ ModelAnswers \/ ModelStops \/ CloseLate
              \/ HandOver \/ FinishTurn \/ AbortPlan \/ CancelTurn
       PROVE  UNCHANGED <<crashes, faults>>
    BY <1>4 DEF RepairRows, boundVars, Hydrate, ClearStale, NothingStale, PlanResult,
        RejectResult, PlanSteering, RejectSteering, CommitRow, PublishRow, CommitDrop,
        StartRun, ResumeRun, WaitForRest, Wait, WaitForHost, CommitSet, ModelAnswers,
        ModelStops, CloseLate, HandOver, FinishTurn, AbortPlan, CancelTurn
  <1>5. ASSUME NEW r \in Requests, AcceptSteering(r) \/ Admit(r) \/ BeginRepair(r)
              \/ DropForRepair(r) \/ MarkUnknown(r) \/ CommitRepair(r)
       PROVE  UNCHANGED <<crashes, faults>>
    BY <1>5 DEF AcceptSteering, boundVars, Admit, BeginRepair, DropForRepair,
        MarkUnknown, CommitRepair
  <1> QED  BY <1>1, <1>2, <1>3, <1>4, <1>5 DEF Next, Plan, Persist, Run, Disturb, Repair

(* turn, phase and step keep their types.                                  *)
LEMMA PlaceTypesStep ==
    ASSUME PlaceTypes, Next
    PROVE  PlaceTypes'
  <1>1. CASE UNCHANGED <<turn, phase, step>>
    BY <1>1 DEF PlaceTypes, Steps, Turns
  <1>2. ASSUME NEW r \in Requests, Admit(r) PROVE PlaceTypes'
    BY <1>2 DEF PlaceTypes, Admit, Goto, Phases, Steps, Turns
  <1>3. ASSUME ClearStale PROVE PlaceTypes'
    BY <1>3 DEF PlaceTypes, ClearStale, Goto, Planning, Steps, Turns
  <1>4. ASSUME NothingStale PROVE PlaceTypes'
    BY <1>4 DEF PlaceTypes, NothingStale, Goto, Planning, Steps, Turns
  <1>5. ASSUME PlanResult PROVE PlaceTypes'
    BY <1>5 DEF PlaceTypes, PlanResult, Goto, Phases, Steps, Turns
  <1>6. ASSUME RejectResult PROVE PlaceTypes'
    BY <1>6 DEF PlaceTypes, RejectResult, EndTurn, Goto, Phases, Steps
  <1>7. ASSUME PlanSteering PROVE PlaceTypes'
    BY <1>7 DEF PlaceTypes, PlanSteering, Goto, Phases, Steps, Turns
  <1>8. ASSUME RejectSteering PROVE PlaceTypes'
    BY <1>8 DEF PlaceTypes, RejectSteering, EndTurn, Goto, Planning, Phases, Steps
  <1>9. ASSUME CommitRow PROVE PlaceTypes'
    BY <1>9 DEF PlaceTypes, CommitRow, Goto, Steps, Turns
  <1>10. ASSUME PublishRow PROVE PlaceTypes'
    BY <1>10 DEF PlaceTypes, PublishRow, Goto, Steps, Turns
  <1>11. ASSUME CommitDrop PROVE PlaceTypes'
    BY <1>11 DEF PlaceTypes, CommitDrop, Goto, Steps, Turns
  <1>12. ASSUME StartRun PROVE PlaceTypes'
    BY <1>12 DEF PlaceTypes, StartRun, Goto, Phases, Steps, Turns
  <1>13. ASSUME ResumeRun PROVE PlaceTypes'
    BY <1>13 DEF PlaceTypes, ResumeRun, Goto, Phases, Steps, Turns
  <1>14. ASSUME WaitForRest PROVE PlaceTypes'
    BY <1>14 DEF PlaceTypes, WaitForRest, Wait, Goto, Steps, Turns
  <1>15. ASSUME WaitForHost PROVE PlaceTypes'
    BY <1>15 DEF PlaceTypes, WaitForHost, Wait, Goto, Steps, Turns
  <1>16. ASSUME CommitSet PROVE PlaceTypes'
    BY <1>16 DEF PlaceTypes, CommitSet, Goto, Steps, Turns
  <1>17. ASSUME ModelAnswers PROVE PlaceTypes'
    BY <1>17 DEF PlaceTypes, ModelAnswers, Goto, Phases, Steps, Turns
  <1>18. ASSUME ModelStops PROVE PlaceTypes'
    BY <1>18 DEF PlaceTypes, ModelStops, Goto, Phases, Steps, Turns
  <1>19. ASSUME CloseLate PROVE PlaceTypes'
    BY <1>19 DEF PlaceTypes, CloseLate, Goto, Phases, Steps, Turns
  <1>20. ASSUME HandOver PROVE PlaceTypes'
    BY <1>20 DEF PlaceTypes, HandOver, EndTurn, Goto, Phases, Steps, Turns
  <1>21. ASSUME FinishTurn PROVE PlaceTypes'
    BY <1>21 DEF PlaceTypes, FinishTurn, EndTurn, Goto, Phases, Steps, Turns
  <1>22. ASSUME AbortPlan PROVE PlaceTypes'
    BY <1>22 DEF PlaceTypes, AbortPlan, EndTurn, Goto, Phases, Steps, Turns
  <1>23. ASSUME FailWrite PROVE PlaceTypes'
    BY <1>23 DEF PlaceTypes, FailWrite, Goto, EndTurn, Phases, Steps, Turns
  <1>24. ASSUME Crash PROVE PlaceTypes'
    BY <1>24 DEF PlaceTypes, Crash, Goto, Phases, Steps, Turns
  <1>25. ASSUME RepairRows \/ Hydrate \/ CancelTurn
       PROVE  UNCHANGED <<turn, phase, step>>
    BY <1>25 DEF RepairRows, Hydrate, CancelTurn
  <1>26. ASSUME NEW r \in Requests, AcceptSteering(r) \/ BeginRepair(r)
              \/ DropForRepair(r) \/ MarkUnknown(r) \/ CommitRepair(r)
       PROVE  UNCHANGED <<turn, phase, step>>
    BY <1>26 DEF AcceptSteering, BeginRepair, DropForRepair, MarkUnknown, CommitRepair
  <1> QED  BY <1>1, <1>2, <1>3, <1>4, <1>5, <1>6, <1>7, <1>8, <1>9, <1>10, <1>11, <1>12,
              <1>13, <1>14, <1>15, <1>16, <1>17, <1>18, <1>19, <1>20, <1>21, <1>22,
              <1>23, <1>24, <1>25, <1>26
      DEF Next, Plan, Persist, Run, Disturb, Repair

(* message keeps its type.                                                 *)
LEMMA MessageTypesStep ==
    ASSUME MessageTypes, HomeTypes, PendingKept, PlaceTypes, Next
    PROVE  MessageTypes'
  <1>1. CASE UNCHANGED message
    BY <1>1 DEF MessageTypes, Turns, Results
  <1>2. ASSUME ClearStale PROVE MessageTypes'
    BY <1>2 DEF MessageTypes, HomeTypes, PendingKept, ClearStale
  <1>3. ASSUME PlanResult PROVE MessageTypes'
    BY <1>3, RequestsAssumption DEF MessageTypes, HomeTypes, PendingKept, PlaceTypes,
        PlanResult, Planning, Turns, Results
  <1>4. ASSUME RejectResult PROVE MessageTypes'
    BY <1>4 DEF MessageTypes, HomeTypes, PendingKept, RejectResult, EndTurn
  <1>5. ASSUME PlanSteering PROVE MessageTypes'
    BY <1>5 DEF MessageTypes, HomeTypes, PendingKept, PlaceTypes, PlanSteering, Turns
  <1>6. ASSUME RejectSteering PROVE MessageTypes'
    BY <1>6 DEF MessageTypes, HomeTypes, PendingKept, RejectSteering, EndTurn
  <1>7. ASSUME StartRun PROVE MessageTypes'
    BY <1>7 DEF MessageTypes, HomeTypes, PendingKept, PlaceTypes, StartRun, Turns
  <1>8. ASSUME HandOver PROVE MessageTypes'
    BY <1>8 DEF MessageTypes, HomeTypes, PendingKept, HandOver, EndTurn
  <1>9. ASSUME FinishTurn PROVE MessageTypes'
    BY <1>9 DEF MessageTypes, HomeTypes, PendingKept, FinishTurn, EndTurn
  <1>10. ASSUME AbortPlan PROVE MessageTypes'
    BY <1>10 DEF MessageTypes, HomeTypes, PendingKept, AbortPlan, EndTurn
  <1>11. ASSUME FailWrite PROVE MessageTypes'
    BY <1>11 DEF MessageTypes, HomeTypes, PendingKept, FailWrite, EndTurn
  <1>12. ASSUME Crash PROVE MessageTypes'
    BY <1>12 DEF MessageTypes, HomeTypes, PendingKept, Crash
  <1>13. ASSUME RepairRows \/ Hydrate \/ NothingStale \/ CommitRow \/ PublishRow
              \/ CommitDrop \/ ResumeRun \/ WaitForRest \/ WaitForHost \/ CommitSet
              \/ ModelAnswers \/ ModelStops \/ CloseLate \/ CancelTurn
       PROVE  UNCHANGED message
    BY <1>13 DEF RepairRows, runVars, Hydrate, NothingStale, CommitRow, PublishRow,
        CommitDrop, ResumeRun, WaitForRest, Wait, WaitForHost, CommitSet, ModelAnswers,
        ModelStops, CloseLate, CancelTurn
  <1>14. ASSUME NEW r \in Requests, AcceptSteering(r) \/ Admit(r) \/ BeginRepair(r)
              \/ DropForRepair(r) \/ MarkUnknown(r) \/ CommitRepair(r)
       PROVE  UNCHANGED message
    BY <1>14 DEF AcceptSteering, runVars, Admit, BeginRepair, DropForRepair,
        MarkUnknown, CommitRepair
  <1> QED  BY <1>1, <1>2, <1>3, <1>4, <1>5, <1>6, <1>7, <1>8, <1>9, <1>10, <1>11, <1>12,
              <1>13, <1>14
      DEF Next, Plan, Persist, Run, Disturb, Repair

(* pc keeps its type.                                                      *)
LEMMA RequestTypesStep ==
    ASSUME RequestTypes, PlaceTypes, Next
    PROVE  RequestTypes'
  <1>1. CASE UNCHANGED pc
    BY <1>1 DEF RequestTypes
  <1>2. ASSUME NEW r \in Requests, AcceptSteering(r) PROVE RequestTypes'
    BY <1>2 DEF RequestTypes, PlaceTypes, AcceptSteering
  <1>3. ASSUME NEW r \in Requests, Admit(r) PROVE RequestTypes'
    BY <1>3 DEF RequestTypes, PlaceTypes, Admit
  <1>4. ASSUME RejectResult PROVE RequestTypes'
    BY <1>4 DEF RequestTypes, PlaceTypes, RejectResult, EndTurn
  <1>5. ASSUME RejectSteering PROVE RequestTypes'
    BY <1>5 DEF RequestTypes, PlaceTypes, RejectSteering, EndTurn
  <1>6. ASSUME HandOver PROVE RequestTypes'
    BY <1>6 DEF RequestTypes, PlaceTypes, HandOver, EndTurn
  <1>7. ASSUME FinishTurn PROVE RequestTypes'
    BY <1>7 DEF RequestTypes, PlaceTypes, FinishTurn, EndTurn
  <1>8. ASSUME AbortPlan PROVE RequestTypes'
    BY <1>8 DEF RequestTypes, PlaceTypes, AbortPlan, EndTurn
  <1>9. ASSUME FailWrite PROVE RequestTypes'
    BY <1>9 DEF RequestTypes, PlaceTypes, FailWrite, EndTurn
  <1>10. ASSUME NEW r \in Requests, BeginRepair(r) PROVE RequestTypes'
    BY <1>10 DEF RequestTypes, PlaceTypes, BeginRepair
  <1>11. ASSUME NEW r \in Requests, DropForRepair(r) PROVE RequestTypes'
    BY <1>11 DEF RequestTypes, PlaceTypes, DropForRepair
  <1>12. ASSUME NEW r \in Requests, MarkUnknown(r) PROVE RequestTypes'
    BY <1>12 DEF RequestTypes, PlaceTypes, MarkUnknown
  <1>13. ASSUME NEW r \in Requests, CommitRepair(r) PROVE RequestTypes'
    BY <1>13 DEF RequestTypes, PlaceTypes, CommitRepair
  <1>14. ASSUME Crash PROVE RequestTypes'
    BY <1>14 DEF RequestTypes, PlaceTypes, Crash
  <1>15. ASSUME RepairRows \/ Hydrate \/ ClearStale \/ NothingStale \/ PlanResult
              \/ PlanSteering \/ CommitRow \/ PublishRow \/ CommitDrop \/ StartRun
              \/ ResumeRun \/ WaitForRest \/ WaitForHost \/ CommitSet
              \/ ModelAnswers \/ ModelStops \/ CloseLate \/ CancelTurn
       PROVE  UNCHANGED pc
    BY <1>15 DEF RepairRows, Hydrate, ClearStale, NothingStale, PlanResult,
        PlanSteering, CommitRow, PublishRow, CommitDrop, StartRun, ResumeRun,
        WaitForRest, Wait, WaitForHost, CommitSet, ModelAnswers, ModelStops, CloseLate,
        CancelTurn
  <1> QED  BY <1>1, <1>2, <1>3, <1>4, <1>5, <1>6, <1>7, <1>8, <1>9, <1>10, <1>11, <1>12,
              <1>13, <1>14, <1>15
      DEF Next, Plan, Persist, Run, Disturb, Repair

(* Sets of calls stay sets of calls.                                       *)
LEMMA SetTypesStep ==
    ASSUME SetTypes, PendingKept, HomeTypes, Next
    PROVE  SetTypes'
  <1>1. CASE UNCHANGED <<rest, ask, handed, touched>>
    BY <1>1 DEF SetTypes, Pending
  <1>2. ASSUME PlanResult PROVE SetTypes'
    BY <1>2 DEF SetTypes, PendingKept, PlanResult, Remaining, fixVars, NoPending
  <1>3. ASSUME RejectResult PROVE SetTypes'
    BY <1>3 DEF SetTypes, PendingKept, RejectResult, EndTurn, fixVars
  <1>4. ASSUME RejectSteering PROVE SetTypes'
    BY <1>4 DEF SetTypes, PendingKept, RejectSteering, EndTurn, fixVars
  <1>5. ASSUME ResumeRun PROVE SetTypes'
    BY <1>5 DEF SetTypes, PendingKept, HomeTypes, ResumeRun, fixVars
  <1>6. ASSUME ModelAnswers PROVE SetTypes'
    BY <1>6, BatchesAssumption DEF SetTypes, PendingKept, ModelAnswers, fixVars
  <1>7. ASSUME HandOver PROVE SetTypes'
    BY <1>7 DEF SetTypes, PendingKept, HomeTypes, HandOver, EndTurn, First, fixVars
  <1>8. ASSUME FinishTurn PROVE SetTypes'
    BY <1>8 DEF SetTypes, PendingKept, FinishTurn, EndTurn, fixVars
  <1>9. ASSUME AbortPlan PROVE SetTypes'
    BY <1>9 DEF SetTypes, PendingKept, HomeTypes, AbortPlan, EndTurn, fixVars
  <1>10. ASSUME FailWrite PROVE SetTypes'
    BY <1>10 DEF SetTypes, PendingKept, FailWrite, EndTurn, fixVars
  <1>11. ASSUME NEW r \in Requests, MarkUnknown(r) PROVE SetTypes'
    BY <1>11 DEF SetTypes, PendingKept, HomeTypes, MarkUnknown, runVars
  <1>12. ASSUME NEW r \in Requests, CommitRepair(r) PROVE SetTypes'
    BY <1>12 DEF SetTypes, PendingKept, CommitRepair, runVars
  <1>13. ASSUME Crash PROVE SetTypes'
    BY <1>13 DEF SetTypes, PendingKept, HomeTypes, Crash
  <1>14. ASSUME RepairRows \/ Hydrate \/ ClearStale \/ NothingStale \/ PlanSteering
              \/ CommitRow \/ PublishRow \/ CommitDrop \/ StartRun \/ WaitForRest
              \/ WaitForHost \/ CommitSet \/ ModelStops \/ CloseLate \/ CancelTurn
       PROVE  UNCHANGED <<rest, ask, handed, touched>>
    BY <1>14 DEF RepairRows, runVars, fixVars, Hydrate, ClearStale, NothingStale,
        PlanSteering, CommitRow, PublishRow, CommitDrop, StartRun, WaitForRest, Wait,
        WaitForHost, CommitSet, ModelStops, CloseLate, CancelTurn
  <1>15. ASSUME NEW r \in Requests, AcceptSteering(r) \/ Admit(r) \/ BeginRepair(r)
              \/ DropForRepair(r)
       PROVE  UNCHANGED <<rest, ask, handed, touched>>
    BY <1>15 DEF AcceptSteering, runVars, fixVars, Admit, BeginRepair, DropForRepair
  <1> QED  BY <1>1, <1>2, <1>3, <1>4, <1>5, <1>6, <1>7, <1>8, <1>9, <1>10, <1>11, <1>12,
              <1>13, <1>14, <1>15
      DEF Next, Plan, Persist, Run, Disturb, Repair

(* A pending action is made of a batch of the message, and kept or given   *)
(* up whole.                                                               *)
LEMMA PendingKeptStep ==
    ASSUME PendingKept, RowTypes, HomeTypes, SetTypes, PlaceTypes, MessageTypes, AtWork,
          PhaseSteps, Next
    PROVE  PendingKept'
  <1>1. CASE UNCHANGED <<rowPending, memPending, home>>
    BY <1>1 DEF PendingKept, Pending
  <1>2. ASSUME Hydrate PROVE PendingKept'
    BY <1>2 DEF PendingKept, RowTypes, HomeTypes, Hydrate, Restorable, Pending
  <1>3. ASSUME PublishRow PROVE PendingKept'
    BY <1>3 DEF PendingKept, RowTypes, HomeTypes, PublishRow, rowVars, Pending
  <1>4. ASSUME CommitDrop PROVE PendingKept'
    BY <1>4 DEF PendingKept, RowTypes, HomeTypes, CommitDrop, cacheVars, Pending
  <1>5. ASSUME StartRun PROVE PendingKept'
    BY <1>5 DEF PendingKept, RowTypes, HomeTypes, StartRun, cacheVars, Pending
  <1>6. ASSUME WaitForRest PROVE PendingKept'
    BY <1>6 DEF PendingKept, RowTypes, HomeTypes, SetTypes, AtWork, WaitForRest, Wait,
        rowVars, First, Pending
  <1>7. ASSUME WaitForHost PROVE PendingKept'
    BY <1>7 DEF PendingKept, RowTypes, HomeTypes, SetTypes, AtWork, WaitForHost, Wait,
        rowVars, First, Pending
  <1>8. ASSUME CommitSet PROVE PendingKept'
    BY <1>8 DEF PendingKept, RowTypes, HomeTypes, CommitSet, cacheVars, Pending
  <1>9. ASSUME ModelAnswers PROVE PendingKept'
    BY <1>9 DEF PendingKept, RowTypes, HomeTypes, ModelAnswers, Fresh, Asked, rowVars,
        cacheVars, Pending
  <1>10. ASSUME ModelStops PROVE PendingKept'
    BY <1>10 DEF PendingKept, RowTypes, HomeTypes, ModelStops, Fresh, rowVars,
        cacheVars, Pending
  <1>11. ASSUME CloseLate PROVE PendingKept'
    BY <1>11 DEF PendingKept, RowTypes, HomeTypes, CloseLate, rowVars, cacheVars,
        Pending
  <1>12. ASSUME AbortPlan PROVE PendingKept'
    BY <1>12 DEF PendingKept, RowTypes, HomeTypes, AbortPlan, cacheVars, Pending
  <1>13. ASSUME FailWrite PROVE PendingKept'
    BY <1>13 DEF PendingKept, RowTypes, HomeTypes, FailWrite, cacheVars, Pending
  <1>14. ASSUME NEW r \in Requests, BeginRepair(r) PROVE PendingKept'
    BY <1>14 DEF PendingKept, RowTypes, HomeTypes, BeginRepair, rowVars, Pending
  <1>15. ASSUME NEW r \in Requests, DropForRepair(r) PROVE PendingKept'
    BY <1>15 DEF PendingKept, RowTypes, HomeTypes, DropForRepair, cacheVars, Pending
  <1>16. ASSUME Crash PROVE PendingKept'
    BY <1>16 DEF PendingKept, RowTypes, HomeTypes, Crash, rowVars, Pending
  <1>17. ASSUME RepairRows \/ ClearStale \/ NothingStale \/ PlanResult
              \/ RejectResult \/ PlanSteering \/ RejectSteering \/ CommitRow
              \/ ResumeRun \/ HandOver \/ FinishTurn \/ CancelTurn
       PROVE  UNCHANGED <<rowPending, memPending, home>>
    BY <1>17 DEF RepairRows, cacheVars, ClearStale, rowVars, NothingStale, PlanResult,
        RejectResult, PlanSteering, RejectSteering, CommitRow, ResumeRun, HandOver,
        FinishTurn, CancelTurn
  <1>18. ASSUME NEW r \in Requests, AcceptSteering(r) \/ Admit(r) \/ MarkUnknown(r)
              \/ CommitRepair(r)
       PROVE  UNCHANGED <<rowPending, memPending, home>>
    BY <1>18 DEF AcceptSteering, rowVars, cacheVars, Admit, MarkUnknown, CommitRepair
  <1> QED  BY <1>1, <1>2, <1>3, <1>4, <1>5, <1>6, <1>7, <1>8, <1>9, <1>10, <1>11, <1>12,
              <1>13, <1>14, <1>15, <1>16, <1>17, <1>18
      DEF Next, Plan, Persist, Run, Disturb, Repair

(* Every turn keeps to the places of its kind.                             *)
LEMMA PhaseStepsStep ==
    ASSUME PhaseSteps, PlaceTypes, PendingHere, Next
    PROVE  PhaseSteps'
  <1>1. CASE UNCHANGED <<phase, step, turn>>
    BY <1>1 DEF PhaseSteps, Turns, Phases
  <1>2. ASSUME NEW r \in Requests, Admit(r) PROVE PhaseSteps'
    BY <1>2, RequestsAssumption DEF PhaseSteps, PlaceTypes, PendingHere, Admit, Goto
  <1>3. ASSUME ClearStale PROVE PhaseSteps'
    BY <1>3 DEF PhaseSteps, PlaceTypes, ClearStale, Goto, Planning
  <1>4. ASSUME NothingStale PROVE PhaseSteps'
    BY <1>4 DEF PhaseSteps, PlaceTypes, NothingStale, Goto, Planning
  <1>5. ASSUME PlanResult PROVE PhaseSteps'
    BY <1>5 DEF PhaseSteps, PlaceTypes, PlanResult, Goto, Planning
  <1>6. ASSUME RejectResult PROVE PhaseSteps'
    BY <1>6 DEF PhaseSteps, PlaceTypes, RejectResult, EndTurn, Goto
  <1>7. ASSUME PlanSteering PROVE PhaseSteps'
    BY <1>7 DEF PhaseSteps, PlaceTypes, PlanSteering, Goto, Planning
  <1>8. ASSUME RejectSteering PROVE PhaseSteps'
    BY <1>8 DEF PhaseSteps, PlaceTypes, RejectSteering, EndTurn, Goto
  <1>9. ASSUME CommitRow PROVE PhaseSteps'
    BY <1>9 DEF PhaseSteps, PlaceTypes, CommitRow, Goto
  <1>10. ASSUME PublishRow PROVE PhaseSteps'
    BY <1>10 DEF PhaseSteps, PlaceTypes, PublishRow, Goto
  <1>11. ASSUME CommitDrop PROVE PhaseSteps'
    BY <1>11 DEF PhaseSteps, PlaceTypes, CommitDrop, Goto
  <1>12. ASSUME StartRun PROVE PhaseSteps'
    BY <1>12 DEF PhaseSteps, PlaceTypes, StartRun, Goto
  <1>13. ASSUME ResumeRun PROVE PhaseSteps'
    BY <1>13 DEF PhaseSteps, PlaceTypes, ResumeRun, Goto
  <1>14. ASSUME WaitForRest PROVE PhaseSteps'
    BY <1>14 DEF PhaseSteps, PlaceTypes, WaitForRest, Wait, Goto
  <1>15. ASSUME WaitForHost PROVE PhaseSteps'
    BY <1>15 DEF PhaseSteps, PlaceTypes, WaitForHost, Wait, Goto
  <1>16. ASSUME CommitSet PROVE PhaseSteps'
    BY <1>16 DEF PhaseSteps, PlaceTypes, CommitSet, Goto
  <1>17. ASSUME ModelAnswers PROVE PhaseSteps'
    BY <1>17 DEF PhaseSteps, PlaceTypes, ModelAnswers, Goto, Phases
  <1>18. ASSUME ModelStops PROVE PhaseSteps'
    BY <1>18 DEF PhaseSteps, PlaceTypes, ModelStops, Goto
  <1>19. ASSUME CloseLate PROVE PhaseSteps'
    BY <1>19 DEF PhaseSteps, PlaceTypes, CloseLate, Goto
  <1>20. ASSUME HandOver PROVE PhaseSteps'
    BY <1>20 DEF PhaseSteps, PlaceTypes, HandOver, EndTurn, Goto
  <1>21. ASSUME FinishTurn PROVE PhaseSteps'
    BY <1>21 DEF PhaseSteps, PlaceTypes, FinishTurn, EndTurn, Goto
  <1>22. ASSUME AbortPlan PROVE PhaseSteps'
    BY <1>22 DEF PhaseSteps, PlaceTypes, AbortPlan, EndTurn, Goto
  <1>23. ASSUME FailWrite PROVE PhaseSteps'
    BY <1>23 DEF PhaseSteps, PlaceTypes, FailWrite, Goto, EndTurn
  <1>24. ASSUME Crash PROVE PhaseSteps'
    BY <1>24 DEF PhaseSteps, PlaceTypes, PendingHere, Crash, Goto
  <1>25. ASSUME RepairRows \/ Hydrate \/ CancelTurn
       PROVE  UNCHANGED <<phase, step, turn>>
    BY <1>25 DEF RepairRows, Hydrate, CancelTurn
  <1>26. ASSUME NEW r \in Requests, AcceptSteering(r) \/ BeginRepair(r)
              \/ DropForRepair(r) \/ MarkUnknown(r) \/ CommitRepair(r)
       PROVE  UNCHANGED <<phase, step, turn>>
    BY <1>26 DEF AcceptSteering, BeginRepair, DropForRepair, MarkUnknown, CommitRepair
  <1> QED  BY <1>1, <1>2, <1>3, <1>4, <1>5, <1>6, <1>7, <1>8, <1>9, <1>10, <1>11, <1>12,
              <1>13, <1>14, <1>15, <1>16, <1>17, <1>18, <1>19, <1>20, <1>21, <1>22,
              <1>23, <1>24, <1>25, <1>26
      DEF Next, Plan, Persist, Run, Disturb, Repair

(* Only Admit lets a request run, and only when no other does.             *)
LEMMA OneRunsStep ==
    ASSUME OneRuns, PlaceTypes, RequestTypes, PhaseSteps, Next
    PROVE  OneRuns'
  <1>1. CASE UNCHANGED <<pc, turn>>
    BY <1>1 DEF OneRuns, Turns
  <1>2. ASSUME NEW r \in Requests, AcceptSteering(r) PROVE OneRuns'
    BY <1>2 DEF OneRuns, PlaceTypes, RequestTypes, AcceptSteering
  <1>3. ASSUME NEW r \in Requests, Admit(r) PROVE OneRuns'
    BY <1>3, RequestsAssumption DEF OneRuns, PlaceTypes, RequestTypes, Admit
  <1>4. ASSUME RejectResult PROVE OneRuns'
    BY <1>4 DEF OneRuns, PlaceTypes, RequestTypes, RejectResult, EndTurn
  <1>5. ASSUME RejectSteering PROVE OneRuns'
    BY <1>5 DEF OneRuns, PlaceTypes, RequestTypes, RejectSteering, EndTurn
  <1>6. ASSUME HandOver PROVE OneRuns'
    BY <1>6 DEF OneRuns, PlaceTypes, RequestTypes, HandOver, EndTurn
  <1>7. ASSUME FinishTurn PROVE OneRuns'
    BY <1>7 DEF OneRuns, PlaceTypes, RequestTypes, FinishTurn, EndTurn
  <1>8. ASSUME AbortPlan PROVE OneRuns'
    BY <1>8 DEF OneRuns, PlaceTypes, RequestTypes, AbortPlan, EndTurn
  <1>9. ASSUME FailWrite PROVE OneRuns'
    BY <1>9 DEF OneRuns, PlaceTypes, RequestTypes, FailWrite, EndTurn
  <1>10. ASSUME NEW r \in Requests, BeginRepair(r) PROVE OneRuns'
    BY <1>10 DEF OneRuns, PlaceTypes, RequestTypes, BeginRepair
  <1>11. ASSUME NEW r \in Requests, DropForRepair(r) PROVE OneRuns'
    BY <1>11 DEF OneRuns, PlaceTypes, RequestTypes, DropForRepair
  <1>12. ASSUME NEW r \in Requests, MarkUnknown(r) PROVE OneRuns'
    BY <1>12 DEF OneRuns, PlaceTypes, RequestTypes, MarkUnknown
  <1>13. ASSUME NEW r \in Requests, CommitRepair(r) PROVE OneRuns'
    BY <1>13 DEF OneRuns, PlaceTypes, RequestTypes, CommitRepair
  <1>14. ASSUME Crash PROVE OneRuns'
    BY <1>14 DEF OneRuns, PlaceTypes, RequestTypes, Crash
  <1>15. ASSUME RepairRows \/ Hydrate \/ ClearStale \/ NothingStale \/ PlanResult
              \/ PlanSteering \/ CommitRow \/ PublishRow \/ CommitDrop \/ StartRun
              \/ ResumeRun \/ WaitForRest \/ WaitForHost \/ CommitSet
              \/ ModelAnswers \/ ModelStops \/ CloseLate \/ CancelTurn
       PROVE  UNCHANGED <<pc, turn>>
    BY <1>15 DEF RepairRows, Hydrate, ClearStale, NothingStale, PlanResult,
        PlanSteering, CommitRow, PublishRow, CommitDrop, StartRun, ResumeRun,
        WaitForRest, Wait, WaitForHost, CommitSet, ModelAnswers, ModelStops, CloseLate,
        CancelTurn
  <1> QED  BY <1>1, <1>2, <1>3, <1>4, <1>5, <1>6, <1>7, <1>8, <1>9, <1>10, <1>11, <1>12,
              <1>13, <1>14, <1>15
      DEF Next, Plan, Persist, Run, Disturb, Repair

(* The context is there before anything is done with it, and until the     *)
(* process dies.                                                           *)
LEMMA InCacheStep ==
    ASSUME InCache, PlaceTypes, RequestTypes, PhaseSteps, Next
    PROVE  InCache'
  <1>1. CASE UNCHANGED <<step, cached, memPending, pc>>
    BY <1>1 DEF InCache, Turns, Repairs
  <1>2. ASSUME Hydrate PROVE InCache'
    BY <1>2 DEF InCache, PlaceTypes, RequestTypes, Hydrate
  <1>3. ASSUME NEW r \in Requests, AcceptSteering(r) PROVE InCache'
    BY <1>3 DEF InCache, PlaceTypes, RequestTypes, AcceptSteering, cacheVars
  <1>4. ASSUME NEW r \in Requests, Admit(r) PROVE InCache'
    BY <1>4 DEF InCache, PlaceTypes, RequestTypes, Admit, Goto, cacheVars
  <1>5. ASSUME ClearStale PROVE InCache'
    BY <1>5 DEF InCache, PlaceTypes, RequestTypes, ClearStale, cacheVars
  <1>6. ASSUME NothingStale PROVE InCache'
    BY <1>6 DEF InCache, PlaceTypes, RequestTypes, NothingStale, Planning, cacheVars
  <1>7. ASSUME PlanResult PROVE InCache'
    BY <1>7 DEF InCache, PlaceTypes, RequestTypes, PlanResult, Planning, cacheVars
  <1>8. ASSUME RejectResult PROVE InCache'
    BY <1>8 DEF InCache, PlaceTypes, RequestTypes, RejectResult, EndTurn, Goto,
        cacheVars
  <1>9. ASSUME PlanSteering PROVE InCache'
    BY <1>9 DEF InCache, PlaceTypes, RequestTypes, PlanSteering, Planning, cacheVars
  <1>10. ASSUME RejectSteering PROVE InCache'
    BY <1>10 DEF InCache, PlaceTypes, RequestTypes, RejectSteering, EndTurn, Goto,
        cacheVars
  <1>11. ASSUME CommitRow PROVE InCache'
    BY <1>11 DEF InCache, PlaceTypes, RequestTypes, CommitRow, cacheVars
  <1>12. ASSUME PublishRow PROVE InCache'
    BY <1>12 DEF InCache, PlaceTypes, RequestTypes, PublishRow
  <1>13. ASSUME CommitDrop PROVE InCache'
    BY <1>13 DEF InCache, PlaceTypes, RequestTypes, CommitDrop, cacheVars
  <1>14. ASSUME StartRun PROVE InCache'
    BY <1>14 DEF InCache, PlaceTypes, RequestTypes, StartRun, cacheVars
  <1>15. ASSUME ResumeRun PROVE InCache'
    BY <1>15 DEF InCache, PlaceTypes, RequestTypes, ResumeRun, cacheVars
  <1>16. ASSUME WaitForRest PROVE InCache'
    BY <1>16 DEF InCache, PlaceTypes, RequestTypes, WaitForRest, Wait
  <1>17. ASSUME WaitForHost PROVE InCache'
    BY <1>17 DEF InCache, PlaceTypes, RequestTypes, WaitForHost, Wait
  <1>18. ASSUME CommitSet PROVE InCache'
    BY <1>18 DEF InCache, PlaceTypes, RequestTypes, CommitSet, cacheVars
  <1>19. ASSUME ModelAnswers PROVE InCache'
    BY <1>19 DEF InCache, PlaceTypes, RequestTypes, ModelAnswers, cacheVars
  <1>20. ASSUME ModelStops PROVE InCache'
    BY <1>20 DEF InCache, PlaceTypes, RequestTypes, ModelStops, cacheVars
  <1>21. ASSUME CloseLate PROVE InCache'
    BY <1>21 DEF InCache, PlaceTypes, RequestTypes, CloseLate, cacheVars
  <1>22. ASSUME HandOver PROVE InCache'
    BY <1>22 DEF InCache, PlaceTypes, RequestTypes, HandOver, cacheVars
  <1>23. ASSUME FinishTurn PROVE InCache'
    BY <1>23 DEF InCache, PlaceTypes, RequestTypes, FinishTurn, cacheVars
  <1>24. ASSUME AbortPlan PROVE InCache'
    BY <1>24 DEF InCache, PlaceTypes, RequestTypes, AbortPlan, EndTurn, Goto, cacheVars
  <1>25. ASSUME FailWrite PROVE InCache'
    BY <1>25 DEF InCache, PlaceTypes, RequestTypes, FailWrite, cacheVars
  <1>26. ASSUME NEW r \in Requests, BeginRepair(r) PROVE InCache'
    BY <1>26 DEF InCache, PlaceTypes, RequestTypes, BeginRepair
  <1>27. ASSUME NEW r \in Requests, DropForRepair(r) PROVE InCache'
    BY <1>27 DEF InCache, PlaceTypes, RequestTypes, DropForRepair, cacheVars
  <1>28. ASSUME NEW r \in Requests, MarkUnknown(r) PROVE InCache'
    BY <1>28 DEF InCache, PlaceTypes, RequestTypes, MarkUnknown
  <1>29. ASSUME NEW r \in Requests, CommitRepair(r) PROVE InCache'
    BY <1>29 DEF InCache, PlaceTypes, RequestTypes, CommitRepair, cacheVars
  <1>30. ASSUME Crash PROVE InCache'
    BY <1>30 DEF InCache, PlaceTypes, RequestTypes, Crash, Goto
  <1>31. ASSUME RepairRows \/ CancelTurn
       PROVE  UNCHANGED <<step, cached, memPending, pc>>
    BY <1>31 DEF RepairRows, cacheVars, CancelTurn
  <1> QED  BY <1>1, <1>2, <1>3, <1>4, <1>5, <1>6, <1>7, <1>8, <1>9, <1>10, <1>11, <1>12,
              <1>13, <1>14, <1>15, <1>16, <1>17, <1>18, <1>19, <1>20, <1>21, <1>22,
              <1>23, <1>24, <1>25, <1>26, <1>27, <1>28, <1>29, <1>30, <1>31
      DEF Next, Plan, Persist, Run, Disturb, Repair

(* Calls are made in messages of turns that run.                           *)
LEMMA OwnedStep ==
    ASSUME Owned, RowTypes, HomeTypes, PlaceTypes, MessageTypes, RequestTypes,
          PhaseSteps, OneRuns, InCache, AtWork, PendingKept, Next
    PROVE  Owned'
  <1>1. CASE UNCHANGED <<home, row, mem, seen, stale, pc, turn, phase, message>>
    BY <1>1 DEF Owned, Nothing, Resolved
  <1>2. ASSUME RepairRows PROVE Owned'
    BY <1>2 DEF Owned, RowTypes, HomeTypes, RepairRows, Resolve, cacheVars, runVars,
        fixVars
  <1>3. ASSUME Hydrate PROVE Owned'
    BY <1>3 DEF Owned, RowTypes, HomeTypes, Hydrate, runVars, fixVars
  <1>4. ASSUME NEW r \in Requests, AcceptSteering(r) PROVE Owned'
    BY <1>4 DEF Owned, RowTypes, HomeTypes, AcceptSteering, rowVars, cacheVars, runVars,
        fixVars
  <1>5. ASSUME NEW r \in Requests, Admit(r) PROVE Owned'
    BY <1>5 DEF Owned, RowTypes, HomeTypes, Admit, rowVars, cacheVars, runVars, fixVars
  <1>6. ASSUME ClearStale PROVE Owned'
    BY <1>6 DEF Owned, RowTypes, HomeTypes, PendingKept, ClearStale, Planning, Resolve,
        rowVars, cacheVars, fixVars
  <1>7. ASSUME NothingStale PROVE Owned'
    BY <1>7 DEF Owned, RowTypes, HomeTypes, NothingStale, Planning, rowVars, cacheVars,
        runVars, fixVars
  <1>8. ASSUME PlanResult PROVE Owned'
    BY <1>8, RequestsAssumption DEF Owned, RowTypes, HomeTypes, PlaceTypes, PendingKept,
        PlanResult, Planning, Answerable, rowVars, cacheVars, fixVars, Turns, NoPending,
        Pending, Results
  <1>9. ASSUME RejectResult PROVE Owned'
    BY <1>9 DEF Owned, RowTypes, HomeTypes, RejectResult, EndTurn, rowVars, cacheVars,
        fixVars, Nothing
  <1>10. ASSUME PlanSteering PROVE Owned'
    BY <1>10 DEF Owned, RowTypes, HomeTypes, OneRuns, PendingKept, PlanSteering, Goto,
        rowVars, cacheVars, fixVars
  <1>11. ASSUME RejectSteering PROVE Owned'
    BY <1>11 DEF Owned, RowTypes, HomeTypes, RejectSteering, EndTurn, rowVars,
        cacheVars, fixVars, Nothing
  <1>12. ASSUME CommitRow PROVE Owned'
    BY <1>12 DEF Owned, RowTypes, HomeTypes, CommitRow, Goto, Overlay, cacheVars,
        runVars, fixVars
  <1>13. ASSUME PublishRow PROVE Owned'
    BY <1>13 DEF Owned, RowTypes, HomeTypes, PublishRow, Goto, Overlay, rowVars,
        runVars, fixVars
  <1>14. ASSUME CommitDrop PROVE Owned'
    BY <1>14 DEF Owned, RowTypes, HomeTypes, CommitDrop, Goto, cacheVars, runVars,
        fixVars
  <1>15. ASSUME StartRun PROVE Owned'
    BY <1>15 DEF Owned, RowTypes, HomeTypes, OneRuns, StartRun, cacheVars, fixVars
  <1>16. ASSUME ResumeRun PROVE Owned'
    BY <1>16 DEF Owned, RowTypes, HomeTypes, ResumeRun, Goto, rowVars, cacheVars,
        fixVars
  <1>17. ASSUME WaitForRest PROVE Owned'
    BY <1>17 DEF Owned, RowTypes, HomeTypes, WaitForRest, Wait, Goto, rowVars, runVars,
        fixVars
  <1>18. ASSUME WaitForHost PROVE Owned'
    BY <1>18 DEF Owned, RowTypes, HomeTypes, WaitForHost, Wait, Goto, rowVars, runVars,
        fixVars
  <1>19. ASSUME CommitSet PROVE Owned'
    BY <1>19 DEF Owned, RowTypes, HomeTypes, CommitSet, Goto, cacheVars, runVars,
        fixVars
  <1>20. ASSUME ModelAnswers PROVE Owned'
    <2>1. PICK B \in SUBSET Calls : Answered(B)
      BY <1>20, Answering
    <2>2. phase = "save" /\ message # None
      BY <2>1 DEF Answered, Makes, PhaseSteps, PlaceTypes, Phases, AtWork
    <2> QED  BY <2>1, <2>2 DEF Owned, RowTypes, Answered, Makes
  <1>21. ASSUME ModelStops PROVE Owned'
    <2>1. PICK B \in SUBSET Calls : Stopped(B)
      BY <1>21, Stopping
    <2>2. phase = "save" /\ message # None
      BY <2>1 DEF Stopped, Makes, PhaseSteps, PlaceTypes, Phases, AtWork
    <2> QED  BY <2>1, <2>2 DEF Owned, RowTypes, Stopped, Makes
  <1>22. ASSUME CloseLate PROVE Owned'
    BY <1>22 DEF Owned, RowTypes, HomeTypes, CloseLate, Goto, Closed, rowVars,
        cacheVars, fixVars
  <1>23. ASSUME HandOver PROVE Owned'
    BY <1>23 DEF Owned, RowTypes, HomeTypes, HandOver, EndTurn, rowVars, cacheVars,
        fixVars, Nothing
  <1>24. ASSUME FinishTurn PROVE Owned'
    BY <1>24 DEF Owned, RowTypes, HomeTypes, FinishTurn, EndTurn, rowVars, cacheVars,
        fixVars, Nothing
  <1>25. ASSUME AbortPlan PROVE Owned'
    BY <1>25 DEF Owned, RowTypes, HomeTypes, AbortPlan, EndTurn, Overlay, cacheVars,
        fixVars, Nothing
  <1>26. ASSUME FailWrite PROVE Owned'
    BY <1>26 DEF Owned, RowTypes, HomeTypes, RequestTypes, FailWrite, Goto, EndTurn,
        Overlay, Closed, cacheVars, fixVars, Nothing
  <1>27. ASSUME NEW r \in Requests, BeginRepair(r) PROVE Owned'
    BY <1>27 DEF Owned, RowTypes, HomeTypes, BeginRepair, rowVars, runVars, fixVars
  <1>28. ASSUME NEW r \in Requests, DropForRepair(r) PROVE Owned'
    BY <1>28 DEF Owned, RowTypes, HomeTypes, DropForRepair, cacheVars, runVars, fixVars
  <1>29. ASSUME NEW r \in Requests, MarkUnknown(r) PROVE Owned'
    BY <1>29 DEF Owned, RowTypes, HomeTypes, MarkUnknown, Resolve, rowVars, runVars
  <1>30. ASSUME NEW r \in Requests, CommitRepair(r) PROVE Owned'
    BY <1>30 DEF Owned, RowTypes, HomeTypes, CommitRepair, cacheVars, runVars, Nothing
  <1>31. ASSUME Crash PROVE Owned'
    BY <1>31 DEF Owned, RowTypes, HomeTypes, Crash, rowVars, Nothing
  <1>32. ASSUME CancelTurn
       PROVE  UNCHANGED <<home, row, mem, seen, stale, pc, turn, phase, message>>
    BY <1>32 DEF CancelTurn, rowVars, cacheVars, runVars, fixVars
  <1> QED  BY <1>1, <1>2, <1>3, <1>4, <1>5, <1>6, <1>7, <1>8, <1>9, <1>10, <1>11, <1>12,
              <1>13, <1>14, <1>15, <1>16, <1>17, <1>18, <1>19, <1>20, <1>21, <1>22,
              <1>23, <1>24, <1>25, <1>26, <1>27, <1>28, <1>29, <1>30, <1>31, <1>32
      DEF Next, Plan, Persist, Run, Disturb, Repair

(* A turn waits only for calls of the message it writes.                   *)
LEMMA AtWorkStep ==
    ASSUME AtWork, RowTypes, HomeTypes, PlaceTypes, MessageTypes, SetTypes, PhaseSteps,
          PendingKept, PendingHere, Owned, MemSeen, Next
    PROVE  AtWork'
  <1>1. CASE UNCHANGED <<phase, step, message, rest, ask, home, seen>>
    BY <1>1 DEF AtWork, Pending, Resolved
  <1>2. ASSUME NEW r \in Requests, Admit(r) PROVE AtWork'
    BY <1>2 DEF AtWork, RowTypes, HomeTypes, PhaseSteps, Admit, Goto, runVars
  <1>3. ASSUME ClearStale PROVE AtWork'
    BY <1>3 DEF AtWork, RowTypes, HomeTypes, ClearStale, Goto, Planning
  <1>4. ASSUME NothingStale PROVE AtWork'
    BY <1>4 DEF AtWork, RowTypes, HomeTypes, NothingStale, Goto, Planning, runVars
  <1>5. ASSUME PlanResult PROVE AtWork'
    BY <1>5, RequestsAssumption DEF AtWork, RowTypes, HomeTypes, PlaceTypes,
        PendingKept, PlanResult, Goto, Planning, Answerable, Remaining, Turns,
        NoPending, Pending, Results
  <1>6. ASSUME RejectResult PROVE AtWork'
    BY <1>6 DEF AtWork, RowTypes, HomeTypes, RejectResult, EndTurn, Goto
  <1>7. ASSUME PlanSteering PROVE AtWork'
    BY <1>7 DEF AtWork, RowTypes, HomeTypes, PendingKept, PlanSteering, Goto, Planning,
        Pending
  <1>8. ASSUME RejectSteering PROVE AtWork'
    BY <1>8 DEF AtWork, RowTypes, HomeTypes, RejectSteering, EndTurn, Goto
  <1>9. ASSUME CommitRow PROVE AtWork'
    BY <1>9 DEF AtWork, RowTypes, HomeTypes, CommitRow, Goto, runVars
  <1>10. ASSUME PublishRow PROVE AtWork'
    BY <1>10 DEF AtWork, RowTypes, HomeTypes, PublishRow, Goto, runVars
  <1>11. ASSUME CommitDrop PROVE AtWork'
    BY <1>11 DEF AtWork, RowTypes, HomeTypes, CommitDrop, Goto, runVars
  <1>12. ASSUME StartRun PROVE AtWork'
    BY <1>12 DEF AtWork, RowTypes, HomeTypes, PhaseSteps, StartRun, Goto
  <1>13. ASSUME ResumeRun PROVE AtWork'
    BY <1>13 DEF AtWork, RowTypes, HomeTypes, ResumeRun, Goto
  <1>14. ASSUME WaitForRest PROVE AtWork'
    BY <1>14 DEF AtWork, RowTypes, HomeTypes, WaitForRest, Wait, Goto, runVars
  <1>15. ASSUME WaitForHost PROVE AtWork'
    BY <1>15 DEF AtWork, RowTypes, HomeTypes, WaitForHost, Wait, Goto, runVars
  <1>16. ASSUME CommitSet PROVE AtWork'
    BY <1>16 DEF AtWork, RowTypes, HomeTypes, CommitSet, Goto, runVars
  <1>17. ASSUME ModelAnswers PROVE AtWork'
    <2>1. PICK B \in SUBSET Calls : Answered(B)
      BY <1>17, Answering
    <2>2. phase = "save" /\ message # None
      BY <2>1 DEF Answered, Makes, PhaseSteps, PlaceTypes, Phases, AtWork
    <2> QED  BY <2>1, <2>2 DEF AtWork, RowTypes, Answered, Makes
  <1>18. ASSUME ModelStops PROVE AtWork'
    <2>1. PICK B \in SUBSET Calls : Stopped(B)
      BY <1>18, Stopping
    <2>2. phase = "save" /\ message # None
      BY <2>1 DEF Stopped, Makes, PhaseSteps, PlaceTypes, Phases, AtWork
    <2> QED  BY <2>1, <2>2 DEF AtWork, RowTypes, Stopped, Makes
  <1>19. ASSUME CloseLate PROVE AtWork'
    BY <1>19 DEF AtWork, RowTypes, HomeTypes, CloseLate, Goto
  <1>20. ASSUME HandOver PROVE AtWork'
    BY <1>20 DEF AtWork, RowTypes, HomeTypes, HandOver, EndTurn, Goto
  <1>21. ASSUME FinishTurn PROVE AtWork'
    BY <1>21 DEF AtWork, RowTypes, HomeTypes, FinishTurn, EndTurn, Goto
  <1>22. ASSUME AbortPlan PROVE AtWork'
    BY <1>22 DEF AtWork, RowTypes, HomeTypes, AbortPlan, EndTurn, Goto
  <1>23. ASSUME FailWrite PROVE AtWork'
    BY <1>23 DEF AtWork, RowTypes, HomeTypes, FailWrite, Goto, EndTurn
  <1>24. ASSUME Crash PROVE AtWork'
    BY <1>24 DEF AtWork, RowTypes, HomeTypes, Crash, Goto
  <1>25. ASSUME RepairRows \/ Hydrate \/ CancelTurn
       PROVE  UNCHANGED <<phase, step, message, rest, ask, home, seen>>
    BY <1>25 DEF RepairRows, runVars, Hydrate, CancelTurn
  <1>26. ASSUME NEW r \in Requests, AcceptSteering(r) \/ BeginRepair(r)
              \/ DropForRepair(r) \/ MarkUnknown(r) \/ CommitRepair(r)
       PROVE  UNCHANGED <<phase, step, message, rest, ask, home, seen>>
    BY <1>26 DEF AcceptSteering, runVars, BeginRepair, DropForRepair, MarkUnknown,
        CommitRepair
  <1> QED  BY <1>1, <1>2, <1>3, <1>4, <1>5, <1>6, <1>7, <1>8, <1>9, <1>10, <1>11, <1>12,
              <1>13, <1>14, <1>15, <1>16, <1>17, <1>18, <1>19, <1>20, <1>21, <1>22,
              <1>23, <1>24, <1>25, <1>26
      DEF Next, Plan, Persist, Run, Disturb, Repair

(* A batch has one first call.                                             *)
LEMMA OnlyFirst ==
    ASSUME NEW batch \in SUBSET Calls, NEW c \in First(batch), NEW d \in First(batch)
    PROVE  c = d
  <1>1. c \in Calls /\ d \in Calls /\ Place[c] <= Place[d] /\ Place[d] <= Place[c]
    BY DEF First
  <1>2. Place[c] \in Nat /\ Place[d] \in Nat
    BY <1>1, BatchesAssumption
  <1>3. Place[c] = Place[d]
    BY <1>1, <1>2
  <1> QED  BY <1>1, <1>3, BatchesAssumption

(* A request never becomes idle again, and what was not saved stays so.    *)
Forward == \A q \in Requests : /\ pc'[q] = "idle" => pc[q] = "idle"
                               /\ pc[q] = "unsaved" => pc'[q] = "unsaved"
LEMMA Monotone ==
    ASSUME Next, RequestTypes, PlaceTypes, PhaseSteps, OneRuns
    PROVE  /\ Never("repair")' => Never("repair")
           /\ Never("steering")' => Never("steering")
           /\ Clean' => Clean
  <1>1. ASSUME UNCHANGED pc PROVE Forward
    BY <1>1 DEF Forward
  <1>2. ASSUME NEW r \in Requests, AcceptSteering(r) PROVE Forward
    BY <1>2 DEF Forward, PhaseSteps, OneRuns, AcceptSteering
  <1>3. ASSUME NEW r \in Requests, Admit(r) PROVE Forward
    BY <1>3 DEF Forward, PhaseSteps, OneRuns, Admit
  <1>4. ASSUME RejectResult PROVE Forward
    BY <1>4 DEF Forward, PhaseSteps, OneRuns, RejectResult, EndTurn, Planning
  <1>5. ASSUME RejectSteering PROVE Forward
    BY <1>5 DEF Forward, PhaseSteps, OneRuns, RejectSteering, EndTurn, Planning
  <1>6. ASSUME HandOver PROVE Forward
    BY <1>6 DEF Forward, PhaseSteps, OneRuns, HandOver, EndTurn
  <1>7. ASSUME FinishTurn PROVE Forward
    BY <1>7 DEF Forward, PhaseSteps, OneRuns, FinishTurn, EndTurn
  <1>8. ASSUME AbortPlan PROVE Forward
    BY <1>8 DEF Forward, PhaseSteps, OneRuns, AbortPlan, EndTurn
  <1>9. ASSUME FailWrite PROVE Forward
    BY <1>9 DEF Forward, RequestTypes, PhaseSteps, OneRuns, FailWrite, EndTurn
  <1>10. ASSUME NEW r \in Requests, BeginRepair(r) PROVE Forward
    BY <1>10 DEF Forward, PhaseSteps, OneRuns, BeginRepair
  <1>11. ASSUME NEW r \in Requests, DropForRepair(r) PROVE Forward
    BY <1>11 DEF Forward, PhaseSteps, OneRuns, DropForRepair
  <1>12. ASSUME NEW r \in Requests, MarkUnknown(r) PROVE Forward
    BY <1>12 DEF Forward, PhaseSteps, OneRuns, MarkUnknown
  <1>13. ASSUME NEW r \in Requests, CommitRepair(r) PROVE Forward
    BY <1>13 DEF Forward, PhaseSteps, OneRuns, CommitRepair
  <1>14. ASSUME Crash PROVE Forward
    BY <1>14 DEF Forward, PhaseSteps, OneRuns, Crash
  <1>15. ASSUME RepairRows \/ Hydrate \/ ClearStale \/ NothingStale \/ PlanResult
              \/ PlanSteering \/ CommitRow \/ PublishRow \/ CommitDrop \/ StartRun
              \/ ResumeRun \/ WaitForRest \/ WaitForHost \/ CommitSet
              \/ ModelAnswers \/ ModelStops \/ CloseLate \/ CancelTurn
       PROVE  UNCHANGED pc
    BY <1>15 DEF RepairRows, Hydrate, ClearStale, NothingStale, PlanResult,
        PlanSteering, CommitRow, PublishRow, CommitDrop, StartRun, ResumeRun,
        WaitForRest, Wait, WaitForHost, CommitSet, ModelAnswers, ModelStops, CloseLate,
        CancelTurn
  <1>16. Forward
    BY <1>1, <1>2, <1>3, <1>4, <1>5, <1>6, <1>7, <1>8, <1>9, <1>10, <1>11, <1>12, <1>13,
       <1>14, <1>15
    DEF Next, Plan, Persist, Run, Disturb, Repair
  <1> QED  BY <1>16 DEF Forward, Never, Clean

(* What waits while a turn writes is of its message.                       *)
LEMMA PendingHereStep ==
    ASSUME PendingHere, RowTypes, HomeTypes, PlaceTypes, PhaseSteps, MessageTypes,
          AtWork, PendingKept, InCache, Next
    PROVE  PendingHere'
  <1>1. CASE UNCHANGED <<step, phase, memPending, home, message, seen, rest, ask>>
    BY <1>1 DEF PendingHere, Pending, Resolved
  <1>2. ASSUME Hydrate PROVE PendingHere'
    BY <1>2 DEF PendingHere, RowTypes, InCache, Hydrate, Working
  <1>3. ASSUME NEW r \in Requests, Admit(r) PROVE PendingHere'
    BY <1>3 DEF PendingHere, RowTypes, Admit, Goto, Working
  <1>4. ASSUME ClearStale PROVE PendingHere'
    BY <1>4 DEF PendingHere, RowTypes, PendingKept, ClearStale, Goto, Resolve,
        StaleStatus, cacheVars
  <1>5. ASSUME NothingStale PROVE PendingHere'
    BY <1>5 DEF PendingHere, RowTypes, NothingStale, cacheVars
  <1>6. ASSUME PlanResult PROVE PendingHere'
    BY <1>6 DEF PendingHere, RowTypes, PendingKept, PlanResult, Goto, Answerable,
        Remaining, cacheVars
  <1>7. ASSUME RejectResult PROVE PendingHere'
    BY <1>7 DEF PendingHere, RowTypes, RejectResult, EndTurn, Goto
  <1>8. ASSUME PlanSteering PROVE PendingHere'
    BY <1>8 DEF PendingHere, RowTypes, PlanSteering, Goto, cacheVars
  <1>9. ASSUME RejectSteering PROVE PendingHere'
    BY <1>9 DEF PendingHere, RowTypes, RejectSteering, EndTurn, Goto
  <1>10. ASSUME CommitRow PROVE PendingHere'
    BY <1>10 DEF PendingHere, CommitRow, Goto, cacheVars, runVars, Working
  <1>11. ASSUME PublishRow PROVE PendingHere'
    BY <1>11 DEF PendingHere, PublishRow
  <1>12. ASSUME CommitDrop PROVE PendingHere'
    BY <1>12 DEF PendingHere, CommitDrop, cacheVars
  <1>13. ASSUME StartRun PROVE PendingHere'
    BY <1>13 DEF PendingHere, StartRun, cacheVars
  <1>14. ASSUME ResumeRun PROVE PendingHere'
    BY <1>14 DEF PendingHere, ResumeRun, cacheVars
  <1>15. ASSUME WaitForRest PROVE PendingHere'
    BY <1>15 DEF PendingHere, AtWork, WaitForRest, Wait, Goto, runVars, First
  <1>16. ASSUME WaitForHost PROVE PendingHere'
    BY <1>16 DEF PendingHere, AtWork, WaitForHost, Wait, Goto, runVars, First
  <1>17. ASSUME CommitSet PROVE PendingHere'
    BY <1>17 DEF PendingHere, CommitSet, Goto, cacheVars, runVars, Working
  <1>18. ASSUME ModelAnswers PROVE PendingHere'
    <2>1. PICK B \in SUBSET Calls : Answered(B)
      BY <1>18, Answering
    <2>2. phase = "save" /\ message # None
      BY <2>1 DEF Answered, Makes, PhaseSteps, PlaceTypes, Phases, AtWork
    <2> QED  BY <2>1, <2>2 DEF PendingHere, PendingKept, Working, Answered, Makes
  <1>19. ASSUME ModelStops PROVE PendingHere'
    <2>1. PICK B \in SUBSET Calls : Stopped(B)
      BY <1>19, Stopping
    <2>2. phase = "save" /\ message # None
      BY <2>1 DEF Stopped, Makes, PhaseSteps, PlaceTypes, Phases, AtWork
    <2> QED  BY <2>1, <2>2 DEF PendingHere, PendingKept, Working, Stopped, Makes
  <1>20. ASSUME CloseLate PROVE PendingHere'
    BY <1>20 DEF PendingHere, CloseLate, Goto, cacheVars, Working
  <1>21. ASSUME HandOver PROVE PendingHere'
    BY <1>21 DEF PendingHere, HandOver, EndTurn, Goto
  <1>22. ASSUME FinishTurn PROVE PendingHere'
    BY <1>22 DEF PendingHere, FinishTurn, EndTurn, Goto
  <1>23. ASSUME AbortPlan PROVE PendingHere'
    BY <1>23 DEF PendingHere, AbortPlan, EndTurn, Goto
  <1>24. ASSUME FailWrite PROVE PendingHere'
    BY <1>24 DEF PendingHere, FailWrite, Goto, EndTurn, cacheVars, Working
  <1>25. ASSUME NEW r \in Requests, BeginRepair(r) PROVE PendingHere'
    BY <1>25 DEF PendingHere, BeginRepair
  <1>26. ASSUME Crash PROVE PendingHere'
    BY <1>26 DEF PendingHere, Crash
  <1>27. ASSUME RepairRows \/ CancelTurn
       PROVE  UNCHANGED <<step, phase, memPending, home, message, seen, rest, ask>>
    BY <1>27 DEF RepairRows, cacheVars, runVars, CancelTurn
  <1>28. ASSUME NEW r \in Requests, AcceptSteering(r) \/ DropForRepair(r)
              \/ MarkUnknown(r) \/ CommitRepair(r)
       PROVE  UNCHANGED <<step, phase, memPending, home, message, seen, rest, ask>>
    BY <1>28 DEF AcceptSteering, cacheVars, runVars, DropForRepair, MarkUnknown,
        CommitRepair
  <1> QED  BY <1>1, <1>2, <1>3, <1>4, <1>5, <1>6, <1>7, <1>8, <1>9, <1>10, <1>11, <1>12,
              <1>13, <1>14, <1>15, <1>16, <1>17, <1>18, <1>19, <1>20, <1>21, <1>22,
              <1>23, <1>24, <1>25, <1>26, <1>27, <1>28
      DEF Next, Plan, Persist, Run, Disturb, Repair

(* A run begins with nothing pending, unless it is promoted steering.      *)
LEMMA NothingWaitsStep ==
    ASSUME NothingWaits, RowTypes, HomeTypes, PlaceTypes, PhaseSteps, RequestTypes,
          OneRuns, InCache, PendingHere, Next
    PROVE  NothingWaits'
  <1>1. CASE UNCHANGED <<step, phase, memPending, pc>>
    BY <1>1 DEF NothingWaits, Turns, NoPending, Never
  <1>2. ASSUME Hydrate PROVE NothingWaits'
    BY <1>2 DEF NothingWaits, RowTypes, InCache, Hydrate
  <1>3. ASSUME NEW r \in Requests, AcceptSteering(r) PROVE NothingWaits'
    BY <1>3 DEF NothingWaits, RowTypes, AcceptSteering
  <1>4. ASSUME NEW r \in Requests, Admit(r) PROVE NothingWaits'
    BY <1>4 DEF NothingWaits, RowTypes, Admit, Goto
  <1>5. ASSUME ClearStale PROVE NothingWaits'
    BY <1>5 DEF NothingWaits, RowTypes, ClearStale, Goto
  <1>6. ASSUME NothingStale PROVE NothingWaits'
    BY <1>6 DEF NothingWaits, RowTypes, NothingStale, Goto
  <1>7. ASSUME PlanResult PROVE NothingWaits'
    BY <1>7 DEF NothingWaits, RowTypes, PlanResult, Goto
  <1>8. ASSUME RejectResult PROVE NothingWaits'
    BY <1>8 DEF NothingWaits, RowTypes, RejectResult, EndTurn, Goto
  <1>9. ASSUME PlanSteering PROVE NothingWaits'
    BY <1>9 DEF NothingWaits, RowTypes, PlaceTypes, OneRuns, PlanSteering, Planning,
        Turns, Never
  <1>10. ASSUME RejectSteering PROVE NothingWaits'
    BY <1>10 DEF NothingWaits, RowTypes, RejectSteering, EndTurn, Goto
  <1>11. ASSUME CommitRow PROVE NothingWaits'
    BY <1>11 DEF NothingWaits, RowTypes, CommitRow, Goto, cacheVars, Never
  <1>12. ASSUME PublishRow PROVE NothingWaits'
    BY <1>12 DEF NothingWaits, RowTypes, PublishRow
  <1>13. ASSUME CommitDrop PROVE NothingWaits'
    BY <1>13 DEF NothingWaits, RowTypes, CommitDrop, Goto
  <1>14. ASSUME StartRun PROVE NothingWaits'
    BY <1>14 DEF NothingWaits, RowTypes, PendingHere, StartRun, cacheVars
  <1>15. ASSUME ResumeRun PROVE NothingWaits'
    BY <1>15 DEF NothingWaits, RowTypes, PendingHere, ResumeRun, cacheVars
  <1>16. ASSUME WaitForRest PROVE NothingWaits'
    BY <1>16 DEF NothingWaits, RowTypes, WaitForRest, Wait, Goto
  <1>17. ASSUME WaitForHost PROVE NothingWaits'
    BY <1>17 DEF NothingWaits, RowTypes, WaitForHost, Wait, Goto
  <1>18. ASSUME CommitSet PROVE NothingWaits'
    BY <1>18 DEF NothingWaits, RowTypes, CommitSet, Goto
  <1>19. ASSUME ModelAnswers PROVE NothingWaits'
    <2>1. PICK B \in SUBSET Calls : Answered(B)
      BY <1>19, Answering
    <2>2. phase = "save"
      BY <2>1 DEF Answered, Makes, PhaseSteps, PlaceTypes, Phases
    <2> QED  BY <2>1, <2>2 DEF NothingWaits, Never, Answered, Makes
  <1>20. ASSUME ModelStops PROVE NothingWaits'
    <2>1. PICK B \in SUBSET Calls : Stopped(B)
      BY <1>20, Stopping
    <2>2. phase = "save"
      BY <2>1 DEF Stopped, Makes, PhaseSteps, PlaceTypes, Phases
    <2> QED  BY <2>1, <2>2 DEF NothingWaits, Stopped
  <1>21. ASSUME CloseLate PROVE NothingWaits'
    BY <1>21 DEF NothingWaits, RowTypes, CloseLate, Goto
  <1>22. ASSUME HandOver PROVE NothingWaits'
    BY <1>22 DEF NothingWaits, RowTypes, HandOver, EndTurn, Goto
  <1>23. ASSUME FinishTurn PROVE NothingWaits'
    BY <1>23 DEF NothingWaits, RowTypes, FinishTurn, EndTurn, Goto
  <1>24. ASSUME AbortPlan PROVE NothingWaits'
    BY <1>24 DEF NothingWaits, RowTypes, AbortPlan, EndTurn, Goto
  <1>25. ASSUME FailWrite PROVE NothingWaits'
    BY <1>25 DEF NothingWaits, RowTypes, FailWrite, Goto, EndTurn
  <1>26. ASSUME NEW r \in Requests, BeginRepair(r) PROVE NothingWaits'
    BY <1>26 DEF NothingWaits, RowTypes, BeginRepair
  <1>27. ASSUME NEW r \in Requests, DropForRepair(r) PROVE NothingWaits'
    BY <1>27 DEF NothingWaits, RowTypes, DropForRepair, cacheVars, Never
  <1>28. ASSUME NEW r \in Requests, MarkUnknown(r) PROVE NothingWaits'
    BY <1>28 DEF NothingWaits, RowTypes, MarkUnknown, Never
  <1>29. ASSUME NEW r \in Requests, CommitRepair(r) PROVE NothingWaits'
    BY <1>29 DEF NothingWaits, RowTypes, CommitRepair, cacheVars, Never
  <1>30. ASSUME Crash PROVE NothingWaits'
    BY <1>30 DEF NothingWaits, RowTypes, Crash
  <1>31. ASSUME RepairRows \/ CancelTurn PROVE UNCHANGED <<step, phase, memPending, pc>>
    BY <1>31 DEF RepairRows, cacheVars, CancelTurn
  <1> QED  BY <1>1, <1>2, <1>3, <1>4, <1>5, <1>6, <1>7, <1>8, <1>9, <1>10, <1>11, <1>12,
              <1>13, <1>14, <1>15, <1>16, <1>17, <1>18, <1>19, <1>20, <1>21, <1>22,
              <1>23, <1>24, <1>25, <1>26, <1>27, <1>28, <1>29, <1>30, <1>31
      DEF Next, Plan, Persist, Run, Disturb, Repair

(* A turn waits for every open call of its message.                        *)
LEMMA SeenOpenStep ==
    ASSUME SeenOpen, RowTypes, HomeTypes, PlaceTypes, PhaseSteps, RequestTypes, OneRuns,
          AtWork, Owned, PendingKept, PendingWhole, Next
    PROVE  SeenOpen'
  <1>1. CASE UNCHANGED <<phase, home, seen, message, rest, ask, pc>>
    BY <1>1, Monotone DEF SeenOpen, Resolved, Results
  <1>2. ASSUME NEW r \in Requests, AcceptSteering(r) PROVE SeenOpen'
    BY <1>2, Monotone DEF SeenOpen, RowTypes, HomeTypes, AcceptSteering, runVars
  <1>3. ASSUME NEW r \in Requests, Admit(r) PROVE SeenOpen'
    BY <1>3 DEF SeenOpen, RowTypes, HomeTypes, PhaseSteps, AtWork, Owned, Admit, runVars
  <1>4. ASSUME ClearStale PROVE SeenOpen'
    BY <1>4, Monotone DEF SeenOpen, RowTypes, HomeTypes, PendingWhole, ClearStale, Goto,
        Resolve, StaleStatus
  <1>5. ASSUME NothingStale PROVE SeenOpen'
    BY <1>5 DEF SeenOpen, RowTypes, HomeTypes, AtWork, Owned, NothingStale, Planning,
        runVars
  <1>6. ASSUME PlanResult PROVE SeenOpen'
    <2>1. /\ message' = home[CallOf[turn]] /\ CallOf[turn] = memPending.call
          /\ seen' = [mem EXCEPT ![CallOf[turn]] = "result"] /\ rest' = Remaining
          /\ home' = home /\ phase' = "accept"
      BY <1>6 DEF PlanResult, Answerable, Goto
    <2>2. CallOf[turn] \in Calls /\ memPending # NoPending
      BY <1>6, <2>1, RequestsAssumption DEF PlanResult, Planning, Results, PlaceTypes,
          Turns, NoPending
    <2>3. ASSUME Never("steering"), NEW c \in Calls, home[c] = message', seen'[c] = "open"
          PROVE  c \in rest'
      BY <2>1, <2>2, <2>3 DEF PendingWhole, Remaining, RowTypes
    <2> QED  BY <2>1, <2>3, Monotone DEF SeenOpen
  <1>7. ASSUME RejectResult PROVE SeenOpen'
    BY <1>7 DEF SeenOpen, RowTypes, HomeTypes, RejectResult, EndTurn, Goto
  <1>8. ASSUME PlanSteering PROVE SeenOpen'
    BY <1>8 DEF SeenOpen, RowTypes, HomeTypes, PlaceTypes, OneRuns, PlanSteering, Goto,
        Planning, Never, Turns
  <1>9. ASSUME RejectSteering PROVE SeenOpen'
    BY <1>9 DEF SeenOpen, RowTypes, HomeTypes, RejectSteering, EndTurn, Goto
  <1>10. ASSUME CommitRow PROVE SeenOpen'
    BY <1>10, Monotone DEF SeenOpen, RowTypes, CommitRow, Goto, runVars
  <1>11. ASSUME PublishRow PROVE SeenOpen'
    BY <1>11, Monotone DEF SeenOpen, RowTypes, PublishRow, Goto, runVars
  <1>12. ASSUME CommitDrop PROVE SeenOpen'
    BY <1>12, Monotone DEF SeenOpen, RowTypes, CommitDrop, Goto, runVars
  <1>13. ASSUME StartRun PROVE SeenOpen'
    BY <1>13 DEF SeenOpen, RowTypes, Owned, StartRun
  <1>14. ASSUME ResumeRun PROVE SeenOpen'
    BY <1>14, Monotone DEF SeenOpen, RowTypes, ResumeRun, Goto
  <1>15. ASSUME WaitForRest PROVE SeenOpen'
    BY <1>15, Monotone DEF SeenOpen, RowTypes, WaitForRest, Wait, Goto, runVars
  <1>16. ASSUME WaitForHost PROVE SeenOpen'
    BY <1>16, Monotone DEF SeenOpen, RowTypes, WaitForHost, Wait, Goto, runVars
  <1>17. ASSUME CommitSet PROVE SeenOpen'
    BY <1>17, Monotone DEF SeenOpen, RowTypes, CommitSet, Goto, runVars
  <1>18. ASSUME ModelAnswers PROVE SeenOpen'
    <2>1. PICK B \in SUBSET Calls : Answered(B)
      BY <1>18, Answering
    <2>2. phase = "save" /\ message # None
      BY <2>1 DEF Answered, Makes, PhaseSteps, PlaceTypes, Phases, AtWork
    <2> QED  BY <2>1, <2>2, Monotone DEF SeenOpen, AtWork, Answered, Makes
  <1>19. ASSUME ModelStops PROVE SeenOpen'
    <2>1. PICK B \in SUBSET Calls : Stopped(B)
      BY <1>19, Stopping
    <2>2. phase = "save" /\ message # None
      BY <2>1 DEF Stopped, Makes, PhaseSteps, PlaceTypes, Phases, AtWork
    <2> QED  BY <2>1, <2>2 DEF SeenOpen, Stopped, Makes
  <1>20. ASSUME CloseLate PROVE SeenOpen'
    BY <1>20 DEF SeenOpen, RowTypes, CloseLate, Closed
  <1>21. ASSUME HandOver PROVE SeenOpen'
    BY <1>21 DEF SeenOpen, RowTypes, HandOver, EndTurn, Goto
  <1>22. ASSUME FinishTurn PROVE SeenOpen'
    BY <1>22 DEF SeenOpen, RowTypes, FinishTurn, EndTurn, Goto
  <1>23. ASSUME AbortPlan PROVE SeenOpen'
    BY <1>23 DEF SeenOpen, RowTypes, AbortPlan, EndTurn, Goto
  <1>24. ASSUME FailWrite PROVE SeenOpen'
    BY <1>24 DEF SeenOpen, RowTypes, FailWrite, Goto, EndTurn, Closed
  <1>25. ASSUME NEW r \in Requests, BeginRepair(r) PROVE SeenOpen'
    BY <1>25, Monotone DEF SeenOpen, RowTypes, BeginRepair, runVars
  <1>26. ASSUME NEW r \in Requests, DropForRepair(r) PROVE SeenOpen'
    BY <1>26, Monotone DEF SeenOpen, RowTypes, DropForRepair, runVars
  <1>27. ASSUME NEW r \in Requests, MarkUnknown(r) PROVE SeenOpen'
    BY <1>27, Monotone DEF SeenOpen, RowTypes, MarkUnknown, runVars
  <1>28. ASSUME NEW r \in Requests, CommitRepair(r) PROVE SeenOpen'
    BY <1>28, Monotone DEF SeenOpen, RowTypes, CommitRepair, runVars
  <1>29. ASSUME Crash PROVE SeenOpen'
    BY <1>29 DEF SeenOpen, RowTypes, Crash, Goto
  <1>30. ASSUME RepairRows \/ Hydrate \/ CancelTurn
       PROVE  UNCHANGED <<phase, home, seen, message, rest, ask, pc>>
    BY <1>30 DEF RepairRows, runVars, Hydrate, CancelTurn
  <1> QED  BY <1>1, <1>2, <1>3, <1>4, <1>5, <1>6, <1>7, <1>8, <1>9, <1>10, <1>11, <1>12,
              <1>13, <1>14, <1>15, <1>16, <1>17, <1>18, <1>19, <1>20, <1>21, <1>22,
              <1>23, <1>24, <1>25, <1>26, <1>27, <1>28, <1>29, <1>30
      DEF Next, Plan, Persist, Run, Disturb, Repair

(* The cached context has no open call the turn did not see.               *)
LEMMA MemSeenStep ==
    ASSUME MemSeen, RowTypes, HomeTypes, PlaceTypes, PhaseSteps, InCache, Owned, AtWork,
          Next
    PROVE  MemSeen'
  <1>1. CASE UNCHANGED <<step, phase, home, seen, message, mem>>
    BY <1>1 DEF MemSeen
  <1>2. ASSUME Hydrate PROVE MemSeen'
    BY <1>2 DEF MemSeen, RowTypes, HomeTypes, InCache, Hydrate
  <1>3. ASSUME NEW r \in Requests, Admit(r) PROVE MemSeen'
    BY <1>3 DEF MemSeen, RowTypes, HomeTypes, Admit, Goto
  <1>4. ASSUME ClearStale PROVE MemSeen'
    BY <1>4 DEF MemSeen, RowTypes, HomeTypes, ClearStale, Goto
  <1>5. ASSUME NothingStale PROVE MemSeen'
    BY <1>5 DEF MemSeen, RowTypes, HomeTypes, NothingStale, Goto
  <1>6. ASSUME PlanResult PROVE MemSeen'
    BY <1>6 DEF MemSeen, RowTypes, HomeTypes, PlanResult, Goto
  <1>7. ASSUME RejectResult PROVE MemSeen'
    BY <1>7 DEF MemSeen, RowTypes, HomeTypes, RejectResult, EndTurn, Goto
  <1>8. ASSUME PlanSteering PROVE MemSeen'
    BY <1>8 DEF MemSeen, RowTypes, HomeTypes, PlanSteering, Goto
  <1>9. ASSUME RejectSteering PROVE MemSeen'
    BY <1>9 DEF MemSeen, RowTypes, HomeTypes, RejectSteering, EndTurn, Goto
  <1>10. ASSUME CommitRow PROVE MemSeen'
    BY <1>10 DEF MemSeen, RowTypes, HomeTypes, CommitRow, Goto
  <1>11. ASSUME PublishRow PROVE MemSeen'
    BY <1>11 DEF MemSeen, RowTypes, HomeTypes, PublishRow, Overlay, runVars
  <1>12. ASSUME CommitDrop PROVE MemSeen'
    BY <1>12 DEF MemSeen, RowTypes, HomeTypes, CommitDrop, Goto, cacheVars, runVars
  <1>13. ASSUME StartRun PROVE MemSeen'
    BY <1>13 DEF MemSeen, RowTypes, HomeTypes, PhaseSteps, Owned, StartRun
  <1>14. ASSUME ResumeRun PROVE MemSeen'
    BY <1>14 DEF MemSeen, RowTypes, HomeTypes, ResumeRun, Goto
  <1>15. ASSUME WaitForRest PROVE MemSeen'
    BY <1>15 DEF MemSeen, RowTypes, HomeTypes, WaitForRest, Wait, runVars
  <1>16. ASSUME WaitForHost PROVE MemSeen'
    BY <1>16 DEF MemSeen, RowTypes, HomeTypes, WaitForHost, Wait, runVars
  <1>17. ASSUME CommitSet PROVE MemSeen'
    BY <1>17 DEF MemSeen, RowTypes, HomeTypes, CommitSet, Goto, cacheVars, runVars
  <1>18. ASSUME ModelAnswers PROVE MemSeen'
    <2>1. PICK B \in SUBSET Calls : Answered(B)
      BY <1>18, Answering
    <2>2. phase = "save" /\ message # None
      BY <2>1 DEF Answered, Makes, PhaseSteps, PlaceTypes, Phases, AtWork
    <2> QED  BY <2>1, <2>2 DEF MemSeen, RowTypes, Answered, Makes
  <1>19. ASSUME ModelStops PROVE MemSeen'
    <2>1. PICK B \in SUBSET Calls : Stopped(B)
      BY <1>19, Stopping
    <2>2. phase = "save" /\ message # None
      BY <2>1 DEF Stopped, Makes, PhaseSteps, PlaceTypes, Phases, AtWork
    <2> QED  BY <2>1, <2>2 DEF MemSeen, RowTypes, Stopped
  <1>20. ASSUME CloseLate PROVE MemSeen'
    BY <1>20 DEF MemSeen, RowTypes, HomeTypes, CloseLate, Goto
  <1>21. ASSUME HandOver PROVE MemSeen'
    BY <1>21 DEF MemSeen, RowTypes, HomeTypes, HandOver, EndTurn, Goto
  <1>22. ASSUME FinishTurn PROVE MemSeen'
    BY <1>22 DEF MemSeen, RowTypes, HomeTypes, FinishTurn, EndTurn, Goto
  <1>23. ASSUME AbortPlan PROVE MemSeen'
    BY <1>23 DEF MemSeen, RowTypes, HomeTypes, AbortPlan, EndTurn, Goto
  <1>24. ASSUME FailWrite PROVE MemSeen'
    BY <1>24 DEF MemSeen, RowTypes, HomeTypes, FailWrite, Goto, EndTurn
  <1>25. ASSUME NEW r \in Requests, MarkUnknown(r) PROVE MemSeen'
    BY <1>25 DEF MemSeen, RowTypes, HomeTypes, MarkUnknown, Resolve
  <1>26. ASSUME Crash PROVE MemSeen'
    BY <1>26 DEF MemSeen, RowTypes, HomeTypes, Crash
  <1>27. ASSUME RepairRows \/ CancelTurn
       PROVE  UNCHANGED <<step, phase, home, seen, message, mem>>
    BY <1>27 DEF RepairRows, cacheVars, runVars, CancelTurn
  <1>28. ASSUME NEW r \in Requests, AcceptSteering(r) \/ BeginRepair(r)
              \/ DropForRepair(r) \/ CommitRepair(r)
       PROVE  UNCHANGED <<step, phase, home, seen, message, mem>>
    BY <1>28 DEF AcceptSteering, cacheVars, runVars, BeginRepair, DropForRepair,
        CommitRepair
  <1> QED  BY <1>1, <1>2, <1>3, <1>4, <1>5, <1>6, <1>7, <1>8, <1>9, <1>10, <1>11, <1>12,
              <1>13, <1>14, <1>15, <1>16, <1>17, <1>18, <1>19, <1>20, <1>21, <1>22,
              <1>23, <1>24, <1>25, <1>26, <1>27, <1>28
      DEF Next, Plan, Persist, Run, Disturb, Repair

(* A batch waits for every open call of its message.                       *)
LEMMA PendingWholeStep ==
    ASSUME PendingWhole, RowTypes, HomeTypes, PlaceTypes, PhaseSteps, RequestTypes,
          OneRuns, AtWork, Owned, PendingKept, MemSeen, SeenOpen, Next
    PROVE  PendingWhole'
  <1>1. CASE UNCHANGED <<memPending, mem, home, pc>>
    BY <1>1, Monotone DEF PendingWhole, NoPending, Resolved
  <1>2. ASSUME Hydrate PROVE PendingWhole'
    BY <1>2 DEF PendingWhole, RowTypes, Hydrate, Stale, Kept
  <1>3. ASSUME NEW r \in Requests, AcceptSteering(r) PROVE PendingWhole'
    BY <1>3 DEF PendingWhole, RowTypes, AcceptSteering, cacheVars
  <1>4. ASSUME NEW r \in Requests, Admit(r) PROVE PendingWhole'
    BY <1>4, Monotone DEF PendingWhole, RowTypes, Admit, cacheVars
  <1>5. ASSUME RejectResult PROVE PendingWhole'
    BY <1>5, Monotone DEF PendingWhole, RowTypes, RejectResult, cacheVars
  <1>6. ASSUME RejectSteering PROVE PendingWhole'
    BY <1>6, Monotone DEF PendingWhole, RowTypes, RejectSteering, cacheVars
  <1>7. ASSUME PublishRow PROVE PendingWhole'
    BY <1>7 DEF PendingWhole, RowTypes, PublishRow
  <1>8. ASSUME WaitForRest PROVE PendingWhole'
    BY <1>8, Monotone DEF PendingWhole, RowTypes, AtWork, MemSeen, SeenOpen,
        WaitForRest, Wait, First
  <1>9. ASSUME WaitForHost PROVE PendingWhole'
    BY <1>9, Monotone DEF PendingWhole, RowTypes, AtWork, MemSeen, SeenOpen,
        WaitForHost, Wait, First
  <1>10. ASSUME ModelAnswers PROVE PendingWhole'
    <2>1. PICK B \in SUBSET Calls : Answered(B)
      BY <1>10, Answering
    <2>2. phase = "save" /\ message # None
      BY <2>1 DEF Answered, Makes, PhaseSteps, PlaceTypes, Phases, AtWork
    <2> QED  BY <2>1, <2>2, Monotone
        DEF PendingWhole, Owned, PendingKept, Pending, Answered, Makes
  <1>11. ASSUME ModelStops PROVE PendingWhole'
    <2>1. PICK B \in SUBSET Calls : Stopped(B)
      BY <1>11, Stopping
    <2>2. phase = "save" /\ message # None
      BY <2>1 DEF Stopped, Makes, PhaseSteps, PlaceTypes, Phases, AtWork
    <2> QED  BY <2>1, <2>2, Monotone
        DEF PendingWhole, Owned, PendingKept, Pending, Stopped, Makes
  <1>12. ASSUME CloseLate PROVE PendingWhole'
    BY <1>12, Monotone DEF PendingWhole, RowTypes, CloseLate, cacheVars
  <1>13. ASSUME HandOver PROVE PendingWhole'
    BY <1>13, Monotone DEF PendingWhole, RowTypes, HandOver, cacheVars
  <1>14. ASSUME FinishTurn PROVE PendingWhole'
    BY <1>14, Monotone DEF PendingWhole, RowTypes, FinishTurn, cacheVars
  <1>15. ASSUME AbortPlan PROVE PendingWhole'
    BY <1>15, Monotone DEF PendingWhole, RowTypes, AbortPlan, cacheVars
  <1>16. ASSUME FailWrite PROVE PendingWhole'
    BY <1>16, Monotone DEF PendingWhole, RowTypes, FailWrite, cacheVars
  <1>17. ASSUME NEW r \in Requests, BeginRepair(r) PROVE PendingWhole'
    BY <1>17 DEF PendingWhole, RowTypes, BeginRepair
  <1>18. ASSUME NEW r \in Requests, DropForRepair(r) PROVE PendingWhole'
    BY <1>18, Monotone DEF PendingWhole, RowTypes, DropForRepair, cacheVars
  <1>19. ASSUME NEW r \in Requests, MarkUnknown(r) PROVE PendingWhole'
    BY <1>19 DEF PendingWhole, RowTypes, MarkUnknown, Resolve
  <1>20. ASSUME NEW r \in Requests, CommitRepair(r) PROVE PendingWhole'
    BY <1>20, Monotone DEF PendingWhole, RowTypes, CommitRepair, cacheVars
  <1>21. ASSUME Crash PROVE PendingWhole'
    BY <1>21 DEF PendingWhole, RowTypes, Crash
  <1>22. ASSUME RepairRows \/ ClearStale \/ NothingStale \/ PlanResult
              \/ PlanSteering \/ CommitRow \/ CommitDrop \/ StartRun \/ ResumeRun
              \/ CommitSet \/ CancelTurn
       PROVE  UNCHANGED <<memPending, mem, home, pc>>
    BY <1>22 DEF RepairRows, cacheVars, ClearStale, NothingStale, PlanResult,
        PlanSteering, CommitRow, CommitDrop, StartRun, ResumeRun, CommitSet, CancelTurn
  <1> QED  BY <1>1, <1>2, <1>3, <1>4, <1>5, <1>6, <1>7, <1>8, <1>9, <1>10, <1>11, <1>12,
              <1>13, <1>14, <1>15, <1>16, <1>17, <1>18, <1>19, <1>20, <1>21, <1>22
      DEF Next, Plan, Persist, Run, Disturb, Repair

(* A turn keeps the outcomes there are.                                    *)
LEMMA SeenExtendsStep ==
    ASSUME SeenExtends, RowTypes, HomeTypes, PlaceTypes, PhaseSteps, RequestTypes,
          OneRuns, AtWork, Owned, PendingKept, InCache, Next
    PROVE  SeenExtends'
  <1>1. CASE UNCHANGED <<message, home, mem, seen, step, phase, pc>>
    BY <1>1 DEF SeenExtends, Resolved, Outcomes, Never
  <1>2. ASSUME Hydrate PROVE SeenExtends'
    <2>1. /\ step \in {"none", "plan"} /\ mem' = row
          /\ UNCHANGED <<message, home, seen, step, phase, pc>>
      BY <1>2 DEF Hydrate, InCache, runVars
    <2>2. message = None
      BY <2>1 DEF AtWork, PhaseSteps, PlaceTypes, Phases
    <2> QED  BY <2>1, <2>2 DEF SeenExtends
  <1>3. ASSUME NEW r \in Requests, AcceptSteering(r) PROVE SeenExtends'
    BY <1>3 DEF SeenExtends, RowTypes, AcceptSteering, cacheVars, runVars, Never
  <1>4. ASSUME NEW r \in Requests, Admit(r) PROVE SeenExtends'
    BY <1>4 DEF SeenExtends, RowTypes, PhaseSteps, AtWork, Admit, Goto, runVars
  <1>5. ASSUME ClearStale PROVE SeenExtends'
    BY <1>5 DEF SeenExtends, RowTypes, ClearStale, Goto, Resolve, StaleStatus,
        cacheVars, Resolved
  <1>6. ASSUME NothingStale PROVE SeenExtends'
    BY <1>6 DEF SeenExtends, RowTypes, AtWork, NothingStale, Goto, Planning, runVars
  <1>7. ASSUME PlanResult PROVE SeenExtends'
    BY <1>7 DEF SeenExtends, RowTypes, PlanResult, Goto, Answerable, cacheVars
  <1>8. ASSUME RejectResult PROVE SeenExtends'
    BY <1>8 DEF SeenExtends, RowTypes, RejectResult, EndTurn, Goto
  <1>9. ASSUME PlanSteering PROVE SeenExtends'
    BY <1>9 DEF SeenExtends, RowTypes, PlanSteering, cacheVars
  <1>10. ASSUME RejectSteering PROVE SeenExtends'
    BY <1>10 DEF SeenExtends, RowTypes, RejectSteering, EndTurn, Goto
  <1>11. ASSUME CommitRow PROVE SeenExtends'
    BY <1>11 DEF SeenExtends, RowTypes, CommitRow, Goto, cacheVars, runVars, Never
  <1>12. ASSUME PublishRow PROVE SeenExtends'
    BY <1>12 DEF SeenExtends, RowTypes, PublishRow, Overlay, runVars
  <1>13. ASSUME CommitDrop PROVE SeenExtends'
    BY <1>13 DEF SeenExtends, RowTypes, CommitDrop, Goto, cacheVars, runVars, Never
  <1>14. ASSUME StartRun PROVE SeenExtends'
    BY <1>14 DEF SeenExtends, RowTypes, PhaseSteps, Owned, StartRun
  <1>15. ASSUME ResumeRun PROVE SeenExtends'
    BY <1>15 DEF SeenExtends, RowTypes, ResumeRun, cacheVars, Never
  <1>16. ASSUME WaitForRest PROVE SeenExtends'
    BY <1>16 DEF SeenExtends, RowTypes, WaitForRest, Wait, runVars, Never
  <1>17. ASSUME WaitForHost PROVE SeenExtends'
    BY <1>17 DEF SeenExtends, RowTypes, WaitForHost, Wait, runVars, Never
  <1>18. ASSUME CommitSet PROVE SeenExtends'
    BY <1>18 DEF SeenExtends, RowTypes, CommitSet, Goto, cacheVars, runVars, Never
  <1>19. ASSUME ModelAnswers PROVE SeenExtends'
    <2>1. PICK B \in SUBSET Calls : Answered(B)
      BY <1>19, Answering
    <2>2. phase = "save" /\ message # None
      BY <2>1 DEF Answered, Makes, PhaseSteps, PlaceTypes, Phases, AtWork
    <2> QED  BY <2>1, <2>2 DEF SeenExtends, Owned, Resolved, Never, Answered, Makes
  <1>20. ASSUME ModelStops PROVE SeenExtends'
    <2>1. PICK B \in SUBSET Calls : Stopped(B)
      BY <1>20, Stopping
    <2>2. phase = "save" /\ message # None
      BY <2>1 DEF Stopped, Makes, PhaseSteps, PlaceTypes, Phases, AtWork
    <2> QED  BY <2>1, <2>2 DEF SeenExtends, Owned, Resolved, Never, Stopped, Makes
  <1>21. ASSUME CloseLate PROVE SeenExtends'
    BY <1>21 DEF SeenExtends, RowTypes, CloseLate, Goto, Closed, cacheVars, Resolved,
        Never
  <1>22. ASSUME HandOver PROVE SeenExtends'
    BY <1>22 DEF SeenExtends, RowTypes, HandOver, EndTurn, Goto
  <1>23. ASSUME FinishTurn PROVE SeenExtends'
    BY <1>23 DEF SeenExtends, RowTypes, FinishTurn, EndTurn, Goto
  <1>24. ASSUME AbortPlan PROVE SeenExtends'
    BY <1>24 DEF SeenExtends, RowTypes, AbortPlan, EndTurn, Goto
  <1>25. ASSUME FailWrite PROVE SeenExtends'
    BY <1>25 DEF SeenExtends, RowTypes, FailWrite, Goto, EndTurn, Closed, cacheVars,
        Resolved, Never
  <1>26. ASSUME NEW r \in Requests, BeginRepair(r) PROVE SeenExtends'
    BY <1>26 DEF SeenExtends, RowTypes, BeginRepair, runVars, Never
  <1>27. ASSUME NEW r \in Requests, DropForRepair(r) PROVE SeenExtends'
    BY <1>27 DEF SeenExtends, RowTypes, DropForRepair, cacheVars, runVars, Never
  <1>28. ASSUME NEW r \in Requests, MarkUnknown(r) PROVE SeenExtends'
    BY <1>28 DEF SeenExtends, RowTypes, RequestTypes, MarkUnknown, Never, Repairs
  <1>29. ASSUME NEW r \in Requests, CommitRepair(r) PROVE SeenExtends'
    BY <1>29 DEF SeenExtends, RowTypes, CommitRepair, cacheVars, runVars, Never
  <1>30. ASSUME Crash PROVE SeenExtends'
    BY <1>30 DEF SeenExtends, RowTypes, Crash
  <1>31. ASSUME RepairRows \/ CancelTurn
       PROVE  UNCHANGED <<message, home, mem, seen, step, phase, pc>>
    BY <1>31 DEF RepairRows, cacheVars, runVars, CancelTurn
  <1> QED  BY <1>1, <1>2, <1>3, <1>4, <1>5, <1>6, <1>7, <1>8, <1>9, <1>10, <1>11, <1>12,
              <1>13, <1>14, <1>15, <1>16, <1>17, <1>18, <1>19, <1>20, <1>21, <1>22,
              <1>23, <1>24, <1>25, <1>26, <1>27, <1>28, <1>29, <1>30, <1>31
      DEF Next, Plan, Persist, Run, Disturb, Repair

(* A row is written before the cached context.                             *)
LEMMA RowAheadStep ==
    ASSUME RowAhead, RowTypes, HomeTypes, PlaceTypes, PhaseSteps, RequestTypes, OneRuns,
          AtWork, Owned, InCache, SeenExtends, Next
    PROVE  RowAhead'
  <1>1. CASE UNCHANGED <<row, mem, step, home, message, seen, pc>>
    BY <1>1 DEF RowAhead, Nothing, Never
  <1>2. ASSUME RepairRows PROVE RowAhead'
    BY <1>2 DEF RowAhead, RowTypes, HomeTypes, InCache, RepairRows, Resolve, cacheVars,
        Resolved, Never
  <1>3. ASSUME Hydrate PROVE RowAhead'
    BY <1>3 DEF RowAhead, RowTypes, HomeTypes, InCache, Hydrate
  <1>4. ASSUME NEW r \in Requests, AcceptSteering(r) PROVE RowAhead'
    BY <1>4 DEF RowAhead, RowTypes, HomeTypes, AcceptSteering, rowVars, cacheVars,
        runVars, Never
  <1>5. ASSUME NEW r \in Requests, Admit(r) PROVE RowAhead'
    BY <1>5 DEF RowAhead, RowTypes, HomeTypes, Admit, Goto, rowVars, cacheVars, Never
  <1>6. ASSUME ClearStale PROVE RowAhead'
    BY <1>6 DEF RowAhead, RowTypes, HomeTypes, ClearStale, Goto, rowVars, cacheVars,
        Never
  <1>7. ASSUME NothingStale PROVE RowAhead'
    BY <1>7 DEF RowAhead, RowTypes, HomeTypes, NothingStale, Goto, rowVars, cacheVars,
        Never
  <1>8. ASSUME PlanResult PROVE RowAhead'
    BY <1>8 DEF RowAhead, RowTypes, HomeTypes, PlanResult, Goto, rowVars, cacheVars,
        Never
  <1>9. ASSUME RejectResult PROVE RowAhead'
    BY <1>9 DEF RowAhead, RowTypes, HomeTypes, RejectResult, EndTurn, Goto, rowVars,
        cacheVars, Never
  <1>10. ASSUME PlanSteering PROVE RowAhead'
    BY <1>10 DEF RowAhead, RowTypes, PlanSteering, Goto, rowVars, cacheVars, Never
  <1>11. ASSUME RejectSteering PROVE RowAhead'
    BY <1>11 DEF RowAhead, RowTypes, RejectSteering, EndTurn, Goto, rowVars, cacheVars,
        Never
  <1>12. ASSUME CommitRow PROVE RowAhead'
    BY <1>12 DEF RowAhead, RowTypes, Owned, SeenExtends, CommitRow, Overlay, cacheVars,
        runVars, Never
  <1>13. ASSUME PublishRow PROVE RowAhead'
    BY <1>13 DEF RowAhead, RowTypes, PublishRow, Goto, Overlay, rowVars, Never
  <1>14. ASSUME CommitDrop PROVE RowAhead'
    BY <1>14 DEF RowAhead, RowTypes, CommitDrop, Goto, cacheVars, Never
  <1>15. ASSUME StartRun PROVE RowAhead'
    BY <1>15 DEF RowAhead, RowTypes, Owned, StartRun, cacheVars, Never
  <1>16. ASSUME ResumeRun PROVE RowAhead'
    BY <1>16 DEF RowAhead, RowTypes, ResumeRun, Goto, rowVars, cacheVars, Never
  <1>17. ASSUME WaitForRest PROVE RowAhead'
    BY <1>17 DEF RowAhead, RowTypes, WaitForRest, Wait, Goto, rowVars, Never
  <1>18. ASSUME WaitForHost PROVE RowAhead'
    BY <1>18 DEF RowAhead, RowTypes, WaitForHost, Wait, Goto, rowVars, Never
  <1>19. ASSUME CommitSet PROVE RowAhead'
    BY <1>19 DEF RowAhead, RowTypes, CommitSet, Goto, cacheVars, Never
  <1>20. ASSUME ModelAnswers PROVE RowAhead'
    <2>1. PICK B \in SUBSET Calls : Answered(B)
      BY <1>20, Answering
    <2>2. phase = "save" /\ message # None
      BY <2>1 DEF Answered, Makes, PhaseSteps, PlaceTypes, Phases, AtWork
    <2> QED  BY <2>1, <2>2 DEF RowAhead, Never, Answered, Makes
  <1>21. ASSUME ModelStops PROVE RowAhead'
    <2>1. PICK B \in SUBSET Calls : Stopped(B)
      BY <1>21, Stopping
    <2>2. phase = "save" /\ message # None
      BY <2>1 DEF Stopped, Makes, PhaseSteps, PlaceTypes, Phases, AtWork
    <2> QED  BY <2>1, <2>2 DEF RowAhead, Never, Stopped, Makes
  <1>22. ASSUME CloseLate PROVE RowAhead'
    BY <1>22 DEF RowAhead, RowTypes, CloseLate, Goto, rowVars, cacheVars, Never
  <1>23. ASSUME HandOver PROVE RowAhead'
    BY <1>23 DEF RowAhead, RowTypes, HandOver, EndTurn, Goto, rowVars, cacheVars, Never
  <1>24. ASSUME FinishTurn PROVE RowAhead'
    BY <1>24 DEF RowAhead, RowTypes, FinishTurn, EndTurn, Goto, rowVars, cacheVars,
        Never
  <1>25. ASSUME AbortPlan PROVE RowAhead'
    BY <1>25 DEF RowAhead, RowTypes, Owned, SeenExtends, AbortPlan, EndTurn, Goto,
        Overlay, cacheVars, Never
  <1>26. ASSUME FailWrite PROVE RowAhead'
    BY <1>26 DEF RowAhead, RowTypes, RequestTypes, Owned, SeenExtends, FailWrite, Goto,
        EndTurn, Overlay, cacheVars, Never
  <1>27. ASSUME NEW r \in Requests, BeginRepair(r) PROVE RowAhead'
    BY <1>27 DEF RowAhead, RowTypes, BeginRepair, rowVars, runVars, Never
  <1>28. ASSUME NEW r \in Requests, DropForRepair(r) PROVE RowAhead'
    BY <1>28 DEF RowAhead, RowTypes, DropForRepair, cacheVars, runVars, Never
  <1>29. ASSUME NEW r \in Requests, MarkUnknown(r) PROVE RowAhead'
    BY <1>29 DEF RowAhead, RowTypes, RequestTypes, MarkUnknown, Never, Repairs
  <1>30. ASSUME NEW r \in Requests, CommitRepair(r) PROVE RowAhead'
    BY <1>30 DEF RowAhead, RowTypes, OneRuns, CommitRepair, Never, Repairs
  <1>31. ASSUME Crash PROVE RowAhead'
    BY <1>31 DEF RowAhead, RowTypes, Crash, Goto, Resolved, Nothing
  <1>32. ASSUME CancelTurn PROVE UNCHANGED <<row, mem, step, home, message, seen, pc>>
    BY <1>32 DEF CancelTurn, rowVars, cacheVars, runVars
  <1> QED  BY <1>1, <1>2, <1>3, <1>4, <1>5, <1>6, <1>7, <1>8, <1>9, <1>10, <1>11, <1>12,
              <1>13, <1>14, <1>15, <1>16, <1>17, <1>18, <1>19, <1>20, <1>21, <1>22,
              <1>23, <1>24, <1>25, <1>26, <1>27, <1>28, <1>29, <1>30, <1>31, <1>32
      DEF Next, Plan, Persist, Run, Disturb, Repair

(* What waits has no result.                                               *)
LEMMA PendingOpenStep ==
    ASSUME PendingOpen, RowTypes, HomeTypes, PlaceTypes, PhaseSteps, RequestTypes,
          SetTypes, OneRuns, AtWork, PendingKept, InCache, SeenExtends, PendingHere,
          Next
    PROVE  PendingOpen'
  <1>1. CASE UNCHANGED <<memPending, mem, step, rowPending, phase, pc>>
    BY <1>1 DEF PendingOpen, Resolved, Nothing, Never
  <1>2. ASSUME Hydrate PROVE PendingOpen'
    BY <1>2 DEF PendingOpen, RowTypes, InCache, Hydrate, Restorable
  <1>3. ASSUME NEW r \in Requests, AcceptSteering(r) PROVE PendingOpen'
    BY <1>3 DEF PendingOpen, RowTypes, AcceptSteering, cacheVars, Never
  <1>4. ASSUME NEW r \in Requests, Admit(r) PROVE PendingOpen'
    BY <1>4 DEF PendingOpen, RowTypes, Admit, Goto, cacheVars, Never
  <1>5. ASSUME ClearStale PROVE PendingOpen'
    BY <1>5 DEF PendingOpen, RowTypes, ClearStale, Goto, cacheVars, Never
  <1>6. ASSUME NothingStale PROVE PendingOpen'
    BY <1>6 DEF PendingOpen, RowTypes, NothingStale, Goto, cacheVars
  <1>7. ASSUME PlanResult PROVE PendingOpen'
    <2>1. /\ CallOf[turn] = memPending.call /\ step = "plan" /\ step' = "write"
          /\ UNCHANGED <<memPending, mem, rowPending, pc>>
      BY <1>7 DEF PlanResult, Planning, Answerable, Goto, rowVars, cacheVars
    <2>2. memPending # NoPending
      BY <1>7, <2>1, RequestsAssumption DEF PlanResult, Planning, Results, PlaceTypes,
          Turns, NoPending
    <2> QED  BY <2>1, <2>2, Monotone DEF PendingOpen
  <1>8. ASSUME RejectResult PROVE PendingOpen'
    BY <1>8 DEF PendingOpen, RowTypes, RejectResult, EndTurn, Goto, cacheVars, Never
  <1>9. ASSUME PlanSteering PROVE PendingOpen'
    BY <1>9 DEF PendingOpen, RowTypes, PlanSteering, Goto, cacheVars, Never
  <1>10. ASSUME RejectSteering PROVE PendingOpen'
    BY <1>10 DEF PendingOpen, RowTypes, RejectSteering, EndTurn, Goto, cacheVars, Never
  <1>11. ASSUME CommitRow PROVE PendingOpen'
    BY <1>11 DEF PendingOpen, RowTypes, CommitRow, Goto, cacheVars, Never
  <1>12. ASSUME PublishRow PROVE PendingOpen'
    BY <1>12 DEF PendingOpen, RowTypes, PublishRow, Goto
  <1>13. ASSUME CommitDrop PROVE PendingOpen'
    BY <1>13 DEF PendingOpen, RowTypes, PendingHere, CommitDrop, Goto, cacheVars
  <1>14. ASSUME StartRun PROVE PendingOpen'
    BY <1>14 DEF PendingOpen, RowTypes, PendingHere, StartRun, Goto, cacheVars
  <1>15. ASSUME ResumeRun PROVE PendingOpen'
    BY <1>15 DEF PendingOpen, RowTypes, PendingHere, ResumeRun, Goto, cacheVars
  <1>16. ASSUME WaitForRest PROVE PendingOpen'
    <2>1. PICK c \in First(rest) :
              /\ memPending' = [call |-> c, batch |-> ask] /\ step' = "set"
              /\ UNCHANGED <<mem, home, rowPending, phase, pc>>
      BY <1>16 DEF WaitForRest, Wait, Goto, rowVars
    <2>2. /\ step = "after" /\ phase = "accept" /\ message # None
          /\ c \in Calls /\ home[c] = message /\ seen[c] = "open"
      BY <1>16, <2>1 DEF WaitForRest, First, AtWork, SetTypes
    <2>3. memPending' # NoPending /\ memPending'.call = c
      BY <2>1, <2>2, RequestsAssumption DEF NoPending
    <2>4. Never("repair") => mem[c] = "open"
      BY <2>2 DEF SeenExtends
    <2> QED  BY <2>1, <2>2, <2>3, <2>4, Monotone DEF PendingOpen
  <1>17. ASSUME WaitForHost PROVE PendingOpen'
    <2>1. PICK c \in First(ask) :
              /\ memPending' = [call |-> c, batch |-> ask] /\ step' = "set"
              /\ UNCHANGED <<mem, home, rowPending, phase, pc>>
      BY <1>17 DEF WaitForHost, Wait, Goto, rowVars
    <2>2. /\ step = "after" /\ phase = "save" /\ message # None
          /\ c \in Calls /\ home[c] = message /\ seen[c] = "open"
      BY <1>17, <2>1 DEF WaitForHost, First, AtWork, SetTypes
    <2>3. memPending' # NoPending /\ memPending'.call = c
      BY <2>1, <2>2, RequestsAssumption DEF NoPending
    <2>4. Never("repair") => mem[c] = "open"
      BY <2>2 DEF SeenExtends
    <2> QED  BY <2>1, <2>2, <2>3, <2>4, Monotone DEF PendingOpen
  <1>18. ASSUME CommitSet PROVE PendingOpen'
    BY <1>18 DEF PendingOpen, RowTypes, CommitSet, cacheVars, Never
  <1>19. ASSUME ModelAnswers PROVE PendingOpen'
    <2>1. PICK B \in SUBSET Calls : Answered(B)
      BY <1>19, Answering
    <2>2. phase = "save" /\ message # None
      BY <2>1 DEF Answered, Makes, PhaseSteps, PlaceTypes, Phases, AtWork
    <2> QED  BY <2>1, <2>2 DEF PendingOpen, Never, Answered, Makes
  <1>20. ASSUME ModelStops PROVE PendingOpen'
    <2>1. PICK B \in SUBSET Calls : Stopped(B)
      BY <1>20, Stopping
    <2>2. phase = "save" /\ message # None
      BY <2>1 DEF Stopped, Makes, PhaseSteps, PlaceTypes, Phases, AtWork
    <2> QED  BY <2>1, <2>2 DEF PendingOpen, Never, Stopped, Makes
  <1>21. ASSUME CloseLate PROVE PendingOpen'
    BY <1>21 DEF PendingOpen, RowTypes, CloseLate, Goto, cacheVars, Never
  <1>22. ASSUME HandOver PROVE PendingOpen'
    BY <1>22 DEF PendingOpen, RowTypes, HandOver, EndTurn, Goto, cacheVars, Never
  <1>23. ASSUME FinishTurn PROVE PendingOpen'
    BY <1>23 DEF PendingOpen, RowTypes, PendingHere, FinishTurn, EndTurn, Goto,
        cacheVars
  <1>24. ASSUME AbortPlan PROVE PendingOpen'
    BY <1>24 DEF PendingOpen, RowTypes, AbortPlan, EndTurn, Goto, cacheVars, Never
  <1>25. ASSUME FailWrite PROVE PendingOpen'
    BY <1>25 DEF PendingOpen, RowTypes, RequestTypes, FailWrite, Goto, EndTurn,
        cacheVars, Never
  <1>26. ASSUME NEW r \in Requests, BeginRepair(r) PROVE PendingOpen'
    BY <1>26 DEF PendingOpen, RowTypes, RequestTypes, BeginRepair, Never, Repairs
  <1>27. ASSUME NEW r \in Requests, DropForRepair(r) PROVE PendingOpen'
    BY <1>27 DEF PendingOpen, RowTypes, DropForRepair, cacheVars, Never
  <1>28. ASSUME NEW r \in Requests, MarkUnknown(r) PROVE PendingOpen'
    BY <1>28 DEF PendingOpen, RowTypes, MarkUnknown, Never, Repairs
  <1>29. ASSUME NEW r \in Requests, CommitRepair(r) PROVE PendingOpen'
    BY <1>29 DEF PendingOpen, RowTypes, CommitRepair, cacheVars, Never
  <1>30. ASSUME Crash PROVE PendingOpen'
    BY <1>30 DEF PendingOpen, RowTypes, Crash, Goto
  <1>31. ASSUME RepairRows \/ CancelTurn
       PROVE  UNCHANGED <<memPending, mem, step, rowPending, phase, pc>>
    BY <1>31 DEF RepairRows, cacheVars, CancelTurn, rowVars
  <1> QED  BY <1>1, <1>2, <1>3, <1>4, <1>5, <1>6, <1>7, <1>8, <1>9, <1>10, <1>11, <1>12,
              <1>13, <1>14, <1>15, <1>16, <1>17, <1>18, <1>19, <1>20, <1>21, <1>22,
              <1>23, <1>24, <1>25, <1>26, <1>27, <1>28, <1>29, <1>30, <1>31
      DEF Next, Plan, Persist, Run, Disturb, Repair

(* No open call is forgotten.                                              *)
LEMMA OpenAccountedStep ==
    ASSUME OpenAccounted, RowTypes, HomeTypes, PlaceTypes, PhaseSteps, RequestTypes,
          OneRuns, AtWork, PendingKept, InCache, PendingHere, SeenOpen, NothingWaits,
          Owned, Next
    PROVE  OpenAccounted'
  <1>1. CASE UNCHANGED <<mem, memPending, phase, step, rest, ask, home, message, pc>>
    BY <1>1 DEF OpenAccounted, Tracked, NoPending, Resolved, Never, Clean
  <1>2. ASSUME Hydrate PROVE OpenAccounted'
    BY <1>2 DEF OpenAccounted, RowTypes, Hydrate, Stale, Kept, Tracked, NoPending
  <1>3. ASSUME NEW r \in Requests, AcceptSteering(r) PROVE OpenAccounted'
    BY <1>3 DEF OpenAccounted, RowTypes, RequestTypes, AcceptSteering, Never, Clean
  <1>4. ASSUME NEW r \in Requests, Admit(r) PROVE OpenAccounted'
    BY <1>4 DEF OpenAccounted, RowTypes, PhaseSteps, Admit, cacheVars, Tracked, Never,
        Clean
  <1>5. ASSUME ClearStale PROVE OpenAccounted'
    BY <1>5 DEF OpenAccounted, RowTypes, ClearStale, Planning, cacheVars, Tracked,
        Never, Clean
  <1>6. ASSUME NothingStale PROVE OpenAccounted'
    BY <1>6 DEF OpenAccounted, RowTypes, NothingStale, Planning, cacheVars, Tracked,
        Never, Clean
  <1>7. ASSUME PlanResult PROVE OpenAccounted'
    BY <1>7 DEF OpenAccounted, RowTypes, PlanResult, Planning, cacheVars, Tracked,
        Never, Clean
  <1>8. ASSUME RejectResult PROVE OpenAccounted'
    BY <1>8 DEF OpenAccounted, RowTypes, OneRuns, RejectResult, EndTurn, Planning,
        cacheVars, Tracked, Never, Clean
  <1>9. ASSUME PlanSteering PROVE OpenAccounted'
    BY <1>9 DEF OpenAccounted, RowTypes, PlanSteering, Planning, cacheVars, Tracked,
        Never, Clean
  <1>10. ASSUME RejectSteering PROVE OpenAccounted'
    BY <1>10 DEF OpenAccounted, RowTypes, RejectSteering, EndTurn, Planning, cacheVars,
        Tracked, Never, Clean
  <1>11. ASSUME CommitRow PROVE OpenAccounted'
    BY <1>11 DEF OpenAccounted, RowTypes, CommitRow, Goto, cacheVars, runVars, Tracked,
        Never, Clean
  <1>12. ASSUME PublishRow PROVE OpenAccounted'
    <2>1. /\ step = "publish" /\ step' \in {"drop", "after"} /\ memPending' = NoPending
          /\ mem' = Overlay(mem, seen, message)
          /\ UNCHANGED <<phase, rest, ask, home, message, pc>>
      BY <1>12 DEF PublishRow, Goto, runVars
    <2>2. ASSUME Clean, NEW c \in Calls, mem'[c] = "open" PROVE Tracked(c)'
      <3>1. Never("repair") /\ Never("steering")
        BY <2>2 DEF Clean
      <3>2. CASE home[c] = message
        <4>1. seen[c] = "open"
          BY <2>1, <2>2, <3>2 DEF Overlay
        <4>2. phase \in {"accept", "save", "close"}
          BY <2>1, <3>1, <3>2, <4>1 DEF SeenOpen, PlaceTypes, PhaseSteps, Phases
        <4>3. phase # "close"
          BY <3>2, <4>1 DEF SeenOpen
        <4>4. (phase = "accept" /\ c \in rest) \/ (phase = "save" /\ c \in ask)
          BY <3>1, <3>2, <4>1, <4>2, <4>3 DEF SeenOpen
        <4> QED  BY <2>1, <4>4 DEF Tracked
      <3>3. CASE home[c] # message
        <4>1. mem[c] = "open" /\ phase # "none"
          BY <2>1, <2>2, <3>3 DEF Overlay, PhaseSteps
        <4>2. Tracked(c)
          BY <2>2, <4>1 DEF OpenAccounted
        <4>3. memPending # NoPending /\ c \in memPending.batch
          BY <2>1, <3>3, <4>2 DEF Tracked
        <4>4. home[c] = home[memPending.call]
          BY <4>3 DEF PendingKept, Pending
        <4> QED  BY <2>1, <3>3, <4>1, <4>3, <4>4 DEF PendingHere, Working
      <3> QED  BY <3>2, <3>3
    <2> QED  BY <2>2, Monotone DEF OpenAccounted
  <1>13. ASSUME CommitDrop PROVE OpenAccounted'
    BY <1>13 DEF OpenAccounted, RowTypes, CommitDrop, Goto, cacheVars, runVars, Tracked,
        Never, Clean
  <1>14. ASSUME StartRun PROVE OpenAccounted'
    BY <1>14 DEF OpenAccounted, RowTypes, StartRun, cacheVars, Tracked, Never, Clean
  <1>15. ASSUME ResumeRun PROVE OpenAccounted'
    BY <1>15 DEF OpenAccounted, RowTypes, ResumeRun, cacheVars, Tracked, Never, Clean
  <1>16. ASSUME WaitForRest PROVE OpenAccounted'
    BY <1>16 DEF OpenAccounted, RowTypes, AtWork, PendingHere, WaitForRest, Wait,
        Tracked, NoPending, Never, Clean
  <1>17. ASSUME WaitForHost PROVE OpenAccounted'
    BY <1>17 DEF OpenAccounted, RowTypes, PendingHere, WaitForHost, Wait, Tracked,
        NoPending, Never, Clean
  <1>18. ASSUME CommitSet PROVE OpenAccounted'
    BY <1>18 DEF OpenAccounted, RowTypes, CommitSet, cacheVars, Tracked, Never, Clean
  <1>19. ASSUME ModelAnswers PROVE OpenAccounted'
    <2>1. PICK B \in SUBSET Calls : Answered(B)
      BY <1>19, Answering
    <2>2. phase = "save" /\ message # None
      BY <2>1 DEF Answered, Makes, PhaseSteps, PlaceTypes, Phases, AtWork
    <2> QED  BY <2>1, <2>2 DEF OpenAccounted, Tracked, Never, Clean, Answered, Makes
  <1>20. ASSUME ModelStops PROVE OpenAccounted'
    <2>1. PICK B \in SUBSET Calls : Stopped(B)
      BY <1>20, Stopping
    <2>2. phase = "save" /\ message # None
      BY <2>1 DEF Stopped, Makes, PhaseSteps, PlaceTypes, Phases, AtWork
    <2> QED  BY <2>1, <2>2 DEF OpenAccounted, Tracked, Never, Clean, Stopped, Makes
  <1>21. ASSUME CloseLate PROVE OpenAccounted'
    BY <1>21 DEF OpenAccounted, RowTypes, CloseLate, cacheVars, Tracked, Never, Clean
  <1>22. ASSUME HandOver PROVE OpenAccounted'
    BY <1>22 DEF OpenAccounted, RowTypes, PhaseSteps, OneRuns, HandOver, EndTurn,
        cacheVars, Tracked, Never, Clean
  <1>23. ASSUME FinishTurn PROVE OpenAccounted'
    BY <1>23 DEF OpenAccounted, RowTypes, PhaseSteps, OneRuns, FinishTurn, EndTurn,
        cacheVars, Tracked, Never, Clean
  <1>24. ASSUME AbortPlan PROVE OpenAccounted'
    BY <1>24 DEF OpenAccounted, RowTypes, OneRuns, AbortPlan, EndTurn, cacheVars,
        Tracked, Never, Clean
  <1>25. ASSUME FailWrite PROVE OpenAccounted'
    <2>1. UNCHANGED <<mem, memPending>>
      BY <1>25 DEF FailWrite, cacheVars
    <2>2. CASE phase = "plan"
      BY <1>25, <2>1, <2>2, Monotone DEF Goto, OpenAccounted, Tracked
    <2>3. CASE phase = "close"
      <3>1. turn \in Requests /\ pc' = [pc EXCEPT ![turn] = "unsaved"]
        BY <1>25, <2>3 DEF FailWrite, EndTurn, PlaceTypes, Turns
      <3>2. ~Clean'
        BY <3>1 DEF Clean, RequestTypes
      <3> QED  BY <3>2 DEF OpenAccounted
    <2>4. CASE phase \in {"accept", "save"}
      <3>1. /\ step' = "write" /\ phase' = "close" /\ UNCHANGED <<home, message>>
            /\ step \in {"write", "drop", "set"}
        BY <1>25, <2>4 DEF FailWrite, Goto
      <3>2. \A c \in Calls : Tracked(c) => Tracked(c)'
        BY <2>1, <2>4, <3>1 DEF Tracked, AtWork
      <3> QED  BY <2>1, <3>2, Monotone DEF OpenAccounted
    <2> QED  BY <1>25, <2>2, <2>3, <2>4 DEF FailWrite
  <1>26. ASSUME NEW r \in Requests, BeginRepair(r) PROVE OpenAccounted'
    BY <1>26 DEF OpenAccounted, RowTypes, RequestTypes, BeginRepair, Never, Repairs,
        Clean
  <1>27. ASSUME NEW r \in Requests, DropForRepair(r) PROVE OpenAccounted'
    BY <1>27 DEF OpenAccounted, RowTypes, DropForRepair, cacheVars, runVars, Tracked,
        Never, Clean
  <1>28. ASSUME NEW r \in Requests, MarkUnknown(r) PROVE OpenAccounted'
    BY <1>28 DEF OpenAccounted, RowTypes, MarkUnknown, Resolve
  <1>29. ASSUME NEW r \in Requests, CommitRepair(r) PROVE OpenAccounted'
    BY <1>29 DEF OpenAccounted, RowTypes, CommitRepair, cacheVars, runVars, Tracked,
        Never, Clean
  <1>30. ASSUME Crash PROVE OpenAccounted'
    BY <1>30 DEF OpenAccounted, RowTypes, Crash, Nothing
  <1>31. ASSUME RepairRows \/ CancelTurn
       PROVE  UNCHANGED <<mem, memPending, phase, step, rest, ask, home, message, pc>>
    BY <1>31 DEF RepairRows, cacheVars, runVars, CancelTurn
  <1> QED  BY <1>1, <1>2, <1>3, <1>4, <1>5, <1>6, <1>7, <1>8, <1>9, <1>10, <1>11, <1>12,
              <1>13, <1>14, <1>15, <1>16, <1>17, <1>18, <1>19, <1>20, <1>21, <1>22,
              <1>23, <1>24, <1>25, <1>26, <1>27, <1>28, <1>29, <1>30, <1>31
      DEF Next, Plan, Persist, Run, Disturb, Repair

(* The host is asked for one call at a time.                               *)
LEMMA HandedKeptStep ==
    ASSUME HandedKept, RowTypes, HomeTypes, PlaceTypes, PhaseSteps, SetTypes,
          RequestTypes, OneRuns, AtWork, PendingKept, InCache, PendingHere,
          NothingWaits, Owned, SeenExtends, RowAhead, PendingOpen, Next
    PROVE  HandedKept'
  <1>1. CASE UNCHANGED <<row, mem, memPending, rowPending, handed, step, message, home, seen, cached, pc>>
    BY <1>1 DEF HandedKept, Resolved, Outcomes, Never
  <1>2. ASSUME RepairRows PROVE HandedKept'
    BY <1>2 DEF HandedKept, SetTypes, InCache, RepairRows, Resolve, cacheVars, Resolved,
        Never
  <1>3. ASSUME Hydrate PROVE HandedKept'
    BY <1>3 DEF HandedKept, InCache, Hydrate, Restorable, Never
  <1>4. ASSUME NEW r \in Requests, AcceptSteering(r) PROVE HandedKept'
    BY <1>4 DEF HandedKept, RequestTypes, AcceptSteering, Never
  <1>5. ASSUME NEW r \in Requests, Admit(r) PROVE HandedKept'
    BY <1>5 DEF HandedKept, Admit, Goto, rowVars, cacheVars, Never
  <1>6. ASSUME ClearStale PROVE HandedKept'
    BY <1>6 DEF HandedKept, PendingKept, PendingOpen, ClearStale, Resolve, StaleStatus,
        rowVars, cacheVars, Resolved, Never
  <1>7. ASSUME NothingStale PROVE HandedKept'
    BY <1>7 DEF HandedKept, NothingStale, rowVars, cacheVars, Never
  <1>8. ASSUME PlanResult PROVE HandedKept'
    BY <1>8 DEF HandedKept, RowTypes, PendingKept, PlanResult, Answerable, rowVars,
        cacheVars, Resolved, Never
  <1>9. ASSUME RejectResult PROVE HandedKept'
    BY <1>9 DEF HandedKept, RejectResult, EndTurn, Goto, rowVars, cacheVars, Never
  <1>10. ASSUME PlanSteering PROVE HandedKept'
    BY <1>10 DEF HandedKept, PlanSteering, Goto, rowVars, cacheVars, Never
  <1>11. ASSUME RejectSteering PROVE HandedKept'
    BY <1>11 DEF HandedKept, RejectSteering, EndTurn, Goto, rowVars, cacheVars, Never
  <1>12. ASSUME CommitRow PROVE HandedKept'
    BY <1>12, RequestsAssumption DEF HandedKept, SetTypes, InCache, Owned, SeenExtends,
        CommitRow, Overlay, cacheVars, runVars, NoPending, Never
  <1>13. ASSUME PublishRow PROVE HandedKept'
    BY <1>13 DEF HandedKept, PhaseSteps, SetTypes, PendingHere, Owned, SeenExtends,
        PublishRow, Overlay, rowVars, Never, Working
  <1>14. ASSUME CommitDrop PROVE HandedKept'
    BY <1>14 DEF HandedKept, SetTypes, InCache, PendingHere, RowAhead, CommitDrop,
        cacheVars, Never
  <1>15. ASSUME StartRun PROVE HandedKept'
    BY <1>15 DEF HandedKept, SetTypes, InCache, PendingHere, RowAhead, StartRun,
        cacheVars, Never
  <1>16. ASSUME ResumeRun PROVE HandedKept'
    BY <1>16 DEF HandedKept, PendingHere, ResumeRun, rowVars, cacheVars, Never
  <1>17. ASSUME WaitForRest PROVE HandedKept'
    BY <1>17, RequestsAssumption DEF HandedKept, SetTypes, PendingHere, WaitForRest,
        Wait, Goto, rowVars, NoPending, Never
  <1>18. ASSUME WaitForHost PROVE HandedKept'
    BY <1>18, RequestsAssumption DEF HandedKept, SetTypes, PendingHere, WaitForHost,
        Wait, Goto, rowVars, NoPending, Never
  <1>19. ASSUME CommitSet PROVE HandedKept'
    BY <1>19 DEF HandedKept, SetTypes, InCache, RowAhead, CommitSet, Goto, cacheVars,
        Never
  <1>20. ASSUME ModelAnswers PROVE HandedKept'
    <2>1. PICK B \in SUBSET Calls : Answered(B)
      BY <1>20, Answering
    <2>2. phase = "save" /\ message # None
      BY <2>1 DEF Answered, Makes, PhaseSteps, PlaceTypes, Phases, AtWork
    <2> QED  BY <2>1, <2>2 DEF HandedKept, NothingWaits, Never, Answered, Makes
  <1>21. ASSUME ModelStops PROVE HandedKept'
    <2>1. PICK B \in SUBSET Calls : Stopped(B)
      BY <1>21, Stopping
    <2>2. phase = "save" /\ message # None
      BY <2>1 DEF Stopped, Makes, PhaseSteps, PlaceTypes, Phases, AtWork
    <2> QED  BY <2>1, <2>2 DEF HandedKept, NothingWaits, Never, Stopped, Makes
  <1>22. ASSUME CloseLate PROVE HandedKept'
    BY <1>22 DEF HandedKept, AtWork, PendingKept, PendingHere, CloseLate, Closed,
        rowVars, cacheVars, Pending, Resolved, Never
  <1>23. ASSUME HandOver PROVE HandedKept'
    <2>1. /\ step = "hand" /\ step' = "none"
          /\ handed' = handed \cup First(IF phase = "accept" THEN rest ELSE ask)
          /\ UNCHANGED <<row, mem, memPending, rowPending, cached>>
      BY <1>23 DEF HandOver, EndTurn, Goto, rowVars, cacheVars
    <2>2. SUFFICES ASSUME Never("repair"), Never("steering") PROVE HandedKept'
      BY Monotone DEF HandedKept
    <2>3. memPending # NoPending /\ rowPending = memPending /\ mem[memPending.call] = "open"
      BY <2>1, <2>2 DEF PendingOpen
    <2>4. memPending.call \in Calls
      BY <2>3 DEF PendingKept
    <2>5. row[memPending.call] = "open" \/ row[memPending.call] \in Resolved
      BY <2>2, <2>3, <2>4 DEF RowAhead, RowTypes, Outcomes
    <2>6. memPending.call \in First(IF phase = "accept" THEN rest ELSE ask)
      BY <2>1, <2>3 DEF PendingHere
    <2>7. \A c \in First(IF phase = "accept" THEN rest ELSE ask) : c = memPending.call
      BY <2>6, OnlyFirst DEF SetTypes
    <2> QED  BY <2>1, <2>2, <2>3, <2>5, <2>7 DEF HandedKept
  <1>24. ASSUME FinishTurn PROVE HandedKept'
    BY <1>24 DEF HandedKept, PendingHere, FinishTurn, EndTurn, rowVars, cacheVars, Never
  <1>25. ASSUME AbortPlan PROVE HandedKept'
    BY <1>25 DEF HandedKept, SetTypes, InCache, Owned, SeenExtends, RowAhead,
        PendingOpen, AbortPlan, EndTurn, Goto, Overlay, cacheVars, Never
  <1>26. ASSUME FailWrite PROVE HandedKept'
    BY <1>26, RequestsAssumption DEF HandedKept, SetTypes, RequestTypes, AtWork,
        PendingKept, InCache, PendingHere, Owned, SeenExtends, RowAhead, PendingOpen,
        FailWrite, Goto, EndTurn, Overlay, Closed, cacheVars, Pending, NoPending,
        Resolved, Never
  <1>27. ASSUME NEW r \in Requests, BeginRepair(r) PROVE HandedKept'
    BY <1>27 DEF HandedKept, RequestTypes, BeginRepair, Never, Repairs
  <1>28. ASSUME NEW r \in Requests, DropForRepair(r) PROVE HandedKept'
    BY <1>28 DEF HandedKept, SetTypes, InCache, RowAhead, DropForRepair, cacheVars,
        runVars, Never
  <1>29. ASSUME NEW r \in Requests, MarkUnknown(r) PROVE HandedKept'
    BY <1>29 DEF HandedKept, SetTypes, MarkUnknown, Resolve, rowVars, runVars, Resolved,
        Never
  <1>30. ASSUME NEW r \in Requests, CommitRepair(r) PROVE HandedKept'
    BY <1>30 DEF HandedKept, OneRuns, CommitRepair, Never, Repairs
  <1>31. ASSUME Crash PROVE HandedKept'
    BY <1>31 DEF HandedKept, Crash, rowVars, Never
  <1>32. ASSUME CancelTurn
       PROVE  UNCHANGED <<row, mem, memPending, rowPending, handed, step, message, home, seen, cached, pc>>
    BY <1>32 DEF CancelTurn, rowVars, cacheVars, runVars
  <1> QED  BY <1>1, <1>2, <1>3, <1>4, <1>5, <1>6, <1>7, <1>8, <1>9, <1>10, <1>11, <1>12,
              <1>13, <1>14, <1>15, <1>16, <1>17, <1>18, <1>19, <1>20, <1>21, <1>22,
              <1>23, <1>24, <1>25, <1>26, <1>27, <1>28, <1>29, <1>30, <1>31, <1>32
      DEF Next, Plan, Persist, Run, Disturb, Repair

-----------------------------------------------------------------------------
(* The inductive invariant.                                                *)

Types ==
    /\ RowTypes /\ HomeTypes /\ FlagTypes /\ CountTypes /\ PlaceTypes
    /\ MessageTypes /\ RequestTypes /\ SetTypes
PlacesKept ==
    /\ PendingKept /\ PhaseSteps /\ OneRuns /\ InCache /\ Owned /\ AtWork
    /\ PendingHere /\ NothingWaits
OutcomesKept ==
    /\ SeenOpen /\ MemSeen /\ PendingWhole /\ SeenExtends /\ RowAhead
    /\ PendingOpen /\ OpenAccounted /\ HandedKept
HInv == Types /\ PlacesKept /\ OutcomesKept

(* Every part holds at the start.                                          *)
LEMMA Starts == Init => HInv
  <1> SUFFICES ASSUME Init PROVE HInv
    OBVIOUS
  <1>1. RowTypes
    BY DEF Init, RowTypes, Nothing, Outcomes
  <1>2. HomeTypes
    BY DEF Init, HomeTypes
  <1>3. FlagTypes
    BY DEF Init, FlagTypes
  <1>4. CountTypes
    BY DEF Init, CountTypes
  <1>5. PlaceTypes
    BY DEF Init, PlaceTypes, Phases, Steps
  <1>6. MessageTypes
    BY DEF Init, MessageTypes
  <1>7. RequestTypes
    BY DEF Init, RequestTypes
  <1>8. SetTypes
    BY DEF Init, SetTypes
  <1>9. PendingKept
    BY DEF Init, PendingKept
  <1>10. PhaseSteps
    BY DEF Init, PhaseSteps
  <1>11. OneRuns
    BY DEF Init, OneRuns
  <1>12. InCache
    BY DEF Init, InCache
  <1>13. Owned
    BY DEF Init, Owned, Nothing
  <1>14. AtWork
    BY DEF Init, AtWork
  <1>15. PendingHere
    BY DEF Init, PendingHere
  <1>16. NothingWaits
    BY DEF Init, NothingWaits
  <1>17. SeenOpen
    BY DEF Init, SeenOpen
  <1>18. MemSeen
    BY DEF Init, MemSeen
  <1>19. PendingWhole
    BY DEF Init, PendingWhole
  <1>20. SeenExtends
    BY DEF Init, SeenExtends, Nothing
  <1>21. RowAhead
    BY DEF Init, RowAhead, Nothing
  <1>22. PendingOpen
    BY DEF Init, PendingOpen
  <1>23. OpenAccounted
    BY DEF Init, OpenAccounted, Nothing
  <1>24. HandedKept
    BY DEF Init, HandedKept
  <1> QED  BY <1>1, <1>2, <1>3, <1>4, <1>5, <1>6, <1>7, <1>8, <1>9, <1>10, <1>11, <1>12,
              <1>13, <1>14, <1>15, <1>16, <1>17, <1>18, <1>19, <1>20, <1>21, <1>22,
              <1>23, <1>24
      DEF HInv, Types, PlacesKept, OutcomesKept

(* Every part is preserved by every step.                                  *)
LEMMA Preserves == ASSUME HInv, Next PROVE HInv'
  <1>1. Types'
    <2>1. RowTypes'
      BY RowTypesStep DEF HInv, Types
    <2>2. HomeTypes'
      BY HomeTypesStep DEF HInv, Types
    <2>3. FlagTypes'
      BY FlagTypesStep DEF HInv, Types
    <2>4. CountTypes'
      BY CountTypesStep DEF HInv, Types
    <2>5. PlaceTypes'
      BY PlaceTypesStep DEF HInv, Types
    <2>6. MessageTypes'
      BY MessageTypesStep DEF HInv, Types, PlacesKept
    <2>7. RequestTypes'
      BY RequestTypesStep DEF HInv, Types
    <2>8. SetTypes'
      BY SetTypesStep DEF HInv, Types, PlacesKept
    <2> QED  BY <2>1, <2>2, <2>3, <2>4, <2>5, <2>6, <2>7, <2>8 DEF Types
  <1>2. PlacesKept'
    <2>1. PendingKept'
      BY PendingKeptStep DEF HInv, Types, PlacesKept
    <2>2. PhaseSteps'
      BY PhaseStepsStep DEF HInv, Types, PlacesKept
    <2>3. OneRuns'
      BY OneRunsStep DEF HInv, Types, PlacesKept
    <2>4. InCache'
      BY InCacheStep DEF HInv, Types, PlacesKept
    <2>5. Owned'
      BY OwnedStep DEF HInv, Types, PlacesKept
    <2>6. AtWork'
      BY AtWorkStep DEF HInv, Types, PlacesKept, OutcomesKept
    <2>7. PendingHere'
      BY PendingHereStep DEF HInv, Types, PlacesKept
    <2>8. NothingWaits'
      BY NothingWaitsStep DEF HInv, Types, PlacesKept
    <2> QED  BY <2>1, <2>2, <2>3, <2>4, <2>5, <2>6, <2>7, <2>8 DEF PlacesKept
  <1>3. OutcomesKept'
    <2>1. SeenOpen'
      BY SeenOpenStep DEF HInv, Types, PlacesKept, OutcomesKept
    <2>2. MemSeen'
      BY MemSeenStep DEF HInv, Types, PlacesKept, OutcomesKept
    <2>3. PendingWhole'
      BY PendingWholeStep DEF HInv, Types, PlacesKept, OutcomesKept
    <2>4. SeenExtends'
      BY SeenExtendsStep DEF HInv, Types, PlacesKept, OutcomesKept
    <2>5. RowAhead'
      BY RowAheadStep DEF HInv, Types, PlacesKept, OutcomesKept
    <2>6. PendingOpen'
      BY PendingOpenStep DEF HInv, Types, PlacesKept, OutcomesKept
    <2>7. OpenAccounted'
      BY OpenAccountedStep DEF HInv, Types, PlacesKept, OutcomesKept
    <2>8. HandedKept'
      BY HandedKeptStep DEF HInv, Types, PlacesKept, OutcomesKept
    <2> QED  BY <2>1, <2>2, <2>3, <2>4, <2>5, <2>6, <2>7, <2>8 DEF OutcomesKept
  <1> QED  BY <1>1, <1>2, <1>3 DEF HInv

(* Every part is preserved when nothing changes.                           *)
LEMMA Stutters == ASSUME HInv, UNCHANGED vars PROVE HInv'
  <1> USE DEF vars, rowVars, cacheVars, runVars, fixVars, boundVars
  <1>1. Types'
    BY DEF HInv, Types, RowTypes, HomeTypes, FlagTypes, CountTypes, PlaceTypes,
        MessageTypes, RequestTypes, SetTypes
  <1>2. PlacesKept'
    <2>1. PendingKept'
      BY DEF HInv, PlacesKept, PendingKept, Pending
    <2>2. PhaseSteps'
      BY DEF HInv, PlacesKept, PhaseSteps
    <2>3. OneRuns'
      BY DEF HInv, PlacesKept, OneRuns
    <2>4. InCache'
      BY DEF HInv, PlacesKept, InCache
    <2>5. Owned'
      BY DEF HInv, PlacesKept, Owned
    <2>6. AtWork'
      BY DEF HInv, PlacesKept, AtWork
    <2>7. PendingHere'
      BY DEF HInv, PlacesKept, PendingHere
    <2>8. NothingWaits'
      BY DEF HInv, PlacesKept, NothingWaits, Never
    <2> QED  BY <2>1, <2>2, <2>3, <2>4, <2>5, <2>6, <2>7, <2>8 DEF PlacesKept
  <1>3. OutcomesKept'
    <2>1. SeenOpen'
      BY DEF HInv, OutcomesKept, SeenOpen, Never
    <2>2. MemSeen'
      BY DEF HInv, OutcomesKept, MemSeen
    <2>3. PendingWhole'
      BY DEF HInv, OutcomesKept, PendingWhole, Never
    <2>4. SeenExtends'
      BY DEF HInv, OutcomesKept, SeenExtends, Never
    <2>5. RowAhead'
      BY DEF HInv, OutcomesKept, RowAhead, Never
    <2>6. PendingOpen'
      BY DEF HInv, OutcomesKept, PendingOpen, Never
    <2>7. OpenAccounted'
      BY DEF HInv, OutcomesKept, OpenAccounted, Tracked, Clean, Never
    <2>8. HandedKept'
      BY DEF HInv, OutcomesKept, HandedKept, Never
    <2> QED  BY <2>1, <2>2, <2>3, <2>4, <2>5, <2>6, <2>7, <2>8 DEF OutcomesKept
  <1> QED  BY <1>1, <1>2, <1>3 DEF HInv

-----------------------------------------------------------------------------
(* The theorems.                                                           *)

(* No step changes an outcome, on whichever copy a reader is shown.        *)
LEMMA OutcomeKept ==
    ASSUME HInv, Next, NEW c \in Calls, Never("repair")', View(c) \in Resolved
    PROVE  View(c)' = View(c)
  <1> USE DEF HInv, Types, PlacesKept, OutcomesKept
  <1>1. Never("repair") /\ (step \notin {"none", "plan"} => cached)
    BY Monotone DEF InCache
  <1>2. (IF cached THEN mem[c] ELSE row[c]) \in Resolved
    BY DEF View
  <1>3. ASSUME RepairRows \/ Hydrate PROVE View(c)' = View(c)
    BY <1>2, <1>3 DEF RepairRows, Hydrate, Resolve, View, Resolved, cacheVars
  <1>4. ASSUME CommitRow \/ AbortPlan \/ FailWrite PROVE View(c)' = View(c)
    BY <1>1, <1>4 DEF CommitRow, AbortPlan, FailWrite, cacheVars, View
  <1>5. ASSUME PublishRow PROVE View(c)' = View(c)
    <2>1. cached /\ mem[c] \in Resolved
      BY <1>1, <1>2, <1>5 DEF PublishRow
    <2>2. home[c] = message => seen[c] = mem[c]
      BY <1>1, <2>1 DEF SeenExtends, Owned
    <2> QED  BY <1>5, <2>1, <2>2 DEF PublishRow, Overlay, View
  <1>6. ASSUME NEW r \in Requests, MarkUnknown(r) PROVE View(c)' = View(c)
    BY <1>2, <1>6 DEF MarkUnknown, Resolve, View, Resolved, rowVars
  <1>7. ASSUME NEW r \in Requests, CommitRepair(r) PROVE View(c)' = View(c)
    BY <1>7 DEF CommitRepair, InCache, View, cacheVars
  <1>8. ASSUME Crash PROVE View(c)' = View(c)
    BY <1>1, <1>2, <1>8 DEF Crash, RowAhead, View, rowVars
  <1>9. ASSUME ClearStale \/ NothingStale \/ PlanResult \/ RejectResult
              \/ PlanSteering \/ RejectSteering \/ CommitDrop \/ StartRun
              \/ ResumeRun \/ WaitForRest \/ WaitForHost \/ CommitSet
              \/ ModelAnswers \/ ModelStops \/ CloseLate \/ HandOver \/ FinishTurn
              \/ CancelTurn
       PROVE  UNCHANGED <<row, mem, cached>>
    BY <1>9 DEF ClearStale, rowVars, cacheVars, NothingStale, PlanResult, RejectResult,
        PlanSteering, RejectSteering, CommitDrop, StartRun, ResumeRun, WaitForRest,
        Wait, WaitForHost, CommitSet, ModelAnswers, ModelStops, CloseLate, HandOver,
        FinishTurn, CancelTurn
  <1>10. ASSUME NEW r \in Requests, AcceptSteering(r) \/ Admit(r) \/ BeginRepair(r)
              \/ DropForRepair(r)
       PROVE  UNCHANGED <<row, mem, cached>>
    BY <1>10 DEF AcceptSteering, rowVars, cacheVars, Admit, BeginRepair, DropForRepair
  <1> QED  BY <1>3, <1>4, <1>5, <1>6, <1>7, <1>8, <1>9, <1>10
      DEF Next, Plan, Persist, Run, Disturb, Repair, View

(* What the steps of a process that has not loaded the session yet do.     *)
Heals == /\ cached' => \A c \in Calls : mem'[c] = "open" => c \in memPending'.batch
         /\ cached' /\ memPending' # NoPending => mem'[memPending'.call] = "open"
         /\ \A c \in Calls : row[c] \in Resolved => row'[c] = row[c]
LEMMA RestartStep == ASSUME HInv, Next, ~cached PROVE Heals
  <1> USE DEF HInv, Types, PlacesKept
  <1>1. step \in {"none", "plan"}
    BY DEF InCache
  <1>2. ASSUME RepairRows PROVE Heals
    BY <1>2 DEF RepairRows, Resolve, Resolved, Heals, cacheVars
  <1>3. ASSUME Hydrate PROVE Heals
    <2>1. rowPending = NoPending \/ (rowPending.call \in Calls /\ rowPending.batch \subseteq Calls)
      BY DEF PendingKept
    <2>2. \A c \in Calls : mem'[c] = "open" => c \in memPending'.batch
      BY <1>3, <2>1 DEF Hydrate, Stale, Kept, Restorable
    <2>3. memPending' # NoPending => mem'[memPending'.call] = "open"
      BY <1>3, <2>1 DEF Hydrate, Restorable
    <2> QED  BY <1>3, <2>2, <2>3 DEF Hydrate, Heals
  <1>4. ASSUME CommitRow \/ AbortPlan \/ FailWrite PROVE UNCHANGED <<row, cached>>
    BY <1>1, <1>4 DEF CommitRow, AbortPlan, FailWrite, cacheVars
  <1>5. ASSUME NEW r \in Requests, CommitRepair(r) PROVE FALSE
    BY <1>5 DEF CommitRepair, InCache
  <1>6. ASSUME Crash PROVE Heals
    BY <1>6 DEF Crash, Heals, rowVars
  <1>7. ASSUME ClearStale \/ NothingStale \/ PlanResult \/ RejectResult
              \/ PlanSteering \/ RejectSteering \/ PublishRow \/ CommitDrop
              \/ StartRun \/ ResumeRun \/ WaitForRest \/ WaitForHost \/ CommitSet
              \/ ModelAnswers \/ ModelStops \/ CloseLate \/ HandOver \/ FinishTurn
              \/ CancelTurn
       PROVE  UNCHANGED <<row, cached>>
    BY <1>7 DEF ClearStale, rowVars, cacheVars, NothingStale, PlanResult, RejectResult,
        PlanSteering, RejectSteering, PublishRow, CommitDrop, StartRun, ResumeRun,
        WaitForRest, Wait, WaitForHost, CommitSet, ModelAnswers, ModelStops, CloseLate,
        HandOver, FinishTurn, CancelTurn
  <1>8. ASSUME NEW r \in Requests, AcceptSteering(r) \/ Admit(r) \/ BeginRepair(r)
              \/ DropForRepair(r) \/ MarkUnknown(r)
       PROVE  UNCHANGED <<row, cached>>
    BY <1>8 DEF AcceptSteering, rowVars, cacheVars, Admit, BeginRepair, DropForRepair,
        MarkUnknown
  <1>9. UNCHANGED <<row, cached>> => Heals
    BY DEF Heals
  <1> QED  BY <1>2, <1>3, <1>4, <1>5, <1>6, <1>7, <1>8, <1>9
      DEF Next, Plan, Persist, Run, Disturb, Repair

(* In every reachable state the rows, the cached context and what the turn *)
(* would write agree, and every open call has somebody who waits for it.   *)
THEOREM Invariance == Spec => []HInv
  <1>1. HInv /\ [Next]_vars => HInv'
    BY Preserves, Stutters
  <1> QED  BY Starts, <1>1, PTL DEF Spec

(* Every variable keeps its type.                                          *)
THEOREM TypeCorrect == Spec => []TypeOK
  <1>1. HInv => TypeOK
    BY DEF HInv, Types, PlacesKept, PendingKept, Pending, TypeOK, RowTypes, HomeTypes,
        FlagTypes, CountTypes, PlaceTypes, MessageTypes, RequestTypes, SetTypes
  <1> QED  BY <1>1, Invariance, PTL

(* "Commit an update before publishing it": while nobody repairs, an       *)
(* outcome the process acts on is on the row already                       *)
(* (SessionStore.update_message, persist_snapshot).                        *)
THEOREM WritesComeFirst == Spec => []CacheIsDurable
  <1>1. HInv => CacheIsDurable
    BY DEF HInv, OutcomesKept, RowAhead, CacheIsDurable
  <1> QED  BY <1>1, Invariance, PTL

(* Between turns the pending call can be answered, no other call is left   *)
(* open, and the host was given one at a time; the model resumes when the  *)
(* whole batch has its results (TurnPlanner._plan_continuation,            *)
(* clear_stale_pending_call, TurnRunner._take_output).                     *)
THEOREM NoCallIsLost == Spec => []CallsKept
  <1>1. ASSUME HInv PROVE CallsKept
    <2> USE <1>1 DEF HInv, Types, PlacesKept, OutcomesKept
    <2>1. PendingIsAnswerable
      BY DEF PendingIsAnswerable, PendingOpen, PendingKept, Pending
    <2>2. NoCallForgotten
      BY DEF NoCallForgotten, OpenAccounted, Tracked, Clean, PhaseSteps
    <2>3. OneCallAtATime
      BY DEF OneCallAtATime, HandedKept
    <2>4. ModelSeesWholeBatch
      BY DEF ModelSeesWholeBatch, SeenOpen, AtWork, PhaseSteps, PlaceTypes, Phases
    <2> QED  BY <2>1, <2>2, <2>3, <2>4 DEF CallsKept
  <1> QED  BY <1>1, Invariance, PTL

(* A call that has an outcome keeps it, over retries, cancellations,       *)
(* failing writes and crashes, and a restart waits for every call that is  *)
(* still open (repair_stale_tools_in_context, resolve_tool_entry).         *)
THEOREM DecisionsStand == Spec => OutcomesStand
  <1>1. HInv /\ [Next]_vars
        => [\A c \in Calls : Never("repair")' /\ View(c) \in Resolved
                             => View(c)' = View(c)]_vars
    BY OutcomeKept
  <1>2. HInv /\ [Next]_vars => [~cached => Heals]_vars
    BY RestartStep
  <1> QED  BY <1>1, <1>2, Invariance, PTL
      DEF Spec, OutcomesStand, OutcomeIsFinal, RestartHeals, Heals
=============================================================================
