-------------------------- MODULE DeliveryProofs --------------------------
(***************************************************************************)
(* What Delivery promises holds for any number of events, requests, turns, *)
(* rounds of the model, failing writes and deaths of the process: every    *)
(* event becomes one message and every turn is replayed once               *)
(* (DeliveredOnlyOnce), a follow-up run has news (NewsInFollowUps), and    *)
(* what was taken is kept until the model heard it: Delivery implements    *)
(* DeliveryPromise (TakenIsKept).                                          *)
(*                                                                         *)
(* All follow from one inductive invariant, DInv.  IntakeKept says how     *)
(* far a message has come by where its request and the drain are;          *)
(* ReplayKept relates the rows, the cached context, what is saved and the  *)
(* sets of the run.  Each part has a lemma that every step preserves it,   *)
(* with one case per action that writes what the part reads.               *)
(***************************************************************************)
EXTENDS Delivery, FiniteSetTheorems, TLAPS

-----------------------------------------------------------------------------
(* Types, one part for each group of variables.                            *)
DeliveryTypes == delivery \in [Events -> Deliveries]
InboxTypes    == inbox \in [Requests -> {None, "waiting", "surfaced"}]
MarkTypes     == row \in [Ids -> Marks] /\ mem \in [Ids -> Marks]
FlagTypes     == /\ exists \in BOOLEAN /\ held \in BOOLEAN /\ current \in BOOLEAN
                 /\ failed \in BOOLEAN /\ ran \subseteq MessageTurns
                 /\ lock \in Requests \cup {None} /\ promoted \subseteq Requests
                 /\ live \in [Requests -> BOOLEAN]
PlaceTypes    == pc \in [Requests -> {"idle", "claim", "resolve", "accept", "write",
                                      "publish", "wait", "outcome", "done", "lost"}]
AnswerTypes   == answer \in [Requests -> Hows \cup {None, "error"}]
TurnTypes     == turn \in Turns \cup {None} /\ phase \in Phases
DrainTypes    == todo \subseteq Requests /\ item \in Requests \cup {None}
IdTypes       == \A S \in {saved, inflight, consumed, said, heard, unsaved} : S \subseteq Ids
CountTypes    == rounds \in 0..MaxRounds /\ crashes \in 0..MaxCrashes /\ faults \in 0..MaxFaults

(* A turn has the slot from its first phase to its last, and a drain that  *)
(* queues a message has one.                                               *)
SlotKept == /\ turn = None <=> phase = None
            /\ phase \in {"publish", "consume"} => item \in Requests

-----------------------------------------------------------------------------
(* How far each message has come, and what a run may know.                 *)

(* What a request answers, once it knows.                                  *)
OutcomeAnswered ==
    \A r \in Requests :
        /\ pc[r] = "outcome" => answer[r] \in Hows \cup {"error"}
        /\ pc[r] \in {"write", "publish"} => answer[r] \in {"queued", "promoted"}

(* What a drain queues, or has queued, waited in the inbox.                *)
InboxFirst ==
    /\ \A r \in Requests : row[Inbox(r)] # None \/ r \in todo => inbox[r] # None
    /\ phase \in {"publish", "consume"} => inbox[item] # None

(* A request that has taken nothing yet left no trace; between its row and *)
(* the cached context, the row is there alone.                             *)
Untaken == {"idle", "claim", "resolve", "accept", "write", "wait"}
Fresh ==
    /\ \A r \in Requests :
        /\ pc[r] \in Untaken => row[Direct(r)] = None /\ inbox[r] = None
        /\ pc[r] = "publish" => /\ mem[Direct(r)] = None /\ row[Direct(r)] # None
                                /\ inbox[r] = None
    /\ phase = "publish" => mem[Inbox(item)] = None /\ row[Inbox(item)] # None

(* The cached context is never ahead of the rows.                          *)
MemBehindRow ==
    \A i \in Ids : /\ mem[i] # None => row[i] # None
                   /\ mem[i] = "delivered" => row[i] = "delivered"

(* What a request brought is steering of its own or waits, never both.     *)
OneCopy == \A r \in Requests : row[Direct(r)] = None \/ inbox[r] = None

(* A post that may deliver has noted the start of its event, alone.        *)
Begun(r) == \/ pc[r] \in {"resolve", "accept", "write", "publish", "wait", "outcome"}
            \/ row[Direct(r)] # None \/ inbox[r] # None
Claimed ==
    /\ \A r \in Posts : Begun(r) => delivery[Carries[r]] \notin {None, "received"}
    /\ \A r, q \in Posts : Carries[r] = Carries[q] /\ Begun(r) /\ Begun(q) => r = q

(* What a run consumed is pending, and among what it said while it goes on.*)
Over == {None, "closing", "tail"}
ConsumedPending == /\ consumed \subseteq Pending
                   /\ phase \notin Over => consumed \subseteq said

(* Nothing is acknowledged that the model has not heard.                   *)
AckHeard ==
    /\ phase \in {"ack", "acked"} => consumed \subseteq heard
    /\ phase = "acked" => \A i \in consumed : row[i] = "delivered"
    /\ \A i \in Ids : row[i] = "delivered" => i \in heard

(* What is saved was acknowledged.                                         *)
SavedDelivered == /\ \A i \in saved : mem[i] = "delivered"
                  /\ \A i \in said : mem[i] # None

(* What was acknowledged is saved, or its turn is not over.                *)
DeliveredSaved ==
    \A i \in Ids : mem[i] = "delivered" =>
        i \in saved \cup unsaved \/ (i \in said /\ phase \notin Over)

(* Before its first request a turn has said nothing; a follow-up run has   *)
(* something to say.                                                       *)
Unsaid == {"plan", "setup"} \cup DrainPhases
FollowUpReady ==
    /\ phase \in Unsaid => rounds = 0 /\ said = {}
    /\ phase = "prompt" /\ rounds > 0 => inflight = {} /\ PendingFor(turn) # {}

-----------------------------------------------------------------------------
(* Every step preserves every part.                                        *)

(* The ids of a message, and of two messages, are told apart.              *)
LEMMA IdNames ==
    /\ \A r \in Requests : Direct(r) \in Ids /\ Inbox(r) \in Ids
    /\ \A r, q \in Requests : /\ Direct(r) # Inbox(q)
                              /\ r # q => Direct(r) # Direct(q) /\ Inbox(r) # Inbox(q)
  BY DEF Ids, Direct, Inbox

(* delivery keeps its type.                                                *)
LEMMA DeliveryTypesStep ==
    ASSUME DeliveryTypes, AnswerTypes, Next
    PROVE  DeliveryTypes'
  <1>1. CASE UNCHANGED delivery
    BY <1>1 DEF DeliveryTypes, Deliveries, Hows
  <1>2. ASSUME NEW r \in Requests, Record(r) PROVE DeliveryTypes'
    BY <1>2 DEF DeliveryTypes, AnswerTypes, Record, Deliveries, Hows
  <1>3. ASSUME NEW r \in Requests, StartDelivery(r) PROVE DeliveryTypes'
    BY <1>3 DEF DeliveryTypes, AnswerTypes, StartDelivery, Deliveries, Hows
  <1>4. ASSUME NEW r \in Requests, NoteOutcome(r) PROVE DeliveryTypes'
    BY <1>4 DEF DeliveryTypes, AnswerTypes, NoteOutcome, Deliveries, Hows
  <1>5. ASSUME NEW r \in Requests, Arrive(r) \/ Resolve(r) \/ AcceptSteering(r)
              \/ CreateSteering(r) \/ AddSteering(r) \/ QueueInInbox(r)
              \/ RunPromoted(r) \/ QueueDrained(r)
       PROVE  UNCHANGED delivery
    BY <1>5 DEF Arrive, rows, Resolve, AcceptSteering, CreateSteering, AddSteering,
        QueueInInbox, RunPromoted, QueueDrained
  <1>6. ASSUME NEW t \in MessageTurns, RegisterMessage(t) PROVE UNCHANGED delivery
    BY <1>6 DEF RegisterMessage, rows
  <1>7. ASSUME PlanMessage \/ PlanSteering \/ PlanFails \/ ReadInbox \/ AddDrained
              \/ Consume \/ DrainEnds \/ StartRun \/ EnqueueSteering \/ Respond
              \/ Acknowledge \/ Acknowledged \/ Interrupt \/ PersistSnapshot
              \/ Close \/ Free \/ Reserve \/ Release \/ Crash
       PROVE  UNCHANGED delivery
    BY <1>7 DEF PlanMessage, PlanSteering, rows, PlanFails, ReadInbox, AddDrained,
        Consume, DrainEnds, StartRun, EnqueueSteering, Respond, Acknowledge,
        Acknowledged, Interrupt, PersistSnapshot, Close, Free, Reserve, Release, Crash
  <1> QED  BY <1>1, <1>2, <1>3, <1>4, <1>5, <1>6, <1>7
    DEF Next, Intake, TurnStep

(* inbox keeps its type.                                                   *)
LEMMA InboxTypesStep ==
    ASSUME InboxTypes, SlotKept, Next
    PROVE  InboxTypes'
  <1>1. CASE UNCHANGED inbox
    BY <1>1 DEF InboxTypes
  <1>2. ASSUME NEW r \in Requests, QueueInInbox(r) PROVE InboxTypes'
    BY <1>2 DEF InboxTypes, SlotKept, QueueInInbox
  <1>3. ASSUME Consume PROVE InboxTypes'
    BY <1>3 DEF InboxTypes, SlotKept, Consume
  <1>4. ASSUME NEW r \in Requests, Record(r) \/ StartDelivery(r) \/ Arrive(r)
              \/ Resolve(r) \/ AcceptSteering(r) \/ CreateSteering(r)
              \/ AddSteering(r) \/ NoteOutcome(r) \/ RunPromoted(r)
              \/ QueueDrained(r)
       PROVE  UNCHANGED inbox
    BY <1>4 DEF Record, StartDelivery, Arrive, rows, Resolve, AcceptSteering,
        CreateSteering, AddSteering, NoteOutcome, RunPromoted, QueueDrained
  <1>5. ASSUME NEW t \in MessageTurns, RegisterMessage(t) PROVE UNCHANGED inbox
    BY <1>5 DEF RegisterMessage, rows
  <1>6. ASSUME PlanMessage \/ PlanSteering \/ PlanFails \/ ReadInbox \/ AddDrained
              \/ DrainEnds \/ StartRun \/ EnqueueSteering \/ Respond \/ Acknowledge
              \/ Acknowledged \/ Interrupt \/ PersistSnapshot \/ Close \/ Free
              \/ Reserve \/ Release \/ Crash
       PROVE  UNCHANGED inbox
    BY <1>6 DEF PlanMessage, PlanSteering, rows, PlanFails, ReadInbox, AddDrained,
        DrainEnds, StartRun, EnqueueSteering, Respond, Acknowledge, Acknowledged,
        Interrupt, PersistSnapshot, Close, Free, Reserve, Release, Crash
  <1> QED  BY <1>1, <1>2, <1>3, <1>4, <1>5, <1>6
    DEF Next, Intake, TurnStep

(* row and mem keep their types.                                           *)
LEMMA MarkTypesStep ==
    ASSUME MarkTypes, SlotKept, Next
    PROVE  MarkTypes'
  <1>1. CASE UNCHANGED <<row, mem>>
    BY <1>1 DEF MarkTypes, Marks
  <1>2. ASSUME NEW r \in Requests, CreateSteering(r) PROVE MarkTypes'
    BY <1>2, IdNames DEF MarkTypes, SlotKept, CreateSteering, Marks
  <1>3. ASSUME NEW r \in Requests, AddSteering(r) PROVE MarkTypes'
    BY <1>3, IdNames DEF MarkTypes, SlotKept, AddSteering, rows, Marks
  <1>4. ASSUME NEW r \in Requests, QueueDrained(r) PROVE MarkTypes'
    BY <1>4, IdNames DEF MarkTypes, SlotKept, QueueDrained, Marks
  <1>5. ASSUME AddDrained PROVE MarkTypes'
    BY <1>5, IdNames DEF MarkTypes, SlotKept, AddDrained, rows, Marks
  <1>6. ASSUME Acknowledge PROVE MarkTypes'
    BY <1>6, IdNames DEF MarkTypes, SlotKept, Acknowledge, Marks
  <1>7. ASSUME Acknowledged PROVE MarkTypes'
    BY <1>7, IdNames DEF MarkTypes, SlotKept, Acknowledged, rows, Marks
  <1>8. ASSUME Crash PROVE MarkTypes'
    BY <1>8, IdNames DEF MarkTypes, SlotKept, Crash, rows, Marks
  <1>9. ASSUME NEW r \in Requests, Record(r) \/ StartDelivery(r) \/ Arrive(r)
              \/ Resolve(r) \/ AcceptSteering(r) \/ QueueInInbox(r)
              \/ NoteOutcome(r) \/ RunPromoted(r)
       PROVE  UNCHANGED <<row, mem>>
    BY <1>9 DEF Record, StartDelivery, Arrive, rows, Resolve, AcceptSteering,
        QueueInInbox, NoteOutcome, RunPromoted
  <1>10. ASSUME NEW t \in MessageTurns, RegisterMessage(t) PROVE UNCHANGED <<row, mem>>
    BY <1>10 DEF RegisterMessage, rows
  <1>11. ASSUME PlanMessage \/ PlanSteering \/ PlanFails \/ ReadInbox \/ Consume
              \/ DrainEnds \/ StartRun \/ EnqueueSteering \/ Respond \/ Interrupt
              \/ PersistSnapshot \/ Close \/ Free \/ Reserve \/ Release
       PROVE  UNCHANGED <<row, mem>>
    BY <1>11 DEF PlanMessage, PlanSteering, rows, PlanFails, ReadInbox, Consume,
        DrainEnds, StartRun, EnqueueSteering, Respond, Interrupt, PersistSnapshot,
        Close, Free, Reserve, Release
  <1> QED  BY <1>1, <1>2, <1>3, <1>4, <1>5, <1>6, <1>7, <1>8, <1>9, <1>10, <1>11
    DEF Next, Intake, TurnStep

(* Flags and sets keep their types.                                        *)
LEMMA FlagTypesStep ==
    ASSUME FlagTypes, Next
    PROVE  FlagTypes'
  <1>1. CASE UNCHANGED <<exists, held, current, failed, ran, lock, promoted, live>>
    BY <1>1 DEF FlagTypes
  <1>2. ASSUME NEW r \in Requests, Arrive(r) PROVE FlagTypes'
    BY <1>2 DEF FlagTypes, Arrive, rows, run, slot, outer
  <1>3. ASSUME NEW r \in Requests, AcceptSteering(r) PROVE FlagTypes'
    BY <1>3 DEF FlagTypes, AcceptSteering, rows, run, slot, outer
  <1>4. ASSUME NEW r \in Requests, CreateSteering(r) PROVE FlagTypes'
    BY <1>4 DEF FlagTypes, CreateSteering, run, slot, outer
  <1>5. ASSUME NEW r \in Requests, AddSteering(r) PROVE FlagTypes'
    BY <1>5 DEF FlagTypes, AddSteering, rows, run, slot
  <1>6. ASSUME NEW r \in Requests, RunPromoted(r) PROVE FlagTypes'
    BY <1>6 DEF FlagTypes, RunPromoted, Enter, rows, intake, run, slot
  <1>7. ASSUME NEW t \in MessageTurns, RegisterMessage(t) PROVE FlagTypes'
    BY <1>7 DEF FlagTypes, RegisterMessage, Enter, rows, intake, outer
  <1>8. ASSUME PlanMessage PROVE FlagTypes'
    BY <1>8 DEF FlagTypes, PlanMessage, intake, run, outer
  <1>9. ASSUME PlanSteering PROVE FlagTypes'
    BY <1>9 DEF FlagTypes, PlanSteering, rows, intake, run, outer
  <1>10. ASSUME Interrupt PROVE FlagTypes'
    BY <1>10 DEF FlagTypes, Interrupt, rows, intake, outer
  <1>11. ASSUME PersistSnapshot PROVE FlagTypes'
    BY <1>11 DEF FlagTypes, PersistSnapshot, intake, outer
  <1>12. ASSUME Close PROVE FlagTypes'
    BY <1>12 DEF FlagTypes, Close, rows, intake, run, outer
  <1>13. ASSUME Reserve PROVE FlagTypes'
    BY <1>13 DEF FlagTypes, Reserve, rows, intake, run, slot
  <1>14. ASSUME Release PROVE FlagTypes'
    BY <1>14 DEF FlagTypes, Release, rows, intake, run, slot
  <1>15. ASSUME Crash PROVE FlagTypes'
    BY <1>15 DEF FlagTypes, Crash, rows
  <1>16. ASSUME NEW r \in Requests, Record(r) \/ StartDelivery(r) \/ Resolve(r)
              \/ QueueInInbox(r) \/ NoteOutcome(r) \/ QueueDrained(r)
       PROVE  UNCHANGED <<exists, held, current, failed, ran, lock, promoted, live>>
    BY <1>16 DEF Record, run, slot, outer, StartDelivery, Resolve, rows, QueueInInbox,
        NoteOutcome, QueueDrained, intake
  <1>17. ASSUME PlanFails \/ ReadInbox \/ AddDrained \/ Consume \/ DrainEnds
              \/ StartRun \/ EnqueueSteering \/ Respond \/ Acknowledge
              \/ Acknowledged \/ Free
       PROVE  UNCHANGED <<exists, held, current, failed, ran, lock, promoted, live>>
    BY <1>17 DEF PlanFails, rows, intake, run, outer, ReadInbox, AddDrained, Consume,
        DrainEnds, StartRun, EnqueueSteering, Respond, Acknowledge, Acknowledged, Free
  <1> QED  BY <1>1, <1>2, <1>3, <1>4, <1>5, <1>6, <1>7, <1>8, <1>9, <1>10, <1>11, <1>12,
       <1>13, <1>14, <1>15, <1>16, <1>17
    DEF Next, Intake, TurnStep

(* pc keeps its type.                                                      *)
LEMMA PlaceTypesStep ==
    ASSUME PlaceTypes, Next
    PROVE  PlaceTypes'
  <1>1. CASE UNCHANGED pc
    BY <1>1 DEF PlaceTypes
  <1>2. ASSUME NEW r \in Requests, Record(r) PROVE PlaceTypes'
    BY <1>2 DEF PlaceTypes, Record, Goto
  <1>3. ASSUME NEW r \in Requests, StartDelivery(r) PROVE PlaceTypes'
    BY <1>3 DEF PlaceTypes, StartDelivery, Goto
  <1>4. ASSUME NEW r \in Requests, Arrive(r) PROVE PlaceTypes'
    BY <1>4 DEF PlaceTypes, Arrive, Goto
  <1>5. ASSUME NEW r \in Requests, Resolve(r) PROVE PlaceTypes'
    BY <1>5 DEF PlaceTypes, Resolve, Goto
  <1>6. ASSUME NEW r \in Requests, AcceptSteering(r) PROVE PlaceTypes'
    BY <1>6 DEF PlaceTypes, AcceptSteering, Goto, Refused, Reported
  <1>7. ASSUME NEW r \in Requests, CreateSteering(r) PROVE PlaceTypes'
    BY <1>7 DEF PlaceTypes, CreateSteering, Goto, Reported
  <1>8. ASSUME NEW r \in Requests, AddSteering(r) PROVE PlaceTypes'
    BY <1>8 DEF PlaceTypes, AddSteering, Goto, Reported
  <1>9. ASSUME NEW r \in Requests, QueueInInbox(r) PROVE PlaceTypes'
    BY <1>9 DEF PlaceTypes, QueueInInbox, Goto, Reported
  <1>10. ASSUME NEW r \in Requests, NoteOutcome(r) PROVE PlaceTypes'
    BY <1>10 DEF PlaceTypes, NoteOutcome, Goto
  <1>11. ASSUME Crash PROVE PlaceTypes'
    BY <1>11 DEF PlaceTypes, Crash
  <1>12. ASSUME NEW r \in Requests, RunPromoted(r) \/ QueueDrained(r) PROVE UNCHANGED pc
    BY <1>12 DEF RunPromoted, intake, QueueDrained
  <1>13. ASSUME NEW t \in MessageTurns, RegisterMessage(t) PROVE UNCHANGED pc
    BY <1>13 DEF RegisterMessage, intake
  <1>14. ASSUME PlanMessage \/ PlanSteering \/ PlanFails \/ ReadInbox \/ AddDrained
              \/ Consume \/ DrainEnds \/ StartRun \/ EnqueueSteering \/ Respond
              \/ Acknowledge \/ Acknowledged \/ Interrupt \/ PersistSnapshot
              \/ Close \/ Free \/ Reserve \/ Release
       PROVE  UNCHANGED pc
    BY <1>14 DEF PlanMessage, intake, PlanSteering, PlanFails, ReadInbox, AddDrained,
        Consume, DrainEnds, StartRun, EnqueueSteering, Respond, Acknowledge,
        Acknowledged, Interrupt, PersistSnapshot, Close, Free, Reserve, Release
  <1> QED  BY <1>1, <1>2, <1>3, <1>4, <1>5, <1>6, <1>7, <1>8, <1>9, <1>10, <1>11, <1>12,
       <1>13, <1>14
    DEF Next, Intake, TurnStep

(* answer keeps its type.                                                  *)
LEMMA AnswerTypesStep ==
    ASSUME AnswerTypes, Next
    PROVE  AnswerTypes'
  <1>1. CASE UNCHANGED answer
    BY <1>1 DEF AnswerTypes, Hows
  <1>2. ASSUME NEW r \in Requests, AcceptSteering(r) PROVE AnswerTypes'
    BY <1>2 DEF AnswerTypes, AcceptSteering, Answer, Hows
  <1>3. ASSUME NEW r \in Requests, CreateSteering(r) PROVE AnswerTypes'
    BY <1>3 DEF AnswerTypes, CreateSteering, Answer, Hows
  <1>4. ASSUME NEW r \in Requests, QueueInInbox(r) PROVE AnswerTypes'
    BY <1>4 DEF AnswerTypes, QueueInInbox, Answer, Hows
  <1>5. ASSUME NEW r \in Requests, Record(r) \/ StartDelivery(r) \/ Arrive(r)
              \/ Resolve(r) \/ AddSteering(r) \/ NoteOutcome(r) \/ RunPromoted(r)
              \/ QueueDrained(r)
       PROVE  UNCHANGED answer
    BY <1>5 DEF Record, StartDelivery, Arrive, Resolve, AddSteering, NoteOutcome,
        RunPromoted, intake, QueueDrained
  <1>6. ASSUME NEW t \in MessageTurns, RegisterMessage(t) PROVE UNCHANGED answer
    BY <1>6 DEF RegisterMessage, intake
  <1>7. ASSUME PlanMessage \/ PlanSteering \/ PlanFails \/ ReadInbox \/ AddDrained
              \/ Consume \/ DrainEnds \/ StartRun \/ EnqueueSteering \/ Respond
              \/ Acknowledge \/ Acknowledged \/ Interrupt \/ PersistSnapshot
              \/ Close \/ Free \/ Reserve \/ Release \/ Crash
       PROVE  UNCHANGED answer
    BY <1>7 DEF PlanMessage, intake, PlanSteering, PlanFails, ReadInbox, AddDrained,
        Consume, DrainEnds, StartRun, EnqueueSteering, Respond, Acknowledge,
        Acknowledged, Interrupt, PersistSnapshot, Close, Free, Reserve, Release, Crash
  <1> QED  BY <1>1, <1>2, <1>3, <1>4, <1>5, <1>6, <1>7
    DEF Next, Intake, TurnStep

(* turn and phase keep their types.                                        *)
LEMMA TurnTypesStep ==
    ASSUME TurnTypes, Next
    PROVE  TurnTypes'
  <1>1. CASE UNCHANGED <<turn, phase>>
    BY <1>1 DEF TurnTypes, Turns, Phases, DrainPhases, RunPhases
  <1>2. ASSUME NEW r \in Requests, RunPromoted(r) PROVE TurnTypes'
    BY <1>2, RequestsAssumption DEF TurnTypes, RunPromoted, Enter, slot, Turns, Phases,
        DrainPhases, RunPhases
  <1>3. ASSUME NEW r \in Requests, QueueDrained(r) PROVE TurnTypes'
    BY <1>3, RequestsAssumption DEF TurnTypes, QueueDrained, Turns, Phases, DrainPhases,
        RunPhases
  <1>4. ASSUME NEW t \in MessageTurns, RegisterMessage(t) PROVE TurnTypes'
    BY <1>4, RequestsAssumption DEF TurnTypes, RegisterMessage, Enter, Turns, Phases,
        DrainPhases, RunPhases
  <1>5. ASSUME PlanMessage PROVE TurnTypes'
    BY <1>5, RequestsAssumption DEF TurnTypes, PlanMessage, Turns, Phases, DrainPhases,
        RunPhases
  <1>6. ASSUME PlanSteering PROVE TurnTypes'
    BY <1>6, RequestsAssumption DEF TurnTypes, PlanSteering, Leave, Turns, Phases,
        DrainPhases, RunPhases
  <1>7. ASSUME PlanFails PROVE TurnTypes'
    BY <1>7, RequestsAssumption DEF TurnTypes, PlanFails, Leave, Turns, Phases,
        DrainPhases, RunPhases
  <1>8. ASSUME ReadInbox PROVE TurnTypes'
    BY <1>8, RequestsAssumption DEF TurnTypes, ReadInbox, Turns, Phases, DrainPhases,
        RunPhases
  <1>9. ASSUME AddDrained PROVE TurnTypes'
    BY <1>9, RequestsAssumption DEF TurnTypes, AddDrained, Turns, Phases, DrainPhases,
        RunPhases
  <1>10. ASSUME Consume PROVE TurnTypes'
    BY <1>10, RequestsAssumption DEF TurnTypes, Consume, Turns, Phases, DrainPhases,
        RunPhases
  <1>11. ASSUME DrainEnds PROVE TurnTypes'
    BY <1>11, RequestsAssumption DEF TurnTypes, DrainEnds, Turns, Phases, DrainPhases,
        RunPhases
  <1>12. ASSUME StartRun PROVE TurnTypes'
    BY <1>12, RequestsAssumption DEF TurnTypes, StartRun, Turns, Phases, DrainPhases,
        RunPhases
  <1>13. ASSUME EnqueueSteering PROVE TurnTypes'
    BY <1>13, RequestsAssumption DEF TurnTypes, EnqueueSteering, Turns, Phases,
        DrainPhases, RunPhases
  <1>14. ASSUME Respond PROVE TurnTypes'
    BY <1>14, RequestsAssumption DEF TurnTypes, Respond, Turns, Phases, DrainPhases,
        RunPhases
  <1>15. ASSUME Acknowledge PROVE TurnTypes'
    BY <1>15, RequestsAssumption DEF TurnTypes, Acknowledge, Turns, Phases, DrainPhases,
        RunPhases
  <1>16. ASSUME Acknowledged PROVE TurnTypes'
    BY <1>16, RequestsAssumption DEF TurnTypes, Acknowledged, Turns, Phases,
        DrainPhases, RunPhases
  <1>17. ASSUME Interrupt PROVE TurnTypes'
    BY <1>17, RequestsAssumption DEF TurnTypes, Interrupt, Turns, Phases, DrainPhases,
        RunPhases
  <1>18. ASSUME PersistSnapshot PROVE TurnTypes'
    BY <1>18, RequestsAssumption DEF TurnTypes, PersistSnapshot, Turns, Phases,
        DrainPhases, RunPhases
  <1>19. ASSUME Close PROVE TurnTypes'
    BY <1>19, RequestsAssumption DEF TurnTypes, Close, Turns, Phases, DrainPhases,
        RunPhases
  <1>20. ASSUME Free PROVE TurnTypes'
    BY <1>20, RequestsAssumption DEF TurnTypes, Free, Leave, Turns, Phases, DrainPhases,
        RunPhases
  <1>21. ASSUME Crash PROVE TurnTypes'
    BY <1>21, RequestsAssumption DEF TurnTypes, Crash, Leave, Turns, Phases,
        DrainPhases, RunPhases
  <1>22. ASSUME NEW r \in Requests, Record(r) \/ StartDelivery(r) \/ Arrive(r)
              \/ Resolve(r) \/ AcceptSteering(r) \/ CreateSteering(r)
              \/ AddSteering(r) \/ QueueInInbox(r) \/ NoteOutcome(r)
       PROVE  UNCHANGED <<turn, phase>>
    BY <1>22 DEF Record, slot, StartDelivery, Arrive, Resolve, AcceptSteering,
        CreateSteering, AddSteering, QueueInInbox, NoteOutcome
  <1>23. ASSUME Reserve \/ Release PROVE UNCHANGED <<turn, phase>>
    BY <1>23 DEF Reserve, slot, Release
  <1> QED  BY <1>1, <1>2, <1>3, <1>4, <1>5, <1>6, <1>7, <1>8, <1>9, <1>10, <1>11, <1>12,
       <1>13, <1>14, <1>15, <1>16, <1>17, <1>18, <1>19, <1>20, <1>21, <1>22, <1>23
    DEF Next, Intake, TurnStep

(* todo and item keep their types.                                         *)
LEMMA DrainTypesStep ==
    ASSUME DrainTypes, Next
    PROVE  DrainTypes'
  <1>1. CASE UNCHANGED <<todo, item>>
    BY <1>1 DEF DrainTypes
  <1>2. ASSUME NEW r \in Requests, QueueDrained(r) PROVE DrainTypes'
    BY <1>2 DEF DrainTypes, QueueDrained
  <1>3. ASSUME ReadInbox PROVE DrainTypes'
    BY <1>3 DEF DrainTypes, ReadInbox
  <1>4. ASSUME Consume PROVE DrainTypes'
    BY <1>4 DEF DrainTypes, Consume
  <1>5. ASSUME DrainEnds PROVE DrainTypes'
    BY <1>5 DEF DrainTypes, DrainEnds
  <1>6. ASSUME Crash PROVE DrainTypes'
    BY <1>6 DEF DrainTypes, Crash
  <1>7. ASSUME NEW r \in Requests, Record(r) \/ StartDelivery(r) \/ Arrive(r)
              \/ Resolve(r) \/ AcceptSteering(r) \/ CreateSteering(r)
              \/ AddSteering(r) \/ QueueInInbox(r) \/ NoteOutcome(r)
              \/ RunPromoted(r)
       PROVE  UNCHANGED <<todo, item>>
    BY <1>7 DEF Record, draining, StartDelivery, Arrive, Resolve, AcceptSteering,
        CreateSteering, AddSteering, QueueInInbox, NoteOutcome, RunPromoted
  <1>8. ASSUME NEW t \in MessageTurns, RegisterMessage(t) PROVE UNCHANGED <<todo, item>>
    BY <1>8 DEF RegisterMessage, draining
  <1>9. ASSUME PlanMessage \/ PlanSteering \/ PlanFails \/ AddDrained \/ StartRun
              \/ EnqueueSteering \/ Respond \/ Acknowledge \/ Acknowledged
              \/ Interrupt \/ PersistSnapshot \/ Close \/ Free \/ Reserve \/ Release
       PROVE  UNCHANGED <<todo, item>>
    BY <1>9 DEF PlanMessage, draining, PlanSteering, PlanFails, AddDrained, StartRun,
        EnqueueSteering, Respond, Acknowledge, Acknowledged, Interrupt, PersistSnapshot,
        Close, Free, Reserve, Release
  <1> QED  BY <1>1, <1>2, <1>3, <1>4, <1>5, <1>6, <1>7, <1>8, <1>9
    DEF Next, Intake, TurnStep

(* Sets of ids stay sets of ids.                                           *)
LEMMA IdTypesStep ==
    ASSUME IdTypes, Next
    PROVE  IdTypes'
  <1>1. CASE UNCHANGED <<saved, inflight, consumed, said, heard, unsaved>>
    BY <1>1 DEF IdTypes
  <1>2. ASSUME NEW r \in Requests, RunPromoted(r) PROVE IdTypes'
    BY <1>2 DEF IdTypes, RunPromoted, Enter, rows, run, ghosts
  <1>3. ASSUME NEW t \in MessageTurns, RegisterMessage(t) PROVE IdTypes'
    BY <1>3 DEF IdTypes, RegisterMessage, Enter, rows, ghosts
  <1>4. ASSUME EnqueueSteering PROVE IdTypes'
    BY <1>4 DEF IdTypes, EnqueueSteering, rows, ghosts, PendingFor, Pending
  <1>5. ASSUME Respond PROVE IdTypes'
    BY <1>5 DEF IdTypes, Respond, rows, run
  <1>6. ASSUME Acknowledged PROVE IdTypes'
    BY <1>6 DEF IdTypes, Acknowledged, rows, ghosts, Pending
  <1>7. ASSUME PersistSnapshot PROVE IdTypes'
    BY <1>7 DEF IdTypes, PersistSnapshot, WithoutSteering, Pending, PendingFor
  <1>8. ASSUME Crash PROVE IdTypes'
    BY <1>8 DEF IdTypes, Crash, rows
  <1>9. ASSUME NEW r \in Requests, Record(r) \/ StartDelivery(r) \/ Arrive(r)
              \/ Resolve(r) \/ AcceptSteering(r) \/ CreateSteering(r)
              \/ AddSteering(r) \/ QueueInInbox(r) \/ NoteOutcome(r)
              \/ QueueDrained(r)
       PROVE  UNCHANGED <<saved, inflight, consumed, said, heard, unsaved>>
    BY <1>9 DEF Record, run, ghosts, StartDelivery, Arrive, rows, Resolve,
        AcceptSteering, CreateSteering, AddSteering, QueueInInbox, NoteOutcome,
        QueueDrained
  <1>10. ASSUME PlanMessage \/ PlanSteering \/ PlanFails \/ ReadInbox \/ AddDrained
              \/ Consume \/ DrainEnds \/ StartRun \/ Acknowledge \/ Interrupt
              \/ Close \/ Free \/ Reserve \/ Release
       PROVE  UNCHANGED <<saved, inflight, consumed, said, heard, unsaved>>
    BY <1>10 DEF PlanMessage, run, ghosts, PlanSteering, rows, PlanFails, ReadInbox,
        AddDrained, Consume, DrainEnds, StartRun, Acknowledge, Interrupt, Close, Free,
        Reserve, Release
  <1> QED  BY <1>1, <1>2, <1>3, <1>4, <1>5, <1>6, <1>7, <1>8, <1>9, <1>10
    DEF Next, Intake, TurnStep

(* Counters keep within their bounds.                                      *)
LEMMA CountTypesStep ==
    ASSUME CountTypes, Next
    PROVE  CountTypes'
  <1>1. CASE UNCHANGED <<rounds, crashes, faults>>
    BY <1>1 DEF CountTypes
  <1>2. ASSUME NEW r \in Requests, CreateSteering(r) PROVE CountTypes'
    BY <1>2, BoundsAssumption DEF CountTypes, CreateSteering, Fault, run, bounds
  <1>3. ASSUME NEW r \in Requests, QueueInInbox(r) PROVE CountTypes'
    BY <1>3, BoundsAssumption DEF CountTypes, QueueInInbox, Fault, run, bounds
  <1>4. ASSUME NEW r \in Requests, NoteOutcome(r) PROVE CountTypes'
    BY <1>4, BoundsAssumption DEF CountTypes, NoteOutcome, Fault, run, bounds
  <1>5. ASSUME NEW r \in Requests, RunPromoted(r) PROVE CountTypes'
    BY <1>5, BoundsAssumption DEF CountTypes, RunPromoted, Enter, run, bounds
  <1>6. ASSUME NEW t \in MessageTurns, RegisterMessage(t) PROVE CountTypes'
    BY <1>6, BoundsAssumption DEF CountTypes, RegisterMessage, Enter, bounds
  <1>7. ASSUME Consume PROVE CountTypes'
    BY <1>7, BoundsAssumption DEF CountTypes, Consume, Fault, run, bounds
  <1>8. ASSUME EnqueueSteering PROVE CountTypes'
    BY <1>8, BoundsAssumption DEF CountTypes, EnqueueSteering, bounds
  <1>9. ASSUME PersistSnapshot PROVE CountTypes'
    BY <1>9, BoundsAssumption DEF CountTypes, PersistSnapshot, Fault, bounds
  <1>10. ASSUME Crash PROVE CountTypes'
    BY <1>10, BoundsAssumption DEF CountTypes, Crash
  <1>11. ASSUME NEW r \in Requests, Record(r) \/ StartDelivery(r) \/ Arrive(r)
              \/ Resolve(r) \/ AcceptSteering(r) \/ AddSteering(r)
              \/ QueueDrained(r)
       PROVE  UNCHANGED <<rounds, crashes, faults>>
    BY <1>11 DEF Record, run, bounds, StartDelivery, Arrive, Resolve, AcceptSteering,
        AddSteering, QueueDrained
  <1>12. ASSUME PlanMessage \/ PlanSteering \/ PlanFails \/ ReadInbox \/ AddDrained
              \/ DrainEnds \/ StartRun \/ Respond \/ Acknowledge \/ Acknowledged
              \/ Interrupt \/ Close \/ Free \/ Reserve \/ Release
       PROVE  UNCHANGED <<rounds, crashes, faults>>
    BY <1>12 DEF PlanMessage, run, bounds, PlanSteering, PlanFails, ReadInbox,
        AddDrained, DrainEnds, StartRun, Respond, Acknowledge, Acknowledged, Interrupt,
        Close, Free, Reserve, Release
  <1> QED  BY <1>1, <1>2, <1>3, <1>4, <1>5, <1>6, <1>7, <1>8, <1>9, <1>10, <1>11, <1>12
    DEF Next, Intake, TurnStep

(* Every turn leaves the slot with its last phase.                         *)
LEMMA SlotKeptStep ==
    ASSUME SlotKept, Next
    PROVE  SlotKept'
  <1>1. CASE UNCHANGED <<turn, phase, item>>
    BY <1>1 DEF SlotKept, Turns, None, DrainPhases, RunPhases
  <1>2. ASSUME NEW r \in Requests, RunPromoted(r) PROVE SlotKept'
    BY <1>2, RequestsAssumption DEF SlotKept, RunPromoted, Enter, draining, slot, Turns,
        None, DrainPhases, RunPhases
  <1>3. ASSUME NEW r \in Requests, QueueDrained(r) PROVE SlotKept'
    BY <1>3, RequestsAssumption DEF SlotKept, QueueDrained, Turns, None, DrainPhases,
        RunPhases
  <1>4. ASSUME NEW t \in MessageTurns, RegisterMessage(t) PROVE SlotKept'
    BY <1>4, RequestsAssumption DEF SlotKept, RegisterMessage, Enter, draining, Turns,
        None, DrainPhases, RunPhases
  <1>5. ASSUME PlanMessage PROVE SlotKept'
    BY <1>5, RequestsAssumption DEF SlotKept, PlanMessage, draining, Turns, None,
        DrainPhases, RunPhases
  <1>6. ASSUME PlanSteering PROVE SlotKept'
    BY <1>6, RequestsAssumption DEF SlotKept, PlanSteering, Leave, draining, Turns,
        None, DrainPhases, RunPhases
  <1>7. ASSUME PlanFails PROVE SlotKept'
    BY <1>7, RequestsAssumption DEF SlotKept, PlanFails, Leave, draining, Turns, None,
        DrainPhases, RunPhases
  <1>8. ASSUME ReadInbox PROVE SlotKept'
    BY <1>8, RequestsAssumption DEF SlotKept, ReadInbox, Turns, None, DrainPhases,
        RunPhases
  <1>9. ASSUME AddDrained PROVE SlotKept'
    BY <1>9, RequestsAssumption DEF SlotKept, AddDrained, draining, Turns, None,
        DrainPhases, RunPhases
  <1>10. ASSUME Consume PROVE SlotKept'
    BY <1>10, RequestsAssumption DEF SlotKept, Consume, Turns, None, DrainPhases,
        RunPhases
  <1>11. ASSUME DrainEnds PROVE SlotKept'
    BY <1>11, RequestsAssumption DEF SlotKept, DrainEnds, Turns, None, DrainPhases,
        RunPhases
  <1>12. ASSUME StartRun PROVE SlotKept'
    BY <1>12, RequestsAssumption DEF SlotKept, StartRun, draining, Turns, None,
        DrainPhases, RunPhases
  <1>13. ASSUME EnqueueSteering PROVE SlotKept'
    BY <1>13, RequestsAssumption DEF SlotKept, EnqueueSteering, draining, Turns, None,
        DrainPhases, RunPhases
  <1>14. ASSUME Respond PROVE SlotKept'
    BY <1>14, RequestsAssumption DEF SlotKept, Respond, draining, Turns, None,
        DrainPhases, RunPhases
  <1>15. ASSUME Acknowledge PROVE SlotKept'
    BY <1>15, RequestsAssumption DEF SlotKept, Acknowledge, draining, Turns, None,
        DrainPhases, RunPhases
  <1>16. ASSUME Acknowledged PROVE SlotKept'
    BY <1>16, RequestsAssumption DEF SlotKept, Acknowledged, draining, Turns, None,
        DrainPhases, RunPhases
  <1>17. ASSUME Interrupt PROVE SlotKept'
    BY <1>17, RequestsAssumption DEF SlotKept, Interrupt, draining, Turns, None,
        DrainPhases, RunPhases
  <1>18. ASSUME PersistSnapshot PROVE SlotKept'
    BY <1>18, RequestsAssumption DEF SlotKept, PersistSnapshot, draining, Turns, None,
        DrainPhases, RunPhases
  <1>19. ASSUME Close PROVE SlotKept'
    BY <1>19, RequestsAssumption DEF SlotKept, Close, draining, Turns, None,
        DrainPhases, RunPhases
  <1>20. ASSUME Free PROVE SlotKept'
    BY <1>20, RequestsAssumption DEF SlotKept, Free, Leave, draining, Turns, None,
        DrainPhases, RunPhases
  <1>21. ASSUME Crash PROVE SlotKept'
    BY <1>21, RequestsAssumption DEF SlotKept, Crash, Leave, Turns, None, DrainPhases,
        RunPhases
  <1>22. ASSUME NEW r \in Requests, Record(r) \/ StartDelivery(r) \/ Arrive(r)
              \/ Resolve(r) \/ AcceptSteering(r) \/ CreateSteering(r)
              \/ AddSteering(r) \/ QueueInInbox(r) \/ NoteOutcome(r)
       PROVE  UNCHANGED <<turn, phase, item>>
    BY <1>22 DEF Record, draining, slot, StartDelivery, Arrive, Resolve, AcceptSteering,
        CreateSteering, AddSteering, QueueInInbox, NoteOutcome
  <1>23. ASSUME Reserve \/ Release PROVE UNCHANGED <<turn, phase, item>>
    BY <1>23 DEF Reserve, draining, slot, Release
  <1> QED  BY <1>1, <1>2, <1>3, <1>4, <1>5, <1>6, <1>7, <1>8, <1>9, <1>10, <1>11, <1>12,
       <1>13, <1>14, <1>15, <1>16, <1>17, <1>18, <1>19, <1>20, <1>21, <1>22, <1>23
    DEF Next, Intake, TurnStep

(* Every way to an outcome gives one.                                      *)
LEMMA OutcomeAnsweredStep ==
    ASSUME OutcomeAnswered, PlaceTypes, AnswerTypes, Next
    PROVE  OutcomeAnswered'
  <1>1. CASE UNCHANGED <<pc, answer>>
    BY <1>1 DEF OutcomeAnswered, Hows
  <1>2. ASSUME NEW r \in Requests, Record(r) PROVE OutcomeAnswered'
    BY <1>2 DEF OutcomeAnswered, PlaceTypes, AnswerTypes, Record, Goto, Hows
  <1>3. ASSUME NEW r \in Requests, StartDelivery(r) PROVE OutcomeAnswered'
    BY <1>3 DEF OutcomeAnswered, PlaceTypes, AnswerTypes, StartDelivery, Goto, Hows
  <1>4. ASSUME NEW r \in Requests, Arrive(r) PROVE OutcomeAnswered'
    BY <1>4 DEF OutcomeAnswered, PlaceTypes, AnswerTypes, Arrive, Goto, Hows
  <1>5. ASSUME NEW r \in Requests, Resolve(r) PROVE OutcomeAnswered'
    BY <1>5 DEF OutcomeAnswered, PlaceTypes, AnswerTypes, Resolve, Goto, Hows
  <1>6. ASSUME NEW r \in Requests, AcceptSteering(r) PROVE OutcomeAnswered'
    BY <1>6 DEF OutcomeAnswered, PlaceTypes, AnswerTypes, AcceptSteering, Goto, Answer,
        Refused, Reported, Hows
  <1>7. ASSUME NEW r \in Requests, CreateSteering(r) PROVE OutcomeAnswered'
    BY <1>7 DEF OutcomeAnswered, PlaceTypes, AnswerTypes, CreateSteering, Goto, Answer,
        Reported, Hows
  <1>8. ASSUME NEW r \in Requests, AddSteering(r) PROVE OutcomeAnswered'
    BY <1>8 DEF OutcomeAnswered, PlaceTypes, AnswerTypes, AddSteering, Goto, Reported,
        Hows
  <1>9. ASSUME NEW r \in Requests, QueueInInbox(r) PROVE OutcomeAnswered'
    BY <1>9 DEF OutcomeAnswered, PlaceTypes, AnswerTypes, QueueInInbox, Goto, Answer,
        Reported, Hows
  <1>10. ASSUME NEW r \in Requests, NoteOutcome(r) PROVE OutcomeAnswered'
    BY <1>10 DEF OutcomeAnswered, PlaceTypes, AnswerTypes, NoteOutcome, Goto, Hows
  <1>11. ASSUME Crash PROVE OutcomeAnswered'
    BY <1>11 DEF OutcomeAnswered, PlaceTypes, AnswerTypes, Crash, Hows
  <1>12. ASSUME NEW r \in Requests, RunPromoted(r) \/ QueueDrained(r)
       PROVE  UNCHANGED <<pc, answer>>
    BY <1>12 DEF RunPromoted, intake, QueueDrained
  <1>13. ASSUME NEW t \in MessageTurns, RegisterMessage(t)
       PROVE  UNCHANGED <<pc, answer>>
    BY <1>13 DEF RegisterMessage, intake
  <1>14. ASSUME PlanMessage \/ PlanSteering \/ PlanFails \/ ReadInbox \/ AddDrained
              \/ Consume \/ DrainEnds \/ StartRun \/ EnqueueSteering \/ Respond
              \/ Acknowledge \/ Acknowledged \/ Interrupt \/ PersistSnapshot
              \/ Close \/ Free \/ Reserve \/ Release
       PROVE  UNCHANGED <<pc, answer>>
    BY <1>14 DEF PlanMessage, intake, PlanSteering, PlanFails, ReadInbox, AddDrained,
        Consume, DrainEnds, StartRun, EnqueueSteering, Respond, Acknowledge,
        Acknowledged, Interrupt, PersistSnapshot, Close, Free, Reserve, Release
  <1> QED  BY <1>1, <1>2, <1>3, <1>4, <1>5, <1>6, <1>7, <1>8, <1>9, <1>10, <1>11, <1>12,
       <1>13, <1>14
    DEF Next, Intake, TurnStep

(* A waiting message leaves the inbox for the steering and is then marked, *)
(* never removed.                                                          *)
LEMMA InboxFirstStep ==
    ASSUME InboxFirst, MarkTypes, InboxTypes, DrainTypes, SlotKept, ConsumedPending,
          MemBehindRow, Next
    PROVE  InboxFirst'
  <1>1. CASE UNCHANGED <<row, inbox, todo, phase, item>>
    BY <1>1 DEF InboxFirst, DrainPhases, RunPhases, None, Marks
  <1>2. ASSUME NEW r \in Requests, CreateSteering(r) PROVE InboxFirst'
    BY <1>2, IdNames DEF InboxFirst, MarkTypes, InboxTypes, DrainTypes, SlotKept,
        ConsumedPending, MemBehindRow, CreateSteering, draining, slot, DrainPhases,
        RunPhases, None, Marks
  <1>3. ASSUME NEW r \in Requests, QueueInInbox(r) PROVE InboxFirst'
    BY <1>3, IdNames DEF InboxFirst, MarkTypes, InboxTypes, DrainTypes, SlotKept,
        ConsumedPending, MemBehindRow, QueueInInbox, draining, slot, DrainPhases,
        RunPhases, None, Marks
  <1>4. ASSUME NEW r \in Requests, RunPromoted(r) PROVE InboxFirst'
    BY <1>4, IdNames DEF InboxFirst, MarkTypes, InboxTypes, DrainTypes, SlotKept,
        ConsumedPending, MemBehindRow, RunPromoted, Enter, rows, draining, slot,
        DrainPhases, RunPhases, None, Marks
  <1>5. ASSUME NEW r \in Requests, QueueDrained(r) PROVE InboxFirst'
    BY <1>5, IdNames DEF InboxFirst, MarkTypes, InboxTypes, DrainTypes, SlotKept,
        ConsumedPending, MemBehindRow, QueueDrained, DrainPhases, RunPhases, None, Marks
  <1>6. ASSUME NEW t \in MessageTurns, RegisterMessage(t) PROVE InboxFirst'
    BY <1>6, IdNames DEF InboxFirst, MarkTypes, InboxTypes, DrainTypes, SlotKept,
        ConsumedPending, MemBehindRow, RegisterMessage, Enter, rows, draining,
        DrainPhases, RunPhases, None, Marks
  <1>7. ASSUME PlanMessage PROVE InboxFirst'
    BY <1>7, IdNames DEF InboxFirst, MarkTypes, InboxTypes, DrainTypes, SlotKept,
        ConsumedPending, MemBehindRow, PlanMessage, draining, DrainPhases, RunPhases,
        None, Marks
  <1>8. ASSUME PlanSteering PROVE InboxFirst'
    BY <1>8, IdNames DEF InboxFirst, MarkTypes, InboxTypes, DrainTypes, SlotKept,
        ConsumedPending, MemBehindRow, PlanSteering, Leave, rows, draining, DrainPhases,
        RunPhases, None, Marks
  <1>9. ASSUME PlanFails PROVE InboxFirst'
    BY <1>9, IdNames DEF InboxFirst, MarkTypes, InboxTypes, DrainTypes, SlotKept,
        ConsumedPending, MemBehindRow, PlanFails, Leave, rows, draining, DrainPhases,
        RunPhases, None, Marks
  <1>10. ASSUME ReadInbox PROVE InboxFirst'
    BY <1>10, IdNames DEF InboxFirst, MarkTypes, InboxTypes, DrainTypes, SlotKept,
        ConsumedPending, MemBehindRow, ReadInbox, rows, DrainPhases, RunPhases, None,
        Marks
  <1>11. ASSUME AddDrained PROVE InboxFirst'
    BY <1>11, IdNames DEF InboxFirst, MarkTypes, InboxTypes, DrainTypes, SlotKept,
        ConsumedPending, MemBehindRow, AddDrained, rows, draining, DrainPhases,
        RunPhases, None, Marks
  <1>12. ASSUME Consume PROVE InboxFirst'
    BY <1>12, IdNames DEF InboxFirst, MarkTypes, InboxTypes, DrainTypes, SlotKept,
        ConsumedPending, MemBehindRow, Consume, DrainPhases, RunPhases, None, Marks
  <1>13. ASSUME DrainEnds PROVE InboxFirst'
    BY <1>13, IdNames DEF InboxFirst, MarkTypes, InboxTypes, DrainTypes, SlotKept,
        ConsumedPending, MemBehindRow, DrainEnds, rows, DrainPhases, RunPhases, None,
        Marks
  <1>14. ASSUME StartRun PROVE InboxFirst'
    BY <1>14, IdNames DEF InboxFirst, MarkTypes, InboxTypes, DrainTypes, SlotKept,
        ConsumedPending, MemBehindRow, StartRun, rows, draining, DrainPhases, RunPhases,
        None, Marks
  <1>15. ASSUME EnqueueSteering PROVE InboxFirst'
    BY <1>15, IdNames DEF InboxFirst, MarkTypes, InboxTypes, DrainTypes, SlotKept,
        ConsumedPending, MemBehindRow, EnqueueSteering, rows, draining, Pending,
        DrainPhases, RunPhases, None, Marks
  <1>16. ASSUME Respond PROVE InboxFirst'
    BY <1>16, IdNames DEF InboxFirst, MarkTypes, InboxTypes, DrainTypes, SlotKept,
        ConsumedPending, MemBehindRow, Respond, rows, draining, DrainPhases, RunPhases,
        None, Marks
  <1>17. ASSUME Acknowledge PROVE InboxFirst'
    BY <1>17, IdNames DEF InboxFirst, MarkTypes, InboxTypes, DrainTypes, SlotKept,
        ConsumedPending, MemBehindRow, Acknowledge, draining, Consumed, Pending,
        DrainPhases, RunPhases, None, Marks
  <1>18. ASSUME Acknowledged PROVE InboxFirst'
    BY <1>18, IdNames DEF InboxFirst, MarkTypes, InboxTypes, DrainTypes, SlotKept,
        ConsumedPending, MemBehindRow, Acknowledged, rows, draining, Consumed, Pending,
        DrainPhases, RunPhases, None, Marks
  <1>19. ASSUME Interrupt PROVE InboxFirst'
    BY <1>19, IdNames DEF InboxFirst, MarkTypes, InboxTypes, DrainTypes, SlotKept,
        ConsumedPending, MemBehindRow, Interrupt, rows, draining, DrainPhases,
        RunPhases, None, Marks
  <1>20. ASSUME PersistSnapshot PROVE InboxFirst'
    BY <1>20, IdNames DEF InboxFirst, MarkTypes, InboxTypes, DrainTypes, SlotKept,
        ConsumedPending, MemBehindRow, PersistSnapshot, draining, Pending, DrainPhases,
        RunPhases, None, Marks
  <1>21. ASSUME Close PROVE InboxFirst'
    BY <1>21, IdNames DEF InboxFirst, MarkTypes, InboxTypes, DrainTypes, SlotKept,
        ConsumedPending, MemBehindRow, Close, rows, draining, DrainPhases, RunPhases,
        None, Marks
  <1>22. ASSUME Free PROVE InboxFirst'
    BY <1>22, IdNames DEF InboxFirst, MarkTypes, InboxTypes, DrainTypes, SlotKept,
        ConsumedPending, MemBehindRow, Free, Leave, rows, draining, DrainPhases,
        RunPhases, None, Marks
  <1>23. ASSUME Crash PROVE InboxFirst'
    BY <1>23, IdNames DEF InboxFirst, MarkTypes, InboxTypes, DrainTypes, SlotKept,
        ConsumedPending, MemBehindRow, Crash, Leave, rows, DrainPhases, RunPhases, None,
        Marks
  <1>24. ASSUME NEW r \in Requests, Record(r) \/ StartDelivery(r) \/ Arrive(r)
              \/ Resolve(r) \/ AcceptSteering(r) \/ AddSteering(r) \/ NoteOutcome(r)
       PROVE  UNCHANGED <<row, inbox, todo, phase, item>>
    BY <1>24 DEF Record, draining, slot, StartDelivery, Arrive, rows, Resolve,
        AcceptSteering, AddSteering, NoteOutcome
  <1>25. ASSUME Reserve \/ Release PROVE UNCHANGED <<row, inbox, todo, phase, item>>
    BY <1>25 DEF Reserve, rows, draining, slot, Release
  <1> QED  BY <1>1, <1>2, <1>3, <1>4, <1>5, <1>6, <1>7, <1>8, <1>9, <1>10, <1>11, <1>12,
       <1>13, <1>14, <1>15, <1>16, <1>17, <1>18, <1>19, <1>20, <1>21, <1>22, <1>23,
       <1>24, <1>25
    DEF Next, Intake, TurnStep

(* Every request writes once, and the row before the context.              *)
LEMMA FreshStep ==
    ASSUME Fresh, PlaceTypes, MarkTypes, InboxTypes, DrainTypes, SlotKept,
          ConsumedPending, MemBehindRow, InboxFirst, Next
    PROVE  Fresh'
  <1>1. CASE UNCHANGED <<pc, row, inbox, mem, phase, item>>
    BY <1>1 DEF Fresh, Untaken, DrainPhases, RunPhases, None, Marks
  <1>2. ASSUME NEW r \in Requests, Record(r) PROVE Fresh'
    BY <1>2, IdNames DEF Fresh, PlaceTypes, MarkTypes, InboxTypes, DrainTypes, SlotKept,
        ConsumedPending, MemBehindRow, InboxFirst, Record, Goto, draining, slot,
        Untaken, DrainPhases, RunPhases, None, Marks
  <1>3. ASSUME NEW r \in Requests, StartDelivery(r) PROVE Fresh'
    BY <1>3, IdNames DEF Fresh, PlaceTypes, MarkTypes, InboxTypes, DrainTypes, SlotKept,
        ConsumedPending, MemBehindRow, InboxFirst, StartDelivery, Goto, draining, slot,
        Untaken, DrainPhases, RunPhases, None, Marks
  <1>4. ASSUME NEW r \in Requests, Arrive(r) PROVE Fresh'
    BY <1>4, IdNames DEF Fresh, PlaceTypes, MarkTypes, InboxTypes, DrainTypes, SlotKept,
        ConsumedPending, MemBehindRow, InboxFirst, Arrive, Goto, rows, draining, slot,
        Untaken, DrainPhases, RunPhases, None, Marks
  <1>5. ASSUME NEW r \in Requests, Resolve(r) PROVE Fresh'
    BY <1>5, IdNames DEF Fresh, PlaceTypes, MarkTypes, InboxTypes, DrainTypes, SlotKept,
        ConsumedPending, MemBehindRow, InboxFirst, Resolve, Goto, rows, draining, slot,
        Untaken, DrainPhases, RunPhases, None, Marks
  <1>6. ASSUME NEW r \in Requests, AcceptSteering(r) PROVE Fresh'
    BY <1>6, IdNames DEF Fresh, PlaceTypes, MarkTypes, InboxTypes, DrainTypes, SlotKept,
        ConsumedPending, MemBehindRow, InboxFirst, AcceptSteering, Goto, rows, draining,
        slot, Refused, Reported, Untaken, DrainPhases, RunPhases, None, Marks
  <1>7. ASSUME NEW r \in Requests, CreateSteering(r) PROVE Fresh'
    BY <1>7, IdNames DEF Fresh, PlaceTypes, MarkTypes, InboxTypes, DrainTypes, SlotKept,
        ConsumedPending, MemBehindRow, InboxFirst, CreateSteering, Goto, draining, slot,
        Reported, Untaken, DrainPhases, RunPhases, None, Marks
  <1>8. ASSUME NEW r \in Requests, AddSteering(r) PROVE Fresh'
    BY <1>8, IdNames DEF Fresh, PlaceTypes, MarkTypes, InboxTypes, DrainTypes, SlotKept,
        ConsumedPending, MemBehindRow, InboxFirst, AddSteering, Goto, rows, draining,
        slot, Reported, Untaken, DrainPhases, RunPhases, None, Marks
  <1>9. ASSUME NEW r \in Requests, QueueInInbox(r) PROVE Fresh'
    BY <1>9, IdNames DEF Fresh, PlaceTypes, MarkTypes, InboxTypes, DrainTypes, SlotKept,
        ConsumedPending, MemBehindRow, InboxFirst, QueueInInbox, Goto, draining, slot,
        Reported, Untaken, DrainPhases, RunPhases, None, Marks
  <1>10. ASSUME NEW r \in Requests, NoteOutcome(r) PROVE Fresh'
    BY <1>10, IdNames DEF Fresh, PlaceTypes, MarkTypes, InboxTypes, DrainTypes,
        SlotKept, ConsumedPending, MemBehindRow, InboxFirst, NoteOutcome, Goto,
        draining, slot, Untaken, DrainPhases, RunPhases, None, Marks
  <1>11. ASSUME NEW r \in Requests, RunPromoted(r) PROVE Fresh'
    BY <1>11, IdNames DEF Fresh, PlaceTypes, MarkTypes, InboxTypes, DrainTypes,
        SlotKept, ConsumedPending, MemBehindRow, InboxFirst, RunPromoted, Enter, rows,
        intake, draining, slot, Untaken, DrainPhases, RunPhases, None, Marks
  <1>12. ASSUME NEW r \in Requests, QueueDrained(r) PROVE Fresh'
    BY <1>12, IdNames DEF Fresh, PlaceTypes, MarkTypes, InboxTypes, DrainTypes,
        SlotKept, ConsumedPending, MemBehindRow, InboxFirst, QueueDrained, intake,
        Untaken, DrainPhases, RunPhases, None, Marks
  <1>13. ASSUME NEW t \in MessageTurns, RegisterMessage(t) PROVE Fresh'
    BY <1>13, IdNames DEF Fresh, PlaceTypes, MarkTypes, InboxTypes, DrainTypes,
        SlotKept, ConsumedPending, MemBehindRow, InboxFirst, RegisterMessage, Enter,
        rows, intake, draining, Untaken, DrainPhases, RunPhases, None, Marks
  <1>14. ASSUME PlanMessage PROVE Fresh'
    BY <1>14, IdNames DEF Fresh, PlaceTypes, MarkTypes, InboxTypes, DrainTypes,
        SlotKept, ConsumedPending, MemBehindRow, InboxFirst, PlanMessage, intake,
        draining, Untaken, DrainPhases, RunPhases, None, Marks
  <1>15. ASSUME PlanSteering PROVE Fresh'
    BY <1>15, IdNames DEF Fresh, PlaceTypes, MarkTypes, InboxTypes, DrainTypes,
        SlotKept, ConsumedPending, MemBehindRow, InboxFirst, PlanSteering, Leave, rows,
        intake, draining, Untaken, DrainPhases, RunPhases, None, Marks
  <1>16. ASSUME PlanFails PROVE Fresh'
    BY <1>16, IdNames DEF Fresh, PlaceTypes, MarkTypes, InboxTypes, DrainTypes,
        SlotKept, ConsumedPending, MemBehindRow, InboxFirst, PlanFails, Leave, rows,
        intake, draining, Untaken, DrainPhases, RunPhases, None, Marks
  <1>17. ASSUME ReadInbox PROVE Fresh'
    BY <1>17, IdNames DEF Fresh, PlaceTypes, MarkTypes, InboxTypes, DrainTypes,
        SlotKept, ConsumedPending, MemBehindRow, InboxFirst, ReadInbox, rows, intake,
        Untaken, DrainPhases, RunPhases, None, Marks
  <1>18. ASSUME AddDrained PROVE Fresh'
    BY <1>18, IdNames DEF Fresh, PlaceTypes, MarkTypes, InboxTypes, DrainTypes,
        SlotKept, ConsumedPending, MemBehindRow, InboxFirst, AddDrained, rows, intake,
        draining, Untaken, DrainPhases, RunPhases, None, Marks
  <1>19. ASSUME Consume PROVE Fresh'
    BY <1>19, IdNames DEF Fresh, PlaceTypes, MarkTypes, InboxTypes, DrainTypes,
        SlotKept, ConsumedPending, MemBehindRow, InboxFirst, Consume, intake, Untaken,
        DrainPhases, RunPhases, None, Marks
  <1>20. ASSUME DrainEnds PROVE Fresh'
    BY <1>20, IdNames DEF Fresh, PlaceTypes, MarkTypes, InboxTypes, DrainTypes,
        SlotKept, ConsumedPending, MemBehindRow, InboxFirst, DrainEnds, rows, intake,
        Untaken, DrainPhases, RunPhases, None, Marks
  <1>21. ASSUME StartRun PROVE Fresh'
    BY <1>21, IdNames DEF Fresh, PlaceTypes, MarkTypes, InboxTypes, DrainTypes,
        SlotKept, ConsumedPending, MemBehindRow, InboxFirst, StartRun, rows, intake,
        draining, Untaken, DrainPhases, RunPhases, None, Marks
  <1>22. ASSUME EnqueueSteering PROVE Fresh'
    BY <1>22, IdNames DEF Fresh, PlaceTypes, MarkTypes, InboxTypes, DrainTypes,
        SlotKept, ConsumedPending, MemBehindRow, InboxFirst, EnqueueSteering, rows,
        intake, draining, Pending, Untaken, DrainPhases, RunPhases, None, Marks
  <1>23. ASSUME Respond PROVE Fresh'
    BY <1>23, IdNames DEF Fresh, PlaceTypes, MarkTypes, InboxTypes, DrainTypes,
        SlotKept, ConsumedPending, MemBehindRow, InboxFirst, Respond, rows, intake,
        draining, Untaken, DrainPhases, RunPhases, None, Marks
  <1>24. ASSUME Acknowledge PROVE Fresh'
    BY <1>24, IdNames DEF Fresh, PlaceTypes, MarkTypes, InboxTypes, DrainTypes,
        SlotKept, ConsumedPending, MemBehindRow, InboxFirst, Acknowledge, intake,
        draining, Consumed, Pending, Untaken, DrainPhases, RunPhases, None, Marks
  <1>25. ASSUME Acknowledged PROVE Fresh'
    BY <1>25, IdNames DEF Fresh, PlaceTypes, MarkTypes, InboxTypes, DrainTypes,
        SlotKept, ConsumedPending, MemBehindRow, InboxFirst, Acknowledged, rows, intake,
        draining, Consumed, Pending, Untaken, DrainPhases, RunPhases, None, Marks
  <1>26. ASSUME Interrupt PROVE Fresh'
    BY <1>26, IdNames DEF Fresh, PlaceTypes, MarkTypes, InboxTypes, DrainTypes,
        SlotKept, ConsumedPending, MemBehindRow, InboxFirst, Interrupt, rows, intake,
        draining, Untaken, DrainPhases, RunPhases, None, Marks
  <1>27. ASSUME PersistSnapshot PROVE Fresh'
    BY <1>27, IdNames DEF Fresh, PlaceTypes, MarkTypes, InboxTypes, DrainTypes,
        SlotKept, ConsumedPending, MemBehindRow, InboxFirst, PersistSnapshot, intake,
        draining, Pending, Untaken, DrainPhases, RunPhases, None, Marks
  <1>28. ASSUME Close PROVE Fresh'
    BY <1>28, IdNames DEF Fresh, PlaceTypes, MarkTypes, InboxTypes, DrainTypes,
        SlotKept, ConsumedPending, MemBehindRow, InboxFirst, Close, rows, intake,
        draining, Untaken, DrainPhases, RunPhases, None, Marks
  <1>29. ASSUME Free PROVE Fresh'
    BY <1>29, IdNames DEF Fresh, PlaceTypes, MarkTypes, InboxTypes, DrainTypes,
        SlotKept, ConsumedPending, MemBehindRow, InboxFirst, Free, Leave, rows, intake,
        draining, Untaken, DrainPhases, RunPhases, None, Marks
  <1>30. ASSUME Crash PROVE Fresh'
    BY <1>30, IdNames DEF Fresh, PlaceTypes, MarkTypes, InboxTypes, DrainTypes,
        SlotKept, ConsumedPending, MemBehindRow, InboxFirst, Crash, Leave, rows,
        Untaken, DrainPhases, RunPhases, None, Marks
  <1>31. ASSUME Reserve \/ Release PROVE UNCHANGED <<pc, row, inbox, mem, phase, item>>
    BY <1>31 DEF Reserve, rows, intake, draining, slot, Release
  <1> QED  BY <1>1, <1>2, <1>3, <1>4, <1>5, <1>6, <1>7, <1>8, <1>9, <1>10, <1>11, <1>12,
       <1>13, <1>14, <1>15, <1>16, <1>17, <1>18, <1>19, <1>20, <1>21, <1>22, <1>23,
       <1>24, <1>25, <1>26, <1>27, <1>28, <1>29, <1>30, <1>31
    DEF Next, Intake, TurnStep

(* Rows are written before the cached context, and a restart reads them.   *)
LEMMA MemBehindRowStep ==
    ASSUME MemBehindRow, MarkTypes, Fresh, SlotKept, DrainTypes, ConsumedPending,
          AckHeard, Next
    PROVE  MemBehindRow'
  <1>1. CASE UNCHANGED <<row, mem>>
    BY <1>1 DEF MemBehindRow, None, Marks, Untaken
  <1>2. ASSUME NEW r \in Requests, CreateSteering(r) PROVE MemBehindRow'
    BY <1>2, IdNames DEF MemBehindRow, MarkTypes, Fresh, SlotKept, DrainTypes,
        ConsumedPending, AckHeard, CreateSteering, None, Marks, Untaken
  <1>3. ASSUME NEW r \in Requests, AddSteering(r) PROVE MemBehindRow'
    BY <1>3, IdNames DEF MemBehindRow, MarkTypes, Fresh, SlotKept, DrainTypes,
        ConsumedPending, AckHeard, AddSteering, rows, None, Marks, Untaken
  <1>4. ASSUME NEW r \in Requests, QueueDrained(r) PROVE MemBehindRow'
    BY <1>4, IdNames DEF MemBehindRow, MarkTypes, Fresh, SlotKept, DrainTypes,
        ConsumedPending, AckHeard, QueueDrained, None, Marks, Untaken
  <1>5. ASSUME AddDrained PROVE MemBehindRow'
    BY <1>5, IdNames DEF MemBehindRow, MarkTypes, Fresh, SlotKept, DrainTypes,
        ConsumedPending, AckHeard, AddDrained, rows, None, Marks, Untaken
  <1>6. ASSUME Acknowledge PROVE MemBehindRow'
    BY <1>6, IdNames DEF MemBehindRow, MarkTypes, Fresh, SlotKept, DrainTypes,
        ConsumedPending, AckHeard, Acknowledge, Consumed, Pending, None, Marks, Untaken
  <1>7. ASSUME Acknowledged PROVE MemBehindRow'
    BY <1>7, IdNames DEF MemBehindRow, MarkTypes, Fresh, SlotKept, DrainTypes,
        ConsumedPending, AckHeard, Acknowledged, rows, Consumed, Pending, None, Marks,
        Untaken
  <1>8. ASSUME Crash PROVE MemBehindRow'
    BY <1>8, IdNames DEF MemBehindRow, MarkTypes, Fresh, SlotKept, DrainTypes,
        ConsumedPending, AckHeard, Crash, rows, None, Marks, Untaken
  <1>9. ASSUME NEW r \in Requests, Record(r) \/ StartDelivery(r) \/ Arrive(r)
              \/ Resolve(r) \/ AcceptSteering(r) \/ QueueInInbox(r)
              \/ NoteOutcome(r) \/ RunPromoted(r)
       PROVE  UNCHANGED <<row, mem>>
    BY <1>9 DEF Record, StartDelivery, Arrive, rows, Resolve, AcceptSteering,
        QueueInInbox, NoteOutcome, RunPromoted
  <1>10. ASSUME NEW t \in MessageTurns, RegisterMessage(t) PROVE UNCHANGED <<row, mem>>
    BY <1>10 DEF RegisterMessage, rows
  <1>11. ASSUME PlanMessage \/ PlanSteering \/ PlanFails \/ ReadInbox \/ Consume
              \/ DrainEnds \/ StartRun \/ EnqueueSteering \/ Respond \/ Interrupt
              \/ PersistSnapshot \/ Close \/ Free \/ Reserve \/ Release
       PROVE  UNCHANGED <<row, mem>>
    BY <1>11 DEF PlanMessage, PlanSteering, rows, PlanFails, ReadInbox, Consume,
        DrainEnds, StartRun, EnqueueSteering, Respond, Interrupt, PersistSnapshot,
        Close, Free, Reserve, Release
  <1> QED  BY <1>1, <1>2, <1>3, <1>4, <1>5, <1>6, <1>7, <1>8, <1>9, <1>10, <1>11
    DEF Next, Intake, TurnStep

(* A request that writes has written nothing.                              *)
LEMMA OneCopyStep ==
    ASSUME OneCopy, MarkTypes, InboxTypes, Fresh, InboxFirst, SlotKept, ConsumedPending,
          MemBehindRow, Next
    PROVE  OneCopy'
  <1>1. CASE UNCHANGED <<row, inbox>>
    BY <1>1 DEF OneCopy, None, Marks, Untaken
  <1>2. ASSUME NEW r \in Requests, CreateSteering(r) PROVE OneCopy'
    BY <1>2, IdNames DEF OneCopy, MarkTypes, InboxTypes, Fresh, InboxFirst, SlotKept,
        ConsumedPending, MemBehindRow, CreateSteering, None, Marks, Untaken
  <1>3. ASSUME NEW r \in Requests, QueueInInbox(r) PROVE OneCopy'
    BY <1>3, IdNames DEF OneCopy, MarkTypes, InboxTypes, Fresh, InboxFirst, SlotKept,
        ConsumedPending, MemBehindRow, QueueInInbox, None, Marks, Untaken
  <1>4. ASSUME NEW r \in Requests, QueueDrained(r) PROVE OneCopy'
    BY <1>4, IdNames DEF OneCopy, MarkTypes, InboxTypes, Fresh, InboxFirst, SlotKept,
        ConsumedPending, MemBehindRow, QueueDrained, None, Marks, Untaken
  <1>5. ASSUME Consume PROVE OneCopy'
    BY <1>5, IdNames DEF OneCopy, MarkTypes, InboxTypes, Fresh, InboxFirst, SlotKept,
        ConsumedPending, MemBehindRow, Consume, None, Marks, Untaken
  <1>6. ASSUME Acknowledge PROVE OneCopy'
    BY <1>6, IdNames DEF OneCopy, MarkTypes, InboxTypes, Fresh, InboxFirst, SlotKept,
        ConsumedPending, MemBehindRow, Acknowledge, Consumed, Pending, None, Marks,
        Untaken
  <1>7. ASSUME NEW r \in Requests, Record(r) \/ StartDelivery(r) \/ Arrive(r)
              \/ Resolve(r) \/ AcceptSteering(r) \/ AddSteering(r) \/ NoteOutcome(r)
              \/ RunPromoted(r)
       PROVE  UNCHANGED <<row, inbox>>
    BY <1>7 DEF Record, StartDelivery, Arrive, rows, Resolve, AcceptSteering,
        AddSteering, NoteOutcome, RunPromoted
  <1>8. ASSUME NEW t \in MessageTurns, RegisterMessage(t) PROVE UNCHANGED <<row, inbox>>
    BY <1>8 DEF RegisterMessage, rows
  <1>9. ASSUME PlanMessage \/ PlanSteering \/ PlanFails \/ ReadInbox \/ AddDrained
              \/ DrainEnds \/ StartRun \/ EnqueueSteering \/ Respond \/ Acknowledged
              \/ Interrupt \/ PersistSnapshot \/ Close \/ Free \/ Reserve \/ Release
              \/ Crash
       PROVE  UNCHANGED <<row, inbox>>
    BY <1>9 DEF PlanMessage, PlanSteering, rows, PlanFails, ReadInbox, AddDrained,
        DrainEnds, StartRun, EnqueueSteering, Respond, Acknowledged, Interrupt,
        PersistSnapshot, Close, Free, Reserve, Release, Crash
  <1> QED  BY <1>1, <1>2, <1>3, <1>4, <1>5, <1>6, <1>7, <1>8, <1>9
    DEF Next, Intake, TurnStep

(* A start is noted once for each event, under the lock of its row, before *)
(* anything is taken.                                                      *)
LEMMA ClaimedStep ==
    ASSUME Claimed, DeliveryTypes, PlaceTypes, MarkTypes, InboxTypes, AnswerTypes,
          OutcomeAnswered, Fresh, InboxFirst, SlotKept, DrainTypes, ConsumedPending,
          MemBehindRow, Next
    PROVE  Claimed'
  <1>1. CASE UNCHANGED <<delivery, pc, row, inbox>>
    BY <1>1 DEF Claimed, None, Marks, Untaken, Begun, Posts, Hows
  <1>2. ASSUME NEW r \in Requests, Record(r) PROVE Claimed'
    BY <1>2, IdNames, RequestsAssumption DEF Claimed, DeliveryTypes, PlaceTypes,
        MarkTypes, InboxTypes, AnswerTypes, OutcomeAnswered, Fresh, InboxFirst,
        SlotKept, DrainTypes, ConsumedPending, MemBehindRow, Record, Goto, None, Marks,
        Untaken, Begun, Posts, Hows
  <1>3. ASSUME NEW r \in Requests, StartDelivery(r) PROVE Claimed'
    BY <1>3, IdNames, RequestsAssumption DEF Claimed, DeliveryTypes, PlaceTypes,
        MarkTypes, InboxTypes, AnswerTypes, OutcomeAnswered, Fresh, InboxFirst,
        SlotKept, DrainTypes, ConsumedPending, MemBehindRow, StartDelivery, Goto,
        MayStart, None, Marks, Untaken, Begun, Posts, Hows
  <1>4. ASSUME NEW r \in Requests, Arrive(r) PROVE Claimed'
    BY <1>4, IdNames, RequestsAssumption DEF Claimed, DeliveryTypes, PlaceTypes,
        MarkTypes, InboxTypes, AnswerTypes, OutcomeAnswered, Fresh, InboxFirst,
        SlotKept, DrainTypes, ConsumedPending, MemBehindRow, Arrive, Goto, rows, None,
        Marks, Untaken, Begun, Posts, Hows
  <1>5. ASSUME NEW r \in Requests, Resolve(r) PROVE Claimed'
    BY <1>5, IdNames, RequestsAssumption DEF Claimed, DeliveryTypes, PlaceTypes,
        MarkTypes, InboxTypes, AnswerTypes, OutcomeAnswered, Fresh, InboxFirst,
        SlotKept, DrainTypes, ConsumedPending, MemBehindRow, Resolve, Goto, rows, None,
        Marks, Untaken, Begun, Posts, Hows
  <1>6. ASSUME NEW r \in Requests, AcceptSteering(r) PROVE Claimed'
    BY <1>6, IdNames, RequestsAssumption DEF Claimed, DeliveryTypes, PlaceTypes,
        MarkTypes, InboxTypes, AnswerTypes, OutcomeAnswered, Fresh, InboxFirst,
        SlotKept, DrainTypes, ConsumedPending, MemBehindRow, AcceptSteering, Goto, rows,
        Refused, Reported, None, Marks, Untaken, Begun, Posts, Hows
  <1>7. ASSUME NEW r \in Requests, CreateSteering(r) PROVE Claimed'
    BY <1>7, IdNames, RequestsAssumption DEF Claimed, DeliveryTypes, PlaceTypes,
        MarkTypes, InboxTypes, AnswerTypes, OutcomeAnswered, Fresh, InboxFirst,
        SlotKept, DrainTypes, ConsumedPending, MemBehindRow, CreateSteering, Goto,
        Reported, None, Marks, Untaken, Begun, Posts, Hows
  <1>8. ASSUME NEW r \in Requests, AddSteering(r) PROVE Claimed'
    BY <1>8, IdNames, RequestsAssumption DEF Claimed, DeliveryTypes, PlaceTypes,
        MarkTypes, InboxTypes, AnswerTypes, OutcomeAnswered, Fresh, InboxFirst,
        SlotKept, DrainTypes, ConsumedPending, MemBehindRow, AddSteering, Goto, rows,
        Reported, None, Marks, Untaken, Begun, Posts, Hows
  <1>9. ASSUME NEW r \in Requests, QueueInInbox(r) PROVE Claimed'
    BY <1>9, IdNames, RequestsAssumption DEF Claimed, DeliveryTypes, PlaceTypes,
        MarkTypes, InboxTypes, AnswerTypes, OutcomeAnswered, Fresh, InboxFirst,
        SlotKept, DrainTypes, ConsumedPending, MemBehindRow, QueueInInbox, Goto,
        Reported, None, Marks, Untaken, Begun, Posts, Hows
  <1>10. ASSUME NEW r \in Requests, NoteOutcome(r) PROVE Claimed'
    BY <1>10, IdNames, RequestsAssumption DEF Claimed, DeliveryTypes, PlaceTypes,
        MarkTypes, InboxTypes, AnswerTypes, OutcomeAnswered, Fresh, InboxFirst,
        SlotKept, DrainTypes, ConsumedPending, MemBehindRow, NoteOutcome, Goto, None,
        Marks, Untaken, Begun, Posts, Hows
  <1>11. ASSUME NEW r \in Requests, QueueDrained(r) PROVE Claimed'
    BY <1>11, IdNames, RequestsAssumption DEF Claimed, DeliveryTypes, PlaceTypes,
        MarkTypes, InboxTypes, AnswerTypes, OutcomeAnswered, Fresh, InboxFirst,
        SlotKept, DrainTypes, ConsumedPending, MemBehindRow, QueueDrained, intake, None,
        Marks, Untaken, Begun, Posts, Hows
  <1>12. ASSUME Consume PROVE Claimed'
    BY <1>12, IdNames, RequestsAssumption DEF Claimed, DeliveryTypes, PlaceTypes,
        MarkTypes, InboxTypes, AnswerTypes, OutcomeAnswered, Fresh, InboxFirst,
        SlotKept, DrainTypes, ConsumedPending, MemBehindRow, Consume, intake, None,
        Marks, Untaken, Begun, Posts, Hows
  <1>13. ASSUME Acknowledge PROVE Claimed'
    BY <1>13, IdNames, RequestsAssumption DEF Claimed, DeliveryTypes, PlaceTypes,
        MarkTypes, InboxTypes, AnswerTypes, OutcomeAnswered, Fresh, InboxFirst,
        SlotKept, DrainTypes, ConsumedPending, MemBehindRow, Acknowledge, intake,
        Consumed, Pending, None, Marks, Untaken, Begun, Posts, Hows
  <1>14. ASSUME Crash PROVE Claimed'
    BY <1>14, IdNames, RequestsAssumption DEF Claimed, DeliveryTypes, PlaceTypes,
        MarkTypes, InboxTypes, AnswerTypes, OutcomeAnswered, Fresh, InboxFirst,
        SlotKept, DrainTypes, ConsumedPending, MemBehindRow, Crash, rows, None, Marks,
        Untaken, Begun, Posts, Hows
  <1>15. ASSUME NEW r \in Requests, RunPromoted(r)
       PROVE  UNCHANGED <<delivery, pc, row, inbox>>
    BY <1>15 DEF RunPromoted, rows, intake
  <1>16. ASSUME NEW t \in MessageTurns, RegisterMessage(t)
       PROVE  UNCHANGED <<delivery, pc, row, inbox>>
    BY <1>16 DEF RegisterMessage, rows, intake
  <1>17. ASSUME PlanMessage \/ PlanSteering \/ PlanFails \/ ReadInbox \/ AddDrained
              \/ DrainEnds \/ StartRun \/ EnqueueSteering \/ Respond \/ Acknowledged
              \/ Interrupt \/ PersistSnapshot \/ Close \/ Free \/ Reserve \/ Release
       PROVE  UNCHANGED <<delivery, pc, row, inbox>>
    BY <1>17 DEF PlanMessage, intake, PlanSteering, rows, PlanFails, ReadInbox,
        AddDrained, DrainEnds, StartRun, EnqueueSteering, Respond, Acknowledged,
        Interrupt, PersistSnapshot, Close, Free, Reserve, Release
  <1> QED  BY <1>1, <1>2, <1>3, <1>4, <1>5, <1>6, <1>7, <1>8, <1>9, <1>10, <1>11, <1>12,
       <1>13, <1>14, <1>15, <1>16, <1>17
    DEF Next, Intake, TurnStep

(* Steering leaves the queue when its run acknowledges it, and is then no  *)
(* longer its own.                                                         *)
LEMMA ConsumedPendingStep ==
    ASSUME ConsumedPending, MarkTypes, IdTypes, TurnTypes, Fresh, SlotKept, DrainTypes,
          Next
    PROVE  ConsumedPending'
  <1>1. CASE UNCHANGED <<consumed, mem, phase, said>>
    BY <1>1 DEF ConsumedPending, None, Marks, Pending, Over, DrainPhases, RunPhases,
        Untaken
  <1>2. ASSUME NEW r \in Requests, AddSteering(r) PROVE ConsumedPending'
    BY <1>2, IdNames DEF ConsumedPending, MarkTypes, IdTypes, TurnTypes, Fresh,
        SlotKept, DrainTypes, AddSteering, run, slot, None, Marks, Pending, Over,
        DrainPhases, RunPhases, Untaken
  <1>3. ASSUME NEW r \in Requests, RunPromoted(r) PROVE ConsumedPending'
    BY <1>3, IdNames DEF ConsumedPending, MarkTypes, IdTypes, TurnTypes, Fresh,
        SlotKept, DrainTypes, RunPromoted, Enter, run, slot, None, Marks, Pending, Over,
        DrainPhases, RunPhases, Untaken
  <1>4. ASSUME NEW r \in Requests, QueueDrained(r) PROVE ConsumedPending'
    BY <1>4, IdNames DEF ConsumedPending, MarkTypes, IdTypes, TurnTypes, Fresh,
        SlotKept, DrainTypes, QueueDrained, run, None, Marks, Pending, Over,
        DrainPhases, RunPhases, Untaken
  <1>5. ASSUME NEW t \in MessageTurns, RegisterMessage(t) PROVE ConsumedPending'
    BY <1>5, IdNames DEF ConsumedPending, MarkTypes, IdTypes, TurnTypes, Fresh,
        SlotKept, DrainTypes, RegisterMessage, Enter, None, Marks, Pending, Over,
        DrainPhases, RunPhases, Untaken
  <1>6. ASSUME PlanMessage PROVE ConsumedPending'
    BY <1>6, IdNames DEF ConsumedPending, MarkTypes, IdTypes, TurnTypes, Fresh,
        SlotKept, DrainTypes, PlanMessage, run, None, Marks, Pending, Over, DrainPhases,
        RunPhases, Untaken
  <1>7. ASSUME PlanSteering PROVE ConsumedPending'
    BY <1>7, IdNames DEF ConsumedPending, MarkTypes, IdTypes, TurnTypes, Fresh,
        SlotKept, DrainTypes, PlanSteering, Leave, run, None, Marks, Pending, Over,
        DrainPhases, RunPhases, Untaken
  <1>8. ASSUME PlanFails PROVE ConsumedPending'
    BY <1>8, IdNames DEF ConsumedPending, MarkTypes, IdTypes, TurnTypes, Fresh,
        SlotKept, DrainTypes, PlanFails, Leave, run, None, Marks, Pending, Over,
        DrainPhases, RunPhases, Untaken
  <1>9. ASSUME ReadInbox PROVE ConsumedPending'
    BY <1>9, IdNames DEF ConsumedPending, MarkTypes, IdTypes, TurnTypes, Fresh,
        SlotKept, DrainTypes, ReadInbox, run, None, Marks, Pending, Over, DrainPhases,
        RunPhases, Untaken
  <1>10. ASSUME AddDrained PROVE ConsumedPending'
    BY <1>10, IdNames DEF ConsumedPending, MarkTypes, IdTypes, TurnTypes, Fresh,
        SlotKept, DrainTypes, AddDrained, run, None, Marks, Pending, Over, DrainPhases,
        RunPhases, Untaken
  <1>11. ASSUME Consume PROVE ConsumedPending'
    BY <1>11, IdNames DEF ConsumedPending, MarkTypes, IdTypes, TurnTypes, Fresh,
        SlotKept, DrainTypes, Consume, run, None, Marks, Pending, Over, DrainPhases,
        RunPhases, Untaken
  <1>12. ASSUME DrainEnds PROVE ConsumedPending'
    BY <1>12, IdNames DEF ConsumedPending, MarkTypes, IdTypes, TurnTypes, Fresh,
        SlotKept, DrainTypes, DrainEnds, run, None, Marks, Pending, Over, DrainPhases,
        RunPhases, Untaken
  <1>13. ASSUME StartRun PROVE ConsumedPending'
    BY <1>13, IdNames DEF ConsumedPending, MarkTypes, IdTypes, TurnTypes, Fresh,
        SlotKept, DrainTypes, StartRun, run, None, Marks, Pending, Over, DrainPhases,
        RunPhases, Untaken
  <1>14. ASSUME EnqueueSteering PROVE ConsumedPending'
    BY <1>14, IdNames DEF ConsumedPending, MarkTypes, IdTypes, TurnTypes, Fresh,
        SlotKept, DrainTypes, EnqueueSteering, PendingFor, Pending, None, Marks, Over,
        DrainPhases, RunPhases, Untaken
  <1>15. ASSUME Respond PROVE ConsumedPending'
    BY <1>15, IdNames DEF ConsumedPending, MarkTypes, IdTypes, TurnTypes, Fresh,
        SlotKept, DrainTypes, Respond, run, None, Marks, Pending, Over, DrainPhases,
        RunPhases, Untaken
  <1>16. ASSUME Acknowledge PROVE ConsumedPending'
    BY <1>16, IdNames DEF ConsumedPending, MarkTypes, IdTypes, TurnTypes, Fresh,
        SlotKept, DrainTypes, Acknowledge, run, Consumed, Pending, None, Marks, Over,
        DrainPhases, RunPhases, Untaken
  <1>17. ASSUME Acknowledged PROVE ConsumedPending'
    BY <1>17, IdNames DEF ConsumedPending, MarkTypes, IdTypes, TurnTypes, Fresh,
        SlotKept, DrainTypes, Acknowledged, Consumed, Pending, None, Marks, Over,
        DrainPhases, RunPhases, Untaken
  <1>18. ASSUME Interrupt PROVE ConsumedPending'
    BY <1>18, IdNames DEF ConsumedPending, MarkTypes, IdTypes, TurnTypes, Fresh,
        SlotKept, DrainTypes, Interrupt, None, Marks, Pending, Over, DrainPhases,
        RunPhases, Untaken
  <1>19. ASSUME PersistSnapshot PROVE ConsumedPending'
    BY <1>19, IdNames DEF ConsumedPending, MarkTypes, IdTypes, TurnTypes, Fresh,
        SlotKept, DrainTypes, PersistSnapshot, WithoutSteering, Pending, FollowUp,
        PendingFor, None, Marks, Over, DrainPhases, RunPhases, Untaken
  <1>20. ASSUME Close PROVE ConsumedPending'
    BY <1>20, IdNames DEF ConsumedPending, MarkTypes, IdTypes, TurnTypes, Fresh,
        SlotKept, DrainTypes, Close, run, None, Marks, Pending, Over, DrainPhases,
        RunPhases, Untaken
  <1>21. ASSUME Free PROVE ConsumedPending'
    BY <1>21, IdNames DEF ConsumedPending, MarkTypes, IdTypes, TurnTypes, Fresh,
        SlotKept, DrainTypes, Free, Leave, run, None, Marks, Pending, Over, DrainPhases,
        RunPhases, Untaken
  <1>22. ASSUME Crash PROVE ConsumedPending'
    BY <1>22, IdNames DEF ConsumedPending, MarkTypes, IdTypes, TurnTypes, Fresh,
        SlotKept, DrainTypes, Crash, Leave, None, Marks, Pending, Over, DrainPhases,
        RunPhases, Untaken
  <1>23. ASSUME NEW r \in Requests, Record(r) \/ StartDelivery(r) \/ Arrive(r)
              \/ Resolve(r) \/ AcceptSteering(r) \/ CreateSteering(r)
              \/ QueueInInbox(r) \/ NoteOutcome(r)
       PROVE  UNCHANGED <<consumed, mem, phase, said>>
    BY <1>23 DEF Record, run, slot, StartDelivery, Arrive, Resolve, AcceptSteering,
        CreateSteering, QueueInInbox, NoteOutcome
  <1>24. ASSUME Reserve \/ Release PROVE UNCHANGED <<consumed, mem, phase, said>>
    BY <1>24 DEF Reserve, run, slot, Release
  <1> QED  BY <1>1, <1>2, <1>3, <1>4, <1>5, <1>6, <1>7, <1>8, <1>9, <1>10, <1>11, <1>12,
       <1>13, <1>14, <1>15, <1>16, <1>17, <1>18, <1>19, <1>20, <1>21, <1>22, <1>23,
       <1>24
    DEF Next, Intake, TurnStep

(* An acknowledgement follows its response.                                *)
LEMMA AckHeardStep ==
    ASSUME AckHeard, MarkTypes, IdTypes, TurnTypes, Fresh, SlotKept, DrainTypes,
          ConsumedPending, Next
    PROVE  AckHeard'
  <1>1. CASE UNCHANGED <<phase, consumed, heard, row>>
    BY <1>1 DEF AckHeard, None, Marks, DrainPhases, RunPhases, Untaken
  <1>2. ASSUME NEW r \in Requests, CreateSteering(r) PROVE AckHeard'
    BY <1>2, IdNames DEF AckHeard, MarkTypes, IdTypes, TurnTypes, Fresh, SlotKept,
        DrainTypes, ConsumedPending, CreateSteering, run, ghosts, slot, None, Marks,
        DrainPhases, RunPhases, Untaken
  <1>3. ASSUME NEW r \in Requests, RunPromoted(r) PROVE AckHeard'
    BY <1>3, IdNames DEF AckHeard, MarkTypes, IdTypes, TurnTypes, Fresh, SlotKept,
        DrainTypes, ConsumedPending, RunPromoted, Enter, rows, run, ghosts, slot, None,
        Marks, DrainPhases, RunPhases, Untaken
  <1>4. ASSUME NEW r \in Requests, QueueDrained(r) PROVE AckHeard'
    BY <1>4, IdNames DEF AckHeard, MarkTypes, IdTypes, TurnTypes, Fresh, SlotKept,
        DrainTypes, ConsumedPending, QueueDrained, run, ghosts, None, Marks,
        DrainPhases, RunPhases, Untaken
  <1>5. ASSUME NEW t \in MessageTurns, RegisterMessage(t) PROVE AckHeard'
    BY <1>5, IdNames DEF AckHeard, MarkTypes, IdTypes, TurnTypes, Fresh, SlotKept,
        DrainTypes, ConsumedPending, RegisterMessage, Enter, rows, ghosts, None, Marks,
        DrainPhases, RunPhases, Untaken
  <1>6. ASSUME PlanMessage PROVE AckHeard'
    BY <1>6, IdNames DEF AckHeard, MarkTypes, IdTypes, TurnTypes, Fresh, SlotKept,
        DrainTypes, ConsumedPending, PlanMessage, run, ghosts, None, Marks, DrainPhases,
        RunPhases, Untaken
  <1>7. ASSUME PlanSteering PROVE AckHeard'
    BY <1>7, IdNames DEF AckHeard, MarkTypes, IdTypes, TurnTypes, Fresh, SlotKept,
        DrainTypes, ConsumedPending, PlanSteering, Leave, rows, run, ghosts, None,
        Marks, DrainPhases, RunPhases, Untaken
  <1>8. ASSUME PlanFails PROVE AckHeard'
    BY <1>8, IdNames DEF AckHeard, MarkTypes, IdTypes, TurnTypes, Fresh, SlotKept,
        DrainTypes, ConsumedPending, PlanFails, Leave, rows, run, ghosts, None, Marks,
        DrainPhases, RunPhases, Untaken
  <1>9. ASSUME ReadInbox PROVE AckHeard'
    BY <1>9, IdNames DEF AckHeard, MarkTypes, IdTypes, TurnTypes, Fresh, SlotKept,
        DrainTypes, ConsumedPending, ReadInbox, rows, run, ghosts, None, Marks,
        DrainPhases, RunPhases, Untaken
  <1>10. ASSUME AddDrained PROVE AckHeard'
    BY <1>10, IdNames DEF AckHeard, MarkTypes, IdTypes, TurnTypes, Fresh, SlotKept,
        DrainTypes, ConsumedPending, AddDrained, rows, run, ghosts, None, Marks,
        DrainPhases, RunPhases, Untaken
  <1>11. ASSUME Consume PROVE AckHeard'
    BY <1>11, IdNames DEF AckHeard, MarkTypes, IdTypes, TurnTypes, Fresh, SlotKept,
        DrainTypes, ConsumedPending, Consume, run, ghosts, None, Marks, DrainPhases,
        RunPhases, Untaken
  <1>12. ASSUME DrainEnds PROVE AckHeard'
    BY <1>12, IdNames DEF AckHeard, MarkTypes, IdTypes, TurnTypes, Fresh, SlotKept,
        DrainTypes, ConsumedPending, DrainEnds, rows, run, ghosts, None, Marks,
        DrainPhases, RunPhases, Untaken
  <1>13. ASSUME StartRun PROVE AckHeard'
    BY <1>13, IdNames DEF AckHeard, MarkTypes, IdTypes, TurnTypes, Fresh, SlotKept,
        DrainTypes, ConsumedPending, StartRun, rows, run, ghosts, None, Marks,
        DrainPhases, RunPhases, Untaken
  <1>14. ASSUME EnqueueSteering PROVE AckHeard'
    BY <1>14, IdNames DEF AckHeard, MarkTypes, IdTypes, TurnTypes, Fresh, SlotKept,
        DrainTypes, ConsumedPending, EnqueueSteering, rows, ghosts, PendingFor, Pending,
        None, Marks, DrainPhases, RunPhases, Untaken
  <1>15. ASSUME Respond PROVE AckHeard'
    BY <1>15, IdNames DEF AckHeard, MarkTypes, IdTypes, TurnTypes, Fresh, SlotKept,
        DrainTypes, ConsumedPending, Respond, rows, run, None, Marks, DrainPhases,
        RunPhases, Untaken
  <1>16. ASSUME Acknowledge PROVE AckHeard'
    BY <1>16, IdNames DEF AckHeard, MarkTypes, IdTypes, TurnTypes, Fresh, SlotKept,
        DrainTypes, ConsumedPending, Acknowledge, run, ghosts, Consumed, Pending, None,
        Marks, DrainPhases, RunPhases, Untaken
  <1>17. ASSUME Acknowledged PROVE AckHeard'
    BY <1>17, IdNames DEF AckHeard, MarkTypes, IdTypes, TurnTypes, Fresh, SlotKept,
        DrainTypes, ConsumedPending, Acknowledged, rows, ghosts, Consumed, Pending,
        None, Marks, DrainPhases, RunPhases, Untaken
  <1>18. ASSUME Interrupt PROVE AckHeard'
    BY <1>18, IdNames DEF AckHeard, MarkTypes, IdTypes, TurnTypes, Fresh, SlotKept,
        DrainTypes, ConsumedPending, Interrupt, rows, ghosts, None, Marks, DrainPhases,
        RunPhases, Untaken
  <1>19. ASSUME PersistSnapshot PROVE AckHeard'
    BY <1>19, IdNames DEF AckHeard, MarkTypes, IdTypes, TurnTypes, Fresh, SlotKept,
        DrainTypes, ConsumedPending, PersistSnapshot, Pending, PendingFor, None, Marks,
        DrainPhases, RunPhases, Untaken
  <1>20. ASSUME Close PROVE AckHeard'
    BY <1>20, IdNames DEF AckHeard, MarkTypes, IdTypes, TurnTypes, Fresh, SlotKept,
        DrainTypes, ConsumedPending, Close, rows, run, ghosts, None, Marks, DrainPhases,
        RunPhases, Untaken
  <1>21. ASSUME Free PROVE AckHeard'
    BY <1>21, IdNames DEF AckHeard, MarkTypes, IdTypes, TurnTypes, Fresh, SlotKept,
        DrainTypes, ConsumedPending, Free, Leave, rows, run, ghosts, None, Marks,
        DrainPhases, RunPhases, Untaken
  <1>22. ASSUME Crash PROVE AckHeard'
    BY <1>22, IdNames DEF AckHeard, MarkTypes, IdTypes, TurnTypes, Fresh, SlotKept,
        DrainTypes, ConsumedPending, Crash, Leave, rows, None, Marks, DrainPhases,
        RunPhases, Untaken
  <1>23. ASSUME NEW r \in Requests, Record(r) \/ StartDelivery(r) \/ Arrive(r)
              \/ Resolve(r) \/ AcceptSteering(r) \/ AddSteering(r)
              \/ QueueInInbox(r) \/ NoteOutcome(r)
       PROVE  UNCHANGED <<phase, consumed, heard, row>>
    BY <1>23 DEF Record, run, ghosts, slot, StartDelivery, Arrive, rows, Resolve,
        AcceptSteering, AddSteering, QueueInInbox, NoteOutcome
  <1>24. ASSUME Reserve \/ Release PROVE UNCHANGED <<phase, consumed, heard, row>>
    BY <1>24 DEF Reserve, rows, run, ghosts, slot, Release
  <1> QED  BY <1>1, <1>2, <1>3, <1>4, <1>5, <1>6, <1>7, <1>8, <1>9, <1>10, <1>11, <1>12,
       <1>13, <1>14, <1>15, <1>16, <1>17, <1>18, <1>19, <1>20, <1>21, <1>22, <1>23,
       <1>24
    DEF Next, Intake, TurnStep

(* A snapshot leaves out what is pending, and a delivered mark is never    *)
(* taken back.                                                             *)
LEMMA SavedDeliveredStep ==
    ASSUME SavedDelivered, MarkTypes, IdTypes, Fresh, SlotKept, DrainTypes,
          ConsumedPending, MemBehindRow, Next
    PROVE  SavedDelivered'
  <1>1. CASE UNCHANGED <<saved, said, mem>>
    BY <1>1 DEF SavedDelivered, None, Marks, Untaken
  <1>2. ASSUME NEW r \in Requests, AddSteering(r) PROVE SavedDelivered'
    BY <1>2, IdNames DEF SavedDelivered, MarkTypes, IdTypes, Fresh, SlotKept,
        DrainTypes, ConsumedPending, MemBehindRow, AddSteering, rows, run, None, Marks,
        Untaken
  <1>3. ASSUME NEW r \in Requests, RunPromoted(r) PROVE SavedDelivered'
    BY <1>3, IdNames DEF SavedDelivered, MarkTypes, IdTypes, Fresh, SlotKept,
        DrainTypes, ConsumedPending, MemBehindRow, RunPromoted, Enter, rows, run, None,
        Marks, Untaken
  <1>4. ASSUME NEW t \in MessageTurns, RegisterMessage(t) PROVE SavedDelivered'
    BY <1>4, IdNames DEF SavedDelivered, MarkTypes, IdTypes, Fresh, SlotKept,
        DrainTypes, ConsumedPending, MemBehindRow, RegisterMessage, Enter, rows, None,
        Marks, Untaken
  <1>5. ASSUME AddDrained PROVE SavedDelivered'
    BY <1>5, IdNames DEF SavedDelivered, MarkTypes, IdTypes, Fresh, SlotKept,
        DrainTypes, ConsumedPending, MemBehindRow, AddDrained, rows, run, None, Marks,
        Untaken
  <1>6. ASSUME EnqueueSteering PROVE SavedDelivered'
    BY <1>6, IdNames DEF SavedDelivered, MarkTypes, IdTypes, Fresh, SlotKept,
        DrainTypes, ConsumedPending, MemBehindRow, EnqueueSteering, rows, PendingFor,
        Pending, None, Marks, Untaken
  <1>7. ASSUME Acknowledged PROVE SavedDelivered'
    BY <1>7, IdNames DEF SavedDelivered, MarkTypes, IdTypes, Fresh, SlotKept,
        DrainTypes, ConsumedPending, MemBehindRow, Acknowledged, rows, Consumed,
        Pending, None, Marks, Untaken
  <1>8. ASSUME PersistSnapshot PROVE SavedDelivered'
    BY <1>8, IdNames DEF SavedDelivered, MarkTypes, IdTypes, Fresh, SlotKept,
        DrainTypes, ConsumedPending, MemBehindRow, PersistSnapshot, WithoutSteering,
        Pending, PendingFor, None, Marks, Untaken
  <1>9. ASSUME Crash PROVE SavedDelivered'
    BY <1>9, IdNames DEF SavedDelivered, MarkTypes, IdTypes, Fresh, SlotKept,
        DrainTypes, ConsumedPending, MemBehindRow, Crash, rows, None, Marks, Untaken
  <1>10. ASSUME NEW r \in Requests, Record(r) \/ StartDelivery(r) \/ Arrive(r)
              \/ Resolve(r) \/ AcceptSteering(r) \/ CreateSteering(r)
              \/ QueueInInbox(r) \/ NoteOutcome(r) \/ QueueDrained(r)
       PROVE  UNCHANGED <<saved, said, mem>>
    BY <1>10 DEF Record, run, StartDelivery, Arrive, rows, Resolve, AcceptSteering,
        CreateSteering, QueueInInbox, NoteOutcome, QueueDrained
  <1>11. ASSUME PlanMessage \/ PlanSteering \/ PlanFails \/ ReadInbox \/ Consume
              \/ DrainEnds \/ StartRun \/ Respond \/ Acknowledge \/ Interrupt
              \/ Close \/ Free \/ Reserve \/ Release
       PROVE  UNCHANGED <<saved, said, mem>>
    BY <1>11 DEF PlanMessage, run, PlanSteering, rows, PlanFails, ReadInbox, Consume,
        DrainEnds, StartRun, Respond, Acknowledge, Interrupt, Close, Free, Reserve,
        Release
  <1> QED  BY <1>1, <1>2, <1>3, <1>4, <1>5, <1>6, <1>7, <1>8, <1>9, <1>10, <1>11
    DEF Next, Intake, TurnStep

(* A turn that ends has saved what it acknowledged, or could not.          *)
LEMMA DeliveredSavedStep ==
    ASSUME DeliveredSaved, MarkTypes, IdTypes, SlotKept, TurnTypes, Fresh, DrainTypes,
          ConsumedPending, MemBehindRow, SavedDelivered, FollowUpReady, Next
    PROVE  DeliveredSaved'
  <1>1. CASE UNCHANGED <<mem, saved, unsaved, said, phase>>
    BY <1>1 DEF DeliveredSaved, None, Marks, Untaken, Over, Unsaid, DrainPhases,
        RunPhases
  <1>2. ASSUME NEW r \in Requests, AddSteering(r) PROVE DeliveredSaved'
    BY <1>2, IdNames DEF DeliveredSaved, MarkTypes, IdTypes, SlotKept, TurnTypes, Fresh,
        DrainTypes, ConsumedPending, MemBehindRow, SavedDelivered, FollowUpReady,
        AddSteering, rows, run, ghosts, slot, None, Marks, Untaken, Over, Unsaid,
        DrainPhases, RunPhases
  <1>3. ASSUME NEW r \in Requests, RunPromoted(r) PROVE DeliveredSaved'
    BY <1>3, IdNames DEF DeliveredSaved, MarkTypes, IdTypes, SlotKept, TurnTypes, Fresh,
        DrainTypes, ConsumedPending, MemBehindRow, SavedDelivered, FollowUpReady,
        RunPromoted, Enter, rows, run, ghosts, slot, None, Marks, Untaken, Over, Unsaid,
        DrainPhases, RunPhases
  <1>4. ASSUME NEW r \in Requests, QueueDrained(r) PROVE DeliveredSaved'
    BY <1>4, IdNames DEF DeliveredSaved, MarkTypes, IdTypes, SlotKept, TurnTypes, Fresh,
        DrainTypes, ConsumedPending, MemBehindRow, SavedDelivered, FollowUpReady,
        QueueDrained, run, ghosts, None, Marks, Untaken, Over, Unsaid, DrainPhases,
        RunPhases
  <1>5. ASSUME NEW t \in MessageTurns, RegisterMessage(t) PROVE DeliveredSaved'
    BY <1>5, IdNames DEF DeliveredSaved, MarkTypes, IdTypes, SlotKept, TurnTypes, Fresh,
        DrainTypes, ConsumedPending, MemBehindRow, SavedDelivered, FollowUpReady,
        RegisterMessage, Enter, rows, ghosts, None, Marks, Untaken, Over, Unsaid,
        DrainPhases, RunPhases
  <1>6. ASSUME PlanMessage PROVE DeliveredSaved'
    BY <1>6, IdNames DEF DeliveredSaved, MarkTypes, IdTypes, SlotKept, TurnTypes, Fresh,
        DrainTypes, ConsumedPending, MemBehindRow, SavedDelivered, FollowUpReady,
        PlanMessage, run, ghosts, None, Marks, Untaken, Over, Unsaid, DrainPhases,
        RunPhases
  <1>7. ASSUME PlanSteering PROVE DeliveredSaved'
    BY <1>7, IdNames DEF DeliveredSaved, MarkTypes, IdTypes, SlotKept, TurnTypes, Fresh,
        DrainTypes, ConsumedPending, MemBehindRow, SavedDelivered, FollowUpReady,
        PlanSteering, Leave, rows, run, ghosts, None, Marks, Untaken, Over, Unsaid,
        DrainPhases, RunPhases
  <1>8. ASSUME PlanFails PROVE DeliveredSaved'
    BY <1>8, IdNames DEF DeliveredSaved, MarkTypes, IdTypes, SlotKept, TurnTypes, Fresh,
        DrainTypes, ConsumedPending, MemBehindRow, SavedDelivered, FollowUpReady,
        PlanFails, Leave, rows, run, ghosts, None, Marks, Untaken, Over, Unsaid,
        DrainPhases, RunPhases
  <1>9. ASSUME ReadInbox PROVE DeliveredSaved'
    BY <1>9, IdNames DEF DeliveredSaved, MarkTypes, IdTypes, SlotKept, TurnTypes, Fresh,
        DrainTypes, ConsumedPending, MemBehindRow, SavedDelivered, FollowUpReady,
        ReadInbox, rows, run, ghosts, None, Marks, Untaken, Over, Unsaid, DrainPhases,
        RunPhases
  <1>10. ASSUME AddDrained PROVE DeliveredSaved'
    BY <1>10, IdNames DEF DeliveredSaved, MarkTypes, IdTypes, SlotKept, TurnTypes,
        Fresh, DrainTypes, ConsumedPending, MemBehindRow, SavedDelivered, FollowUpReady,
        AddDrained, rows, run, ghosts, None, Marks, Untaken, Over, Unsaid, DrainPhases,
        RunPhases
  <1>11. ASSUME Consume PROVE DeliveredSaved'
    BY <1>11, IdNames DEF DeliveredSaved, MarkTypes, IdTypes, SlotKept, TurnTypes,
        Fresh, DrainTypes, ConsumedPending, MemBehindRow, SavedDelivered, FollowUpReady,
        Consume, run, ghosts, None, Marks, Untaken, Over, Unsaid, DrainPhases, RunPhases
  <1>12. ASSUME DrainEnds PROVE DeliveredSaved'
    BY <1>12, IdNames DEF DeliveredSaved, MarkTypes, IdTypes, SlotKept, TurnTypes,
        Fresh, DrainTypes, ConsumedPending, MemBehindRow, SavedDelivered, FollowUpReady,
        DrainEnds, rows, run, ghosts, None, Marks, Untaken, Over, Unsaid, DrainPhases,
        RunPhases
  <1>13. ASSUME StartRun PROVE DeliveredSaved'
    BY <1>13, IdNames DEF DeliveredSaved, MarkTypes, IdTypes, SlotKept, TurnTypes,
        Fresh, DrainTypes, ConsumedPending, MemBehindRow, SavedDelivered, FollowUpReady,
        StartRun, rows, run, ghosts, None, Marks, Untaken, Over, Unsaid, DrainPhases,
        RunPhases
  <1>14. ASSUME EnqueueSteering PROVE DeliveredSaved'
    BY <1>14, IdNames DEF DeliveredSaved, MarkTypes, IdTypes, SlotKept, TurnTypes,
        Fresh, DrainTypes, ConsumedPending, MemBehindRow, SavedDelivered, FollowUpReady,
        EnqueueSteering, rows, ghosts, PendingFor, Pending, None, Marks, Untaken, Over,
        Unsaid, DrainPhases, RunPhases
  <1>15. ASSUME Respond PROVE DeliveredSaved'
    BY <1>15, IdNames DEF DeliveredSaved, MarkTypes, IdTypes, SlotKept, TurnTypes,
        Fresh, DrainTypes, ConsumedPending, MemBehindRow, SavedDelivered, FollowUpReady,
        Respond, rows, run, None, Marks, Untaken, Over, Unsaid, DrainPhases, RunPhases
  <1>16. ASSUME Acknowledge PROVE DeliveredSaved'
    BY <1>16, IdNames DEF DeliveredSaved, MarkTypes, IdTypes, SlotKept, TurnTypes,
        Fresh, DrainTypes, ConsumedPending, MemBehindRow, SavedDelivered, FollowUpReady,
        Acknowledge, run, ghosts, Consumed, Pending, None, Marks, Untaken, Over, Unsaid,
        DrainPhases, RunPhases
  <1>17. ASSUME Acknowledged PROVE DeliveredSaved'
    BY <1>17, IdNames DEF DeliveredSaved, MarkTypes, IdTypes, SlotKept, TurnTypes,
        Fresh, DrainTypes, ConsumedPending, MemBehindRow, SavedDelivered, FollowUpReady,
        Acknowledged, rows, ghosts, Consumed, Pending, None, Marks, Untaken, Over,
        Unsaid, DrainPhases, RunPhases
  <1>18. ASSUME Interrupt PROVE DeliveredSaved'
    BY <1>18, IdNames DEF DeliveredSaved, MarkTypes, IdTypes, SlotKept, TurnTypes,
        Fresh, DrainTypes, ConsumedPending, MemBehindRow, SavedDelivered, FollowUpReady,
        Interrupt, rows, ghosts, None, Marks, Untaken, Over, Unsaid, DrainPhases,
        RunPhases
  <1>19. ASSUME PersistSnapshot PROVE DeliveredSaved'
    BY <1>19, IdNames DEF DeliveredSaved, MarkTypes, IdTypes, SlotKept, TurnTypes,
        Fresh, DrainTypes, ConsumedPending, MemBehindRow, SavedDelivered, FollowUpReady,
        PersistSnapshot, WithoutSteering, Pending, PendingFor, None, Marks, Untaken,
        Over, Unsaid, DrainPhases, RunPhases
  <1>20. ASSUME Close PROVE DeliveredSaved'
    BY <1>20, IdNames DEF DeliveredSaved, MarkTypes, IdTypes, SlotKept, TurnTypes,
        Fresh, DrainTypes, ConsumedPending, MemBehindRow, SavedDelivered, FollowUpReady,
        Close, rows, run, ghosts, None, Marks, Untaken, Over, Unsaid, DrainPhases,
        RunPhases
  <1>21. ASSUME Free PROVE DeliveredSaved'
    BY <1>21, IdNames DEF DeliveredSaved, MarkTypes, IdTypes, SlotKept, TurnTypes,
        Fresh, DrainTypes, ConsumedPending, MemBehindRow, SavedDelivered, FollowUpReady,
        Free, Leave, rows, run, ghosts, None, Marks, Untaken, Over, Unsaid, DrainPhases,
        RunPhases
  <1>22. ASSUME Crash PROVE DeliveredSaved'
    BY <1>22, IdNames DEF DeliveredSaved, MarkTypes, IdTypes, SlotKept, TurnTypes,
        Fresh, DrainTypes, ConsumedPending, MemBehindRow, SavedDelivered, FollowUpReady,
        Crash, Leave, rows, None, Marks, Untaken, Over, Unsaid, DrainPhases, RunPhases
  <1>23. ASSUME NEW r \in Requests, Record(r) \/ StartDelivery(r) \/ Arrive(r)
              \/ Resolve(r) \/ AcceptSteering(r) \/ CreateSteering(r)
              \/ QueueInInbox(r) \/ NoteOutcome(r)
       PROVE  UNCHANGED <<mem, saved, unsaved, said, phase>>
    BY <1>23 DEF Record, run, ghosts, slot, StartDelivery, Arrive, rows, Resolve,
        AcceptSteering, CreateSteering, QueueInInbox, NoteOutcome
  <1>24. ASSUME Reserve \/ Release PROVE UNCHANGED <<mem, saved, unsaved, said, phase>>
    BY <1>24 DEF Reserve, rows, run, ghosts, slot, Release
  <1> QED  BY <1>1, <1>2, <1>3, <1>4, <1>5, <1>6, <1>7, <1>8, <1>9, <1>10, <1>11, <1>12,
       <1>13, <1>14, <1>15, <1>16, <1>17, <1>18, <1>19, <1>20, <1>21, <1>22, <1>23,
       <1>24
    DEF Next, Intake, TurnStep

(* A follow-up run begins with an empty set of what it was given.          *)
LEMMA FollowUpReadyStep ==
    ASSUME FollowUpReady, MarkTypes, TurnTypes, SlotKept, Fresh, DrainTypes, Next
    PROVE  FollowUpReady'
  <1>1. CASE UNCHANGED <<phase, rounds, said, inflight, mem, turn>>
    BY <1>1 DEF FollowUpReady, None, Unsaid, Pending, PendingFor, Marks, DrainPhases,
        RunPhases, Untaken
  <1>2. ASSUME NEW r \in Requests, AddSteering(r) PROVE FollowUpReady'
    BY <1>2, IdNames DEF FollowUpReady, MarkTypes, TurnTypes, SlotKept, Fresh,
        DrainTypes, AddSteering, run, slot, None, Unsaid, Pending, PendingFor, Marks,
        DrainPhases, RunPhases, Untaken
  <1>3. ASSUME NEW r \in Requests, RunPromoted(r) PROVE FollowUpReady'
    BY <1>3, IdNames DEF FollowUpReady, MarkTypes, TurnTypes, SlotKept, Fresh,
        DrainTypes, RunPromoted, Enter, run, slot, None, Unsaid, Pending, PendingFor,
        Marks, DrainPhases, RunPhases, Untaken
  <1>4. ASSUME NEW r \in Requests, QueueDrained(r) PROVE FollowUpReady'
    BY <1>4, IdNames DEF FollowUpReady, MarkTypes, TurnTypes, SlotKept, Fresh,
        DrainTypes, QueueDrained, run, None, Unsaid, Pending, PendingFor, Marks,
        DrainPhases, RunPhases, Untaken
  <1>5. ASSUME NEW t \in MessageTurns, RegisterMessage(t) PROVE FollowUpReady'
    BY <1>5, IdNames DEF FollowUpReady, MarkTypes, TurnTypes, SlotKept, Fresh,
        DrainTypes, RegisterMessage, Enter, None, Unsaid, Pending, PendingFor, Marks,
        DrainPhases, RunPhases, Untaken
  <1>6. ASSUME PlanMessage PROVE FollowUpReady'
    BY <1>6, IdNames DEF FollowUpReady, MarkTypes, TurnTypes, SlotKept, Fresh,
        DrainTypes, PlanMessage, run, None, Unsaid, Pending, PendingFor, Marks,
        DrainPhases, RunPhases, Untaken
  <1>7. ASSUME PlanSteering PROVE FollowUpReady'
    BY <1>7, IdNames DEF FollowUpReady, MarkTypes, TurnTypes, SlotKept, Fresh,
        DrainTypes, PlanSteering, Leave, run, None, Unsaid, Pending, PendingFor, Marks,
        DrainPhases, RunPhases, Untaken
  <1>8. ASSUME PlanFails PROVE FollowUpReady'
    BY <1>8, IdNames DEF FollowUpReady, MarkTypes, TurnTypes, SlotKept, Fresh,
        DrainTypes, PlanFails, Leave, run, None, Unsaid, Pending, PendingFor, Marks,
        DrainPhases, RunPhases, Untaken
  <1>9. ASSUME ReadInbox PROVE FollowUpReady'
    BY <1>9, IdNames DEF FollowUpReady, MarkTypes, TurnTypes, SlotKept, Fresh,
        DrainTypes, ReadInbox, run, None, Unsaid, Pending, PendingFor, Marks,
        DrainPhases, RunPhases, Untaken
  <1>10. ASSUME AddDrained PROVE FollowUpReady'
    BY <1>10, IdNames DEF FollowUpReady, MarkTypes, TurnTypes, SlotKept, Fresh,
        DrainTypes, AddDrained, run, None, Unsaid, Pending, PendingFor, Marks,
        DrainPhases, RunPhases, Untaken
  <1>11. ASSUME Consume PROVE FollowUpReady'
    BY <1>11, IdNames DEF FollowUpReady, MarkTypes, TurnTypes, SlotKept, Fresh,
        DrainTypes, Consume, run, None, Unsaid, Pending, PendingFor, Marks, DrainPhases,
        RunPhases, Untaken
  <1>12. ASSUME DrainEnds PROVE FollowUpReady'
    BY <1>12, IdNames DEF FollowUpReady, MarkTypes, TurnTypes, SlotKept, Fresh,
        DrainTypes, DrainEnds, run, None, Unsaid, Pending, PendingFor, Marks,
        DrainPhases, RunPhases, Untaken
  <1>13. ASSUME StartRun PROVE FollowUpReady'
    BY <1>13, IdNames DEF FollowUpReady, MarkTypes, TurnTypes, SlotKept, Fresh,
        DrainTypes, StartRun, run, None, Unsaid, Pending, PendingFor, Marks,
        DrainPhases, RunPhases, Untaken
  <1>14. ASSUME EnqueueSteering PROVE FollowUpReady'
    BY <1>14, IdNames DEF FollowUpReady, MarkTypes, TurnTypes, SlotKept, Fresh,
        DrainTypes, EnqueueSteering, PendingFor, Pending, None, Unsaid, Marks,
        DrainPhases, RunPhases, Untaken
  <1>15. ASSUME Respond PROVE FollowUpReady'
    BY <1>15, IdNames DEF FollowUpReady, MarkTypes, TurnTypes, SlotKept, Fresh,
        DrainTypes, Respond, run, None, Unsaid, Pending, PendingFor, Marks, DrainPhases,
        RunPhases, Untaken
  <1>16. ASSUME Acknowledge PROVE FollowUpReady'
    BY <1>16, IdNames DEF FollowUpReady, MarkTypes, TurnTypes, SlotKept, Fresh,
        DrainTypes, Acknowledge, run, Consumed, Pending, None, Unsaid, PendingFor,
        Marks, DrainPhases, RunPhases, Untaken
  <1>17. ASSUME Acknowledged PROVE FollowUpReady'
    BY <1>17, IdNames DEF FollowUpReady, MarkTypes, TurnTypes, SlotKept, Fresh,
        DrainTypes, Acknowledged, Consumed, Pending, None, Unsaid, PendingFor, Marks,
        DrainPhases, RunPhases, Untaken
  <1>18. ASSUME Interrupt PROVE FollowUpReady'
    BY <1>18, IdNames DEF FollowUpReady, MarkTypes, TurnTypes, SlotKept, Fresh,
        DrainTypes, Interrupt, None, Unsaid, Pending, PendingFor, Marks, DrainPhases,
        RunPhases, Untaken
  <1>19. ASSUME PersistSnapshot PROVE FollowUpReady'
    BY <1>19, IdNames DEF FollowUpReady, MarkTypes, TurnTypes, SlotKept, Fresh,
        DrainTypes, PersistSnapshot, Pending, FollowUp, PendingFor, None, Unsaid, Marks,
        DrainPhases, RunPhases, Untaken
  <1>20. ASSUME Close PROVE FollowUpReady'
    BY <1>20, IdNames DEF FollowUpReady, MarkTypes, TurnTypes, SlotKept, Fresh,
        DrainTypes, Close, run, None, Unsaid, Pending, PendingFor, Marks, DrainPhases,
        RunPhases, Untaken
  <1>21. ASSUME Free PROVE FollowUpReady'
    BY <1>21, IdNames DEF FollowUpReady, MarkTypes, TurnTypes, SlotKept, Fresh,
        DrainTypes, Free, Leave, run, None, Unsaid, Pending, PendingFor, Marks,
        DrainPhases, RunPhases, Untaken
  <1>22. ASSUME Crash PROVE FollowUpReady'
    BY <1>22, IdNames DEF FollowUpReady, MarkTypes, TurnTypes, SlotKept, Fresh,
        DrainTypes, Crash, Leave, None, Unsaid, Pending, PendingFor, Marks, DrainPhases,
        RunPhases, Untaken
  <1>23. ASSUME NEW r \in Requests, Record(r) \/ StartDelivery(r) \/ Arrive(r)
              \/ Resolve(r) \/ AcceptSteering(r) \/ CreateSteering(r)
              \/ QueueInInbox(r) \/ NoteOutcome(r)
       PROVE  UNCHANGED <<phase, rounds, said, inflight, mem, turn>>
    BY <1>23 DEF Record, run, slot, StartDelivery, Arrive, Resolve, AcceptSteering,
        CreateSteering, QueueInInbox, NoteOutcome
  <1>24. ASSUME Reserve \/ Release
       PROVE  UNCHANGED <<phase, rounds, said, inflight, mem, turn>>
    BY <1>24 DEF Reserve, run, slot, Release
  <1> QED  BY <1>1, <1>2, <1>3, <1>4, <1>5, <1>6, <1>7, <1>8, <1>9, <1>10, <1>11, <1>12,
       <1>13, <1>14, <1>15, <1>16, <1>17, <1>18, <1>19, <1>20, <1>21, <1>22, <1>23,
       <1>24
    DEF Next, Intake, TurnStep

-----------------------------------------------------------------------------
(* What the parts say together.                                            *)

(* A message that was copied anywhere has begun its way.                   *)
LEMMA CopiedBegun ==
    ASSUME InboxFirst, NEW r \in Requests, Copies(r) # {}
    PROVE  Begun(r)
  BY DEF InboxFirst, Copies, Begun

(* Of the three places of a message one is taken, or the inbox with the    *)
(* steering it became.                                                     *)
LEMMA OneIdOf ==
    ASSUME InboxFirst, OneCopy, NEW r \in Requests
    PROVE  \E i \in Ids : Copies(r) \subseteq {i}
  <1>1. CASE inbox[r] = None
    BY <1>1, IdNames DEF InboxFirst, Copies
  <1>2. CASE inbox[r] # None
    <2>1. row[Direct(r)] = None
      BY <1>2 DEF OneCopy
    <2> QED  BY <2>1, IdNames DEF Copies
  <1> QED  BY <1>1, <1>2

(* One post of an event delivers it, and into one place.                   *)
LEMMA OnePlace ==
    ASSUME InboxFirst, OneCopy, Claimed
    PROVE  DeliveredOnce
  <1> SUFFICES ASSUME NEW e \in Events
               PROVE Cardinality(UNION {Copies(r) : r \in {p \in Posts : Carries[p] = e}}) <= 1
    BY DEF DeliveredOnce
  <1> DEFINE P == {p \in Posts : Carries[p] = e}
             S == UNION {Copies(r) : r \in P}
  <1>1. \E i \in Ids \cup {None} : S \subseteq {i}
    <2>1. CASE \A r \in P : Copies(r) = {}
      BY <2>1
    <2>2. ASSUME NEW r \in P, Copies(r) # {} PROVE \E i \in Ids : S \subseteq {i}
      <3>1. r \in Requests /\ Begun(r)
        BY <2>2, CopiedBegun DEF Posts
      <3>2. PICK i \in Ids : Copies(r) \subseteq {i}
        BY <3>1, OneIdOf
      <3>3. \A q \in P : Copies(q) # {} => q = r
        <4> SUFFICES ASSUME NEW q \in P, Copies(q) # {} PROVE q = r
          OBVIOUS
        <4>1. Begun(q)
          BY CopiedBegun DEF Posts
        <4> QED  BY <3>1, <4>1 DEF Claimed
      <3>4. S \subseteq Copies(r)
        BY <3>3
      <3> QED  BY <3>2, <3>4
    <2> QED  BY <2>1, <2>2
  <1>2. PICK i \in Ids \cup {None} : S \subseteq {i}
    BY <1>1
  <1>3. IsFiniteSet({i}) /\ Cardinality({i}) = 1
    BY FS_Singleton
  <1>4. Cardinality(S) <= 1
    BY <1>2, <1>3, FS_Subset
  <1> QED  BY <1>4

(* Between turns nothing is said and not saved.                            *)
LEMMA ReplayAgrees ==
    ASSUME IdTypes, SlotKept, SavedDelivered, DeliveredSaved
    PROVE  ReplayedOnce
  BY DEF IdTypes, SlotKept, SavedDelivered, DeliveredSaved, ReplayedOnce, Over

(* A follow-up run puts in what was found pending.                         *)
LEMMA NewsForTheModel ==
    ASSUME FollowUpReady, Next, phase = "prompt", phase' = "request", rounds > 0
    PROVE  consumed' # {}
  <1>1. EnqueueSteering
    BY DEF Next, Intake, TurnStep, Record, StartDelivery, Arrive, Resolve, AcceptSteering,
        CreateSteering, AddSteering, QueueInInbox, NoteOutcome, RunPromoted,
        RegisterMessage, PlanMessage, PlanSteering, PlanFails, ReadInbox, QueueDrained,
        AddDrained, Consume, DrainEnds, StartRun, Respond, Acknowledge, Acknowledged,
        Interrupt, PersistSnapshot, Close, Free, Reserve, Release, Crash, Enter, Leave,
        slot, None, DrainPhases, RunPhases
  <1> QED  BY <1>1 DEF EnqueueSteering, FollowUpReady

-----------------------------------------------------------------------------
(* The promise.                                                            *)

(* Whom a completed model request carried.                                 *)
audience == {r \in Requests : {Direct(r), Inbox(r)} \cap heard # {}}

(* The fate of a message, from its three places.                           *)
LEMMA FateOf ==
    ASSUME NEW r \in Requests
    PROVE  /\ Fate(r) = "done" <=> row[Direct(r)] = "delivered" \/ row[Inbox(r)] = "delivered"
           /\ Fate(r) = "offered" <=> row[Direct(r)] = None /\ row[Inbox(r)] = None
                                      /\ inbox[r] = None
           /\ Fate(r) \in {"offered", "kept", "done"}
  BY DEF Fate, Copies, None

LEMMA FateOfNext ==
    ASSUME NEW r \in Requests
    PROVE  /\ Fate(r)' = "done" <=> row'[Direct(r)] = "delivered" \/ row'[Inbox(r)] = "delivered"
           /\ Fate(r)' = "offered" <=> row'[Direct(r)] = None /\ row'[Inbox(r)] = None
                                       /\ inbox'[r] = None
           /\ Fate(r)' \in {"offered", "kept", "done"}
  BY DEF Fate, Copies, None

LEMMA StepIsPromised ==
    ASSUME MarkTypes, InboxTypes, PlaceTypes, IdTypes, SlotKept, DrainTypes, Fresh, OneCopy,
           InboxFirst, MemBehindRow, ConsumedPending, AckHeard, Next
    PROVE  Promise!Next \/ UNCHANGED Promise!vars
  <1>1. CASE UNCHANGED <<row, inbox, heard>>
    <2>1. \A r \in Requests : Fate(r)' = Fate(r)
      BY <1>1 DEF Fate, Copies
    <2> QED  BY <1>1, <2>1 DEF Promise!vars
  <1>2. ASSUME NEW r \in Requests, CreateSteering(r), row' # row
        PROVE  Promise!Next
    <2>1. /\ row' = [row EXCEPT ![Direct(r)] = "pending"] /\ UNCHANGED <<inbox, heard>>
          /\ pc[r] = "write"
      BY <1>2 DEF CreateSteering, ghosts
    <2>2. row[Direct(r)] = None /\ inbox[r] = None /\ row[Inbox(r)] = None
      BY <2>1 DEF Fresh, Untaken, InboxFirst
    <2>3. Fate(r) = "offered" /\ Fate(r)' = "kept"
      BY <2>1, <2>2, FateOf, FateOfNext, IdNames DEF MarkTypes, None
    <2>4. \A q \in Requests \ {r} : Fate(q)' = Fate(q)
      BY <2>1, IdNames DEF Fate, Copies, MarkTypes
    <2>5. Promise!Take(r)
      BY <2>1, <2>3, <2>4 DEF Promise!Take
    <2> QED  BY <2>5 DEF Promise!Next
  <1>3. ASSUME NEW r \in Requests, QueueInInbox(r), inbox' # inbox
        PROVE  Promise!Next
    <2>1. /\ inbox' = [inbox EXCEPT ![r] = "waiting"] /\ UNCHANGED <<row, heard>>
          /\ pc[r] = "wait"
      BY <1>3 DEF QueueInInbox, ghosts
    <2>2. row[Direct(r)] = None /\ inbox[r] = None /\ row[Inbox(r)] = None
      BY <2>1 DEF Fresh, Untaken, InboxFirst
    <2>3. Fate(r) = "offered" /\ Fate(r)' = "kept"
      BY <2>1, <2>2, FateOf, FateOfNext DEF InboxTypes, None
    <2>4. \A q \in Requests \ {r} : Fate(q)' = Fate(q)
      BY <2>1 DEF Fate, Copies, InboxTypes
    <2>5. Promise!Take(r)
      BY <2>1, <2>3, <2>4 DEF Promise!Take
    <2> QED  BY <2>5 DEF Promise!Next
  <1>4. ASSUME NEW r \in Requests, QueueDrained(r)
        PROVE  UNCHANGED Promise!vars
    <2>1. /\ \/ row' = row
             \/ row[Inbox(r)] = None /\ row' = [row EXCEPT ![Inbox(r)] = "pending"]
          /\ UNCHANGED <<inbox, heard>> /\ r \in todo
      BY <1>4 DEF QueueDrained, ghosts
    <2>2. inbox[r] # None /\ row[Direct(r)] = None
      BY <2>1 DEF InboxFirst, OneCopy
    <2>3. Fate(r)' = Fate(r)
      BY <2>1, <2>2, FateOf, FateOfNext, IdNames DEF MarkTypes, None
    <2>4. \A q \in Requests \ {r} : Fate(q)' = Fate(q)
      BY <2>1, IdNames DEF Fate, Copies, MarkTypes
    <2> QED  BY <2>1, <2>3, <2>4 DEF Promise!vars
  <1>5. ASSUME Consume PROVE UNCHANGED Promise!vars
    <2>1. /\ inbox' = inbox \/ inbox' = [inbox EXCEPT ![item] = "surfaced"]
          /\ UNCHANGED <<row, heard>> /\ item \in Requests /\ inbox[item] # None
      BY <1>5 DEF Consume, ghosts, SlotKept, InboxFirst
    <2>2. \A q \in Requests : inbox'[q] = None <=> inbox[q] = None
      BY <2>1 DEF InboxTypes, None
    <2>3. \A q \in Requests : Fate(q)' = Fate(q)
      BY <2>1, <2>2 DEF Fate, Copies
    <2> QED  BY <2>1, <2>3 DEF Promise!vars
  <1>6. ASSUME Respond PROVE Promise!Next
    <2>1. heard' = heard \cup consumed /\ UNCHANGED <<row, inbox>>
      BY <1>6 DEF Respond, rows
    <2> DEFINE H == {r \in Requests : {Direct(r), Inbox(r)} \cap consumed # {}
                                      /\ {Direct(r), Inbox(r)} \cap heard = {}}
    <2>2. \A r \in H : Fate(r) = "kept"
      <3> SUFFICES ASSUME NEW r \in H PROVE Fate(r) = "kept"
        OBVIOUS
      <3>1. row[Direct(r)] # "delivered" /\ row[Inbox(r)] # "delivered"
        BY IdNames DEF AckHeard
      <3>2. row[Direct(r)] # None \/ row[Inbox(r)] # None
        BY IdNames DEF ConsumedPending, Pending, MemBehindRow, None
      <3> QED  BY <3>1, <3>2, FateOf
    <2>3. audience' = audience \cup H
      BY <2>1 DEF audience
    <2>4. \A r \in Requests : Fate(r)' = Fate(r)
      BY <2>1 DEF Fate, Copies
    <2>5. Promise!Hear(H)
      BY <2>2, <2>3, <2>4 DEF Promise!Hear, audience
    <2> QED  BY <2>5 DEF Promise!Next
  <1>7. ASSUME Acknowledge PROVE Promise!Next
    <2>1. /\ row' = [i \in Ids |-> IF i \in Consumed THEN "delivered" ELSE row[i]]
          /\ UNCHANGED <<inbox, heard>> /\ phase = "ack"
      BY <1>7 DEF Acknowledge, ghosts
    <2>2. \A i \in Consumed : i \in heard /\ row[i] # None /\ i \in Ids
      BY <2>1 DEF Consumed, Pending, AckHeard, MemBehindRow, None
    <2> DEFINE D == {r \in Requests : {Direct(r), Inbox(r)} \cap Consumed # {}
                                      /\ Fate(r) # "done"}
    <2>3. \A r \in D : Fate(r) = "kept" /\ r \in audience
      BY <2>2, FateOf DEF audience
    <2>4. \A r \in Requests : Fate(r)' = IF r \in D THEN "done" ELSE Fate(r)
      <3> SUFFICES ASSUME NEW r \in Requests
                   PROVE  Fate(r)' = IF r \in D THEN "done" ELSE Fate(r)
        OBVIOUS
      <3>1. CASE {Direct(r), Inbox(r)} \cap Consumed # {}
        BY <2>1, <3>1, FateOf, FateOfNext, IdNames
      <3>2. CASE {Direct(r), Inbox(r)} \cap Consumed = {}
        BY <2>1, <3>2, IdNames DEF Fate, Copies
      <3> QED  BY <3>1, <3>2
    <2>5. audience' = audience
      BY <2>1 DEF audience
    <2>6. Promise!Finish(D)
      BY <2>3, <2>4, <2>5 DEF Promise!Finish, audience
    <2> QED  BY <2>6 DEF Promise!Next
  <1>8. ASSUME NEW r \in Requests,
               Record(r) \/ StartDelivery(r) \/ Arrive(r) \/ Resolve(r) \/ AcceptSteering(r)
               \/ AddSteering(r) \/ NoteOutcome(r) \/ RunPromoted(r)
        PROVE  UNCHANGED <<row, inbox, heard>>
    BY <1>8 DEF Record, StartDelivery, Arrive, Resolve, AcceptSteering, AddSteering,
        NoteOutcome, RunPromoted, rows, ghosts
  <1>9. ASSUME NEW t \in MessageTurns, RegisterMessage(t)
        PROVE  UNCHANGED <<row, inbox, heard>>
    BY <1>9 DEF RegisterMessage, rows, ghosts
  <1>10. ASSUME \/ PlanMessage \/ PlanSteering \/ PlanFails \/ ReadInbox \/ AddDrained
                \/ DrainEnds \/ StartRun \/ EnqueueSteering \/ Acknowledged \/ Interrupt
                \/ PersistSnapshot \/ Close \/ Free \/ Reserve \/ Release \/ Crash
         PROVE  UNCHANGED <<row, inbox, heard>>
    BY <1>10 DEF PlanMessage, PlanSteering, PlanFails, ReadInbox, AddDrained, DrainEnds,
        StartRun, EnqueueSteering, Acknowledged, Interrupt, PersistSnapshot, Close, Free,
        Reserve, Release, Crash, rows, ghosts
  <1>11. ASSUME NEW r \in Requests, CreateSteering(r) \/ QueueInInbox(r)
         PROVE  UNCHANGED <<row, inbox, heard>> \/ Promise!Next
    BY <1>2, <1>3, <1>11 DEF CreateSteering, QueueInInbox, ghosts
  <1> QED  BY <1>1, <1>4, <1>5, <1>6, <1>7, <1>8, <1>9, <1>10, <1>11
           DEF Next, Intake, TurnStep

(* A step that changes nothing changes no fate.                            *)
LEMMA StutterIsPromised == ASSUME UNCHANGED vars PROVE UNCHANGED Promise!vars
  <1>1. UNCHANGED <<row, inbox, heard>>
    BY DEF vars, rows, ghosts
  <1>2. \A r \in Requests : Fate(r)' = Fate(r)
    BY <1>1 DEF Fate, Copies
  <1> QED  BY <1>1, <1>2 DEF Promise!vars

-----------------------------------------------------------------------------
(* The inductive invariant.                                                *)

Types ==
    /\ DeliveryTypes /\ InboxTypes /\ MarkTypes /\ FlagTypes /\ PlaceTypes
    /\ AnswerTypes /\ TurnTypes /\ DrainTypes /\ IdTypes /\ CountTypes
IntakeKept ==
    /\ SlotKept /\ OutcomeAnswered /\ InboxFirst /\ Fresh /\ OneCopy
    /\ Claimed
ReplayKept ==
    /\ MemBehindRow /\ ConsumedPending /\ AckHeard /\ SavedDelivered
    /\ DeliveredSaved /\ FollowUpReady
DInv == Types /\ IntakeKept /\ ReplayKept

(* Every part holds at the start.                                          *)
LEMMA Starts == Init => DInv
  <1> SUFFICES ASSUME Init PROVE DInv
    OBVIOUS
  <1>1. DeliveryTypes
    BY DEF Init, DeliveryTypes, Deliveries
  <1>2. InboxTypes
    BY DEF Init, InboxTypes
  <1>3. MarkTypes
    BY DEF Init, MarkTypes, Marks
  <1>4. FlagTypes
    BY DEF Init, FlagTypes
  <1>5. PlaceTypes
    BY DEF Init, PlaceTypes
  <1>6. AnswerTypes
    BY DEF Init, AnswerTypes
  <1>7. TurnTypes
    BY DEF Init, TurnTypes, Phases, Turns
  <1>8. DrainTypes
    BY DEF Init, DrainTypes
  <1>9. IdTypes
    BY DEF Init, IdTypes
  <1>10. CountTypes
    BY BoundsAssumption DEF Init, CountTypes
  <1>11. SlotKept
    BY DEF Init, SlotKept, None
  <1>12. OutcomeAnswered
    BY DEF Init, OutcomeAnswered
  <1>13. InboxFirst
    BY IdNames DEF Init, InboxFirst, None
  <1>14. Fresh
    BY IdNames DEF Init, Fresh, None
  <1>15. OneCopy
    BY IdNames DEF Init, OneCopy, None
  <1>16. Claimed
    BY IdNames, RequestsAssumption DEF Init, Claimed, None, Begun, Posts
  <1>17. MemBehindRow
    BY DEF Init, MemBehindRow, None
  <1>18. ConsumedPending
    BY DEF Init, ConsumedPending, Over, Pending
  <1>19. AckHeard
    BY DEF Init, AckHeard, None
  <1>20. SavedDelivered
    BY DEF Init, SavedDelivered
  <1>21. DeliveredSaved
    BY DEF Init, DeliveredSaved, None
  <1>22. FollowUpReady
    BY DEF Init, FollowUpReady, None, Unsaid, DrainPhases
  <1> QED  BY <1>1, <1>2, <1>3, <1>4, <1>5, <1>6, <1>7, <1>8, <1>9, <1>10, <1>11, <1>12,
       <1>13, <1>14, <1>15, <1>16, <1>17, <1>18, <1>19, <1>20, <1>21, <1>22
           DEF DInv, Types, IntakeKept, ReplayKept

(* Every part is preserved by every step.                                  *)
LEMMA Steps == ASSUME DInv, Next PROVE DInv'
  <1>1. Types'
    <2>1. DeliveryTypes'
      BY DeliveryTypesStep DEF DInv, Types
    <2>2. InboxTypes'
      BY InboxTypesStep DEF DInv, Types, IntakeKept
    <2>3. MarkTypes'
      BY MarkTypesStep DEF DInv, Types, IntakeKept
    <2>4. FlagTypes'
      BY FlagTypesStep DEF DInv, Types
    <2>5. PlaceTypes'
      BY PlaceTypesStep DEF DInv, Types
    <2>6. AnswerTypes'
      BY AnswerTypesStep DEF DInv, Types
    <2>7. TurnTypes'
      BY TurnTypesStep DEF DInv, Types
    <2>8. DrainTypes'
      BY DrainTypesStep DEF DInv, Types
    <2>9. IdTypes'
      BY IdTypesStep DEF DInv, Types
    <2>10. CountTypes'
      BY CountTypesStep DEF DInv, Types
    <2> QED  BY <2>1, <2>2, <2>3, <2>4, <2>5, <2>6, <2>7, <2>8, <2>9, <2>10 DEF Types
  <1>2. IntakeKept'
    <2>1. SlotKept'
      BY SlotKeptStep DEF DInv, IntakeKept
    <2>2. OutcomeAnswered'
      BY OutcomeAnsweredStep DEF DInv, Types, IntakeKept
    <2>3. InboxFirst'
      BY InboxFirstStep DEF DInv, Types, IntakeKept, ReplayKept
    <2>4. Fresh'
      BY FreshStep DEF DInv, Types, IntakeKept, ReplayKept
    <2>5. OneCopy'
      BY OneCopyStep DEF DInv, Types, IntakeKept, ReplayKept
    <2>6. Claimed'
      BY ClaimedStep DEF DInv, Types, IntakeKept, ReplayKept
    <2> QED  BY <2>1, <2>2, <2>3, <2>4, <2>5, <2>6 DEF IntakeKept
  <1>3. ReplayKept'
    <2>1. MemBehindRow'
      BY MemBehindRowStep DEF DInv, Types, IntakeKept, ReplayKept
    <2>2. ConsumedPending'
      BY ConsumedPendingStep DEF DInv, Types, IntakeKept, ReplayKept
    <2>3. AckHeard'
      BY AckHeardStep DEF DInv, Types, IntakeKept, ReplayKept
    <2>4. SavedDelivered'
      BY SavedDeliveredStep DEF DInv, Types, IntakeKept, ReplayKept
    <2>5. DeliveredSaved'
      BY DeliveredSavedStep DEF DInv, Types, IntakeKept, ReplayKept
    <2>6. FollowUpReady'
      BY FollowUpReadyStep DEF DInv, Types, IntakeKept, ReplayKept
    <2> QED  BY <2>1, <2>2, <2>3, <2>4, <2>5, <2>6 DEF ReplayKept
  <1> QED  BY <1>1, <1>2, <1>3 DEF DInv

(* Every part is preserved when nothing changes.                           *)
LEMMA Stutters == ASSUME DInv, UNCHANGED vars PROVE DInv'
  <1> USE DEF vars, rows, intake, draining, run, ghosts, bounds, outer, slot
  <1>1. Types'
    BY DEF DInv, Types, DeliveryTypes, InboxTypes, MarkTypes, FlagTypes, PlaceTypes,
        AnswerTypes, TurnTypes, DrainTypes, IdTypes, CountTypes
  <1>2. IntakeKept'
    <2>1. SlotKept'
      BY DEF DInv, IntakeKept, SlotKept
    <2>2. OutcomeAnswered'
      BY DEF DInv, IntakeKept, OutcomeAnswered
    <2>3. InboxFirst'
      BY DEF DInv, IntakeKept, InboxFirst
    <2>4. Fresh'
      BY DEF DInv, IntakeKept, Fresh
    <2>5. OneCopy'
      BY DEF DInv, IntakeKept, OneCopy
    <2>6. Claimed'
      BY DEF DInv, IntakeKept, Claimed, Begun
    <2> QED  BY <2>1, <2>2, <2>3, <2>4, <2>5, <2>6 DEF IntakeKept
  <1>3. ReplayKept'
    <2>1. MemBehindRow'
      BY DEF DInv, ReplayKept, MemBehindRow
    <2>2. ConsumedPending'
      BY DEF DInv, ReplayKept, ConsumedPending, Pending
    <2>3. AckHeard'
      BY DEF DInv, ReplayKept, AckHeard
    <2>4. SavedDelivered'
      BY DEF DInv, ReplayKept, SavedDelivered
    <2>5. DeliveredSaved'
      BY DEF DInv, ReplayKept, DeliveredSaved
    <2>6. FollowUpReady'
      BY DEF DInv, ReplayKept, FollowUpReady, PendingFor, Pending
    <2> QED  BY <2>1, <2>2, <2>3, <2>4, <2>5, <2>6 DEF ReplayKept
  <1> QED  BY <1>1, <1>2, <1>3 DEF DInv

-----------------------------------------------------------------------------
(* The theorems.                                                           *)

(* In every reachable state the rows, the cached context, the saved        *)
(* messages and the run that is going on agree on every message.           *)
THEOREM Invariance == Spec => []DInv
  <1>1. DInv /\ [Next]_vars => DInv'
    BY Steps, Stutters
  <1> QED  BY Starts, <1>1, PTL DEF Spec

(* Every variable keeps its type.                                          *)
THEOREM TypeCorrect == Spec => []TypeOK
  <1>1. DInv => TypeOK
    BY DEF DInv, Types, TypeOK, DeliveryTypes, InboxTypes, MarkTypes, FlagTypes,
        PlaceTypes, AnswerTypes, TurnTypes, DrainTypes, IdTypes, CountTypes
  <1> QED  BY <1>1, Invariance, PTL

(* However often an event is recorded, by however many requests at once    *)
(* and over however many restarts, it becomes one message of the session,  *)
(* and between turns what is replayed is what was acknowledged             *)
(* (EventLogService.record and _deliver, IngressService.drain,             *)
(* mark_steering_delivered, _without_steering).                            *)
THEOREM DeliveredOnlyOnce == Spec => []OnceOnly
  <1>1. DInv => OnceOnly
    BY OnePlace, ReplayAgrees DEF DInv, Types, IntakeKept, ReplayKept, OnceOnly
  <1> QED  BY <1>1, Invariance, PTL

(* A follow-up run always has something to say that the model has not been *)
(* given (TurnRunner._handle_output, list_pending_steering).               *)
THEOREM NewsInFollowUps == Spec => FollowUpHasNews
  <1>1. DInv /\ [Next]_vars
        => [phase = "prompt" /\ phase' = "request" /\ rounds > 0 => consumed' # {}]_vars
    BY NewsForTheModel DEF DInv, ReplayKept
  <1> QED  BY <1>1, Invariance, PTL DEF Spec, FollowUpHasNews

(* What a session takes is kept until a model request that carried it has  *)
(* completed, and only then is it done: Delivery implements                *)
(* DeliveryPromise, for any number of messages, turns, rounds of the       *)
(* model, failing writes and deaths of the process.                        *)
THEOREM TakenIsKept == Spec => KeepsItsPromise
  <1>1. Init => Promise!Init
    BY IdNames DEF Init, Promise!Init, Fate, Copies, None
  <1>2. DInv /\ [Next]_vars => [Promise!Next]_(Promise!vars)
    <2>1. ASSUME DInv, Next PROVE [Promise!Next]_(Promise!vars)
      BY <2>1, StepIsPromised DEF DInv, Types, IntakeKept, ReplayKept
    <2>2. ASSUME UNCHANGED vars PROVE [Promise!Next]_(Promise!vars)
      BY <2>2, StutterIsPromised
    <2> QED  BY <2>1, <2>2
  <1> QED  BY <1>1, <1>2, Invariance, PTL DEF Spec, KeepsItsPromise, Promise!Spec

(* The same in the form that TLC checks.                                   *)
THEOREM PromiseIsKept == Spec => PromiseKept
  <1>1. Init => Promise!Init
    BY IdNames DEF Init, Promise!Init, Fate, Copies, None
  <1>2. DInv /\ [Next]_vars => [UNCHANGED vars \/ Promise!Next]_(Promise!vars)
    <2>1. ASSUME DInv, Next PROVE [UNCHANGED vars \/ Promise!Next]_(Promise!vars)
      BY <2>1, StepIsPromised DEF DInv, Types, IntakeKept, ReplayKept
    <2> QED  BY <2>1
  <1> QED  BY <1>1, <1>2, Invariance, PTL DEF Spec, PromiseKept
=============================================================================
