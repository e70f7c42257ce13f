------------------------ MODULE TaskSchedulerProofs ------------------------
(***************************************************************************)
(* What TaskScheduler promises holds for any number of jobs, agents,       *)
(* requests, crashes and other runtimes: its records live as TaskLife says *)
(* (PromiseKept), capacity is kept and no place in it is lost              *)
(* (CapacityIsKept), work of one key and the messages of one agent run in  *)
(* order (TurnsRunInOrder), and agents obey their owners (OwnersAreObeyed).*)
(*                                                                         *)
(* All follow from one inductive invariant, SInv.  Its parts say what the  *)
(* lines hold (who stands in them and who is in front of them), what the   *)
(* runner's sets say of its workers, what holds while the admission is     *)
(* held, and what a stop that is under way has still to cancel.  Each part *)
(* has a lemma that every step preserves it, with one case per action that *)
(* writes what the part reads.                                             *)
(***************************************************************************)
EXTENDS TaskScheduler, SequenceTheorems, FiniteSetTheorems, TLAPS

-----------------------------------------------------------------------------
(* Lines.                                                                  *)

Stands(line, x) == \E i \in DOMAIN line : line[i] = x
(* x leaves its first place, from which those behind move up.              *)
LEMMA WithoutLine ==
    ASSUME NEW S, NEW line \in Seq(S), NEW x
    PROVE  /\ Without(line, x) \in Seq(S)
           /\ ~Stands(line, x) => Without(line, x) = line
           /\ Stands(line, x) =>
                 \E i \in 1..Len(line) :
                    /\ line[i] = x /\ Len(Without(line, x)) = Len(line) - 1
                    /\ \A n \in 1..Len(line) - 1 :
                          Without(line, x)[n] = IF n < i THEN line[n] ELSE line[n + 1]
  <1>1. CASE ~Stands(line, x)
    BY <1>1 DEF Without, Stands
  <1>2. CASE Stands(line, x)
    <2> DEFINE i == CHOOSE i \in DOMAIN line : line[i] = x
               front == SubSeq(line, 1, i - 1)
               back == SubSeq(line, i + 1, Len(line))
    <2>1. i \in 1..Len(line) /\ line[i] = x
      BY <1>2 DEF Stands
    <2> HIDE DEF i
    <2>2. /\ front \in Seq(S) /\ Len(front) = i - 1
          /\ \A n \in 1..i - 1 : front[n] = line[n]
      BY <2>1
    <2>3. /\ back \in Seq(S) /\ Len(back) = Len(line) - i
          /\ \A n \in 1..Len(line) - i : back[n] = line[n + i]
      BY <2>1
    <2>4. Without(line, x) = front \o back
      BY <1>2 DEF Without, Stands, RemoveAt, i
    <2> HIDE DEF front, back
    <2>5. /\ front \o back \in Seq(S) /\ Len(front \o back) = Len(line) - 1
          /\ \A n \in 1..Len(line) - 1 :
                (front \o back)[n] = IF n < i THEN front[n] ELSE back[n - (i - 1)]
      <3>1. /\ front \o back \in Seq(S) /\ Len(front \o back) = Len(front) + Len(back)
            /\ \A n \in 1..Len(front) + Len(back) :
                  (front \o back)[n] = IF n <= Len(front) THEN front[n] ELSE back[n - Len(front)]
        BY <2>2, <2>3, ConcatProperties
      <3> QED  BY <2>1, <2>2, <2>3, <3>1
    <2>6. \A n \in 1..Len(line) - 1 :
             (front \o back)[n] = IF n < i THEN line[n] ELSE line[n + 1]
      BY <2>1, <2>2, <2>3, <2>5
    <2> QED  BY <1>2, <2>1, <2>4, <2>5, <2>6
  <1> QED  BY <1>1, <1>2

Once(line) == \A m, n \in DOMAIN line : line[m] = line[n] => m = n
Among(line, x, k) == \E i \in DOMAIN line : line[i] = x /\ i <= k
Ahead(line, x, y) == \E m \in DOMAIN line :
                        line[m] = x /\ \A n \in DOMAIN line : line[n] = y => m < n

(* Whoever else stands in the line keeps its place or moves up.            *)
LEMMA WithoutKeeps ==
    ASSUME NEW S, NEW line \in Seq(S), NEW x, NEW y, x # y
    PROVE  /\ InFront(line, y) => InFront(Without(line, x), y)
           /\ Stands(Without(line, x), y) <=> Stands(line, y)
           /\ \A k \in Nat : Among(line, y, k) => Among(Without(line, x), y, k)
           /\ \A z : Ahead(line, y, z) => Ahead(Without(line, x), y, z)
  <1> DEFINE rest == Without(line, x)
  <1>1. CASE ~Stands(line, x)
    BY <1>1, WithoutLine
  <1>2. CASE Stands(line, x)
    <2>1. PICK i \in 1..Len(line) :
             /\ line[i] = x /\ Len(rest) = Len(line) - 1
             /\ \A n \in 1..Len(line) - 1 : rest[n] = IF n < i THEN line[n] ELSE line[n + 1]
      BY <1>2, WithoutLine
    <2>2. rest \in Seq(S)
      BY WithoutLine
    <2> HIDE DEF rest
    <2>3. \A m \in 1..Len(line) : line[m] = y =>
             \E n \in 1..Len(rest) : n <= m /\ rest[n] = y /\ n = IF m < i THEN m ELSE m - 1
      <3> SUFFICES ASSUME NEW m \in 1..Len(line), line[m] = y
                   PROVE  \E n \in 1..Len(rest) :
                             n <= m /\ rest[n] = y /\ n = IF m < i THEN m ELSE m - 1
        OBVIOUS
      <3>1. m # i /\ Len(line) \in Nat
        BY <2>1
      <3>2. CASE m < i
        BY <2>1, <3>1, <3>2
      <3>3. CASE m > i
        <4>1. m - 1 \in 1..Len(rest) /\ rest[m - 1] = y
          BY <2>1, <3>1, <3>3
        <4> QED  BY <3>1, <3>3, <4>1
      <3> QED  BY <3>1, <3>2, <3>3
    <2>4. \A n \in 1..Len(rest) :
             \E m \in 1..Len(line) : rest[n] = line[m] /\ n = IF m < i THEN m ELSE m - 1
      <3> SUFFICES ASSUME NEW n \in 1..Len(rest)
                   PROVE  \E m \in 1..Len(line) : rest[n] = line[m] /\ n = IF m < i THEN m ELSE m - 1
        OBVIOUS
      <3>1. CASE n < i
        BY <2>1, <2>2, <3>1
      <3>2. CASE ~(n < i)
        <4>1. n + 1 \in 1..Len(line) /\ rest[n] = line[n + 1]
          BY <2>1, <2>2, <3>2
        <4> QED  BY <3>2, <4>1
      <3> QED  BY <3>1, <3>2
    <2>5. InFront(line, y) => InFront(rest, y)
      BY <2>1, <2>2, <2>3 DEF InFront
    <2>6. Stands(rest, y) <=> Stands(line, y)
      BY <2>2, <2>3, <2>4 DEF Stands
    <2>7. ASSUME NEW k \in Nat, Among(line, y, k) PROVE Among(rest, y, k)
      BY <2>2, <2>3, <2>7 DEF Among
    <2>8. ASSUME NEW z, Ahead(line, y, z) PROVE Ahead(rest, y, z)
      <3>1. PICK m \in 1..Len(line) :
               line[m] = y /\ \A n \in 1..Len(line) : line[n] = z => m < n
        BY <2>8 DEF Ahead
      <3>2. PICK k \in 1..Len(rest) : rest[k] = y /\ k = IF m < i THEN m ELSE m - 1
        BY <2>3, <3>1
      <3>3. ASSUME NEW n \in 1..Len(rest), rest[n] = z PROVE k < n
        <4>1. PICK p \in 1..Len(line) : rest[n] = line[p] /\ n = IF p < i THEN p ELSE p - 1
          BY <2>4, <3>3
        <4>2. m < p
          BY <3>1, <3>3, <4>1
        <4>3. m # i
          BY <2>1, <3>1
        <4> QED  BY <2>1, <3>1, <3>2, <4>1, <4>2, <4>3
      <3> QED  BY <2>2, <3>2, <3>3 DEF Ahead
    <2> QED  BY <2>5, <2>6, <2>7, <2>8 DEF rest
  <1> QED  BY <1>1, <1>2

(* Where everybody stands once, who leaves is gone, and who leaves from    *)
(* the front leaves the tail.                                              *)
LEMMA WithoutOnce ==
    ASSUME NEW S, NEW line \in Seq(S), NEW x, Once(line)
    PROVE  /\ Once(Without(line, x)) /\ ~Stands(Without(line, x), x)
           /\ InFront(line, x) => Tail(line) = Without(line, x)
  <1> DEFINE rest == Without(line, x)
  <1>1. CASE ~Stands(line, x)
    <2>1. rest = line
      BY <1>1, WithoutLine
    <2>2. ~InFront(line, x)
      BY <1>1 DEF Stands, InFront
    <2> QED  BY <1>1, <2>1, <2>2
  <1>2. CASE Stands(line, x)
    <2>1. PICK i \in 1..Len(line) :
             /\ line[i] = x /\ Len(rest) = Len(line) - 1
             /\ \A n \in 1..Len(line) - 1 : rest[n] = IF n < i THEN line[n] ELSE line[n + 1]
      BY <1>2, WithoutLine
    <2>2. rest \in Seq(S)
      BY WithoutLine
    <2> HIDE DEF rest
    <2>3. Once(rest)
      <3> SUFFICES ASSUME NEW m \in 1..Len(rest), NEW n \in 1..Len(rest), rest[m] = rest[n]
                   PROVE  m = n
        BY <2>2 DEF Once
      <3> DEFINE M == IF m < i THEN m ELSE m + 1
                 N == IF n < i THEN n ELSE n + 1
      <3>1. M \in 1..Len(line) /\ N \in 1..Len(line) /\ line[M] = line[N]
        BY <2>1, <2>2
      <3>2. M = N
        BY <3>1 DEF Once
      <3> QED  BY <2>1, <3>2
    <2>4. ~Stands(rest, x)
      <3> SUFFICES ASSUME NEW n \in 1..Len(rest), rest[n] = x PROVE FALSE
        BY <2>2 DEF Stands
      <3> DEFINE N == IF n < i THEN n ELSE n + 1
      <3>1. N \in 1..Len(line) /\ line[N] = line[i] /\ N # i
        BY <2>1, <2>2
      <3> QED  BY <3>1 DEF Once
    <2>5. ASSUME InFront(line, x) PROVE Tail(line) = rest
      <3>1. line[1] = x /\ line # <<>>
        BY <2>5 DEF InFront
      <3>2. i = 1
        BY <2>1, <3>1 DEF Once
      <3>3. Tail(line) \in Seq(S) /\ Len(Tail(line)) = Len(line) - 1
            /\ \A n \in 1..Len(line) - 1 : Tail(line)[n] = line[n + 1]
        BY <3>1
      <3> QED  BY <2>1, <2>2, <3>2, <3>3, SeqEqual
    <2> QED  BY <2>3, <2>4, <2>5 DEF rest
  <1> QED  BY <1>1, <1>2

(* A newcomer stands last and disturbs nobody.                             *)
LEMMA AppendKeeps ==
    ASSUME NEW S, NEW line \in Seq(S), NEW x \in S, NEW y
    PROVE  /\ Append(line, x) \in Seq(S)
           /\ InFront(line, y) => InFront(Append(line, x), y)
           /\ Stands(Append(line, x), y) <=> Stands(line, y) \/ y = x
           /\ \A k \in Nat : Among(line, y, k) => Among(Append(line, x), y, k)
           /\ Once(line) /\ ~Stands(line, x) => Once(Append(line, x))
           /\ \A z : Ahead(line, y, z) => Ahead(Append(line, x), y, z)
           /\ Stands(line, y) /\ ~Stands(line, x) => Ahead(Append(line, x), y, x)
  <1> DEFINE more == Append(line, x)
  <1>1. /\ more \in Seq(S) /\ Len(more) = Len(line) + 1 /\ more[Len(line) + 1] = x
        /\ \A n \in 1..Len(line) : more[n] = line[n]
    OBVIOUS
  <1> HIDE DEF more
  <1>2. InFront(line, y) => InFront(more, y)
    BY <1>1 DEF InFront
  <1>3. Stands(more, y) <=> Stands(line, y) \/ y = x
    <2>1. \A n \in 1..Len(more) : n \in 1..Len(line) \/ n = Len(line) + 1
      BY <1>1
    <2>2. 1..Len(line) \subseteq 1..Len(more) /\ Len(line) + 1 \in 1..Len(more)
      BY <1>1
    <2> QED  BY <1>1, <2>1, <2>2 DEF Stands
  <1>4. ASSUME NEW k \in Nat, Among(line, y, k) PROVE Among(more, y, k)
    BY <1>1, <1>4 DEF Among
  <1>5. Once(line) /\ ~Stands(line, x) => Once(more)
    <2> SUFFICES ASSUME Once(line), ~Stands(line, x),
                        NEW m \in 1..Len(more), NEW n \in 1..Len(more), more[m] = more[n]
                 PROVE  m = n
      BY <1>1 DEF Once
    <2>1. CASE m \in 1..Len(line) /\ n \in 1..Len(line)
      BY <1>1, <2>1 DEF Once
    <2>2. CASE m \in 1..Len(line) /\ n = Len(line) + 1
      BY <1>1, <2>2 DEF Stands
    <2>3. CASE n \in 1..Len(line) /\ m = Len(line) + 1
      BY <1>1, <2>3 DEF Stands
    <2> QED  BY <1>1, <2>1, <2>2, <2>3
  <1>6. ASSUME NEW z, Ahead(line, y, z) PROVE Ahead(more, y, z)
    <2>1. PICK m \in 1..Len(line) :
             line[m] = y /\ \A n \in 1..Len(line) : line[n] = z => m < n
      BY <1>6 DEF Ahead
    <2>2. \A n \in 1..Len(more) : more[n] = z => m < n
      BY <1>1, <2>1
    <2>3. m \in 1..Len(more) /\ more[m] = y
      BY <1>1, <2>1
    <2> QED  BY <1>1, <2>2, <2>3 DEF Ahead
  <1>7. ASSUME Stands(line, y), ~Stands(line, x) PROVE Ahead(more, y, x)
    <2>1. PICK m \in 1..Len(line) : line[m] = y
      BY <1>7 DEF Stands
    <2>2. \A n \in 1..Len(more) : more[n] = x => m < n
      BY <1>1, <1>7, <2>1 DEF Stands
    <2>3. m \in 1..Len(more) /\ more[m] = y
      BY <1>1, <2>1
    <2> QED  BY <1>1, <2>2, <2>3 DEF Ahead
  <1> QED  BY <1>1, <1>2, <1>3, <1>4, <1>5, <1>6, <1>7 DEF more

(* Who is in front stands in the line, alone, with nobody ahead.           *)
LEMMA FrontIsAlone ==
    ASSUME NEW S, NEW line \in Seq(S), NEW x, InFront(line, x)
    PROVE  /\ Stands(line, x) /\ \A y : InFront(line, y) => y = x
           /\ \A y : ~Ahead(line, y, x)
  BY DEF InFront, Stands, Ahead

(***************************************************************************)
(* Types, one part for each group of variables.                            *)
(***************************************************************************)
RecordTypes == status \in [Jobs -> Statuses] /\ told \in [Jobs -> Seq(Ends)]
AgentTypes  == agent \in [Agents -> [status : {"absent", "active", "stopped"},
                                    session : Sessions, config : SUBSET Ops]]
SetTypes    == tracked \subseteq Jobs /\ requested \subseteq Jobs /\ killed \subseteq Jobs
SlotTypes   == slots \in Seq(Jobs)
ReadyTypes  == ready \in Seq(Jobs)
BornTypes   == born \in Seq(Jobs)
GateTypes   == admission \in Seq(Jobs \cup Ops)
OrderTypes  == orders \in [Keys -> Seq(Jobs)]
PlaceTypes  == pc \in [Jobs -> Places]
BoundTypes  == bound \in [Jobs -> [session : Sessions \cup {None}, config : SUBSET Ops]]
OpTypes     == opc \in [Ops -> {"idle", "admit", "acting", "cancelling", "draining",
                               "await", "closing", "done"}]
TodoTypes   == todo \in [Ops -> SUBSET Jobs]
VictimTypes == victim \in [Ops -> Jobs \cup {None}]
PinTypes    == pins \in [Sessions -> Int]
CountTypes  == /\ up \in BOOLEAN /\ open \in BOOLEAN
               /\ crashes \in Nat /\ others \in Nat /\ faults \in Nat
VerdictTypes == verdict \in [Jobs -> Ends \cup {None}]

(* Whose target an agent operation's is.                                   *)
LEMMA Targets ==
    ASSUME NEW o \in Ops
    PROVE  /\ OpKind[o] \in {"cancel", "start", "move", "configure", "stop", "shutdown"}
           /\ OpKind[o] = "cancel" => Target[o] \in Jobs
           /\ OpKind[o] \in {"start", "move", "configure", "stop"} => Target[o] \in Agents
           /\ Goal[o] \in Sessions /\ \A a \in Agents : Home[a] \in Sessions
  <1>1. Target[o] \in CASE OpKind[o] = "cancel" -> Jobs
                        [] OpKind[o] = "shutdown" -> {None}
                        [] OTHER -> Agents
    BY OpsAssumption
  <1> QED  BY <1>1, OpsAssumption

(* A job's order key, and that of a message is its agent.                  *)
LEMMA KeysOf ==
    ASSUME NEW j \in Jobs
    PROVE  /\ KeyOf(j) # None => KeyOf(j) \in Keys
           /\ j \in Messages => AgentOf[j] \in Agents /\ KeyOf(j) = AgentOf[j] /\ KeyOf(j) # None
  BY JobsAssumption DEF KeyOf, Keys, Messages

(* The requests that are at work, and what kind they are.                  *)
OpPlaces ==
    \A o \in Ops :
       /\ opc[o] \in {"admit", "acting"} => o \in AgentOps
       /\ opc[o] = "cancelling" => OpKind[o] \in {"cancel", "stop"}
       /\ opc[o] = "draining" => OpKind[o] = "shutdown"
       /\ opc[o] \in {"await", "closing"} =>
             OpKind[o] \in {"cancel", "stop", "shutdown"} /\ victim[o] \in Jobs
(* Nothing goes on in a process that died.                                 *)
NothingWhenDown ==
    ~up => /\ ~open /\ tracked = {} /\ killed = {}
           /\ \A j \in Jobs : pc[j] \in {"idle", "refused", "over"}
           /\ \A o \in Ops : opc[o] \in {"idle", "done"}

(* opc keeps its type.                                                     *)
LEMMA OpTypesStep ==
    ASSUME OpTypes, Next
    PROVE  OpTypes'
  <1>1. CASE UNCHANGED opc
    BY <1>1 DEF OpTypes
  <1>2. ASSUME NEW o \in Ops, AskCancel(o) PROVE OpTypes'
    BY <1>2 DEF OpTypes, AskCancel, OpGoto
  <1>3. ASSUME NEW o \in Ops, AskAgent(o) PROVE OpTypes'
    BY <1>3 DEF OpTypes, AskAgent, OpGoto
  <1>4. ASSUME NEW o \in Ops, Shutdown(o) PROVE OpTypes'
    BY <1>4 DEF OpTypes, Shutdown, OpGoto
  <1>5. ASSUME NEW o \in Ops, CancelNext(o) PROVE OpTypes'
    BY <1>5 DEF OpTypes, CancelNext, OpGoto
  <1>6. ASSUME NEW o \in Ops, DrainNext(o) PROVE OpTypes'
    BY <1>6 DEF OpTypes, DrainNext, OpGoto
  <1>7. ASSUME NEW o \in Ops, AwaitWorker(o) PROVE OpTypes'
    BY <1>7 DEF OpTypes, AwaitWorker, OpGoto, Resumes
  <1>8. ASSUME NEW o \in Ops, FinishUnstarted(o) PROVE OpTypes'
    BY <1>8 DEF OpTypes, FinishUnstarted, OpGoto, Resumes
  <1>9. ASSUME NEW o \in Ops, FinishOp(o) PROVE OpTypes'
    BY <1>9 DEF OpTypes, FinishOp, OpGoto
  <1>10. ASSUME NEW o \in Ops, CheckAgent(o) PROVE OpTypes'
    BY <1>10 DEF OpTypes, CheckAgent, OpGoto
  <1>11. ASSUME NEW o \in Ops, StartAgent(o) PROVE OpTypes'
    BY <1>11 DEF OpTypes, StartAgent, OpGoto
  <1>12. ASSUME NEW o \in Ops, MoveAgent(o) PROVE OpTypes'
    BY <1>12 DEF OpTypes, MoveAgent, OpGoto
  <1>13. ASSUME NEW o \in Ops, ConfigureAgent(o) PROVE OpTypes'
    BY <1>13 DEF OpTypes, ConfigureAgent, OpGoto
  <1>14. ASSUME NEW o \in Ops, StopAgent(o) PROVE OpTypes'
    BY <1>14 DEF OpTypes, StopAgent, OpGoto
  <1>15. ASSUME Crash PROVE OpTypes'
    BY <1>15 DEF OpTypes, Crash
  <1>16. ASSUME NEW j \in Jobs, AskTask(j) \/ AskMessage(j) \/ AcceptMessage(j)
            \/ CreateRecord(j) \/ Submit(j) \/ LoseCaller(j) \/ BeginWork(j)
            \/ QueueForSlot(j) \/ TakeSlot(j) \/ ReadAgent(j) \/ CommitStart(j)
            \/ StartTurn(j) \/ MissStart(j) \/ EndTurn(j) \/ CommitEnd(j)
            \/ FinishWork(j) \/ Killed(j) \/ FailWrite(j)
       PROVE  UNCHANGED opc
    BY <1>16 DEF AskTask, opVars, AskMessage, AcceptMessage, CreateRecord, Submit,
        LoseCaller, BeginWork, QueueForSlot, TakeSlot, ReadAgent, CommitStart, StartTurn,
        MissStart, EndTurn, CommitEnd, FinishWork, Killed, FailWrite
  <1>17. ASSUME OtherStarts \/ Restart PROVE UNCHANGED opc
    BY <1>17 DEF OtherStarts, opVars, Restart
  <1> QED  BY <1>1, <1>2, <1>3, <1>4, <1>5, <1>6, <1>7, <1>8, <1>9, <1>10, <1>11, <1>12,
       <1>13, <1>14, <1>15, <1>16, <1>17
    DEF Next, CallerStep, WorkerStep, OpArrives, OpStep

(* pc keeps its type.                                                      *)
LEMMA PlaceTypesStep ==
    ASSUME PlaceTypes, Next
    PROVE  PlaceTypes'
  <1>1. CASE UNCHANGED pc
    BY <1>1 DEF PlaceTypes, Places, Workers, SlotPlaces, Callers
  <1>2. ASSUME NEW j \in Jobs, AskTask(j) PROVE PlaceTypes'
    BY <1>2 DEF PlaceTypes, AskTask, Goto, Places, Workers, SlotPlaces, Callers
  <1>3. ASSUME NEW j \in Jobs, AskMessage(j) PROVE PlaceTypes'
    BY <1>3 DEF PlaceTypes, AskMessage, Goto, Places, Workers, SlotPlaces, Callers
  <1>4. ASSUME NEW j \in Jobs, AcceptMessage(j) PROVE PlaceTypes'
    BY <1>4 DEF PlaceTypes, AcceptMessage, Goto, Places, Workers, SlotPlaces, Callers
  <1>5. ASSUME NEW j \in Jobs, CreateRecord(j) PROVE PlaceTypes'
    BY <1>5 DEF PlaceTypes, CreateRecord, Goto, Places, Workers, SlotPlaces, Callers
  <1>6. ASSUME NEW j \in Jobs, Submit(j) PROVE PlaceTypes'
    BY <1>6 DEF PlaceTypes, Submit, Goto, Places, Workers, SlotPlaces, Callers
  <1>7. ASSUME NEW j \in Jobs, LoseCaller(j) PROVE PlaceTypes'
    BY <1>7 DEF PlaceTypes, LoseCaller, Goto, Places, Workers, SlotPlaces, Callers
  <1>8. ASSUME NEW j \in Jobs, BeginWork(j) PROVE PlaceTypes'
    BY <1>8 DEF PlaceTypes, BeginWork, Goto, Places, Workers, SlotPlaces, Callers
  <1>9. ASSUME NEW j \in Jobs, QueueForSlot(j) PROVE PlaceTypes'
    BY <1>9 DEF PlaceTypes, QueueForSlot, Goto, Places, Workers, SlotPlaces, Callers
  <1>10. ASSUME NEW j \in Jobs, TakeSlot(j) PROVE PlaceTypes'
    BY <1>10 DEF PlaceTypes, TakeSlot, Goto, Places, Workers, SlotPlaces, Callers
  <1>11. ASSUME NEW j \in Jobs, ReadAgent(j) PROVE PlaceTypes'
    BY <1>11 DEF PlaceTypes, ReadAgent, Goto, RecordEnd, Places, Workers, SlotPlaces,
        Callers
  <1>12. ASSUME NEW j \in Jobs, CommitStart(j) PROVE PlaceTypes'
    BY <1>12 DEF PlaceTypes, CommitStart, Goto, Places, Workers, SlotPlaces, Callers
  <1>13. ASSUME NEW j \in Jobs, StartTurn(j) PROVE PlaceTypes'
    BY <1>13 DEF PlaceTypes, StartTurn, Goto, Places, Workers, SlotPlaces, Callers
  <1>14. ASSUME NEW j \in Jobs, MissStart(j) PROVE PlaceTypes'
    BY <1>14 DEF PlaceTypes, MissStart, Goto, Places, Workers, SlotPlaces, Callers
  <1>15. ASSUME NEW j \in Jobs, EndTurn(j) PROVE PlaceTypes'
    BY <1>15 DEF PlaceTypes, EndTurn, RecordEnd, Goto, Places, Workers, SlotPlaces,
        Callers
  <1>16. ASSUME NEW j \in Jobs, CommitEnd(j) PROVE PlaceTypes'
    BY <1>16 DEF PlaceTypes, CommitEnd, Goto, Places, Workers, SlotPlaces, Callers
  <1>17. ASSUME NEW j \in Jobs, FinishWork(j) PROVE PlaceTypes'
    BY <1>17 DEF PlaceTypes, FinishWork, Goto, Places, Workers, SlotPlaces, Callers
  <1>18. ASSUME NEW j \in Jobs, Killed(j) PROVE PlaceTypes'
    BY <1>18 DEF PlaceTypes, Killed, Goto, RecordEnd, Places, Workers, SlotPlaces, Callers
  <1>19. ASSUME NEW j \in Jobs, FailWrite(j) PROVE PlaceTypes'
    BY <1>19 DEF PlaceTypes, FailWrite, Goto, RecordEnd, Places, Workers, SlotPlaces,
        Callers
  <1>20. ASSUME Crash PROVE PlaceTypes'
    BY <1>20 DEF PlaceTypes, Crash, Places, Workers, SlotPlaces, Callers
  <1>21. ASSUME NEW o \in Ops, AskCancel(o) \/ AskAgent(o) \/ Shutdown(o)
            \/ CancelNext(o) \/ DrainNext(o) \/ AwaitWorker(o) \/ FinishUnstarted(o)
            \/ FinishOp(o) \/ CheckAgent(o) \/ StartAgent(o) \/ MoveAgent(o)
            \/ ConfigureAgent(o) \/ StopAgent(o)
       PROVE  UNCHANGED pc
    BY <1>21 DEF AskCancel, workerVars, AskAgent, Shutdown, CancelNext, DrainNext,
        AwaitWorker, FinishUnstarted, FinishOp, CheckAgent, StartAgent, MoveAgent,
        ConfigureAgent, StopAgent
  <1>22. ASSUME OtherStarts \/ Restart PROVE UNCHANGED pc
    BY <1>22 DEF OtherStarts, workerVars, Restart
  <1> QED  BY <1>1, <1>2, <1>3, <1>4, <1>5, <1>6, <1>7, <1>8, <1>9, <1>10, <1>11, <1>12,
       <1>13, <1>14, <1>15, <1>16, <1>17, <1>18, <1>19, <1>20, <1>21, <1>22
    DEF Next, CallerStep, WorkerStep, OpArrives, OpStep

(* Where each step takes its job.                                          *)
Moved(j, from, to) == /\ pc[j] \in from /\ pc'[j] \in to
                      /\ \A k \in Jobs \ {j} : pc'[k] = pc[k]
(* Every step of a caller or a worker takes its job, and no other, from    *)
(* and to the places named.                                                *)
LEMMA Moves ==
    ASSUME PlaceTypes, NEW j \in Jobs
    PROVE  /\ AskTask(j) => Moved(j, {"idle"}, {"creating", "refused"})
           /\ AskMessage(j) => Moved(j, {"idle"}, {"ask"})
           /\ AcceptMessage(j) => Moved(j, {"ask"}, {"creating", "refused"})
           /\ CreateRecord(j) => Moved(j, {"creating"}, {"created"})
           /\ Submit(j) => Moved(j, {"created"}, {"unstarted"})
           /\ LoseCaller(j) => Moved(j, {"ask", "creating", "created"}, {"refused"})
           /\ BeginWork(j) => Moved(j, {"unstarted"}, {"over", "order", "slot"})
           /\ QueueForSlot(j) => Moved(j, {"order"}, {"slot"})
           /\ TakeSlot(j) => Moved(j, {"slot"}, {"starting", "admit"})
           /\ ReadAgent(j) => Moved(j, {"admit"}, {"starting", "ending"})
           /\ CommitStart(j) => Moved(j, {"starting"}, {"started", "missed"})
           /\ StartTurn(j) => Moved(j, {"started"}, {"turn"})
           /\ MissStart(j) => Moved(j, {"missed"}, {"over"})
           /\ EndTurn(j) => Moved(j, {"turn"}, {"ending"})
           /\ CommitEnd(j) => Moved(j, {"ending"}, {"ended", "lapsed"})
           /\ FinishWork(j) => Moved(j, {"ended", "lapsed"}, {"over"})
           /\ Killed(j) => Moved(j, Workers, {"ending", "over"})
           /\ FailWrite(j) => Moved(j, {"starting", "ending"}, {"ending", "over"})
  <1>1. AskTask(j) => Moved(j, {"idle"}, {"creating", "refused"})
    BY DEF AskTask, Goto, PlaceTypes, Moved
  <1>2. AskMessage(j) => Moved(j, {"idle"}, {"ask"})
    BY DEF AskMessage, Goto, PlaceTypes, Moved
  <1>3. AcceptMessage(j) => Moved(j, {"ask"}, {"creating", "refused"})
    BY DEF AcceptMessage, Goto, PlaceTypes, Moved
  <1>4. CreateRecord(j) => Moved(j, {"creating"}, {"created"})
    BY DEF CreateRecord, Goto, PlaceTypes, Moved
  <1>5. Submit(j) => Moved(j, {"created"}, {"unstarted"})
    BY DEF Submit, Goto, PlaceTypes, Moved
  <1>6. LoseCaller(j) => Moved(j, {"ask", "creating", "created"}, {"refused"})
    BY DEF LoseCaller, Goto, Callers, PlaceTypes, Moved
  <1>7. BeginWork(j) => Moved(j, {"unstarted"}, {"over", "order", "slot"})
    BY DEF BeginWork, Goto, Runs, PlaceTypes, Moved
  <1>8. QueueForSlot(j) => Moved(j, {"order"}, {"slot"})
    BY DEF QueueForSlot, Goto, Runs, PlaceTypes, Moved
  <1>9. TakeSlot(j) => Moved(j, {"slot"}, {"starting", "admit"})
    BY DEF TakeSlot, Goto, Runs, PlaceTypes, Moved
  <1>10. ReadAgent(j) => Moved(j, {"admit"}, {"starting", "ending"})
    BY DEF ReadAgent, Goto, RecordEnd, Runs, PlaceTypes, Moved
  <1>11. CommitStart(j) => Moved(j, {"starting"}, {"started", "missed"})
    BY DEF CommitStart, Goto, Runs, PlaceTypes, Moved
  <1>12. StartTurn(j) => Moved(j, {"started"}, {"turn"})
    BY DEF StartTurn, Goto, Runs, PlaceTypes, Moved
  <1>13. MissStart(j) => Moved(j, {"missed"}, {"over"})
    BY DEF MissStart, Goto, Runs, PlaceTypes, Moved
  <1>14. EndTurn(j) => Moved(j, {"turn"}, {"ending"})
    BY DEF EndTurn, RecordEnd, Goto, Runs, PlaceTypes, Moved
  <1>15. CommitEnd(j) => Moved(j, {"ending"}, {"ended", "lapsed"})
    BY DEF CommitEnd, Goto, Runs, PlaceTypes, Moved
  <1>16. FinishWork(j) => Moved(j, {"ended", "lapsed"}, {"over"})
    BY DEF FinishWork, Goto, Runs, PlaceTypes, Moved
  <1>17. Killed(j) => Moved(j, Workers, {"ending", "over"})
    BY DEF Killed, Goto, RecordEnd, Workers, SlotPlaces, PlaceTypes, Moved
  <1>18. FailWrite(j) => Moved(j, {"starting", "ending"}, {"ending", "over"})
    BY DEF FailWrite, Goto, RecordEnd, Runs, PlaceTypes, Moved
  <1> QED  BY <1>1, <1>2, <1>3, <1>4, <1>5, <1>6, <1>7, <1>8, <1>9, <1>10, <1>11, <1>12,
       <1>13, <1>14, <1>15, <1>16, <1>17, <1>18

(* The runner's sets stay sets of jobs.                                    *)
LEMMA SetTypesStep ==
    ASSUME SetTypes, VictimTypes, TodoTypes, OpPlaces, Next
    PROVE  SetTypes'
  <1>1. CASE UNCHANGED <<tracked, requested, killed>>
    BY <1>1 DEF SetTypes
  <1>2. ASSUME NEW j \in Jobs, Submit(j) PROVE SetTypes'
    BY <1>2 DEF SetTypes, VictimTypes, TodoTypes, OpPlaces, Submit
  <1>3. ASSUME NEW j \in Jobs, ReadAgent(j) PROVE SetTypes'
    BY <1>3 DEF SetTypes, VictimTypes, TodoTypes, OpPlaces, ReadAgent
  <1>4. ASSUME NEW j \in Jobs, MissStart(j) PROVE SetTypes'
    BY <1>4 DEF SetTypes, VictimTypes, TodoTypes, OpPlaces, MissStart, Forget
  <1>5. ASSUME NEW j \in Jobs, FinishWork(j) PROVE SetTypes'
    BY <1>5 DEF SetTypes, VictimTypes, TodoTypes, OpPlaces, FinishWork, Forget
  <1>6. ASSUME NEW j \in Jobs, Killed(j) PROVE SetTypes'
    BY <1>6 DEF SetTypes, VictimTypes, TodoTypes, OpPlaces, Killed, Forget, runnerVars
  <1>7. ASSUME NEW j \in Jobs, FailWrite(j) PROVE SetTypes'
    BY <1>7 DEF SetTypes, VictimTypes, TodoTypes, OpPlaces, FailWrite, Forget, runnerVars
  <1>8. ASSUME NEW o \in Ops, Shutdown(o) PROVE SetTypes'
    BY <1>8 DEF SetTypes, VictimTypes, TodoTypes, OpPlaces, Shutdown, Kill, runnerVars
  <1>9. ASSUME NEW o \in Ops, CancelNext(o) PROVE SetTypes'
    BY <1>9 DEF SetTypes, VictimTypes, TodoTypes, OpPlaces, CancelNext, Kill
  <1>10. ASSUME NEW o \in Ops, AwaitWorker(o) PROVE SetTypes'
    BY <1>10 DEF SetTypes, VictimTypes, TodoTypes, OpPlaces, AwaitWorker, Forget
  <1>11. ASSUME Crash PROVE SetTypes'
    BY <1>11 DEF SetTypes, VictimTypes, TodoTypes, OpPlaces, Crash
  <1>12. ASSUME NEW j \in Jobs, AskTask(j) \/ AskMessage(j) \/ AcceptMessage(j)
            \/ CreateRecord(j) \/ LoseCaller(j) \/ BeginWork(j) \/ QueueForSlot(j)
            \/ TakeSlot(j) \/ CommitStart(j) \/ StartTurn(j) \/ EndTurn(j)
            \/ CommitEnd(j)
       PROVE  UNCHANGED <<tracked, requested, killed>>
    BY <1>12 DEF AskTask, AskMessage, runnerVars, AcceptMessage, CreateRecord, LoseCaller,
        BeginWork, QueueForSlot, TakeSlot, CommitStart, StartTurn, EndTurn, CommitEnd
  <1>13. ASSUME NEW o \in Ops, AskCancel(o) \/ AskAgent(o) \/ DrainNext(o)
            \/ FinishUnstarted(o) \/ FinishOp(o) \/ CheckAgent(o) \/ StartAgent(o)
            \/ MoveAgent(o) \/ ConfigureAgent(o) \/ StopAgent(o)
       PROVE  UNCHANGED <<tracked, requested, killed>>
    BY <1>13 DEF AskCancel, runnerVars, AskAgent, DrainNext, FinishUnstarted, FinishOp,
        CheckAgent, StartAgent, MoveAgent, ConfigureAgent, StopAgent
  <1>14. ASSUME OtherStarts \/ Restart PROVE UNCHANGED <<tracked, requested, killed>>
    BY <1>14 DEF OtherStarts, runnerVars, Restart
  <1> QED  BY <1>1, <1>2, <1>3, <1>4, <1>5, <1>6, <1>7, <1>8, <1>9, <1>10, <1>11, <1>12,
       <1>13, <1>14
    DEF Next, CallerStep, WorkerStep, OpArrives, OpStep

(* todo keeps its type.                                                    *)
LEMMA TodoTypesStep ==
    ASSUME TodoTypes, SetTypes, Next
    PROVE  TodoTypes'
  <1>1. CASE UNCHANGED todo
    BY <1>1 DEF TodoTypes, WorkOf
  <1>2. ASSUME NEW o \in Ops, AskCancel(o) PROVE TodoTypes'
    BY <1>2, Targets DEF TodoTypes, SetTypes, AskCancel, WorkOf
  <1>3. ASSUME NEW o \in Ops, Shutdown(o) PROVE TodoTypes'
    BY <1>3 DEF TodoTypes, SetTypes, Shutdown, WorkOf
  <1>4. ASSUME NEW o \in Ops, CancelNext(o) PROVE TodoTypes'
    BY <1>4 DEF TodoTypes, SetTypes, CancelNext, WorkOf
  <1>5. ASSUME NEW o \in Ops, DrainNext(o) PROVE TodoTypes'
    BY <1>5 DEF TodoTypes, SetTypes, DrainNext, WorkOf
  <1>6. ASSUME NEW o \in Ops, StopAgent(o) PROVE TodoTypes'
    BY <1>6 DEF TodoTypes, SetTypes, StopAgent, WorkOf
  <1>7. ASSUME Crash PROVE TodoTypes'
    BY <1>7 DEF TodoTypes, SetTypes, Crash, WorkOf
  <1>8. ASSUME NEW j \in Jobs, AskTask(j) \/ AskMessage(j) \/ AcceptMessage(j)
            \/ CreateRecord(j) \/ Submit(j) \/ LoseCaller(j) \/ BeginWork(j)
            \/ QueueForSlot(j) \/ TakeSlot(j) \/ ReadAgent(j) \/ CommitStart(j)
            \/ StartTurn(j) \/ MissStart(j) \/ EndTurn(j) \/ CommitEnd(j)
            \/ FinishWork(j) \/ Killed(j) \/ FailWrite(j)
       PROVE  UNCHANGED todo
    BY <1>8 DEF AskTask, opVars, AskMessage, AcceptMessage, CreateRecord, Submit,
        LoseCaller, BeginWork, QueueForSlot, TakeSlot, ReadAgent, CommitStart, StartTurn,
        MissStart, EndTurn, CommitEnd, FinishWork, Killed, FailWrite
  <1>9. ASSUME NEW o \in Ops, AskAgent(o) \/ AwaitWorker(o) \/ FinishUnstarted(o)
            \/ FinishOp(o) \/ CheckAgent(o) \/ StartAgent(o) \/ MoveAgent(o)
            \/ ConfigureAgent(o)
       PROVE  UNCHANGED todo
    BY <1>9 DEF AskAgent, AwaitWorker, FinishUnstarted, FinishOp, CheckAgent, StartAgent,
        MoveAgent, ConfigureAgent
  <1>10. ASSUME OtherStarts \/ Restart PROVE UNCHANGED todo
    BY <1>10 DEF OtherStarts, opVars, Restart
  <1> QED  BY <1>1, <1>2, <1>3, <1>4, <1>5, <1>6, <1>7, <1>8, <1>9, <1>10
    DEF Next, CallerStep, WorkerStep, OpArrives, OpStep

(* victim keeps its type.                                                  *)
LEMMA VictimTypesStep ==
    ASSUME VictimTypes, TodoTypes, Next
    PROVE  VictimTypes'
  <1>1. CASE UNCHANGED victim
    BY <1>1 DEF VictimTypes
  <1>2. ASSUME NEW o \in Ops, CancelNext(o) PROVE VictimTypes'
    BY <1>2 DEF VictimTypes, TodoTypes, CancelNext
  <1>3. ASSUME NEW o \in Ops, DrainNext(o) PROVE VictimTypes'
    BY <1>3 DEF VictimTypes, TodoTypes, DrainNext
  <1>4. ASSUME Crash PROVE VictimTypes'
    BY <1>4 DEF VictimTypes, TodoTypes, Crash
  <1>5. ASSUME NEW j \in Jobs, AskTask(j) \/ AskMessage(j) \/ AcceptMessage(j)
            \/ CreateRecord(j) \/ Submit(j) \/ LoseCaller(j) \/ BeginWork(j)
            \/ QueueForSlot(j) \/ TakeSlot(j) \/ ReadAgent(j) \/ CommitStart(j)
            \/ StartTurn(j) \/ MissStart(j) \/ EndTurn(j) \/ CommitEnd(j)
            \/ FinishWork(j) \/ Killed(j) \/ FailWrite(j)
       PROVE  UNCHANGED victim
    BY <1>5 DEF AskTask, opVars, AskMessage, AcceptMessage, CreateRecord, Submit,
        LoseCaller, BeginWork, QueueForSlot, TakeSlot, ReadAgent, CommitStart, StartTurn,
        MissStart, EndTurn, CommitEnd, FinishWork, Killed, FailWrite
  <1>6. ASSUME NEW o \in Ops, AskCancel(o) \/ AskAgent(o) \/ Shutdown(o)
            \/ AwaitWorker(o) \/ FinishUnstarted(o) \/ FinishOp(o) \/ CheckAgent(o)
            \/ StartAgent(o) \/ MoveAgent(o) \/ ConfigureAgent(o) \/ StopAgent(o)
       PROVE  UNCHANGED victim
    BY <1>6 DEF AskCancel, AskAgent, Shutdown, AwaitWorker, FinishUnstarted, FinishOp,
        CheckAgent, StartAgent, MoveAgent, ConfigureAgent, StopAgent
  <1>7. ASSUME OtherStarts \/ Restart PROVE UNCHANGED victim
    BY <1>7 DEF OtherStarts, opVars, Restart
  <1> QED  BY <1>1, <1>2, <1>3, <1>4, <1>5, <1>6, <1>7
    DEF Next, CallerStep, WorkerStep, OpArrives, OpStep

(* A request only ever walks through the places of its kind.               *)
LEMMA OpPlacesStep ==
    ASSUME OpPlaces, OpTypes, TodoTypes, VictimTypes, Next
    PROVE  OpPlaces'
  <1>1. CASE UNCHANGED <<opc, victim>>
    BY <1>1 DEF OpPlaces, AgentOps, OfKind
  <1>2. ASSUME NEW o \in Ops, AskCancel(o) PROVE OpPlaces'
    BY <1>2, Targets DEF OpPlaces, OpTypes, TodoTypes, VictimTypes, AskCancel, OpGoto,
        AgentOps, OfKind
  <1>3. ASSUME NEW o \in Ops, AskAgent(o) PROVE OpPlaces'
    BY <1>3, Targets DEF OpPlaces, OpTypes, TodoTypes, VictimTypes, AskAgent, OpGoto,
        AgentOps, OfKind
  <1>4. ASSUME NEW o \in Ops, Shutdown(o) PROVE OpPlaces'
    BY <1>4, Targets DEF OpPlaces, OpTypes, TodoTypes, VictimTypes, Shutdown, OpGoto,
        AgentOps, OfKind
  <1>5. ASSUME NEW o \in Ops, CancelNext(o) PROVE OpPlaces'
    BY <1>5, Targets DEF OpPlaces, OpTypes, TodoTypes, VictimTypes, CancelNext, OpGoto,
        AgentOps, OfKind
  <1>6. ASSUME NEW o \in Ops, DrainNext(o) PROVE OpPlaces'
    BY <1>6, Targets DEF OpPlaces, OpTypes, TodoTypes, VictimTypes, DrainNext, OpGoto,
        AgentOps, OfKind
  <1>7. ASSUME NEW o \in Ops, AwaitWorker(o) PROVE OpPlaces'
    BY <1>7, Targets DEF OpPlaces, OpTypes, TodoTypes, VictimTypes, AwaitWorker, OpGoto,
        Resumes, AgentOps, OfKind
  <1>8. ASSUME NEW o \in Ops, FinishUnstarted(o) PROVE OpPlaces'
    BY <1>8, Targets DEF OpPlaces, OpTypes, TodoTypes, VictimTypes, FinishUnstarted,
        OpGoto, Resumes, AgentOps, OfKind
  <1>9. ASSUME NEW o \in Ops, FinishOp(o) PROVE OpPlaces'
    BY <1>9, Targets DEF OpPlaces, OpTypes, TodoTypes, VictimTypes, FinishOp, OpGoto,
        AgentOps, OfKind
  <1>10. ASSUME NEW o \in Ops, CheckAgent(o) PROVE OpPlaces'
    BY <1>10, Targets DEF OpPlaces, OpTypes, TodoTypes, VictimTypes, CheckAgent, OpGoto,
        AgentOps, OfKind
  <1>11. ASSUME NEW o \in Ops, StartAgent(o) PROVE OpPlaces'
    BY <1>11, Targets DEF OpPlaces, OpTypes, TodoTypes, VictimTypes, StartAgent, OpGoto,
        AgentOps, OfKind
  <1>12. ASSUME NEW o \in Ops, MoveAgent(o) PROVE OpPlaces'
    BY <1>12, Targets DEF OpPlaces, OpTypes, TodoTypes, VictimTypes, MoveAgent, OpGoto,
        AgentOps, OfKind
  <1>13. ASSUME NEW o \in Ops, ConfigureAgent(o) PROVE OpPlaces'
    BY <1>13, Targets DEF OpPlaces, OpTypes, TodoTypes, VictimTypes, ConfigureAgent,
        OpGoto, AgentOps, OfKind
  <1>14. ASSUME NEW o \in Ops, StopAgent(o) PROVE OpPlaces'
    BY <1>14, Targets DEF OpPlaces, OpTypes, TodoTypes, VictimTypes, StopAgent, OpGoto,
        AgentOps, OfKind
  <1>15. ASSUME Crash PROVE OpPlaces'
    BY <1>15, Targets DEF OpPlaces, OpTypes, TodoTypes, VictimTypes, Crash, AgentOps,
        OfKind
  <1>16. ASSUME NEW j \in Jobs, AskTask(j) \/ AskMessage(j) \/ AcceptMessage(j)
            \/ CreateRecord(j) \/ Submit(j) \/ LoseCaller(j) \/ BeginWork(j)
            \/ QueueForSlot(j) \/ TakeSlot(j) \/ ReadAgent(j) \/ CommitStart(j)
            \/ StartTurn(j) \/ MissStart(j) \/ EndTurn(j) \/ CommitEnd(j)
            \/ FinishWork(j) \/ Killed(j) \/ FailWrite(j)
       PROVE  UNCHANGED <<opc, victim>>
    BY <1>16 DEF AskTask, opVars, AskMessage, AcceptMessage, CreateRecord, Submit,
        LoseCaller, BeginWork, QueueForSlot, TakeSlot, ReadAgent, CommitStart, StartTurn,
        MissStart, EndTurn, CommitEnd, FinishWork, Killed, FailWrite
  <1>17. ASSUME OtherStarts \/ Restart PROVE UNCHANGED <<opc, victim>>
    BY <1>17 DEF OtherStarts, opVars, Restart
  <1> QED  BY <1>1, <1>2, <1>3, <1>4, <1>5, <1>6, <1>7, <1>8, <1>9, <1>10, <1>11, <1>12,
       <1>13, <1>14, <1>15, <1>16, <1>17
    DEF Next, CallerStep, WorkerStep, OpArrives, OpStep

(* The slots' line stays a line of jobs.                                   *)
LEMMA SlotTypesStep ==
    ASSUME SlotTypes, Next
    PROVE  SlotTypes'
  <1>1. CASE UNCHANGED slots
    BY <1>1 DEF SlotTypes
  <1>2. ASSUME NEW j \in Jobs, BeginWork(j) PROVE SlotTypes'
    BY <1>2 DEF SlotTypes, BeginWork
  <1>3. ASSUME NEW j \in Jobs, QueueForSlot(j) PROVE SlotTypes'
    BY <1>3 DEF SlotTypes, QueueForSlot
  <1>4. ASSUME NEW j \in Jobs, ReadAgent(j) PROVE SlotTypes'
    BY <1>4, WithoutLine DEF SlotTypes, ReadAgent, RecordEnd, LeaveLines, waitVars
  <1>5. ASSUME NEW j \in Jobs, MissStart(j) PROVE SlotTypes'
    BY <1>5, WithoutLine DEF SlotTypes, MissStart, LeaveLines
  <1>6. ASSUME NEW j \in Jobs, EndTurn(j) PROVE SlotTypes'
    BY <1>6, WithoutLine DEF SlotTypes, EndTurn, RecordEnd, LeaveLines
  <1>7. ASSUME NEW j \in Jobs, Killed(j) PROVE SlotTypes'
    BY <1>7, WithoutLine DEF SlotTypes, Killed, RecordEnd, LeaveLines, lineVars, waitVars
  <1>8. ASSUME NEW j \in Jobs, FailWrite(j) PROVE SlotTypes'
    BY <1>8, WithoutLine DEF SlotTypes, FailWrite, RecordEnd, LeaveLines, lineVars,
        waitVars
  <1>9. ASSUME Crash PROVE SlotTypes'
    BY <1>9 DEF SlotTypes, Crash
  <1>10. ASSUME NEW j \in Jobs, AskTask(j) \/ AskMessage(j) \/ AcceptMessage(j)
            \/ CreateRecord(j) \/ Submit(j) \/ LoseCaller(j) \/ TakeSlot(j)
            \/ CommitStart(j) \/ StartTurn(j) \/ CommitEnd(j) \/ FinishWork(j)
       PROVE  UNCHANGED slots
    BY <1>10 DEF AskTask, lineVars, waitVars, AskMessage, AcceptMessage, CreateRecord,
        Submit, LoseCaller, TakeSlot, CommitStart, StartTurn, CommitEnd, FinishWork
  <1>11. ASSUME NEW o \in Ops, AskCancel(o) \/ AskAgent(o) \/ Shutdown(o)
            \/ CancelNext(o) \/ DrainNext(o) \/ AwaitWorker(o) \/ FinishUnstarted(o)
            \/ FinishOp(o) \/ CheckAgent(o) \/ StartAgent(o) \/ MoveAgent(o)
            \/ ConfigureAgent(o) \/ StopAgent(o)
       PROVE  UNCHANGED slots
    BY <1>11 DEF AskCancel, lineVars, waitVars, AskAgent, Shutdown, CancelNext, DrainNext,
        AwaitWorker, FinishUnstarted, FinishOp, CheckAgent, StartAgent, MoveAgent,
        ConfigureAgent, StopAgent
  <1>12. ASSUME OtherStarts \/ Restart PROVE UNCHANGED slots
    BY <1>12 DEF OtherStarts, lineVars, waitVars, Restart
  <1> QED  BY <1>1, <1>2, <1>3, <1>4, <1>5, <1>6, <1>7, <1>8, <1>9, <1>10, <1>11, <1>12
    DEF Next, CallerStep, WorkerStep, OpArrives, OpStep

(* The event loop's line stays one of jobs.                                *)
LEMMA ReadyTypesStep ==
    ASSUME ReadyTypes, Next
    PROVE  ReadyTypes'
  <1>1. CASE UNCHANGED ready
    BY <1>1 DEF ReadyTypes
  <1>2. ASSUME NEW j \in Jobs, Submit(j) PROVE ReadyTypes'
    BY <1>2 DEF ReadyTypes, Submit
  <1>3. ASSUME NEW j \in Jobs, BeginWork(j) PROVE ReadyTypes'
    BY <1>3 DEF ReadyTypes, BeginWork, NextReady, InFront
  <1>4. ASSUME NEW j \in Jobs, Killed(j) PROVE ReadyTypes'
    BY <1>4 DEF ReadyTypes, Killed, RecordEnd, LeaveLines, NextReady, InFront, lineVars,
        waitVars
  <1>5. ASSUME Crash PROVE ReadyTypes'
    BY <1>5 DEF ReadyTypes, Crash
  <1>6. ASSUME NEW j \in Jobs, AskTask(j) \/ AskMessage(j) \/ AcceptMessage(j)
            \/ CreateRecord(j) \/ LoseCaller(j) \/ QueueForSlot(j) \/ TakeSlot(j)
            \/ ReadAgent(j) \/ CommitStart(j) \/ StartTurn(j) \/ MissStart(j)
            \/ EndTurn(j) \/ CommitEnd(j) \/ FinishWork(j) \/ FailWrite(j)
       PROVE  UNCHANGED ready
    BY <1>6 DEF AskTask, lineVars, waitVars, AskMessage, AcceptMessage, CreateRecord,
        LoseCaller, QueueForSlot, TakeSlot, ReadAgent, RecordEnd, LeaveLines, CommitStart,
        StartTurn, MissStart, EndTurn, CommitEnd, FinishWork, FailWrite
  <1>7. ASSUME NEW o \in Ops, AskCancel(o) \/ AskAgent(o) \/ Shutdown(o)
            \/ CancelNext(o) \/ DrainNext(o) \/ AwaitWorker(o) \/ FinishUnstarted(o)
            \/ FinishOp(o) \/ CheckAgent(o) \/ StartAgent(o) \/ MoveAgent(o)
            \/ ConfigureAgent(o) \/ StopAgent(o)
       PROVE  UNCHANGED ready
    BY <1>7 DEF AskCancel, lineVars, waitVars, AskAgent, Shutdown, CancelNext, DrainNext,
        AwaitWorker, FinishUnstarted, FinishOp, CheckAgent, StartAgent, MoveAgent,
        ConfigureAgent, StopAgent
  <1>8. ASSUME OtherStarts \/ Restart PROVE UNCHANGED ready
    BY <1>8 DEF OtherStarts, lineVars, waitVars, Restart
  <1> QED  BY <1>1, <1>2, <1>3, <1>4, <1>5, <1>6, <1>7, <1>8
    DEF Next, CallerStep, WorkerStep, OpArrives, OpStep

(* born stays a sequence of jobs.                                          *)
LEMMA BornTypesStep ==
    ASSUME BornTypes, Next
    PROVE  BornTypes'
  <1>1. CASE UNCHANGED born
    BY <1>1 DEF BornTypes
  <1>2. ASSUME NEW j \in Jobs, CreateRecord(j) PROVE BornTypes'
    BY <1>2 DEF BornTypes, CreateRecord
  <1>3. ASSUME NEW j \in Jobs, AskTask(j) \/ AskMessage(j) \/ AcceptMessage(j)
            \/ Submit(j) \/ LoseCaller(j) \/ BeginWork(j) \/ QueueForSlot(j)
            \/ TakeSlot(j) \/ ReadAgent(j) \/ CommitStart(j) \/ StartTurn(j)
            \/ MissStart(j) \/ EndTurn(j) \/ CommitEnd(j) \/ FinishWork(j) \/ Killed(j)
            \/ FailWrite(j)
       PROVE  UNCHANGED born
    BY <1>3 DEF AskTask, recordVars, AskMessage, AcceptMessage, Submit, LoseCaller,
        BeginWork, QueueForSlot, TakeSlot, ReadAgent, CommitStart, StartTurn, MissStart,
        EndTurn, CommitEnd, FinishWork, Killed, FailWrite
  <1>4. ASSUME NEW o \in Ops, AskCancel(o) \/ AskAgent(o) \/ Shutdown(o)
            \/ CancelNext(o) \/ DrainNext(o) \/ AwaitWorker(o) \/ FinishUnstarted(o)
            \/ FinishOp(o) \/ CheckAgent(o) \/ StartAgent(o) \/ MoveAgent(o)
            \/ ConfigureAgent(o) \/ StopAgent(o)
       PROVE  UNCHANGED born
    BY <1>4 DEF AskCancel, recordVars, AskAgent, Shutdown, CancelNext, DrainNext,
        AwaitWorker, FinishUnstarted, FinishOp, CheckAgent, StartAgent, MoveAgent,
        ConfigureAgent, StopAgent
  <1>5. ASSUME OtherStarts \/ Crash \/ Restart PROVE UNCHANGED born
    BY <1>5 DEF OtherStarts, Crash, recordVars, Restart
  <1> QED  BY <1>1, <1>2, <1>3, <1>4, <1>5
    DEF Next, CallerStep, WorkerStep, OpArrives, OpStep

(* The admission's line stays one of jobs and requests.                    *)
LEMMA GateTypesStep ==
    ASSUME GateTypes, Next
    PROVE  GateTypes'
  <1>1. CASE UNCHANGED admission
    BY <1>1 DEF GateTypes
  <1>2. ASSUME NEW j \in Jobs, AskMessage(j) PROVE GateTypes'
    BY <1>2 DEF GateTypes, AskMessage
  <1>3. ASSUME NEW j \in Jobs, AcceptMessage(j) PROVE GateTypes'
    BY <1>3, WithoutLine DEF GateTypes, AcceptMessage
  <1>4. ASSUME NEW j \in Jobs, Submit(j) PROVE GateTypes'
    BY <1>4, WithoutLine DEF GateTypes, Submit
  <1>5. ASSUME NEW j \in Jobs, LoseCaller(j) PROVE GateTypes'
    BY <1>5, WithoutLine DEF GateTypes, LoseCaller
  <1>6. ASSUME NEW j \in Jobs, TakeSlot(j) PROVE GateTypes'
    BY <1>6 DEF GateTypes, TakeSlot
  <1>7. ASSUME NEW j \in Jobs, ReadAgent(j) PROVE GateTypes'
    BY <1>7, WithoutLine DEF GateTypes, ReadAgent, RecordEnd, LeaveLines, KeepAdmission
  <1>8. ASSUME NEW j \in Jobs, StartTurn(j) PROVE GateTypes'
    BY <1>8, WithoutLine DEF GateTypes, StartTurn
  <1>9. ASSUME NEW j \in Jobs, MissStart(j) PROVE GateTypes'
    BY <1>9, WithoutLine DEF GateTypes, MissStart, LeaveLines
  <1>10. ASSUME NEW j \in Jobs, EndTurn(j) PROVE GateTypes'
    BY <1>10, WithoutLine DEF GateTypes, EndTurn, RecordEnd, LeaveLines
  <1>11. ASSUME NEW j \in Jobs, Killed(j) PROVE GateTypes'
    BY <1>11, WithoutLine DEF GateTypes, Killed, RecordEnd, LeaveLines, lineVars
  <1>12. ASSUME NEW j \in Jobs, FailWrite(j) PROVE GateTypes'
    BY <1>12, WithoutLine DEF GateTypes, FailWrite, RecordEnd, LeaveLines, lineVars
  <1>13. ASSUME NEW o \in Ops, AskAgent(o) PROVE GateTypes'
    BY <1>13 DEF GateTypes, AskAgent
  <1>14. ASSUME NEW o \in Ops, CheckAgent(o) PROVE GateTypes'
    BY <1>14, WithoutLine DEF GateTypes, CheckAgent
  <1>15. ASSUME NEW o \in Ops, StartAgent(o) PROVE GateTypes'
    BY <1>15, WithoutLine DEF GateTypes, StartAgent
  <1>16. ASSUME NEW o \in Ops, MoveAgent(o) PROVE GateTypes'
    BY <1>16, WithoutLine DEF GateTypes, MoveAgent
  <1>17. ASSUME NEW o \in Ops, ConfigureAgent(o) PROVE GateTypes'
    BY <1>17, WithoutLine DEF GateTypes, ConfigureAgent
  <1>18. ASSUME NEW o \in Ops, StopAgent(o) PROVE GateTypes'
    BY <1>18, WithoutLine DEF GateTypes, StopAgent
  <1>19. ASSUME Crash PROVE GateTypes'
    BY <1>19 DEF GateTypes, Crash
  <1>20. ASSUME NEW j \in Jobs, AskTask(j) \/ CreateRecord(j) \/ BeginWork(j)
            \/ QueueForSlot(j) \/ CommitStart(j) \/ CommitEnd(j) \/ FinishWork(j)
       PROVE  UNCHANGED admission
    BY <1>20 DEF AskTask, lineVars, CreateRecord, BeginWork, QueueForSlot, CommitStart,
        CommitEnd, FinishWork
  <1>21. ASSUME NEW o \in Ops, AskCancel(o) \/ Shutdown(o) \/ CancelNext(o)
            \/ DrainNext(o) \/ AwaitWorker(o) \/ FinishUnstarted(o) \/ FinishOp(o)
       PROVE  UNCHANGED admission
    BY <1>21 DEF AskCancel, lineVars, Shutdown, CancelNext, DrainNext, AwaitWorker,
        FinishUnstarted, FinishOp
  <1>22. ASSUME OtherStarts \/ Restart PROVE UNCHANGED admission
    BY <1>22 DEF OtherStarts, lineVars, Restart
  <1> QED  BY <1>1, <1>2, <1>3, <1>4, <1>5, <1>6, <1>7, <1>8, <1>9, <1>10, <1>11, <1>12,
       <1>13, <1>14, <1>15, <1>16, <1>17, <1>18, <1>19, <1>20, <1>21, <1>22
    DEF Next, CallerStep, WorkerStep, OpArrives, OpStep

(* The orders' lines stay lines of jobs.                                   *)
LEMMA OrderTypesStep ==
    ASSUME OrderTypes, Next
    PROVE  OrderTypes'
  <1>1. CASE UNCHANGED orders
    BY <1>1 DEF OrderTypes
  <1>2. ASSUME NEW j \in Jobs, BeginWork(j) PROVE OrderTypes'
    <2>1. CASE UNCHANGED orders
      BY <2>1 DEF OrderTypes
    <2>2. CASE KeyOf(j) # None /\ orders' = [orders EXCEPT ![KeyOf(j)] = Append(@, j)]
      <3>1. KeyOf(j) \in Keys
        BY <2>2, KeysOf
      <3>2. Append(orders[KeyOf(j)], j) \in Seq(Jobs)
        BY <3>1 DEF OrderTypes
      <3> QED  BY <2>2, <3>1, <3>2 DEF OrderTypes
    <2> QED  BY <1>2, <2>1, <2>2 DEF BeginWork
  <1>3. ASSUME NEW j \in Jobs, ReadAgent(j) PROVE OrderTypes'
    BY <1>3, WithoutLine DEF OrderTypes, ReadAgent, RecordEnd, LeaveLines, waitVars
  <1>4. ASSUME NEW j \in Jobs, MissStart(j) PROVE OrderTypes'
    BY <1>4, WithoutLine DEF OrderTypes, MissStart, LeaveLines
  <1>5. ASSUME NEW j \in Jobs, EndTurn(j) PROVE OrderTypes'
    BY <1>5, WithoutLine DEF OrderTypes, EndTurn, RecordEnd, LeaveLines
  <1>6. ASSUME NEW j \in Jobs, Killed(j) PROVE OrderTypes'
    BY <1>6, WithoutLine DEF OrderTypes, Killed, RecordEnd, LeaveLines, lineVars, waitVars
  <1>7. ASSUME NEW j \in Jobs, FailWrite(j) PROVE OrderTypes'
    BY <1>7, WithoutLine DEF OrderTypes, FailWrite, RecordEnd, LeaveLines, lineVars,
        waitVars
  <1>8. ASSUME Crash PROVE OrderTypes'
    BY <1>8 DEF OrderTypes, Crash
  <1>9. ASSUME NEW j \in Jobs, AskTask(j) \/ AskMessage(j) \/ AcceptMessage(j)
            \/ CreateRecord(j) \/ Submit(j) \/ LoseCaller(j) \/ QueueForSlot(j)
            \/ TakeSlot(j) \/ CommitStart(j) \/ StartTurn(j) \/ CommitEnd(j)
            \/ FinishWork(j)
       PROVE  UNCHANGED orders
    BY <1>9 DEF AskTask, lineVars, waitVars, AskMessage, AcceptMessage, CreateRecord,
        Submit, LoseCaller, QueueForSlot, TakeSlot, CommitStart, StartTurn, CommitEnd,
        FinishWork
  <1>10. ASSUME NEW o \in Ops, AskCancel(o) \/ AskAgent(o) \/ Shutdown(o)
            \/ CancelNext(o) \/ DrainNext(o) \/ AwaitWorker(o) \/ FinishUnstarted(o)
            \/ FinishOp(o) \/ CheckAgent(o) \/ StartAgent(o) \/ MoveAgent(o)
            \/ ConfigureAgent(o) \/ StopAgent(o)
       PROVE  UNCHANGED orders
    BY <1>10 DEF AskCancel, lineVars, waitVars, AskAgent, Shutdown, CancelNext, DrainNext,
        AwaitWorker, FinishUnstarted, FinishOp, CheckAgent, StartAgent, MoveAgent,
        ConfigureAgent, StopAgent
  <1>11. ASSUME OtherStarts \/ Restart PROVE UNCHANGED orders
    BY <1>11 DEF OtherStarts, lineVars, waitVars, Restart
  <1> QED  BY <1>1, <1>2, <1>3, <1>4, <1>5, <1>6, <1>7, <1>8, <1>9, <1>10, <1>11
    DEF Next, CallerStep, WorkerStep, OpArrives, OpStep

(***************************************************************************)
(* Records.                                                                *)
(***************************************************************************)
RecordsKept ==
    \A j \in Jobs :
       /\ pc[j] \in {"idle", "ask", "creating"} => status[j] = "absent"
       /\ pc[j] \in {"ending", "ended", "lapsed"} => verdict[j] \in Ends
       /\ pc[j] = "ended" => status[j] = verdict[j]
       /\ pc[j] = "ended" \/ status[j] \notin Ends => told[j] = <<>>
(* Only messages ask for the admission.                                    *)
MessagePlaces == \A j \in Jobs : pc[j] \in {"ask", "admit"} => j \in Messages

(* Nothing begins to go on before the process is up again.                 *)
LEMMA NothingWhenDownStep ==
    ASSUME NothingWhenDown, PlaceTypes, OpTypes, VictimTypes, OpPlaces, Next
    PROVE  NothingWhenDown'
  <1>1. CASE UNCHANGED <<up, open, tracked, killed, pc, opc>>
    BY <1>1 DEF NothingWhenDown, Callers, SlotPlaces
  <1>2. ASSUME NEW j \in Jobs, AskTask(j) PROVE NothingWhenDown'
    <2>1. Moved(j, {"idle"}, {"creating", "refused"})
      BY <1>2, Moves
    <2> QED  BY <1>2, <2>1 DEF NothingWhenDown, PlaceTypes, OpTypes, VictimTypes,
        OpPlaces, Moved, AskTask, opVars, Callers, SlotPlaces
  <1>3. ASSUME NEW j \in Jobs, AskMessage(j) PROVE NothingWhenDown'
    <2>1. Moved(j, {"idle"}, {"ask"})
      BY <1>3, Moves
    <2> QED  BY <1>3, <2>1 DEF NothingWhenDown, PlaceTypes, OpTypes, VictimTypes,
        OpPlaces, Moved, AskMessage, runnerVars, opVars, Callers, SlotPlaces
  <1>4. ASSUME NEW j \in Jobs, AcceptMessage(j) PROVE NothingWhenDown'
    <2>1. Moved(j, {"ask"}, {"creating", "refused"})
      BY <1>4, Moves
    <2> QED  BY <1>4, <2>1 DEF NothingWhenDown, PlaceTypes, OpTypes, VictimTypes,
        OpPlaces, Moved, AcceptMessage, opVars, Callers, SlotPlaces
  <1>5. ASSUME NEW j \in Jobs, CreateRecord(j) PROVE NothingWhenDown'
    <2>1. Moved(j, {"creating"}, {"created"})
      BY <1>5, Moves
    <2> QED  BY <1>5, <2>1 DEF NothingWhenDown, PlaceTypes, OpTypes, VictimTypes,
        OpPlaces, Moved, CreateRecord, runnerVars, opVars, Callers, SlotPlaces
  <1>6. ASSUME NEW j \in Jobs, Submit(j) PROVE NothingWhenDown'
    <2>1. Moved(j, {"created"}, {"unstarted"})
      BY <1>6, Moves
    <2> QED  BY <1>6, <2>1 DEF NothingWhenDown, PlaceTypes, OpTypes, VictimTypes,
        OpPlaces, Moved, Submit, opVars, Callers, SlotPlaces
  <1>7. ASSUME NEW j \in Jobs, LoseCaller(j) PROVE NothingWhenDown'
    <2>1. Moved(j, {"ask", "creating", "created"}, {"refused"})
      BY <1>7, Moves
    <2> QED  BY <1>7, <2>1 DEF NothingWhenDown, PlaceTypes, OpTypes, VictimTypes,
        OpPlaces, Moved, LoseCaller, opVars, Callers, SlotPlaces
  <1>8. ASSUME NEW j \in Jobs, BeginWork(j) PROVE NothingWhenDown'
    <2>1. Moved(j, {"unstarted"}, {"over", "order", "slot"})
      BY <1>8, Moves
    <2> QED  BY <1>8, <2>1 DEF NothingWhenDown, PlaceTypes, OpTypes, VictimTypes,
        OpPlaces, Moved, BeginWork, Runs, runnerVars, opVars, Callers, SlotPlaces
  <1>9. ASSUME NEW j \in Jobs, QueueForSlot(j) PROVE NothingWhenDown'
    <2>1. Moved(j, {"order"}, {"slot"})
      BY <1>9, Moves
    <2> QED  BY <1>9, <2>1 DEF NothingWhenDown, PlaceTypes, OpTypes, VictimTypes,
        OpPlaces, Moved, QueueForSlot, Runs, runnerVars, opVars, Callers, SlotPlaces
  <1>10. ASSUME NEW j \in Jobs, TakeSlot(j) PROVE NothingWhenDown'
    <2>1. Moved(j, {"slot"}, {"starting", "admit"})
      BY <1>10, Moves
    <2> QED  BY <1>10, <2>1 DEF NothingWhenDown, PlaceTypes, OpTypes, VictimTypes,
        OpPlaces, Moved, TakeSlot, Runs, runnerVars, opVars, Callers, SlotPlaces
  <1>11. ASSUME NEW j \in Jobs, ReadAgent(j) PROVE NothingWhenDown'
    <2>1. Moved(j, {"admit"}, {"starting", "ending"})
      BY <1>11, Moves
    <2> QED  BY <1>11, <2>1 DEF NothingWhenDown, PlaceTypes, OpTypes, VictimTypes,
        OpPlaces, Moved, ReadAgent, Runs, opVars, Callers, SlotPlaces
  <1>12. ASSUME NEW j \in Jobs, CommitStart(j) PROVE NothingWhenDown'
    <2>1. Moved(j, {"starting"}, {"started", "missed"})
      BY <1>12, Moves
    <2> QED  BY <1>12, <2>1 DEF NothingWhenDown, PlaceTypes, OpTypes, VictimTypes,
        OpPlaces, Moved, CommitStart, Runs, runnerVars, opVars, Callers, SlotPlaces
  <1>13. ASSUME NEW j \in Jobs, StartTurn(j) PROVE NothingWhenDown'
    <2>1. Moved(j, {"started"}, {"turn"})
      BY <1>13, Moves
    <2> QED  BY <1>13, <2>1 DEF NothingWhenDown, PlaceTypes, OpTypes, VictimTypes,
        OpPlaces, Moved, StartTurn, Runs, runnerVars, opVars, Callers, SlotPlaces
  <1>14. ASSUME NEW j \in Jobs, MissStart(j) PROVE NothingWhenDown'
    <2>1. Moved(j, {"missed"}, {"over"})
      BY <1>14, Moves
    <2> QED  BY <1>14, <2>1 DEF NothingWhenDown, PlaceTypes, OpTypes, VictimTypes,
        OpPlaces, Moved, MissStart, Forget, Runs, opVars, Callers, SlotPlaces
  <1>15. ASSUME NEW j \in Jobs, EndTurn(j) PROVE NothingWhenDown'
    <2>1. Moved(j, {"turn"}, {"ending"})
      BY <1>15, Moves
    <2> QED  BY <1>15, <2>1 DEF NothingWhenDown, PlaceTypes, OpTypes, VictimTypes,
        OpPlaces, Moved, EndTurn, Runs, runnerVars, opVars, Callers, SlotPlaces
  <1>16. ASSUME NEW j \in Jobs, CommitEnd(j) PROVE NothingWhenDown'
    <2>1. Moved(j, {"ending"}, {"ended", "lapsed"})
      BY <1>16, Moves
    <2> QED  BY <1>16, <2>1 DEF NothingWhenDown, PlaceTypes, OpTypes, VictimTypes,
        OpPlaces, Moved, CommitEnd, Runs, runnerVars, opVars, Callers, SlotPlaces
  <1>17. ASSUME NEW j \in Jobs, FinishWork(j) PROVE NothingWhenDown'
    <2>1. Moved(j, {"ended", "lapsed"}, {"over"})
      BY <1>17, Moves
    <2> QED  BY <1>17, <2>1 DEF NothingWhenDown, PlaceTypes, OpTypes, VictimTypes,
        OpPlaces, Moved, FinishWork, Forget, Runs, opVars, Callers, SlotPlaces
  <1>18. ASSUME NEW j \in Jobs, Killed(j) PROVE NothingWhenDown'
    <2>1. Moved(j, Workers, {"ending", "over"})
      BY <1>18, Moves
    <2> QED  BY <1>18, <2>1 DEF NothingWhenDown, PlaceTypes, OpTypes, VictimTypes,
        OpPlaces, Moved, Killed, Forget, runnerVars, opVars, Callers, SlotPlaces
  <1>19. ASSUME NEW j \in Jobs, FailWrite(j) PROVE NothingWhenDown'
    <2>1. Moved(j, {"starting", "ending"}, {"ending", "over"})
      BY <1>19, Moves
    <2> QED  BY <1>19, <2>1 DEF NothingWhenDown, PlaceTypes, OpTypes, VictimTypes,
        OpPlaces, Moved, FailWrite, Forget, Runs, runnerVars, opVars, Callers, SlotPlaces
  <1>20. ASSUME NEW o \in Ops, AskCancel(o) PROVE NothingWhenDown'
    BY <1>20 DEF NothingWhenDown, PlaceTypes, OpTypes, VictimTypes, OpPlaces, AskCancel,
        OpGoto, runnerVars, workerVars, Callers, SlotPlaces
  <1>21. ASSUME NEW o \in Ops, AskAgent(o) PROVE NothingWhenDown'
    BY <1>21 DEF NothingWhenDown, PlaceTypes, OpTypes, VictimTypes, OpPlaces, AskAgent,
        OpGoto, runnerVars, workerVars, Callers, SlotPlaces
  <1>22. ASSUME NEW o \in Ops, Shutdown(o) PROVE NothingWhenDown'
    BY <1>22 DEF NothingWhenDown, PlaceTypes, OpTypes, VictimTypes, OpPlaces, Shutdown,
        OpGoto, Kill, runnerVars, workerVars, Callers, SlotPlaces
  <1>23. ASSUME NEW o \in Ops, CancelNext(o) PROVE NothingWhenDown'
    BY <1>23 DEF NothingWhenDown, PlaceTypes, OpTypes, VictimTypes, OpPlaces, CancelNext,
        OpGoto, Kill, workerVars, Callers, SlotPlaces
  <1>24. ASSUME NEW o \in Ops, DrainNext(o) PROVE NothingWhenDown'
    BY <1>24 DEF NothingWhenDown, PlaceTypes, OpTypes, VictimTypes, OpPlaces, DrainNext,
        OpGoto, runnerVars, workerVars, Callers, SlotPlaces
  <1>25. ASSUME NEW o \in Ops, AwaitWorker(o) PROVE NothingWhenDown'
    BY <1>25 DEF NothingWhenDown, PlaceTypes, OpTypes, VictimTypes, OpPlaces, AwaitWorker,
        OpGoto, Forget, workerVars, Callers, SlotPlaces
  <1>26. ASSUME NEW o \in Ops, FinishUnstarted(o) PROVE NothingWhenDown'
    BY <1>26 DEF NothingWhenDown, PlaceTypes, OpTypes, VictimTypes, OpPlaces,
        FinishUnstarted, OpGoto, runnerVars, workerVars, Callers, SlotPlaces
  <1>27. ASSUME NEW o \in Ops, FinishOp(o) PROVE NothingWhenDown'
    BY <1>27 DEF NothingWhenDown, PlaceTypes, OpTypes, VictimTypes, OpPlaces, FinishOp,
        OpGoto, runnerVars, workerVars, Callers, SlotPlaces
  <1>28. ASSUME NEW o \in Ops, CheckAgent(o) PROVE NothingWhenDown'
    BY <1>28 DEF NothingWhenDown, PlaceTypes, OpTypes, VictimTypes, OpPlaces, CheckAgent,
        OpGoto, runnerVars, workerVars, Callers, SlotPlaces
  <1>29. ASSUME NEW o \in Ops, StartAgent(o) PROVE NothingWhenDown'
    BY <1>29 DEF NothingWhenDown, PlaceTypes, OpTypes, VictimTypes, OpPlaces, StartAgent,
        OpGoto, runnerVars, workerVars, Callers, SlotPlaces
  <1>30. ASSUME NEW o \in Ops, MoveAgent(o) PROVE NothingWhenDown'
    BY <1>30 DEF NothingWhenDown, PlaceTypes, OpTypes, VictimTypes, OpPlaces, MoveAgent,
        OpGoto, runnerVars, workerVars, Callers, SlotPlaces
  <1>31. ASSUME NEW o \in Ops, ConfigureAgent(o) PROVE NothingWhenDown'
    BY <1>31 DEF NothingWhenDown, PlaceTypes, OpTypes, VictimTypes, OpPlaces,
        ConfigureAgent, OpGoto, runnerVars, workerVars, Callers, SlotPlaces
  <1>32. ASSUME NEW o \in Ops, StopAgent(o) PROVE NothingWhenDown'
    BY <1>32 DEF NothingWhenDown, PlaceTypes, OpTypes, VictimTypes, OpPlaces, StopAgent,
        OpGoto, runnerVars, workerVars, Callers, SlotPlaces
  <1>33. ASSUME Crash PROVE NothingWhenDown'
    BY <1>33 DEF NothingWhenDown, PlaceTypes, OpTypes, VictimTypes, OpPlaces, Crash,
        Callers, SlotPlaces
  <1>34. ASSUME Restart PROVE NothingWhenDown'
    BY <1>34 DEF NothingWhenDown, PlaceTypes, OpTypes, VictimTypes, OpPlaces, Restart,
        runnerVars, workerVars, opVars, Callers, SlotPlaces
  <1>35. ASSUME OtherStarts PROVE UNCHANGED <<up, open, tracked, killed, pc, opc>>
    BY <1>35 DEF OtherStarts, runnerVars, workerVars, opVars
  <1> QED  BY <1>1, <1>2, <1>3, <1>4, <1>5, <1>6, <1>7, <1>8, <1>9, <1>10, <1>11, <1>12,
       <1>13, <1>14, <1>15, <1>16, <1>17, <1>18, <1>19, <1>20, <1>21, <1>22, <1>23, <1>24,
       <1>25, <1>26, <1>27, <1>28, <1>29, <1>30, <1>31, <1>32, <1>33, <1>34, <1>35
    DEF Next, CallerStep, WorkerStep, OpArrives, OpStep

(* A record, the end its worker is recording and the ends told of it       *)
(* agree: a second end is never told, because it was never recorded.       *)
LEMMA RecordsKeptStep ==
    ASSUME RecordsKept, RecordTypes, PlaceTypes, VerdictTypes, OpPlaces, Next
    PROVE  RecordsKept'
  <1>1. CASE UNCHANGED <<status, told, pc, verdict>>
    BY <1>1 DEF RecordsKept, Unfinished, Ends, Statuses
  <1>2. ASSUME NEW j \in Jobs, AskTask(j) \/ AskMessage(j) \/ AcceptMessage(j)
            \/ LoseCaller(j)
       PROVE  RecordsKept'
    <2>1. Moved(j, {"idle"} \cup Callers, {"refused"} \cup Callers)
      BY <1>2, Moves DEF Moved, Workers, SlotPlaces, Callers
    <2>2. /\ UNCHANGED <<status, told, verdict>>
          /\ pc'[j] \in {"idle", "ask", "creating"} => pc[j] \in {"idle", "ask", "creating"}
      BY <1>2, <2>1 DEF AskTask, recordVars, AskMessage, AcceptMessage, LoseCaller,
          Unreserve, Moved, Goto, PlaceTypes, Callers
    <2> QED  BY <2>1, <2>2 DEF RecordsKept, RecordTypes, PlaceTypes, VerdictTypes,
        OpPlaces, Moved, Unfinished, Ends, Statuses, Callers
  <1>3. ASSUME NEW j \in Jobs, BeginWork(j) \/ QueueForSlot(j) \/ TakeSlot(j)
            \/ ReadAgent(j) \/ StartTurn(j) \/ MissStart(j) \/ EndTurn(j) \/ Killed(j)
            \/ FailWrite(j)
       PROVE  RecordsKept'
    <2>1. Moved(j, Workers, {"over"} \cup Workers)
      BY <1>3, Moves DEF Moved, Workers, SlotPlaces, Callers
    <2>2. /\ UNCHANGED <<status, told>>
          /\ pc'[j] \notin {"ended", "lapsed"} /\ (pc'[j] = "ending" => verdict'[j] \in Ends)
          /\ \A k \in Jobs \ {j} : verdict'[k] = verdict[k]
      BY <1>3, <2>1 DEF BeginWork, recordVars, QueueForSlot, TakeSlot, ReadAgent,
          RecordEnd, StartTurn, MissStart, EndTurn, Killed, FailWrite, Moved, Goto,
          PlaceTypes, VerdictTypes, Ends
    <2> QED  BY <2>1, <2>2 DEF RecordsKept, RecordTypes, PlaceTypes, VerdictTypes,
        OpPlaces, Moved, Unfinished, Ends, Statuses, Workers, SlotPlaces
  <1>4. ASSUME NEW j \in Jobs, CommitEnd(j) PROVE RecordsKept'
    <2>1. Moved(j, {"ending"}, {"ended", "lapsed"})
      BY <1>4, Moves
    <2>2. UNCHANGED <<told, verdict>> /\ \A k \in Jobs \ {j} : status'[k] = status[k]
      BY <1>4 DEF CommitEnd, RecordTypes
    <2>3. verdict[j] \in Ends /\ (status[j] \notin Ends => told[j] = <<>>)
      BY <2>1 DEF RecordsKept, Moved
    <2>4. pc'[j] = "ended" => status'[j] = verdict[j] /\ told[j] = <<>>
      BY <1>4, <2>3 DEF CommitEnd, MayEnd, Goto, PlaceTypes, RecordTypes, Unfinished, Ends
    <2>5. pc'[j] = "lapsed" => status'[j] = status[j]
      BY <1>4 DEF CommitEnd, Goto, PlaceTypes
    <2> QED  BY <2>1, <2>2, <2>3, <2>4, <2>5 DEF RecordsKept, Moved
  <1>5. ASSUME NEW j \in Jobs, CreateRecord(j) PROVE RecordsKept'
    <2>1. Moved(j, {"creating"}, {"created"})
      BY <1>5, Moves
    <2> QED  BY <1>5, <2>1 DEF RecordsKept, RecordTypes, PlaceTypes, VerdictTypes,
        OpPlaces, Moved, CreateRecord, Unfinished, Ends, Statuses
  <1>6. ASSUME NEW j \in Jobs, Submit(j) PROVE RecordsKept'
    <2>1. Moved(j, {"created"}, {"unstarted"})
      BY <1>6, Moves
    <2> QED  BY <1>6, <2>1 DEF RecordsKept, RecordTypes, PlaceTypes, VerdictTypes,
        OpPlaces, Moved, Submit, recordVars, Unfinished, Ends, Statuses
  <1>7. ASSUME NEW j \in Jobs, CommitStart(j) PROVE RecordsKept'
    <2>1. Moved(j, {"starting"}, {"started", "missed"})
      BY <1>7, Moves
    <2> QED  BY <1>7, <2>1 DEF RecordsKept, RecordTypes, PlaceTypes, VerdictTypes,
        OpPlaces, Moved, CommitStart, Runs, Unfinished, Ends, Statuses
  <1>8. ASSUME NEW j \in Jobs, FinishWork(j) PROVE RecordsKept'
    <2>1. Moved(j, {"ended", "lapsed"}, {"over"})
      BY <1>8, Moves
    <2> QED  BY <1>8, <2>1 DEF RecordsKept, RecordTypes, PlaceTypes, VerdictTypes,
        OpPlaces, Moved, FinishWork, Runs, Announce, Unfinished, Ends, Statuses
  <1>9. ASSUME NEW o \in Ops, FinishUnstarted(o) PROVE RecordsKept'
    BY <1>9 DEF RecordsKept, RecordTypes, PlaceTypes, VerdictTypes, OpPlaces,
        FinishUnstarted, MayEnd, workerVars, Unfinished, Ends, Statuses
  <1>10. ASSUME OtherStarts PROVE RecordsKept'
    BY <1>10 DEF RecordsKept, RecordTypes, PlaceTypes, VerdictTypes, OpPlaces,
        OtherStarts, Recover, workerVars, Unfinished, Ends, Statuses
  <1>11. ASSUME Crash PROVE RecordsKept'
    BY <1>11 DEF RecordsKept, RecordTypes, PlaceTypes, VerdictTypes, OpPlaces, Crash,
        recordVars, Unfinished, Ends, Statuses
  <1>12. ASSUME Restart PROVE RecordsKept'
    BY <1>12 DEF RecordsKept, RecordTypes, PlaceTypes, VerdictTypes, OpPlaces, Restart,
        Recover, workerVars, Unfinished, Ends, Statuses
  <1>13. ASSUME NEW o \in Ops, AskCancel(o) \/ AskAgent(o) \/ Shutdown(o)
            \/ CancelNext(o) \/ DrainNext(o) \/ AwaitWorker(o) \/ FinishOp(o)
            \/ CheckAgent(o) \/ StartAgent(o) \/ MoveAgent(o) \/ ConfigureAgent(o)
            \/ StopAgent(o)
       PROVE  UNCHANGED <<status, told, pc, verdict>>
    BY <1>13 DEF AskCancel, recordVars, workerVars, AskAgent, Shutdown, CancelNext,
        DrainNext, AwaitWorker, FinishOp, CheckAgent, StartAgent, MoveAgent,
        ConfigureAgent, StopAgent
  <1> QED  BY <1>1, <1>2, <1>3, <1>4, <1>5, <1>6, <1>7, <1>8, <1>9, <1>10, <1>11, <1>12,
       <1>13
    DEF Next, CallerStep, WorkerStep, OpArrives, OpStep

(* The records keep their types.                                           *)
LEMMA RecordTypesStep ==
    ASSUME RecordTypes, VerdictTypes, RecordsKept, OpPlaces, Next
    PROVE  RecordTypes'
  <1>1. CASE UNCHANGED <<status, told>>
    BY <1>1 DEF RecordTypes, Unfinished, Ends, Statuses
  <1>2. ASSUME NEW o \in Ops, FinishUnstarted(o) PROVE RecordTypes'
    <2>1. PICK end \in Ends :
             \/ UNCHANGED <<status, told>>
             \/ /\ status' = [status EXCEPT ![victim[o]] = end]
                /\ told' = [told EXCEPT ![victim[o]] = Append(@, end)]
      BY <1>2 DEF FinishUnstarted, Ends
    <2>2. victim[o] \in Jobs
      BY <1>2 DEF FinishUnstarted, OpPlaces
    <2>3. Append(told[victim[o]], end) \in Seq(Ends)
      BY <2>2 DEF RecordTypes
    <2> QED  BY <2>1, <2>2, <2>3 DEF RecordTypes, Statuses
  <1>3. ASSUME NEW j \in Jobs, CreateRecord(j) PROVE RecordTypes'
    BY <1>3 DEF RecordTypes, VerdictTypes, RecordsKept, OpPlaces, CreateRecord,
        Unfinished, Ends, Statuses
  <1>4. ASSUME NEW j \in Jobs, CommitStart(j) PROVE RecordTypes'
    BY <1>4 DEF RecordTypes, VerdictTypes, RecordsKept, OpPlaces, CommitStart, Runs,
        Unfinished, Ends, Statuses
  <1>5. ASSUME NEW j \in Jobs, CommitEnd(j) PROVE RecordTypes'
    BY <1>5 DEF RecordTypes, VerdictTypes, RecordsKept, OpPlaces, CommitEnd, Runs,
        Unfinished, Ends, Statuses
  <1>6. ASSUME NEW j \in Jobs, FinishWork(j) PROVE RecordTypes'
    BY <1>6 DEF RecordTypes, VerdictTypes, RecordsKept, OpPlaces, FinishWork, Runs,
        Announce, Unfinished, Ends, Statuses
  <1>7. ASSUME OtherStarts PROVE RecordTypes'
    BY <1>7 DEF RecordTypes, VerdictTypes, RecordsKept, OpPlaces, OtherStarts, Recover,
        Unfinished, Ends, Statuses
  <1>8. ASSUME Restart PROVE RecordTypes'
    BY <1>8 DEF RecordTypes, VerdictTypes, RecordsKept, OpPlaces, Restart, Recover,
        Unfinished, Ends, Statuses
  <1>9. ASSUME NEW j \in Jobs, AskTask(j) \/ AskMessage(j) \/ AcceptMessage(j)
            \/ Submit(j) \/ LoseCaller(j) \/ BeginWork(j) \/ QueueForSlot(j)
            \/ TakeSlot(j) \/ ReadAgent(j) \/ StartTurn(j) \/ MissStart(j) \/ EndTurn(j)
            \/ Killed(j) \/ FailWrite(j)
       PROVE  UNCHANGED <<status, told>>
    BY <1>9 DEF AskTask, recordVars, AskMessage, AcceptMessage, Submit, LoseCaller,
        BeginWork, QueueForSlot, TakeSlot, ReadAgent, StartTurn, MissStart, EndTurn,
        Killed, FailWrite
  <1>10. ASSUME NEW o \in Ops, AskCancel(o) \/ AskAgent(o) \/ Shutdown(o)
            \/ CancelNext(o) \/ DrainNext(o) \/ AwaitWorker(o) \/ FinishOp(o)
            \/ CheckAgent(o) \/ StartAgent(o) \/ MoveAgent(o) \/ ConfigureAgent(o)
            \/ StopAgent(o)
       PROVE  UNCHANGED <<status, told>>
    BY <1>10 DEF AskCancel, recordVars, AskAgent, Shutdown, CancelNext, DrainNext,
        AwaitWorker, FinishOp, CheckAgent, StartAgent, MoveAgent, ConfigureAgent,
        StopAgent
  <1>11. ASSUME Crash PROVE UNCHANGED <<status, told>>
    BY <1>11 DEF Crash, recordVars
  <1> QED  BY <1>1, <1>2, <1>3, <1>4, <1>5, <1>6, <1>7, <1>8, <1>9, <1>10, <1>11
    DEF Next, CallerStep, WorkerStep, OpArrives, OpStep

(* verdict keeps its type.                                                 *)
LEMMA VerdictTypesStep ==
    ASSUME VerdictTypes, Next
    PROVE  VerdictTypes'
  <1>1. CASE UNCHANGED verdict
    BY <1>1 DEF VerdictTypes, Ends
  <1>2. ASSUME NEW j \in Jobs, ReadAgent(j) PROVE VerdictTypes'
    BY <1>2 DEF VerdictTypes, ReadAgent, RecordEnd, Ends
  <1>3. ASSUME NEW j \in Jobs, EndTurn(j) PROVE VerdictTypes'
    BY <1>3 DEF VerdictTypes, EndTurn, RecordEnd, Ends
  <1>4. ASSUME NEW j \in Jobs, Killed(j) PROVE VerdictTypes'
    BY <1>4 DEF VerdictTypes, Killed, RecordEnd, Ends
  <1>5. ASSUME NEW j \in Jobs, FailWrite(j) PROVE VerdictTypes'
    BY <1>5 DEF VerdictTypes, FailWrite, RecordEnd, Ends
  <1>6. ASSUME NEW j \in Jobs, AskTask(j) \/ AskMessage(j) \/ AcceptMessage(j)
            \/ CreateRecord(j) \/ Submit(j) \/ LoseCaller(j) \/ BeginWork(j)
            \/ QueueForSlot(j) \/ TakeSlot(j) \/ CommitStart(j) \/ StartTurn(j)
            \/ MissStart(j) \/ CommitEnd(j) \/ FinishWork(j)
       PROVE  UNCHANGED verdict
    BY <1>6 DEF AskTask, AskMessage, AcceptMessage, CreateRecord, Submit, LoseCaller,
        BeginWork, QueueForSlot, TakeSlot, CommitStart, StartTurn, MissStart, CommitEnd,
        FinishWork
  <1>7. ASSUME NEW o \in Ops, AskCancel(o) \/ AskAgent(o) \/ Shutdown(o)
            \/ CancelNext(o) \/ DrainNext(o) \/ AwaitWorker(o) \/ FinishUnstarted(o)
            \/ FinishOp(o) \/ CheckAgent(o) \/ StartAgent(o) \/ MoveAgent(o)
            \/ ConfigureAgent(o) \/ StopAgent(o)
       PROVE  UNCHANGED verdict
    BY <1>7 DEF AskCancel, workerVars, AskAgent, Shutdown, CancelNext, DrainNext,
        AwaitWorker, FinishUnstarted, FinishOp, CheckAgent, StartAgent, MoveAgent,
        ConfigureAgent, StopAgent
  <1>8. ASSUME OtherStarts \/ Crash \/ Restart PROVE UNCHANGED verdict
    BY <1>8 DEF OtherStarts, workerVars, Crash, Restart
  <1> QED  BY <1>1, <1>2, <1>3, <1>4, <1>5, <1>6, <1>7, <1>8
    DEF Next, CallerStep, WorkerStep, OpArrives, OpStep

(* Tasks never ask for the admission.                                      *)
LEMMA MessagePlacesStep ==
    ASSUME MessagePlaces, PlaceTypes, Next
    PROVE  MessagePlaces'
  <1>1. CASE UNCHANGED pc
    BY <1>1 DEF MessagePlaces
  <1>2. ASSUME NEW j \in Jobs, AskTask(j) \/ AcceptMessage(j) \/ CreateRecord(j)
            \/ LoseCaller(j)
       PROVE  MessagePlaces'
    <2>1. Moved(j, {"idle"} \cup Callers, {"refused"} \cup Callers)
      BY <1>2, Moves DEF Moved, Workers, SlotPlaces, Callers
    <2>2. pc'[j] # "ask"
      BY <1>2, <2>1 DEF AskTask, AcceptMessage, CreateRecord, LoseCaller, Moved, Goto,
          PlaceTypes
    <2> QED  BY <2>1, <2>2 DEF MessagePlaces, PlaceTypes, Moved, Callers
  <1>3. ASSUME NEW j \in Jobs, BeginWork(j) \/ QueueForSlot(j) \/ ReadAgent(j)
            \/ CommitStart(j) \/ StartTurn(j) \/ MissStart(j) \/ EndTurn(j)
            \/ CommitEnd(j) \/ FinishWork(j) \/ Killed(j) \/ FailWrite(j)
       PROVE  MessagePlaces'
    <2>1. Moved(j, Workers, {"over"} \cup Workers)
      BY <1>3, Moves DEF Moved, Workers, SlotPlaces, Callers
    <2>2. pc'[j] # "admit"
      BY <1>3, <2>1 DEF BeginWork, QueueForSlot, ReadAgent, RecordEnd, CommitStart,
          StartTurn, MissStart, EndTurn, CommitEnd, FinishWork, Killed, FailWrite, Moved,
          Goto, PlaceTypes
    <2> QED  BY <2>1, <2>2 DEF MessagePlaces, PlaceTypes, Moved, Workers, SlotPlaces
  <1>4. ASSUME NEW j \in Jobs, AskMessage(j) PROVE MessagePlaces'
    BY <1>4 DEF MessagePlaces, PlaceTypes, AskMessage, Goto
  <1>5. ASSUME NEW j \in Jobs, TakeSlot(j) PROVE MessagePlaces'
    BY <1>5 DEF MessagePlaces, PlaceTypes, TakeSlot, Goto, Tasks
  <1>6. ASSUME NEW j \in Jobs, Submit(j) PROVE MessagePlaces'
    <2>1. Moved(j, {"created"}, {"unstarted"})
      BY <1>6, Moves
    <2> QED  BY <1>6, <2>1 DEF MessagePlaces, PlaceTypes, Moved
  <1>7. ASSUME Crash PROVE MessagePlaces'
    BY <1>7 DEF MessagePlaces, PlaceTypes, Crash
  <1>8. ASSUME NEW o \in Ops, AskCancel(o) \/ AskAgent(o) \/ Shutdown(o)
            \/ CancelNext(o) \/ DrainNext(o) \/ AwaitWorker(o) \/ FinishUnstarted(o)
            \/ FinishOp(o) \/ CheckAgent(o) \/ StartAgent(o) \/ MoveAgent(o)
            \/ ConfigureAgent(o) \/ StopAgent(o)
       PROVE  UNCHANGED pc
    BY <1>8 DEF AskCancel, workerVars, AskAgent, Shutdown, CancelNext, DrainNext,
        AwaitWorker, FinishUnstarted, FinishOp, CheckAgent, StartAgent, MoveAgent,
        ConfigureAgent, StopAgent
  <1>9. ASSUME OtherStarts \/ Restart PROVE UNCHANGED pc
    BY <1>9 DEF OtherStarts, workerVars, Restart
  <1> QED  BY <1>1, <1>2, <1>3, <1>4, <1>5, <1>6, <1>7, <1>8, <1>9
    DEF Next, CallerStep, WorkerStep, OpArrives, OpStep

(* bound keeps its type.                                                   *)
LEMMA BoundTypesStep ==
    ASSUME BoundTypes, AgentTypes, MessagePlaces, Next
    PROVE  BoundTypes'
  <1>1. CASE UNCHANGED bound
    BY <1>1 DEF BoundTypes
  <1>2. ASSUME NEW j \in Jobs, ReadAgent(j) PROVE BoundTypes'
    <2>1. AgentOf[j] \in Agents
      BY <1>2, KeysOf DEF ReadAgent, Runs, MessagePlaces
    <2>2. Bound(AgentOf[j]) \in [session : Sessions \cup {None}, config : SUBSET Ops]
      BY <2>1 DEF Bound, AgentTypes
    <2> QED  BY <1>2, <2>2 DEF ReadAgent, BoundTypes
  <1>3. ASSUME NEW j \in Jobs, AskTask(j) \/ AskMessage(j) \/ AcceptMessage(j)
            \/ CreateRecord(j) \/ Submit(j) \/ LoseCaller(j) \/ BeginWork(j)
            \/ QueueForSlot(j) \/ TakeSlot(j) \/ CommitStart(j) \/ StartTurn(j)
            \/ MissStart(j) \/ EndTurn(j) \/ CommitEnd(j) \/ FinishWork(j) \/ Killed(j)
            \/ FailWrite(j)
       PROVE  UNCHANGED bound
    BY <1>3 DEF AskTask, AskMessage, AcceptMessage, CreateRecord, Submit, LoseCaller,
        BeginWork, QueueForSlot, TakeSlot, CommitStart, StartTurn, MissStart, EndTurn,
        CommitEnd, FinishWork, Killed, FailWrite
  <1>4. ASSUME NEW o \in Ops, AskCancel(o) \/ AskAgent(o) \/ Shutdown(o)
            \/ CancelNext(o) \/ DrainNext(o) \/ AwaitWorker(o) \/ FinishUnstarted(o)
            \/ FinishOp(o) \/ CheckAgent(o) \/ StartAgent(o) \/ MoveAgent(o)
            \/ ConfigureAgent(o) \/ StopAgent(o)
       PROVE  UNCHANGED bound
    BY <1>4 DEF AskCancel, workerVars, AskAgent, Shutdown, CancelNext, DrainNext,
        AwaitWorker, FinishUnstarted, FinishOp, CheckAgent, StartAgent, MoveAgent,
        ConfigureAgent, StopAgent
  <1>5. ASSUME OtherStarts \/ Crash \/ Restart PROVE UNCHANGED bound
    BY <1>5 DEF OtherStarts, workerVars, Crash, Restart
  <1> QED  BY <1>1, <1>2, <1>3, <1>4, <1>5
    DEF Next, CallerStep, WorkerStep, OpArrives, OpStep

(* agent keeps its type.                                                   *)
LEMMA AgentTypesStep ==
    ASSUME AgentTypes, OpPlaces, Next
    PROVE  AgentTypes'
  <1>1. CASE UNCHANGED agent
    BY <1>1 DEF AgentTypes
  <1>2. ASSUME NEW o \in Ops, StartAgent(o) PROVE AgentTypes'
    BY <1>2, Targets DEF AgentTypes, OpPlaces, StartAgent
  <1>3. ASSUME NEW o \in Ops, MoveAgent(o) PROVE AgentTypes'
    BY <1>3, Targets DEF AgentTypes, OpPlaces, MoveAgent
  <1>4. ASSUME NEW o \in Ops, ConfigureAgent(o) PROVE AgentTypes'
    BY <1>4, Targets DEF AgentTypes, OpPlaces, ConfigureAgent
  <1>5. ASSUME NEW o \in Ops, StopAgent(o) PROVE AgentTypes'
    BY <1>5, Targets DEF AgentTypes, OpPlaces, StopAgent
  <1>6. ASSUME NEW j \in Jobs, AskTask(j) \/ AskMessage(j) \/ AcceptMessage(j)
            \/ CreateRecord(j) \/ Submit(j) \/ LoseCaller(j) \/ BeginWork(j)
            \/ QueueForSlot(j) \/ TakeSlot(j) \/ ReadAgent(j) \/ CommitStart(j)
            \/ StartTurn(j) \/ MissStart(j) \/ EndTurn(j) \/ CommitEnd(j)
            \/ FinishWork(j) \/ Killed(j) \/ FailWrite(j)
       PROVE  UNCHANGED agent
    BY <1>6 DEF AskTask, AskMessage, AcceptMessage, CreateRecord, Submit, LoseCaller,
        BeginWork, QueueForSlot, TakeSlot, ReadAgent, CommitStart, StartTurn, MissStart,
        EndTurn, CommitEnd, FinishWork, Killed, FailWrite
  <1>7. ASSUME NEW o \in Ops, AskCancel(o) \/ AskAgent(o) \/ Shutdown(o)
            \/ CancelNext(o) \/ DrainNext(o) \/ AwaitWorker(o) \/ FinishUnstarted(o)
            \/ FinishOp(o) \/ CheckAgent(o)
       PROVE  UNCHANGED agent
    BY <1>7 DEF AskCancel, AskAgent, Shutdown, CancelNext, DrainNext, AwaitWorker,
        FinishUnstarted, FinishOp, CheckAgent
  <1>8. ASSUME OtherStarts \/ Crash \/ Restart PROVE UNCHANGED agent
    BY <1>8 DEF OtherStarts, Crash, Restart
  <1> QED  BY <1>1, <1>2, <1>3, <1>4, <1>5, <1>6, <1>7, <1>8
    DEF Next, CallerStep, WorkerStep, OpArrives, OpStep

(* Flags and counters keep their types.                                    *)
LEMMA CountTypesStep ==
    ASSUME CountTypes, Next
    PROVE  CountTypes'
  <1>1. CASE UNCHANGED <<up, open, crashes, others, faults>>
    BY <1>1 DEF CountTypes
  <1>2. ASSUME Crash PROVE CountTypes'
    <2>1. up' = FALSE /\ open' = FALSE /\ crashes' = crashes + 1 /\ UNCHANGED <<others, faults>>
      BY <1>2 DEF Crash
    <2>2. crashes + 1 \in Nat
      BY DEF CountTypes
    <2> QED  BY <2>1, <2>2 DEF CountTypes
  <1>3. ASSUME NEW j \in Jobs, FailWrite(j) PROVE CountTypes'
    BY <1>3 DEF CountTypes, FailWrite
  <1>4. ASSUME NEW o \in Ops, FinishOp(o) PROVE CountTypes'
    BY <1>4 DEF CountTypes, FinishOp, faultVars
  <1>5. ASSUME OtherStarts PROVE CountTypes'
    BY <1>5 DEF CountTypes, OtherStarts
  <1>6. ASSUME Restart PROVE CountTypes'
    BY <1>6 DEF CountTypes, Restart, faultVars
  <1>7. ASSUME NEW j \in Jobs, AskTask(j) \/ AskMessage(j) \/ AcceptMessage(j)
            \/ CreateRecord(j) \/ Submit(j) \/ LoseCaller(j) \/ BeginWork(j)
            \/ QueueForSlot(j) \/ TakeSlot(j) \/ ReadAgent(j) \/ CommitStart(j)
            \/ StartTurn(j) \/ MissStart(j) \/ EndTurn(j) \/ CommitEnd(j)
            \/ FinishWork(j) \/ Killed(j)
       PROVE  UNCHANGED <<up, open, crashes, others, faults>>
    BY <1>7 DEF AskTask, faultVars, AskMessage, AcceptMessage, CreateRecord, Submit,
        LoseCaller, BeginWork, QueueForSlot, TakeSlot, ReadAgent, CommitStart, StartTurn,
        MissStart, EndTurn, CommitEnd, FinishWork, Killed
  <1>8. ASSUME NEW o \in Ops, AskCancel(o) \/ AskAgent(o) \/ Shutdown(o)
            \/ CancelNext(o) \/ DrainNext(o) \/ AwaitWorker(o) \/ FinishUnstarted(o)
            \/ CheckAgent(o) \/ StartAgent(o) \/ MoveAgent(o) \/ ConfigureAgent(o)
            \/ StopAgent(o)
       PROVE  UNCHANGED <<up, open, crashes, others, faults>>
    BY <1>8 DEF AskCancel, faultVars, AskAgent, Shutdown, CancelNext, DrainNext,
        AwaitWorker, FinishUnstarted, CheckAgent, StartAgent, MoveAgent, ConfigureAgent,
        StopAgent
  <1> QED  BY <1>1, <1>2, <1>3, <1>4, <1>5, <1>6, <1>7, <1>8
    DEF Next, CallerStep, WorkerStep, OpArrives, OpStep

(***************************************************************************)
(* Capacity.                                                               *)
(***************************************************************************)
Reserving == {j \in Jobs : pc[j] \in {"creating", "created"}}
RoomKept ==
    /\ IsFiniteSet(tracked) /\ IsFiniteSet(Reserving) /\ reserved = Cardinality(Reserving)
    /\ Cardinality(tracked) + reserved <= MaxWaiting

SlotsHeld == \A j \in Jobs : pc[j] \in SlotPlaces => Among(slots, j, MaxConcurrent)

(* Whoever is counted has a worker, or a request that takes it out.        *)
Awaited(j) == \/ \E o \in Ops : victim[o] = j /\ opc[o] = "await"
              \/ \E o \in OfKind("shutdown") : j \in todo[o]
TrackedWork == \A j \in tracked : pc[j] \in Workers \cup {"over"}
KilledWork  == killed \subseteq tracked /\ \A j \in killed : pc[j] \in Workers
KilledAwaited  == open => \A j \in killed : Awaited(j)
TrackedAwaited == open => \A j \in tracked : pc[j] \in Workers \/ Awaited(j)

(* Whatever is tracked has a worker or had one.                            *)
LEMMA TrackedWorkStep ==
    ASSUME TrackedWork, PlaceTypes, SetTypes, Next
    PROVE  TrackedWork'
  <1>1. CASE UNCHANGED <<tracked, pc>>
    BY <1>1 DEF TrackedWork, Workers, SlotPlaces, Callers
  <1>2. ASSUME NEW j \in Jobs, AskTask(j) \/ AskMessage(j) \/ AcceptMessage(j)
            \/ CreateRecord(j) \/ LoseCaller(j)
       PROVE  TrackedWork'
    <2>1. Moved(j, {"idle"} \cup Callers, {"refused"} \cup Callers)
      BY <1>2, Moves DEF Moved, Workers, SlotPlaces, Callers
    <2>2. UNCHANGED tracked
      BY <1>2 DEF AskTask, AskMessage, runnerVars, AcceptMessage, CreateRecord, LoseCaller
    <2> QED  BY <2>1, <2>2 DEF TrackedWork, PlaceTypes, SetTypes, Moved, Workers,
        SlotPlaces, Callers
  <1>3. ASSUME NEW j \in Jobs, BeginWork(j) \/ QueueForSlot(j) \/ TakeSlot(j)
            \/ ReadAgent(j) \/ CommitStart(j) \/ StartTurn(j) \/ MissStart(j)
            \/ EndTurn(j) \/ CommitEnd(j) \/ FinishWork(j) \/ Killed(j) \/ FailWrite(j)
       PROVE  TrackedWork'
    <2>1. Moved(j, Workers, {"over"} \cup Workers)
      BY <1>3, Moves DEF Moved, Workers, SlotPlaces, Callers
    <2>2. tracked' \subseteq tracked
      BY <1>3 DEF BeginWork, runnerVars, QueueForSlot, TakeSlot, ReadAgent, CommitStart,
          StartTurn, MissStart, Forget, EndTurn, CommitEnd, FinishWork, Killed, FailWrite
    <2> QED  BY <2>1, <2>2 DEF TrackedWork, PlaceTypes, SetTypes, Moved, Workers,
        SlotPlaces, Callers
  <1>4. ASSUME NEW j \in Jobs, Submit(j) PROVE TrackedWork'
    <2>1. Moved(j, {"created"}, {"unstarted"})
      BY <1>4, Moves
    <2> QED  BY <1>4, <2>1 DEF TrackedWork, PlaceTypes, SetTypes, Moved, Submit, Workers,
        SlotPlaces, Callers
  <1>5. ASSUME NEW o \in Ops, AwaitWorker(o) PROVE TrackedWork'
    BY <1>5 DEF TrackedWork, PlaceTypes, SetTypes, AwaitWorker, Forget, workerVars,
        Workers, SlotPlaces, Callers
  <1>6. ASSUME Crash PROVE TrackedWork'
    BY <1>6 DEF TrackedWork, PlaceTypes, SetTypes, Crash, Workers, SlotPlaces, Callers
  <1>7. ASSUME NEW o \in Ops, AskCancel(o) \/ AskAgent(o) \/ Shutdown(o)
            \/ CancelNext(o) \/ DrainNext(o) \/ FinishUnstarted(o) \/ FinishOp(o)
            \/ CheckAgent(o) \/ StartAgent(o) \/ MoveAgent(o) \/ ConfigureAgent(o)
            \/ StopAgent(o)
       PROVE  UNCHANGED <<tracked, pc>>
    BY <1>7 DEF AskCancel, runnerVars, workerVars, AskAgent, Shutdown, CancelNext,
        DrainNext, FinishUnstarted, FinishOp, CheckAgent, StartAgent, MoveAgent,
        ConfigureAgent, StopAgent
  <1>8. ASSUME OtherStarts \/ Restart PROVE UNCHANGED <<tracked, pc>>
    BY <1>8 DEF OtherStarts, runnerVars, workerVars, Restart
  <1> QED  BY <1>1, <1>2, <1>3, <1>4, <1>5, <1>6, <1>7, <1>8
    DEF Next, CallerStep, WorkerStep, OpArrives, OpStep

(* A cancellation that is still to be thrown is of a tracked worker.       *)
LEMMA KilledWorkStep ==
    ASSUME KilledWork, TrackedWork, PlaceTypes, SetTypes, Next
    PROVE  KilledWork'
  <1>1. CASE UNCHANGED <<tracked, killed, pc>>
    BY <1>1 DEF KilledWork, Workers, SlotPlaces, Callers
  <1>2. ASSUME NEW j \in Jobs, AskTask(j) \/ AskMessage(j) \/ AcceptMessage(j)
            \/ CreateRecord(j) \/ LoseCaller(j)
       PROVE  KilledWork'
    <2>1. Moved(j, {"idle"} \cup Callers, {"refused"} \cup Callers)
      BY <1>2, Moves DEF Moved, Workers, SlotPlaces, Callers
    <2>2. UNCHANGED <<tracked, killed>>
      BY <1>2 DEF AskTask, AskMessage, runnerVars, AcceptMessage, CreateRecord, LoseCaller
    <2> QED  BY <2>1, <2>2 DEF KilledWork, TrackedWork, PlaceTypes, SetTypes, Moved,
        Workers, SlotPlaces, Callers
  <1>3. ASSUME NEW j \in Jobs, Submit(j) PROVE KilledWork'
    <2>1. Moved(j, {"created"}, {"unstarted"})
      BY <1>3, Moves
    <2> QED  BY <1>3, <2>1 DEF KilledWork, TrackedWork, PlaceTypes, SetTypes, Moved,
        Submit, Workers, SlotPlaces, Callers
  <1>4. ASSUME NEW j \in Jobs, BeginWork(j) PROVE KilledWork'
    <2>1. Moved(j, {"unstarted"}, {"over", "order", "slot"})
      BY <1>4, Moves
    <2> QED  BY <1>4, <2>1 DEF KilledWork, TrackedWork, PlaceTypes, SetTypes, Moved,
        BeginWork, Runs, runnerVars, Workers, SlotPlaces, Callers
  <1>5. ASSUME NEW j \in Jobs, QueueForSlot(j) PROVE KilledWork'
    <2>1. Moved(j, {"order"}, {"slot"})
      BY <1>5, Moves
    <2> QED  BY <1>5, <2>1 DEF KilledWork, TrackedWork, PlaceTypes, SetTypes, Moved,
        QueueForSlot, Runs, runnerVars, Workers, SlotPlaces, Callers
  <1>6. ASSUME NEW j \in Jobs, TakeSlot(j) PROVE KilledWork'
    <2>1. Moved(j, {"slot"}, {"starting", "admit"})
      BY <1>6, Moves
    <2> QED  BY <1>6, <2>1 DEF KilledWork, TrackedWork, PlaceTypes, SetTypes, Moved,
        TakeSlot, Runs, runnerVars, Workers, SlotPlaces, Callers
  <1>7. ASSUME NEW j \in Jobs, ReadAgent(j) PROVE KilledWork'
    <2>1. Moved(j, {"admit"}, {"starting", "ending"})
      BY <1>7, Moves
    <2> QED  BY <1>7, <2>1 DEF KilledWork, TrackedWork, PlaceTypes, SetTypes, Moved,
        ReadAgent, Runs, Workers, SlotPlaces, Callers
  <1>8. ASSUME NEW j \in Jobs, CommitStart(j) PROVE KilledWork'
    <2>1. Moved(j, {"starting"}, {"started", "missed"})
      BY <1>8, Moves
    <2> QED  BY <1>8, <2>1 DEF KilledWork, TrackedWork, PlaceTypes, SetTypes, Moved,
        CommitStart, Runs, runnerVars, Workers, SlotPlaces, Callers
  <1>9. ASSUME NEW j \in Jobs, StartTurn(j) PROVE KilledWork'
    <2>1. Moved(j, {"started"}, {"turn"})
      BY <1>9, Moves
    <2> QED  BY <1>9, <2>1 DEF KilledWork, TrackedWork, PlaceTypes, SetTypes, Moved,
        StartTurn, Runs, runnerVars, Workers, SlotPlaces, Callers
  <1>10. ASSUME NEW j \in Jobs, MissStart(j) PROVE KilledWork'
    <2>1. Moved(j, {"missed"}, {"over"})
      BY <1>10, Moves
    <2> QED  BY <1>10, <2>1 DEF KilledWork, TrackedWork, PlaceTypes, SetTypes, Moved,
        MissStart, Forget, Runs, Workers, SlotPlaces, Callers
  <1>11. ASSUME NEW j \in Jobs, EndTurn(j) PROVE KilledWork'
    <2>1. Moved(j, {"turn"}, {"ending"})
      BY <1>11, Moves
    <2> QED  BY <1>11, <2>1 DEF KilledWork, TrackedWork, PlaceTypes, SetTypes, Moved,
        EndTurn, Runs, runnerVars, Workers, SlotPlaces, Callers
  <1>12. ASSUME NEW j \in Jobs, CommitEnd(j) PROVE KilledWork'
    <2>1. Moved(j, {"ending"}, {"ended", "lapsed"})
      BY <1>12, Moves
    <2> QED  BY <1>12, <2>1 DEF KilledWork, TrackedWork, PlaceTypes, SetTypes, Moved,
        CommitEnd, Runs, runnerVars, Workers, SlotPlaces, Callers
  <1>13. ASSUME NEW j \in Jobs, FinishWork(j) PROVE KilledWork'
    <2>1. Moved(j, {"ended", "lapsed"}, {"over"})
      BY <1>13, Moves
    <2> QED  BY <1>13, <2>1 DEF KilledWork, TrackedWork, PlaceTypes, SetTypes, Moved,
        FinishWork, Forget, Runs, Workers, SlotPlaces, Callers
  <1>14. ASSUME NEW j \in Jobs, Killed(j) PROVE KilledWork'
    <2>1. Moved(j, Workers, {"ending", "over"})
      BY <1>14, Moves
    <2> QED  BY <1>14, <2>1 DEF KilledWork, TrackedWork, PlaceTypes, SetTypes, Moved,
        Killed, Forget, runnerVars, Workers, SlotPlaces, Callers
  <1>15. ASSUME NEW j \in Jobs, FailWrite(j) PROVE KilledWork'
    <2>1. Moved(j, {"starting", "ending"}, {"ending", "over"})
      BY <1>15, Moves
    <2> QED  BY <1>15, <2>1 DEF KilledWork, TrackedWork, PlaceTypes, SetTypes, Moved,
        FailWrite, Forget, Runs, runnerVars, Workers, SlotPlaces, Callers
  <1>16. ASSUME NEW o \in Ops, Shutdown(o) PROVE KilledWork'
    BY <1>16 DEF KilledWork, TrackedWork, PlaceTypes, SetTypes, Shutdown, Kill,
        runnerVars, workerVars, Workers, SlotPlaces, Callers
  <1>17. ASSUME NEW o \in Ops, CancelNext(o) PROVE KilledWork'
    BY <1>17 DEF KilledWork, TrackedWork, PlaceTypes, SetTypes, CancelNext, Kill,
        workerVars, Workers, SlotPlaces, Callers
  <1>18. ASSUME NEW o \in Ops, AwaitWorker(o) PROVE KilledWork'
    BY <1>18 DEF KilledWork, TrackedWork, PlaceTypes, SetTypes, AwaitWorker, Forget,
        workerVars, Workers, SlotPlaces, Callers
  <1>19. ASSUME Crash PROVE KilledWork'
    BY <1>19 DEF KilledWork, TrackedWork, PlaceTypes, SetTypes, Crash, Workers,
        SlotPlaces, Callers
  <1>20. ASSUME NEW o \in Ops, AskCancel(o) \/ AskAgent(o) \/ DrainNext(o)
            \/ FinishUnstarted(o) \/ FinishOp(o) \/ CheckAgent(o) \/ StartAgent(o)
            \/ MoveAgent(o) \/ ConfigureAgent(o) \/ StopAgent(o)
       PROVE  UNCHANGED <<tracked, killed, pc>>
    BY <1>20 DEF AskCancel, runnerVars, workerVars, AskAgent, DrainNext, FinishUnstarted,
        FinishOp, CheckAgent, StartAgent, MoveAgent, ConfigureAgent, StopAgent
  <1>21. ASSUME OtherStarts \/ Restart PROVE UNCHANGED <<tracked, killed, pc>>
    BY <1>21 DEF OtherStarts, runnerVars, workerVars, Restart
  <1> QED  BY <1>1, <1>2, <1>3, <1>4, <1>5, <1>6, <1>7, <1>8, <1>9, <1>10, <1>11, <1>12,
       <1>13, <1>14, <1>15, <1>16, <1>17, <1>18, <1>19, <1>20, <1>21
    DEF Next, CallerStep, WorkerStep, OpArrives, OpStep

(* Whoever cancels a worker is still waiting for it.                       *)
LEMMA KilledAwaitedStep ==
    ASSUME KilledAwaited, KilledWork, OpPlaces, OpTypes, TodoTypes, VictimTypes,
           NothingWhenDown, PlaceTypes, Next
    PROVE  KilledAwaited'
  <1>1. CASE UNCHANGED <<killed, opc, victim, todo, open>>
    BY <1>1 DEF KilledAwaited, Awaited, OfKind, Workers, SlotPlaces, AgentOps
  <1>2. ASSUME NEW j \in Jobs, Killed(j) PROVE KilledAwaited'
    BY <1>2 DEF KilledAwaited, KilledWork, OpPlaces, OpTypes, TodoTypes, VictimTypes,
        NothingWhenDown, PlaceTypes, Killed, opVars, Awaited, OfKind, Workers, SlotPlaces,
        AgentOps
  <1>3. ASSUME NEW o \in Ops, AskCancel(o) PROVE KilledAwaited'
    BY <1>3 DEF KilledAwaited, KilledWork, OpPlaces, OpTypes, TodoTypes, VictimTypes,
        NothingWhenDown, PlaceTypes, AskCancel, OpGoto, Awaited, OfKind, Workers,
        SlotPlaces, AgentOps
  <1>4. ASSUME NEW o \in Ops, AskAgent(o) PROVE KilledAwaited'
    BY <1>4 DEF KilledAwaited, KilledWork, OpPlaces, OpTypes, TodoTypes, VictimTypes,
        NothingWhenDown, PlaceTypes, AskAgent, OpGoto, Awaited, OfKind, Workers,
        SlotPlaces, AgentOps
  <1>5. ASSUME NEW o \in Ops, Shutdown(o) PROVE KilledAwaited'
    BY <1>5 DEF KilledAwaited, KilledWork, OpPlaces, OpTypes, TodoTypes, VictimTypes,
        NothingWhenDown, PlaceTypes, Shutdown, OpGoto, Kill, Awaited, OfKind, Workers,
        SlotPlaces, AgentOps
  <1>6. ASSUME NEW o \in Ops, CancelNext(o) PROVE KilledAwaited'
    BY <1>6 DEF KilledAwaited, KilledWork, OpPlaces, OpTypes, TodoTypes, VictimTypes,
        NothingWhenDown, PlaceTypes, CancelNext, OpGoto, Kill, Awaited, OfKind, Workers,
        SlotPlaces, AgentOps
  <1>7. ASSUME NEW o \in Ops, DrainNext(o) PROVE KilledAwaited'
    BY <1>7 DEF KilledAwaited, KilledWork, OpPlaces, OpTypes, TodoTypes, VictimTypes,
        NothingWhenDown, PlaceTypes, DrainNext, OpGoto, Awaited, OfKind, Workers,
        SlotPlaces, AgentOps
  <1>8. ASSUME NEW o \in Ops, AwaitWorker(o) PROVE KilledAwaited'
    BY <1>8 DEF KilledAwaited, KilledWork, OpPlaces, OpTypes, TodoTypes, VictimTypes,
        NothingWhenDown, PlaceTypes, AwaitWorker, OpGoto, Awaited, OfKind, Workers,
        SlotPlaces, AgentOps
  <1>9. ASSUME NEW o \in Ops, FinishUnstarted(o) PROVE KilledAwaited'
    BY <1>9 DEF KilledAwaited, KilledWork, OpPlaces, OpTypes, TodoTypes, VictimTypes,
        NothingWhenDown, PlaceTypes, FinishUnstarted, OpGoto, Awaited, OfKind, Workers,
        SlotPlaces, AgentOps
  <1>10. ASSUME NEW o \in Ops, FinishOp(o) PROVE KilledAwaited'
    BY <1>10 DEF KilledAwaited, KilledWork, OpPlaces, OpTypes, TodoTypes, VictimTypes,
        NothingWhenDown, PlaceTypes, FinishOp, OpGoto, Awaited, OfKind, Workers,
        SlotPlaces, AgentOps
  <1>11. ASSUME NEW o \in Ops, CheckAgent(o) PROVE KilledAwaited'
    BY <1>11 DEF KilledAwaited, KilledWork, OpPlaces, OpTypes, TodoTypes, VictimTypes,
        NothingWhenDown, PlaceTypes, CheckAgent, OpGoto, Awaited, OfKind, Workers,
        SlotPlaces, AgentOps
  <1>12. ASSUME NEW o \in Ops, StartAgent(o) PROVE KilledAwaited'
    BY <1>12 DEF KilledAwaited, KilledWork, OpPlaces, OpTypes, TodoTypes, VictimTypes,
        NothingWhenDown, PlaceTypes, StartAgent, OpGoto, Awaited, OfKind, Workers,
        SlotPlaces, AgentOps
  <1>13. ASSUME NEW o \in Ops, MoveAgent(o) PROVE KilledAwaited'
    BY <1>13 DEF KilledAwaited, KilledWork, OpPlaces, OpTypes, TodoTypes, VictimTypes,
        NothingWhenDown, PlaceTypes, MoveAgent, OpGoto, Awaited, OfKind, Workers,
        SlotPlaces, AgentOps
  <1>14. ASSUME NEW o \in Ops, ConfigureAgent(o) PROVE KilledAwaited'
    BY <1>14 DEF KilledAwaited, KilledWork, OpPlaces, OpTypes, TodoTypes, VictimTypes,
        NothingWhenDown, PlaceTypes, ConfigureAgent, OpGoto, Awaited, OfKind, Workers,
        SlotPlaces, AgentOps
  <1>15. ASSUME NEW o \in Ops, StopAgent(o) PROVE KilledAwaited'
    BY <1>15 DEF KilledAwaited, KilledWork, OpPlaces, OpTypes, TodoTypes, VictimTypes,
        NothingWhenDown, PlaceTypes, StopAgent, OpGoto, Awaited, OfKind, Workers,
        SlotPlaces, AgentOps
  <1>16. ASSUME Crash PROVE KilledAwaited'
    BY <1>16 DEF KilledAwaited, KilledWork, OpPlaces, OpTypes, TodoTypes, VictimTypes,
        NothingWhenDown, PlaceTypes, Crash, Awaited, OfKind, Workers, SlotPlaces, AgentOps
  <1>17. ASSUME Restart PROVE KilledAwaited'
    BY <1>17 DEF KilledAwaited, KilledWork, OpPlaces, OpTypes, TodoTypes, VictimTypes,
        NothingWhenDown, PlaceTypes, Restart, opVars, Awaited, OfKind, Workers,
        SlotPlaces, AgentOps
  <1>18. ASSUME NEW j \in Jobs, AskTask(j) \/ AskMessage(j) \/ AcceptMessage(j)
            \/ CreateRecord(j) \/ Submit(j) \/ LoseCaller(j) \/ BeginWork(j)
            \/ QueueForSlot(j) \/ TakeSlot(j) \/ ReadAgent(j) \/ CommitStart(j)
            \/ StartTurn(j) \/ MissStart(j) \/ EndTurn(j) \/ CommitEnd(j)
            \/ FinishWork(j) \/ FailWrite(j)
       PROVE  UNCHANGED <<killed, opc, victim, todo, open>>
    BY <1>18 DEF AskTask, opVars, AskMessage, AcceptMessage, CreateRecord, Submit,
        LoseCaller, BeginWork, QueueForSlot, TakeSlot, ReadAgent, CommitStart, StartTurn,
        MissStart, EndTurn, CommitEnd, FinishWork, FailWrite
  <1>19. ASSUME OtherStarts PROVE UNCHANGED <<killed, opc, victim, todo, open>>
    BY <1>19 DEF OtherStarts, opVars
  <1> QED  BY <1>1, <1>2, <1>3, <1>4, <1>5, <1>6, <1>7, <1>8, <1>9, <1>10, <1>11, <1>12,
       <1>13, <1>14, <1>15, <1>16, <1>17, <1>18, <1>19
    DEF Next, CallerStep, WorkerStep, OpArrives, OpStep

(* A worker that ended without being entered is taken out by who awaits    *)
(* it.                                                                     *)
LEMMA TrackedAwaitedStep ==
    ASSUME TrackedAwaited, SetTypes, KilledAwaited, KilledWork, OpPlaces,
           OpTypes, TodoTypes, VictimTypes, NothingWhenDown, PlaceTypes, Next
    PROVE  TrackedAwaited'
  <1>1. CASE UNCHANGED <<tracked, pc, opc, victim, todo, open>>
    BY <1>1 DEF TrackedAwaited, Awaited, OfKind, Workers, SlotPlaces, AgentOps
  <1>2. ASSUME NEW j \in Jobs, AskTask(j) \/ AskMessage(j) \/ AcceptMessage(j)
            \/ CreateRecord(j) \/ LoseCaller(j)
       PROVE  TrackedAwaited'
    <2>1. Moved(j, {"idle"} \cup Callers, {"refused"} \cup Callers)
      BY <1>2, Moves DEF Moved, Workers, SlotPlaces, Callers
    <2>2. UNCHANGED <<tracked, opc, victim, todo, open>>
      BY <1>2 DEF AskTask, opVars, AskMessage, runnerVars, AcceptMessage, CreateRecord,
          LoseCaller
    <2> QED  BY <2>1, <2>2 DEF TrackedAwaited, SetTypes, KilledAwaited, KilledWork,
        OpPlaces, OpTypes, TodoTypes, VictimTypes, NothingWhenDown, PlaceTypes, Moved,
        Awaited, OfKind, Workers, SlotPlaces, AgentOps, Callers
  <1>3. ASSUME NEW j \in Jobs, BeginWork(j) \/ QueueForSlot(j) \/ TakeSlot(j)
            \/ ReadAgent(j) \/ CommitStart(j) \/ StartTurn(j) \/ MissStart(j)
            \/ EndTurn(j) \/ CommitEnd(j) \/ FinishWork(j) \/ FailWrite(j)
       PROVE  TrackedAwaited'
    <2>1. Moved(j, Workers, {"over"} \cup Workers)
      BY <1>3, Moves DEF Moved, Workers, SlotPlaces, Callers
    <2>2. /\ UNCHANGED <<opc, victim, todo, open>> /\ tracked' \subseteq tracked
          /\ open => \A k \in tracked' : k = j => pc'[j] \in Workers
      BY <1>3, <2>1 DEF BeginWork, Runs, runnerVars, opVars, QueueForSlot, TakeSlot,
          ReadAgent, CommitStart, StartTurn, MissStart, Forget, EndTurn, CommitEnd,
          FinishWork, FailWrite, Moved, Goto, RecordEnd, Workers, SlotPlaces, PlaceTypes
    <2> QED  BY <2>1, <2>2 DEF TrackedAwaited, SetTypes, KilledAwaited, KilledWork,
        OpPlaces, OpTypes, TodoTypes, VictimTypes, NothingWhenDown, PlaceTypes, Moved,
        Awaited, OfKind, Workers, SlotPlaces, AgentOps
  <1>4. ASSUME NEW o \in Ops, AwaitWorker(o) PROVE TrackedAwaited'
    <2> SUFFICES ASSUME NEW k \in tracked', open' PROVE (pc[k] \in Workers \/ Awaited(k))'
      BY DEF TrackedAwaited
    <2>1. k \in tracked /\ k # victim[o] /\ open /\ UNCHANGED <<pc, victim, todo>>
      BY <1>4 DEF AwaitWorker, NeverEntered, Forget, workerVars
    <2>2. \A p \in Ops : p # o => opc'[p] = opc[p]
      BY <1>4 DEF AwaitWorker, OpGoto, OpTypes
    <2> QED  BY <2>1, <2>2 DEF TrackedAwaited, Awaited
  <1>5. ASSUME NEW j \in Jobs, Submit(j) PROVE TrackedAwaited'
    <2>1. Moved(j, {"created"}, {"unstarted"})
      BY <1>5, Moves
    <2> QED  BY <1>5, <2>1 DEF TrackedAwaited, SetTypes, KilledAwaited, KilledWork,
        OpPlaces, OpTypes, TodoTypes, VictimTypes, NothingWhenDown, PlaceTypes, Moved,
        Submit, opVars, Awaited, OfKind, Workers, SlotPlaces, AgentOps
  <1>6. ASSUME NEW j \in Jobs, Killed(j) PROVE TrackedAwaited'
    <2>1. Moved(j, Workers, {"ending", "over"})
      BY <1>6, Moves
    <2> QED  BY <1>6, <2>1 DEF TrackedAwaited, SetTypes, KilledAwaited, KilledWork,
        OpPlaces, OpTypes, TodoTypes, VictimTypes, NothingWhenDown, PlaceTypes, Moved,
        Killed, Forget, runnerVars, opVars, Awaited, OfKind, Workers, SlotPlaces, AgentOps
  <1>7. ASSUME NEW o \in Ops, AskCancel(o) PROVE TrackedAwaited'
    BY <1>7 DEF TrackedAwaited, SetTypes, KilledAwaited, KilledWork, OpPlaces, OpTypes,
        TodoTypes, VictimTypes, NothingWhenDown, PlaceTypes, AskCancel, OpGoto,
        runnerVars, workerVars, Awaited, OfKind, Workers, SlotPlaces, AgentOps
  <1>8. ASSUME NEW o \in Ops, AskAgent(o) PROVE TrackedAwaited'
    BY <1>8 DEF TrackedAwaited, SetTypes, KilledAwaited, KilledWork, OpPlaces, OpTypes,
        TodoTypes, VictimTypes, NothingWhenDown, PlaceTypes, AskAgent, OpGoto, runnerVars,
        workerVars, Awaited, OfKind, Workers, SlotPlaces, AgentOps
  <1>9. ASSUME NEW o \in Ops, Shutdown(o) PROVE TrackedAwaited'
    BY <1>9 DEF TrackedAwaited, SetTypes, KilledAwaited, KilledWork, OpPlaces, OpTypes,
        TodoTypes, VictimTypes, NothingWhenDown, PlaceTypes, Shutdown, OpGoto, runnerVars,
        workerVars, Awaited, OfKind, Workers, SlotPlaces, AgentOps
  <1>10. ASSUME NEW o \in Ops, CancelNext(o) PROVE TrackedAwaited'
    BY <1>10 DEF TrackedAwaited, SetTypes, KilledAwaited, KilledWork, OpPlaces, OpTypes,
        TodoTypes, VictimTypes, NothingWhenDown, PlaceTypes, CancelNext, OpGoto,
        workerVars, Awaited, OfKind, Workers, SlotPlaces, AgentOps
  <1>11. ASSUME NEW o \in Ops, DrainNext(o) PROVE TrackedAwaited'
    BY <1>11 DEF TrackedAwaited, SetTypes, KilledAwaited, KilledWork, OpPlaces, OpTypes,
        TodoTypes, VictimTypes, NothingWhenDown, PlaceTypes, DrainNext, OpGoto,
        runnerVars, workerVars, Awaited, OfKind, Workers, SlotPlaces, AgentOps
  <1>12. ASSUME NEW o \in Ops, FinishUnstarted(o) PROVE TrackedAwaited'
    BY <1>12 DEF TrackedAwaited, SetTypes, KilledAwaited, KilledWork, OpPlaces, OpTypes,
        TodoTypes, VictimTypes, NothingWhenDown, PlaceTypes, FinishUnstarted, OpGoto,
        runnerVars, workerVars, Awaited, OfKind, Workers, SlotPlaces, AgentOps
  <1>13. ASSUME NEW o \in Ops, FinishOp(o) PROVE TrackedAwaited'
    BY <1>13 DEF TrackedAwaited, SetTypes, KilledAwaited, KilledWork, OpPlaces, OpTypes,
        TodoTypes, VictimTypes, NothingWhenDown, PlaceTypes, FinishOp, OpGoto, runnerVars,
        workerVars, Awaited, OfKind, Workers, SlotPlaces, AgentOps
  <1>14. ASSUME NEW o \in Ops, CheckAgent(o) PROVE TrackedAwaited'
    BY <1>14 DEF TrackedAwaited, SetTypes, KilledAwaited, KilledWork, OpPlaces, OpTypes,
        TodoTypes, VictimTypes, NothingWhenDown, PlaceTypes, CheckAgent, OpGoto,
        runnerVars, workerVars, Awaited, OfKind, Workers, SlotPlaces, AgentOps
  <1>15. ASSUME NEW o \in Ops, StartAgent(o) PROVE TrackedAwaited'
    BY <1>15 DEF TrackedAwaited, SetTypes, KilledAwaited, KilledWork, OpPlaces, OpTypes,
        TodoTypes, VictimTypes, NothingWhenDown, PlaceTypes, StartAgent, OpGoto,
        runnerVars, workerVars, Awaited, OfKind, Workers, SlotPlaces, AgentOps
  <1>16. ASSUME NEW o \in Ops, MoveAgent(o) PROVE TrackedAwaited'
    BY <1>16 DEF TrackedAwaited, SetTypes, KilledAwaited, KilledWork, OpPlaces, OpTypes,
        TodoTypes, VictimTypes, NothingWhenDown, PlaceTypes, MoveAgent, OpGoto,
        runnerVars, workerVars, Awaited, OfKind, Workers, SlotPlaces, AgentOps
  <1>17. ASSUME NEW o \in Ops, ConfigureAgent(o) PROVE TrackedAwaited'
    BY <1>17 DEF TrackedAwaited, SetTypes, KilledAwaited, KilledWork, OpPlaces, OpTypes,
        TodoTypes, VictimTypes, NothingWhenDown, PlaceTypes, ConfigureAgent, OpGoto,
        runnerVars, workerVars, Awaited, OfKind, Workers, SlotPlaces, AgentOps
  <1>18. ASSUME NEW o \in Ops, StopAgent(o) PROVE TrackedAwaited'
    BY <1>18 DEF TrackedAwaited, SetTypes, KilledAwaited, KilledWork, OpPlaces, OpTypes,
        TodoTypes, VictimTypes, NothingWhenDown, PlaceTypes, StopAgent, OpGoto,
        runnerVars, workerVars, Awaited, OfKind, Workers, SlotPlaces, AgentOps
  <1>19. ASSUME Crash PROVE TrackedAwaited'
    BY <1>19 DEF TrackedAwaited, SetTypes, KilledAwaited, KilledWork, OpPlaces, OpTypes,
        TodoTypes, VictimTypes, NothingWhenDown, PlaceTypes, Crash, Awaited, OfKind,
        Workers, SlotPlaces, AgentOps
  <1>20. ASSUME Restart PROVE TrackedAwaited'
    BY <1>20 DEF TrackedAwaited, SetTypes, KilledAwaited, KilledWork, OpPlaces, OpTypes,
        TodoTypes, VictimTypes, NothingWhenDown, PlaceTypes, Restart, runnerVars,
        workerVars, opVars, Awaited, OfKind, Workers, SlotPlaces, AgentOps
  <1>21. ASSUME OtherStarts PROVE UNCHANGED <<tracked, pc, opc, victim, todo, open>>
    BY <1>21 DEF OtherStarts, runnerVars, workerVars, opVars
  <1> QED  BY <1>1, <1>2, <1>3, <1>4, <1>5, <1>6, <1>7, <1>8, <1>9, <1>10, <1>11, <1>12,
       <1>13, <1>14, <1>15, <1>16, <1>17, <1>18, <1>19, <1>20, <1>21
    DEF Next, CallerStep, WorkerStep, OpArrives, OpStep

(* Who stands among the first stays there while others come and go.        *)
LEMMA SlotLine ==
    ASSUME SlotTypes, NEW j \in Jobs, NEW k \in Jobs, Among(slots, k, MaxConcurrent)
    PROVE  /\ Among(Append(slots, j), k, MaxConcurrent)
           /\ k # j => Among(Without(slots, j), k, MaxConcurrent)
  BY WithoutKeeps, AppendKeeps, LimitsAssumption DEF SlotTypes

(* Every job with a slot stands among the first MaxConcurrent of the line, *)
(* whoever leaves.                                                         *)
LEMMA SlotsHeldStep ==
    ASSUME SlotsHeld, PlaceTypes, SlotTypes, Next
    PROVE  SlotsHeld'
  <1>1. CASE UNCHANGED <<slots, pc>>
    BY <1>1 DEF SlotsHeld, SlotPlaces
  <1>2. ASSUME NEW j \in Jobs, AskTask(j) \/ AskMessage(j) \/ AcceptMessage(j)
            \/ CreateRecord(j) \/ LoseCaller(j)
       PROVE  SlotsHeld'
    <2>1. Moved(j, {"idle"} \cup Callers, {"refused"} \cup Callers)
      BY <1>2, Moves DEF Moved, Workers, SlotPlaces, Callers
    <2>2. UNCHANGED slots
      BY <1>2 DEF AskTask, lineVars, waitVars, AskMessage, AcceptMessage, CreateRecord,
          LoseCaller
    <2> QED  BY SlotLine, <2>1, <2>2 DEF SlotsHeld, PlaceTypes, Moved, SlotPlaces, Callers
  <1>3. ASSUME NEW j \in Jobs, ReadAgent(j) \/ CommitStart(j) \/ StartTurn(j)
            \/ MissStart(j) \/ EndTurn(j) \/ CommitEnd(j) \/ FinishWork(j) \/ Killed(j)
            \/ FailWrite(j)
       PROVE  SlotsHeld'
    <2>1. Moved(j, Workers, {"over"} \cup Workers)
      BY <1>3, Moves DEF Moved, Workers, SlotPlaces, Callers
    <2>2. /\ slots' = slots \/ slots' = Without(slots, j)
          /\ pc'[j] \in SlotPlaces => slots' = slots /\ pc[j] \in SlotPlaces
      BY <1>3, <2>1 DEF ReadAgent, RecordEnd, LeaveLines, Runs, waitVars, CommitStart,
          lineVars, StartTurn, MissStart, EndTurn, CommitEnd, FinishWork, Killed,
          FailWrite, Moved, SlotPlaces, Goto, PlaceTypes
    <2> QED  BY SlotLine, <2>1, <2>2 DEF SlotsHeld, PlaceTypes, Moved, SlotPlaces
  <1>4. ASSUME NEW j \in Jobs, BeginWork(j) \/ QueueForSlot(j) PROVE SlotsHeld'
    <2>1. Moved(j, Workers, {"over"} \cup Workers)
      BY <1>4, Moves DEF Moved, Workers, SlotPlaces, Callers
    <2>2. /\ slots' = slots \/ slots' = Append(slots, j)
          /\ pc'[j] \notin SlotPlaces
      BY <1>4, <2>1 DEF BeginWork, Runs, QueueForSlot, Moved, SlotPlaces, Goto, PlaceTypes
    <2> QED  BY SlotLine, <2>1, <2>2 DEF SlotsHeld, PlaceTypes, Moved, SlotPlaces
  <1>5. ASSUME NEW j \in Jobs, TakeSlot(j) PROVE SlotsHeld'
    <2>1. Moved(j, {"slot"}, {"starting", "admit"})
      BY <1>5, Moves
    <2>2. slots' = slots /\ Among(slots, j, MaxConcurrent)
      BY <1>5 DEF TakeSlot, HasSlot, waitVars, Among
    <2> QED  BY <2>1, <2>2 DEF SlotsHeld, Moved
  <1>6. ASSUME NEW j \in Jobs, Submit(j) PROVE SlotsHeld'
    <2>1. Moved(j, {"created"}, {"unstarted"})
      BY <1>6, Moves
    <2> QED  BY <1>6, SlotLine, <2>1 DEF SlotsHeld, PlaceTypes, Moved, Submit, SlotPlaces
  <1>7. ASSUME Crash PROVE SlotsHeld'
    BY <1>7, SlotLine DEF SlotsHeld, PlaceTypes, Crash, SlotPlaces
  <1>8. ASSUME NEW o \in Ops, AskCancel(o) \/ AskAgent(o) \/ Shutdown(o)
            \/ CancelNext(o) \/ DrainNext(o) \/ AwaitWorker(o) \/ FinishUnstarted(o)
            \/ FinishOp(o) \/ CheckAgent(o) \/ StartAgent(o) \/ MoveAgent(o)
            \/ ConfigureAgent(o) \/ StopAgent(o)
       PROVE  UNCHANGED <<slots, pc>>
    BY <1>8 DEF AskCancel, lineVars, waitVars, workerVars, AskAgent, Shutdown, CancelNext,
        DrainNext, AwaitWorker, FinishUnstarted, FinishOp, CheckAgent, StartAgent,
        MoveAgent, ConfigureAgent, StopAgent
  <1>9. ASSUME OtherStarts \/ Restart PROVE UNCHANGED <<slots, pc>>
    BY <1>9 DEF OtherStarts, lineVars, waitVars, workerVars, Restart
  <1> QED  BY <1>1, <1>2, <1>3, <1>4, <1>5, <1>6, <1>7, <1>8, <1>9
    DEF Next, CallerStep, WorkerStep, OpArrives, OpStep

(* Nobody new is counted.                                                  *)
LEMMA NobodyNew ==
    ASSUME RoomKept, LimitsAssumption, tracked' \subseteq tracked,
           reserved' = reserved, Reserving' = Reserving
    PROVE  RoomKept'
  <1>1. IsFiniteSet(tracked') /\ Cardinality(tracked') <= Cardinality(tracked)
    BY FS_Subset DEF RoomKept
  <1>2. Cardinality(tracked) \in Nat /\ Cardinality(tracked') \in Nat /\ reserved \in Nat
    BY <1>1, FS_CardinalityType DEF RoomKept
  <1> QED  BY <1>1, <1>2 DEF RoomKept, LimitsAssumption

(* A place is taken for j, which has none yet, if there is room.           *)
LEMMA PlaceTaken ==
    ASSUME RoomKept, LimitsAssumption, NEW j \in Jobs, HasRoom, j \notin Reserving,
           tracked' = tracked, reserved' = reserved + 1, Reserving' = Reserving \cup {j}
    PROVE  RoomKept'
  <1>1. /\ IsFiniteSet(Reserving') /\ Cardinality(Reserving') = reserved + 1
    BY FS_AddElement DEF RoomKept
  <1>2. Cardinality(tracked) \in Nat /\ reserved \in Nat
    BY FS_CardinalityType DEF RoomKept
  <1> QED  BY <1>1, <1>2 DEF RoomKept, HasRoom, LimitsAssumption

(* Its place is given back, or becomes that of its worker.                 *)
LEMMA PlaceLeft ==
    ASSUME RoomKept, LimitsAssumption, NEW j \in Jobs, j \in Reserving,
           tracked' = tracked \/ tracked' = tracked \cup {j},
           reserved' = reserved - 1, Reserving' = Reserving \ {j}
    PROVE  RoomKept'
  <1>1. /\ IsFiniteSet(Reserving') /\ Cardinality(Reserving') = reserved - 1
    BY FS_RemoveElement DEF RoomKept
  <1>2. IsFiniteSet(tracked) /\ Cardinality(tracked) \in Nat
    BY FS_CardinalityType DEF RoomKept
  <1>4. IsFiniteSet(tracked') /\ Cardinality(tracked') \in Nat
        /\ Cardinality(tracked') <= Cardinality(tracked) + 1
    <2>1. CASE tracked' = tracked
      BY <1>2, <2>1
    <2>2. CASE tracked' = tracked \cup {j}
      <3>1. /\ IsFiniteSet(tracked \cup {j})
            /\ Cardinality(tracked \cup {j}) \in {Cardinality(tracked), Cardinality(tracked) + 1}
        BY <1>2, FS_AddElement
      <3> QED  BY <1>2, <2>2, <3>1
    <2> QED  BY <2>1, <2>2
  <1>3. reserved \in Nat
    BY FS_CardinalityType DEF RoomKept
  <1> QED  BY <1>1, <1>2, <1>3, <1>4 DEF RoomKept, LimitsAssumption

(* Places that are reserved become tracked work or are given back, each    *)
(* once.                                                                   *)
LEMMA RoomKeptStep ==
    ASSUME RoomKept, PlaceTypes, Next
    PROVE  RoomKept'
  <1>1. CASE UNCHANGED <<tracked, pc, reserved>>
    BY <1>1 DEF RoomKept, Reserving
  <1>2. ASSUME NEW j \in Jobs, AskTask(j) PROVE RoomKept'
    <2>1. Moved(j, {"idle"}, {"creating", "refused"})
      BY <1>2, Moves
    <2>2. CASE pc'[j] = "creating"
      <3>1. tracked' = tracked /\ reserved' = reserved + 1 /\ HasRoom
        BY <1>2, <2>2 DEF AskTask, Goto, PlaceTypes
      <3>2. j \notin Reserving /\ Reserving' = Reserving \cup {j}
        BY <2>1, <2>2 DEF Reserving, Moved
      <3> QED  BY <3>1, <3>2, PlaceTaken, LimitsAssumption
    <2>3. CASE pc'[j] = "refused"
      <3>1. tracked' = tracked /\ reserved' = reserved
        BY <1>2, <2>3 DEF AskTask, Goto, PlaceTypes
      <3>2. Reserving' = Reserving
        BY <2>1, <2>3 DEF Reserving, Moved
      <3> QED  BY <3>1, <3>2, NobodyNew, LimitsAssumption
    <2> QED  BY <2>1, <2>2, <2>3 DEF Moved
  <1>3. ASSUME NEW j \in Jobs, AcceptMessage(j) PROVE RoomKept'
    <2>1. Moved(j, {"ask"}, {"creating", "refused"})
      BY <1>3, Moves
    <2>2. CASE pc'[j] = "creating"
      <3>1. tracked' = tracked /\ reserved' = reserved + 1 /\ HasRoom
        BY <1>3, <2>2 DEF AcceptMessage, Goto, PlaceTypes
      <3>2. j \notin Reserving /\ Reserving' = Reserving \cup {j}
        BY <2>1, <2>2 DEF Reserving, Moved
      <3> QED  BY <3>1, <3>2, PlaceTaken, LimitsAssumption
    <2>3. CASE pc'[j] = "refused"
      <3>1. tracked' = tracked /\ reserved' = reserved
        BY <1>3, <2>3 DEF AcceptMessage, Goto, PlaceTypes
      <3>2. Reserving' = Reserving
        BY <2>1, <2>3 DEF Reserving, Moved
      <3> QED  BY <3>1, <3>2, NobodyNew, LimitsAssumption
    <2> QED  BY <2>1, <2>2, <2>3 DEF Moved
  <1>4. ASSUME NEW j \in Jobs, AskMessage(j) \/ CreateRecord(j) PROVE RoomKept'
    <2>1. tracked' = tracked /\ reserved' = reserved
      BY <1>4 DEF AskMessage, CreateRecord, runnerVars
    <2>2. Reserving' = Reserving
      BY <1>4, Moves DEF Reserving, Moved
    <2> QED  BY <2>1, <2>2, NobodyNew, LimitsAssumption
  <1>5. ASSUME NEW j \in Jobs, Submit(j) PROVE RoomKept'
    <2>1. Moved(j, {"created"}, {"unstarted"})
      BY <1>5, Moves
    <2>2. j \in Reserving /\ Reserving' = Reserving \ {j}
      BY <2>1 DEF Reserving, Moved
    <2> QED  BY <1>5, <2>2, PlaceLeft, LimitsAssumption DEF Submit
  <1>6. ASSUME NEW j \in Jobs, LoseCaller(j) PROVE RoomKept'
    <2>1. Moved(j, {"ask", "creating", "created"}, {"refused"})
      BY <1>6, Moves
    <2>2. CASE pc[j] = "ask"
      <3>1. tracked' = tracked /\ reserved' = reserved
        BY <1>6, <2>2 DEF LoseCaller, Unreserve
      <3>2. Reserving' = Reserving
        BY <2>1, <2>2 DEF Reserving, Moved
      <3> QED  BY <3>1, <3>2, NobodyNew, LimitsAssumption
    <2>3. CASE pc[j] # "ask"
      <3>1. tracked' = tracked /\ reserved' = reserved - 1
        BY <1>6, <2>3 DEF LoseCaller, Unreserve
      <3>2. j \in Reserving /\ Reserving' = Reserving \ {j}
        BY <2>1, <2>3 DEF Reserving, Moved
      <3> QED  BY <3>1, <3>2, PlaceLeft, LimitsAssumption
    <2> QED  BY <2>2, <2>3
  <1>7. ASSUME NEW j \in Jobs, BeginWork(j) \/ QueueForSlot(j) \/ TakeSlot(j)
            \/ ReadAgent(j) \/ CommitStart(j) \/ StartTurn(j) \/ MissStart(j)
            \/ EndTurn(j) \/ CommitEnd(j) \/ FinishWork(j) \/ Killed(j) \/ FailWrite(j)
       PROVE  RoomKept'

    <2>1. Moved(j, Workers, {"over"} \cup Workers)
      BY <1>7, Moves DEF Moved, Workers, SlotPlaces
    <2>2. tracked' \subseteq tracked /\ reserved' = reserved
      BY <1>7 DEF BeginWork, runnerVars, QueueForSlot, TakeSlot, ReadAgent, CommitStart,
          StartTurn, MissStart, Forget, EndTurn, CommitEnd, FinishWork, Killed, FailWrite
    <2>3. Reserving' = Reserving
      BY <2>1 DEF Reserving, Moved, Workers, SlotPlaces
    <2> QED  BY <2>2, <2>3, NobodyNew, LimitsAssumption
  <1>8. ASSUME NEW o \in Ops, AwaitWorker(o) PROVE RoomKept'
    <2>1. tracked' \subseteq tracked /\ reserved' = reserved /\ pc' = pc
      BY <1>8 DEF AwaitWorker, Forget, workerVars
    <2> QED  BY <2>1, NobodyNew, LimitsAssumption DEF Reserving
  <1>9. ASSUME Crash PROVE RoomKept'
    <2>1. tracked' = {} /\ reserved' = 0 /\ Reserving' = {}
      BY <1>9 DEF Crash, Reserving
    <2> QED  BY <2>1, FS_EmptySet, LimitsAssumption DEF RoomKept
  <1>10. ASSUME NEW o \in Ops, AskCancel(o) \/ AskAgent(o) \/ Shutdown(o)
            \/ CancelNext(o) \/ DrainNext(o) \/ FinishUnstarted(o) \/ FinishOp(o)
            \/ CheckAgent(o) \/ StartAgent(o) \/ MoveAgent(o) \/ ConfigureAgent(o)
            \/ StopAgent(o)
       PROVE  UNCHANGED <<tracked, pc, reserved>>
    BY <1>10 DEF AskCancel, runnerVars, workerVars, AskAgent, Shutdown, CancelNext,
        DrainNext, FinishUnstarted, FinishOp, CheckAgent, StartAgent, MoveAgent,
        ConfigureAgent, StopAgent
  <1>11. ASSUME OtherStarts \/ Restart PROVE UNCHANGED <<tracked, pc, reserved>>
    BY <1>11 DEF OtherStarts, runnerVars, workerVars, Restart
  <1> QED  BY <1>1, <1>2, <1>3, <1>4, <1>5, <1>6, <1>7, <1>8, <1>9, <1>10, <1>11
    DEF Next, CallerStep, WorkerStep, OpArrives, OpStep

(* Every step is one of TaskLife, or none.                                 *)
LEMMA StepIsPromised ==
    ASSUME RecordTypes, RecordsKept, PlaceTypes, VerdictTypes, OpPlaces, Next
    PROVE  [Life!Next]_(Life!vars)
  <1>1. CASE UNCHANGED <<status, told>>
    BY <1>1 DEF Life!vars
  <1>2. ASSUME NEW j \in Jobs, CreateRecord(j) PROVE [Life!Next]_(Life!vars)
    <2>1. status[j] = "absent" /\ told' = told /\ status' = [status EXCEPT ![j] = "queued"]
      BY <1>2 DEF CreateRecord, RecordsKept
    <2> QED  BY <2>1 DEF Life!Next, Life!Queue
  <1>3. ASSUME NEW j \in Jobs, CommitStart(j) PROVE [Life!Next]_(Life!vars)
    <2>1. \/ UNCHANGED <<status, told>>
          \/ status[j] = "queued" /\ told' = told /\ status' = [status EXCEPT ![j] = "running"]
      BY <1>3 DEF CommitStart
    <2> QED  BY <2>1 DEF Life!Next, Life!Run, Life!vars
  <1>4. ASSUME NEW j \in Jobs, CommitEnd(j) PROVE [Life!Next]_(Life!vars)
    <2>1. \/ UNCHANGED <<status, told>>
          \/ status[j] \in Unfinished /\ told' = told /\ status' = [status EXCEPT ![j] = verdict[j]]
      BY <1>4 DEF CommitEnd, MayEnd
    <2>2. verdict[j] \in Ends
      BY <1>4 DEF CommitEnd, Runs, RecordsKept
    <2> QED  BY <2>1, <2>2 DEF Life!Next, Life!End, Life!vars, Life!Unfinished, Unfinished,
                                Life!Ends, Ends
  <1>5. ASSUME NEW j \in Jobs, FinishWork(j) PROVE [Life!Next]_(Life!vars)
    <2>1. CASE pc[j] = "ended"
      <3>1. status[j] = verdict[j] /\ verdict[j] \in Ends /\ told[j] = <<>>
        BY <2>1 DEF RecordsKept
      <3>2. Append(told[j], verdict[j]) = <<status[j]>>
        BY <3>1
      <3>3. status' = status /\ told' = [told EXCEPT ![j] = <<status[j]>>]
        BY <1>5, <2>1, <3>2 DEF FinishWork, Announce
      <3> QED  BY <3>1, <3>3 DEF Life!Next, Life!Tell, Life!Ends, Ends
    <2>2. CASE pc[j] # "ended"
      BY <1>5, <2>2 DEF FinishWork, Announce, Life!vars
    <2> QED  BY <2>1, <2>2
  <1>6. ASSUME NEW o \in Ops, FinishUnstarted(o) PROVE [Life!Next]_(Life!vars)
    <2>1. PICK end \in Ends :
             \/ UNCHANGED <<status, told>>
             \/ /\ status[victim[o]] \in Unfinished
                /\ status' = [status EXCEPT ![victim[o]] = end]
                /\ told' = [told EXCEPT ![victim[o]] = Append(@, end)]
      BY <1>6 DEF FinishUnstarted, MayEnd, Ends
    <2>2. CASE UNCHANGED <<status, told>>
      BY <2>2 DEF Life!vars
    <2>3. CASE ~UNCHANGED <<status, told>>
      <3>1. victim[o] \in Jobs
        BY <1>6 DEF FinishUnstarted, OpPlaces
      <3>2. told[victim[o]] = <<>>
        BY <2>1, <2>3, <3>1 DEF RecordsKept, Unfinished, Ends
      <3>3. Append(told[victim[o]], end) = <<end>>
        BY <3>2
      <3>4. told' = [told EXCEPT ![victim[o]] = <<end>>]
        BY <2>1, <2>3, <3>3
      <3> QED  BY <2>1, <2>3, <3>1, <3>4 DEF Life!Next, Life!End, Life!Unfinished,
          Unfinished,
                                             Life!Ends, Ends
    <2> QED  BY <2>2, <2>3
  <1>7. ASSUME OtherStarts \/ Restart PROVE [Life!Next]_(Life!vars)
    <2>1. Recover
      BY <1>7 DEF OtherStarts, Restart
    <2>2. \A j \in Jobs : status[j] \in Unfinished => Append(told[j], "interrupted") = <<"interrupted">>
      <3> SUFFICES ASSUME NEW j \in Jobs, status[j] \in Unfinished
                   PROVE  Append(told[j], "interrupted") = <<"interrupted">>
        OBVIOUS
      <3>1. told[j] = <<>>
        BY DEF RecordsKept, Unfinished, Ends
      <3> QED  BY <3>1
    <2> QED  BY <2>1, <2>2 DEF Recover, Life!Next, Life!Recover, Life!Unfinished, Unfinished
  <1>8. ASSUME NEW j \in Jobs, AskTask(j) \/ AskMessage(j) \/ AcceptMessage(j)
            \/ Submit(j) \/ LoseCaller(j) \/ BeginWork(j) \/ QueueForSlot(j)
            \/ TakeSlot(j) \/ ReadAgent(j) \/ StartTurn(j) \/ MissStart(j) \/ EndTurn(j)
            \/ Killed(j) \/ FailWrite(j)
       PROVE  UNCHANGED <<status, told>>
    BY <1>8 DEF AskTask, recordVars, AskMessage, AcceptMessage, Submit, LoseCaller,
        BeginWork, QueueForSlot, TakeSlot, ReadAgent, StartTurn, MissStart, EndTurn,
        Killed, FailWrite
  <1>9. ASSUME NEW o \in Ops, AskCancel(o) \/ AskAgent(o) \/ Shutdown(o)
            \/ CancelNext(o) \/ DrainNext(o) \/ AwaitWorker(o) \/ FinishOp(o)
            \/ CheckAgent(o) \/ StartAgent(o) \/ MoveAgent(o) \/ ConfigureAgent(o)
            \/ StopAgent(o)
       PROVE  UNCHANGED <<status, told>>
    BY <1>9 DEF AskCancel, recordVars, AskAgent, Shutdown, CancelNext, DrainNext,
        AwaitWorker, FinishOp, CheckAgent, StartAgent, MoveAgent, ConfigureAgent,
        StopAgent
  <1>10. ASSUME Crash PROVE UNCHANGED <<status, told>>
    BY <1>10 DEF Crash, recordVars
  <1> QED  BY <1>1, <1>2, <1>3, <1>4, <1>5, <1>6, <1>7, <1>8, <1>9, <1>10
    DEF Next, CallerStep, WorkerStep, OpArrives, OpStep

(* The first places of the slots' line have one holder each.               *)
LEMMA SlotsBoundTurns ==
    ASSUME SlotTypes, SlotsHeld
    PROVE  Cardinality({j \in Jobs : pc[j] \in SlotPlaces}) <= MaxConcurrent
  <1> DEFINE S == {j \in Jobs : pc[j] \in SlotPlaces}
             f == [j \in S |-> CHOOSE i \in DOMAIN slots : slots[i] = j /\ i <= MaxConcurrent]
  <1>1. \A j \in S : f[j] \in 1..MaxConcurrent /\ slots[f[j]] = j
    BY LimitsAssumption DEF SlotsHeld, Among, SlotTypes
  <1>2. f \in Injection(S, 1..MaxConcurrent)
    <2>1. f \in [S -> 1..MaxConcurrent]
      BY <1>1
    <2>2. \A a, b \in S : f[a] = f[b] => a = b
      BY <1>1
    <2> QED  BY <2>1, <2>2 DEF Injection, IsInjective
  <1>3. IsFiniteSet(1..MaxConcurrent) /\ Cardinality(1..MaxConcurrent) = MaxConcurrent
    BY FS_Interval, LimitsAssumption
  <1> QED  BY <1>2, <1>3, FS_Injection

(***************************************************************************)
(* Lines.                                                                  *)
(***************************************************************************)
(* Who holds the admission is in front of its line.                        *)
GatePlaces == {"creating", "created", "starting", "started"}
GateHeld ==
    /\ \A j \in Messages : pc[j] \in GatePlaces => InFront(admission, j)
    /\ \A o \in Ops : opc[o] = "acting" => InFront(admission, o)
(* New workers stand once in the line of those to be entered.              *)
ReadyLine == Once(ready) /\ \A j \in Jobs : Stands(ready, j) <=> pc[j] = "unstarted"
(* In the line of its key a worker stands until its end begins, once, and  *)
(* in front once it has passed the lock.                                   *)
OrderLines ==
    \A k \in Keys :
       /\ Once(orders[k])
       /\ \A j \in Jobs : Stands(orders[k], j) <=>
                              KeyOf(j) = k /\ pc[j] \in {"order", "slot"} \cup SlotPlaces
FrontHeld ==
    \A j \in Jobs : pc[j] \in {"slot"} \cup SlotPlaces /\ KeyOf(j) # None =>
                        InFront(orders[KeyOf(j)], j)

(* Jobs and requests are told apart in the admission's line.               *)
LEMMA Names == Messages \subseteq Jobs /\ \A j \in Jobs, o \in Ops : j # o
  BY JobsAssumption DEF Messages

(* Who is in front of the admission's line stays there until it leaves.    *)
LEMMA GateLine ==
    ASSUME GateTypes, NEW x \in Jobs \cup Ops, NEW y \in Jobs \cup Ops, InFront(admission, y)
    PROVE  /\ InFront(Append(admission, x), y)
           /\ x # y => InFront(Without(admission, x), y)
  BY WithoutKeeps, AppendKeeps DEF GateTypes

(* What the event loop's line is after its first was entered or another    *)
(* came.                                                                   *)
LEMMA ReadyLines ==
    ASSUME ReadyTypes, ReadyLine, NEW j \in Jobs
    PROVE  /\ InFront(ready, j) =>
                 Once(Tail(ready)) /\ \A k \in Jobs : Stands(Tail(ready), k) <=> Stands(ready, k) /\ k # j
           /\ pc[j] # "unstarted" =>
                 /\ Once(Append(ready, j))
                 /\ \A k \in Jobs : Stands(Append(ready, j), k) <=> Stands(ready, k) \/ k = j
  <1>1. InFront(ready, j) => Tail(ready) = Without(ready, j)
    BY WithoutOnce DEF ReadyTypes, ReadyLine
  <1>2. Once(Without(ready, j)) /\ ~Stands(Without(ready, j), j)
    BY WithoutOnce DEF ReadyTypes, ReadyLine
  <1>3. \A k \in Jobs : k # j => (Stands(Without(ready, j), k) <=> Stands(ready, k))
    BY WithoutKeeps DEF ReadyTypes
  <1>4. pc[j] # "unstarted" => Once(Append(ready, j))
    BY AppendKeeps DEF ReadyTypes, ReadyLine
  <1>5. \A k \in Jobs : Stands(Append(ready, j), k) <=> Stands(ready, k) \/ k = j
    BY AppendKeeps DEF ReadyTypes
  <1> QED  BY <1>1, <1>2, <1>3, <1>4, <1>5

(* What an order's line is after j left it or came to it.                  *)
LEMMA OrderLinesOf ==
    ASSUME OrderTypes, OrderLines, NEW k \in Keys, NEW j \in Jobs
    PROVE  /\ Once(Without(orders[k], j))
           /\ \A i \in Jobs : Stands(Without(orders[k], j), i) <=> Stands(orders[k], i) /\ i # j
           /\ \A i \in Jobs : InFront(orders[k], i) /\ i # j => InFront(Without(orders[k], j), i)
           /\ ~Stands(orders[k], j) => Once(Append(orders[k], j))
           /\ \A i \in Jobs : Stands(Append(orders[k], j), i) <=> Stands(orders[k], i) \/ i = j
           /\ \A i \in Jobs : InFront(orders[k], i) => InFront(Append(orders[k], j), i)
  <1>0. orders[k] \in Seq(Jobs) /\ Once(orders[k])
    BY DEF OrderTypes, OrderLines
  <1>1. Once(Without(orders[k], j)) /\ ~Stands(Without(orders[k], j), j)
    BY <1>0, WithoutOnce
  <1>2. \A i \in Jobs : InFront(orders[k], i) /\ i # j => InFront(Without(orders[k], j), i)
    BY <1>0, WithoutKeeps
  <1>3. ~Stands(orders[k], j) => Once(Append(orders[k], j))
    BY <1>0, AppendKeeps
  <1>4. \A i \in Jobs : /\ Stands(Append(orders[k], j), i) <=> Stands(orders[k], i) \/ i = j
                        /\ InFront(orders[k], i) => InFront(Append(orders[k], j), i)
    BY <1>0, AppendKeeps
  <1>5. \A i \in Jobs : Stands(Without(orders[k], j), i) <=> Stands(orders[k], i) /\ i # j
    <2> SUFFICES ASSUME NEW i \in Jobs
                 PROVE  Stands(Without(orders[k], j), i) <=> Stands(orders[k], i) /\ i # j
      OBVIOUS
    <2>1. CASE i = j
      BY <1>1, <2>1
    <2>2. CASE i # j
      BY <1>0, <2>2, WithoutKeeps
    <2> QED  BY <2>1, <2>2
  <1> QED  BY <1>1, <1>2, <1>3, <1>4, <1>5

(* The admission is held over each insert, each start and each agent       *)
(* operation.                                                              *)
LEMMA GateHeldStep ==
    ASSUME GateHeld, GateTypes, PlaceTypes, OpTypes, Next
    PROVE  GateHeld'
  <1>1. CASE UNCHANGED <<pc, opc, admission>>
    BY <1>1 DEF GateHeld
  <1>2. ASSUME NEW j \in Jobs, AskTask(j) \/ AskMessage(j) \/ LoseCaller(j) PROVE GateHeld'
    <2>1. Moved(j, {"idle"} \cup Callers, {"refused"} \cup Callers)
      BY <1>2, Moves DEF Moved, Workers, SlotPlaces, Callers
    <2>2. /\ opc' = opc
          /\ admission' \in {admission, Append(admission, j), Without(admission, j)}
          /\ (pc'[j] \in GatePlaces => j \notin Messages)
      BY <1>2, <2>1 DEF AskTask, lineVars, opVars, AskMessage, LoseCaller, Moved, Goto,
          PlaceTypes, Callers, Tasks, GatePlaces
    <2>3. \A y \in Jobs \cup Ops : y # j /\ InFront(admission, y) => InFront(admission', y)
      BY <2>2, GateLine
    <2> QED  BY Names, <2>1, <2>2, <2>3 DEF GateHeld, Moved
  <1>3. ASSUME NEW j \in Jobs, AcceptMessage(j) \/ CreateRecord(j) PROVE GateHeld'
    <2>1. Moved(j, {"idle"} \cup Callers, {"refused"} \cup Callers)
      BY <1>3, Moves DEF Moved, Workers, SlotPlaces, Callers
    <2>2. /\ opc' = opc
          /\ admission' \in {admission, Append(admission, j), Without(admission, j)}
          /\ (pc'[j] \in GatePlaces /\ j \in Messages => admission' = admission /\ InFront(admission, j))
      BY <1>3, <2>1 DEF AcceptMessage, opVars, CreateRecord, lineVars, Moved, Goto,
          PlaceTypes, Callers, GateHeld, GatePlaces
    <2>3. \A y \in Jobs \cup Ops : y # j /\ InFront(admission, y) => InFront(admission', y)
      BY <2>2, GateLine
    <2> QED  BY Names, <2>1, <2>2, <2>3 DEF GateHeld, Moved
  <1>4. ASSUME NEW j \in Jobs, BeginWork(j) \/ QueueForSlot(j) \/ TakeSlot(j)
            \/ StartTurn(j) \/ MissStart(j) \/ EndTurn(j) \/ CommitEnd(j)
            \/ FinishWork(j) \/ Killed(j) \/ FailWrite(j)
       PROVE  GateHeld'
    <2>1. Moved(j, Workers, {"over"} \cup Workers)
      BY <1>4, Moves DEF Moved, Workers, SlotPlaces, Callers
    <2>2. /\ opc' = opc
          /\ admission' \in {admission, Append(admission, j), Without(admission, j)}
          /\ (pc'[j] \in GatePlaces => j \notin Messages)
      BY <1>4, <2>1 DEF BeginWork, opVars, QueueForSlot, TakeSlot, StartTurn, MissStart,
          LeaveLines, EndTurn, RecordEnd, CommitEnd, lineVars, FinishWork, Killed,
          FailWrite, Moved, Goto, PlaceTypes, Tasks, GatePlaces
    <2>3. \A y \in Jobs \cup Ops : y # j /\ InFront(admission, y) => InFront(admission', y)
      BY <2>2, GateLine
    <2> QED  BY Names, <2>1, <2>2, <2>3 DEF GateHeld, Moved
  <1>5. ASSUME NEW j \in Jobs, ReadAgent(j) PROVE GateHeld'
    <2>1. Moved(j, Workers, {"over"} \cup Workers)
      BY <1>5, Moves DEF Moved, Workers, SlotPlaces, Callers
    <2>2. /\ opc' = opc
          /\ admission' \in {admission, Append(admission, j), Without(admission, j)}
          /\ (pc'[j] \in GatePlaces => admission' = admission /\ InFront(admission, j))
      BY <1>5, <2>1 DEF ReadAgent, RecordEnd, LeaveLines, KeepAdmission, opVars, Moved,
          Goto, PlaceTypes, GatePlaces
    <2>3. \A y \in Jobs \cup Ops : y # j /\ InFront(admission, y) => InFront(admission', y)
      BY <2>2, GateLine
    <2> QED  BY Names, <2>1, <2>2, <2>3 DEF GateHeld, Moved
  <1>6. ASSUME NEW j \in Jobs, Submit(j) PROVE GateHeld'
    <2>1. Moved(j, {"created"}, {"unstarted"})
      BY <1>6, Moves
    <2> QED  BY <1>6, GateLine, Names, <2>1 DEF GateHeld, PlaceTypes, OpTypes, Moved,
        Submit, opVars, GatePlaces
  <1>7. ASSUME NEW j \in Jobs, CommitStart(j) PROVE GateHeld'
    <2>1. Moved(j, {"starting"}, {"started", "missed"})
      BY <1>7, Moves
    <2> QED  BY <1>7, GateLine, Names, <2>1 DEF GateHeld, PlaceTypes, OpTypes, Moved,
        CommitStart, lineVars, opVars, GatePlaces
  <1>8. ASSUME Crash PROVE GateHeld'
    BY <1>8, GateLine, Names DEF GateHeld, PlaceTypes, OpTypes, Crash, GatePlaces
  <1>9. ASSUME NEW o \in Ops, AskCancel(o) PROVE GateHeld'
    BY <1>9, GateLine, Names DEF GateHeld, PlaceTypes, OpTypes, AskCancel, OpGoto,
        lineVars, workerVars
  <1>10. ASSUME NEW o \in Ops, AskAgent(o) PROVE GateHeld'
    BY <1>10, GateLine, Names DEF GateHeld, PlaceTypes, OpTypes, AskAgent, OpGoto,
        workerVars
  <1>11. ASSUME NEW o \in Ops, Shutdown(o) PROVE GateHeld'
    BY <1>11, GateLine, Names DEF GateHeld, PlaceTypes, OpTypes, Shutdown, OpGoto,
        lineVars, workerVars
  <1>12. ASSUME NEW o \in Ops, CancelNext(o) PROVE GateHeld'
    BY <1>12, GateLine, Names DEF GateHeld, PlaceTypes, OpTypes, CancelNext, OpGoto,
        lineVars, workerVars
  <1>13. ASSUME NEW o \in Ops, DrainNext(o) PROVE GateHeld'
    BY <1>13, GateLine, Names DEF GateHeld, PlaceTypes, OpTypes, DrainNext, OpGoto,
        lineVars, workerVars
  <1>14. ASSUME NEW o \in Ops, AwaitWorker(o) PROVE GateHeld'
    BY <1>14, GateLine, Names DEF GateHeld, PlaceTypes, OpTypes, AwaitWorker, OpGoto,
        Resumes, lineVars, workerVars
  <1>15. ASSUME NEW o \in Ops, FinishUnstarted(o) PROVE GateHeld'
    BY <1>15, GateLine, Names DEF GateHeld, PlaceTypes, OpTypes, FinishUnstarted, OpGoto,
        Resumes, lineVars, workerVars
  <1>16. ASSUME NEW o \in Ops, FinishOp(o) PROVE GateHeld'
    BY <1>16, GateLine, Names DEF GateHeld, PlaceTypes, OpTypes, FinishOp, OpGoto,
        lineVars, workerVars
  <1>17. ASSUME NEW o \in Ops, CheckAgent(o) PROVE GateHeld'
    BY <1>17, GateLine, Names DEF GateHeld, PlaceTypes, OpTypes, CheckAgent, OpGoto,
        workerVars
  <1>18. ASSUME NEW o \in Ops, StartAgent(o) PROVE GateHeld'
    BY <1>18, GateLine, Names DEF GateHeld, PlaceTypes, OpTypes, StartAgent, OpGoto,
        workerVars
  <1>19. ASSUME NEW o \in Ops, MoveAgent(o) PROVE GateHeld'
    BY <1>19, GateLine, Names DEF GateHeld, PlaceTypes, OpTypes, MoveAgent, OpGoto,
        workerVars
  <1>20. ASSUME NEW o \in Ops, ConfigureAgent(o) PROVE GateHeld'
    BY <1>20, GateLine, Names DEF GateHeld, PlaceTypes, OpTypes, ConfigureAgent, OpGoto,
        workerVars
  <1>21. ASSUME NEW o \in Ops, StopAgent(o) PROVE GateHeld'
    BY <1>21, GateLine, Names DEF GateHeld, PlaceTypes, OpTypes, StopAgent, OpGoto,
        workerVars
  <1>22. ASSUME OtherStarts \/ Restart PROVE UNCHANGED <<pc, opc, admission>>
    BY <1>22 DEF OtherStarts, lineVars, workerVars, opVars, Restart
  <1> QED  BY <1>1, <1>2, <1>3, <1>4, <1>5, <1>6, <1>7, <1>8, <1>9, <1>10, <1>11, <1>12,
       <1>13, <1>14, <1>15, <1>16, <1>17, <1>18, <1>19, <1>20, <1>21, <1>22
    DEF Next, CallerStep, WorkerStep, OpArrives, OpStep

(* Each new worker is entered, or dropped when killed, at its turn.        *)
LEMMA ReadyLineStep ==
    ASSUME ReadyLine, ReadyTypes, PlaceTypes, Next
    PROVE  ReadyLine'
  <1>1. CASE UNCHANGED <<ready, pc>>
    BY <1>1 DEF ReadyLine
  <1>2. ASSUME NEW j \in Jobs, AskTask(j) \/ AskMessage(j) \/ AcceptMessage(j)
            \/ CreateRecord(j) \/ LoseCaller(j)
       PROVE  ReadyLine'
    <2>1. Moved(j, {"idle"} \cup Callers, {"refused"} \cup Callers)
      BY <1>2, Moves DEF Moved, Workers, SlotPlaces, Callers
    <2>2. ready' = ready /\ pc[j] # "unstarted" /\ pc'[j] # "unstarted"
      BY <1>2, <2>1 DEF AskTask, lineVars, waitVars, AskMessage, AcceptMessage,
          CreateRecord, LoseCaller, Moved, Callers
    <2> QED  BY ReadyLines, <2>1, <2>2 DEF ReadyLine, PlaceTypes, Moved
  <1>3. ASSUME NEW j \in Jobs, QueueForSlot(j) \/ TakeSlot(j) \/ ReadAgent(j)
            \/ CommitStart(j) \/ StartTurn(j) \/ MissStart(j) \/ EndTurn(j)
            \/ CommitEnd(j) \/ FinishWork(j) \/ FailWrite(j)
       PROVE  ReadyLine'
    <2>1. Moved(j, Workers, {"over"} \cup Workers)
      BY <1>3, Moves DEF Moved, Workers, SlotPlaces, Callers
    <2>2. ready' = ready /\ pc[j] # "unstarted" /\ pc'[j] # "unstarted"
      BY <1>3, Moves DEF QueueForSlot, TakeSlot, waitVars, ReadAgent, RecordEnd,
          LeaveLines, CommitStart, lineVars, StartTurn, MissStart, EndTurn, CommitEnd,
          FinishWork, FailWrite, Moved
    <2> QED  BY ReadyLines, <2>1, <2>2 DEF ReadyLine, PlaceTypes, Moved
  <1>4. ASSUME NEW j \in Jobs, BeginWork(j) PROVE ReadyLine'
    <2>1. Moved(j, Workers, {"over"} \cup Workers)
      BY <1>4, Moves DEF Moved, Workers, SlotPlaces, Callers
    <2>2. InFront(ready, j) /\ ready' = Tail(ready) /\ pc[j] = "unstarted" /\ pc'[j] # "unstarted"
      BY <1>4, Moves DEF BeginWork, NextReady, Moved
    <2> QED  BY ReadyLines, <2>1, <2>2 DEF ReadyLine, PlaceTypes, Moved
  <1>5. ASSUME NEW j \in Jobs, Killed(j) PROVE ReadyLine'
    <2>1. Moved(j, Workers, {"ending", "over"})
      BY <1>5, Moves
    <2>2. CASE pc[j] = "unstarted"
      <3>1. InFront(ready, j) /\ ready' = Tail(ready)
        BY <1>5, <2>2 DEF Killed, NextReady, SlotPlaces
      <3> QED  BY <2>1, <2>2, <3>1, ReadyLines DEF ReadyLine, Moved
    <2>3. CASE pc[j] # "unstarted"
      <3>1. ready' = ready
        BY <1>5, <2>3 DEF Killed, RecordEnd, LeaveLines, lineVars, waitVars
      <3> QED  BY <2>1, <2>3, <3>1 DEF ReadyLine, Moved
    <2> QED  BY <2>2, <2>3
  <1>6. ASSUME Crash PROVE ReadyLine'
    BY <1>6, ReadyLines DEF ReadyLine, PlaceTypes, Crash, Stands, Once
  <1>7. ASSUME NEW j \in Jobs, Submit(j) PROVE ReadyLine'
    <2>1. Moved(j, {"created"}, {"unstarted"})
      BY <1>7, Moves
    <2> QED  BY <1>7, ReadyLines, <2>1 DEF ReadyLine, PlaceTypes, Moved, Submit
  <1>8. ASSUME NEW o \in Ops, AskCancel(o) \/ AskAgent(o) \/ Shutdown(o)
            \/ CancelNext(o) \/ DrainNext(o) \/ AwaitWorker(o) \/ FinishUnstarted(o)
            \/ FinishOp(o) \/ CheckAgent(o) \/ StartAgent(o) \/ MoveAgent(o)
            \/ ConfigureAgent(o) \/ StopAgent(o)
       PROVE  UNCHANGED <<ready, pc>>
    BY <1>8 DEF AskCancel, lineVars, waitVars, workerVars, AskAgent, Shutdown, CancelNext,
        DrainNext, AwaitWorker, FinishUnstarted, FinishOp, CheckAgent, StartAgent,
        MoveAgent, ConfigureAgent, StopAgent
  <1>9. ASSUME OtherStarts \/ Restart PROVE UNCHANGED <<ready, pc>>
    BY <1>9 DEF OtherStarts, lineVars, waitVars, workerVars, Restart
  <1> QED  BY <1>1, <1>2, <1>3, <1>4, <1>5, <1>6, <1>7, <1>8, <1>9
    DEF Next, CallerStep, WorkerStep, OpArrives, OpStep

(* Nobody enters or leaves the line of a key but by its own steps.         *)
LEMMA OrderLinesStep ==
    ASSUME OrderLines, OrderTypes, PlaceTypes, Next
    PROVE  OrderLines'
  <1>1. CASE UNCHANGED <<orders, pc>>
    BY <1>1 DEF OrderLines
  <1>2. ASSUME NEW j \in Jobs, AskTask(j) \/ AskMessage(j) \/ AcceptMessage(j)
            \/ CreateRecord(j) \/ LoseCaller(j)
       PROVE  OrderLines'
    <2>1. Moved(j, {"idle"} \cup Callers, {"refused"} \cup Callers)
      BY <1>2, Moves DEF Moved, Workers, SlotPlaces, Callers
    <2>2. UNCHANGED orders
      BY <1>2 DEF AskTask, lineVars, waitVars, AskMessage, AcceptMessage, CreateRecord,
          LoseCaller
    <2> QED  BY OrderLinesOf, <2>1, <2>2 DEF OrderLines, Moved, Callers, SlotPlaces
  <1>3. ASSUME NEW j \in Jobs, Submit(j) PROVE OrderLines'
    <2>1. Moved(j, {"created"}, {"unstarted"})
      BY <1>3, Moves
    <2> QED  BY <1>3, OrderLinesOf, <2>1 DEF OrderLines, Moved, Submit, SlotPlaces
  <1>4. ASSUME NEW j \in Jobs, BeginWork(j) PROVE OrderLines'
    <2>1. Moved(j, {"unstarted"}, {"over", "order", "slot"})
      BY <1>4, Moves
    <2>2. CASE orders' = orders /\ (pc'[j] = "over" \/ KeyOf(j) = None)
      BY <2>1, <2>2, JobsAssumption DEF OrderLines, Moved, SlotPlaces
    <2>3. CASE KeyOf(j) # None /\ pc'[j] = "order" /\ orders' = [orders EXCEPT ![KeyOf(j)] = Append(@, j)]
      <3>1. KeyOf(j) \in Keys
        BY <2>3, KeysOf
      <3>2. \A k \in Keys : orders'[k] = IF k = KeyOf(j) THEN Append(orders[k], j) ELSE orders[k]
        BY <2>3 DEF OrderTypes
      <3>3. ~Stands(orders[KeyOf(j)], j)
        BY <2>1, <3>1 DEF OrderLines, Moved, SlotPlaces
      <3> QED  BY <2>1, <2>3, <3>1, <3>2, <3>3, OrderLinesOf DEF OrderLines, Moved
    <2> QED  BY <1>4, <2>2, <2>3 DEF BeginWork, Goto, PlaceTypes
  <1>5. ASSUME NEW j \in Jobs, QueueForSlot(j) \/ TakeSlot(j) \/ CommitStart(j)
            \/ StartTurn(j) \/ CommitEnd(j) \/ FinishWork(j)
       PROVE  OrderLines'
    <2>1. Moved(j, Workers, {"over"} \cup Workers)
      BY <1>5, Moves DEF Moved, Workers, SlotPlaces, Callers
    <2>2. /\ orders' = orders
          /\ pc[j] \in {"order", "slot"} \cup SlotPlaces <=> pc'[j] \in {"order", "slot"} \cup SlotPlaces
      BY <1>5, Moves DEF QueueForSlot, TakeSlot, waitVars, CommitStart, lineVars,
          StartTurn, CommitEnd, FinishWork, Moved, SlotPlaces
    <2> QED  BY OrderLinesOf, <2>1, <2>2 DEF OrderLines, Moved
  <1>6. ASSUME NEW j \in Jobs, ReadAgent(j) \/ MissStart(j) \/ EndTurn(j)
            \/ FailWrite(j) \/ Killed(j)
       PROVE  OrderLines'
    <2>1. Moved(j, Workers, {"over"} \cup Workers)
      BY <1>6, Moves DEF Moved, Workers, SlotPlaces, Callers
    <2>2. \/ /\ orders' = orders
             /\ pc[j] \in {"order", "slot"} \cup SlotPlaces <=> pc'[j] \in {"order", "slot"} \cup SlotPlaces
          \/ orders' = [k \in Keys |-> Without(orders[k], j)] /\ pc'[j] \notin {"order", "slot"} \cup SlotPlaces
      BY <1>6, <2>1 DEF ReadAgent, RecordEnd, LeaveLines, waitVars, MissStart, EndTurn,
          FailWrite, lineVars, Killed, Moved, Goto, PlaceTypes, SlotPlaces, Runs, Workers
    <2> QED  BY OrderLinesOf, <2>1, <2>2 DEF OrderLines, Moved
  <1>7. ASSUME Crash PROVE OrderLines'
    BY <1>7, OrderLinesOf DEF OrderLines, Crash, Stands, Once, SlotPlaces
  <1>8. ASSUME NEW o \in Ops, AskCancel(o) \/ AskAgent(o) \/ Shutdown(o)
            \/ CancelNext(o) \/ DrainNext(o) \/ AwaitWorker(o) \/ FinishUnstarted(o)
            \/ FinishOp(o) \/ CheckAgent(o) \/ StartAgent(o) \/ MoveAgent(o)
            \/ ConfigureAgent(o) \/ StopAgent(o)
       PROVE  UNCHANGED <<orders, pc>>
    BY <1>8 DEF AskCancel, lineVars, waitVars, workerVars, AskAgent, Shutdown, CancelNext,
        DrainNext, AwaitWorker, FinishUnstarted, FinishOp, CheckAgent, StartAgent,
        MoveAgent, ConfigureAgent, StopAgent
  <1>9. ASSUME OtherStarts \/ Restart PROVE UNCHANGED <<orders, pc>>
    BY <1>9 DEF OtherStarts, lineVars, waitVars, workerVars, Restart
  <1> QED  BY <1>1, <1>2, <1>3, <1>4, <1>5, <1>6, <1>7, <1>8, <1>9
    DEF Next, CallerStep, WorkerStep, OpArrives, OpStep

(***************************************************************************)
(* The messages of one agent.                                              *)
(***************************************************************************)
(* Records are born once, and before their work is anywhere.               *)
BornLine == Once(born) /\ \A j \in Jobs : Stands(born, j) => pc[j] \notin {"idle", "ask", "creating"}
(* i is a message, and an older one of the agent of j.                     *)
Earlier(i, j) == /\ i \in Messages /\ KeyOf(i) = KeyOf(j)
                 /\ \E m, n \in DOMAIN born : m < n /\ born[m] = i /\ born[n] = j
(* It is submitted first, entered first, and first in the line of the agent. *)
InTurn ==
    \A i, j \in Jobs : Earlier(i, j) =>
       /\ pc[i] # "created"
       /\ pc[i] = "unstarted" => /\ pc[j] \notin {"order", "slot"} \cup SlotPlaces
                                 /\ pc[j] = "unstarted" => Ahead(ready, i, j)
       /\ pc[i] = "order" => /\ pc[j] \notin {"slot"} \cup SlotPlaces
                             /\ pc[j] = "order" => Ahead(orders[KeyOf(i)], i, j)

(* What it says of two jobs that one is an older message of the other's    *)
(* agent.                                                                  *)
LEMMA EarlierPairs ==
    ASSUME BornTypes, BornLine, NEW i \in Jobs, NEW j \in Jobs, Earlier(i, j)
    PROVE  /\ i # j /\ i \in Messages /\ j \in Messages /\ KeyOf(i) = KeyOf(j)
           /\ KeyOf(i) \in Keys /\ KeyOf(i) # None /\ Stands(born, i) /\ Stands(born, j)
  <1>1. i # j
    BY DEF Earlier, BornLine, Once, BornTypes
  <1>2. KeyOf(i) \in Agents /\ KeyOf(i) # None /\ KeyOf(i) = KeyOf(j)
    BY JobsAssumption DEF Earlier, KeyOf, Messages
  <1>3. j \in Messages
    BY <1>2, JobsAssumption DEF KeyOf, Messages
  <1> QED  BY <1>1, <1>2, <1>3 DEF Earlier, Stands, Keys

(* Who is ahead in the event loop's line stays ahead.                      *)
LEMMA AheadReady ==
    ASSUME ReadyTypes, ReadyLine, NEW j \in Jobs
    PROVE  /\ InFront(ready, j) =>
                 \A i, z \in Jobs : /\ ~Ahead(ready, i, j)
                                    /\ i # j /\ Ahead(ready, i, z) => Ahead(Tail(ready), i, z)
           /\ \A i, z \in Jobs : Ahead(ready, i, z) => Ahead(Append(ready, j), i, z)
           /\ \A i \in Jobs : Stands(ready, i) /\ ~Stands(ready, j) => Ahead(Append(ready, j), i, j)
  <1>1. ready \in Seq(Jobs) /\ Once(ready)
    BY DEF ReadyTypes, ReadyLine
  <1>2. InFront(ready, j) => Tail(ready) = Without(ready, j) /\ \A i \in Jobs : ~Ahead(ready, i, j)
    BY <1>1, WithoutOnce, FrontIsAlone
  <1>3. \A i, z \in Jobs : i # j /\ Ahead(ready, i, z) => Ahead(Without(ready, j), i, z)
    BY <1>1, WithoutKeeps
  <1>4. \A i, z \in Jobs : Ahead(ready, i, z) => Ahead(Append(ready, j), i, z)
    BY <1>1, AppendKeeps
  <1>5. \A i \in Jobs : Stands(ready, i) /\ ~Stands(ready, j) => Ahead(Append(ready, j), i, j)
    BY <1>1, AppendKeeps
  <1> QED  BY <1>2, <1>3, <1>4, <1>5

(* Who is ahead in an order's line stays ahead.                            *)
LEMMA AheadOrders ==
    ASSUME OrderTypes, OrderLines, NEW k \in Keys, NEW j \in Jobs
    PROVE  /\ \A i, z \in Jobs : i # j /\ Ahead(orders[k], i, z) => Ahead(Without(orders[k], j), i, z)
           /\ InFront(orders[k], j) => \A i \in Jobs : ~Ahead(orders[k], i, j)
           /\ \A i, z \in Jobs : Ahead(orders[k], i, z) => Ahead(Append(orders[k], j), i, z)
           /\ \A i \in Jobs : Stands(orders[k], i) /\ ~Stands(orders[k], j) =>
                                  Ahead(Append(orders[k], j), i, j)
  <1>1. orders[k] \in Seq(Jobs)
    BY DEF OrderTypes
  <1>2. \A i, z \in Jobs : i # j /\ Ahead(orders[k], i, z) => Ahead(Without(orders[k], j), i, z)
    BY <1>1, WithoutKeeps
  <1>3. InFront(orders[k], j) => \A i \in Jobs : ~Ahead(orders[k], i, j)
    BY <1>1, FrontIsAlone
  <1>4. \A i, z \in Jobs : Ahead(orders[k], i, z) => Ahead(Append(orders[k], j), i, z)
    BY <1>1, AppendKeeps
  <1>5. \A i \in Jobs : Stands(orders[k], i) /\ ~Stands(orders[k], j) =>
                            Ahead(Append(orders[k], j), i, j)
    BY <1>1, AppendKeeps
  <1> QED  BY <1>2, <1>3, <1>4, <1>5

(* The order's lock stays with who passed it until its end begins.         *)
LEMMA FrontHeldStep ==
    ASSUME FrontHeld, OrderTypes, OrderLines, PlaceTypes, Next
    PROVE  FrontHeld'
  <1>1. CASE UNCHANGED <<orders, pc>>
    BY <1>1 DEF FrontHeld
  <1>2. ASSUME NEW j \in Jobs, AskTask(j) \/ AskMessage(j) \/ AcceptMessage(j)
            \/ CreateRecord(j) \/ LoseCaller(j) \/ Submit(j)
       PROVE  FrontHeld'

    <2>1. Moved(j, {"idle"} \cup Callers, {"refused", "unstarted"} \cup Callers)
      BY <1>2, Moves DEF Moved, Callers
    <2>2. UNCHANGED orders
      BY <1>2 DEF AskTask, AskMessage, AcceptMessage, CreateRecord, LoseCaller, Submit,
          lineVars, waitVars
    <2> QED  BY <2>1, <2>2 DEF FrontHeld, Moved, Callers, SlotPlaces
  <1>3. ASSUME NEW j \in Jobs, TakeSlot(j) \/ CommitStart(j) \/ StartTurn(j)
            \/ CommitEnd(j) \/ FinishWork(j)
       PROVE  FrontHeld'
    <2>1. Moved(j, Workers, {"over"} \cup Workers)
      BY <1>3, Moves DEF Moved, Workers, SlotPlaces, Callers
    <2>2. orders' = orders /\ (pc'[j] \in {"slot"} \cup SlotPlaces => pc[j] \in {"slot"} \cup SlotPlaces)
      BY <1>3, Moves DEF TakeSlot, waitVars, CommitStart, lineVars, StartTurn, CommitEnd,
          FinishWork, Moved, SlotPlaces
    <2> QED  BY OrderLinesOf, KeysOf, <2>1, <2>2 DEF FrontHeld, Moved
  <1>4. ASSUME NEW j \in Jobs, QueueForSlot(j) PROVE FrontHeld'
    <2>1. Moved(j, {"order"}, {"slot"}) /\ orders' = orders /\ InFront(orders[KeyOf(j)], j)
      BY <1>4, Moves DEF QueueForSlot, MyTurn
    <2> QED  BY <2>1 DEF FrontHeld, Moved
  <1>5. ASSUME NEW j \in Jobs, BeginWork(j) PROVE FrontHeld'
    <2>1. Moved(j, {"unstarted"}, {"over", "order", "slot"})
      BY <1>5, Moves
    <2>2. CASE orders' = orders /\ (pc'[j] = "over" \/ KeyOf(j) = None)
      BY <2>1, <2>2 DEF FrontHeld, Moved, SlotPlaces
    <2>3. CASE KeyOf(j) # None /\ pc'[j] = "order" /\ orders' = [orders EXCEPT ![KeyOf(j)] = Append(@, j)]
      <3>1. \A k \in Keys : orders'[k] = IF k = KeyOf(j) THEN Append(orders[k], j) ELSE orders[k]
        BY <2>3 DEF OrderTypes
      <3>2. \A k \in Keys, i \in Jobs : InFront(orders[k], i) => InFront(orders'[k], i)
        BY <3>1, OrderLinesOf
      <3>3. \A i \in Jobs : KeyOf(i) # None => KeyOf(i) \in Keys
        BY KeysOf
      <3> QED  BY <2>1, <2>3, <3>2, <3>3 DEF FrontHeld, Moved, SlotPlaces
    <2> QED  BY <1>5, <2>2, <2>3 DEF BeginWork, Goto, PlaceTypes
  <1>6. ASSUME NEW j \in Jobs, ReadAgent(j) \/ MissStart(j) \/ EndTurn(j)
            \/ FailWrite(j) \/ Killed(j)
       PROVE  FrontHeld'
    <2>1. Moved(j, Workers, {"over"} \cup Workers)
      BY <1>6, Moves DEF Moved, Workers, SlotPlaces, Callers
    <2>2. \/ orders' = orders /\ (pc'[j] \in {"slot"} \cup SlotPlaces => pc[j] \in {"slot"} \cup SlotPlaces)
          \/ orders' = [k \in Keys |-> Without(orders[k], j)] /\ pc'[j] \notin {"slot"} \cup SlotPlaces
      BY <1>6, <2>1 DEF ReadAgent, RecordEnd, LeaveLines, waitVars, MissStart, EndTurn,
          FailWrite, lineVars, Killed, Moved, Goto, PlaceTypes, SlotPlaces, Runs, Workers
    <2>3. \A k \in Keys, i \in Jobs \ {j} : InFront(orders[k], i) => InFront(orders'[k], i)
      BY <2>2, OrderLinesOf
    <2>4. \A i \in Jobs : KeyOf(i) # None => KeyOf(i) \in Keys
      BY KeysOf
    <2> QED  BY <2>1, <2>2, <2>3, <2>4 DEF FrontHeld, Moved
  <1>7. ASSUME Crash PROVE FrontHeld'
    BY <1>7, OrderLinesOf, KeysOf DEF FrontHeld, Crash, SlotPlaces
  <1>8. ASSUME NEW o \in Ops, AskCancel(o) \/ AskAgent(o) \/ Shutdown(o)
            \/ CancelNext(o) \/ DrainNext(o) \/ AwaitWorker(o) \/ FinishUnstarted(o)
            \/ FinishOp(o) \/ CheckAgent(o) \/ StartAgent(o) \/ MoveAgent(o)
            \/ ConfigureAgent(o) \/ StopAgent(o)
       PROVE  UNCHANGED <<orders, pc>>
    BY <1>8 DEF AskCancel, lineVars, waitVars, workerVars, AskAgent, Shutdown, CancelNext,
        DrainNext, AwaitWorker, FinishUnstarted, FinishOp, CheckAgent, StartAgent,
        MoveAgent, ConfigureAgent, StopAgent
  <1>9. ASSUME OtherStarts \/ Restart PROVE UNCHANGED <<orders, pc>>
    BY <1>9 DEF OtherStarts, lineVars, waitVars, workerVars, Restart
  <1> QED  BY <1>1, <1>2, <1>3, <1>4, <1>5, <1>6, <1>7, <1>8, <1>9
    DEF Next, CallerStep, WorkerStep, OpArrives, OpStep

(* A record is created once, by its caller's insert.                       *)
LEMMA BornLineStep ==
    ASSUME BornLine, BornTypes, PlaceTypes, Next
    PROVE  BornLine'
  <1>1. CASE UNCHANGED <<born, pc>>
    BY <1>1 DEF BornLine
  <1>2. ASSUME NEW j \in Jobs, AskTask(j) \/ AskMessage(j) \/ AcceptMessage(j)
            \/ LoseCaller(j)
       PROVE  BornLine'
    <2>1. Moved(j, {"idle"} \cup Callers, {"refused"} \cup Callers)
      BY <1>2, Moves DEF Moved, Workers, SlotPlaces, Callers
    <2>2. /\ born' = born
          /\ pc'[j] \in {"idle", "ask", "creating"} => pc[j] \in {"idle", "ask", "creating"}
      BY <1>2, <2>1 DEF AskTask, recordVars, AskMessage, AcceptMessage, LoseCaller, Moved,
          Goto, PlaceTypes, Callers
    <2> QED  BY <2>1, <2>2 DEF BornLine, Moved
  <1>3. ASSUME NEW j \in Jobs, Submit(j) PROVE BornLine'
    <2>1. Moved(j, {"created"}, {"unstarted"}) /\ born' = born
      BY <1>3, Moves DEF Submit, recordVars
    <2> QED  BY <2>1 DEF BornLine, Moved
  <1>4. ASSUME NEW j \in Jobs, CreateRecord(j) PROVE BornLine'
    <2>1. Moved(j, {"creating"}, {"created"}) /\ born' = Append(born, j)
      BY <1>4, Moves DEF CreateRecord
    <2>2. ~Stands(born, j)
      BY <2>1 DEF BornLine, Moved
    <2>3. /\ Once(Append(born, j))
          /\ \A i \in Jobs : Stands(Append(born, j), i) <=> Stands(born, i) \/ i = j
      BY <2>2, AppendKeeps DEF BornTypes, BornLine
    <2> QED  BY <2>1, <2>3 DEF BornLine, Moved
  <1>5. ASSUME NEW j \in Jobs, BeginWork(j) \/ QueueForSlot(j) \/ TakeSlot(j)
            \/ ReadAgent(j) \/ CommitStart(j) \/ StartTurn(j) \/ MissStart(j)
            \/ EndTurn(j) \/ CommitEnd(j) \/ FinishWork(j) \/ Killed(j) \/ FailWrite(j)
       PROVE  BornLine'
    <2>1. Moved(j, Workers, {"over"} \cup Workers)
      BY <1>5, Moves DEF Moved, Workers, SlotPlaces, Callers
    <2>2. born' = born /\ pc'[j] \notin {"idle", "ask", "creating"}
      BY <1>5, <2>1 DEF BeginWork, recordVars, QueueForSlot, TakeSlot, ReadAgent,
          CommitStart, StartTurn, MissStart, EndTurn, CommitEnd, FinishWork, Killed,
          FailWrite, Moved, Workers, SlotPlaces
    <2> QED  BY <2>1, <2>2 DEF BornLine, Moved
  <1>6. ASSUME Crash PROVE BornLine'
    BY <1>6 DEF BornLine, Crash, recordVars
  <1>7. ASSUME NEW o \in Ops, AskCancel(o) \/ AskAgent(o) \/ Shutdown(o)
            \/ CancelNext(o) \/ DrainNext(o) \/ AwaitWorker(o) \/ FinishUnstarted(o)
            \/ FinishOp(o) \/ CheckAgent(o) \/ StartAgent(o) \/ MoveAgent(o)
            \/ ConfigureAgent(o) \/ StopAgent(o)
       PROVE  UNCHANGED <<born, pc>>
    BY <1>7 DEF AskCancel, recordVars, workerVars, AskAgent, Shutdown, CancelNext,
        DrainNext, AwaitWorker, FinishUnstarted, FinishOp, CheckAgent, StartAgent,
        MoveAgent, ConfigureAgent, StopAgent
  <1>8. ASSUME OtherStarts \/ Restart PROVE UNCHANGED <<born, pc>>
    BY <1>8 DEF OtherStarts, workerVars, Restart
  <1> QED  BY <1>1, <1>2, <1>3, <1>4, <1>5, <1>6, <1>7, <1>8
    DEF Next, CallerStep, WorkerStep, OpArrives, OpStep

(* Work that goes nowhere near the lines, or leaves one.                   *)
LEMMA TurnKept ==
    ASSUME InTurn, BornTypes, BornLine, OrderTypes, OrderLines, ReadyTypes, ReadyLine,
           NEW j \in Jobs, \A k \in Jobs \ {j} : pc'[k] = pc[k], born' = born,
           pc'[j] \notin {"created", "unstarted", "order", "slot"},
           pc'[j] \in SlotPlaces => pc[j] \in {"slot"} \cup SlotPlaces,
           ready' = ready \/ (InFront(ready, j) /\ ready' = Tail(ready)),
           orders' = orders \/ orders' = [k \in Keys |-> Without(orders[k], j)]
    PROVE  InTurn'
  <1> SUFFICES ASSUME NEW a \in Jobs, NEW b \in Jobs, Earlier(a, b)
               PROVE  /\ pc'[a] # "created"
                      /\ pc'[a] = "unstarted" => /\ pc'[b] \notin {"order", "slot"} \cup SlotPlaces
                                                 /\ pc'[b] = "unstarted" => Ahead(ready', a, b)
                      /\ pc'[a] = "order" => /\ pc'[b] \notin {"slot"} \cup SlotPlaces
                                             /\ pc'[b] = "order" => Ahead(orders'[KeyOf(a)], a, b)
    BY DEF InTurn, Earlier
  <1>1. KeyOf(a) \in Keys /\ a # b
    BY EarlierPairs
  <1>2. CASE a = j
    BY <1>2
  <1>3. CASE a # j
    <2>1. pc'[a] = pc[a]
      BY <1>3
    <2>2. pc'[b] \in {"created", "unstarted", "order", "slot"} => pc'[b] = pc[b]
      BY <1>1
    <2>3. pc'[b] \in SlotPlaces => pc[b] \in {"slot"} \cup SlotPlaces
      BY <1>1
    <2>4. Ahead(ready, a, b) => Ahead(ready', a, b)
      BY <1>3, AheadReady
    <2>5. Ahead(orders[KeyOf(a)], a, b) => Ahead(orders'[KeyOf(a)], a, b)
      BY <1>1, <1>3, AheadOrders
    <2> QED  BY <2>1, <2>2, <2>3, <2>4, <2>5 DEF InTurn
  <1> QED  BY <1>2, <1>3

(* An older message of the agent stays ahead until it has had its turn or  *)
(* has ended.                                                              *)
LEMMA InTurnStep ==
    ASSUME InTurn, GateHeld, BornTypes, BornLine, OrderTypes, OrderLines,
           ReadyTypes, ReadyLine, PlaceTypes, Next
    PROVE  InTurn'
  <1>1. CASE UNCHANGED <<born, ready, orders, pc>>
    BY <1>1 DEF InTurn, Earlier
  <1>2. ASSUME NEW j \in Jobs, AskTask(j) \/ AskMessage(j) \/ AcceptMessage(j)
            \/ LoseCaller(j)
       PROVE  InTurn'

    <2>1. \A k \in Jobs \ {j} : pc'[k] = pc[k]
      BY <1>2, Moves DEF Moved
    <2>2. born' = born /\ (ready' = ready \/ (InFront(ready, j) /\ ready' = Tail(ready)))
      BY <1>2 DEF AskTask, recordVars, lineVars, waitVars, AskMessage, AcceptMessage,
          LoseCaller, NextReady
    <2>3. orders' = orders \/ orders' = [k \in Keys |-> Without(orders[k], j)]
      BY <1>2 DEF AskTask, lineVars, waitVars, AskMessage, AcceptMessage, LoseCaller
    <2>4. /\ pc'[j] \notin {"created", "unstarted", "order", "slot"}
          /\ pc'[j] \in SlotPlaces => pc[j] \in {"slot"} \cup SlotPlaces
      BY <1>2, Moves DEF Moved, SlotPlaces, Callers
    <2> QED  BY <2>1, <2>2, <2>3, <2>4, TurnKept
  <1>3. ASSUME NEW j \in Jobs, CreateRecord(j) PROVE InTurn'
    <2>1. Moved(j, {"creating"}, {"created"}) /\ born' = Append(born, j) /\ UNCHANGED <<ready, orders>>
      BY <1>3, Moves DEF CreateRecord, lineVars, waitVars
    <2>2. \A a, b \in Jobs : Earlier(a, b)' =>
             Earlier(a, b) \/ (b = j /\ a \in Messages /\ KeyOf(a) = KeyOf(j) /\ Stands(born, a))
      BY <2>1 DEF Earlier, Stands, BornTypes
    <2>3. ~Stands(born, j)
      BY <2>1 DEF BornLine, Moved
    <2> SUFFICES ASSUME NEW a \in Jobs, NEW b \in Jobs, Earlier(a, b)'
                 PROVE  /\ pc'[a] # "created"
                        /\ pc'[a] = "unstarted" => /\ pc'[b] \notin {"order", "slot"} \cup SlotPlaces
                                                   /\ pc'[b] = "unstarted" => Ahead(ready', a, b)
                        /\ pc'[a] = "order" => /\ pc'[b] \notin {"slot"} \cup SlotPlaces
                                               /\ pc'[b] = "order" => Ahead(orders'[KeyOf(a)], a, b)
      BY DEF InTurn
    <2>4. CASE Earlier(a, b)
      <3>1. a # j /\ b # j
        BY <2>3, <2>4, EarlierPairs
      <3> QED  BY <2>1, <2>4, <3>1 DEF InTurn, Moved
    <2>5. CASE b = j /\ a \in Messages /\ KeyOf(a) = KeyOf(j) /\ Stands(born, a)
      <3>1. a # j /\ j \in Messages
        BY <2>3, <2>5, JobsAssumption DEF KeyOf, Messages
      <3>2. InFront(admission, j) /\ (pc[a] = "created" => InFront(admission, a))
        BY <2>1, <2>5, <3>1 DEF GateHeld, GatePlaces, Moved
      <3>3. pc[a] # "created"
        BY <3>1, <3>2 DEF InFront
      <3> QED  BY <2>1, <2>5, <3>1, <3>3 DEF Moved, SlotPlaces
    <2> QED  BY <2>2, <2>4, <2>5
  <1>4. ASSUME NEW j \in Jobs, Submit(j) PROVE InTurn'
    <2>1. /\ Moved(j, {"created"}, {"unstarted"}) /\ UNCHANGED <<born, orders>>
          /\ ready' = Append(ready, j)
      BY <1>4, Moves DEF Submit, recordVars
    <2>2. ~Stands(ready, j)
      BY <2>1 DEF ReadyLine, Moved
    <2> SUFFICES ASSUME NEW a \in Jobs, NEW b \in Jobs, Earlier(a, b)'
                 PROVE  /\ pc'[a] # "created"
                        /\ pc'[a] = "unstarted" => /\ pc'[b] \notin {"order", "slot"} \cup SlotPlaces
                                                   /\ pc'[b] = "unstarted" => Ahead(ready', a, b)
                        /\ pc'[a] = "order" => /\ pc'[b] \notin {"slot"} \cup SlotPlaces
                                               /\ pc'[b] = "order" => Ahead(orders'[KeyOf(a)], a, b)
      BY DEF InTurn
    <2>3. Earlier(a, b) /\ a # b
      BY <2>1, EarlierPairs DEF Earlier
    <2>4. a # j
      BY <2>1, <2>3 DEF InTurn, Moved
    <2>5. Ahead(ready, a, b) => Ahead(ready', a, b)
      BY <2>1, AheadReady
    <2>6. b = j /\ pc[a] = "unstarted" => Ahead(ready', a, b)
      BY <2>1, <2>2, AheadReady DEF ReadyLine
    <2> QED  BY <2>1, <2>3, <2>4, <2>5, <2>6 DEF InTurn, Moved, SlotPlaces
  <1>5. ASSUME NEW j \in Jobs, BeginWork(j) PROVE InTurn'
    <2>1. /\ Moved(j, {"unstarted"}, {"over", "order", "slot"}) /\ born' = born
          /\ InFront(ready, j) /\ ready' = Tail(ready)
      BY <1>5, Moves DEF BeginWork, NextReady, recordVars
    <2>2. CASE pc'[j] = "over" /\ orders' = orders
      BY <2>1, <2>2, TurnKept DEF Moved, SlotPlaces
    <2>3. CASE KeyOf(j) = None /\ orders' = orders
      <3> SUFFICES ASSUME NEW a \in Jobs, NEW b \in Jobs, Earlier(a, b)'
                   PROVE  /\ pc'[a] # "created"
                          /\ pc'[a] = "unstarted" => /\ pc'[b] \notin {"order", "slot"} \cup SlotPlaces
                                                     /\ pc'[b] = "unstarted" => Ahead(ready', a, b)
                          /\ pc'[a] = "order" => /\ pc'[b] \notin {"slot"} \cup SlotPlaces
                                                 /\ pc'[b] = "order" => Ahead(orders'[KeyOf(a)], a, b)
        BY DEF InTurn
      <3>1. Earlier(a, b) /\ a # j /\ b # j
        BY <2>1, <2>3, EarlierPairs DEF Earlier
      <3> QED  BY <2>1, <2>3, <3>1, AheadReady DEF InTurn, Moved
    <2>4. CASE KeyOf(j) # None /\ pc'[j] = "order" /\ orders' = [orders EXCEPT ![KeyOf(j)] = Append(@, j)]
      <3> SUFFICES ASSUME NEW a \in Jobs, NEW b \in Jobs, Earlier(a, b)'
                   PROVE  /\ pc'[a] # "created"
                          /\ pc'[a] = "unstarted" => /\ pc'[b] \notin {"order", "slot"} \cup SlotPlaces
                                                     /\ pc'[b] = "unstarted" => Ahead(ready', a, b)
                          /\ pc'[a] = "order" => /\ pc'[b] \notin {"slot"} \cup SlotPlaces
                                                 /\ pc'[b] = "order" => Ahead(orders'[KeyOf(a)], a, b)
        BY DEF InTurn
      <3>1. Earlier(a, b) /\ a # b /\ KeyOf(a) = KeyOf(b) /\ KeyOf(a) \in Keys
        BY <2>1, EarlierPairs DEF Earlier
      <3>2. orders'[KeyOf(a)] = IF KeyOf(a) = KeyOf(j) THEN Append(orders[KeyOf(a)], j)
                                                        ELSE orders[KeyOf(a)]
        BY <2>4, <3>1 DEF OrderTypes
      <3>3. CASE a = j
        BY <2>1, <2>4, <3>1, <3>3 DEF InTurn, Moved
      <3>4. CASE b = j
        <4>1. pc[a] # "unstarted"
          BY <2>1, <3>1, <3>4, AheadReady DEF InTurn, Moved
        <4>2. pc[a] = "order" => Ahead(orders'[KeyOf(a)], a, b)
          BY <2>1, <3>1, <3>2, <3>4, AheadOrders DEF OrderLines, Moved, SlotPlaces
        <4> QED  BY <2>1, <2>4, <3>1, <3>4, <4>1, <4>2 DEF InTurn, Moved, SlotPlaces
      <3>5. CASE a # j /\ b # j
        <4>1. Ahead(orders[KeyOf(a)], a, b) => Ahead(orders'[KeyOf(a)], a, b)
          BY <3>1, <3>2, AheadOrders
        <4>2. Ahead(ready, a, b) => Ahead(ready', a, b)
          BY <2>1, <3>5, AheadReady
        <4> QED  BY <2>1, <3>1, <3>5, <4>1, <4>2 DEF InTurn, Moved
      <3> QED  BY <3>3, <3>4, <3>5
    <2> QED  BY <1>5, <2>2, <2>3, <2>4 DEF BeginWork, Goto, PlaceTypes
  <1>6. ASSUME NEW j \in Jobs, QueueForSlot(j) PROVE InTurn'
    <2>1. /\ Moved(j, {"order"}, {"slot"}) /\ UNCHANGED <<born, ready, orders>>
          /\ InFront(orders[KeyOf(j)], j)
      BY <1>6, Moves DEF QueueForSlot, MyTurn, recordVars
    <2> SUFFICES ASSUME NEW a \in Jobs, NEW b \in Jobs, Earlier(a, b)'
                 PROVE  /\ pc'[a] # "created"
                        /\ pc'[a] = "unstarted" => /\ pc'[b] \notin {"order", "slot"} \cup SlotPlaces
                                                   /\ pc'[b] = "unstarted" => Ahead(ready', a, b)
                        /\ pc'[a] = "order" => /\ pc'[b] \notin {"slot"} \cup SlotPlaces
                                               /\ pc'[b] = "order" => Ahead(orders'[KeyOf(a)], a, b)
      BY DEF InTurn
    <2>2. Earlier(a, b) /\ a # b /\ KeyOf(a) = KeyOf(b) /\ KeyOf(a) \in Keys
      BY <2>1, EarlierPairs DEF Earlier
    <2>3. CASE b = j
      <3>1. pc[a] # "unstarted"
        BY <2>1, <2>2, <2>3 DEF InTurn, Moved
      <3>2. pc[a] # "order"
        BY <2>1, <2>2, <2>3, AheadOrders DEF InTurn, Moved
      <3> QED  BY <2>1, <2>2, <2>3, <3>1, <3>2 DEF InTurn, Moved
    <2>4. CASE b # j
      BY <2>1, <2>2, <2>4 DEF InTurn, Moved
    <2> QED  BY <2>3, <2>4
  <1>7. ASSUME NEW j \in Jobs, TakeSlot(j) \/ CommitStart(j) \/ StartTurn(j)
            \/ CommitEnd(j) \/ FinishWork(j) \/ ReadAgent(j) \/ MissStart(j)
            \/ EndTurn(j) \/ FailWrite(j) \/ Killed(j)
       PROVE  InTurn'

    <2>1. \A k \in Jobs \ {j} : pc'[k] = pc[k]
      BY <1>7, Moves DEF Moved
    <2>2. born' = born /\ (ready' = ready \/ (InFront(ready, j) /\ ready' = Tail(ready)))
      BY <1>7 DEF TakeSlot, recordVars, waitVars, CommitStart, lineVars, StartTurn,
          CommitEnd, FinishWork, ReadAgent, RecordEnd, LeaveLines, MissStart, EndTurn,
          FailWrite, Killed, NextReady
    <2>3. orders' = orders \/ orders' = [k \in Keys |-> Without(orders[k], j)]
      BY <1>7 DEF TakeSlot, waitVars, CommitStart, lineVars, StartTurn, CommitEnd,
          FinishWork, ReadAgent, RecordEnd, LeaveLines, MissStart, EndTurn, FailWrite,
          Killed
    <2>4. /\ pc'[j] \notin {"created", "unstarted", "order", "slot"}
          /\ pc'[j] \in SlotPlaces => pc[j] \in {"slot"} \cup SlotPlaces
      BY <1>7, Moves DEF Moved, SlotPlaces, Callers
    <2> QED  BY <2>1, <2>2, <2>3, <2>4, TurnKept
  <1>8. ASSUME Crash PROVE InTurn'
    BY <1>8 DEF InTurn, Crash, recordVars, SlotPlaces
  <1>9. ASSUME NEW o \in Ops, AskCancel(o) \/ AskAgent(o) \/ Shutdown(o)
            \/ CancelNext(o) \/ DrainNext(o) \/ AwaitWorker(o) \/ FinishUnstarted(o)
            \/ FinishOp(o) \/ CheckAgent(o) \/ StartAgent(o) \/ MoveAgent(o)
            \/ ConfigureAgent(o) \/ StopAgent(o)
       PROVE  UNCHANGED <<born, ready, orders, pc>>
    BY <1>9 DEF AskCancel, recordVars, lineVars, waitVars, workerVars, AskAgent, Shutdown,
        CancelNext, DrainNext, AwaitWorker, FinishUnstarted, FinishOp, CheckAgent,
        StartAgent, MoveAgent, ConfigureAgent, StopAgent
  <1>10. ASSUME OtherStarts \/ Restart PROVE UNCHANGED <<born, ready, orders, pc>>
    BY <1>10 DEF OtherStarts, lineVars, waitVars, workerVars, Restart
  <1> QED  BY <1>1, <1>2, <1>3, <1>4, <1>5, <1>6, <1>7, <1>8, <1>9, <1>10
    DEF Next, CallerStep, WorkerStep, OpArrives, OpStep

(* The parts of the invariant that say so.                                 *)
LEMMA TurnsAreInOrder ==
    ASSUME BornTypes, BornLine, FrontHeld, InTurn
    PROVE  TurnsInOrder
  <1>1. ASSUME NEW i \in Jobs, NEW j \in Jobs, KeyOf(i) = KeyOf(j), KeyOf(i) # None,
               pc[i] \in {"slot"} \cup SlotPlaces, pc[j] \in {"slot"} \cup SlotPlaces
        PROVE  i = j
    BY <1>1 DEF FrontHeld, InFront
  <1>2. ASSUME NEW m \in DOMAIN born, NEW n \in DOMAIN born, m < n,
               KeyOf(born[m]) = KeyOf(born[n]), born[m] \in Messages, pc[born[n]] \in SlotPlaces
        PROVE  pc[born[m]] \notin Callers \cup {"unstarted", "order", "slot"}
    <2> DEFINE i == born[m]
               j == born[n]
    <2>1. i \in Jobs /\ j \in Jobs /\ Earlier(i, j)
      BY <1>2 DEF Earlier, BornTypes
    <2>2. i # j /\ KeyOf(i) # None /\ Stands(born, i)
      BY <2>1, EarlierPairs
    <2>3. pc[i] \notin {"ask", "creating"}
      BY <2>1, <2>2 DEF BornLine
    <2>4. pc[i] \notin {"created", "unstarted", "order"}
      BY <1>2, <2>1 DEF InTurn
    <2>5. pc[i] # "slot"
      BY <1>1, <1>2, <2>1, <2>2
    <2> QED  BY <2>3, <2>4, <2>5 DEF Callers
  <1> QED  BY <1>1, <1>2 DEF TurnsInOrder

(***************************************************************************)
(* Agents.                                                                 *)
(***************************************************************************)
(* A message that is let in, or starts, has an active agent; one that      *)
(* starts is bound to what the agent is now.                               *)
Admitted ==
    \A j \in Messages :
       /\ pc[j] \in GatePlaces => Active(AgentOf[j])
       /\ pc[j] \in {"starting", "started"} => bound[j] = Bound(AgentOf[j])
(* What an operation has checked still holds when it writes.               *)
ChecksHold == \A o \in Ops : opc[o] = "acting" => MayAct(o)
AbsentAtHome == \A a \in Agents : agent[a].status = "absent" => agent[a].session = Home[a]
(* A stop that is under way has written that its agent is stopped, and has *)
(* every message of the agent that can still start ahead of it.            *)
StoppingStopped == \A o \in Ops : Stopping(o) => agent[Target[o]].status = "stopped"
Startable == {"unstarted", "order", "slot"} \cup SlotPlaces
WorkTracked == \A j \in Jobs : pc[j] \in Workers => j \in tracked
BeingStopped(j) ==
    \E o \in Ops : /\ Stopping(o) /\ Target[o] = AgentOf[j]
                   /\ j \in todo[o] \/ (victim[o] = j /\ opc[o] = "await")
Silenced ==
    \A j \in Messages :
        agent[AgentOf[j]].status = "stopped" /\ pc[j] \in Startable => BeingStopped(j)

(* Who changes the agents holds the admission, and is alone.               *)
LEMMA AloneAtGate ==
    ASSUME GateHeld, GateTypes, NEW o \in Ops, opc[o] = "acting"
    PROVE  /\ \A p \in Ops : opc[p] = "acting" => p = o
           /\ \A j \in Messages : pc[j] \notin GatePlaces
  <1>1. InFront(admission, o)
    BY DEF GateHeld
  <1>2. \A y : InFront(admission, y) => y = o
    BY <1>1, FrontIsAlone DEF GateTypes
  <1>3. \A j \in Messages : j # o
    BY Names
  <1> QED  BY <1>2, <1>3 DEF GateHeld

(* Every worker is tracked until its last step.                            *)
LEMMA WorkTrackedStep ==
    ASSUME WorkTracked, PlaceTypes, SetTypes, Next
    PROVE  WorkTracked'
  <1>1. CASE UNCHANGED <<tracked, pc>>
    BY <1>1 DEF WorkTracked, Workers, SlotPlaces, Callers
  <1>2. ASSUME NEW j \in Jobs, AskTask(j) \/ AskMessage(j) \/ AcceptMessage(j)
            \/ CreateRecord(j) \/ LoseCaller(j)
       PROVE  WorkTracked'
    <2>1. Moved(j, {"idle"} \cup Callers, {"refused"} \cup Callers)
      BY <1>2, Moves DEF Moved, Workers, SlotPlaces, Callers
    <2>2. UNCHANGED tracked
      BY <1>2 DEF AskTask, AskMessage, runnerVars, AcceptMessage, CreateRecord, LoseCaller
    <2> QED  BY <2>1, <2>2 DEF WorkTracked, PlaceTypes, SetTypes, Moved, Workers,
        SlotPlaces, Callers
  <1>3. ASSUME NEW j \in Jobs, BeginWork(j) \/ QueueForSlot(j) \/ TakeSlot(j)
            \/ ReadAgent(j) \/ CommitStart(j) \/ StartTurn(j) \/ EndTurn(j)
            \/ CommitEnd(j)
       PROVE  WorkTracked'
    <2>1. Moved(j, Workers, {"over"} \cup Workers)
      BY <1>3, Moves DEF Moved, Workers, SlotPlaces, Callers
    <2>2. UNCHANGED tracked
      BY <1>3 DEF BeginWork, runnerVars, QueueForSlot, TakeSlot, ReadAgent, CommitStart,
          StartTurn, EndTurn, CommitEnd
    <2> QED  BY <2>1, <2>2 DEF WorkTracked, PlaceTypes, SetTypes, Moved, Workers,
        SlotPlaces, Callers
  <1>4. ASSUME NEW j \in Jobs, MissStart(j) \/ FinishWork(j) \/ FailWrite(j)
            \/ Killed(j)
       PROVE  WorkTracked'
    <2>1. Moved(j, Workers, {"over"} \cup Workers)
      BY <1>4, Moves DEF Moved, Workers, SlotPlaces, Callers
    <2>2. tracked' = tracked \/ (tracked' = tracked \ {j} /\ pc'[j] = "over")
      BY <1>4, <2>1 DEF MissStart, Forget, FinishWork, FailWrite, RecordEnd, runnerVars,
          Killed, Goto, PlaceTypes
    <2> QED  BY <2>1, <2>2 DEF WorkTracked, PlaceTypes, SetTypes, Moved, Workers,
        SlotPlaces, Callers
  <1>5. ASSUME NEW j \in Jobs, Submit(j) PROVE WorkTracked'
    <2>1. Moved(j, {"created"}, {"unstarted"})
      BY <1>5, Moves
    <2> QED  BY <1>5, <2>1 DEF WorkTracked, PlaceTypes, SetTypes, Moved, Submit, Workers,
        SlotPlaces, Callers
  <1>6. ASSUME NEW o \in Ops, AwaitWorker(o) PROVE WorkTracked'
    BY <1>6 DEF WorkTracked, PlaceTypes, SetTypes, AwaitWorker, Forget, workerVars,
        Workers, SlotPlaces, Callers
  <1>7. ASSUME Crash PROVE WorkTracked'
    BY <1>7 DEF WorkTracked, PlaceTypes, SetTypes, Crash, Workers, SlotPlaces, Callers
  <1>8. ASSUME NEW o \in Ops, AskCancel(o) \/ AskAgent(o) \/ Shutdown(o)
            \/ CancelNext(o) \/ DrainNext(o) \/ FinishUnstarted(o) \/ FinishOp(o)
            \/ CheckAgent(o) \/ StartAgent(o) \/ MoveAgent(o) \/ ConfigureAgent(o)
            \/ StopAgent(o)
       PROVE  UNCHANGED <<tracked, pc>>
    BY <1>8 DEF AskCancel, runnerVars, workerVars, AskAgent, Shutdown, CancelNext,
        DrainNext, FinishUnstarted, FinishOp, CheckAgent, StartAgent, MoveAgent,
        ConfigureAgent, StopAgent
  <1>9. ASSUME OtherStarts \/ Restart PROVE UNCHANGED <<tracked, pc>>
    BY <1>9 DEF OtherStarts, runnerVars, workerVars, Restart
  <1> QED  BY <1>1, <1>2, <1>3, <1>4, <1>5, <1>6, <1>7, <1>8, <1>9
    DEF Next, CallerStep, WorkerStep, OpArrives, OpStep

(* Between the checks of an agent operation and its write nobody else      *)
(* writes.                                                                 *)
LEMMA ChecksHoldStep ==
    ASSUME ChecksHold, GateHeld, GateTypes, OpTypes, Next
    PROVE  ChecksHold'
  <1>1. CASE UNCHANGED <<opc, agent>>
    BY <1>1 DEF ChecksHold, MayAct, Active, SessionFree, IdentityFree
  <1>2. ASSUME NEW o \in Ops, StartAgent(o) PROVE ChecksHold'
    <2>1. opc[o] = "acting" /\ \A p \in Ops : p # o => opc'[p] = opc[p] /\ opc[p] # "acting"
      BY <1>2, AloneAtGate DEF StartAgent, OpGoto, OpTypes
    <2>2. opc'[o] # "acting"
      BY <1>2 DEF StartAgent, OpGoto, OpTypes
    <2> QED  BY <2>1, <2>2 DEF ChecksHold
  <1>3. ASSUME NEW o \in Ops, MoveAgent(o) PROVE ChecksHold'
    <2>1. opc[o] = "acting" /\ \A p \in Ops : p # o => opc'[p] = opc[p] /\ opc[p] # "acting"
      BY <1>3, AloneAtGate DEF MoveAgent, OpGoto, OpTypes
    <2>2. opc'[o] # "acting"
      BY <1>3 DEF MoveAgent, OpGoto, OpTypes
    <2> QED  BY <2>1, <2>2 DEF ChecksHold
  <1>4. ASSUME NEW o \in Ops, ConfigureAgent(o) PROVE ChecksHold'
    <2>1. opc[o] = "acting" /\ \A p \in Ops : p # o => opc'[p] = opc[p] /\ opc[p] # "acting"
      BY <1>4, AloneAtGate DEF ConfigureAgent, OpGoto, OpTypes
    <2>2. opc'[o] # "acting"
      BY <1>4 DEF ConfigureAgent, OpGoto, OpTypes
    <2> QED  BY <2>1, <2>2 DEF ChecksHold
  <1>5. ASSUME NEW o \in Ops, StopAgent(o) PROVE ChecksHold'
    <2>1. opc[o] = "acting" /\ \A p \in Ops : p # o => opc'[p] = opc[p] /\ opc[p] # "acting"
      BY <1>5, AloneAtGate DEF StopAgent, OpGoto, OpTypes
    <2>2. opc'[o] # "acting"
      BY <1>5 DEF StopAgent, OpGoto, OpTypes
    <2> QED  BY <2>1, <2>2 DEF ChecksHold
  <1>6. ASSUME NEW o \in Ops, AskCancel(o) PROVE ChecksHold'
    <2>1. agent' = agent /\ \A p \in Ops : opc'[p] = "acting" => opc[p] = "acting"
      BY <1>6 DEF AskCancel, OpGoto, OpTypes
    <2> QED  BY <2>1 DEF ChecksHold, MayAct, Active, SessionFree, IdentityFree
  <1>7. ASSUME NEW o \in Ops, AskAgent(o) PROVE ChecksHold'
    <2>1. agent' = agent /\ \A p \in Ops : opc'[p] = "acting" => opc[p] = "acting"
      BY <1>7 DEF AskAgent, OpGoto, OpTypes
    <2> QED  BY <2>1 DEF ChecksHold, MayAct, Active, SessionFree, IdentityFree
  <1>8. ASSUME NEW o \in Ops, Shutdown(o) PROVE ChecksHold'
    <2>1. agent' = agent /\ \A p \in Ops : opc'[p] = "acting" => opc[p] = "acting"
      BY <1>8 DEF Shutdown, OpGoto, OpTypes
    <2> QED  BY <2>1 DEF ChecksHold, MayAct, Active, SessionFree, IdentityFree
  <1>9. ASSUME NEW o \in Ops, CancelNext(o) PROVE ChecksHold'
    <2>1. agent' = agent /\ \A p \in Ops : opc'[p] = "acting" => opc[p] = "acting"
      BY <1>9 DEF CancelNext, OpGoto, OpTypes
    <2> QED  BY <2>1 DEF ChecksHold, MayAct, Active, SessionFree, IdentityFree
  <1>10. ASSUME NEW o \in Ops, DrainNext(o) PROVE ChecksHold'
    <2>1. agent' = agent /\ \A p \in Ops : opc'[p] = "acting" => opc[p] = "acting"
      BY <1>10 DEF DrainNext, OpGoto, OpTypes
    <2> QED  BY <2>1 DEF ChecksHold, MayAct, Active, SessionFree, IdentityFree
  <1>11. ASSUME NEW o \in Ops, AwaitWorker(o) PROVE ChecksHold'
    <2>1. agent' = agent /\ \A p \in Ops : opc'[p] = "acting" => opc[p] = "acting"
      BY <1>11 DEF AwaitWorker, OpGoto, OpTypes, Resumes
    <2> QED  BY <2>1 DEF ChecksHold, MayAct, Active, SessionFree, IdentityFree
  <1>12. ASSUME NEW o \in Ops, FinishUnstarted(o) PROVE ChecksHold'
    <2>1. agent' = agent /\ \A p \in Ops : opc'[p] = "acting" => opc[p] = "acting"
      BY <1>12 DEF FinishUnstarted, OpGoto, OpTypes, Resumes
    <2> QED  BY <2>1 DEF ChecksHold, MayAct, Active, SessionFree, IdentityFree
  <1>13. ASSUME NEW o \in Ops, FinishOp(o) PROVE ChecksHold'
    <2>1. agent' = agent /\ \A p \in Ops : opc'[p] = "acting" => opc[p] = "acting"
      BY <1>13 DEF FinishOp, OpGoto, OpTypes
    <2> QED  BY <2>1 DEF ChecksHold, MayAct, Active, SessionFree, IdentityFree
  <1>14. ASSUME NEW o \in Ops, CheckAgent(o) PROVE ChecksHold'
    <2>1. agent' = agent /\ \A p \in Ops : opc'[p] = "acting" => opc[p] = "acting" \/ (p = o /\ MayAct(o))
      BY <1>14 DEF CheckAgent, OpGoto, OpTypes
    <2> QED  BY <2>1 DEF ChecksHold, MayAct, Active, SessionFree, IdentityFree
  <1>15. ASSUME Crash PROVE ChecksHold'

    BY <1>15 DEF ChecksHold, Crash
  <1>16. ASSUME NEW j \in Jobs, AskTask(j) \/ AskMessage(j) \/ AcceptMessage(j)
            \/ CreateRecord(j) \/ Submit(j) \/ LoseCaller(j) \/ BeginWork(j)
            \/ QueueForSlot(j) \/ TakeSlot(j) \/ ReadAgent(j) \/ CommitStart(j)
            \/ StartTurn(j) \/ MissStart(j) \/ EndTurn(j) \/ CommitEnd(j)
            \/ FinishWork(j) \/ Killed(j) \/ FailWrite(j)
       PROVE  UNCHANGED <<opc, agent>>
    BY <1>16 DEF AskTask, opVars, AskMessage, AcceptMessage, CreateRecord, Submit,
        LoseCaller, BeginWork, QueueForSlot, TakeSlot, ReadAgent, CommitStart, StartTurn,
        MissStart, EndTurn, CommitEnd, FinishWork, Killed, FailWrite
  <1>17. ASSUME OtherStarts \/ Restart PROVE UNCHANGED <<opc, agent>>
    BY <1>17 DEF OtherStarts, opVars, Restart
  <1> QED  BY <1>1, <1>2, <1>3, <1>4, <1>5, <1>6, <1>7, <1>8, <1>9, <1>10, <1>11, <1>12,
       <1>13, <1>14, <1>15, <1>16, <1>17
    DEF Next, CallerStep, WorkerStep, OpArrives, OpStep

(* An agent that was never started still has the session it is to start    *)
(* with.                                                                   *)
LEMMA AbsentAtHomeStep ==
    ASSUME AbsentAtHome, ChecksHold, AgentTypes, Next
    PROVE  AbsentAtHome'
  <1>1. CASE UNCHANGED agent
    BY <1>1 DEF AbsentAtHome
  <1>2. ASSUME NEW o \in Ops, StartAgent(o) PROVE AbsentAtHome'

    BY <1>2, Targets DEF StartAgent, AbsentAtHome, AgentTypes
  <1>3. ASSUME NEW o \in Ops, MoveAgent(o) PROVE AbsentAtHome'

    BY <1>3, Targets DEF MoveAgent, AbsentAtHome, AgentTypes, ChecksHold, MayAct, Active
  <1>4. ASSUME NEW o \in Ops, ConfigureAgent(o) PROVE AbsentAtHome'

    BY <1>4, Targets DEF ConfigureAgent, AbsentAtHome, AgentTypes
  <1>5. ASSUME NEW o \in Ops, StopAgent(o) PROVE AbsentAtHome'

    BY <1>5, Targets DEF StopAgent, AbsentAtHome, AgentTypes
  <1>6. ASSUME NEW j \in Jobs, AskTask(j) \/ AskMessage(j) \/ AcceptMessage(j)
            \/ CreateRecord(j) \/ Submit(j) \/ LoseCaller(j) \/ BeginWork(j)
            \/ QueueForSlot(j) \/ TakeSlot(j) \/ ReadAgent(j) \/ CommitStart(j)
            \/ StartTurn(j) \/ MissStart(j) \/ EndTurn(j) \/ CommitEnd(j)
            \/ FinishWork(j) \/ Killed(j) \/ FailWrite(j)
       PROVE  UNCHANGED agent
    BY <1>6 DEF AskTask, AskMessage, AcceptMessage, CreateRecord, Submit, LoseCaller,
        BeginWork, QueueForSlot, TakeSlot, ReadAgent, CommitStart, StartTurn, MissStart,
        EndTurn, CommitEnd, FinishWork, Killed, FailWrite
  <1>7. ASSUME NEW o \in Ops, AskCancel(o) \/ AskAgent(o) \/ Shutdown(o)
            \/ CancelNext(o) \/ DrainNext(o) \/ AwaitWorker(o) \/ FinishUnstarted(o)
            \/ FinishOp(o) \/ CheckAgent(o)
       PROVE  UNCHANGED agent
    BY <1>7 DEF AskCancel, AskAgent, Shutdown, CancelNext, DrainNext, AwaitWorker,
        FinishUnstarted, FinishOp, CheckAgent
  <1>8. ASSUME OtherStarts \/ Crash \/ Restart PROVE UNCHANGED agent
    BY <1>8 DEF OtherStarts, Crash, Restart
  <1> QED  BY <1>1, <1>2, <1>3, <1>4, <1>5, <1>6, <1>7, <1>8
    DEF Next, CallerStep, WorkerStep, OpArrives, OpStep

(* Under the admission an agent that was found active stays so, as it is.  *)
LEMMA AdmittedStep ==
    ASSUME Admitted, MessagePlaces, GateHeld, GateTypes, PlaceTypes, BoundTypes,
           AgentTypes, Next
    PROVE  Admitted'
  <1>1. CASE UNCHANGED <<pc, bound, agent>>
    BY <1>1 DEF Admitted, Active, Bound
  <1>2. ASSUME NEW j \in Jobs, AskTask(j) \/ AskMessage(j) \/ AcceptMessage(j)
            \/ CreateRecord(j) \/ LoseCaller(j)
       PROVE  Admitted'
    <2>1. Moved(j, {"idle"} \cup Callers, {"refused"} \cup Callers)
      BY <1>2, Moves DEF Moved, Workers, SlotPlaces, Callers
    <2>2. /\ UNCHANGED <<bound, agent>> /\ pc'[j] \notin {"starting", "started"}
          /\ j \in Messages /\ pc'[j] \in GatePlaces => Active(AgentOf[j])
      BY <1>2, <2>1 DEF AskTask, AskMessage, AcceptMessage, CreateRecord, LoseCaller,
          Moved, Goto, PlaceTypes, Callers, Admitted, GatePlaces, Tasks
    <2> QED  BY Names, <2>1, <2>2 DEF Admitted, Moved, Active, Bound
  <1>3. ASSUME NEW j \in Jobs, Submit(j) PROVE Admitted'
    <2>1. Moved(j, {"created"}, {"unstarted"}) /\ UNCHANGED <<bound, agent>>
      BY <1>3, Moves DEF Submit, workerVars
    <2> QED  BY <2>1, Names DEF Admitted, Moved, GatePlaces, Active, Bound
  <1>4. ASSUME NEW j \in Jobs, BeginWork(j) \/ QueueForSlot(j) \/ TakeSlot(j)
            \/ StartTurn(j) \/ MissStart(j) \/ EndTurn(j) \/ CommitEnd(j)
            \/ FinishWork(j) \/ Killed(j) \/ FailWrite(j)
       PROVE  Admitted'
    <2>1. Moved(j, Workers, {"over"} \cup Workers)
      BY <1>4, Moves DEF Moved, Workers, SlotPlaces, Callers
    <2>2. /\ UNCHANGED <<bound, agent>>
          /\ j \in Messages => pc'[j] \notin GatePlaces
      BY <1>4, <2>1 DEF BeginWork, QueueForSlot, TakeSlot, StartTurn, MissStart, EndTurn,
          RecordEnd, CommitEnd, FinishWork, Killed, FailWrite, Moved, Goto, PlaceTypes,
          Tasks, GatePlaces
    <2> QED  BY Names, <2>1, <2>2 DEF Admitted, Moved, GatePlaces, Active, Bound
  <1>5. ASSUME NEW j \in Jobs, ReadAgent(j) PROVE Admitted'
    <2>1. Moved(j, {"admit"}, {"starting", "ending"}) /\ agent' = agent
      BY <1>5, Moves DEF ReadAgent
    <2>2. /\ pc'[j] = "starting" => Active(AgentOf[j]) /\ bound'[j] = Bound(AgentOf[j])
          /\ \A i \in Jobs \ {j} : bound'[i] = bound[i]
      BY <1>5 DEF ReadAgent, RecordEnd, Goto, PlaceTypes, BoundTypes
    <2> QED  BY <2>1, <2>2, Names DEF Admitted, Moved, GatePlaces, Active, Bound
  <1>6. ASSUME NEW j \in Jobs, CommitStart(j) PROVE Admitted'
    <2>1. Moved(j, {"starting"}, {"started", "missed"}) /\ UNCHANGED <<bound, agent>>
      BY <1>6, Moves DEF CommitStart
    <2> QED  BY <2>1, Names DEF Admitted, Moved, GatePlaces, Active, Bound
  <1>7. ASSUME NEW o \in Ops, StartAgent(o) PROVE Admitted'
    <2>1. UNCHANGED <<pc, bound>> /\ \A j \in Messages : pc[j] \notin GatePlaces
      BY <1>7, AloneAtGate DEF StartAgent, workerVars
    <2> QED  BY <2>1 DEF Admitted, GatePlaces
  <1>8. ASSUME NEW o \in Ops, MoveAgent(o) PROVE Admitted'
    <2>1. UNCHANGED <<pc, bound>> /\ \A j \in Messages : pc[j] \notin GatePlaces
      BY <1>8, AloneAtGate DEF MoveAgent, workerVars
    <2> QED  BY <2>1 DEF Admitted, GatePlaces
  <1>9. ASSUME NEW o \in Ops, ConfigureAgent(o) PROVE Admitted'
    <2>1. UNCHANGED <<pc, bound>> /\ \A j \in Messages : pc[j] \notin GatePlaces
      BY <1>9, AloneAtGate DEF ConfigureAgent, workerVars
    <2> QED  BY <2>1 DEF Admitted, GatePlaces
  <1>10. ASSUME NEW o \in Ops, StopAgent(o) PROVE Admitted'
    <2>1. UNCHANGED <<pc, bound>> /\ \A j \in Messages : pc[j] \notin GatePlaces
      BY <1>10, AloneAtGate DEF StopAgent, workerVars
    <2> QED  BY <2>1 DEF Admitted, GatePlaces
  <1>11. ASSUME Crash PROVE Admitted'

    BY <1>11, Names DEF Crash, Admitted, GatePlaces
  <1>12. ASSUME NEW o \in Ops, AskCancel(o) \/ AskAgent(o) \/ Shutdown(o)
            \/ CancelNext(o) \/ DrainNext(o) \/ AwaitWorker(o) \/ FinishUnstarted(o)
            \/ FinishOp(o) \/ CheckAgent(o)
       PROVE  UNCHANGED <<pc, bound, agent>>
    BY <1>12 DEF AskCancel, workerVars, AskAgent, Shutdown, CancelNext, DrainNext,
        AwaitWorker, FinishUnstarted, FinishOp, CheckAgent
  <1>13. ASSUME OtherStarts \/ Restart PROVE UNCHANGED <<pc, bound, agent>>
    BY <1>13 DEF OtherStarts, workerVars, Restart
  <1> QED  BY <1>1, <1>2, <1>3, <1>4, <1>5, <1>6, <1>7, <1>8, <1>9, <1>10, <1>11, <1>12,
       <1>13
    DEF Next, CallerStep, WorkerStep, OpArrives, OpStep

(* A stopped agent stays stopped.                                          *)
LEMMA StoppingStoppedStep ==
    ASSUME StoppingStopped, ChecksHold, OpPlaces, OpTypes, AgentTypes, Next
    PROVE  StoppingStopped'
  <1>1. CASE UNCHANGED <<opc, agent>>
    BY <1>1 DEF StoppingStopped, Stopping
  <1>2. ASSUME NEW o \in Ops, AskCancel(o) PROVE StoppingStopped'
    <2>1. \A p \in Ops : Stopping(p)' <=> Stopping(p)
      BY <1>2 DEF AskCancel, OpGoto, OpTypes, Stopping
    <2>2. agent' = agent
      BY <1>2 DEF AskCancel
    <2> QED  BY <2>1, <2>2 DEF StoppingStopped
  <1>3. ASSUME NEW o \in Ops, AskAgent(o) PROVE StoppingStopped'
    <2>1. \A p \in Ops : Stopping(p)' <=> Stopping(p)
      BY <1>3 DEF AskAgent, OpGoto, OpTypes, Stopping, AgentOps, OfKind
    <2>2. agent' = agent
      BY <1>3 DEF AskAgent
    <2> QED  BY <2>1, <2>2 DEF StoppingStopped
  <1>4. ASSUME NEW o \in Ops, Shutdown(o) PROVE StoppingStopped'
    <2>1. \A p \in Ops : Stopping(p)' <=> Stopping(p)
      BY <1>4 DEF Shutdown, OpGoto, OpTypes, Stopping
    <2>2. agent' = agent
      BY <1>4 DEF Shutdown
    <2> QED  BY <2>1, <2>2 DEF StoppingStopped
  <1>5. ASSUME NEW o \in Ops, CancelNext(o) PROVE StoppingStopped'
    <2>1. \A p \in Ops : Stopping(p)' <=> Stopping(p)
      BY <1>5 DEF CancelNext, OpGoto, OpTypes, Stopping
    <2>2. agent' = agent
      BY <1>5 DEF CancelNext
    <2> QED  BY <2>1, <2>2 DEF StoppingStopped
  <1>6. ASSUME NEW o \in Ops, DrainNext(o) PROVE StoppingStopped'
    <2>1. \A p \in Ops : Stopping(p)' <=> Stopping(p)
      BY <1>6 DEF DrainNext, OpGoto, OpTypes, Stopping, OpPlaces
    <2>2. agent' = agent
      BY <1>6 DEF DrainNext
    <2> QED  BY <2>1, <2>2 DEF StoppingStopped
  <1>7. ASSUME NEW o \in Ops, AwaitWorker(o) PROVE StoppingStopped'
    <2>1. \A p \in Ops : Stopping(p)' <=> Stopping(p)
      BY <1>7 DEF AwaitWorker, OpGoto, OpTypes, Stopping, Resumes, OpPlaces
    <2>2. agent' = agent
      BY <1>7 DEF AwaitWorker
    <2> QED  BY <2>1, <2>2 DEF StoppingStopped
  <1>8. ASSUME NEW o \in Ops, FinishUnstarted(o) PROVE StoppingStopped'
    <2>1. \A p \in Ops : Stopping(p)' <=> Stopping(p)
      BY <1>8 DEF FinishUnstarted, OpGoto, OpTypes, Stopping, Resumes, OpPlaces
    <2>2. agent' = agent
      BY <1>8 DEF FinishUnstarted
    <2> QED  BY <2>1, <2>2 DEF StoppingStopped
  <1>9. ASSUME NEW o \in Ops, CheckAgent(o) PROVE StoppingStopped'
    <2>1. \A p \in Ops : Stopping(p)' <=> Stopping(p)
      BY <1>9 DEF CheckAgent, OpGoto, OpTypes, Stopping, OpPlaces
    <2>2. agent' = agent
      BY <1>9 DEF CheckAgent
    <2> QED  BY <2>1, <2>2 DEF StoppingStopped
  <1>10. ASSUME NEW o \in Ops, FinishOp(o) PROVE StoppingStopped'
    <2>1. agent' = agent /\ \A p \in Ops : Stopping(p)' => Stopping(p)
      BY <1>10 DEF FinishOp, OpGoto, OpTypes, Stopping
    <2> QED  BY <2>1 DEF StoppingStopped
  <1>11. ASSUME NEW o \in Ops, StartAgent(o) PROVE StoppingStopped'
    <2>1. Target[o] \in Agents /\ agent[Target[o]].status = "absent"
      BY <1>11, Targets DEF StartAgent, ChecksHold, MayAct
    <2>2. \A p \in Ops : Stopping(p)' => Stopping(p)
      BY <1>11 DEF StartAgent, OpGoto, OpTypes, Stopping
    <2>3. \A a \in Agents : a # Target[o] => agent'[a].status = agent[a].status
      BY <1>11, <2>1 DEF StartAgent, AgentTypes
    <2> QED  BY <2>1, <2>2, <2>3, Targets DEF StoppingStopped, Stopping
  <1>12. ASSUME NEW o \in Ops, MoveAgent(o) PROVE StoppingStopped'
    <2>1. \A p \in Ops : Stopping(p)' => Stopping(p)
      BY <1>12 DEF MoveAgent, OpGoto, OpTypes, Stopping
    <2>2. \A a \in Agents : agent'[a].status = agent[a].status
      BY <1>12, Targets DEF MoveAgent, AgentTypes
    <2> QED  BY <2>1, <2>2, Targets DEF StoppingStopped, Stopping
  <1>13. ASSUME NEW o \in Ops, ConfigureAgent(o) PROVE StoppingStopped'
    <2>1. \A p \in Ops : Stopping(p)' => Stopping(p)
      BY <1>13 DEF ConfigureAgent, OpGoto, OpTypes, Stopping
    <2>2. \A a \in Agents : agent'[a].status = agent[a].status
      BY <1>13, Targets DEF ConfigureAgent, AgentTypes
    <2> QED  BY <2>1, <2>2, Targets DEF StoppingStopped, Stopping
  <1>14. ASSUME NEW o \in Ops, StopAgent(o) PROVE StoppingStopped'
    <2>1. \A p \in Ops : Stopping(p)' => Stopping(p) \/ p = o
      BY <1>14 DEF StopAgent, OpGoto, OpTypes, Stopping
    <2>2. Target[o] \in Agents /\ agent'[Target[o]].status = "stopped"
      BY <1>14, Targets DEF StopAgent, AgentTypes
    <2>3. \A a \in Agents : a # Target[o] => agent'[a].status = agent[a].status
      BY <1>14, <2>2 DEF StopAgent, AgentTypes
    <2> QED  BY <2>1, <2>2, <2>3, Targets DEF StoppingStopped, Stopping
  <1>15. ASSUME Crash PROVE StoppingStopped'

    BY <1>15 DEF Crash, StoppingStopped, Stopping
  <1>16. ASSUME NEW j \in Jobs, AskTask(j) \/ AskMessage(j) \/ AcceptMessage(j)
            \/ CreateRecord(j) \/ Submit(j) \/ LoseCaller(j) \/ BeginWork(j)
            \/ QueueForSlot(j) \/ TakeSlot(j) \/ ReadAgent(j) \/ CommitStart(j)
            \/ StartTurn(j) \/ MissStart(j) \/ EndTurn(j) \/ CommitEnd(j)
            \/ FinishWork(j) \/ Killed(j) \/ FailWrite(j)
       PROVE  UNCHANGED <<opc, agent>>
    BY <1>16 DEF AskTask, opVars, AskMessage, AcceptMessage, CreateRecord, Submit,
        LoseCaller, BeginWork, QueueForSlot, TakeSlot, ReadAgent, CommitStart, StartTurn,
        MissStart, EndTurn, CommitEnd, FinishWork, Killed, FailWrite
  <1>17. ASSUME OtherStarts \/ Restart PROVE UNCHANGED <<opc, agent>>
    BY <1>17 DEF OtherStarts, opVars, Restart
  <1> QED  BY <1>1, <1>2, <1>3, <1>4, <1>5, <1>6, <1>7, <1>8, <1>9, <1>10, <1>11, <1>12,
       <1>13, <1>14, <1>15, <1>16, <1>17
    DEF Next, CallerStep, WorkerStep, OpArrives, OpStep

(* A stop finds every message of its agent, and loses none before it was   *)
(* cancelled and awaited.                                                  *)
LEMMA SilencedStep ==
    ASSUME Silenced, Admitted, WorkTracked, OpPlaces, PlaceTypes, OpTypes,
           TodoTypes, VictimTypes, AgentTypes, Next
    PROVE  Silenced'
  <1>1. CASE UNCHANGED <<agent, pc, opc, todo, victim>>
    BY <1>1 DEF Silenced, BeingStopped, Stopping
  <1>2. ASSUME NEW j \in Jobs, AskTask(j) \/ AskMessage(j) \/ AcceptMessage(j)
            \/ CreateRecord(j) \/ LoseCaller(j)
       PROVE  Silenced'
    <2>1. Moved(j, {"idle"} \cup Callers, {"refused"} \cup Callers)
      BY <1>2, Moves DEF Moved, Workers, SlotPlaces, Callers
    <2>2. /\ UNCHANGED <<agent, opc, todo, victim>>
          /\ pc'[j] \notin Startable
      BY <1>2, <2>1 DEF AskTask, opVars, AskMessage, AcceptMessage, CreateRecord,
          LoseCaller, Moved, Callers, Startable, SlotPlaces
    <2> QED  BY Names, <2>1, <2>2 DEF Silenced, Moved, BeingStopped, Stopping
  <1>3. ASSUME NEW j \in Jobs, Submit(j) PROVE Silenced'
    <2>1. Moved(j, {"created"}, {"unstarted"}) /\ UNCHANGED <<agent, opc, todo, victim>>
      BY <1>3, Moves DEF Submit, opVars
    <2>2. j \in Messages => agent[AgentOf[j]].status # "stopped"
      BY <2>1 DEF Admitted, Active, Moved, GatePlaces
    <2> QED  BY <2>1, <2>2, Names DEF Silenced, Moved, BeingStopped, Stopping
  <1>4. ASSUME NEW j \in Jobs, BeginWork(j) \/ QueueForSlot(j) \/ TakeSlot(j)
            \/ ReadAgent(j) \/ CommitStart(j) \/ StartTurn(j) \/ MissStart(j)
            \/ EndTurn(j) \/ CommitEnd(j) \/ FinishWork(j) \/ Killed(j) \/ FailWrite(j)
       PROVE  Silenced'
    <2>1. Moved(j, Workers, {"over"} \cup Workers)
      BY <1>4, Moves DEF Moved, Workers, SlotPlaces, Callers
    <2>2. /\ UNCHANGED <<agent, opc, todo, victim>>
          /\ pc'[j] \in Startable => pc[j] \in Startable
      BY <1>4, Moves DEF BeginWork, opVars, QueueForSlot, TakeSlot, ReadAgent,
          CommitStart, StartTurn, MissStart, EndTurn, CommitEnd, FinishWork, Killed,
          FailWrite, Moved, Startable, SlotPlaces, Workers
    <2> QED  BY Names, <2>1, <2>2 DEF Silenced, Moved, BeingStopped, Stopping
  <1>5. ASSUME Crash PROVE Silenced'

    BY <1>5, Names DEF Crash, Silenced, Startable, SlotPlaces
  <1>6. ASSUME NEW o \in Ops, AskCancel(o) PROVE Silenced'
    <2>1. UNCHANGED <<agent, pc>>
      BY <1>6 DEF AskCancel, workerVars
    <2>2. ASSUME NEW j \in Jobs, pc[j] # "over", BeingStopped(j) PROVE BeingStopped(j)'
      <3>1. PICK p \in Ops : /\ Stopping(p) /\ Target[p] = AgentOf[j]
                             /\ j \in todo[p] \/ (victim[p] = j /\ opc[p] = "await")
        BY <2>2 DEF BeingStopped
      <3>2. CASE p # o
        <4>1. opc'[p] = opc[p] /\ todo'[p] = todo[p] /\ victim'[p] = victim[p]
          BY <1>6, <3>2 DEF AskCancel, OpGoto, OpTypes, TodoTypes, VictimTypes, opVars
        <4> QED  BY <3>1, <4>1 DEF BeingStopped, Stopping
      <3>3. CASE p = o
        BY <1>6, <3>1, <3>3, JobsAssumption DEF AskCancel, Stopping, AgentOps, OfKind,
            OpPlaces
      <3> QED  BY <3>2, <3>3
    <2> QED  BY <2>1, <2>2, Names DEF Silenced, Startable, SlotPlaces
  <1>7. ASSUME NEW o \in Ops, AskAgent(o) PROVE Silenced'
    <2>1. UNCHANGED <<agent, pc>>
      BY <1>7 DEF AskAgent, workerVars
    <2>2. ASSUME NEW j \in Jobs, pc[j] # "over", BeingStopped(j) PROVE BeingStopped(j)'
      <3>1. PICK p \in Ops : /\ Stopping(p) /\ Target[p] = AgentOf[j]
                             /\ j \in todo[p] \/ (victim[p] = j /\ opc[p] = "await")
        BY <2>2 DEF BeingStopped
      <3>2. CASE p # o
        <4>1. opc'[p] = opc[p] /\ todo'[p] = todo[p] /\ victim'[p] = victim[p]
          BY <1>7, <3>2 DEF AskAgent, OpGoto, OpTypes, TodoTypes, VictimTypes, opVars
        <4> QED  BY <3>1, <4>1 DEF BeingStopped, Stopping
      <3>3. CASE p = o
        BY <1>7, <3>1, <3>3, JobsAssumption DEF AskAgent, Stopping, AgentOps, OfKind,
            OpPlaces
      <3> QED  BY <3>2, <3>3
    <2> QED  BY <2>1, <2>2, Names DEF Silenced, Startable, SlotPlaces
  <1>8. ASSUME NEW o \in Ops, Shutdown(o) PROVE Silenced'
    <2>1. UNCHANGED <<agent, pc>>
      BY <1>8 DEF Shutdown, workerVars
    <2>2. ASSUME NEW j \in Jobs, pc[j] # "over", BeingStopped(j) PROVE BeingStopped(j)'
      <3>1. PICK p \in Ops : /\ Stopping(p) /\ Target[p] = AgentOf[j]
                             /\ j \in todo[p] \/ (victim[p] = j /\ opc[p] = "await")
        BY <2>2 DEF BeingStopped
      <3>2. CASE p # o
        <4>1. opc'[p] = opc[p] /\ todo'[p] = todo[p] /\ victim'[p] = victim[p]
          BY <1>8, <3>2 DEF Shutdown, OpGoto, OpTypes, TodoTypes, VictimTypes, opVars
        <4> QED  BY <3>1, <4>1 DEF BeingStopped, Stopping
      <3>3. CASE p = o
        BY <1>8, <3>1, <3>3, JobsAssumption DEF Shutdown, Stopping, AgentOps, OfKind,
            OpPlaces
      <3> QED  BY <3>2, <3>3
    <2> QED  BY <2>1, <2>2, Names DEF Silenced, Startable, SlotPlaces
  <1>9. ASSUME NEW o \in Ops, DrainNext(o) PROVE Silenced'
    <2>1. UNCHANGED <<agent, pc>>
      BY <1>9 DEF DrainNext, workerVars
    <2>2. ASSUME NEW j \in Jobs, pc[j] # "over", BeingStopped(j) PROVE BeingStopped(j)'
      <3>1. PICK p \in Ops : /\ Stopping(p) /\ Target[p] = AgentOf[j]
                             /\ j \in todo[p] \/ (victim[p] = j /\ opc[p] = "await")
        BY <2>2 DEF BeingStopped
      <3>2. CASE p # o
        <4>1. opc'[p] = opc[p] /\ todo'[p] = todo[p] /\ victim'[p] = victim[p]
          BY <1>9, <3>2 DEF DrainNext, OpGoto, OpTypes, TodoTypes, VictimTypes, opVars
        <4> QED  BY <3>1, <4>1 DEF BeingStopped, Stopping
      <3>3. CASE p = o
        BY <1>9, <3>1, <3>3, JobsAssumption DEF DrainNext, Stopping, AgentOps, OfKind,
            OpPlaces
      <3> QED  BY <3>2, <3>3
    <2> QED  BY <2>1, <2>2, Names DEF Silenced, Startable, SlotPlaces
  <1>10. ASSUME NEW o \in Ops, CheckAgent(o) PROVE Silenced'
    <2>1. UNCHANGED <<agent, pc>>
      BY <1>10 DEF CheckAgent, workerVars
    <2>2. ASSUME NEW j \in Jobs, pc[j] # "over", BeingStopped(j) PROVE BeingStopped(j)'
      <3>1. PICK p \in Ops : /\ Stopping(p) /\ Target[p] = AgentOf[j]
                             /\ j \in todo[p] \/ (victim[p] = j /\ opc[p] = "await")
        BY <2>2 DEF BeingStopped
      <3>2. CASE p # o
        <4>1. opc'[p] = opc[p] /\ todo'[p] = todo[p] /\ victim'[p] = victim[p]
          BY <1>10, <3>2 DEF CheckAgent, OpGoto, OpTypes, TodoTypes, VictimTypes, opVars
        <4> QED  BY <3>1, <4>1 DEF BeingStopped, Stopping
      <3>3. CASE p = o
        BY <1>10, <3>1, <3>3, JobsAssumption DEF CheckAgent, Stopping, AgentOps, OfKind,
            OpPlaces
      <3> QED  BY <3>2, <3>3
    <2> QED  BY <2>1, <2>2, Names DEF Silenced, Startable, SlotPlaces
  <1>11. ASSUME NEW o \in Ops, AwaitWorker(o) PROVE Silenced'
    <2>1. UNCHANGED <<agent, pc>>
      BY <1>11 DEF AwaitWorker, workerVars
    <2>2. ASSUME NEW j \in Jobs, pc[j] # "over", BeingStopped(j) PROVE BeingStopped(j)'
      <3>1. PICK p \in Ops : /\ Stopping(p) /\ Target[p] = AgentOf[j]
                             /\ j \in todo[p] \/ (victim[p] = j /\ opc[p] = "await")
        BY <2>2 DEF BeingStopped
      <3>2. CASE p # o
        <4>1. opc'[p] = opc[p] /\ todo'[p] = todo[p] /\ victim'[p] = victim[p]
          BY <1>11, <3>2 DEF AwaitWorker, OpGoto, OpTypes, TodoTypes, VictimTypes, opVars
        <4> QED  BY <3>1, <4>1 DEF BeingStopped, Stopping
      <3>3. CASE p = o
        <4>1. j \in todo[o] /\ todo'[o] = todo[o]
          BY <1>11, <2>2, <3>1, <3>3 DEF AwaitWorker
        <4>2. Stopping(o)'
          BY <1>11, <3>1, <3>3 DEF AwaitWorker, OpGoto, OpTypes, Stopping, Resumes
        <4> QED  BY <3>1, <3>3, <4>1, <4>2 DEF BeingStopped
      <3> QED  BY <3>2, <3>3
    <2> QED  BY <2>1, <2>2, Names DEF Silenced, Startable, SlotPlaces
  <1>12. ASSUME NEW o \in Ops, FinishUnstarted(o) PROVE Silenced'
    <2>1. UNCHANGED <<agent, pc>>
      BY <1>12 DEF FinishUnstarted, workerVars
    <2>2. ASSUME NEW j \in Jobs, pc[j] # "over", BeingStopped(j) PROVE BeingStopped(j)'
      <3>1. PICK p \in Ops : /\ Stopping(p) /\ Target[p] = AgentOf[j]
                             /\ j \in todo[p] \/ (victim[p] = j /\ opc[p] = "await")
        BY <2>2 DEF BeingStopped
      <3>2. CASE p # o
        <4>1. opc'[p] = opc[p] /\ todo'[p] = todo[p] /\ victim'[p] = victim[p]
          BY <1>12, <3>2 DEF FinishUnstarted, OpGoto, OpTypes, TodoTypes, VictimTypes,
              opVars
        <4> QED  BY <3>1, <4>1 DEF BeingStopped, Stopping
      <3>3. CASE p = o
        <4>1. j \in todo[o] /\ todo'[o] = todo[o]
          BY <1>12, <3>1, <3>3 DEF FinishUnstarted
        <4>2. Stopping(o)'
          BY <1>12, <3>1, <3>3 DEF FinishUnstarted, OpGoto, OpTypes, Stopping, Resumes
        <4> QED  BY <3>1, <3>3, <4>1, <4>2 DEF BeingStopped
      <3> QED  BY <3>2, <3>3
    <2> QED  BY <2>1, <2>2, Names DEF Silenced, Startable, SlotPlaces
  <1>13. ASSUME NEW o \in Ops, FinishOp(o) PROVE Silenced'
    <2>1. UNCHANGED <<agent, pc>>
      BY <1>13 DEF FinishOp, workerVars
    <2>2. ASSUME NEW j \in Jobs, pc[j] # "over", BeingStopped(j) PROVE BeingStopped(j)'
      <3>1. PICK p \in Ops : /\ Stopping(p) /\ Target[p] = AgentOf[j]
                             /\ j \in todo[p] \/ (victim[p] = j /\ opc[p] = "await")
        BY <2>2 DEF BeingStopped
      <3>2. CASE p # o
        <4>1. opc'[p] = opc[p] /\ todo'[p] = todo[p] /\ victim'[p] = victim[p]
          BY <1>13, <3>2 DEF FinishOp, OpGoto, OpTypes, TodoTypes, VictimTypes, opVars
        <4> QED  BY <3>1, <4>1 DEF BeingStopped, Stopping
      <3>3. CASE p = o
        BY <1>13, <3>1, <3>3 DEF FinishOp
      <3> QED  BY <3>2, <3>3
    <2> QED  BY <2>1, <2>2, Names DEF Silenced, Startable, SlotPlaces
  <1>14. ASSUME NEW o \in Ops, CancelNext(o) PROVE Silenced'
    <2>1. UNCHANGED <<agent, pc>>
      BY <1>14 DEF CancelNext, workerVars
    <2>2. ASSUME NEW j \in Messages, pc[j] \in Startable, BeingStopped(j) PROVE BeingStopped(j)'
      <3>1. PICK p \in Ops : /\ Stopping(p) /\ Target[p] = AgentOf[j]
                             /\ j \in todo[p] \/ (victim[p] = j /\ opc[p] = "await")
        BY <2>2 DEF BeingStopped
      <3>2. CASE p # o
        <4>1. opc'[p] = opc[p] /\ todo'[p] = todo[p] /\ victim'[p] = victim[p]
          BY <1>14, <3>2 DEF CancelNext, OpGoto, OpTypes, TodoTypes, VictimTypes, opVars
        <4> QED  BY <3>1, <4>1 DEF BeingStopped, Stopping
      <3>3. CASE p = o
        <4>1. j \in tracked /\ j \in todo[o] /\ opc[o] = "cancelling"
          BY <1>14, <2>2, <3>1, <3>3, Names DEF CancelNext, WorkTracked, Startable,
              Workers, SlotPlaces
        <4>2. PICK i \in todo[o] :
                 /\ todo' = [todo EXCEPT ![o] = @ \ {i}]
                 /\ \/ i \in tracked /\ victim' = [victim EXCEPT ![o] = i] /\ OpGoto(o, "await")
                    \/ i \notin tracked /\ opc' = opc
          BY <1>14 DEF CancelNext
        <4>3. opc'[o] \in {"cancelling", "await"}
          BY <4>1, <4>2 DEF OpGoto, OpTypes
        <4>4. j \in todo'[o] \/ (victim'[o] = j /\ opc'[o] = "await")
          BY <4>1, <4>2 DEF OpGoto, OpTypes, TodoTypes, VictimTypes
        <4> QED  BY <3>1, <3>3, <4>3, <4>4 DEF BeingStopped, Stopping
      <3> QED  BY <3>2, <3>3
    <2> QED  BY <2>1, <2>2 DEF Silenced
  <1>15. ASSUME NEW o \in Ops, StartAgent(o) PROVE Silenced'
    <2>1. UNCHANGED <<pc, todo, victim>> /\ OpKind[o] # "stop" /\ opc[o] = "acting"
      BY <1>15 DEF StartAgent, workerVars
    <2>2. \A a \in Agents : agent'[a].status = "stopped" => agent[a].status = "stopped"
      BY <1>15, Targets DEF StartAgent, AgentTypes
    <2>3. \A p \in Ops : p # o => opc'[p] = opc[p]
      BY <1>15 DEF StartAgent, OpGoto, OpTypes
    <2>4. ASSUME NEW j \in Messages, BeingStopped(j) PROVE BeingStopped(j)'
      BY <2>1, <2>3, <2>4 DEF BeingStopped, Stopping
    <2> QED  BY <2>1, <2>2, <2>4, KeysOf, Names DEF Silenced
  <1>16. ASSUME NEW o \in Ops, MoveAgent(o) PROVE Silenced'
    <2>1. UNCHANGED <<pc, todo, victim>> /\ OpKind[o] # "stop" /\ opc[o] = "acting"
      BY <1>16 DEF MoveAgent, workerVars
    <2>2. \A a \in Agents : agent'[a].status = "stopped" => agent[a].status = "stopped"
      BY <1>16, Targets DEF MoveAgent, AgentTypes
    <2>3. \A p \in Ops : p # o => opc'[p] = opc[p]
      BY <1>16 DEF MoveAgent, OpGoto, OpTypes
    <2>4. ASSUME NEW j \in Messages, BeingStopped(j) PROVE BeingStopped(j)'
      BY <2>1, <2>3, <2>4 DEF BeingStopped, Stopping
    <2> QED  BY <2>1, <2>2, <2>4, KeysOf, Names DEF Silenced
  <1>17. ASSUME NEW o \in Ops, ConfigureAgent(o) PROVE Silenced'
    <2>1. UNCHANGED <<pc, todo, victim>> /\ OpKind[o] # "stop" /\ opc[o] = "acting"
      BY <1>17 DEF ConfigureAgent, workerVars
    <2>2. \A a \in Agents : agent'[a].status = "stopped" => agent[a].status = "stopped"
      BY <1>17, Targets DEF ConfigureAgent, AgentTypes
    <2>3. \A p \in Ops : p # o => opc'[p] = opc[p]
      BY <1>17 DEF ConfigureAgent, OpGoto, OpTypes
    <2>4. ASSUME NEW j \in Messages, BeingStopped(j) PROVE BeingStopped(j)'
      BY <2>1, <2>3, <2>4 DEF BeingStopped, Stopping
    <2> QED  BY <2>1, <2>2, <2>4, KeysOf, Names DEF Silenced
  <1>18. ASSUME NEW o \in Ops, StopAgent(o) PROVE Silenced'
    <2>1. /\ UNCHANGED <<pc, victim>> /\ OpKind[o] = "stop" /\ opc[o] = "acting"
          /\ opc'[o] = "cancelling" /\ todo'[o] = WorkOf(Target[o])
      BY <1>18 DEF StopAgent, workerVars, OpGoto, OpTypes, TodoTypes
    <2>2. Target[o] \in Agents /\ \A a \in Agents : a # Target[o] => agent'[a] = agent[a]
      BY <2>1, <1>18, Targets DEF StopAgent, AgentTypes
    <2>3. \A p \in Ops : p # o => opc'[p] = opc[p] /\ todo'[p] = todo[p]
      BY <1>18 DEF StopAgent, OpGoto, OpTypes, TodoTypes
    <2>4. ASSUME NEW j \in Messages, BeingStopped(j) PROVE BeingStopped(j)'
      BY <2>1, <2>3, <2>4 DEF BeingStopped, Stopping
    <2>5. ASSUME NEW j \in Messages, AgentOf[j] = Target[o], pc[j] \in Startable
          PROVE  BeingStopped(j)'
      <3>1. j \in WorkOf(Target[o])
        BY <2>5, Names DEF WorkOf, WorkTracked, Startable, Workers, SlotPlaces
      <3> QED  BY <2>1, <2>5, <3>1 DEF BeingStopped, Stopping
    <2> QED  BY <2>1, <2>2, <2>4, <2>5, KeysOf, Names DEF Silenced
  <1>19. ASSUME OtherStarts \/ Restart PROVE UNCHANGED <<agent, pc, opc, todo, victim>>
    BY <1>19 DEF OtherStarts, workerVars, opVars, Restart
  <1> QED  BY <1>1, <1>2, <1>3, <1>4, <1>5, <1>6, <1>7, <1>8, <1>9, <1>10, <1>11, <1>12,
       <1>13, <1>14, <1>15, <1>16, <1>17, <1>18, <1>19
    DEF Next, CallerStep, WorkerStep, OpArrives, OpStep

(***************************************************************************)
(* Sessions and their pins.                                                *)
(***************************************************************************)
SessionsApart ==
    \A a, b \in Agents : a # b /\ Active(a) /\ Active(b) =>
        agent[a].session # agent[b].session /\ IdentityOf[a] # IdentityOf[b]
UsersOf(s) == {a \in Agents : Active(a) /\ agent[a].session = s}
StopsOn(s) == {o \in Ops : Stopping(o) /\ agent[Target[o]].session = s}
Users == [s \in Sessions |-> Cardinality(UsersOf(s))]
Stops == [s \in Sessions |-> Cardinality(StopsOn(s))]
PinsKept == up => \A s \in Sessions : pins[s] = Users[s] + Stops[s]

(* Agents and requests are finitely many, so they can be counted.          *)
LEMMA UsersCounted ==
    \A s : /\ IsFiniteSet(UsersOf(s)) /\ IsFiniteSet(StopsOn(s))
           /\ Cardinality(UsersOf(s)) \in Nat /\ Cardinality(StopsOn(s)) \in Nat
  <1> SUFFICES ASSUME NEW s
               PROVE  /\ IsFiniteSet(UsersOf(s)) /\ IsFiniteSet(StopsOn(s))
                      /\ Cardinality(UsersOf(s)) \in Nat /\ Cardinality(StopsOn(s)) \in Nat
    OBVIOUS
  <1>1. UsersOf(s) \in SUBSET Agents /\ StopsOn(s) \in SUBSET Ops
    BY DEF UsersOf, StopsOn
  <1>2. IsFiniteSet(UsersOf(s)) /\ IsFiniteSet(StopsOn(s))
    BY <1>1, FS_Subset, AgentsAssumption
  <1> QED  BY <1>2, FS_CardinalityType

(* The counts are numbers.                                                 *)
LEMMA UsersNumber == \A s \in Sessions : Users[s] \in Nat /\ Stops[s] \in Nat
  BY UsersCounted DEF Users, Stops

(* How the counts follow the sets: agents that use a session.              *)
LEMMA UsersChange ==
    ASSUME NEW s \in Sessions, NEW a
    PROVE  /\ UsersOf(s)' = UsersOf(s) => Users'[s] = Users[s]
           /\ UsersOf(s)' = UsersOf(s) \cup {a} /\ a \notin UsersOf(s) => Users'[s] = Users[s] + 1
           /\ UsersOf(s)' = UsersOf(s) \ {a} /\ a \in UsersOf(s) => Users'[s] = Users[s] - 1
  <1>1. Users[s] = Cardinality(UsersOf(s)) /\ Users'[s] = Cardinality(UsersOf(s)')
    BY DEF Users
  <1>2. IsFiniteSet(UsersOf(s))
    BY UsersCounted
  <1>3. a \notin UsersOf(s) => Cardinality(UsersOf(s) \cup {a}) = Cardinality(UsersOf(s)) + 1
    BY <1>2, FS_AddElement
  <1>4. a \in UsersOf(s) => Cardinality(UsersOf(s) \ {a}) = Cardinality(UsersOf(s)) - 1
    BY <1>2, FS_RemoveElement
  <1> QED  BY <1>1, <1>3, <1>4

(* The same for stops under way.                                           *)
LEMMA StopsChange ==
    ASSUME NEW s \in Sessions, NEW o
    PROVE  /\ StopsOn(s)' = StopsOn(s) => Stops'[s] = Stops[s]
           /\ StopsOn(s)' = StopsOn(s) \cup {o} /\ o \notin StopsOn(s) => Stops'[s] = Stops[s] + 1
           /\ StopsOn(s)' = StopsOn(s) \ {o} /\ o \in StopsOn(s) => Stops'[s] = Stops[s] - 1
  <1>1. Stops[s] = Cardinality(StopsOn(s)) /\ Stops'[s] = Cardinality(StopsOn(s)')
    BY DEF Stops
  <1>2. IsFiniteSet(StopsOn(s))
    BY UsersCounted
  <1>3. o \notin StopsOn(s) => Cardinality(StopsOn(s) \cup {o}) = Cardinality(StopsOn(s)) + 1
    BY <1>2, FS_AddElement
  <1>4. o \in StopsOn(s) => Cardinality(StopsOn(s) \ {o}) = Cardinality(StopsOn(s)) - 1
    BY <1>2, FS_RemoveElement
  <1> QED  BY <1>1, <1>3, <1>4

(* What every agent operation leaves of the agents but its target.         *)
LEMMA AgentWrites ==
    ASSUME AgentTypes, ChecksHold, NEW o \in Ops,
           StartAgent(o) \/ MoveAgent(o) \/ ConfigureAgent(o) \/ StopAgent(o)
    PROVE  /\ Target[o] \in Agents
           /\ \A a \in Agents : a # Target[o] => agent'[a] = agent[a]
           /\ StartAgent(o) => /\ agent[Target[o]].status = "absent"
                               /\ agent'[Target[o]].status = "active"
                               /\ agent'[Target[o]].session = agent[Target[o]].session
                               /\ IdentityFree(IdentityOf[Target[o]])
                               /\ SessionFree(Home[Target[o]])
           /\ MoveAgent(o) => /\ Active(Target[o]) /\ agent'[Target[o]].status = "active"
                              /\ agent'[Target[o]].session = Goal[o]
                              /\ SessionFree(Goal[o])
           /\ ConfigureAgent(o) => /\ agent'[Target[o]].status = agent[Target[o]].status
                                   /\ agent'[Target[o]].session = agent[Target[o]].session
           /\ StopAgent(o) => /\ Active(Target[o]) /\ agent'[Target[o]].status = "stopped"
                              /\ agent'[Target[o]].session = agent[Target[o]].session
  <1>1. CASE StartAgent(o)
    <2>1. MayAct(o) /\ OpKind[o] = "start" /\ Target[o] \in Agents
      BY <1>1, Targets DEF StartAgent, ChecksHold
    <2>2. agent' = [agent EXCEPT ![Target[o]].status = "active"]
      BY <1>1 DEF StartAgent
    <2> QED  BY <2>1, <2>2, <1>1 DEF MayAct, AgentTypes, StartAgent, MoveAgent,
        ConfigureAgent, StopAgent
  <1>2. CASE MoveAgent(o)
    <2>1. MayAct(o) /\ OpKind[o] = "move" /\ Target[o] \in Agents
      BY <1>2, Targets DEF MoveAgent, ChecksHold
    <2>2. agent' = [agent EXCEPT ![Target[o]].session = Goal[o]]
      BY <1>2 DEF MoveAgent
    <2> QED  BY <2>1, <2>2, <1>2 DEF MayAct, Active, AgentTypes, StartAgent, MoveAgent,
        ConfigureAgent, StopAgent
  <1>3. CASE ConfigureAgent(o)
    <2>1. OpKind[o] = "configure" /\ Target[o] \in Agents
      BY <1>3, Targets DEF ConfigureAgent
    <2>2. agent' = [agent EXCEPT ![Target[o]].config = @ \cup {o}]
      BY <1>3 DEF ConfigureAgent
    <2> QED  BY <2>1, <2>2, <1>3 DEF AgentTypes, StartAgent, MoveAgent, ConfigureAgent,
        StopAgent
  <1>4. CASE StopAgent(o)
    <2>1. MayAct(o) /\ OpKind[o] = "stop" /\ Target[o] \in Agents
      BY <1>4, Targets DEF StopAgent, ChecksHold
    <2>2. agent' = [agent EXCEPT ![Target[o]].status = "stopped"]
      BY <1>4 DEF StopAgent
    <2> QED  BY <2>1, <2>2, <1>4 DEF MayAct, AgentTypes, StartAgent, MoveAgent,
        ConfigureAgent, StopAgent
  <1> QED  BY <1>1, <1>2, <1>3, <1>4

(* Nothing that pins depend on changes.                                    *)
LEMMA PinsStay ==
    ASSUME PinsKept, up' => up, pins' = pins,
           \A s \in Sessions : UsersOf(s)' = UsersOf(s) /\ StopsOn(s)' = StopsOn(s)
    PROVE  PinsKept'
  BY UsersChange, StopsChange DEF PinsKept

(* Starts and moves never give an agent a session or an identity that      *)
(* another active one has.                                                 *)
LEMMA SessionsApartStep ==
    ASSUME SessionsApart, AgentTypes, ChecksHold, AbsentAtHome, Next
    PROVE  SessionsApart'
  <1>1. CASE UNCHANGED agent
    BY <1>1 DEF SessionsApart, Active
  <1>2. ASSUME NEW o \in Ops, StartAgent(o) PROVE SessionsApart'
    <2>1. /\ Target[o] \in Agents /\ \A a \in Agents : a # Target[o] => agent'[a] = agent[a]
          /\ agent'[Target[o]].session = Home[Target[o]]
          /\ IdentityFree(IdentityOf[Target[o]]) /\ SessionFree(Home[Target[o]])
      BY <1>2, AgentWrites DEF AbsentAtHome
    <2> QED  BY <2>1 DEF SessionsApart, Active, IdentityFree, SessionFree
  <1>3. ASSUME NEW o \in Ops, MoveAgent(o) PROVE SessionsApart'
    <2>1. /\ Target[o] \in Agents /\ \A a \in Agents : a # Target[o] => agent'[a] = agent[a]
          /\ agent'[Target[o]].session = Goal[o] /\ Active(Target[o]) /\ SessionFree(Goal[o])
      BY <1>3, AgentWrites
    <2> QED  BY <2>1 DEF SessionsApart, Active, SessionFree
  <1>4. ASSUME NEW o \in Ops, ConfigureAgent(o) PROVE SessionsApart'

    BY <1>4, AgentWrites DEF SessionsApart, Active
  <1>5. ASSUME NEW o \in Ops, StopAgent(o) PROVE SessionsApart'

    BY <1>5, AgentWrites DEF SessionsApart, Active
  <1>6. ASSUME NEW j \in Jobs, AskTask(j) \/ AskMessage(j) \/ AcceptMessage(j)
            \/ CreateRecord(j) \/ Submit(j) \/ LoseCaller(j) \/ BeginWork(j)
            \/ QueueForSlot(j) \/ TakeSlot(j) \/ ReadAgent(j) \/ CommitStart(j)
            \/ StartTurn(j) \/ MissStart(j) \/ EndTurn(j) \/ CommitEnd(j)
            \/ FinishWork(j) \/ Killed(j) \/ FailWrite(j)
       PROVE  UNCHANGED agent
    BY <1>6 DEF AskTask, AskMessage, AcceptMessage, CreateRecord, Submit, LoseCaller,
        BeginWork, QueueForSlot, TakeSlot, ReadAgent, CommitStart, StartTurn, MissStart,
        EndTurn, CommitEnd, FinishWork, Killed, FailWrite
  <1>7. ASSUME NEW o \in Ops, AskCancel(o) \/ AskAgent(o) \/ Shutdown(o)
            \/ CancelNext(o) \/ DrainNext(o) \/ AwaitWorker(o) \/ FinishUnstarted(o)
            \/ FinishOp(o) \/ CheckAgent(o)
       PROVE  UNCHANGED agent
    BY <1>7 DEF AskCancel, AskAgent, Shutdown, CancelNext, DrainNext, AwaitWorker,
        FinishUnstarted, FinishOp, CheckAgent
  <1>8. ASSUME OtherStarts \/ Crash \/ Restart PROVE UNCHANGED agent
    BY <1>8 DEF OtherStarts, Crash, Restart
  <1> QED  BY <1>1, <1>2, <1>3, <1>4, <1>5, <1>6, <1>7, <1>8
    DEF Next, CallerStep, WorkerStep, OpArrives, OpStep

(* Each pin is taken and given back with the agent or the stop it stands   *)
(* for.                                                                    *)
LEMMA PinsKeptStep ==
    ASSUME PinsKept, PinTypes, AgentTypes, OpTypes, OpPlaces, ChecksHold,
           AbsentAtHome, StoppingStopped, NothingWhenDown, Next
    PROVE  PinsKept'
  <1>1. CASE UNCHANGED <<up, pins, agent, opc>>
    BY <1>1 DEF PinsKept, Users, Stops, UsersOf, StopsOn, Stopping, Active
  <1>2. ASSUME NEW o \in Ops, AskCancel(o) PROVE PinsKept'
    <2>1. \A p \in Ops : Stopping(p)' <=> Stopping(p)
      BY <1>2 DEF AskCancel, OpGoto, OpTypes, Stopping
    <2>2. UNCHANGED <<agent, pins, up>>
      BY <1>2 DEF AskCancel
    <2>3. \A s \in Sessions : UsersOf(s)' = UsersOf(s) /\ StopsOn(s)' = StopsOn(s)
      BY <2>1, <2>2 DEF UsersOf, StopsOn, Active
    <2> QED  BY <2>2, <2>3, PinsStay
  <1>3. ASSUME NEW o \in Ops, AskAgent(o) PROVE PinsKept'
    <2>1. \A p \in Ops : Stopping(p)' <=> Stopping(p)
      BY <1>3 DEF AskAgent, OpGoto, OpTypes, Stopping, AgentOps, OfKind
    <2>2. UNCHANGED <<agent, pins, up>>
      BY <1>3 DEF AskAgent
    <2>3. \A s \in Sessions : UsersOf(s)' = UsersOf(s) /\ StopsOn(s)' = StopsOn(s)
      BY <2>1, <2>2 DEF UsersOf, StopsOn, Active
    <2> QED  BY <2>2, <2>3, PinsStay
  <1>4. ASSUME NEW o \in Ops, Shutdown(o) PROVE PinsKept'
    <2>1. \A p \in Ops : Stopping(p)' <=> Stopping(p)
      BY <1>4 DEF Shutdown, OpGoto, OpTypes, Stopping
    <2>2. UNCHANGED <<agent, pins, up>>
      BY <1>4 DEF Shutdown
    <2>3. \A s \in Sessions : UsersOf(s)' = UsersOf(s) /\ StopsOn(s)' = StopsOn(s)
      BY <2>1, <2>2 DEF UsersOf, StopsOn, Active
    <2> QED  BY <2>2, <2>3, PinsStay
  <1>5. ASSUME NEW o \in Ops, CancelNext(o) PROVE PinsKept'
    <2>1. \A p \in Ops : Stopping(p)' <=> Stopping(p)
      BY <1>5 DEF CancelNext, OpGoto, OpTypes, Stopping
    <2>2. UNCHANGED <<agent, pins, up>>
      BY <1>5 DEF CancelNext
    <2>3. \A s \in Sessions : UsersOf(s)' = UsersOf(s) /\ StopsOn(s)' = StopsOn(s)
      BY <2>1, <2>2 DEF UsersOf, StopsOn, Active
    <2> QED  BY <2>2, <2>3, PinsStay
  <1>6. ASSUME NEW o \in Ops, DrainNext(o) PROVE PinsKept'
    <2>1. \A p \in Ops : Stopping(p)' <=> Stopping(p)
      BY <1>6 DEF DrainNext, OpGoto, OpTypes, Stopping, OpPlaces
    <2>2. UNCHANGED <<agent, pins, up>>
      BY <1>6 DEF DrainNext
    <2>3. \A s \in Sessions : UsersOf(s)' = UsersOf(s) /\ StopsOn(s)' = StopsOn(s)
      BY <2>1, <2>2 DEF UsersOf, StopsOn, Active
    <2> QED  BY <2>2, <2>3, PinsStay
  <1>7. ASSUME NEW o \in Ops, AwaitWorker(o) PROVE PinsKept'
    <2>1. \A p \in Ops : Stopping(p)' <=> Stopping(p)
      BY <1>7 DEF AwaitWorker, OpGoto, OpTypes, Stopping, Resumes, OpPlaces
    <2>2. UNCHANGED <<agent, pins, up>>
      BY <1>7 DEF AwaitWorker
    <2>3. \A s \in Sessions : UsersOf(s)' = UsersOf(s) /\ StopsOn(s)' = StopsOn(s)
      BY <2>1, <2>2 DEF UsersOf, StopsOn, Active
    <2> QED  BY <2>2, <2>3, PinsStay
  <1>8. ASSUME NEW o \in Ops, FinishUnstarted(o) PROVE PinsKept'
    <2>1. \A p \in Ops : Stopping(p)' <=> Stopping(p)
      BY <1>8 DEF FinishUnstarted, OpGoto, OpTypes, Stopping, Resumes, OpPlaces
    <2>2. UNCHANGED <<agent, pins, up>>
      BY <1>8 DEF FinishUnstarted
    <2>3. \A s \in Sessions : UsersOf(s)' = UsersOf(s) /\ StopsOn(s)' = StopsOn(s)
      BY <2>1, <2>2 DEF UsersOf, StopsOn, Active
    <2> QED  BY <2>2, <2>3, PinsStay
  <1>9. ASSUME NEW o \in Ops, CheckAgent(o) PROVE PinsKept'
    <2>1. \A p \in Ops : Stopping(p)' <=> Stopping(p)
      BY <1>9 DEF CheckAgent, OpGoto, OpTypes, Stopping, OpPlaces
    <2>2. UNCHANGED <<agent, pins, up>>
      BY <1>9 DEF CheckAgent
    <2>3. \A s \in Sessions : UsersOf(s)' = UsersOf(s) /\ StopsOn(s)' = StopsOn(s)
      BY <2>1, <2>2 DEF UsersOf, StopsOn, Active
    <2> QED  BY <2>2, <2>3, PinsStay
  <1>10. ASSUME NEW o \in Ops, ConfigureAgent(o) PROVE PinsKept'
    <2>1. \A p \in Ops : Stopping(p)' <=> Stopping(p)
      BY <1>10 DEF ConfigureAgent, OpGoto, OpTypes, Stopping
    <2>2. \A p \in Ops : Stopping(p) => Target[p] \in Agents /\ agent[Target[p]].status = "stopped"
      BY Targets DEF StoppingStopped, Stopping
    <2>3. UNCHANGED <<pins, up>>
      BY <1>10 DEF ConfigureAgent
    <2>4. \A a \in Agents : agent'[a].status = agent[a].status /\ agent'[a].session = agent[a].session
      BY <1>10, AgentWrites
    <2>5. \A s \in Sessions : UsersOf(s)' = UsersOf(s) /\ StopsOn(s)' = StopsOn(s)
      BY <2>1, <2>2, <2>4 DEF UsersOf, StopsOn, Active
    <2> QED  BY <2>3, <2>5, PinsStay
  <1>11. ASSUME NEW o \in Ops, StartAgent(o) PROVE PinsKept'
    <2>1. \A p \in Ops : Stopping(p)' <=> Stopping(p)
      BY <1>11 DEF StartAgent, OpGoto, OpTypes, Stopping
    <2>2. \A p \in Ops : Stopping(p) => Target[p] \in Agents /\ agent[Target[p]].status = "stopped"
      BY Targets DEF StoppingStopped, Stopping
    <2> DEFINE a == Target[o]
    <2>3. PICK h \in Sessions : h = Home[a]
      BY <1>11, AgentWrites, Targets
    <2>4. /\ a \in Agents /\ \A b \in Agents : b # a => agent'[b] = agent[b]
          /\ agent[a].status = "absent" /\ agent'[a].status = "active"
          /\ agent'[a].session = h
      BY <1>11, <2>3, AgentWrites DEF AbsentAtHome
    <2>5. \A s \in Sessions : StopsOn(s)' = StopsOn(s)
      BY <2>1, <2>2, <2>4 DEF StopsOn
    <2>6. /\ \A s \in Sessions : s # h => UsersOf(s)' = UsersOf(s)
          /\ UsersOf(h)' = UsersOf(h) \cup {a} /\ a \notin UsersOf(h)
      BY <2>4 DEF UsersOf, Active
    <2>7. /\ \A s \in Sessions : Stops'[s] = Stops[s] /\ (s # h => Users'[s] = Users[s])
          /\ Users'[h] = Users[h] + 1
      BY <2>5, <2>6, UsersChange, StopsChange
    <2>8. up' = up /\ pins' = [pins EXCEPT ![h] = @ + 1]
      BY <1>11, <2>3 DEF StartAgent
    <2> QED  BY <2>7, <2>8, UsersNumber DEF PinsKept, PinTypes
  <1>12. ASSUME NEW o \in Ops, MoveAgent(o) PROVE PinsKept'
    <2>1. \A p \in Ops : Stopping(p)' <=> Stopping(p)
      BY <1>12 DEF MoveAgent, OpGoto, OpTypes, Stopping
    <2>2. \A p \in Ops : Stopping(p) => Target[p] \in Agents /\ agent[Target[p]].status = "stopped"
      BY Targets DEF StoppingStopped, Stopping
    <2> DEFINE a == Target[o]
    <2>3. PICK old \in Sessions, new \in Sessions : old = agent[a].session /\ new = Goal[o]
      BY <1>12, AgentWrites, Targets DEF AgentTypes
    <2>4. /\ a \in Agents /\ \A b \in Agents : b # a => agent'[b] = agent[b]
          /\ Active(a) /\ agent'[a].status = "active" /\ agent'[a].session = new
          /\ SessionFree(new)
      BY <1>12, <2>3, AgentWrites
    <2>5. \A s \in Sessions : StopsOn(s)' = StopsOn(s)
      BY <2>1, <2>2, <2>4 DEF StopsOn, Active
    <2>6. old # new
      BY <2>3, <2>4 DEF SessionFree
    <2>7. /\ \A s \in Sessions : s # old /\ s # new => UsersOf(s)' = UsersOf(s)
          /\ UsersOf(new)' = UsersOf(new) \cup {a} /\ a \notin UsersOf(new)
          /\ UsersOf(old)' = UsersOf(old) \ {a} /\ a \in UsersOf(old)
      BY <2>3, <2>4, <2>6 DEF UsersOf, Active
    <2>8. /\ \A s \in Sessions : Stops'[s] = Stops[s]
          /\ \A s \in Sessions : s # old /\ s # new => Users'[s] = Users[s]
          /\ Users'[new] = Users[new] + 1 /\ Users'[old] = Users[old] - 1
      BY <2>5, <2>7, UsersChange, StopsChange
    <2>9. up' = up /\ pins' = [[pins EXCEPT ![new] = @ + 1] EXCEPT ![old] = @ - 1]
      BY <1>12, <2>3 DEF MoveAgent, SwapPins
    <2> QED  BY <2>6, <2>8, <2>9, UsersNumber DEF PinsKept, PinTypes
  <1>13. ASSUME NEW o \in Ops, StopAgent(o) PROVE PinsKept'
    <2> DEFINE a == Target[o]
    <2>1. PICK h \in Sessions : h = agent[a].session
      BY <1>13, AgentWrites DEF AgentTypes
    <2>2. /\ a \in Agents /\ \A b \in Agents : b # a => agent'[b] = agent[b]
          /\ Active(a) /\ agent'[a].status = "stopped" /\ agent'[a].session = h
      BY <1>13, <2>1, AgentWrites
    <2>3. \A p \in Ops : Stopping(p) => Target[p] \in Agents /\ agent[Target[p]].status = "stopped"
      BY Targets DEF StoppingStopped, Stopping
    <2>4. ~Stopping(o) /\ Stopping(o)' /\ \A p \in Ops : p # o => (Stopping(p)' <=> Stopping(p))
      BY <1>13 DEF StopAgent, OpGoto, OpTypes, Stopping
    <2>5. /\ \A s \in Sessions : s # h => UsersOf(s)' = UsersOf(s)
          /\ UsersOf(h)' = UsersOf(h) \ {a} /\ a \in UsersOf(h)
      BY <2>1, <2>2 DEF UsersOf, Active
    <2>6. /\ \A s \in Sessions : s # h => StopsOn(s)' = StopsOn(s)
          /\ StopsOn(h)' = StopsOn(h) \cup {o} /\ o \notin StopsOn(h)
      BY <2>2, <2>3, <2>4 DEF StopsOn, Active
    <2>7. /\ \A s \in Sessions : s # h => Users'[s] = Users[s] /\ Stops'[s] = Stops[s]
          /\ Users'[h] = Users[h] - 1 /\ Stops'[h] = Stops[h] + 1
      BY <2>5, <2>6, UsersChange, StopsChange
    <2>8. UNCHANGED <<up, pins>>
      BY <1>13 DEF StopAgent
    <2>9. ASSUME NEW s \in Sessions PROVE Users'[s] + Stops'[s] = Users[s] + Stops[s]
      <3>1. CASE s = h
        BY <2>7, <3>1, UsersNumber
      <3>2. CASE s # h
        BY <2>7, <3>2
      <3> QED  BY <3>1, <3>2
    <2> QED  BY <2>8, <2>9 DEF PinsKept
  <1>14. ASSUME NEW o \in Ops, FinishOp(o) PROVE PinsKept'
    <2>1. CASE OpKind[o] # "stop"
      <3>1. \A p \in Ops : Stopping(p)' <=> Stopping(p)
        BY <1>14, <2>1 DEF FinishOp, OpGoto, OpTypes, Stopping
      <3>2. UNCHANGED <<agent, pins, up>>
        BY <1>14, <2>1 DEF FinishOp
      <3>3. \A s \in Sessions : UsersOf(s)' = UsersOf(s) /\ StopsOn(s)' = StopsOn(s)
        BY <3>1, <3>2 DEF UsersOf, StopsOn, Active
      <3> QED  BY <3>2, <3>3, PinsStay
    <2>2. CASE OpKind[o] = "stop"
      <3>1. PICK h \in Sessions : h = agent[Target[o]].session
        BY <2>2, Targets DEF AgentTypes
      <3>2. Stopping(o) /\ ~Stopping(o)' /\ \A p \in Ops : p # o => (Stopping(p)' <=> Stopping(p))
        BY <1>14, <2>2 DEF FinishOp, OpGoto, OpTypes, Stopping, OpPlaces
      <3>3. UNCHANGED <<agent, up>> /\ pins' = [pins EXCEPT ![h] = @ - 1]
        BY <1>14, <2>2, <3>1 DEF FinishOp
      <3>4. \A s \in Sessions : UsersOf(s)' = UsersOf(s)
        BY <3>3 DEF UsersOf, Active
      <3>5. /\ \A s \in Sessions : s # h => StopsOn(s)' = StopsOn(s)
            /\ StopsOn(h)' = StopsOn(h) \ {o} /\ o \in StopsOn(h)
        BY <3>1, <3>2, <3>3 DEF StopsOn
      <3>6. /\ \A s \in Sessions : Users'[s] = Users[s] /\ (s # h => Stops'[s] = Stops[s])
            /\ Stops'[h] = Stops[h] - 1
        BY <3>4, <3>5, UsersChange, StopsChange
      <3> QED  BY <3>3, <3>6, UsersNumber DEF PinsKept, PinTypes
    <2> QED  BY <2>1, <2>2
  <1>15. ASSUME Crash PROVE PinsKept'

    BY <1>15 DEF Crash, PinsKept
  <1>16. ASSUME Restart PROVE PinsKept'
    <2>1. (\A s \in Sessions : pins'[s] = Users[s]) /\ UNCHANGED <<agent, opc>>
      BY <1>16 DEF Restart, Users, UsersOf, opVars
    <2>2. \A s \in Sessions : UsersOf(s)' = UsersOf(s)
      BY <2>1 DEF UsersOf, Active
    <2>3. \A s \in Sessions : StopsOn(s)' = {}
      BY <1>16, <2>1 DEF Restart, NothingWhenDown, StopsOn, Stopping
    <2>4. \A s \in Sessions : Users'[s] = Users[s] /\ Stops'[s] = 0
      BY <2>2, <2>3, UsersChange, FS_EmptySet DEF Stops
    <2> QED  BY <2>1, <2>4, UsersNumber DEF PinsKept
  <1>17. ASSUME NEW j \in Jobs, AskTask(j) \/ AskMessage(j) \/ AcceptMessage(j)
            \/ CreateRecord(j) \/ Submit(j) \/ LoseCaller(j) \/ BeginWork(j)
            \/ QueueForSlot(j) \/ TakeSlot(j) \/ ReadAgent(j) \/ CommitStart(j)
            \/ StartTurn(j) \/ MissStart(j) \/ EndTurn(j) \/ CommitEnd(j)
            \/ FinishWork(j) \/ Killed(j) \/ FailWrite(j)
       PROVE  UNCHANGED <<up, pins, agent, opc>>
    BY <1>17 DEF AskTask, opVars, AskMessage, AcceptMessage, CreateRecord, Submit,
        LoseCaller, BeginWork, QueueForSlot, TakeSlot, ReadAgent, CommitStart, StartTurn,
        MissStart, EndTurn, CommitEnd, FinishWork, Killed, FailWrite
  <1>18. ASSUME OtherStarts PROVE UNCHANGED <<up, pins, agent, opc>>
    BY <1>18 DEF OtherStarts, opVars
  <1> QED  BY <1>1, <1>2, <1>3, <1>4, <1>5, <1>6, <1>7, <1>8, <1>9, <1>10, <1>11, <1>12,
       <1>13, <1>14, <1>15, <1>16, <1>17, <1>18
    DEF Next, CallerStep, WorkerStep, OpArrives, OpStep

(* pins keeps its type.                                                    *)
LEMMA PinTypesStep ==
    ASSUME PinTypes, AgentTypes, Next
    PROVE  PinTypes'
  <1>1. CASE UNCHANGED pins
    BY <1>1 DEF PinTypes
  <1>2. ASSUME NEW o \in Ops, FinishOp(o) PROVE PinTypes'
    <2>1. pins' = pins \/ pins' = [pins EXCEPT ![agent[Target[o]].session] = @ - 1]
      BY <1>2 DEF FinishOp
    <2> QED  BY <2>1 DEF PinTypes
  <1>3. ASSUME NEW o \in Ops, StartAgent(o) PROVE PinTypes'
    <2>1. PICK h \in Sessions : pins' = [pins EXCEPT ![h] = @ + 1]
      BY <1>3, Targets DEF StartAgent
    <2>2. pins[h] + 1 \in Int
      BY DEF PinTypes
    <2> QED  BY <2>1, <2>2 DEF PinTypes
  <1>4. ASSUME NEW o \in Ops, MoveAgent(o) PROVE PinTypes'
    <2>1. PICK old \in Sessions, new \in Sessions :
             pins' = [[pins EXCEPT ![new] = @ + 1] EXCEPT ![old] = @ - 1]
      BY <1>4, Targets DEF MoveAgent, SwapPins, AgentTypes
    <2>2. pins[new] + 1 \in Int /\ pins[old] - 1 \in Int /\ pins[new] + 1 - 1 \in Int
      BY DEF PinTypes
    <2>3. [pins EXCEPT ![new] = @ + 1] \in [Sessions -> Int]
      BY <2>2 DEF PinTypes
    <2> QED  BY <2>1, <2>2, <2>3 DEF PinTypes
  <1>5. ASSUME Crash PROVE PinTypes'

    BY <1>5 DEF Crash, PinTypes
  <1>6. ASSUME Restart PROVE PinTypes'
    <2>1. pins' = [s \in Sessions |-> Cardinality(UsersOf(s))]
      BY <1>6 DEF Restart, UsersOf
    <2> QED  BY <2>1, UsersCounted DEF PinTypes
  <1>7. ASSUME NEW j \in Jobs, AskTask(j) \/ AskMessage(j) \/ AcceptMessage(j)
            \/ CreateRecord(j) \/ Submit(j) \/ LoseCaller(j) \/ BeginWork(j)
            \/ QueueForSlot(j) \/ TakeSlot(j) \/ ReadAgent(j) \/ CommitStart(j)
            \/ StartTurn(j) \/ MissStart(j) \/ EndTurn(j) \/ CommitEnd(j)
            \/ FinishWork(j) \/ Killed(j) \/ FailWrite(j)
       PROVE  UNCHANGED pins
    BY <1>7 DEF AskTask, AskMessage, AcceptMessage, CreateRecord, Submit, LoseCaller,
        BeginWork, QueueForSlot, TakeSlot, ReadAgent, CommitStart, StartTurn, MissStart,
        EndTurn, CommitEnd, FinishWork, Killed, FailWrite
  <1>8. ASSUME NEW o \in Ops, AskCancel(o) \/ AskAgent(o) \/ Shutdown(o)
            \/ CancelNext(o) \/ DrainNext(o) \/ AwaitWorker(o) \/ FinishUnstarted(o)
            \/ CheckAgent(o) \/ ConfigureAgent(o) \/ StopAgent(o)
       PROVE  UNCHANGED pins
    BY <1>8 DEF AskCancel, AskAgent, Shutdown, CancelNext, DrainNext, AwaitWorker,
        FinishUnstarted, CheckAgent, ConfigureAgent, StopAgent
  <1>9. ASSUME OtherStarts PROVE UNCHANGED pins
    BY <1>9 DEF OtherStarts
  <1> QED  BY <1>1, <1>2, <1>3, <1>4, <1>5, <1>6, <1>7, <1>8, <1>9
    DEF Next, CallerStep, WorkerStep, OpArrives, OpStep

(* The parts of the invariant that say so.                                 *)
LEMMA AgentsAreObeyed ==
    ASSUME PlaceTypes, AgentTypes, Admitted, Silenced, SessionsApart, PinsKept
    PROVE  AgentsObeyed
  <1>1. StoppedAgentsAreSilent
    <2> SUFFICES ASSUME NEW a \in Agents, agent[a].status = "stopped",
                        \A o \in Ops : Target[o] = a => ~Stopping(o),
                        NEW j \in Messages, AgentOf[j] = a
                 PROVE  pc[j] \in {"idle", "ask", "refused", "over", "ending", "ended", "lapsed"}
      BY DEF StoppedAgentsAreSilent
    <2>1. pc[j] \notin Startable
      BY DEF Silenced, BeingStopped
    <2>2. pc[j] \notin GatePlaces
      BY DEF Admitted, Active
    <2>3. pc[j] \in Places
      BY Names DEF PlaceTypes
    <2> QED  BY <2>1, <2>2, <2>3 DEF Startable, GatePlaces, Places, Workers, SlotPlaces,
        Callers
  <1>2. StartsAsItsAgentIs
    BY DEF Admitted, StartsAsItsAgentIs, GatePlaces
  <1>3. SessionsBelong
    BY DEF SessionsApart, PinsKept, SessionsBelong, Users, Stops, UsersOf, StopsOn
  <1> QED  BY <1>1, <1>2, <1>3 DEF AgentsObeyed

(***************************************************************************)
(* The inductive invariant.                                                *)
(***************************************************************************)
TypesKept ==
    /\ OpTypes /\ PlaceTypes /\ SetTypes /\ TodoTypes /\ VictimTypes
    /\ SlotTypes /\ ReadyTypes /\ BornTypes /\ GateTypes /\ OrderTypes
    /\ RecordTypes /\ VerdictTypes /\ BoundTypes /\ AgentTypes /\ CountTypes
    /\ PinTypes
PlacesKept ==
    /\ OpPlaces /\ MessagePlaces /\ NothingWhenDown
WorkKept ==
    /\ RecordsKept /\ TrackedWork /\ WorkTracked /\ KilledWork
    /\ KilledAwaited /\ TrackedAwaited /\ RoomKept /\ SlotsHeld
LinesKept ==
    /\ GateHeld /\ ReadyLine /\ OrderLines /\ FrontHeld /\ BornLine
    /\ InTurn
AgentsKept ==
    /\ Admitted /\ ChecksHold /\ AbsentAtHome /\ StoppingStopped /\ Silenced
    /\ SessionsApart /\ PinsKept
SInv == TypesKept /\ PlacesKept /\ WorkKept /\ LinesKept /\ AgentsKept

(* Every part holds at the start.                                          *)
LEMMA Starts == Init => SInv
  <1> SUFFICES ASSUME Init PROVE SInv
    OBVIOUS
  <1>1. OpTypes
    BY DEF Init, OpTypes
  <1>2. PlaceTypes
    BY DEF Init, PlaceTypes, Places
  <1>3. SetTypes
    BY DEF Init, SetTypes
  <1>4. TodoTypes
    BY DEF Init, TodoTypes
  <1>5. VictimTypes
    BY DEF Init, VictimTypes
  <1>6. SlotTypes
    BY DEF Init, SlotTypes
  <1>7. ReadyTypes
    BY DEF Init, ReadyTypes
  <1>8. BornTypes
    BY DEF Init, BornTypes
  <1>9. GateTypes
    BY DEF Init, GateTypes
  <1>10. OrderTypes
    BY DEF Init, OrderTypes
  <1>11. RecordTypes
    BY DEF Init, RecordTypes, Statuses
  <1>12. VerdictTypes
    BY DEF Init, VerdictTypes
  <1>13. BoundTypes
    BY DEF Init, BoundTypes, Unbound
  <1>14. AgentTypes
    BY OpsAssumption DEF Init, AgentTypes
  <1>15. CountTypes
    BY DEF Init, CountTypes
  <1>16. PinTypes
    <2>1. pins = [s \in Sessions |-> Cardinality(UsersOf(s))]
      BY DEF Init, UsersOf, Active
    <2> QED  BY <2>1, UsersCounted DEF PinTypes
  <1>17. OpPlaces
    BY DEF Init, OpPlaces
  <1>18. MessagePlaces
    BY DEF Init, MessagePlaces
  <1>19. NothingWhenDown
    BY DEF Init, NothingWhenDown
  <1>20. RecordsKept
    BY DEF Init, RecordsKept, Ends
  <1>21. TrackedWork
    BY DEF Init, TrackedWork
  <1>22. WorkTracked
    BY DEF Init, WorkTracked, Workers, SlotPlaces
  <1>23. KilledWork
    BY DEF Init, KilledWork
  <1>24. KilledAwaited
    BY DEF Init, KilledAwaited
  <1>25. TrackedAwaited
    BY DEF Init, TrackedAwaited
  <1>26. RoomKept
    <2>1. tracked = {} /\ Reserving = {} /\ reserved = 0
      BY DEF Init, Reserving
    <2> QED  BY <2>1, FS_EmptySet, LimitsAssumption DEF RoomKept
  <1>27. SlotsHeld
    BY DEF Init, SlotsHeld, SlotPlaces
  <1>28. GateHeld
    BY Names DEF Init, GateHeld, GatePlaces
  <1>29. ReadyLine
    BY DEF Init, ReadyLine, Once, Stands
  <1>30. OrderLines
    BY DEF Init, OrderLines, Once, Stands, SlotPlaces
  <1>31. FrontHeld
    BY DEF Init, FrontHeld, SlotPlaces
  <1>32. BornLine
    BY DEF Init, BornLine, Once, Stands
  <1>33. InTurn
    BY DEF Init, InTurn, Earlier
  <1>34. Admitted
    BY Names DEF Init, Admitted, GatePlaces
  <1>35. ChecksHold
    BY DEF Init, ChecksHold
  <1>36. AbsentAtHome
    BY DEF Init, AbsentAtHome
  <1>37. StoppingStopped
    BY DEF Init, StoppingStopped, Stopping
  <1>38. Silenced
    BY Names DEF Init, Silenced, Startable, SlotPlaces
  <1>39. SessionsApart
    BY AgentsAssumption, OpsAssumption DEF Init, SessionsApart, Active
  <1>40. PinsKept
    <2>1. \A s \in Sessions : pins[s] = Users[s]
      BY DEF Init, Users, UsersOf, Active
    <2>2. \A s \in Sessions : StopsOn(s) = {}
      BY DEF Init, StopsOn, Stopping
    <2>3. \A s \in Sessions : Stops[s] = 0
      BY <2>2, FS_EmptySet DEF Stops
    <2> QED  BY <2>1, <2>3, UsersNumber DEF PinsKept
  <1> QED  BY <1>1, <1>2, <1>3, <1>4, <1>5, <1>6, <1>7, <1>8, <1>9, <1>10, <1>11, <1>12,
       <1>13, <1>14, <1>15, <1>16, <1>17, <1>18, <1>19, <1>20, <1>21, <1>22, <1>23, <1>24,
       <1>25, <1>26, <1>27, <1>28, <1>29, <1>30, <1>31, <1>32, <1>33, <1>34, <1>35, <1>36,
       <1>37, <1>38, <1>39, <1>40
    DEF SInv, TypesKept, PlacesKept, WorkKept, LinesKept, AgentsKept

(* Every part is preserved by every step.                                  *)
LEMMA Steps ==
    ASSUME SInv, Next
    PROVE  SInv'
  <1>1. TypesKept'
    <2>1. OpTypes'
      BY OpTypesStep DEF SInv, TypesKept
    <2>2. PlaceTypes'
      BY PlaceTypesStep DEF SInv, TypesKept
    <2>3. SetTypes'
      BY SetTypesStep DEF SInv, TypesKept, PlacesKept
    <2>4. TodoTypes'
      BY TodoTypesStep DEF SInv, TypesKept
    <2>5. VictimTypes'
      BY VictimTypesStep DEF SInv, TypesKept
    <2>6. SlotTypes'
      BY SlotTypesStep DEF SInv, TypesKept
    <2>7. ReadyTypes'
      BY ReadyTypesStep DEF SInv, TypesKept
    <2>8. BornTypes'
      BY BornTypesStep DEF SInv, TypesKept
    <2>9. GateTypes'
      BY GateTypesStep DEF SInv, TypesKept
    <2>10. OrderTypes'
      BY OrderTypesStep DEF SInv, TypesKept
    <2>11. RecordTypes'
      BY RecordTypesStep DEF SInv, TypesKept, PlacesKept, WorkKept
    <2>12. VerdictTypes'
      BY VerdictTypesStep DEF SInv, TypesKept
    <2>13. BoundTypes'
      BY BoundTypesStep DEF SInv, TypesKept, PlacesKept
    <2>14. AgentTypes'
      BY AgentTypesStep DEF SInv, TypesKept, PlacesKept
    <2>15. CountTypes'
      BY CountTypesStep DEF SInv, TypesKept
    <2>16. PinTypes'
      BY PinTypesStep DEF SInv, TypesKept
    <2> QED  BY <2>1, <2>2, <2>3, <2>4, <2>5, <2>6, <2>7, <2>8, <2>9, <2>10, <2>11, <2>12,
         <2>13, <2>14, <2>15, <2>16 DEF TypesKept
  <1>2. PlacesKept'
    <2>1. OpPlaces'
      BY OpPlacesStep DEF SInv, TypesKept, PlacesKept
    <2>2. MessagePlaces'
      BY MessagePlacesStep DEF SInv, TypesKept, PlacesKept
    <2>3. NothingWhenDown'
      BY NothingWhenDownStep DEF SInv, TypesKept, PlacesKept
    <2> QED  BY <2>1, <2>2, <2>3 DEF PlacesKept
  <1>3. WorkKept'
    <2>1. RecordsKept'
      BY RecordsKeptStep DEF SInv, TypesKept, PlacesKept, WorkKept
    <2>2. TrackedWork'
      BY TrackedWorkStep DEF SInv, TypesKept, WorkKept
    <2>3. WorkTracked'
      BY WorkTrackedStep DEF SInv, TypesKept, WorkKept
    <2>4. KilledWork'
      BY KilledWorkStep DEF SInv, TypesKept, WorkKept
    <2>5. KilledAwaited'
      BY KilledAwaitedStep DEF SInv, TypesKept, PlacesKept, WorkKept
    <2>6. TrackedAwaited'
      BY TrackedAwaitedStep DEF SInv, TypesKept, PlacesKept, WorkKept
    <2>7. RoomKept'
      BY RoomKeptStep DEF SInv, TypesKept, WorkKept
    <2>8. SlotsHeld'
      BY SlotsHeldStep DEF SInv, TypesKept, WorkKept
    <2> QED  BY <2>1, <2>2, <2>3, <2>4, <2>5, <2>6, <2>7, <2>8 DEF WorkKept
  <1>4. LinesKept'
    <2>1. GateHeld'
      BY GateHeldStep DEF SInv, TypesKept, LinesKept
    <2>2. ReadyLine'
      BY ReadyLineStep DEF SInv, TypesKept, LinesKept
    <2>3. OrderLines'
      BY OrderLinesStep DEF SInv, TypesKept, LinesKept
    <2>4. FrontHeld'
      BY FrontHeldStep DEF SInv, TypesKept, LinesKept
    <2>5. BornLine'
      BY BornLineStep DEF SInv, TypesKept, LinesKept
    <2>6. InTurn'
      BY InTurnStep DEF SInv, TypesKept, LinesKept
    <2> QED  BY <2>1, <2>2, <2>3, <2>4, <2>5, <2>6 DEF LinesKept
  <1>5. AgentsKept'
    <2>1. Admitted'
      BY AdmittedStep DEF SInv, TypesKept, PlacesKept, LinesKept, AgentsKept
    <2>2. ChecksHold'
      BY ChecksHoldStep DEF SInv, TypesKept, LinesKept, AgentsKept
    <2>3. AbsentAtHome'
      BY AbsentAtHomeStep DEF SInv, TypesKept, AgentsKept
    <2>4. StoppingStopped'
      BY StoppingStoppedStep DEF SInv, TypesKept, PlacesKept, AgentsKept
    <2>5. Silenced'
      BY SilencedStep DEF SInv, TypesKept, PlacesKept, WorkKept, AgentsKept
    <2>6. SessionsApart'
      BY SessionsApartStep DEF SInv, TypesKept, AgentsKept
    <2>7. PinsKept'
      BY PinsKeptStep DEF SInv, TypesKept, PlacesKept, AgentsKept
    <2> QED  BY <2>1, <2>2, <2>3, <2>4, <2>5, <2>6, <2>7 DEF AgentsKept
  <1> QED  BY <1>1, <1>2, <1>3, <1>4, <1>5 DEF SInv

(* Every part is preserved when nothing changes.                           *)
LEMMA Stutters ==
    ASSUME SInv, UNCHANGED vars
    PROVE  SInv'
  <1> USE DEF vars, recordVars, runnerVars, lineVars, waitVars, workerVars, opVars,
      faultVars
  <1>1. TypesKept'
    BY DEF SInv, TypesKept, OpTypes, PlaceTypes, SetTypes, TodoTypes, VictimTypes,
        SlotTypes, ReadyTypes, BornTypes, GateTypes, OrderTypes, RecordTypes,
        VerdictTypes, BoundTypes, AgentTypes, CountTypes, PinTypes
  <1>2. PlacesKept'
    <2>1. OpPlaces'
      BY DEF SInv, PlacesKept, OpPlaces
    <2>2. MessagePlaces'
      BY DEF SInv, PlacesKept, MessagePlaces
    <2>3. NothingWhenDown'
      BY DEF SInv, PlacesKept, NothingWhenDown
    <2> QED  BY <2>1, <2>2, <2>3 DEF PlacesKept
  <1>3. WorkKept'
    <2>1. RecordsKept'
      BY DEF SInv, WorkKept, RecordsKept
    <2>2. TrackedWork'
      BY DEF SInv, WorkKept, TrackedWork
    <2>3. WorkTracked'
      BY DEF SInv, WorkKept, WorkTracked
    <2>4. KilledWork'
      BY DEF SInv, WorkKept, KilledWork
    <2>5. KilledAwaited'
      BY DEF SInv, WorkKept, KilledAwaited, Awaited
    <2>6. TrackedAwaited'
      BY DEF SInv, WorkKept, TrackedAwaited, Awaited
    <2>7. RoomKept'
      BY DEF SInv, WorkKept, RoomKept, Reserving
    <2>8. SlotsHeld'
      BY DEF SInv, WorkKept, SlotsHeld
    <2> QED  BY <2>1, <2>2, <2>3, <2>4, <2>5, <2>6, <2>7, <2>8 DEF WorkKept
  <1>4. LinesKept'
    <2>1. GateHeld'
      BY DEF SInv, LinesKept, GateHeld
    <2>2. ReadyLine'
      BY DEF SInv, LinesKept, ReadyLine
    <2>3. OrderLines'
      BY DEF SInv, LinesKept, OrderLines
    <2>4. FrontHeld'
      BY DEF SInv, LinesKept, FrontHeld
    <2>5. BornLine'
      BY DEF SInv, LinesKept, BornLine
    <2>6. InTurn'
      BY DEF SInv, LinesKept, InTurn, Earlier
    <2> QED  BY <2>1, <2>2, <2>3, <2>4, <2>5, <2>6 DEF LinesKept
  <1>5. AgentsKept'
    <2>1. Admitted'
      BY DEF SInv, AgentsKept, Admitted, Active, Bound
    <2>2. ChecksHold'
      BY DEF SInv, AgentsKept, ChecksHold, MayAct, Active, SessionFree, IdentityFree
    <2>3. AbsentAtHome'
      BY DEF SInv, AgentsKept, AbsentAtHome
    <2>4. StoppingStopped'
      BY DEF SInv, AgentsKept, StoppingStopped, Stopping
    <2>5. Silenced'
      BY DEF SInv, AgentsKept, Silenced, BeingStopped, Stopping
    <2>6. SessionsApart'
      BY DEF SInv, AgentsKept, SessionsApart, Active
    <2>7. PinsKept'
      BY DEF SInv, AgentsKept, PinsKept, Users, UsersOf, Active, Stops, StopsOn, Stopping
    <2> QED  BY <2>1, <2>2, <2>3, <2>4, <2>5, <2>6, <2>7 DEF AgentsKept
  <1> QED  BY <1>1, <1>2, <1>3, <1>4, <1>5 DEF SInv

(* The invariant holds in every reachable state: what the runner, its      *)
(* lines, the records and the agents know of each other always agrees.     *)
THEOREM Invariance == Spec => []SInv
  <1>1. SInv /\ [Next]_vars => SInv'
    BY Steps, Stutters
  <1> QED  BY Starts, <1>1, PTL DEF Spec

(* Every variable keeps its type.                                          *)
THEOREM TypeCorrect == Spec => []TypeOK
  <1>1. SInv => TypeOK
    <2> SUFFICES ASSUME SInv PROVE TypeOK
      OBVIOUS
    <2>1. IsFiniteSet(Reserving) /\ reserved = Cardinality(Reserving)
      BY DEF SInv, WorkKept, RoomKept
    <2>2. reserved \in Nat
      BY <2>1, FS_CardinalityType
    <2>3. TypesKept
      BY DEF SInv
    <2>4. /\ RecordTypes /\ AgentTypes /\ SetTypes /\ SlotTypes /\ ReadyTypes /\ BornTypes
          /\ GateTypes /\ OrderTypes /\ PlaceTypes /\ BoundTypes /\ OpTypes /\ TodoTypes
          /\ VictimTypes /\ PinTypes /\ CountTypes /\ VerdictTypes
      BY <2>3 DEF TypesKept
    <2> QED  BY <2>2, <2>4 DEF TypeOK, RecordTypes, AgentTypes, SetTypes, SlotTypes,
                ReadyTypes, BornTypes, GateTypes, OrderTypes, PlaceTypes, BoundTypes,
                OpTypes, TodoTypes, VictimTypes, PinTypes, CountTypes, VerdictTypes
  <1> QED  BY <1>1, Invariance, PTL

(* The records of background work live as TaskLife promises, for any       *)
(* number of jobs, requests, crashes and other runtimes: each is queued    *)
(* once, ends at most once, keeps its end, and the end is told at most     *)
(* once and as recorded (app/tasks/_store.py, update(only_from=...),       *)
(* _runner.py, _finish).                                                   *)
THEOREM PromiseKept == Spec => KeepsItsPromise
  <1>1. Init => Life!Init
    BY DEF Init, Life!Init
  <1>2. SInv /\ [Next]_vars => [Life!Next]_(Life!vars)
    <2>1. ASSUME SInv, Next PROVE [Life!Next]_(Life!vars)
      BY <2>1, StepIsPromised DEF SInv, TypesKept, PlacesKept, WorkKept
    <2>2. ASSUME UNCHANGED vars PROVE [Life!Next]_(Life!vars)
      BY <2>2 DEF vars, recordVars, Life!vars
    <2> QED  BY <2>1, <2>2
  <1> QED  BY <1>1, <1>2, Invariance, PTL DEF Spec, KeepsItsPromise, Life!Spec

(* At most max_concurrent turns at once, at most max_waiting queued,       *)
(* running and being created, and no place is lost (_runner.py, reserve,   *)
(* submit, execute).                                                       *)
THEOREM CapacityIsKept == Spec => []CapacityKept
  <1>1. SInv => CapacityKept
    <2> SUFFICES ASSUME SInv PROVE CapacityKept
      OBVIOUS
    <2>1. SlotTypes /\ SlotsHeld /\ RoomKept /\ TrackedAwaited
      BY DEF SInv, TypesKept, WorkKept
    <2>2. Cardinality({j \in Jobs : pc[j] \in SlotPlaces}) <= MaxConcurrent
      BY <2>1, SlotsBoundTurns
    <2> QED  BY <2>1, <2>2 DEF CapacityKept, RoomKept, TrackedAwaited, Awaited
  <1> QED  BY <1>1, Invariance, PTL

(* Work of one key runs one at a time, and the messages of an agent in the *)
(* order of their records, however workers are entered and cancelled       *)
(* (_runner.py, _in_order).                                                *)
THEOREM TurnsRunInOrder == Spec => []TurnsInOrder
  <1>1. SInv => TurnsInOrder
    BY TurnsAreInOrder DEF SInv, TypesKept, LinesKept
  <1> QED  BY <1>1, Invariance, PTL

(* A stop silences its agent, work starts as the agent is by then, and no  *)
(* two active agents share a session or an identity, whose pins are exact  *)
(* (interface.py, start_agent to stop_agent).                              *)
THEOREM OwnersAreObeyed == Spec => []AgentsObeyed
  <1>1. SInv => AgentsObeyed
    BY AgentsAreObeyed DEF SInv, TypesKept, AgentsKept
  <1> QED  BY <1>1, Invariance, PTL
=============================================================================
