-------------------------- MODULE AgUiRunsProofs ---------------------------
(***************************************************************************)
(* What AgUiRuns promises holds for any number of runs, calls and native   *)
(* events: a stream has the events of one request and ends with the error, *)
(* no result is recorded twice, the model resumes only with the results of *)
(* all it asked for, and it calls only what the run declared.              *)
(*                                                                         *)
(* Both follow from one inductive invariant, AgUiInv.  Its hard part is    *)
(* that a resent run answers a batch which later runs may have replaced:   *)
(* Answers says whose requests a run holds, and IsBatch and IsRecord how   *)
(* the pending calls, the last batch and the recorded results lie in the   *)
(* order of the calls.                                                     *)
(***************************************************************************)
EXTENDS AgUiRuns, SequenceTheorems, TLAPS

-----------------------------------------------------------------------------
(* Types of the state.                                                     *)

Busy == {"planning", "model", "cancelling"}
Request == [kind : {"message", "result"}, call : Nat]
Item == {Native(k) : k \in Nat} \union {Error, Done}
Run == [tools : BOOLEAN, requests : Seq(Request), next : Nat \ {0},
        pc : Busy \union {"ready", "over"}, events : Nat, queue : Seq(Item),
        shown : Seq(Item), open : BOOLEAN, made : SUBSET Nat, failed : Nat]
Session == [pending : Seq(Nat), batch : Seq(Nat), recorded : Seq(Nat), calls : Nat,
            host : BOOLEAN, turn : Nat]
AgUiTypes == run \in Seq(Run) /\ session \in Session

(* Where the requests of a run stand.                                      *)
InOrder(q) ==
    /\ q.pc \in Busy => q.next <= Len(q.requests)
    /\ q.pc = "model" => q.next = Len(q.requests)
    /\ q.failed # 0 => q.pc = "over" /\ q.next = q.failed

(* What a run has to stream and has streamed.                              *)
InStream(q) ==
    /\ \A i \in DOMAIN q.queue :
         IF q.queue[i].kind = "event" THEN q.queue[i].of = Len(q.requests) ELSE q.pc = "over"
    /\ \A i \in DOMAIN q.shown :
         /\ i < Len(q.shown) \/ q.open => q.shown[i].kind = "event"
         /\ q.shown[i].kind = "event" => q.shown[i].of = Len(q.requests)
    /\ ~q.open => q.pc \in {"over", "cancelling"}

RunKept(q) == InOrder(q) /\ InStream(q) /\ (q.made # {} => q.tools)

(* A run answers with the batch of the last response, or with an older one. *)
Answers(q, batch) ==
    \/ q.requests = <<UserMessage>>
    \/ q.requests = RunRequests(batch)
    \/ /\ batch # <<>>
       /\ \A i \in DOMAIN q.requests, j \in DOMAIN batch :
            q.requests[i].kind = "result" /\ q.requests[i].call < batch[j]

(* The pending calls are the end of the batch; those before have a result. *)
IsBatch(pending, batch, calls) ==
    /\ \A i, j \in 1..Len(batch) : i < j => batch[i] < batch[j]
    /\ \A i \in 1..Len(batch) : batch[i] <= calls
    /\ Len(pending) <= Len(batch)
    /\ \A i \in 1..Len(pending) : pending[i] = batch[Len(batch) - Len(pending) + i]
IsRecord(pending, batch, recorded, calls) ==
    /\ \A i, j \in 1..Len(recorded) : recorded[i] = recorded[j] => i = j
    /\ \A i \in 1..Len(recorded) : recorded[i] <= calls
    /\ \A i \in 1..Len(recorded), j \in 1..Len(pending) : recorded[i] # pending[j]
    /\ \A i \in 1..(Len(batch) - Len(pending)) :
         \E j \in 1..Len(recorded) : recorded[j] = batch[i]
CallsKept(s) ==
    /\ IsBatch(s.pending, s.batch, s.calls)
    /\ IsRecord(s.pending, s.batch, s.recorded, s.calls)

TurnKept ==
    /\ session.turn # NoRun => session.turn \in Runs /\ run[session.turn].pc \in Busy
    /\ \A r \in Runs : run[r].pc \in Busy => session.turn = r
    /\ \A r \in Runs : run[r].pc = "model" =>
         session.pending = <<>> /\ session.host = run[r].tools

RunsKept == \A r \in Runs : RunKept(run[r]) /\ Answers(run[r], session.batch)

AgUiInv == AgUiTypes /\ CallsKept(session) /\ TurnKept /\ RunsKept

-----------------------------------------------------------------------------

LEMMA SessionFields ==
    ASSUME AgUiTypes
    PROVE  /\ session.pending \in Seq(Nat) /\ session.batch \in Seq(Nat)
           /\ session.recorded \in Seq(Nat) /\ session.calls \in Nat
           /\ session.host \in BOOLEAN /\ session.turn \in Nat
  BY DEF AgUiTypes, Session

LEMMA InvImpliesHold ==
    ASSUME AgUiInv
    PROVE  AgUiRunsHold
  <1>1. StreamIsTheRuns
    BY DEF AgUiInv, RunsKept, RunKept, InOrder, InStream, StreamIsTheRuns
  <1>2. ASSUME NEW r \in Runs, run[r].pc = "model"
        PROVE  /\ session.pending = <<>>
               /\ \A i \in DOMAIN session.batch :
                     \E j \in DOMAIN session.recorded : session.recorded[j] = session.batch[i]
    <2>1. session.pending = <<>> /\ session.batch \in Seq(Nat)
      BY <1>2 DEF AgUiInv, TurnKept, AgUiTypes, Session
    <2>2. DOMAIN session.batch = 1..(Len(session.batch) - Len(session.pending))
      BY <2>1
    <2> QED  BY <2>1, <2>2, SessionFields DEF AgUiInv, CallsKept, IsRecord
  <1>3. CallsAreTheRuns
    <2>1. DOMAIN session.recorded = 1..Len(session.recorded)
      BY SessionFields DEF AgUiInv
    <2> QED  BY <1>2, <2>1 DEF AgUiInv, CallsKept, IsRecord, RunsKept, RunKept, CallsAreTheRuns
  <1> QED  BY <1>1, <1>3 DEF AgUiRunsHold

LEMMA InitInv ==
    ASSUME AgUiInit
    PROVE  AgUiInv
  <1>1. /\ run = <<>> /\ session \in Session
        /\ session.pending = <<>> /\ session.batch = <<>> /\ session.recorded = <<>>
        /\ session.turn = NoRun
    BY DEF AgUiInit, Session, NoRun
  <1>2. Runs = {} /\ AgUiTypes
    BY <1>1 DEF Runs, AgUiTypes
  <1> QED  BY <1>1, <1>2 DEF AgUiInv, CallsKept, IsBatch, IsRecord, TurnKept, RunsKept

(* A change of one run, and what it leaves alone.                          *)
LEMMA SetsDoes ==
    ASSUME AgUiTypes, NEW r \in Runs, NEW new \in Run, Sets(r, new)
    PROVE  /\ run' \in Seq(Run) /\ Runs' = Runs /\ run'[r] = new
           /\ \A q \in Runs \ {r} : run'[q] = run[q]
  BY DEF AgUiTypes, Sets, Runs

LEMMA RunFields ==
    ASSUME AgUiTypes, NEW r \in Runs
    PROVE  run[r] \in Run /\ r \in Nat /\ r # NoRun
  BY DEF AgUiTypes, Runs, NoRun

LEMMA Appended ==
    ASSUME NEW S, NEW s \in Seq(S), NEW t \in Seq(S)
    PROVE  /\ s \o t \in Seq(S) /\ Len(s \o t) = Len(s) + Len(t)
           /\ \A i \in DOMAIN (s \o t) : \/ i \in DOMAIN s /\ (s \o t)[i] = s[i]
                                         \/ /\ i - Len(s) \in DOMAIN t
                                            /\ i > Len(s) /\ (s \o t)[i] = t[i - Len(s)]
           /\ \A i \in DOMAIN s : i \in DOMAIN (s \o t) /\ (s \o t)[i] = s[i]
           /\ \A i \in DOMAIN t : i + Len(s) \in DOMAIN (s \o t) /\ (s \o t)[i + Len(s)] = t[i]
  OBVIOUS

LEMMA RunAfterError ==
    ASSUME NEW r, run[r] \in Run, RunKept(run[r]), run[r].pc \in Busy
    PROVE  /\ AfterError(r) \in Run /\ RunKept(AfterError(r))
           /\ AfterError(r).requests = run[r].requests /\ AfterError(r).pc = "over"
  <1> DEFINE new == AfterError(r)
  <1>1. <<Error, Done>> \in Seq(Item) /\ Error.kind # "event" /\ Done.kind # "event"
    BY DEF Error, Done, Item
  <1>2. run[r].queue \in Seq(Item)
    BY DEF Run
  <1>3. run[r].queue \o <<Error, Done>> \in Seq(Item)
    BY <1>1, <1>2
  <1>4. new \in Run
    BY <1>3 DEF AfterError, Queued, Run
  <1>5. /\ new.pc = "over" /\ new.failed = run[r].next /\ new.next = run[r].next
        /\ new.queue = run[r].queue \o <<Error, Done>> /\ new.requests = run[r].requests
        /\ new.shown = run[r].shown /\ new.open = run[r].open
        /\ new.made = run[r].made /\ new.tools = run[r].tools
    BY DEF AfterError, Queued, Run
  <1>6. InOrder(new)
    BY <1>5 DEF InOrder, Busy
  <1>7. InStream(new)
    <2>1. \A i \in DOMAIN new.queue : \/ i \in DOMAIN run[r].queue /\ new.queue[i] = run[r].queue[i]
                                      \/ new.queue[i] \in {Error, Done}
      <3>1. <<Error, Done>>[1] = Error /\ <<Error, Done>>[2] = Done
            /\ DOMAIN <<Error, Done>> = {1, 2}
        OBVIOUS
      <3> HIDE DEF new
      <3>2. \A i \in DOMAIN (run[r].queue \o <<Error, Done>>) :
               \/ i \in DOMAIN run[r].queue /\ (run[r].queue \o <<Error, Done>>)[i] = run[r].queue[i]
               \/ /\ i - Len(run[r].queue) \in DOMAIN <<Error, Done>>
                  /\ (run[r].queue \o <<Error, Done>>)[i] = <<Error, Done>>[i - Len(run[r].queue)]
        BY <1>1, <1>2, Appended
      <3> QED  BY <1>5, <3>1, <3>2
    <2> HIDE DEF new
    <2>2. ASSUME NEW i \in DOMAIN new.queue
          PROVE  IF new.queue[i].kind = "event" THEN new.queue[i].of = Len(new.requests)
                                                ELSE new.pc = "over"
      BY <1>1, <1>5, <2>1 DEF InStream, RunKept
    <2>3. \A i \in DOMAIN new.shown :
             /\ i < Len(new.shown) \/ new.open => new.shown[i].kind = "event"
             /\ new.shown[i].kind = "event" => new.shown[i].of = Len(new.requests)
      BY <1>5 DEF InStream, RunKept
    <2> QED  BY <1>5, <2>2, <2>3 DEF InStream
  <1> QED  BY <1>4, <1>5, <1>6, <1>7 DEF RunKept

-----------------------------------------------------------------------------
(* The calls of the session.                                               *)

LEMMA OutcomeRecorded ==
    ASSUME NEW p \in Seq(Nat), NEW b \in Seq(Nat), NEW d \in Seq(Nat), NEW c \in Nat,
           IsBatch(p, b, c), IsRecord(p, b, d, c), p # <<>>
    PROVE  /\ IsBatch(Tail(p), b, c)
           /\ IsRecord(Tail(p), b, Append(d, Head(p)), c)
  <1> DEFINE k == Len(b) - Len(p) + 1
             rest == Tail(p)
             more == Append(d, Head(p))
  <1>1. /\ Len(p) \in Nat \ {0} /\ Len(b) \in Nat /\ Len(d) \in Nat
        /\ Len(rest) = Len(p) - 1 /\ Head(p) = p[1] /\ 1 \in 1..Len(p)
        /\ \A i \in 1..Len(rest) : i + 1 \in 1..Len(p) /\ rest[i] = p[i + 1]
        /\ \A i \in 1..Len(b) : b[i] \in Nat
    OBVIOUS
  <1>2. /\ Len(more) = Len(d) + 1
        /\ \A i \in 1..Len(more) : \/ i \in 1..Len(d) /\ more[i] = d[i]
                                   \/ i = Len(d) + 1 /\ more[i] = Head(p)
        /\ \A i \in 1..Len(d) : i \in 1..Len(more) /\ more[i] = d[i]
        /\ Len(d) + 1 \in 1..Len(more) /\ more[Len(d) + 1] = Head(p)
    OBVIOUS
  <1>3. Head(p) = b[k] /\ k \in 1..Len(b)
    BY <1>1 DEF IsBatch
  <1>0. k = Len(b) - Len(p) + 1 /\ k \in Nat
    BY <1>1, <1>3
  <1> HIDE DEF rest, more, k
  <1>4. \A i \in 1..Len(rest) : rest[i] = b[k + i] /\ k + i \in 1..Len(b)
    <2> TAKE i \in 1..Len(rest)
    <2>1. i + 1 \in 1..Len(p) /\ rest[i] = p[i + 1]
      BY <1>1
    <2>2. rest[i] = b[Len(b) - Len(p) + (i + 1)]
      BY <2>1 DEF IsBatch
    <2>3. Len(b) - Len(p) + (i + 1) = k + i /\ i \in Nat
      BY <1>1, <1>0, <2>1
    <2>4. k + i \in 1..Len(b)
      <3>1. 1 <= i + 1 /\ i + 1 <= Len(p) /\ Len(p) \in Nat /\ Len(b) \in Nat /\ i \in Nat
        BY <1>1, <2>1, <2>3
      <3> QED  BY <1>0, <3>1
    <2> QED  BY <2>2, <2>3, <2>4
  <1>5. IsBatch(rest, b, c)
    <2>1. \A i \in 1..Len(rest) : rest[i] = b[Len(b) - Len(rest) + i]
      <3>1. Len(b) - Len(rest) = k
        BY <1>1, <1>0
      <3> QED  BY <1>4, <3>1
    <2>2. Len(rest) <= Len(b)
      BY <1>1 DEF IsBatch
    <2> QED  BY <2>1, <2>2 DEF IsBatch
  <1>6. \A i \in 1..Len(rest) : rest[i] # Head(p)
    <2> TAKE i \in 1..Len(rest)
    <2>1. k \in 1..Len(b) /\ k + i \in 1..Len(b) /\ k < k + i
      <3>1. k \in 1..Len(b) /\ k + i \in 1..Len(b)
        BY <1>3, <1>4
      <3>2. i \in Nat /\ i > 0
        BY <1>1
      <3> QED  BY <1>0, <3>1, <3>2
    <2>2. b[k] < b[k + i]
      BY <2>1 DEF IsBatch
    <2>3. b[k] \in Nat /\ b[k + i] \in Nat
      BY <1>1, <2>1
    <2>4. b[k] # b[k + i]
      BY <2>2, <2>3
    <2> QED  BY <1>3, <1>4, <2>4
  <1>7. \A i \in 1..Len(d) : d[i] # Head(p)
    BY <1>1 DEF IsRecord
  <1>8. \A i \in 1..(Len(b) - Len(rest)) : \E j \in 1..Len(more) : more[j] = b[i]
    <2>1. \A i \in 1..(Len(b) - Len(p)) : \E j \in 1..Len(more) : more[j] = b[i]
      BY <1>2 DEF IsRecord
    <2>2. Len(b) - Len(rest) = k /\ Len(b) - Len(p) = k - 1
      BY <1>1, <1>0
    <2>3. \A i \in 1..k : i = k \/ i \in 1..(k - 1)
      BY <1>0
    <2> QED  BY <1>2, <1>3, <2>1, <2>2, <2>3
  <1>9. \A i, j \in 1..Len(more) : more[i] = more[j] => i = j
    <2>1. \A i, j \in 1..Len(d) : d[i] = d[j] => i = j
      BY DEF IsRecord
    <2> SUFFICES ASSUME NEW i \in 1..Len(more), NEW j \in 1..Len(more), more[i] = more[j]
                 PROVE  i = j
      OBVIOUS
    <2>2. CASE i \in 1..Len(d)
      BY <1>2, <1>7, <2>1, <2>2
    <2>3. CASE i = Len(d) + 1
      BY <1>2, <1>7, <2>3
    <2> QED  BY <1>2, <2>2, <2>3
  <1>10. \A i \in 1..Len(more) : more[i] <= c
    BY <1>2, <1>3 DEF IsRecord, IsBatch
  <1>11. \A i \in 1..Len(more), j \in 1..Len(rest) : more[i] # rest[j]
    <2>1. \A i \in 1..Len(d), j \in 1..Len(p) : d[i] # p[j]
      BY DEF IsRecord
    <2>2. \A i \in 1..Len(d), j \in 1..Len(rest) : d[i] # rest[j]
      BY <1>1, <2>1
    <2> QED  BY <1>2, <1>6, <2>2
  <1>12. IsRecord(rest, b, more, c)
    BY <1>8, <1>9, <1>10, <1>11 DEF IsRecord
  <1> QED  BY <1>5, <1>12 DEF rest, more

LEMMA MessageRecords ==
    ASSUME NEW p \in Seq(Nat), NEW b \in Seq(Nat), NEW d \in Seq(Nat), NEW c \in Nat,
           IsBatch(p, b, c), IsRecord(p, b, d, c)
    PROVE  IsBatch(<<>>, b, c) /\ IsRecord(<<>>, b, d \o p, c)
  <1> DEFINE k == Len(b) - Len(p)
             more == d \o p
  <1>1. /\ Len(p) \in Nat /\ Len(b) \in Nat /\ Len(d) \in Nat /\ k \in Nat
        /\ \A i \in 1..Len(b) : b[i] \in Nat
    BY DEF IsBatch
  <1>2. /\ Len(more) = Len(d) + Len(p)
        /\ \A i \in 1..Len(more) :
              \/ i \in 1..Len(d) /\ more[i] = d[i]
              \/ i \notin 1..Len(d) /\ i - Len(d) \in 1..Len(p) /\ more[i] = p[i - Len(d)]
        /\ \A i \in 1..Len(d) : i \in 1..Len(more) /\ more[i] = d[i]
        /\ \A i \in 1..Len(p) : i + Len(d) \in 1..Len(more) /\ more[i + Len(d)] = p[i]
    OBVIOUS
  <1> HIDE DEF more
  <1>3. IsBatch(<<>>, b, c)
    BY <1>1 DEF IsBatch
  <1>4. \A i \in 1..Len(p) : k + i \in 1..Len(b) /\ p[i] = b[k + i]
    BY <1>1 DEF IsBatch
  <1>5. \A i, j \in 1..Len(p) : p[i] = p[j] => i = j
    <2>1. ASSUME NEW i \in 1..Len(p), NEW j \in 1..Len(p), i < j
          PROVE  p[i] # p[j]
      <3>1. k + i < k + j
        BY <1>1, <2>1
      <3>2. k + i \in 1..Len(b) /\ k + j \in 1..Len(b) /\ p[i] = b[k + i] /\ p[j] = b[k + j]
        BY <1>4
      <3>3. b[k + i] < b[k + j]
        <4>1. \A x, y \in 1..Len(b) : x < y => b[x] < b[y]
          BY DEF IsBatch
        <4> QED  BY <3>1, <3>2, <4>1
      <3>4. b[k + i] \in Nat /\ b[k + j] \in Nat
        BY <1>1, <3>2
      <3>5. \A x, y \in Nat : x < y => x # y
        OBVIOUS
      <3>6. b[k + i] # b[k + j]
        BY <3>3, <3>4, <3>5
      <3> QED  BY <3>2, <3>6
    <2>2. \A i, j \in 1..Len(p) : i # j => i < j \/ j < i
      OBVIOUS
    <2> QED  BY <2>1, <2>2
  <1>6. \A i \in 1..Len(p) : p[i] <= c
    BY <1>4 DEF IsBatch
  <1>7. \A i \in 1..Len(b) : \E j \in 1..Len(more) : more[j] = b[i]
    <2> SUFFICES ASSUME NEW i \in 1..Len(b) PROVE \E j \in 1..Len(more) : more[j] = b[i]
      OBVIOUS
    <2>1. CASE i <= k
      <3>1. PICK j \in 1..Len(d) : d[j] = b[i]
        BY <1>1, <2>1 DEF IsRecord
      <3> QED  BY <1>2, <3>1
    <2>2. CASE i > k
      <3>1. i - k \in 1..Len(p) /\ p[i - k] = b[i]
        BY <1>1, <1>4, <2>2
      <3> QED  BY <1>2, <3>1
    <2> QED  BY <1>1, <2>1, <2>2
  <1>8. \A i, j \in 1..Len(more) : more[i] = more[j] => i = j
    <2> SUFFICES ASSUME NEW i \in 1..Len(more), NEW j \in 1..Len(more), more[i] = more[j]
                 PROVE  i = j
      OBVIOUS
    <2>1. CASE i \in 1..Len(d) /\ j \in 1..Len(d)
      BY <1>2, <2>1 DEF IsRecord
    <2>2. CASE i \notin 1..Len(d) /\ j \notin 1..Len(d)
      <3>0. /\ i - Len(d) \in 1..Len(p) /\ more[i] = p[i - Len(d)]
            /\ j - Len(d) \in 1..Len(p) /\ more[j] = p[j - Len(d)]
        BY <1>2, <2>2
      <3>1. i - Len(d) = j - Len(d)
        BY <1>5, <3>0
      <3> QED  BY <1>1, <3>1
    <2>0. \A m \in 1..Len(d), n \in 1..Len(p) : d[m] # p[n]
      BY DEF IsRecord
    <2>3. CASE i \in 1..Len(d) /\ j \notin 1..Len(d)
      BY <1>2, <2>0, <2>3
    <2>4. CASE i \notin 1..Len(d) /\ j \in 1..Len(d)
      BY <1>2, <2>0, <2>4
    <2> QED  BY <2>1, <2>2, <2>3, <2>4
  <1>9. \A i \in 1..Len(more) : more[i] <= c
    <2>1. \A i \in 1..Len(d) : d[i] <= c
      BY DEF IsRecord
    <2> QED  BY <1>2, <1>6, <2>1
  <1>10. Len(b) - Len(<<>>) = Len(b) /\ 1..Len(<<>>) = {}
    BY <1>1
  <1>11. IsRecord(<<>>, b, more, c)
    <2>1. \A i \in 1..(Len(b) - Len(<<>>)) : \E j \in 1..Len(more) : more[j] = b[i]
      BY <1>7, <1>10, Zenon
    <2>2. \A i \in 1..Len(more), j \in 1..Len(<<>>) : more[i] # <<>>[j]
      BY <1>10, Zenon
    <2> QED  BY <1>8, <1>9, <2>1, <2>2, Zenon DEF IsRecord
  <1> QED  BY <1>3, <1>11 DEF more

(* The model asked for calls; those of the batch before have results.      *)
LEMMA CallsMade ==
    ASSUME NEW b \in Seq(Nat), NEW d \in Seq(Nat), NEW c \in Nat, NEW n \in Nat,
           IsRecord(<<>>, b, d, c), NEW asked, asked = [i \in 1..n |-> c + i]
    PROVE  /\ asked \in Seq(Nat) /\ Len(asked) = n /\ (asked = <<>> <=> n = 0)
           /\ IsBatch(asked, asked, c + n)
           /\ IsRecord(asked, asked, d, c + n)
  <1>1. asked \in Seq(Nat) /\ Len(asked) = n
    OBVIOUS
  <1>2. asked = <<>> <=> n = 0
    BY <1>1, EmptySeq
  <1>3. \A i \in 1..n : asked[i] = c + i
    OBVIOUS
  <1>4. \A i \in 1..Len(d) : d[i] \in Nat /\ d[i] <= c
    BY DEF IsRecord
  <1>5. IsBatch(asked, asked, c + n)
    BY <1>1, <1>3 DEF IsBatch
  <1>6. /\ \A i, j \in 1..Len(d) : d[i] = d[j] => i = j
        /\ \A i \in 1..Len(d) : d[i] <= c + n
        /\ \A i \in 1..Len(d), j \in 1..n : d[i] # asked[j]
    BY <1>3, <1>4 DEF IsRecord
  <1>7. IsRecord(asked, asked, d, c + n)
    <2>1. 1..(Len(asked) - Len(asked)) = {}
      BY <1>1
    <2>2. \A i \in 1..Len(d), j \in 1..Len(asked) : d[i] # asked[j]
      BY <1>1, <1>6
    <2> QED  BY <1>6, <2>1, <2>2 DEF IsRecord
  <1> QED  BY <1>1, <1>2, <1>5, <1>7

-----------------------------------------------------------------------------
(* One run changes.                                                        *)

LEMMA OneRun ==
    ASSUME AgUiInv, NEW r \in Runs, NEW new \in Run, Sets(r, new), RunKept(new),
           new.requests = run[r].requests, session'.batch = session.batch
    PROVE  /\ run' \in Seq(Run) /\ Runs' = Runs /\ run'[r] = new
           /\ \A q \in Runs \ {r} : run'[q] = run[q]
           /\ RunsKept'
  <1>1. /\ run' \in Seq(Run) /\ Runs' = Runs /\ run'[r] = new
        /\ \A q \in Runs \ {r} : run'[q] = run[q]
    BY SetsDoes DEF AgUiInv
  <1>2. Answers(new, session.batch)
    BY DEF AgUiInv, RunsKept, Answers
  <1>3. \A q \in Runs : RunKept(run'[q]) /\ Answers(run'[q], session.batch)
    BY <1>1, <1>2 DEF AgUiInv, RunsKept
  <1> QED  BY <1>1, <1>3 DEF RunsKept

LEMMA TurnEnds ==
    ASSUME AgUiInv, NEW r \in Runs, NEW new \in Run, Sets(r, new), new.pc \notin Busy,
           run[r].pc \in Busy, session'.turn = NoRun
    PROVE  TurnKept'
  <1>1. /\ Runs' = Runs /\ run'[r] = new /\ \A q \in Runs \ {r} : run'[q] = run[q]
    BY SetsDoes DEF AgUiInv
  <1>2. \A q \in Runs \ {r} : run[q].pc \notin Busy
    BY DEF AgUiInv, TurnKept
  <1>3. \A q \in Runs : run'[q].pc \notin Busy
    BY <1>1, <1>2
  <1> QED  BY <1>1, <1>3 DEF TurnKept, Busy

LEMMA TurnGoesOn ==
    ASSUME AgUiInv, NEW r \in Runs, NEW new \in Run, Sets(r, new),
           new.pc \in Busy <=> run[r].pc \in Busy, new.pc = "model" => run[r].pc = "model",
           new.tools = run[r].tools, session' = session
    PROVE  TurnKept'
  <1>1. /\ Runs' = Runs /\ run'[r] = new /\ \A q \in Runs \ {r} : run'[q] = run[q]
    BY SetsDoes DEF AgUiInv
  <1>2. \A q \in Runs : /\ run'[q].pc \in Busy <=> run[q].pc \in Busy
                        /\ run'[q].pc = "model" => run[q].pc = "model"
                        /\ run'[q].tools = run[q].tools
    BY <1>1
  <1>3. TurnKept
    BY DEF AgUiInv
  <1> QED  BY <1>1, <1>2, <1>3 DEF TurnKept

LEMMA TurnBegins ==
    ASSUME AgUiInv, NEW r \in Runs, NEW new \in Run, Sets(r, new), new.pc \in Busy,
           session.turn \in {NoRun, r}, session'.turn = r,
           new.pc = "model" => session'.pending = <<>> /\ session'.host = new.tools
    PROVE  TurnKept'
  <1>1. /\ Runs' = Runs /\ run'[r] = new /\ \A q \in Runs \ {r} : run'[q] = run[q]
    BY SetsDoes DEF AgUiInv
  <1>2. \A q \in Runs \ {r} : run[q].pc \notin Busy
    BY RunFields DEF AgUiInv, TurnKept
  <1>3. \A q \in Runs \ {r} : run'[q].pc \notin Busy /\ run'[q].pc # "model"
    BY <1>1, <1>2 DEF Busy
  <1> QED  BY <1>1, <1>3 DEF TurnKept

LEMMA AllKept ==
    ASSUME AgUiInv, NEW r \in Runs, NEW new \in Run, Sets(r, new), RunKept(new),
           new.requests = run[r].requests, session' \in Session,
           session'.batch = session.batch, CallsKept(session'), TurnKept'
    PROVE  AgUiInv'
  BY OneRun DEF AgUiInv, AgUiTypes

(* A request failed, was refused or was cancelled.                         *)
LEMMA RequestFails ==
    ASSUME AgUiInv, NEW r \in Runs, run[r].pc \in Busy, Sets(r, AfterError(r)),
           session' = TurnOver
    PROVE  AgUiInv'
  <1>1. run[r] \in Run /\ RunKept(run[r])
    BY RunFields DEF AgUiInv, RunsKept
  <1>2. /\ AfterError(r) \in Run /\ RunKept(AfterError(r))
        /\ AfterError(r).requests = run[r].requests /\ AfterError(r).pc \notin Busy
    BY <1>1, RunAfterError DEF Busy
  <1>3. /\ session' \in Session /\ session'.turn = NoRun
        /\ session'.batch = session.batch /\ session'.pending = session.pending
        /\ session'.recorded = session.recorded /\ session'.calls = session.calls
    BY DEF TurnOver, AgUiInv, AgUiTypes, Session, NoRun
  <1>4. CallsKept(session')
    BY <1>3 DEF AgUiInv, CallsKept
  <1>5. TurnKept'
    BY <1>2, <1>3, TurnEnds
  <1> QED  BY <1>2, <1>3, <1>4, <1>5, AllKept

-----------------------------------------------------------------------------
(* The steps.                                                              *)

LEMMA RequestsAre ==
    ASSUME NEW b \in Seq(Nat)
    PROVE  /\ RunRequests(b) \in Seq(Request)
           /\ b = <<>> => RunRequests(b) = <<UserMessage>>
           /\ b # <<>> => /\ Len(RunRequests(b)) = Len(b)
                          /\ \A i \in 1..Len(b) : RunRequests(b)[i] = Continuation(b[i])
           /\ Len(RunRequests(b)) # 0
  <1>1. UserMessage \in Request /\ \A i \in 1..Len(b) : Continuation(b[i]) \in Request
    BY DEF UserMessage, Continuation, Request
  <1>2. CASE b = <<>>
    BY <1>1, <1>2 DEF RunRequests
  <1>3. CASE b # <<>>
    <2>1. RunRequests(b) = [i \in 1..Len(b) |-> Continuation(b[i])]
      BY <1>3 DEF RunRequests
    <2>2. Len(b) \in Nat \ {0}
      BY <1>3, EmptySeq
    <2> QED  BY <1>1, <1>3, <2>1, <2>2
  <1> QED  BY <1>2, <1>3

LEMMA PostStep ==
    ASSUME AgUiInv, NEW tools \in BOOLEAN, NEW results \in {<<>>, session.batch},
           Post(tools, results)
    PROVE  AgUiInv'
  <1> DEFINE new == [tools |-> tools, requests |-> RunRequests(results), next |-> 1,
                     pc |-> "ready", events |-> 0, queue |-> <<>>, shown |-> <<>>,
                     open |-> TRUE, made |-> {}, failed |-> 0]
  <1>1. run' = Append(run, new) /\ session' = session
    BY DEF Post
  <1>0. results \in Seq(Nat)
    <2>1. session.batch \in Seq(Nat) /\ <<>> \in Seq(Nat)
      BY SessionFields DEF AgUiInv
    <2> QED  BY <2>1
  <1>2. RunRequests(results) \in Seq(Request)
    BY <1>0, RequestsAre
  <1>3. new \in Run
    BY <1>2 DEF Run, Busy
  <1>4. RunKept(new)
    BY DEF RunKept, InOrder, InStream, Busy
  <1>5. Answers(new, session.batch)
    <2>1. RunRequests(<<>>) = <<UserMessage>>
      BY DEF RunRequests
    <2> QED  BY <2>1 DEF Answers
  <1>6. new.pc \notin Busy
    BY DEF Busy
  <1> HIDE DEF new
  <1>7. /\ run' \in Seq(Run) /\ Runs' = Runs \union {Len(run) + 1}
        /\ run'[Len(run) + 1] = new /\ \A q \in Runs : run'[q] = run[q]
    BY <1>1, <1>3 DEF AgUiInv, AgUiTypes, Runs
  <1>8. TurnKept'
    <2>1. \A q \in Runs' : run'[q].pc \in Busy => q \in Runs /\ run'[q] = run[q]
      BY <1>6, <1>7
    <2>2. "model" \in Busy
      BY DEF Busy
    <2> QED  BY <1>1, <1>7, <2>1, <2>2 DEF AgUiInv, TurnKept
  <1>9. RunsKept'
    BY <1>1, <1>4, <1>5, <1>7 DEF AgUiInv, RunsKept
  <1> QED  BY <1>1, <1>7, <1>8, <1>9 DEF AgUiInv, AgUiTypes

(* A run that was busy is cancelled, and nothing of it was streamed wrongly. *)
LEMMA RunCancelled ==
    ASSUME NEW q \in Run, RunKept(q), q.pc \in {"planning", "model"}
    PROVE  /\ [q EXCEPT !.pc = "cancelling"] \in Run
           /\ RunKept([q EXCEPT !.pc = "cancelling"])
           /\ [q EXCEPT !.pc = "cancelling"].requests = q.requests
           /\ [q EXCEPT !.pc = "cancelling"].tools = q.tools
           /\ [q EXCEPT !.pc = "cancelling"].pc = "cancelling"
  <1> DEFINE new == [q EXCEPT !.pc = "cancelling"]
  <1>1. new \in Run
    BY DEF Run, Busy
  <1>2. /\ new.pc = "cancelling" /\ new.failed = q.failed /\ new.next = q.next
        /\ new.queue = q.queue /\ new.requests = q.requests /\ new.shown = q.shown
        /\ new.open = q.open /\ new.made = q.made /\ new.tools = q.tools
    BY DEF Run
  <1> HIDE DEF new
  <1>3. RunKept(new)
    BY <1>2 DEF RunKept, InOrder, InStream, Busy
  <1> QED  BY <1>1, <1>2, <1>3 DEF new

LEMMA ReplaceStep ==
    ASSUME AgUiInv, NEW r \in Runs, Replace(r)
    PROVE  AgUiInv'
  <1> DEFINE t == session.turn
             new == [run[t] EXCEPT !.pc = "cancelling"]
  <1>1. t \in Runs /\ run[t].pc \in {"planning", "model"} /\ Sets(t, new) /\ session' = session
    BY DEF Replace, AgUiInv, TurnKept
  <1>2. run[t] \in Run /\ RunKept(run[t])
    BY <1>1, RunFields DEF AgUiInv, RunsKept
  <1>3. /\ new \in Run /\ RunKept(new) /\ new.requests = run[t].requests
        /\ new.tools = run[t].tools /\ new.pc = "cancelling"
    BY <1>1, <1>2, RunCancelled
  <1> HIDE DEF new, t
  <1>4. TurnKept'
    BY <1>1, <1>3, TurnGoesOn DEF Busy
  <1> QED  BY <1>1, <1>3, <1>4, AllKept DEF AgUiInv, AgUiTypes

LEMMA BeginRunStep ==
    ASSUME AgUiInv, NEW r \in Runs, BeginRun(r)
    PROVE  AgUiInv'
  <1> DEFINE new == [run[r] EXCEPT !.pc = "planning", !.events = 0]
  <1>1. /\ run[r].pc = "ready" /\ run[r].next <= Len(run[r].requests) /\ session.turn = NoRun
        /\ Sets(r, new) /\ session' = [session EXCEPT !.turn = r]
    BY DEF BeginRun
  <1>2. run[r] \in Run /\ RunKept(run[r]) /\ r \in Nat
    BY RunFields DEF AgUiInv, RunsKept
  <1>3. new \in Run
    BY <1>2 DEF Run, Busy
  <1>4. /\ new.pc = "planning" /\ new.failed = run[r].failed /\ new.next = run[r].next
        /\ new.queue = run[r].queue /\ new.requests = run[r].requests
        /\ new.shown = run[r].shown /\ new.open = run[r].open
        /\ new.made = run[r].made /\ new.tools = run[r].tools
    BY <1>2 DEF Run
  <1> HIDE DEF new
  <1>5. RunKept(new)
    BY <1>1, <1>2, <1>4 DEF RunKept, InOrder, InStream, Busy
  <1>6. /\ session' \in Session /\ session'.turn = r
        /\ session'.batch = session.batch /\ session'.pending = session.pending
        /\ session'.recorded = session.recorded /\ session'.calls = session.calls
    BY <1>1, <1>2 DEF AgUiInv, AgUiTypes, Session
  <1>7. CallsKept(session')
    BY <1>6 DEF AgUiInv, CallsKept
  <1>8. TurnKept'
    BY <1>1, <1>3, <1>4, <1>6, TurnBegins DEF Busy
  <1> QED  BY <1>1, <1>3, <1>4, <1>5, <1>6, <1>7, <1>8, AllKept

(* Only a call that is pending is answered, so a run of an older batch is  *)
(* refused, and the last call pending is the last of the run.              *)
LEMMA LastOfRun ==
    ASSUME NEW p \in Seq(Nat), NEW b \in Seq(Nat), NEW c \in Nat, IsBatch(p, b, c), Len(p) = 1,
           NEW q, Answers(q, b), NEW n \in 1..Len(q.requests),
           q.requests[n].kind = "result", q.requests[n].call = p[1]
    PROVE  n = Len(q.requests)
  <1> DEFINE m == Len(b)
  <1>1. m \in Nat /\ m >= 1 /\ m \in 1..m /\ b[m] \in Nat /\ p[1] \in Nat /\ 1 \in 1..Len(p)
    BY DEF IsBatch
  <1>2. p[1] = b[m]
    <2>1. p[1] = b[Len(b) - Len(p) + 1]
      BY <1>1 DEF IsBatch
    <2>2. Len(b) - Len(p) + 1 = m
      BY <1>1
    <2> QED  BY <2>1, <2>2
  <1>3. CASE q.requests = <<UserMessage>>
    BY <1>3 DEF UserMessage
  <1>4. CASE q.requests = RunRequests(b)
    <2>1. b # <<>>
      BY <1>1, EmptySeq
    <2>2. Len(q.requests) = m /\ q.requests[n] = Continuation(b[n])
      BY <1>4, <2>1, RequestsAre
    <2>3. b[n] = b[m] /\ n \in 1..m
      BY <1>2, <2>2 DEF Continuation
    <2>4. n < m => b[n] < b[m]
      BY <1>1, <2>3 DEF IsBatch
    <2> QED  BY <1>1, <2>2, <2>3, <2>4
  <1>5. CASE \A i \in DOMAIN q.requests, j \in DOMAIN b :
               q.requests[i].kind = "result" /\ q.requests[i].call < b[j]
    <2>1. q.requests # <<UserMessage>> /\ n \in DOMAIN q.requests => q.requests[n].call < b[m]
      BY <1>1, <1>5
    <2> QED  BY <1>1, <1>2, <1>3, <2>1
  <1> QED  BY <1>3, <1>4, <1>5 DEF Answers

(* A run that answered a batch answers an older one once there is another. *)
LEMMA OlderBatch ==
    ASSUME NEW b \in Seq(Nat), NEW c \in Nat, \A i \in DOMAIN b : b[i] <= c,
           NEW q \in Run, Answers(q, b), NEW new \in Seq(Nat), new # <<>>,
           \A i \in DOMAIN new : new[i] > c
    PROVE  Answers(q, new)
  <1>1. \A i \in DOMAIN new : new[i] \in Nat /\ new[i] > c
    OBVIOUS
  <1>2. \A i \in DOMAIN b : b[i] \in Nat /\ b[i] <= c
    OBVIOUS
  <1>3. \A i \in DOMAIN q.requests : q.requests[i].call \in Nat
    <2>1. q.requests \in Seq(Request)
      BY DEF Run
    <2>2. \A i \in DOMAIN q.requests : q.requests[i] \in Request
      BY <2>1
    <2> QED  BY <2>2 DEF Request
  <1>4. CASE q.requests = RunRequests(b) /\ b # <<>>
    <2>1. q.requests = [i \in DOMAIN b |-> Continuation(b[i])]
      BY <1>4 DEF RunRequests
    <2>2. ASSUME NEW i \in DOMAIN q.requests, NEW j \in DOMAIN new
          PROVE  q.requests[i].kind = "result" /\ q.requests[i].call < new[j]
      <3>1. i \in DOMAIN b /\ q.requests[i] = Continuation(b[i])
        BY <2>1
      <3>2. q.requests[i].kind = "result" /\ q.requests[i].call = b[i]
        BY <3>1 DEF Continuation
      <3>3. b[i] \in Nat /\ b[i] <= c /\ new[j] \in Nat /\ new[j] > c
        BY <1>1, <1>2, <3>1
      <3> QED  BY <3>2, <3>3
    <2> QED  BY <1>1, <2>2 DEF Answers
  <1>5. CASE b # <<>> /\ \A i \in DOMAIN q.requests, j \in DOMAIN b :
                            q.requests[i].kind = "result" /\ q.requests[i].call < b[j]
    <2>1. 1 \in DOMAIN b
      BY <1>5, EmptySeq
    <2>2. ASSUME NEW i \in DOMAIN q.requests, NEW j \in DOMAIN new
          PROVE  q.requests[i].kind = "result" /\ q.requests[i].call < new[j]
      <3>1. q.requests[i].kind = "result" /\ q.requests[i].call < b[1]
        BY <1>5, <2>1
      <3>2. b[1] \in Nat /\ b[1] <= c /\ new[j] \in Nat /\ new[j] > c
        BY <1>1, <1>2, <2>1
      <3>3. q.requests[i].call \in Nat
        BY <1>3
      <3> QED  BY <3>1, <3>2, <3>3
    <2> QED  BY <1>1, <2>2 DEF Answers
  <1>6. b = <<>> => RunRequests(b) = <<UserMessage>>
    BY RequestsAre
  <1> QED  BY <1>4, <1>5, <1>6 DEF Answers

LEMMA AcceptOutcomeStep ==
    ASSUME AgUiInv, NEW r \in Runs, AcceptOutcome(r)
    PROVE  AgUiInv'
  <1> DEFINE p == session.pending
             b == session.batch
             d == session.recorded
             c == session.calls
             call == Current(r).call
             goesOn == [run[r] EXCEPT !.pc = "ready", !.next = @ + 1]
             resumes == [run[r] EXCEPT !.pc = "model"]
  <1>1. /\ run[r].pc = "planning" /\ Current(r).kind = "result"
        /\ p # <<>> /\ Head(p) = call
    BY DEF AcceptOutcome, IsPending
  <1>2. run[r] \in Run /\ RunKept(run[r]) /\ r \in Nat /\ session.turn = r
    BY <1>1, RunFields DEF AgUiInv, RunsKept, TurnKept, Busy
  <1>3. p \in Seq(Nat) /\ b \in Seq(Nat) /\ d \in Seq(Nat) /\ c \in Nat /\ session \in Session
    BY SessionFields DEF AgUiInv, AgUiTypes
  <1>4. IsBatch(p, b, c) /\ IsRecord(p, b, d, c)
    BY DEF AgUiInv, CallsKept
  <1>5. Tail(p) \in Seq(Nat) /\ call \in Nat /\ Append(d, call) \in Seq(Nat)
    BY <1>1, <1>3
  <1>6. IsBatch(Tail(p), b, c) /\ IsRecord(Tail(p), b, Append(d, call), c)
    BY <1>1, <1>3, <1>4, OutcomeRecorded
  <1>7. /\ session' \in Session /\ session'.pending = Tail(p) /\ session'.batch = b
        /\ session'.recorded = Append(d, call) /\ session'.calls = c
        /\ session'.host = run[r].tools
        /\ Tail(p) # <<>> => session'.turn = NoRun
        /\ Tail(p) = <<>> => session'.turn = r
    <2>0. run[r].tools \in BOOLEAN
      BY <1>2 DEF Run
    <2>1. CASE Tail(p) # <<>>
      <3>1. session' = [session EXCEPT !.pending = Tail(p), !.recorded = Append(d, call),
                                       !.host = run[r].tools, !.turn = NoRun]
        BY <1>3, <2>1 DEF AcceptOutcome, HostContext, Session
      <3> QED  BY <1>3, <1>5, <2>0, <2>1, <3>1 DEF Session, NoRun
    <2>2. CASE Tail(p) = <<>>
      <3>1. session' = [session EXCEPT !.pending = Tail(p), !.recorded = Append(d, call),
                                       !.host = run[r].tools]
        BY <2>2 DEF AcceptOutcome, HostContext
      <3> QED  BY <1>2, <1>3, <1>5, <2>0, <2>2, <3>1 DEF Session
    <2> QED  BY <2>1, <2>2
  <1>8. CallsKept(session')
    BY <1>6, <1>7 DEF CallsKept
  <1>9. CASE Tail(p) # <<>>
    <2>1. Sets(r, goesOn)
      BY <1>9 DEF AcceptOutcome
    <2>2. goesOn \in Run
      <3>1. run[r].next + 1 \in Nat \ {0}
        BY <1>2 DEF Run
      <3> QED  BY <1>2, <3>1 DEF Run, Busy
    <2>3. /\ goesOn.pc = "ready" /\ goesOn.failed = run[r].failed
          /\ goesOn.queue = run[r].queue /\ goesOn.requests = run[r].requests
          /\ goesOn.shown = run[r].shown /\ goesOn.open = run[r].open
          /\ goesOn.made = run[r].made /\ goesOn.tools = run[r].tools
      BY <1>2 DEF Run
    <2> HIDE DEF goesOn
    <2>4. RunKept(goesOn)
      BY <1>1, <1>2, <2>3 DEF RunKept, InOrder, InStream, Busy
    <2>5. TurnKept'
      BY <1>1, <1>7, <1>9, <2>1, <2>2, <2>3, TurnEnds DEF Busy
    <2> QED  BY <1>7, <1>8, <2>1, <2>2, <2>3, <2>4, <2>5, AllKept
  <1>10. CASE Tail(p) = <<>>
    <2>1. Sets(r, resumes)
      BY <1>10 DEF AcceptOutcome
    <2>2. resumes \in Run
      BY <1>2 DEF Run, Busy
    <2>3. /\ resumes.pc = "model" /\ resumes.failed = run[r].failed /\ resumes.next = run[r].next
          /\ resumes.queue = run[r].queue /\ resumes.requests = run[r].requests
          /\ resumes.shown = run[r].shown /\ resumes.open = run[r].open
          /\ resumes.made = run[r].made /\ resumes.tools = run[r].tools
      BY <1>2 DEF Run
    <2>4. run[r].next = Len(run[r].requests)
      <3>1. Len(p) = 1 /\ Head(p) = p[1]
        <4>1. Len(Tail(p)) = 0 /\ Len(Tail(p)) = Len(p) - 1 /\ Len(p) \in Nat /\ Head(p) = p[1]
          <5>1. \A s \in Seq(Nat) : s # <<>> => /\ Len(s) \in Nat /\ Head(s) = s[1]
                                                /\ Len(Tail(s)) = Len(s) - 1
            OBVIOUS
          <5> QED  BY <1>1, <1>3, <1>10, <5>1
        <4> QED  BY <4>1
      <3>2. run[r].next \in 1..Len(run[r].requests)
        <4>1. run[r].next \in Nat \ {0} /\ run[r].requests \in Seq(Request)
          BY <1>2 DEF Run
        <4>2. run[r].next <= Len(run[r].requests)
          BY <1>1, <1>2 DEF RunKept, InOrder, Busy
        <4> QED  BY <4>1, <4>2
      <3>3. /\ run[r].requests[run[r].next].kind = "result"
            /\ run[r].requests[run[r].next].call = p[1]
        BY <1>1, <3>1 DEF Current
      <3>4. Answers(run[r], b)
        BY DEF AgUiInv, RunsKept
      <3> HIDE DEF p, b, c
      <3> QED  BY <1>3, <1>4, <3>1, <3>2, <3>3, <3>4, LastOfRun
    <2> HIDE DEF resumes
    <2>5. RunKept(resumes)
      BY <1>1, <1>2, <2>3, <2>4 DEF RunKept, InOrder, InStream, Busy
    <2>6. TurnKept'
      BY <1>2, <1>7, <1>10, <2>1, <2>2, <2>3, TurnBegins DEF Busy
    <2> QED  BY <1>7, <1>8, <2>1, <2>2, <2>3, <2>5, <2>6, AllKept
  <1> QED  BY <1>9, <1>10

LEMMA AcceptMessageStep ==
    ASSUME AgUiInv, NEW r \in Runs, AcceptMessage(r)
    PROVE  AgUiInv'
  <1> DEFINE p == session.pending
             b == session.batch
             d == session.recorded
             c == session.calls
             new == [run[r] EXCEPT !.pc = "model"]
  <1>1. /\ run[r].pc = "planning" /\ Current(r) = UserMessage /\ Sets(r, new)
        /\ session' = [session EXCEPT !.pending = <<>>, !.recorded = @ \o session.pending,
                                      !.host = run[r].tools]
    BY DEF AcceptMessage, HostContext
  <1>2. run[r] \in Run /\ RunKept(run[r]) /\ session.turn = r
    BY <1>1, RunFields DEF AgUiInv, RunsKept, TurnKept, Busy
  <1>3. p \in Seq(Nat) /\ b \in Seq(Nat) /\ d \in Seq(Nat) /\ c \in Nat /\ session \in Session
    BY SessionFields DEF AgUiInv, AgUiTypes
  <1>4. IsBatch(p, b, c) /\ IsRecord(p, b, d, c)
    BY DEF AgUiInv, CallsKept
  <1>5. IsBatch(<<>>, b, c) /\ IsRecord(<<>>, b, d \o p, c)
    BY <1>3, <1>4, MessageRecords
  <1>6. /\ session' \in Session /\ session'.pending = <<>> /\ session'.batch = b
        /\ session'.recorded = d \o p /\ session'.calls = c /\ session'.host = run[r].tools
        /\ session'.turn = r
    <2>1. run[r].tools \in BOOLEAN /\ d \o p \in Seq(Nat)
      BY <1>2, <1>3 DEF Run
    <2>2. session' = [session EXCEPT !.pending = <<>>, !.recorded = d \o p,
                                     !.host = run[r].tools]
      BY <1>1, <1>3 DEF Session
    <2>3. <<>> \in Seq(Nat)
      OBVIOUS
    <2> QED  BY <1>2, <1>3, <2>1, <2>2, <2>3 DEF Session
  <1>7. CallsKept(session')
    BY <1>5, <1>6 DEF CallsKept
  <1>8. new \in Run
    BY <1>2 DEF Run, Busy
  <1>9. /\ new.pc = "model" /\ new.failed = run[r].failed /\ new.next = run[r].next
        /\ new.queue = run[r].queue /\ new.requests = run[r].requests
        /\ new.shown = run[r].shown /\ new.open = run[r].open
        /\ new.made = run[r].made /\ new.tools = run[r].tools
    BY <1>2 DEF Run
  <1>10. run[r].next = Len(run[r].requests)
    <2>1. /\ run[r].next \in DOMAIN run[r].requests /\ run[r].next \in Nat
          /\ DOMAIN run[r].requests = 1..Len(run[r].requests)
      <3>1. run[r].next \in Nat \ {0} /\ run[r].requests \in Seq(Request)
        BY <1>2 DEF Run
      <3>2. run[r].next <= Len(run[r].requests)
        BY <1>1, <1>2 DEF RunKept, InOrder, Busy
      <3> QED  BY <3>1, <3>2
    <2>2. run[r].requests[run[r].next].kind = "message"
      BY <1>1 DEF Current, UserMessage
    <2>3. Answers(run[r], b) /\ b \in Seq(Nat)
      BY SessionFields DEF AgUiInv, RunsKept
    <2>4. run[r].requests # RunRequests(b) \/ run[r].requests = <<UserMessage>>
      <3>1. CASE b = <<>>
        BY <3>1 DEF RunRequests
      <3>2. CASE b # <<>>
        <4>1. RunRequests(b) = [i \in DOMAIN b |-> Continuation(b[i])]
          BY <3>2 DEF RunRequests
        <4> QED  BY <2>1, <2>2, <4>1 DEF Continuation
      <3> QED  BY <3>1, <3>2
    <2>5. b # <<>> => 1 \in DOMAIN b
      BY <2>3, EmptySeq
    <2>6. run[r].requests = <<UserMessage>>
      BY <2>1, <2>2, <2>3, <2>4, <2>5 DEF Answers
    <2> QED  BY <2>1, <2>6
  <1> HIDE DEF new
  <1>11. RunKept(new)
    BY <1>1, <1>2, <1>9, <1>10 DEF RunKept, InOrder, InStream, Busy
  <1>12. TurnKept'
    BY <1>1, <1>2, <1>6, <1>8, <1>9, TurnBegins DEF Busy
  <1> QED  BY <1>1, <1>6, <1>7, <1>8, <1>9, <1>11, <1>12, AllKept

LEMMA NativeEventStep ==
    ASSUME AgUiInv, NEW r \in Runs, NativeEvent(r)
    PROVE  AgUiInv'
  <1> DEFINE e == Native(run[r].next)
             new == [Queued(r, <<e>>) EXCEPT !.events = @ + 1]
  <1>1. run[r].pc = "model" /\ Sets(r, new) /\ session' = session
    BY DEF NativeEvent
  <1>2. run[r] \in Run /\ RunKept(run[r])
    BY RunFields DEF AgUiInv, RunsKept
  <1>3. /\ run[r].queue \in Seq(Item) /\ e \in Item /\ run[r].events + 1 \in Nat
        /\ run[r].next = Len(run[r].requests)
    BY <1>1, <1>2 DEF Run, Item, Native, RunKept, InOrder
  <1>4. /\ run[r].queue \o <<e>> \in Seq(Item)
        /\ \A i \in DOMAIN (run[r].queue \o <<e>>) :
              \/ i \in DOMAIN run[r].queue /\ (run[r].queue \o <<e>>)[i] = run[r].queue[i]
              \/ (run[r].queue \o <<e>>)[i] = e
    BY <1>3
  <1>5. e.kind = "event" /\ e.of = Len(run[r].requests)
    BY <1>3 DEF Native
  <1> HIDE DEF e
  <1>6. new \in Run
    BY <1>2, <1>3, <1>4 DEF Queued, Run
  <1>7. /\ new.pc = run[r].pc /\ new.failed = run[r].failed /\ new.next = run[r].next
        /\ new.queue = run[r].queue \o <<e>> /\ new.requests = run[r].requests
        /\ new.shown = run[r].shown /\ new.open = run[r].open
        /\ new.made = run[r].made /\ new.tools = run[r].tools
    BY <1>2 DEF Queued, Run
  <1> HIDE DEF new
  <1>8. InOrder(new)
    BY <1>2, <1>7 DEF RunKept, InOrder
  <1>9. InStream(new)
    BY <1>2, <1>4, <1>5, <1>7 DEF RunKept, InStream
  <1>10. RunKept(new)
    BY <1>2, <1>7, <1>8, <1>9 DEF RunKept
  <1>11. TurnKept'
    BY <1>1, <1>6, <1>7, TurnGoesOn
  <1> QED  BY <1>1, <1>6, <1>7, <1>10, <1>11, AllKept DEF AgUiInv, AgUiTypes

LEMMA AllMadeStep ==
    ASSUME AgUiInv, NEW r \in Runs, AllMade(r)
    PROVE  AgUiInv'
  <1> DEFINE new == [Queued(r, <<Done>>) EXCEPT !.pc = "over"]
  <1>1. run[r].pc = "ready" /\ Sets(r, new) /\ session' = session
    BY DEF AllMade
  <1>2. run[r] \in Run /\ RunKept(run[r])
    BY RunFields DEF AgUiInv, RunsKept
  <1>3. run[r].queue \in Seq(Item) /\ Done \in Item /\ Done.kind # "event"
    BY <1>2 DEF Run, Item, Done
  <1>4. /\ run[r].queue \o <<Done>> \in Seq(Item)
        /\ \A i \in DOMAIN (run[r].queue \o <<Done>>) :
              \/ i \in DOMAIN run[r].queue /\ (run[r].queue \o <<Done>>)[i] = run[r].queue[i]
              \/ (run[r].queue \o <<Done>>)[i] = Done
    BY <1>3
  <1>5. new \in Run
    BY <1>2, <1>4 DEF Queued, Run
  <1>6. /\ new.pc = "over" /\ new.failed = run[r].failed /\ new.next = run[r].next
        /\ new.queue = run[r].queue \o <<Done>> /\ new.requests = run[r].requests
        /\ new.shown = run[r].shown /\ new.open = run[r].open
        /\ new.made = run[r].made /\ new.tools = run[r].tools
    BY <1>2 DEF Queued, Run
  <1> HIDE DEF new
  <1>7. InOrder(new)
    BY <1>1, <1>2, <1>6 DEF RunKept, InOrder, Busy
  <1>8. InStream(new)
    BY <1>1, <1>2, <1>3, <1>4, <1>6 DEF RunKept, InStream
  <1>9. RunKept(new)
    BY <1>2, <1>6, <1>7, <1>8 DEF RunKept
  <1>10. TurnKept'
    BY <1>1, <1>5, <1>6, TurnGoesOn DEF Busy
  <1> QED  BY <1>1, <1>5, <1>6, <1>9, <1>10, AllKept DEF AgUiInv, AgUiTypes

LEMMA StreamStep ==
    ASSUME AgUiInv, NEW r \in Runs, Stream(r)
    PROVE  AgUiInv'
  <1> DEFINE item == Head(run[r].queue)
             new == [run[r] EXCEPT !.queue = Tail(@), !.shown = Append(@, item),
                                   !.open = item \notin {Error, Done}]
  <1>1. run[r].open /\ run[r].queue # <<>> /\ Sets(r, new) /\ session' = session
    BY DEF Stream
  <1>2. run[r] \in Run /\ RunKept(run[r])
    BY RunFields DEF AgUiInv, RunsKept
  <1>3. run[r].queue \in Seq(Item) /\ run[r].shown \in Seq(Item)
    BY <1>2 DEF Run
  <1>4. /\ item = run[r].queue[1] /\ 1 \in DOMAIN run[r].queue /\ item \in Item
        /\ Tail(run[r].queue) \in Seq(Item)
        /\ \A i \in DOMAIN Tail(run[r].queue) : /\ i + 1 \in DOMAIN run[r].queue
                                                /\ Tail(run[r].queue)[i] = run[r].queue[i + 1]
    BY <1>1, <1>3
  <1>5. /\ item.kind = "event" => item.of = Len(run[r].requests)
        /\ item.kind # "event" => run[r].pc = "over"
    BY <1>2, <1>4 DEF RunKept, InStream
  <1> HIDE DEF item
  <1>6. /\ Append(run[r].shown, item) \in Seq(Item)
        /\ Len(Append(run[r].shown, item)) = Len(run[r].shown) + 1
        /\ \A i \in DOMAIN Append(run[r].shown, item) :
              \/ i \in DOMAIN run[r].shown /\ Append(run[r].shown, item)[i] = run[r].shown[i]
              \/ i = Len(run[r].shown) + 1 /\ Append(run[r].shown, item)[i] = item
    BY <1>3, <1>4
  <1>7. new \in Run
    BY <1>2, <1>4, <1>6 DEF Run
  <1>8. /\ new.pc = run[r].pc /\ new.failed = run[r].failed /\ new.next = run[r].next
        /\ new.queue = Tail(run[r].queue) /\ new.requests = run[r].requests
        /\ new.shown = Append(run[r].shown, item) /\ new.open = (item \notin {Error, Done})
        /\ new.made = run[r].made /\ new.tools = run[r].tools
    BY <1>2 DEF Run
  <1> HIDE DEF new
  <1>9. InOrder(new)
    BY <1>2, <1>8 DEF RunKept, InOrder
  <1>10. InStream(new)
    <2>1. \A i \in DOMAIN new.queue :
             IF new.queue[i].kind = "event" THEN new.queue[i].of = Len(new.requests)
                                            ELSE new.pc = "over"
      BY <1>2, <1>4, <1>8 DEF RunKept, InStream
    <2>2. \A i \in DOMAIN run[r].shown :
             run[r].shown[i].kind = "event" /\ run[r].shown[i].of = Len(run[r].requests)
      BY <1>1, <1>2 DEF RunKept, InStream
    <2>3. new.open <=> item.kind = "event"
      <3>1. /\ \A k \in Nat : Native(k).kind = "event"
            /\ Error.kind = "error" /\ Done.kind = "done"
        BY DEF Native, Error, Done
      <3>2. item \in {Error, Done} \/ \E k \in Nat : item = Native(k)
        BY <1>4 DEF Item
      <3> QED  BY <1>8, <3>1, <3>2
    <2>4. \A i \in DOMAIN new.shown :
             /\ i < Len(new.shown) \/ new.open => new.shown[i].kind = "event"
             /\ new.shown[i].kind = "event" => new.shown[i].of = Len(new.requests)
      BY <1>3, <1>5, <1>6, <1>8, <2>2, <2>3
    <2>5. ~new.open => new.pc \in {"over", "cancelling"}
      BY <1>5, <1>8, <2>3
    <2> QED  BY <2>1, <2>4, <2>5 DEF InStream
  <1>11. RunKept(new)
    BY <1>2, <1>8, <1>9, <1>10 DEF RunKept
  <1>12. TurnKept'
    BY <1>1, <1>7, <1>8, TurnGoesOn
  <1> QED  BY <1>1, <1>7, <1>8, <1>11, <1>12, AllKept DEF AgUiInv, AgUiTypes

LEMMA DisconnectStep ==
    ASSUME AgUiInv, NEW r \in Runs, Disconnect(r)
    PROVE  AgUiInv'
  <1> DEFINE new == OnClose(r)
  <1>1. run[r].open /\ Sets(r, new) /\ session' = session
    BY DEF Disconnect
  <1>2. run[r] \in Run /\ RunKept(run[r])
    BY RunFields DEF AgUiInv, RunsKept
  <1>3. new \in Run
    BY <1>2 DEF OnClose, Run, Busy
  <1>4. /\ new.failed = run[r].failed /\ new.next = run[r].next
        /\ new.queue = run[r].queue /\ new.requests = run[r].requests
        /\ new.shown = run[r].shown /\ ~new.open
        /\ new.made = run[r].made /\ new.tools = run[r].tools
    BY <1>2 DEF OnClose, Run
  <1>5. /\ new.pc \in {"cancelling", "over"}
        /\ new.pc \in Busy <=> run[r].pc \in Busy
        /\ run[r].pc = "over" => new.pc = "over"
    BY <1>2 DEF OnClose, Run, Busy
  <1> HIDE DEF new
  <1>6. InOrder(new)
    BY <1>2, <1>4, <1>5 DEF RunKept, InOrder
  <1>7. InStream(new)
    BY <1>1, <1>2, <1>4, <1>5 DEF RunKept, InStream
  <1>8. RunKept(new)
    BY <1>2, <1>4, <1>6, <1>7 DEF RunKept
  <1>9. TurnKept'
    BY <1>1, <1>3, <1>4, <1>5, TurnGoesOn
  <1> QED  BY <1>1, <1>3, <1>4, <1>8, <1>9, AllKept DEF AgUiInv, AgUiTypes

LEMMA ModelEndsStep ==
    ASSUME AgUiInv, NEW r \in Runs, ModelEnds(r)
    PROVE  AgUiInv'
  <1>1. PICK n \in 0..2 :
           /\ n > 0 => session.host
           /\ session' = [TurnOver EXCEPT !.calls = @ + n,
                             !.pending = [i \in 1..n |-> session.calls + i],
                             !.batch = IF n > 0 THEN [i \in 1..n |-> session.calls + i] ELSE @]
           /\ Sets(r, [run[r] EXCEPT !.pc = "ready", !.next = @ + 1,
                           !.made = @ \union {[j \in 1..n |-> session.calls + j][i] : i \in 1..n}])
    BY DEF ModelEnds
  <1> DEFINE asked == [i \in 1..n |-> session.calls + i]
             new == [run[r] EXCEPT !.pc = "ready", !.next = @ + 1,
                           !.made = @ \union {asked[i] : i \in 1..n}]
             b == session.batch
             d == session.recorded
             c == session.calls
  <1>2. /\ run[r].pc = "model" /\ Sets(r, new) /\ run[r] \in Run /\ RunKept(run[r])
        /\ session.pending = <<>> /\ session.host = run[r].tools
    BY <1>1, RunFields DEF ModelEnds, AgUiInv, RunsKept, TurnKept
  <1>3. b \in Seq(Nat) /\ d \in Seq(Nat) /\ c \in Nat /\ session \in Session /\ n \in Nat
    BY SessionFields DEF AgUiInv, AgUiTypes
  <1>4. IsBatch(<<>>, b, c) /\ IsRecord(<<>>, b, d, c)
    BY <1>2 DEF AgUiInv, CallsKept
  <1>5. /\ asked \in Seq(Nat) /\ Len(asked) = n /\ (asked = <<>> <=> n = 0)
        /\ IsBatch(asked, asked, c + n) /\ IsRecord(asked, asked, d, c + n)
    BY <1>3, <1>4, CallsMade
  <1>6. {asked[i] : i \in 1..n} \subseteq Nat /\ (n = 0 => {asked[i] : i \in 1..n} = {})
    BY <1>3
  <1>7. /\ session' \in Session /\ session'.pending = asked /\ session'.recorded = d
        /\ session'.batch = (IF n > 0 THEN asked ELSE b) /\ session'.calls = c + n
        /\ session'.turn = NoRun
    <2>1. session' = [session EXCEPT !.turn = NoRun, !.calls = c + n, !.pending = asked,
                                     !.batch = IF n > 0 THEN asked ELSE b]
      BY <1>1, <1>3 DEF TurnOver, Session
    <2>2. c + n \in Nat /\ (IF n > 0 THEN asked ELSE b) \in Seq(Nat) /\ NoRun \in Nat
      BY <1>3, <1>5 DEF NoRun
    <2> HIDE DEF asked
    <2> QED  BY <1>3, <1>5, <2>1, <2>2 DEF Session
  <1> DEFINE calls == {asked[i] : i \in 1..n}
  <1> HIDE DEF asked
  <1>8. CallsKept(session')
    <2>1. CASE n = 0
      BY <1>4, <1>5, <1>7, <2>1, <1>3 DEF CallsKept
    <2>2. CASE n # 0
      BY <1>3, <1>5, <1>7, <2>2 DEF CallsKept
    <2> QED  BY <2>1, <2>2
  <1>9. new = [run[r] EXCEPT !.pc = "ready", !.next = @ + 1, !.made = @ \union calls]
    OBVIOUS
  <1>10. calls \subseteq Nat /\ (calls # {} => run[r].tools)
    BY <1>1, <1>2, <1>3, <1>6
  <1> HIDE DEF calls, new
  <1>11. new \in Run
    <2>1. run[r].next \in Nat \ {0} /\ run[r].made \in SUBSET Nat
      BY <1>2 DEF Run
    <2>2. run[r].next + 1 \in Nat \ {0}
      BY <2>1
    <2>3. run[r].made \union calls \in SUBSET Nat
      BY <1>10, <2>1
    <2> QED  BY <1>2, <1>9, <2>2, <2>3 DEF Run, Busy
  <1>12. /\ new.pc = "ready" /\ new.failed = run[r].failed
         /\ new.queue = run[r].queue /\ new.requests = run[r].requests
         /\ new.shown = run[r].shown /\ new.open = run[r].open
         /\ new.made = run[r].made \union calls /\ new.tools = run[r].tools
    BY <1>2, <1>9 DEF Run
  <1>13. InOrder(new)
    BY <1>2, <1>12 DEF RunKept, InOrder, Busy
  <1>14. InStream(new)
    BY <1>2, <1>12 DEF RunKept, InStream
  <1>15. RunKept(new)
    BY <1>2, <1>10, <1>12, <1>13, <1>14 DEF RunKept
  <1>16. TurnKept'
    BY <1>2, <1>7, <1>11, <1>12, TurnEnds DEF Busy
  <1>17. \A q \in Runs : run[q] \in Run /\ Answers(run[q], b)
    BY RunFields DEF AgUiInv, RunsKept
  <1>18. \A q \in Runs : Answers(run[q], session'.batch)
    <2>1. CASE n = 0
      BY <1>7, <1>17, <2>1
    <2>2. CASE n # 0
      <3>1. /\ session'.batch = asked /\ asked \in Seq(Nat) /\ asked # <<>>
            /\ \A i \in DOMAIN asked : asked[i] > c
        <4>1. session'.batch = asked /\ asked \in Seq(Nat) /\ asked # <<>>
          BY <1>3, <1>5, <1>7, <2>2
        <4>2. \A i \in DOMAIN asked : asked[i] > c
          BY <1>3 DEF asked
        <4> QED  BY <4>1, <4>2
      <3> HIDE DEF b, c
      <3>2. \A i \in DOMAIN b : b[i] <= c
        BY <1>3, <1>4 DEF IsBatch
      <3>3. \A q \in Run : Answers(q, b) => Answers(q, asked)
        BY <1>3, <3>1, <3>2, OlderBatch
      <3> QED  BY <1>17, <3>1, <3>3
    <2> QED  BY <2>1, <2>2
  <1>19. /\ run' \in Seq(Run) /\ Runs' = Runs /\ run'[r] = new
         /\ \A q \in Runs \ {r} : run'[q] = run[q]
    BY <1>2, <1>11, SetsDoes DEF AgUiInv
  <1>20. RunsKept'
    <2>1. Answers(new, session'.batch)
      BY <1>12, <1>18 DEF Answers
    <2> QED  BY <1>15, <1>18, <1>19, <2>1 DEF AgUiInv, RunsKept
  <1> QED  BY <1>7, <1>8, <1>16, <1>19, <1>20 DEF AgUiInv, AgUiTypes

LEMMA StepInv ==
    ASSUME AgUiInv, [AgUiNext]_agUiVars
    PROVE  AgUiInv'
  <1>1. CASE UNCHANGED agUiVars
    BY <1>1 DEF agUiVars, AgUiInv, AgUiTypes, CallsKept, TurnKept, RunsKept, Runs
  <1>2. ASSUME NEW tools \in BOOLEAN, NEW results \in {<<>>, session.batch},
               Post(tools, results)
        PROVE  AgUiInv'
    BY <1>2, PostStep
  <1>3. ASSUME NEW r \in Runs, RefuseResult(r) \/ ModelFails(r) \/ CancelledTurnEnds(r)
        PROVE  AgUiInv'
    BY <1>3, RequestFails DEF RefuseResult, ModelFails, CancelledTurnEnds, Busy
  <1>4. ASSUME NEW r \in Runs, \/ Replace(r) \/ BeginRun(r) \/ AcceptOutcome(r)
                               \/ AcceptMessage(r) \/ NativeEvent(r) \/ ModelEnds(r)
                               \/ AllMade(r) \/ Stream(r) \/ Disconnect(r)
        PROVE  AgUiInv'
    BY <1>4, ReplaceStep, BeginRunStep, AcceptOutcomeStep, AcceptMessageStep,
       NativeEventStep, ModelEndsStep, AllMadeStep, StreamStep, DisconnectStep
  <1> QED  BY <1>1, <1>2, <1>3, <1>4 DEF AgUiNext

(* Every state of overlapping, resent and broken off runs satisfies the    *)
(* inductive invariant.                                                    *)
THEOREM AgUiInvariance == AgUiSpec => []AgUiInv
  BY InitInv, StepInv, PTL DEF AgUiSpec

(* However runs overlap, are resent or broken off, a stream is that of one *)
(* request of its run and no call is answered twice or called undeclared.  *)
THEOREM AgUiRunsAreSafe == AgUiSpec => []AgUiRunsHold
  BY AgUiInvariance, InvImpliesHold, PTL
=============================================================================
