--------------------------- MODULE VoiceTransport ---------------------------
(***************************************************************************)
(* How the voice service reaches its provider (app/voice): GPT-Live over   *)
(* HTTP, or the codex app-server, a child process spoken to in lines of    *)
(* JSON-RPC.  One app-server carries every call.  It may die at any step,  *)
(* a request may time out though the server still serves it later, and a   *)
(* caller may be cancelled at each await.                                  *)
(*                                                                         *)
(* Each thread stands for one VoiceService.create and the session at the   *)
(* provider that may come of it.  Requests of a server are served in the   *)
(* order they were written.  Speech, facts, interrupts of turns and        *)
(* thread/unsubscribe change nothing here and are left out, and so is the  *)
(* work of a call once it is attached (VoiceWork).                         *)
(***************************************************************************)
EXTENDS Naturals, Sequences, FiniteSets

CONSTANTS
    Threads,     \* calls of create
    MaxServers,  \* bound: app-servers spawned
    MaxNotes     \* bound: notifications of one session

ASSUME TransportAssumption == MaxServers \in Nat \ {0} /\ MaxNotes \in Nat

VARIABLES
    voice,      \* VoiceService: "up", "closing", "detached", "down"
    gptLive,    \* whether the provider is GPT-Live
    link,       \* _AppServer._link: a server, or 0
    server,     \* [1..MaxServers -> "new", "up", "dying", "gone"]
    mailbox,    \* [1..MaxServers -> requests written and not served]
    req,        \* [Callers -> [on, is, reply]]: the caller's pending request
    create,     \* [Threads -> where create is]
    told,       \* [Threads -> allocation_status of a create that failed]
    serverOf,   \* [Threads -> the server of the thread, 0 while it has no id]
    remote,     \* [Threads -> the session at the provider]
    sent,       \* [Threads -> notifications of it so far]
    sub,        \* [Threads -> the link whose threads hold its queue, or 0]
    inQueue,    \* [Threads -> its queue]
    early,      \* [Threads -> what create read before the answer]
    conn,       \* [Threads -> "none", "open", "closed"]
    lastHeard,  \* [Threads -> last notification the call was given]
    verdict,    \* [Threads -> how the call was told of the end]
    stopper     \* [Threads -> who stops the session]

sessionVars == <<serverOf, remote, sent>>
queueVars == <<sub, inQueue, early>>
callVars2 == <<conn, lastHeard, verdict>>
rpcVars == <<link, server, mailbox, req>>
transportVars == <<voice, gptLive, rpcVars, create, told, sessionVars, queueVars, callVars2, stopper>>

Servers == 1..MaxServers
UsagePoll == <<"usage", "usage">>
Creator(t) == <<"create", t>>
Stopper(t) == <<"stop", t>>
Callers == {UsagePoll} \cup {Creator(t) : t \in Threads} \cup {Stopper(t) : t \in Threads}
NoRequest == [on |-> 0, is |-> "none", reply |-> "none"]

Creating == {"posting", "initialize", "account", "thread", "start", "wait", "attach"}
Note(n) == <<"note", n>>
Sdp == <<"sdp", 0>>
Refusal == <<"error", 0>>
Ended == <<"closed", 0>>
Lost == <<"lost", 0>>       \* closed, with a reason of _LOST

-----------------------------------------------------------------------------
(* _AppServer.                                                             *)

Running == link # 0 /\ server[link] = "up"

(* request: with no server it fails at once.                               *)
AskServer(k, is) ==
    IF link = 0
    THEN /\ req' = [req EXCEPT ![k] = [on |-> 0, is |-> is, reply |-> "error"]]
         /\ UNCHANGED <<link, server, mailbox>>
    ELSE /\ req' = [req EXCEPT ![k] = [on |-> link, is |-> is, reply |-> "waiting"]]
         /\ mailbox' = [mailbox EXCEPT ![link] = Append(@, <<k, is>>)]
         /\ UNCHANGED <<link, server>>

(* ensure_started, under its lock; the rest of it awaits initialize.       *)
Starting == \E k \in Callers : req[k].is = "initialize"
EnsureStarted(k) ==
    /\ ~Starting
    /\ IF Running THEN AskServer(k, "account")
       ELSE \E n \in Servers :
              /\ server[n] = "new" /\ \A m \in 1..(n - 1) : server[m] # "new"
              /\ server' = [server EXCEPT ![n] = "up"]
              /\ link' = n
              /\ req' = [req EXCEPT ![k] = [on |-> n, is |-> "initialize", reply |-> "waiting"]]
              /\ mailbox' = [mailbox EXCEPT ![n] = <<<<k, "initialize">>>>]

(* A server that failed to start serves no later call.                     *)
Discard(k) ==
    /\ server' = [server EXCEPT ![req[k].on] = IF @ = "up" THEN "dying" ELSE @]
    /\ link' = 0
    /\ req' = [req EXCEPT ![k] = NoRequest]
    /\ UNCHANGED mailbox

(* A request whose wait_for runs out is no longer pending.                 *)
RequestTimesOut(k) ==
    /\ req[k].reply = "waiting"
    /\ req' = [req EXCEPT ![k].reply = "error"]
    /\ UNCHANGED <<voice, gptLive, link, server, mailbox, create, told, sessionVars, queueVars,
                   callVars2, stopper>>

ServerDies(n) ==
    /\ server[n] = "up"
    /\ server' = [server EXCEPT ![n] = "dying"]
    /\ remote' = [t \in Threads |->
            IF serverOf[t] = n /\ remote[t] = "running" THEN "gone" ELSE remote[t]]
    /\ UNCHANGED <<voice, gptLive, link, mailbox, req, create, told, serverOf, sent, queueVars, callVars2, stopper>>

Hears(t, n) == sub[t] = n
NoteReaderEnds(n) ==
    /\ server[n] = "dying"
    /\ server' = [server EXCEPT ![n] = "gone"]
    /\ link' = IF link = n THEN 0 ELSE link
    /\ req' = [k \in Callers |-> IF req[k].on = n /\ req[k].reply = "waiting"
                                 THEN [req[k] EXCEPT !.reply = "error"] ELSE req[k]]
    /\ inQueue' = [t \in Threads |-> IF Hears(t, n) THEN Append(inQueue[t], Lost) ELSE inQueue[t]]
    /\ mailbox' = [mailbox EXCEPT ![n] = <<>>]
    /\ UNCHANGED <<voice, gptLive, create, told, sessionVars, sub, early, callVars2, stopper>>

-----------------------------------------------------------------------------
(* The provider's side of the app-server.                                  *)

Holds(q, message) == \E i \in 1..Len(q) : q[i] = message
Told(t, n, message) == IF sub[t] = n THEN Append(inQueue[t], message) ELSE inQueue[t]

Reply(k, n, is, answer) ==
    req' = IF req[k] = [on |-> n, is |-> is, reply |-> "waiting"]
           THEN [req EXCEPT ![k].reply = answer] ELSE req

Effect(t, n, is, answer) ==
    CASE is = "thread" /\ answer = "ok" ->
            serverOf' = [serverOf EXCEPT ![t] = n] /\ UNCHANGED <<remote, inQueue>>
      [] is = "start" /\ answer = "ok" ->
            remote' = [remote EXCEPT ![t] = "running"] /\ UNCHANGED <<serverOf, inQueue>>
      [] is = "stop" /\ answer = "ok" /\ remote[t] = "running" ->
            /\ remote' = [remote EXCEPT ![t] = "ended"]
            /\ inQueue' = [inQueue EXCEPT ![t] = Told(t, n, Ended)]
            /\ UNCHANGED serverOf
      [] OTHER -> UNCHANGED <<serverOf, remote, inQueue>>

Serve(n) ==
    /\ server[n] = "up" /\ mailbox[n] # <<>>
    /\ LET k == Head(mailbox[n])[1]
           is == Head(mailbox[n])[2]
       IN \E answer \in {"ok", "error"} :
            /\ is \in {"start", "stop"} /\ serverOf[k[2]] # n => answer = "error"
            /\ Reply(k, n, is, answer)
            /\ IF k = UsagePoll THEN UNCHANGED <<serverOf, remote, inQueue>> ELSE Effect(k[2], n, is, answer)
    /\ mailbox' = [mailbox EXCEPT ![n] = Tail(@)]
    /\ UNCHANGED <<voice, gptLive, link, server, create, told, sent, sub, early, callVars2, stopper>>

(* The session speaks: the answer once, other notifications, or its end.   *)
Notify(t) ==
    /\ ~gptLive /\ remote[t] = "running"
    /\ \/ /\ sent[t] < MaxNotes /\ sent' = [sent EXCEPT ![t] = @ + 1]
          /\ inQueue' = [inQueue EXCEPT ![t] = Told(t, serverOf[t], Note(sent'[t]))]
          /\ UNCHANGED remote
       \/ /\ create[t] \in {"start", "wait"} /\ ~Holds(inQueue[t], Sdp)
          /\ inQueue' = [inQueue EXCEPT ![t] = Told(t, serverOf[t], Sdp)]
          /\ UNCHANGED <<remote, sent>>
       \/ /\ remote' = [remote EXCEPT ![t] = "ended"]
          /\ \E end \in {Ended, Refusal} :
                /\ end = Refusal => create[t] \in {"start", "wait"} /\ ~Holds(inQueue[t], Sdp)
                /\ inQueue' = [inQueue EXCEPT ![t] = Told(t, serverOf[t], end)]
          /\ UNCHANGED sent
    /\ UNCHANGED <<voice, gptLive, rpcVars, create, told, serverOf, sub, early, callVars2, stopper>>

-----------------------------------------------------------------------------
(* create.  VoiceService runs one at a time, under _create_lock.           *)

BeginCreate(t) ==
    /\ create[t] = "new" /\ voice = "up" /\ ~gptLive
    /\ \A u \in Threads : create[u] \notin Creating
    /\ \/ EnsureStarted(Creator(t)) /\ create' = [create EXCEPT ![t] = "account"] /\ UNCHANGED told
       \/ create' = [create EXCEPT ![t] = "failed"]      \* no CLI, or one without the protocol
          /\ told' = [told EXCEPT ![t] = "rejected"] /\ UNCHANGED rpcVars
    /\ UNCHANGED <<voice, gptLive, sessionVars, queueVars, callVars2, stopper>>

Answered(t) == req[Creator(t)].reply = "ok"

Goes(t, is) ==
    /\ AskServer(Creator(t), is)
    /\ create' = [create EXCEPT ![t] = is]
    /\ UNCHANGED <<voice, gptLive, told, sessionVars, early, callVars2, stopper>>

Initialized(t) == Answered(t) /\ req[Creator(t)].is = "initialize" /\ Goes(t, "account")
                  /\ UNCHANGED <<sub, inQueue>>
SignedIn(t) == Answered(t) /\ req[Creator(t)].is = "account" /\ Goes(t, "thread")
               /\ UNCHANGED <<sub, inQueue>>

(* subscribe, on the link there is by now.                                 *)
Subscribe(t) ==
    /\ Answered(t) /\ req[Creator(t)].is = "thread" /\ link # 0
    /\ Goes(t, "start")
    /\ sub' = [sub EXCEPT ![t] = link] /\ UNCHANGED inQueue

Started(t) ==
    /\ Answered(t) /\ create[t] = "start"
    /\ create' = [create EXCEPT ![t] = "wait"]
    /\ req' = [req EXCEPT ![Creator(t)] = NoRequest]
    /\ UNCHANGED <<voice, gptLive, link, server, mailbox, told, sessionVars, queueVars, callVars2, stopper>>

BugRequeued(t, q) == q \o early[t]      \* Mutant: what came before the answer goes last.
Requeued(t, q) == early[t] \o q

(* The answer comes, and the service attaches in the same step.            *)
ReadsAhead(t) ==
    /\ create[t] = "wait" /\ inQueue[t] # <<>>
    /\ \/ /\ Head(inQueue[t]) = Sdp
          /\ create' = [create EXCEPT ![t] = "attached"]
          /\ conn' = [conn EXCEPT ![t] = "open"]
          /\ inQueue' = [inQueue EXCEPT ![t] = Requeued(t, Tail(@))]
          /\ early' = [early EXCEPT ![t] = <<>>]
       \/ /\ Head(inQueue[t])[1] = "note"
          /\ early' = [early EXCEPT ![t] = Append(@, Head(inQueue[t]))]
          /\ inQueue' = [inQueue EXCEPT ![t] = Tail(@)]
          /\ UNCHANGED <<create, conn>>
    /\ UNCHANGED <<voice, gptLive, rpcVars, told, sessionVars, sub, lastHeard, verdict, stopper>>

(* abandon: the queue is taken off the current link, and a task stops what *)
(* may have been started.                                                  *)
Unsubscribed(t) == IF link # 0 /\ sub[t] = link THEN [sub EXCEPT ![t] = 0] ELSE sub
BugAbandoned(t, cancelled) == ~cancelled /\ create[t] \in {"start", "wait"}   \* Mutant: except Exception.
Abandoned(t, cancelled) == create[t] \in {"start", "wait"}

Fail(t, status, cancelled) ==
    /\ create' = [create EXCEPT ![t] = "failed"]
    /\ told' = [told EXCEPT ![t] = status]
    /\ IF Abandoned(t, cancelled)
       THEN stopper' = [stopper EXCEPT ![t] = "due"] /\ sub' = Unsubscribed(t)
       ELSE UNCHANGED <<stopper, sub>>
    /\ IF req[Creator(t)].is = "initialize" THEN Discard(Creator(t))
       ELSE req' = [req EXCEPT ![Creator(t)] = NoRequest] /\ UNCHANGED <<link, server, mailbox>>
    /\ remote' = IF req[Creator(t)].is = "initialize"
                 THEN [u \in Threads |-> IF serverOf[u] = req[Creator(t)].on /\ remote[u] = "running"
                                         THEN "gone" ELSE remote[u]]
                 ELSE remote
    /\ UNCHANGED <<voice, gptLive, serverOf, sent, inQueue, early, callVars2>>

ThreadRefused(t) ==
    /\ ~gptLive
    /\ \/ /\ create[t] \in Creating \ {"wait"} /\ req[Creator(t)].reply = "error"
          /\ Fail(t, IF create[t] = "account" THEN "rejected" ELSE "unknown", FALSE)
       \/ Answered(t) /\ req[Creator(t)].is = "thread" /\ link = 0 /\ Fail(t, "unknown", FALSE)
       \/ /\ create[t] = "wait" /\ inQueue[t] # <<>>
          /\ Head(inQueue[t]) \in {Ended, Refusal, Lost}
          /\ Fail(t, IF Head(inQueue[t]) = Lost THEN "unknown" ELSE "rejected", FALSE)
       \/ create[t] = "wait" /\ Fail(t, "unknown", FALSE)      \* no answer in time

CancelCreate(t) == ~gptLive /\ create[t] \in Creating /\ Fail(t, "cancelled", TRUE)

-----------------------------------------------------------------------------
(* GPT-Live: one POST makes the session, another hangs it up.              *)

PostSession(t) ==
    /\ create[t] = "new" /\ voice = "up" /\ gptLive
    /\ \A u \in Threads : create[u] \notin Creating
    /\ create' = [create EXCEPT ![t] = "posting"]
    /\ UNCHANGED <<voice, gptLive, rpcVars, told, sessionVars, queueVars, callVars2, stopper>>

(* A known rejection allocates nothing; after another error, a timeout, a  *)
(* broken body or a cancelled request nobody knows.                        *)
Posted(t) ==
    /\ create[t] = "posting"
    /\ \E status \in {"rejected", "unknown", "cancelled", "none"}, allocated \in BOOLEAN :
          /\ status = "none" => allocated
          /\ status = "rejected" => ~allocated
          /\ remote' = [remote EXCEPT ![t] = IF allocated THEN "running" ELSE @]
          /\ told' = [told EXCEPT ![t] = status]
          /\ create' = [create EXCEPT ![t] = IF status = "none" THEN "attach" ELSE "failed"]
          /\ serverOf' = [serverOf EXCEPT ![t] = IF status = "none" THEN 1 ELSE 0]
    /\ UNCHANGED <<voice, gptLive, rpcVars, sent, queueVars, callVars2, stopper>>

BugHangsUp(t) == UNCHANGED stopper      \* Mutant: the failed attach is only reported.
HangsUp(t) == stopper' = [stopper EXCEPT ![t] = "due"]
Attach(t) ==
    /\ create[t] = "attach"
    /\ \/ /\ create' = [create EXCEPT ![t] = "attached"]
          /\ conn' = [conn EXCEPT ![t] = "open"]
          /\ UNCHANGED <<told, stopper>>
       \/ /\ create' = [create EXCEPT ![t] = "failed"]      \* also when cancelled
          /\ told' = [told EXCEPT ![t] = "unknown"]
          /\ HangsUp(t) /\ UNCHANGED conn
    /\ UNCHANGED <<voice, gptLive, rpcVars, sessionVars, queueVars, lastHeard, verdict>>

-----------------------------------------------------------------------------
(* The connection.                                                         *)

(* __anext__: only a closure the provider sent is one; of the others the   *)
(* call learns that the connection is lost.                                *)
BugIsLoss(message) == message = Lost /\ FALSE    \* Mutant: any closure will do.
IsLoss(message) == message = Lost
Hear(t) ==
    /\ conn[t] = "open" /\ verdict[t] = "none" /\ inQueue[t] # <<>>
    /\ LET message == Head(inQueue[t])
       IN IF message[1] = "note"
          THEN lastHeard' = [lastHeard EXCEPT ![t] = message[2]] /\ UNCHANGED verdict
          ELSE /\ verdict' = [verdict EXCEPT ![t] =
                    IF IsLoss(message) THEN "lost" ELSE IF message = Refusal THEN @ ELSE "closed"]
               /\ UNCHANGED lastHeard
    /\ inQueue' = [inQueue EXCEPT ![t] = Tail(@)]
    /\ UNCHANGED <<voice, gptLive, rpcVars, create, told, sessionVars, sub, early, conn, stopper>>

(* session.close, a version that does not match, or close: one _stop.      *)
StopOnce(t) ==
    /\ conn[t] = "open" /\ ~gptLive /\ stopper[t] = "none" /\ verdict[t] # "closed"
    /\ stopper' = [stopper EXCEPT ![t] = "due"]
    /\ UNCHANGED <<voice, gptLive, rpcVars, create, told, sessionVars, queueVars, callVars2>>

(* _stop_quietly, _request_stop, _hangup.                                  *)
AskStop(t) ==
    /\ stopper[t] = "due"
    /\ stopper' = [stopper EXCEPT ![t] = "asked"]
    /\ IF gptLive THEN UNCHANGED rpcVars ELSE AskServer(Stopper(t), "stop")
    /\ UNCHANGED <<voice, gptLive, create, told, sessionVars, queueVars, callVars2>>

StopAnswered(t) ==
    /\ stopper[t] = "asked" /\ req[Stopper(t)].reply \in {"ok", "error"}
    /\ stopper' = [stopper EXCEPT ![t] = "done"]
    /\ req' = [req EXCEPT ![Stopper(t)].reply = "none"]
    /\ inQueue' = IF req[Stopper(t)].reply = "error" /\ conn[t] = "open"
                  THEN [inQueue EXCEPT ![t] = Append(@, Lost)] ELSE inQueue
    /\ UNCHANGED <<voice, gptLive, link, server, mailbox, create, told, sessionVars, sub, early, callVars2>>

HungUp(t) ==
    /\ gptLive /\ stopper[t] = "asked"
    /\ stopper' = [stopper EXCEPT ![t] = "done"]
    /\ remote' \in {remote, [remote EXCEPT ![t] = "ended"]}
    /\ UNCHANGED <<voice, gptLive, rpcVars, create, told, serverOf, sent, queueVars, callVars2>>

(* close, after _run: it waits for the stop, but not forever; with Live    *)
(* the service has sent session.close and the socket is closed.            *)
CloseConnection(t) ==
    /\ conn[t] = "open"
    /\ IF gptLive THEN stopper' = [stopper EXCEPT ![t] = "done"]
       ELSE stopper[t] # "due" /\ (stopper[t] = "none" => verdict[t] = "closed") /\ UNCHANGED stopper
    /\ conn' = [conn EXCEPT ![t] = "closed"]
    /\ sub' = Unsubscribed(t)
    /\ UNCHANGED <<voice, gptLive, rpcVars, create, told, sessionVars, inQueue, early, lastHeard, verdict>>

-----------------------------------------------------------------------------
(* usage, and the end.                                                     *)

ReadUsage ==
    /\ voice = "up" /\ ~gptLive /\ req[UsagePoll] = NoRequest
    /\ EnsureStarted(UsagePoll)
    /\ UNCHANGED <<voice, gptLive, create, told, sessionVars, queueVars, callVars2, stopper>>

UsageRead ==
    /\ req[UsagePoll].reply \in {"ok", "error"}
    /\ IF req[UsagePoll] = [on |-> req[UsagePoll].on, is |-> "initialize", reply |-> "error"]
       THEN Discard(UsagePoll)
       ELSE req' = [req EXCEPT ![UsagePoll] = NoRequest] /\ UNCHANGED <<link, server, mailbox>>
    /\ remote' = IF req[UsagePoll].is = "initialize" /\ req[UsagePoll].reply = "error"
                 THEN [u \in Threads |-> IF serverOf[u] = req[UsagePoll].on /\ remote[u] = "running"
                                         THEN "gone" ELSE remote[u]]
                 ELSE remote
    /\ UNCHANGED <<voice, gptLive, create, told, serverOf, sent, queueVars, callVars2, stopper>>

(* stop: no create runs, every call ends, then the background stops, then  *)
(* the server is detached, its stdin closed, and its reader awaited.       *)
StopVoice ==
    /\ voice = "up" /\ \A t \in Threads : create[t] \notin Creating
    /\ voice' = "closing"
    /\ UNCHANGED <<gptLive, rpcVars, create, told, sessionVars, queueVars, callVars2, stopper>>

DetachServer ==
    /\ voice = "closing" /\ req[UsagePoll] = NoRequest
    /\ \A t \in Threads : conn[t] # "open" /\ stopper[t] \in {"none", "done"}
    /\ voice' = "detached" /\ link' = 0
    /\ UNCHANGED <<gptLive, server, mailbox, req, create, told, sessionVars, queueVars, callVars2, stopper>>

Detached == \A n \in Servers : server[n] \in {"new", "gone"}
VoiceStopped ==
    /\ voice = "detached" /\ Detached
    /\ voice' = "down"
    /\ UNCHANGED <<gptLive, rpcVars, create, told, sessionVars, queueVars, callVars2, stopper>>

TransportInit ==
    /\ voice = "up" /\ gptLive \in BOOLEAN /\ link = 0
    /\ server = [n \in Servers |-> "new"] /\ mailbox = [n \in Servers |-> <<>>]
    /\ req = [k \in Callers |-> NoRequest]
    /\ create = [t \in Threads |-> "new"] /\ told = [t \in Threads |-> "none"]
    /\ serverOf = [t \in Threads |-> 0] /\ remote = [t \in Threads |-> "none"]
    /\ sent = [t \in Threads |-> 0] /\ sub = [t \in Threads |-> 0]
    /\ inQueue = [t \in Threads |-> <<>>] /\ early = [t \in Threads |-> <<>>]
    /\ conn = [t \in Threads |-> "none"] /\ lastHeard = [t \in Threads |-> 0]
    /\ verdict = [t \in Threads |-> "none"] /\ stopper = [t \in Threads |-> "none"]

TransportNext ==
    \/ \E k \in Callers : RequestTimesOut(k)
    \/ \E n \in Servers : ServerDies(n) \/ NoteReaderEnds(n) \/ Serve(n)
    \/ \E t \in Threads :
          \/ Notify(t) \/ BeginCreate(t) \/ Initialized(t) \/ SignedIn(t) \/ Subscribe(t) \/ Started(t)
          \/ ReadsAhead(t) \/ ThreadRefused(t) \/ CancelCreate(t)
          \/ PostSession(t) \/ Posted(t) \/ Attach(t)
          \/ Hear(t) \/ StopOnce(t) \/ AskStop(t) \/ StopAnswered(t) \/ HungUp(t) \/ CloseConnection(t)
    \/ ReadUsage \/ UsageRead \/ StopVoice \/ DetachServer \/ VoiceStopped

-----------------------------------------------------------------------------

Minded(t) == create[t] \in Creating \/ conn[t] = "open" \/ stopper[t] # "none"
UnknownId(t) == gptLive /\ serverOf[t] = 0

(* No billable session is left to itself: one that runs has a create that  *)
(* waits for it, an open connection, or a stop; only GPT-Live can have     *)
(* made one whose id never came back.  A caller told "rejected" has none,  *)
(* and a call told "closed" has none either: losing sight of the provider  *)
(* is reported as a loss.                                                  *)
NoSessionAstray ==
    \A t \in Threads :
        /\ remote[t] = "running" => Minded(t) \/ UnknownId(t)
        /\ told[t] = "rejected" => remote[t] # "running"
        /\ verdict[t] = "closed" /\ ~gptLive => remote[t] # "running"

(* Nobody waits for an app-server that is gone: not a request, not a call  *)
(* that reads its queue, also when a new server runs by now.  And a call   *)
(* hears what the provider says in the order it was said, over the answer  *)
(* in the middle of it and the change of readers there.                    *)
NobodyDeaf ==
    /\ \A k \in Callers : req[k].reply = "waiting" => server[req[k].on] # "gone"
    /\ \A t \in Threads :
          /\ (conn[t] = "open" /\ ~gptLive /\ verdict[t] = "none") \/ create[t] = "wait" =>
                server[serverOf[t]] # "gone" \/ Holds(inQueue[t], Lost) \/ Holds(inQueue[t], Ended)
          /\ conn[t] = "open" => \A i \in 1..Len(inQueue[t]) :
                inQueue[t][i][1] = "note" => inQueue[t][i][2] =
                    lastHeard[t] + Cardinality({j \in 1..i : inQueue[t][j][1] = "note"})
TransportSafety == NoSessionAstray /\ NobodyDeaf
=============================================================================
