---------------------------- MODULE SessionTree ----------------------------
(***************************************************************************)
(* One session in SessionStore (app/assistant/_session_store.py) and in    *)
(* the database: its row, its messages, and the context that caches them.  *)
(* A context is an object: whoever got it keeps it after it was evicted,   *)
(* deleted, or replaced by one loaded from the rows.                       *)
(*                                                                         *)
(* The writers are a turn, which pins the session, a host message, which   *)
(* does not, an administrator's owner change and a save of the state after *)
(* a turn.  Turns and host messages exclude each other (SessionAdmission); *)
(* a DELETE and readers exclude nobody.  Other sessions are there only in  *)
(* what they evict.  Segments, pending calls (HostActions), steering       *)
(* (Delivery) and titles are left out.                                     *)
(***************************************************************************)
EXTENDS Naturals, Sequences, FiniteSets, SequencesExt

CONSTANTS
    MessageIds,
    Owners,        \* principals
    MaxContexts,   \* bound: contexts made
    MaxTreeFaults  \* bound: failed writes, deletions and restarts

ASSUME TreeAssumption == MaxContexts \in Nat /\ MaxTreeFaults \in Nat

VARIABLES
    sessionRow,  \* the session's row: [is, owner, subject]
    messages,    \* its messages, by created_at: [id, parent]
    contexts,    \* every context made so far
    cached,      \* _sessions: the number of its context, or 0
    load,        \* _pending_db_loads: [step, row, messages]
    writer,      \* the turn or host message under way
    admin,       \* the owner change under way: [step, owner, ctx]
    saver,       \* the context a turn's memory is saved from, or 0
    astray,      \* why the context may not follow the rows (see CacheFollowsRows)
    treeFaults

treeVars == <<sessionRow, messages, contexts, cached, load, writer, admin, saver, astray, treeFaults>>

NoId == "no message"
NoOwner == "nobody"
NoSubject == "unbound"
Root == "root"
NoRow == [is |-> "none", owner |-> NoOwner, subject |-> NoSubject]
NotLoading == [step |-> "none", row |-> NoRow, messages |-> <<>>]
NoWriter == [step |-> "idle"]
NoAdmin == [step |-> "idle"]

(* The tree of a context or of the table.                                  *)
IdsOf(ms) == {ms[i].id : i \in 1..Len(ms)}
Parents(ms) == {ms[i].parent : i \in 1..Len(ms)}
ParentOf(ms, id) == ms[CHOOSE i \in 1..Len(ms) : ms[i].id = id].parent
Latest(ms) ==
    LET leaves == {i \in 1..Len(ms) : ms[i].id \notin Parents(ms)}
    IN IF leaves = {} THEN NoId ELSE ms[CHOOSE i \in leaves : \A j \in leaves : j <= i].id
Path(ms, leaf) ==
    LET up[n \in 0..Len(ms)] ==
            IF n = 0 THEN <<leaf>>
            ELSE LET p == ParentOf(ms, Head(up[n - 1]))
                 IN IF p = NoId THEN up[n - 1] ELSE <<p>> \o up[n - 1]
    IN IF leaf = NoId THEN <<>> ELSE up[Len(ms)]

EmptyContext == [messages |-> <<>>, leaf |-> NoId, path |-> <<>>, owner |-> NoOwner, subject |-> NoSubject]
FromLoaded(r, ms) == [messages |-> ms, leaf |-> Latest(ms), path |-> Path(ms, Latest(ms)),
                      owner |-> r.owner, subject |-> r.subject]
Strays(why, cond) == astray' = IF cond THEN astray \cup {why} ELSE astray
Empty(c) == contexts[c].messages = <<>>

-----------------------------------------------------------------------------
(* The cache.                                                              *)

(* get_context: without the database.                                      *)
GetContext(c) ==
    IF cached # 0 THEN c = cached /\ UNCHANGED <<contexts, cached>>
    ELSE /\ Len(contexts) < MaxContexts
         /\ contexts' = Append(contexts, EmptyContext)
         /\ c = Len(contexts) + 1 /\ cached' = c

(* _load_session_singleflight: one load, whoever asks.                     *)
JoinLoad == load' = IF load.step = "none" THEN [load EXCEPT !.step = "asked"] ELSE load

(* Rows that have expired are not seen.                                    *)
Loadable == IF sessionRow.is = "live" THEN sessionRow ELSE NoRow
LoadReads ==
    /\ load.step = "asked"
    /\ load' = [load EXCEPT !.step = "read", !.row = Loadable, !.messages = messages]
    /\ UNCHANGED <<sessionRow, messages, contexts, cached, writer, admin, saver, astray, treeFaults>>

Waits(who) == who.step \in {"loading", "reloading"}
Taken(who, c) ==
    IF ~Waits(who) THEN who
    ELSE [who EXCEPT !.step = IF @ = "loading" THEN "got" ELSE "sure",
                     !.ctx = IF c = 0 /\ who.step = "reloading" THEN @ ELSE c]

(* load_and_publish.                                                       *)
LoadEnds ==
    /\ load.step = "read"
    /\ load' = NotLoading
    /\ LET found == load.row.is = "live"
           c == IF found THEN Len(contexts) + 1 ELSE 0
       IN /\ Len(contexts) < MaxContexts
          /\ contexts' = IF found THEN Append(contexts, FromLoaded(load.row, load.messages)) ELSE contexts
          /\ cached' = IF found THEN c ELSE cached
          /\ writer' = Taken(writer, c) /\ admin' = Taken(admin, c)
    /\ Strays("overtaken", <<load.row, load.messages>> # <<Loadable, messages>>)
    /\ UNCHANGED <<sessionRow, messages, saver, treeFaults>>

(* A read: GET of the session or its messages, the warm-up of a join.  It  *)
(* is left out between the load a turn waited for and what the turn does   *)
(* with it, which the event loop runs at once.                             *)
ReadTree ==
    /\ cached = 0 /\ load.step = "none" /\ writer.step \notin {"got", "sure"}
    /\ JoinLoad
    /\ UNCHANGED <<sessionRow, messages, contexts, cached, writer, admin, saver, astray, treeFaults>>

Warm ==
    /\ cached = 0 /\ load.step = "none" /\ sessionRow.is # "live"
    /\ GetContext(Len(contexts) + 1)
    /\ UNCHANGED <<sessionRow, messages, load, writer, admin, saver, astray, treeFaults>>

Pinned == writer.step # "idle" /\ writer.kind = "turn"
Evict ==
    /\ cached # 0 /\ ~Pinned /\ saver = 0
    /\ cached' = 0
    /\ UNCHANGED <<sessionRow, messages, contexts, load, writer, admin, saver, astray, treeFaults>>

-----------------------------------------------------------------------------
(* Writing a message: register_user_message, register_host_message.        *)

Begin(kind, id, parent, owner, subject) ==
    /\ writer.step = "idle" /\ saver = 0 /\ admin.step = "idle"
    /\ kind = "host" => parent = Root
    /\ writer' = [step |-> IF cached # 0 THEN "got" ELSE "loading", kind |-> kind, id |-> id,
                  parent |-> parent, owner |-> owner, subject |-> subject, ctx |-> cached,
                  asks |-> parent]
    /\ IF cached # 0 THEN UNCHANGED load ELSE JoinLoad
    /\ UNCHANGED <<sessionRow, messages, contexts, cached, admin, saver, astray, treeFaults>>

(* A context without messages may shadow a persisted session.              *)
BugShadowed(c) == FALSE     \* Mutant: the cached context is believed.
Shadowed(c) == c # 0 /\ contexts[c].messages = <<>>
Reload ==
    /\ writer.step = "got" /\ writer.asks = Root /\ Shadowed(writer.ctx)
    /\ writer' = [writer EXCEPT !.step = "reloading"]
    /\ JoinLoad
    /\ UNCHANGED <<sessionRow, messages, contexts, cached, admin, saver, astray, treeFaults>>

Refuse == writer' = NoWriter /\ UNCHANGED <<contexts, cached>>

(* Where the message goes and what it binds is decided before any write.   *)
Decide ==
    /\ \/ writer.step = "sure"
       \/ writer.step = "got" /\ ~(writer.asks = Root /\ Shadowed(writer.ctx))
    /\ LET c == writer.ctx
           known == IF c = 0 THEN {} ELSE IdsOf(contexts[c].messages)
       IN IF writer.id \in known \/ (writer.asks # Root /\ writer.asks \notin known) THEN Refuse
          ELSE \E n \in 1..MaxContexts :
            /\ IF c = 0 THEN GetContext(n) ELSE n = c /\ UNCHANGED <<contexts, cached>>
            /\ LET x == contexts'[n]
                   first == x.messages = <<>>
               IN writer' = [writer EXCEPT !.step = "ensure", !.ctx = n,
                    !.parent = IF writer.asks # Root THEN writer.asks ELSE x.leaf,
                    !.owner = IF first /\ x.owner = NoOwner THEN @ ELSE x.owner,
                    !.subject = IF first THEN @ ELSE x.subject]
    /\ UNCHANGED <<sessionRow, messages, load, admin, saver, astray, treeFaults>>

(* ensure_session, and set_binding for a first message.                    *)
BugBinds(x) == FALSE        \* Mutant: the row keeps what an earlier attempt wrote.
Binds(x) == x.messages = <<>> /\ (writer.subject # NoSubject \/ x.subject # NoSubject)
EnsureSession ==
    /\ writer.step = "ensure"
    /\ sessionRow.is # "expired"
    /\ LET made == IF sessionRow.is = "live" THEN sessionRow
                   ELSE [is |-> "live", owner |-> writer.owner, subject |-> writer.subject]
       IN sessionRow' = IF Binds(contexts[writer.ctx]) THEN [made EXCEPT !.subject = writer.subject] ELSE made
    /\ writer' = [writer EXCEPT !.step = "insert"]
    /\ Strays("ownerless", sessionRow.is = "live" /\ sessionRow.owner # writer.owner)
    /\ UNCHANGED <<messages, contexts, cached, load, admin, saver, treeFaults>>

(* create_message: ids are unique, a parent is a row, the root is one.     *)
Accepts(w) == /\ sessionRow.is # "none" /\ w.id \notin IdsOf(messages)
              /\ IF w.parent = NoId THEN messages = <<>> ELSE w.parent \in IdsOf(messages)
CreateMessage ==
    /\ writer.step = "insert"
    /\ IF Accepts(writer)
       THEN /\ messages' = Append(messages, [id |-> writer.id, parent |-> writer.parent])
            /\ writer' = [writer EXCEPT !.step = "add"]
       ELSE writer' = NoWriter /\ UNCHANGED messages
    /\ UNCHANGED <<sessionRow, contexts, cached, load, admin, saver, astray, treeFaults>>

(* A write fails, or (lost) its commit is not heard of.  The row of an     *)
(* expired session is still there, so ensure_session cannot insert it.     *)
WriteFails(lost) ==
    /\ writer.step \in {"ensure", "insert"}
    /\ treeFaults < MaxTreeFaults /\ treeFaults' = treeFaults + 1
    /\ lost => writer.step = "insert" /\ Accepts(writer)
    /\ messages' = IF lost THEN Append(messages, [id |-> writer.id, parent |-> writer.parent])
                   ELSE messages
    /\ Strays("lost", lost)
    /\ writer' = NoWriter
    /\ UNCHANGED <<sessionRow, contexts, cached, load, admin, saver>>

ExpiredFails ==
    /\ writer.step = "ensure" /\ sessionRow.is = "expired"
    /\ writer' = NoWriter
    /\ UNCHANGED <<sessionRow, messages, contexts, cached, load, admin, saver, astray, treeFaults>>

(* _add_message and _refresh_cached_path_for_new_leaf, without an await.   *)
BugNewPath(x, w) == Append(x.path, w.id)     \* Mutant: a branch keeps the old path.
NewPath(x, w) == IF x.leaf = w.parent THEN Append(x.path, w.id)
                 ELSE Append(Path(x.messages, w.parent), w.id)
AddMessage ==
    /\ writer.step = "add"
    /\ contexts' = [contexts EXCEPT ![writer.ctx] =
            [messages |-> Append(@.messages, [id |-> writer.id, parent |-> writer.parent]),
             leaf |-> writer.id, path |-> NewPath(@, writer), owner |-> writer.owner,
             subject |-> IF Binds(@) THEN writer.subject ELSE @.subject]]
    /\ writer' = [writer EXCEPT !.step = "save"]
    /\ Strays("unpinned", writer.ctx # cached)
    /\ UNCHANGED <<sessionRow, messages, cached, load, admin, saver, treeFaults>>

(* save_state of the cached context: an upsert that renews the expiry.     *)
BugUpserted(c) == [is |-> "live", owner |-> contexts[c].owner, subject |-> contexts[c].subject]
Upserted(c) == IF sessionRow.is = "none"
               THEN [is |-> "live", owner |-> contexts[c].owner, subject |-> contexts[c].subject]
               ELSE [sessionRow EXCEPT !.is = "live"]
Save ==
    /\ writer.step = "save"
    /\ writer' = NoWriter
    /\ sessionRow' = IF cached = 0 THEN sessionRow ELSE Upserted(cached)
    /\ UNCHANGED <<messages, contexts, cached, load, admin, saver, astray, treeFaults>>

(* The save of the memory extracted after a turn: the context it wrote.    *)
SaveMemory ==
    /\ saver = 0 /\ cached # 0 /\ ~Empty(cached)
    /\ saver' = cached
    /\ UNCHANGED <<sessionRow, messages, contexts, cached, load, writer, admin, astray, treeFaults>>
MemorySaved ==
    /\ saver # 0
    /\ saver' = 0
    /\ sessionRow' = Upserted(saver)
    /\ UNCHANGED <<messages, contexts, cached, load, writer, admin, astray, treeFaults>>

-----------------------------------------------------------------------------
(* Administration.                                                         *)

AskOwner(owner) ==
    /\ admin.step = "idle" /\ writer.step = "idle"
    /\ admin' = [step |-> IF cached # 0 THEN "got" ELSE "loading", owner |-> owner, ctx |-> cached]
    /\ IF cached # 0 THEN UNCHANGED load ELSE JoinLoad
    /\ UNCHANGED <<sessionRow, messages, contexts, cached, writer, saver, astray, treeFaults>>

SetOwner ==
    /\ admin.step = "got"
    /\ IF admin.ctx = 0
       THEN admin' = NoAdmin /\ UNCHANGED sessionRow
       ELSE /\ sessionRow' = IF sessionRow.is = "live" THEN [sessionRow EXCEPT !.owner = admin.owner] ELSE sessionRow
            /\ admin' = [admin EXCEPT !.step = "written"]
    /\ Strays("expired", sessionRow.is = "expired")
    /\ UNCHANGED <<messages, contexts, cached, load, writer, saver, treeFaults>>

OwnerSet ==
    /\ admin.step = "written"
    /\ contexts' = [contexts EXCEPT ![admin.ctx].owner = admin.owner]
    /\ admin' = NoAdmin
    /\ Strays("unpinned", admin.ctx # cached \/ load.step = "read")
    /\ UNCHANGED <<sessionRow, messages, cached, load, writer, saver, treeFaults>>

(* DELETE: the row, with all its messages; then the context.               *)
Delete ==
    /\ sessionRow.is # "none" /\ treeFaults < MaxTreeFaults /\ treeFaults' = treeFaults + 1
    /\ sessionRow' = NoRow /\ messages' = <<>> /\ cached' = 0
    /\ Strays("deleted", load.step = "read" \/ writer.step # "idle" \/ saver # 0 \/ admin.step # "idle")
    /\ UNCHANGED <<contexts, load, writer, admin, saver>>

Expire ==
    /\ sessionRow.is = "live" /\ treeFaults < MaxTreeFaults /\ treeFaults' = treeFaults + 1
    /\ sessionRow' = [sessionRow EXCEPT !.is = "expired"]
    /\ UNCHANGED <<messages, contexts, cached, load, writer, admin, saver, astray>>

(* A restart, whose cleanup_expired deletes the expired rows.              *)
RestartStore ==
    /\ treeFaults < MaxTreeFaults /\ treeFaults' = treeFaults + 1
    /\ sessionRow' = IF sessionRow.is = "expired" THEN NoRow ELSE sessionRow
    /\ messages' = IF sessionRow.is = "expired" THEN <<>> ELSE messages
    /\ cached' = 0 /\ load' = NotLoading /\ writer' = NoWriter /\ admin' = NoAdmin
    /\ saver' = 0 /\ astray' = {}
    /\ UNCHANGED contexts

TreeInit ==
    /\ sessionRow = NoRow /\ messages = <<>> /\ contexts = <<>> /\ cached = 0 /\ load = NotLoading
    /\ writer = NoWriter /\ admin = NoAdmin /\ saver = 0 /\ astray = {} /\ treeFaults = 0

TreeNext ==
    \/ LoadReads \/ LoadEnds \/ ReadTree \/ Warm \/ Evict
    \/ \E kind \in {"turn", "host"}, id \in MessageIds, parent \in MessageIds \cup {Root},
          owner \in Owners, subject \in {NoSubject, "s1"} : Begin(kind, id, parent, owner, subject)
    \/ Reload \/ Decide \/ EnsureSession \/ CreateMessage \/ ExpiredFails \/ AddMessage \/ Save
    \/ \E lost \in BOOLEAN : WriteFails(lost)
    \/ SaveMemory \/ MemorySaved
    \/ \E owner \in Owners \cup {NoOwner} : AskOwner(owner)
    \/ SetOwner \/ OwnerSet \/ Delete \/ Expire \/ RestartStore

-----------------------------------------------------------------------------

(* The write-through cache (docs/persistence.md): when no write is between *)
(* its commit and its context, a cached conversation is the one a restart  *)
(* would load: the same messages, the same active path, the same owner and *)
(* binding.  Left out are the histories the code does not order: a DELETE  *)
(* that meets work of its session, a host message whose context was        *)
(* evicted meanwhile, a commit nobody heard of, and a first message whose  *)
(* session has a row without its owner, which ensure_session leaves.       *)
CacheFollowsRows ==
    cached # 0 /\ astray = {} /\ ~Empty(cached) /\ sessionRow.is = "live"
    /\ writer.step # "add" /\ admin.step # "written" =>
        contexts[cached] = FromLoaded(sessionRow, messages)

(* What the pin is for: from its decision on, the context a turn writes to *)
(* is the cached one, whatever is evicted, read or loaded meanwhile, but   *)
(* for a DELETE, which nothing keeps from a running turn.                  *)
TurnKeepsItsContext ==
    writer.step \in {"ensure", "insert", "add", "save"} /\ writer.kind = "turn" =>
        cached = writer.ctx \/ "deleted" \in astray

(* A session's cache, its rows and its turns tell one story.               *)
TreeHolds == CacheFollowsRows /\ TurnKeepsItsContext
=============================================================================
