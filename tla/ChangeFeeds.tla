---------------------------- MODULE ChangeFeeds ----------------------------
(***************************************************************************)
(* How a host keeps an index of the runtime's records: app/tasks/_store.py *)
(* with repositories/_tasks.py and _ordering.py, base/cursors.py and the   *)
(* lists of app/tasks/interface.py.  Tasks and messages to agents have the *)
(* same operations; the module has one table of such records.              *)
(*                                                                         *)
(* In memory a write is one step.  With Postgres it is a transaction: the  *)
(* record is stamped with the time the transaction began, waits for the    *)
(* row it changes, and is seen from its commit.  Time is a counter, and a  *)
(* transaction takes at most MaxHold of it.                               *)
(***************************************************************************)
EXTENDS Integers, Sequences, FiniteSets, SequencesExt, TLC

CONSTANTS
    RecordIds,    \* ids of records: numbers, in no relation to their creation
    Transactors,  \* transactions that run at a time
    Principals,   \* who creates records and lists them, but for an administrator
    Admin,
    Limit,        \* records on a page
    MaxHold,      \* the longest transaction
    MaxPass,      \* the longest pass of a reader over the pages of what changed
    Overlap,      \* how much earlier than its last cursor it starts the next pass
    MaxTime,      \* bounds: the time
    MaxVersions   \* and the writes of a record

(* "Re-read with a few seconds of overlap": enough of them.                *)
ASSUME FeedAssumption == Overlap > MaxHold + MaxPass /\ Limit > 0

VARIABLES
    durable,   \* which store the service has
    now,
    rowsById,  \* committed records by id, None if there is none
    inserted,  \* the ids in the order their records were inserted
    txn,       \* the writers' transactions
    mirror,    \* the host's index: the version of each record it last read
    pass,      \* its pass over what changed
    walk       \* a walk over the list, newest first

feedVars == <<durable, now, rowsById, inserted, txn, mirror, pass, walk>>

NoRecord == [version |-> 0]
Rest == [step |-> "rest"]
Present == {i \in RecordIds : rowsById[i] # NoRecord}

-----------------------------------------------------------------------------
(* Writes.  A record is created queued, runs, and finishes; each change    *)
(* names the states it may be made from.                                   *)

New(creator, at) ==
    [version |-> 1, status |-> "queued", by |-> creator, created |-> at, updated |-> at]

BugRowChanged(row, status, at) == [row EXCEPT !.version = @ + 1, !.status = status]   \* Mutant: not stamped.
RowChanged(row, status, at) ==
    [row EXCEPT !.version = @ + 1, !.status = status, !.updated = at]

OnlyFrom(status) == CASE status = "running" -> {"queued"}
                      [] OTHER -> {"queued", "running"}
MayChange(i, status) ==
    i \in Present /\ rowsById[i].status \in OnlyFrom(status) /\ rowsById[i].version < MaxVersions

Insert(i, row) ==
    /\ rowsById' = [rowsById EXCEPT ![i] = row]
    /\ inserted' = Append(inserted, i)

(* InMemoryTaskStore: create and update.                                   *)
CreateInMemory(i, p) ==
    /\ ~durable /\ i \notin Present
    /\ Insert(i, New(p, now))
    /\ UNCHANGED <<durable, now, txn, mirror, pass, walk>>
UpdateInMemory(i, status) ==
    /\ ~durable /\ MayChange(i, status)
    /\ rowsById' = [rowsById EXCEPT ![i] = RowChanged(@, status, now)]
    /\ UNCHANGED <<durable, now, inserted, txn, mirror, pass, walk>>

(* DatabaseTaskStore.  now() is the time its transaction began.            *)
OpensRow(w, write) ==
    /\ durable /\ txn[w] = Rest /\ txn' = [txn EXCEPT ![w] = write @@ [at |-> now]]
    /\ UNCHANGED <<durable, now, rowsById, inserted, mirror, pass, walk>>

BeginInsert(w, i, p) ==
    i \notin Present /\ (\A v \in Transactors : txn[v] # Rest => txn[v].id # i)
        /\ OpensRow(w, [step |-> "create", id |-> i, by |-> p])
BeginChange(w, i, status) ==
    i \in Present /\ OpensRow(w, [step |-> "update", id |-> i, status |-> status])

(* The row is free: the condition is checked on what is committed by then. *)
Locked(i) == \E v \in Transactors : txn[v].step = "commit" /\ i \in txn[v].ids
TakeRow(w) ==
    /\ txn[w].step = "update" /\ ~Locked(txn[w].id)
    /\ txn' = [txn EXCEPT ![w] = IF MayChange(txn[w].id, txn[w].status)
                                 THEN [step |-> "commit", ids |-> {txn[w].id}, at |-> txn[w].at,
                                       id |-> txn[w].id, status |-> txn[w].status]
                                 ELSE Rest]
    /\ UNCHANGED <<durable, now, rowsById, inserted, mirror, pass, walk>>

CommitRows(w) ==
    /\ \/ txn[w].step = "create" /\ Insert(txn[w].id, New(txn[w].by, txn[w].at))
       \/ /\ txn[w].step = "commit" /\ UNCHANGED inserted
          /\ rowsById' = [i \in RecordIds |-> IF i \in txn[w].ids
                                              THEN RowChanged(rowsById[i], txn[w].status, txn[w].at) ELSE rowsById[i]]
    /\ txn' = [txn EXCEPT ![w] = Rest]
    /\ UNCHANGED <<durable, now, mirror, pass, walk>>

(* The connection is lost: nothing is written.                             *)
Rollback(w) ==
    /\ txn[w] # Rest /\ txn' = [txn EXCEPT ![w] = Rest]
    /\ UNCHANGED <<durable, now, rowsById, inserted, mirror, pass, walk>>

(* mark_unfinished, as the runtime starts again: all in one transaction.   *)
Unfinished == {i \in Present : MayChange(i, "interrupted")}
Restart(w) ==
    /\ durable /\ \A v \in Transactors : txn[v] = Rest
    /\ Unfinished # {}
    /\ txn' = [txn EXCEPT ![w] = [step |-> "commit", ids |-> Unfinished, at |-> now,
                                  id |-> CHOOSE i \in Unfinished : TRUE, status |-> "interrupted"]]
    /\ UNCHANGED <<durable, now, rowsById, inserted, mirror, pass, walk>>

Tick ==
    /\ now < MaxTime /\ now' = now + 1
    /\ \A w \in Transactors : txn[w] # Rest => now < txn[w].at + MaxHold
    /\ pass.step # "rest" => now < pass.began + MaxPass
    /\ UNCHANGED <<durable, rowsById, inserted, txn, mirror, pass, walk>>

-----------------------------------------------------------------------------
(* Reads: what a caller may see, and pages of it.                          *)

VisibleTo(p) == {i \in Present : p = Admin \/ rowsById[i].by = p}
FeedPage(s) == SubSeq(s, 1, IF Len(s) < Limit THEN Len(s) ELSE Limit)

Precedes(at, i, later, j) == at < later \/ (at = later /\ i < j)

(* A change cursor: a time, and the id it continues after or 0 for a bare  *)
(* time, which keeps later ones only.                                      *)
BugAdmits(c, i) == rowsById[i].updated > c.at   \* Mutant: a page's last time is not read again.
Admits(c, i) == IF c.id = 0 THEN rowsById[i].updated > c.at
                ELSE Precedes(c.at, c.id, rowsById[i].updated, i)

ChangedAfter(p, c) ==
    FeedPage(SetToSortSeq({i \in VisibleTo(p) : Admits(c, i)},
                          LAMBDA i, j : Precedes(rowsById[i].updated, i, rowsById[j].updated, j)))

(* The records created before one, 0 for all of them: by creation time, or *)
(* by their order in memory.                                               *)
Older(p, before) ==
    FeedPage(IF durable
             THEN SetToSortSeq({i \in VisibleTo(p) : before = 0 \/
                                    Precedes(rowsById[i].created, i, rowsById[before].created, before)},
                               LAMBDA i, j : Precedes(rowsById[j].created, j, rowsById[i].created, i))
             ELSE SelectSeq(Reverse(IF before = 0 THEN inserted
                                    ELSE SubSeq(inserted, 1, CHOOSE n \in 0..Len(inserted) - 1 :
                                                                inserted[n + 1] = before)),
                            LAMBDA i : i \in VisibleTo(p)))

-----------------------------------------------------------------------------
(* A host that mirrors the records: pass after pass, page after page.      *)

BeginPass ==
    /\ pass.step = "rest"
    /\ pass' = [step |-> "paging", by |-> pass.by, began |-> now,
                cursor |-> [at |-> pass.last - Overlap, id |-> 0], last |-> pass.last,
                due |-> [i \in VisibleTo(pass.by) |-> rowsById[i].version]]
    /\ UNCHANGED <<durable, now, rowsById, inserted, txn, mirror, walk>>

ReadChanges ==
    /\ pass.step = "paging"
    /\ LET page == ChangedAfter(pass.by, pass.cursor)
           end == page[Len(page)]
       IN  /\ mirror' = [i \in RecordIds |-> IF i \in ToSet(page) THEN rowsById[i].version ELSE mirror[i]]
           /\ pass' = [pass EXCEPT
                 !.step = IF Len(page) < Limit THEN "ended" ELSE "paging",
                 !.cursor = IF page = <<>> THEN @ ELSE [at |-> rowsById[end].updated, id |-> end],
                 !.last = IF page = <<>> THEN @ ELSE rowsById[end].updated]
    /\ UNCHANGED <<durable, now, rowsById, inserted, txn, walk>>

EndPass ==
    /\ pass.step = "ended" /\ pass' = [step |-> "rest", by |-> pass.by, last |-> pass.last]
    /\ UNCHANGED <<durable, now, rowsById, inserted, txn, mirror, walk>>

(* A walk continues before the last record of the page before.             *)
BeginWalk(p) ==
    /\ walk = Rest
    /\ walk' = [step |-> "paging", by |-> p, before |-> 0, listed |-> <<>>, due |-> VisibleTo(p)]
    /\ UNCHANGED <<durable, now, rowsById, inserted, txn, mirror, pass>>
ReadOlder ==
    /\ walk.step = "paging"
    /\ LET page == Older(walk.by, walk.before)
       IN  walk' = [walk EXCEPT
              !.step = IF Len(page) < Limit THEN "ended" ELSE "paging",
              !.before = IF page = <<>> THEN @ ELSE page[Len(page)],
              !.listed = @ \o page]
    /\ UNCHANGED <<durable, now, rowsById, inserted, txn, mirror, pass>>
EndWalk ==
    /\ walk.step = "ended" /\ walk' = Rest
    /\ UNCHANGED <<durable, now, rowsById, inserted, txn, mirror, pass>>

-----------------------------------------------------------------------------
FeedInit ==
    /\ durable \in BOOLEAN /\ now = 0
    /\ rowsById = [i \in RecordIds |-> NoRecord] /\ inserted = <<>>
    /\ txn = [w \in Transactors |-> Rest]
    /\ mirror = [i \in RecordIds |-> 0]
    /\ \E p \in Principals \cup {Admin} : pass = [step |-> "rest", by |-> p, last |-> 0]
    /\ walk = Rest

FeedNext ==
    \/ Tick \/ BeginPass \/ ReadChanges \/ EndPass \/ ReadOlder \/ EndWalk
    \/ \E p \in Principals \cup {Admin} : BeginWalk(p)
    \/ \E i \in RecordIds : \/ \E p \in Principals : CreateInMemory(i, p)
                            \/ \E s \in {"running", "done"} : UpdateInMemory(i, s)
    \/ \E w \in Transactors :
         \/ TakeRow(w) \/ CommitRows(w) \/ Rollback(w) \/ Restart(w)
         \/ \E i \in RecordIds : \/ \E p \in Principals : BeginInsert(w, i, p)
                                 \/ \E s \in {"running", "done"} : BeginChange(w, i, s)

FeedSpec == FeedInit /\ [][FeedNext]_feedVars

-----------------------------------------------------------------------------
(* Properties.                                                             *)

(* Change cursors with an overlap miss nothing: what was committed when a  *)
(* pass began is in the host's index when it ends, unless it was written   *)
(* again since and is for the next pass.                                   *)
MirrorIsWhole ==
    pass.step = "ended" =>
        \A i \in DOMAIN pass.due : mirror[i] >= pass.due[i] \/ rowsById[i].version > pass.due[i]

(* "before names a task the caller can see and lists only older ones": a   *)
(* walk lists every record that was there when it began, and none twice.   *)
WalkIsWhole ==
    walk # Rest =>
        /\ IsInjective(walk.listed)
        /\ walk.step = "ended" => walk.due \subseteq ToSet(walk.listed)

FeedsAreWhole == MirrorIsWhole /\ WalkIsWhole
=============================================================================
