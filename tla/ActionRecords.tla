--------------------------- MODULE ActionRecords ---------------------------
(***************************************************************************)
(* The action service (services/actions) with Postgres: the record of what *)
(* a host proposed and carried out, and of the owner's confirmations.      *)
(*                                                                         *)
(* A request is one transaction: it takes the row lock of what it changes, *)
(* or the lock of the confirmations' feed, reads under it, and writes at   *)
(* its commit.  The writes of a confirmation also touch its action, which  *)
(* waits for that row's lock.  Anything may fail before the commit, which  *)
(* undoes the transaction; the sequence of the confirmations is not        *)
(* undone.  A request that is refused changes nothing.  In memory one lock *)
(* makes a whole request a single step: those are behaviours of this       *)
(* module too.                                                             *)
(***************************************************************************)
EXTENDS Integers, Sequences, FiniteSets

CONSTANTS
    Requests,       \* transactions, each made once
    Actions,        \* 1..n: ids of actions, in the order they are given
    Confirmations,  \* ids of confirmations, chosen by hosts
    Statuses,       \* some of ACTION_STATUSES
    Recipients,
    Readers,        \* hosts that follow the feed of confirmations
    PageSize


VARIABLES
    actions,        \* [Actions -> Action]: committed rows
    confirmations,  \* [Confirmations -> Confirmation]: committed rows
    nextSeq,        \* the identity of action_confirmations
    feedLock,       \* who holds the advisory lock of the feed
    tx,             \* [Requests -> transaction]
    cursor,         \* [Readers -> Nat]: after
    received        \* [Readers -> SUBSET Confirmations]

actionVars == <<actions, confirmations, nextSeq, feedLock, tx, cursor, received>>
tables == <<actions, confirmations>>
feed == <<cursor, received>>

Free == "free"

(* A page shows something, and only finitely many confirmations are made.  *)
ASSUME ActionAssumption ==
    /\ PageSize \in Nat \ {0} /\ IsFiniteSet(Confirmations) /\ Free \notin Requests

NoAction == [history |-> <<>>]
NewAction(s) == [history |-> <<s>>, revision |-> 1, text |-> 1, proposed |-> 0, results |-> {}]
Exists(a) == actions[a] # NoAction
NoConfirmation == [seq |-> 0]
Recorded(i) == confirmations[i] # NoConfirmation
StatusOf(action) == action.history[Len(action.history)]

(* A transaction: what it does, to which row, and what it read.            *)
Unasked == [step |-> "unasked"]
Done == [step |-> "done"]
Working(r) == tx[r].step \notin {"unasked", "done"}
UpdateOf(a, current) == [step |-> "update", on |-> a, current |-> current]
SettleOf(i, current) == [step |-> "settle", on |-> i, current |-> current]
ConfirmOf(i, a, seq) == [step |-> "confirm", on |-> i, action |-> a, seq |-> seq]

ActionInit ==
    /\ actions = [a \in Actions |-> NoAction]
    /\ confirmations = [i \in Confirmations |-> NoConfirmation]
    /\ nextSeq = 1 /\ feedLock = Free
    /\ tx = [r \in Requests |-> Unasked]
    /\ cursor = [d \in Readers |-> 0] /\ received = [d \in Readers |-> {}]

(* with_for_update: the row is held until the end of the transaction.      *)
BugRowFree(step, x) == TRUE   \* Mutant: the rows are read without a lock.
RowFree(step, x) == \A r \in Requests : tx[r].step = step => tx[r].on # x

(* _in_commit_order                                                        *)
BugFeedFree == TRUE   \* Mutant: insertions do not wait for one another.
FeedFree == feedLock = Free

End(r) == tx' = [tx EXCEPT ![r] = Done]
Hold(r, t) == tx' = [tx EXCEPT ![r] = t]

-----------------------------------------------------------------------------
(* create                                                                  *)
Create(r, a, s) ==
    /\ tx[r] = Unasked /\ ~Exists(a) /\ \A b \in Actions : b < a => Exists(b)
    /\ actions' = [actions EXCEPT ![a] = NewAction(s)]
    /\ End(r)
    /\ UNCHANGED <<confirmations, nextSeq, feedLock, feed>>

(* update: the action is read under its lock, and must be in an expected   *)
(* status and at the expected revision.                                    *)
UpdateReads(r, a) ==
    /\ tx[r] = Unasked /\ Exists(a) /\ RowFree("update", a)
    /\ Hold(r, UpdateOf(a, actions[a]))
    /\ UNCHANGED <<tables, nextSeq, feedLock, feed>>

(* The columns a change writes, from what was read: a new status is added  *)
(* to the history, a new text raises the revision and keeps the first one, *)
(* results are merged.                                                     *)
Changed(row, current, s, rewritten, xs) ==
    [history |-> IF s = StatusOf(current) THEN row.history ELSE Append(current.history, s),
     revision |-> IF rewritten THEN current.revision + 1 ELSE row.revision,
     text |-> IF rewritten THEN current.revision + 1 ELSE row.text,
     proposed |-> IF rewritten /\ current.proposed = 0 THEN current.text ELSE row.proposed,
     results |-> IF xs = {} THEN row.results ELSE current.results \cup xs]

UpdateCommits(r) ==
    /\ tx[r].step = "update"
    /\ \E s \in Statuses, rewritten \in BOOLEAN, xs \in SUBSET Recipients :
          actions' = [actions EXCEPT
                         ![tx[r].on] = Changed(@, tx[r].current, s, rewritten, xs)]
    /\ End(r)
    /\ UNCHANGED <<confirmations, nextSeq, feedLock, feed>>

(* confirm: the insertion waits for the feed's lock, is given a seq, and   *)
(* adds nothing if the id is taken.                                        *)
ConfirmInserts(r, i, a) ==
    /\ tx[r] = Unasked /\ Exists(a) /\ FeedFree /\ RowFree("confirm", i)
    /\ nextSeq' = nextSeq + 1
    /\ IF Recorded(i) THEN End(r) /\ UNCHANGED feedLock
                      ELSE Hold(r, ConfirmOf(i, a, nextSeq)) /\ feedLock' = r
    /\ UNCHANGED <<tables, feed>>

(* It touches its action, and is committed with the lock of the feed.      *)
ConfirmCommits(r) ==
    /\ tx[r].step = "confirm" /\ RowFree("update", tx[r].action)
    /\ confirmations' = [confirmations EXCEPT ![tx[r].on] =
            [seq |-> tx[r].seq, action |-> tx[r].action, status |-> "confirmed",
             by |-> r, signed |-> Free, settled |-> Free, reconciled |-> FALSE]]
    /\ feedLock' = Free /\ End(r)
    /\ UNCHANGED <<actions, nextSeq, feed>>

(* update_confirmation: read under the row's lock.                         *)
SettleReads(r, i) ==
    /\ tx[r] = Unasked /\ Recorded(i) /\ RowFree("settle", i)
    /\ Hold(r, SettleOf(i, confirmations[i]))
    /\ UNCHANGED <<tables, nextSeq, feedLock, feed>>

(* It is signed or settled while it is confirmed; reconciled at any time.  *)
Open(c) == c.status = "confirmed"

Settled(c, r, s, signs, noted) ==
    [c EXCEPT !.status = IF s = Free THEN @ ELSE s,
              !.settled = IF s = Free THEN @ ELSE r,
              !.signed = IF signs THEN r ELSE @,
              !.reconciled = noted]

SettleCommits(r) ==
    /\ tx[r].step = "settle" /\ RowFree("update", tx[r].current.action)
    /\ \E s \in {"sent", "failed", Free}, signs, noted \in BOOLEAN :
          /\ s # Free \/ signs => Open(tx[r].current)
          /\ confirmations' = [confirmations EXCEPT
                                  ![tx[r].on] = Settled(@, r, s, signs, noted)]
    /\ End(r)
    /\ UNCHANGED <<actions, nextSeq, feedLock, feed>>

(* A statement or the commit fails, or nothing is left to change.          *)
RollBack(r) ==
    /\ Working(r) /\ End(r)
    /\ feedLock' = IF feedLock = r THEN Free ELSE feedLock
    /\ UNCHANGED <<tables, nextSeq, feed>>

(* list_confirmations after the cursor: a page, in the order of seq.       *)
Page(d) ==
    LET after == {i \in Confirmations : confirmations[i].seq > cursor[d]}
    IN {i \in after : Cardinality({j \in after : confirmations[j].seq < confirmations[i].seq})
                          < PageSize}

Read(d) ==
    /\ Page(d) # {}
    /\ received' = [received EXCEPT ![d] = @ \cup Page(d)]
    /\ \E i \in Page(d) :
          /\ \A j \in Page(d) : confirmations[j].seq <= confirmations[i].seq
          /\ cursor' = [cursor EXCEPT ![d] = confirmations[i].seq]
    /\ UNCHANGED <<tables, nextSeq, feedLock, tx>>

ActionNext ==
    \/ \E r \in Requests :
          \/ \E a \in Actions : \/ \E s \in Statuses : Create(r, a, s)
                                \/ UpdateReads(r, a)
                                \/ \E i \in Confirmations : ConfirmInserts(r, i, a)
          \/ \E i \in Confirmations : SettleReads(r, i)
          \/ UpdateCommits(r) \/ ConfirmCommits(r) \/ SettleCommits(r) \/ RollBack(r)
    \/ \E d \in Readers : Read(d)

ActionSpec == ActionInit /\ [][ActionNext]_actionVars

-----------------------------------------------------------------------------
(* Properties.                                                             *)

(* A host that follows the confirmations by their seq misses none: what is *)
(* committed at or before its cursor was on a page it got.                 *)
FeedComplete ==
    \A d \in Readers, i \in Confirmations :
        Recorded(i) /\ confirmations[i].seq <= cursor[d] => i \in received[d]

(* Nothing recorded of an action is lost to a concurrent change: its       *)
(* history and results only grow, the first text stays, and each text has  *)
(* a revision of its own.                                                  *)
IsPrefixOf(s, t) == Len(s) <= Len(t) /\ SubSeq(t, 1, Len(s)) = s
ActionGrows(old, new) ==
    /\ IsPrefixOf(old.history, new.history) /\ old.results \subseteq new.results
    /\ old.revision <= new.revision
    /\ old.revision = new.revision => old.text = new.text
    /\ old.proposed # 0 => new.proposed = old.proposed

(* "What was confirmed never changes afterwards", neither do the signature *)
(* and the outcome of what is settled.                                     *)
ConfirmationStands(old, new) ==
    /\ <<old.seq, old.action, old.by>> = <<new.seq, new.action, new.by>>
    /\ old.status # "confirmed" =>
          <<old.status, old.settled, old.signed>> = <<new.status, new.settled, new.signed>>

RecordsStand ==
    [][/\ \A a \in Actions : Exists(a) => ActionGrows(actions[a], actions'[a])
       /\ \A i \in Confirmations :
             Recorded(i) => ConfirmationStands(confirmations[i], confirmations'[i])]_actionVars

(* What is recorded is neither missed by the feed nor undone.              *)
ActionsHold == []FeedComplete /\ RecordsStand
=============================================================================
