--------------------------- MODULE ArtifactStores ---------------------------
(***************************************************************************)
(* The two stores artifact versions are kept in (services/artifacts/_store *)
(* and the artifacts table), and the pages in which an owner reviews       *)
(* proposals (routes/artifacts).                                           *)
(*                                                                         *)
(* A runtime uses one store: lists in memory, or rows of the table.  Both  *)
(* are given the same calls here, by hosts over the routes and by the      *)
(* assistant with its tool, and have to answer alike.  A call is one step: *)
(* each store serialises the writes of an artifact (Artifacts models the   *)
(* transactions, and what fails in them).  A reviewer asks for one page    *)
(* after the other while calls go on.                                      *)
(***************************************************************************)
EXTENDS Integers, FiniteSets, SequencesExt

CONSTANTS
    ArtifactKeys,  \* [profile, subject, name]: artifacts, "" for no subject
    Declared,      \* those the profiles still declare
    Contents,      \* stripped, not empty
    Rules,         \* [edit, activate, host]: ArtifactPolicy
    Retained,      \* keep_versions
    ProposalPage,  \* limit of a page
    MaxId          \* bound: versions ever written

ASSUME StoresAssumption ==
    Declared \subseteq ArtifactKeys /\ ProposalPage \in Nat \ {0} /\ Retained \in Nat \ {0}

VARIABLES
    rule,         \* the policy of every artifact
    versionRows,  \* the rows
    lists,        \* [Keys -> the list in memory]
    idsIssued,    \* ids given out
    review,       \* the reviewer: between which pages, and what was shown
    due           \* history: proposals waiting since the review began

storesVars == <<rule, versionRows, lists, idsIssued, review, due>>

Absent == [version |-> 0, id |-> 0, text |-> "", status |-> "none", decider |-> ""]
Unspecified == -1
NewestId == MaxId + 1

-----------------------------------------------------------------------------
(* The table: ArtifactRepository.                                          *)

OfKey(k) == {r \in versionRows : r.key = k}
OneOf(rows) == IF rows = {} THEN Absent ELSE CHOOSE r \in rows : TRUE
RowActive(k) == OneOf({r \in OfKey(k) : r.status = "active"})
RowVersion(k, n) == OneOf({r \in OfKey(k) : r.version = n})
Highest(rows) == IF rows = {} THEN 0
                 ELSE CHOOSE n \in {r.version : r \in rows} : \A r \in rows : r.version <= n

VersionRow(k, n, text) ==
    [key |-> k, version |-> n, id |-> idsIssued + 1, text |-> text, status |-> "pending",
     decider |-> ""]

Activation(r, decider) ==
    [r EXCEPT !.status = "active",
              !.decider = IF r.status = "pending" THEN decider ELSE @]

RowsApproved(rows, n, decider) ==
    {IF r.version = n THEN Activation(r, decider)
     ELSE IF r.status = "active" THEN [r EXCEPT !.status = "superseded"] ELSE r : r \in rows}

RowsDeclined(rows, n, decider) ==
    {IF r.version = n /\ r.status = "pending"
     THEN [r EXCEPT !.status = "rejected", !.decider = decider] ELSE r : r \in rows}

RowsPruned(rows) ==
    LET old == {r \in rows : r.status = "superseded"}
        kept == {r \in old : Cardinality({q \in old : q.version > r.version}) < Retained}
    IN  rows \ (old \ kept)

ByNumber(rows) == SetToSortSeq(rows, LAMBDA a, b : a.version > b.version)
ById(rows) == SetToSortSeq(rows, LAMBDA a, b : a.id > b.id)
First(s, n) == SubSeq(s, 1, IF Len(s) < n THEN Len(s) ELSE n)

RowsInStatus(p, status, n, before) ==
    First(ById({r \in versionRows : r.key.profile = p /\ r.status = status /\ r.id < before}), n)
RowSubjects(p) == {r.key.subject : r \in {q \in versionRows : q.key.profile = p}} \ {""}

-----------------------------------------------------------------------------
(* The lists: InMemoryArtifactStore.                                       *)

FirstIn(s, Test(_)) == IF \E i \in DOMAIN s : Test(s[i])
                       THEN s[CHOOSE i \in DOMAIN s :
                                /\ Test(s[i]) /\ \A j \in 1..(i - 1) : ~Test(s[j])]
                       ELSE Absent
ListActive(k) == FirstIn(lists[k], LAMBDA r : r.status = "active")
ListVersion(k, n) == FirstIn(lists[k], LAMBDA r : r.version = n)

NextNumber(s) == Highest(ToSet(s)) + 1
ListProposed(k, s, text) == Append(s, VersionRow(k, NextNumber(s), text))

ListApproved(s, n, decider) ==
    [i \in DOMAIN s |->
        IF s[i].version = n THEN Activation(s[i], decider)
        ELSE IF s[i].status = "active" THEN [s[i] EXCEPT !.status = "superseded"] ELSE s[i]]

ListDeclined(s, n, decider) ==
    [i \in DOMAIN s |->
        IF s[i].version = n /\ s[i].status = "pending"
        THEN [s[i] EXCEPT !.status = "rejected", !.decider = decider] ELSE s[i]]

ListPruned(s) ==
    LET old == ByNumber({r \in ToSet(s) : r.status = "superseded"})
        dropped == {old[i].version : i \in {j \in DOMAIN old : j > Retained}}
    IN  SelectSeq(s, LAMBDA r : r.version \notin dropped)

InLists(p) == UNION {ToSet(lists[k]) : k \in {j \in ArtifactKeys : j.profile = p}}
ListsInStatus(p, status, n, before) ==
    First(ById({r \in InLists(p) : r.status = status /\ r.id < before}), n)
ListSubjects(p) ==
    {k.subject : k \in {j \in ArtifactKeys : j.profile = p /\ lists[j] # <<>>}} \ {""}

-----------------------------------------------------------------------------
(* The service.                                                            *)

(* _permitted                                                              *)
MayDo(kind, op) ==
    IF kind = "host" THEN rule.host
    ELSE \/ op = "propose" /\ rule.edit \in {"propose", "autonomous"}
         \/ op = "update" /\ rule.edit = "autonomous"
         \/ op \in {"activate", "reject"} /\ rule.activate

Asking(op, kind, n, text, expected) ==
    [op |-> op, kind |-> kind, version |-> n, text |-> text, expected |-> expected]

(* What an artifact's tool asks for, and what the routes ask for: the      *)
(* action endpoint names the decision, approve and rollback being one call.*)
ToolCalls ==
    {Asking(op, "assistant", 0, x, e) : op \in {"propose", "update"}, x \in Contents,
                                        e \in {Unspecified, 0, 1}}
        \cup {Asking("activate", "assistant", n, "", Unspecified) : n \in 1..MaxId}
HostCalls ==
    {Asking(op, "host", 0, x, e) : op \in {"propose", "update"}, x \in Contents,
                                   e \in {Unspecified, 0, 1}}
        \cup {Asking(op, "host", n, "", Unspecified) : op \in {"activate", "reject"},
                                                       n \in 1..MaxId}
        \cup {Asking("delete", "host", 0, "", Unspecified)}

(* What a call finds, given the active version and the one it names: an    *)
(* edit of another version than its author saw is refused, one that        *)
(* changes nothing is not stored, and a decision stands.                   *)
Finds(c, active, target) ==
    CASE c.op \in {"propose", "update"} ->
           IF c.expected \notin {Unspecified, active.version} THEN "conflict"
           ELSE IF active.version # 0 /\ active.text = c.text THEN "unchanged" ELSE "done"
      [] c.op = "activate" ->
           IF target.version = 0 THEN "missing"
           ELSE IF target.status = "rejected" THEN "conflict" ELSE "done"
      [] c.op = "reject" -> IF target.status = "pending" THEN "done" ELSE "conflict"
      [] OTHER -> "done"

RowsAfter(k, c) ==
    LET rows == OfKey(k)
        new == VersionRow(k, Highest(rows) + 1, c.text)
    IN  CASE c.op = "propose" -> rows \cup {new}
          [] c.op = "update" -> RowsPruned(RowsApproved(rows \cup {new}, new.version, ""))
          [] c.op = "activate" -> RowsPruned(RowsApproved(rows, c.version, c.kind))
          [] c.op = "reject" -> RowsDeclined(rows, c.version, c.kind)
          [] OTHER -> {}

ListAfter(k, c) ==
    LET s == lists[k]
    IN  CASE c.op = "propose" -> ListProposed(k, s, c.text)
          [] c.op = "update" ->
               ListPruned(ListApproved(ListProposed(k, s, c.text), NextNumber(s), ""))
          [] c.op = "activate" -> ListPruned(ListApproved(s, c.version, c.kind))
          [] c.op = "reject" -> ListDeclined(s, c.version, c.kind)
          [] OTHER -> <<>>

WaitingRows == {r \in versionRows : r.status = "pending" /\ r.key \in Declared}

Call(k, c) ==
    /\ k \in Declared /\ MayDo(c.kind, c.op)
    /\ c.op \in {"propose", "update"} => idsIssued < MaxId
    /\ LET inTable == Finds(c, RowActive(k), RowVersion(k, c.version)) = "done"
           inLists == Finds(c, ListActive(k), ListVersion(k, c.version)) = "done"
       IN  /\ inTable \/ inLists
           /\ versionRows' = IF inTable THEN (versionRows \ OfKey(k)) \cup RowsAfter(k, c) ELSE versionRows
           /\ lists' = IF inLists THEN [lists EXCEPT ![k] = ListAfter(k, c)] ELSE lists
    /\ idsIssued' = IF c.op \in {"propose", "update"} THEN idsIssued + 1 ELSE idsIssued
    /\ due' = {i \in due : \E r \in versionRows' : r.id = i /\ r.status = "pending"}
    /\ UNCHANGED <<rule, review>>

-----------------------------------------------------------------------------
(* The review: list_proposals over every profile, page after page.         *)

Rested == [step |-> "rested"]
ProfilesOf == {k.profile : k \in ArtifactKeys}

BugShown(before) ==   \* Mutant: no profile is asked for one more than a page.
    UNION {{r \in ToSet(RowsInStatus(p, "pending", ProposalPage, before)) : r.key \in Declared} :
           p \in ProfilesOf}
Shown(before) ==
    UNION {{r \in ToSet(RowsInStatus(p, "pending", ProposalPage + 1, before)) : r.key \in Declared} :
           p \in ProfilesOf}

(* The page goes on before its last record when there are more.            *)
GoesOn(records) ==
    IF Cardinality(records) > ProposalPage THEN ById(records)[ProposalPage].id ELSE 0

BeginReview ==
    /\ review = Rested
    /\ review' = [step |-> "asking", before |-> NewestId, seen |-> {}]
    /\ due' = {r.id : r \in WaitingRows}
    /\ UNCHANGED <<rule, versionRows, lists, idsIssued>>

ReadPage ==
    /\ review.step = "asking"
    /\ LET records == Shown(review.before)
           page == ToSet(First(ById(records), ProposalPage))
           next == GoesOn(records)
       IN  review' = [step |-> IF next = 0 THEN "ended" ELSE "asking", before |-> next,
                      seen |-> review.seen \cup {r.id : r \in page}]
    /\ UNCHANGED <<rule, versionRows, lists, idsIssued, due>>

EndReview ==
    /\ review.step = "ended" /\ review' = Rested /\ due' = {}
    /\ UNCHANGED <<rule, versionRows, lists, idsIssued>>

(* What an earlier run left waiting, also of artifacts the profiles no      *)
(* longer declare.                                                         *)
StoresInit ==
    /\ rule \in Rules
    /\ \E left \in SetToAllKPermutations(ArtifactKeys), x \in Contents :
         LET row(i) == [key |-> left[i], version |-> 1, id |-> i, text |-> x,
                        status |-> "pending", decider |-> ""]
         IN  /\ ArtifactKeys \ Declared \subseteq ToSet(left)
             /\ versionRows = {row(i) : i \in DOMAIN left}
             /\ lists = [k \in ArtifactKeys |-> SetToSeq({r \in versionRows : r.key = k})]
             /\ idsIssued = Len(left)
    /\ review = Rested /\ due = {}

StoresNext ==
    \/ \E k \in ArtifactKeys, c \in ToolCalls \cup HostCalls : Call(k, c)
    \/ BeginReview \/ ReadPage \/ EndReview

StoresSpec == StoresInit /\ [][StoresNext]_storesVars

-----------------------------------------------------------------------------
(* Properties.                                                             *)

(* "they live in memory for the process": a runtime without a database     *)
(* answers every read as one with a database would after the same calls.   *)
StoresAlike ==
    /\ \A k \in ArtifactKeys :
         /\ ListActive(k) = RowActive(k)
         /\ \A n \in 1..MaxId : ListVersion(k, n) = RowVersion(k, n)
         /\ ByNumber(ToSet(lists[k])) = ByNumber(OfKey(k))
    /\ \A p \in ProfilesOf :
         /\ ListSubjects(p) = RowSubjects(p)
         /\ \A status \in {"pending", "active", "superseded", "rejected"},
               n \in 1..2, before \in 1..NewestId :
              ListsInStatus(p, status, n, before) = RowsInStatus(p, status, n, before)

(* "an owner reviews all waiting proposals in one place ... next_before    *)
(* continues to older records (null on the last page)": a proposal that    *)
(* waits all the while is on one of the pages.                             *)
EveryProposalShown ==
    review.step = "ended" => due \subseteq review.seen

(* Whichever store a runtime has, its artifacts have one history, and what *)
(* waits for the owner is shown to them.                                   *)
StoresHold == StoresAlike /\ EveryProposalShown
=============================================================================
