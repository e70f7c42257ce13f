----------------------------- MODULE HostState -----------------------------
(***************************************************************************)
(* The host state service (services/host_state): versioned values by key,  *)
(* in process memory or in the table host_state, chosen at the start.      *)
(* Here both stores are given the same requests, so that their answers can *)
(* be compared.                                                            *)
(*                                                                         *)
(* A write is one statement in the table and one section under a lock in   *)
(* memory: one step.  Between reading a value and writing over it a host   *)
(* lets any number of other requests in.                                   *)
(***************************************************************************)
EXTENDS Integers

CONSTANTS
    Hosts,      \* who reads and writes
    Keys,       \* pairs of a namespace and a key
    MaxWrites   \* bound: writes and deletions

ASSUME HostStateAssumption == MaxWrites \in Nat

VARIABLES
    entries,    \* [Keys -> Entry], in memory: _entries
    deleted,    \* [Keys -> Nat], in memory: _deleted, 0 for none
    rows,       \* [Keys -> Row]: the table
    known,      \* [Hosts -> [Keys -> Entry]]: what a host was last told
    writes,     \* requests to write made so far
    last        \* the last request to write, with both answers

hostVars == <<entries, deleted, rows, known, writes, last>>

(* A value is named for the write that stored it.                          *)
Entry == [version : Nat, value : Nat]
Missing == [version |-> 0, value |-> 0]
Row == [version : Nat, value : Nat, gone : BOOLEAN]
NoRow == [version |-> 0, value |-> 0, gone |-> FALSE]
Refused == [version |-> -1, value |-> -1]

(* A request's expected_version: none, or a version (0: no value yet).     *)
Unconditional == -1
Expected(h, k) == {Unconditional, known[h][k].version}

NoRequest == [expected |-> Unconditional, over |-> Missing, knew |-> Missing, memory |-> Missing,
              table |-> Missing]

HostInit ==
    /\ entries = [k \in Keys |-> Missing] /\ deleted = [k \in Keys |-> 0]
    /\ rows = [k \in Keys |-> NoRow]
    /\ known = [h \in Hosts |-> [k \in Keys |-> Missing]]
    /\ writes = 0 /\ last = NoRequest

(* What a read returns from the table.                                     *)
Visible(k) == IF rows[k].gone THEN Missing
              ELSE [version |-> rows[k].version, value |-> rows[k].value]

-----------------------------------------------------------------------------
(* Put and delete in memory.                                               *)

MemoryAccepts(k, expected) == expected \in {Unconditional, entries[k].version}
BugRevived(k) == 1   \* Mutant: a revived key counts anew.
Revived(k) == deleted[k] + 1
MemoryPut(k, value) ==
    [version |-> IF entries[k] = Missing THEN Revived(k) ELSE entries[k].version + 1,
     value |-> value]
MemoryDeletes(k, expected) == entries[k] # Missing /\ MemoryAccepts(k, expected)

(* Put and delete in the table.  An insert that meets a row updates it, if *)
(* no version is required, or none may be there and it is a tombstone.     *)
InTable(k) == rows[k] # NoRow /\ ~rows[k].gone
TableAccepts(k, expected) ==
    \/ expected = Unconditional
    \/ expected = 0 /\ ~InTable(k)
    \/ expected # 0 /\ InTable(k) /\ rows[k].version = expected
TablePut(k, value) == [version |-> rows[k].version + 1, value |-> value, gone |-> FALSE]
TableDeletes(k, expected) == InTable(k) /\ expected \in {Unconditional, rows[k].version}
BugTombstone(k) == NoRow   \* Mutant: the row is deleted.
Tombstone(k) == [version |-> rows[k].version + 1, value |-> 0, gone |-> TRUE]

Asked(h, k, expected, memory, table) ==
    /\ writes' = writes + 1
    /\ last' = [expected |-> expected, over |-> Visible(k), knew |-> known[h][k],
                memory |-> memory, table |-> table]

(* get, or list: the host is told what is stored.                          *)
Get(h, k) ==
    /\ known' = [known EXCEPT ![h][k] = Visible(k)]
    /\ UNCHANGED <<entries, deleted, rows, writes, last>>

(* put: the answer is the stored entry.                                    *)
Put(h, k, expected) ==
    /\ writes < MaxWrites
    /\ LET value == writes + 1
           new   == TablePut(k, value)
           told  == [version |-> new.version, value |-> value]
           taken == TableAccepts(k, expected)
       IN /\ rows' = IF taken THEN [rows EXCEPT ![k] = new] ELSE rows
          /\ known' = IF taken THEN [known EXCEPT ![h][k] = told] ELSE known
          /\ entries' = IF MemoryAccepts(k, expected)
                        THEN [entries EXCEPT ![k] = MemoryPut(k, value)] ELSE entries
          /\ deleted' = IF MemoryAccepts(k, expected) THEN [deleted EXCEPT ![k] = 0] ELSE deleted
          /\ Asked(h, k, expected,
                   IF MemoryAccepts(k, expected) THEN MemoryPut(k, value) ELSE Refused,
                   IF taken THEN told ELSE Refused)

(* delete                                                                  *)
Delete(h, k, expected) ==
    /\ writes < MaxWrites
    /\ rows' = IF TableDeletes(k, expected) THEN [rows EXCEPT ![k] = Tombstone(k)] ELSE rows
    /\ IF MemoryDeletes(k, expected)
       THEN /\ entries' = [entries EXCEPT ![k] = Missing]
            /\ deleted' = [deleted EXCEPT ![k] = entries[k].version + 1]
       ELSE UNCHANGED <<entries, deleted>>
    /\ known' = IF TableDeletes(k, expected) THEN [known EXCEPT ![h][k] = Missing] ELSE known
    /\ Asked(h, k, expected,
             IF MemoryDeletes(k, expected) THEN Missing ELSE Refused,
             IF TableDeletes(k, expected) THEN Missing ELSE Refused)

HostNext == \E h \in Hosts, k \in Keys :
    \/ Get(h, k)
    \/ \E expected \in Expected(h, k) : Put(h, k, expected) \/ Delete(h, k, expected)

HostSpec == HostInit /\ [][HostNext]_hostVars

-----------------------------------------------------------------------------
(* Properties.                                                             *)

(* A host cannot tell the stores apart: they give every request the same   *)
(* answer and hold the same values at the same versions.                   *)
StoresAgree ==
    /\ last.memory = last.table
    /\ \A k \in Keys : entries[k] = Visible(k)

(* "Two writers never silently overwrite each other": what a conditional   *)
(* write or delete was let through on is the very value its host was told  *)
(* of, and not one stored later under the same version.                    *)
NoSilentOverwrite == last.expected # Unconditional /\ last.table # Refused => last.over = last.knew

(* One behaviour whichever store a runtime has, and no silent overwrite.   *)
HostStateHolds == StoresAgree /\ NoSilentOverwrite
=============================================================================
