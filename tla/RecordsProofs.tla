-------------------------- MODULE RecordsProofs -----------------------------
(* Three components that keep records, for any values of their constants:  *)
(* the state of hosts (HostState), confirmed actions (ActionRecords) and   *)
(* the notes in their folders (NoteFiles).  They share no state.           *)
EXTENDS HostState, ActionRecords, NoteFiles, FiniteSetTheorems, SequenceTheorems, TLAPS

(* HostState: two stores, any hosts and keys and any number of writes.      *)

HostTypes ==
    /\ entries \in [Keys -> Entry] /\ deleted \in [Keys -> Nat]
    /\ rows \in [Keys -> Row] /\ known \in [Hosts -> [Keys -> Entry]]
    /\ writes \in Nat

(* What the dictionaries hold is what the row says; a row that was never   *)
(* written has version 0, and a deleted key remembers its version.         *)
StoresMatch ==
    \A k \in Keys :
        /\ entries[k] = Visible(k)
        /\ entries[k] = Missing => deleted[k] = rows[k].version
        /\ rows[k].version = 0 => rows[k] = NoRow

(* No host knows a version that is still to come, and who knows the        *)
(* version of a row that is there knows its value.                         *)
KnownIsOld ==
    \A h \in Hosts, k \in Keys :
        /\ known[h][k].version <= rows[k].version
        /\ known[h][k].version = 0 => known[h][k] = Missing
        /\ known[h][k].version = rows[k].version /\ ~rows[k].gone => known[h][k] = Visible(k)

HostInv == HostTypes /\ StoresMatch /\ KnownIsOld /\ StoresAgree /\ NoSilentOverwrite

Answers == Nat \cup {Unconditional}

-----------------------------------------------------------------------------
(* One request, given to both stores.                                      *)

LEMMA Typed ==
    ASSUME HostTypes, NEW k \in Keys
    PROVE  /\ rows[k].version \in Nat /\ rows[k].value \in Nat /\ rows[k].gone \in BOOLEAN
           /\ entries[k].version \in Nat /\ entries[k].value \in Nat
           /\ deleted[k] \in Nat
  BY DEF HostTypes, Entry, Row

(* A value is there if its row is, at the same version.                    *)
LEMMA Alike ==
    ASSUME HostTypes, StoresMatch, NEW k \in Keys
    PROVE  /\ InTable(k) <=> entries[k] # Missing
           /\ InTable(k) => entries[k].version = rows[k].version /\ rows[k].version # 0
           /\ ~InTable(k) => entries[k].version = 0 /\ deleted[k] = rows[k].version
  <1>0. /\ entries[k] = Visible(k) /\ (rows[k].version = 0 => rows[k] = NoRow)
        /\ entries[k] = Missing => deleted[k] = rows[k].version
    BY DEF StoresMatch
  <1>1. CASE rows[k].gone
    <2>1. entries[k] = Missing /\ ~InTable(k)
      BY <1>0, <1>1 DEF InTable, Visible
    <2> QED  BY <1>0, <2>1 DEF Missing
  <1>2. CASE ~rows[k].gone /\ rows[k].version = 0
    <2>1. rows[k] = NoRow /\ ~InTable(k)
      BY <1>0, <1>2 DEF InTable
    <2>2. entries[k] = Missing
      BY <1>0, <1>2, <2>1 DEF Visible, NoRow, Missing
    <2> QED  BY <1>0, <2>1, <2>2 DEF Missing
  <1>3. CASE ~rows[k].gone /\ rows[k].version # 0
    <2>1. InTable(k)
      BY <1>3 DEF InTable, NoRow
    <2>2. entries[k] = [version |-> rows[k].version, value |-> rows[k].value]
      BY <1>0, <1>3 DEF Visible
    <2> QED  BY <1>3, <2>1, <2>2 DEF Missing
  <1> QED  BY <1>1, <1>2, <1>3, Typed

(* Both stores let the same requests through, and give a written value the *)
(* same version.                                                           *)
LEMMA SameAnswer ==
    ASSUME HostTypes, StoresMatch, NEW k \in Keys, NEW expected \in Answers
    PROVE  /\ MemoryAccepts(k, expected) <=> TableAccepts(k, expected)
           /\ MemoryDeletes(k, expected) <=> TableDeletes(k, expected)
           /\ \A value : MemoryPut(k, value) = [version |-> rows[k].version + 1, value |-> value]
  <1>1. MemoryAccepts(k, expected) <=> TableAccepts(k, expected)
    BY Alike, Typed DEF MemoryAccepts, TableAccepts, Answers, Unconditional
  <1>2. MemoryDeletes(k, expected) <=> TableDeletes(k, expected)
    BY Alike, Typed DEF MemoryDeletes, MemoryAccepts, TableDeletes
  <1>3. \A value : MemoryPut(k, value) = [version |-> rows[k].version + 1, value |-> value]
    BY Alike, Typed DEF MemoryPut, Revived
  <1> QED  BY <1>1, <1>2, <1>3

(* What a conditional request is let through on is what its host knows.    *)
LEMMA OverWhatIsKnown ==
    ASSUME HostTypes, StoresMatch, KnownIsOld, NEW h \in Hosts, NEW k \in Keys,
           NEW expected \in Expected(h, k), expected # Unconditional,
           TableAccepts(k, expected) \/ TableDeletes(k, expected)
    PROVE  Visible(k) = known[h][k]
  <1>1. expected = known[h][k].version /\ expected \in Nat
    BY DEF Expected, HostTypes, Entry
  <1>2. CASE InTable(k) /\ rows[k].version = expected
    BY <1>1, <1>2 DEF KnownIsOld, InTable
  <1>3. CASE expected = 0 /\ ~InTable(k)
    <2>1. known[h][k] = Missing
      BY <1>1, <1>3 DEF KnownIsOld
    <2>2. entries[k] = Missing /\ entries[k] = Visible(k)
      BY <1>3, Alike DEF StoresMatch
    <2> QED  BY <2>1, <2>2
  <1> QED  BY <1>1, <1>2, <1>3 DEF TableAccepts, TableDeletes, Unconditional

LEMMA ExpectedType ==
    ASSUME HostTypes, NEW h \in Hosts, NEW k \in Keys
    PROVE  Expected(h, k) \subseteq Answers
  BY DEF HostTypes, Entry, Expected, Answers

-----------------------------------------------------------------------------
(* The inductive invariant.                                                *)

LEMMA HostInitially == HostInit => HostInv
  BY DEF HostInit, HostInv, HostTypes, StoresMatch, KnownIsOld, StoresAgree, NoSilentOverwrite,
         Entry, Row, Missing, NoRow, Visible, NoRequest, Unconditional

LEMMA GetStep ==
    ASSUME HostInv, NEW h \in Hosts, NEW k \in Keys, Get(h, k)
    PROVE  HostInv'
  <1> USE DEF HostInv
  <1>0. Visible(k) \in Entry /\ \A j \in Keys : Visible(j)' = Visible(j)
    BY DEF Get, Visible, StoresMatch, HostTypes
  <1>1. HostTypes'
    BY <1>0 DEF HostTypes, Get
  <1>2. StoresMatch' /\ StoresAgree' /\ NoSilentOverwrite'
    BY <1>0 DEF Get, StoresMatch, StoresAgree, NoSilentOverwrite
  <1>3. KnownIsOld'
    <2> SUFFICES ASSUME NEW g \in Hosts, NEW j \in Keys
                 PROVE  /\ known'[g][j].version <= rows[j].version
                        /\ known'[g][j].version = 0 => known'[g][j] = Missing
                        /\ known'[g][j].version = rows[j].version /\ ~rows[j].gone
                               => known'[g][j] = Visible(j)
      BY <1>0 DEF KnownIsOld, Get
    <2>1. CASE g = h /\ j = k
      <3>1. known'[g][j] = Visible(k)
        BY <2>1 DEF Get, HostTypes
      <3>2. CASE rows[k].gone
        BY <3>1, <3>2, <2>1, Typed DEF Visible, Missing
      <3>3. CASE ~rows[k].gone
        BY <3>1, <3>3, <2>1, Typed DEF Visible, Missing, StoresMatch, NoRow
      <3> QED  BY <3>2, <3>3
    <2>2. CASE ~(g = h /\ j = k)
      <3>1. known'[g][j] = known[g][j]
        BY <2>2 DEF Get, HostTypes
      <3> QED  BY <3>1 DEF KnownIsOld
    <2> QED  BY <2>1, <2>2
  <1> QED  BY <1>1, <1>2, <1>3

(* A key that a step writes: its row moves on, and the one host that is    *)
(* told of it knows the new value, or that it is gone.                     *)
LEMMA RowMovesOn ==
    ASSUME HostInv, NEW h \in Hosts, NEW k \in Keys, NEW new \in Row, NEW told \in Entry,
           new.version = rows[k].version + 1,
           told = IF new.gone THEN Missing ELSE [version |-> new.version, value |-> new.value],
           rows' = [rows EXCEPT ![k] = new],
           known' = [known EXCEPT ![h][k] = told]
    PROVE  KnownIsOld' /\ Visible(k)' = told /\ \A j \in Keys \ {k} : Visible(j)' = Visible(j)
  <1> USE DEF HostInv
  <1>0. rows'[k] = new /\ \A j \in Keys \ {k} : rows'[j] = rows[j]
    BY DEF HostTypes
  <1>1. Visible(k)' = told /\ \A j \in Keys \ {k} : Visible(j)' = Visible(j)
    BY <1>0 DEF Visible
  <1>2. KnownIsOld'
    <2> SUFFICES ASSUME NEW g \in Hosts, NEW j \in Keys
                 PROVE  /\ known'[g][j].version <= rows'[j].version
                        /\ known'[g][j].version = 0 => known'[g][j] = Missing
                        /\ known'[g][j].version = rows'[j].version /\ ~rows'[j].gone
                               => known'[g][j] = Visible(j)'
      BY DEF KnownIsOld
    <2>1. CASE j # k
      <3>1. known'[g][j] = known[g][j]
        BY <2>1 DEF HostTypes
      <3> QED  BY <3>1, <2>1, <1>0, <1>1 DEF KnownIsOld
    <2>2. CASE j = k /\ g # h
      <3>1. known'[g][j] = known[g][j] /\ known[g][j].version \in Nat
        BY <2>2 DEF HostTypes, Entry
      <3>2. known[g][j].version <= rows[k].version /\ rows[k].version \in Nat
        BY <2>2, Typed DEF KnownIsOld
      <3> QED  BY <3>1, <3>2, <2>2, <1>0 DEF KnownIsOld
    <2>3. CASE j = k /\ g = h
      <3>1. known'[g][j] = told
        BY <2>3 DEF HostTypes
      <3> QED  BY <3>1, <2>3, <1>0, <1>1, Typed DEF Missing
    <2> QED  BY <2>1, <2>2, <2>3
  <1> QED  BY <1>1, <1>2

LEMMA PutStep ==
    ASSUME HostInv, NEW h \in Hosts, NEW k \in Keys, NEW expected \in Expected(h, k),
           Put(h, k, expected)
    PROVE  HostInv'
  <1> USE DEF HostInv
  <1> DEFINE new == TablePut(k, writes + 1)
             told == [version |-> new.version, value |-> writes + 1]
  <1>0. expected \in Answers
    BY ExpectedType
  <1>1. CASE TableAccepts(k, expected)
    <2>1. /\ new \in Row /\ told \in Entry /\ new.version = rows[k].version + 1
          /\ told = [version |-> new.version, value |-> new.value] /\ ~new.gone
      BY Typed DEF TablePut, Row, Entry, HostTypes
    <2>2. /\ rows' = [rows EXCEPT ![k] = new] /\ known' = [known EXCEPT ![h][k] = told]
          /\ entries' = [entries EXCEPT ![k] = told] /\ deleted' = [deleted EXCEPT ![k] = 0]
          /\ writes' = writes + 1
          /\ last' = [expected |-> expected, over |-> Visible(k), knew |-> known[h][k],
                      memory |-> told, table |-> told]
      BY <1>0, <1>1, <2>1, SameAnswer DEF Put, Asked, TablePut
    <2>3. KnownIsOld' /\ Visible(k)' = told /\ \A j \in Keys \ {k} : Visible(j)' = Visible(j)
      <3> HIDE DEF new, told
      <3>1. told = IF new.gone THEN Missing ELSE [version |-> new.version, value |-> new.value]
        BY <2>1
      <3> QED  BY <2>1, <2>2, <3>1, RowMovesOn
    <2>4. HostTypes'
      BY <2>1, <2>2 DEF HostTypes
    <2>5. StoresMatch'
      <3>1. /\ entries'[k] = told /\ rows'[k] = new
            /\ \A j \in Keys \ {k} : /\ entries'[j] = entries[j] /\ rows'[j] = rows[j]
                                     /\ deleted'[j] = deleted[j]
        BY <2>2 DEF HostTypes
      <3>2. told # Missing /\ new.version # 0
        BY <2>1, Typed DEF Missing
      <3> QED  BY <3>1, <3>2, <2>3 DEF StoresMatch
    <2>6. StoresAgree'
      BY <2>2, <2>5 DEF StoresAgree, StoresMatch
    <2>7. NoSilentOverwrite'
      BY <2>2, <1>1, OverWhatIsKnown DEF NoSilentOverwrite
    <2> QED  BY <2>3, <2>4, <2>5, <2>6, <2>7
  <1>2. CASE ~TableAccepts(k, expected)
    <2>1. /\ UNCHANGED <<rows, known, entries, deleted>> /\ writes' = writes + 1
          /\ last'.memory = Refused /\ last'.table = Refused
      BY <1>0, <1>2, SameAnswer DEF Put, Asked
    <2>2. \A j \in Keys : Visible(j)' = Visible(j)
      BY <2>1 DEF Visible
    <2> QED  BY <2>1, <2>2 DEF HostTypes, StoresMatch, KnownIsOld, StoresAgree, NoSilentOverwrite
  <1> QED  BY <1>1, <1>2

LEMMA DeleteStep ==
    ASSUME HostInv, NEW h \in Hosts, NEW k \in Keys, NEW expected \in Expected(h, k),
           Delete(h, k, expected)
    PROVE  HostInv'
  <1> USE DEF HostInv
  <1>0. expected \in Answers
    BY ExpectedType
  <1>1. CASE TableDeletes(k, expected)
    <2>1. /\ Tombstone(k) \in Row /\ Missing \in Entry /\ Tombstone(k).gone
          /\ Tombstone(k).version = rows[k].version + 1
      BY Typed DEF Tombstone, Row, Entry, Missing
    <2>2. /\ rows' = [rows EXCEPT ![k] = Tombstone(k)]
          /\ known' = [known EXCEPT ![h][k] = Missing]
          /\ entries' = [entries EXCEPT ![k] = Missing]
          /\ deleted' = [deleted EXCEPT ![k] = rows[k].version + 1]
          /\ writes' = writes + 1
          /\ last' = [expected |-> expected, over |-> Visible(k), knew |-> known[h][k],
                      memory |-> Missing, table |-> Missing]
      <3>1. entries[k].version = rows[k].version
        BY <1>1, Alike DEF TableDeletes
      <3> QED  BY <1>0, <1>1, <3>1, SameAnswer DEF Delete, Asked
    <2>3. KnownIsOld' /\ Visible(k)' = Missing /\ \A j \in Keys \ {k} : Visible(j)' = Visible(j)
      BY <2>1, <2>2, RowMovesOn
    <2>4. HostTypes'
      BY <2>1, <2>2, Typed DEF HostTypes
    <2>5. StoresMatch'
      <3>1. /\ entries'[k] = Missing /\ rows'[k] = Tombstone(k)
            /\ deleted'[k] = rows[k].version + 1
            /\ \A j \in Keys \ {k} : /\ entries'[j] = entries[j] /\ rows'[j] = rows[j]
                                     /\ deleted'[j] = deleted[j]
        BY <2>2 DEF HostTypes
      <3>2. Tombstone(k).version # 0
        BY <2>1, Typed
      <3> QED  BY <3>1, <3>2, <2>1, <2>3 DEF StoresMatch
    <2>6. StoresAgree'
      BY <2>2, <2>5 DEF StoresAgree, StoresMatch
    <2>7. NoSilentOverwrite'
      BY <2>2, <1>1, OverWhatIsKnown DEF NoSilentOverwrite
    <2> QED  BY <2>3, <2>4, <2>5, <2>6, <2>7
  <1>2. CASE ~TableDeletes(k, expected)
    <2>1. /\ UNCHANGED <<rows, known, entries, deleted>> /\ writes' = writes + 1
          /\ last'.memory = Refused /\ last'.table = Refused
      BY <1>0, <1>2, SameAnswer DEF Delete, Asked
    <2>2. \A j \in Keys : Visible(j)' = Visible(j)
      BY <2>1 DEF Visible
    <2> QED  BY <2>1, <2>2 DEF HostTypes, StoresMatch, KnownIsOld, StoresAgree, NoSilentOverwrite
  <1> QED  BY <1>1, <1>2

LEMMA HostInductive == HostInv /\ [HostNext]_hostVars => HostInv'
  <1>1. ASSUME HostInv, HostNext
        PROVE  HostInv'
    BY <1>1, GetStep, PutStep, DeleteStep DEF HostNext
  <1>2. ASSUME HostInv, UNCHANGED hostVars
        PROVE  HostInv'
    BY <1>2 DEF hostVars, HostInv, HostTypes, StoresMatch, KnownIsOld, StoresAgree,
                NoSilentOverwrite, Visible
  <1> QED  BY <1>1, <1>2

LEMMA HostInvariance == HostSpec => []HostInv
  BY HostInitially, HostInductive, PTL DEF HostSpec

(* A host cannot tell the stores apart, however often keys are deleted and *)
(* written anew.                                                           *)
THEOREM OneBehaviour == HostSpec => []StoresAgree
  BY HostInvariance, PTL DEF HostInv

(* Two writers never silently overwrite each other: a version never comes  *)
(* back for another value, not even over deletions.                        *)
THEOREM VersionsAreForGood == HostSpec => []NoSilentOverwrite
  BY HostInvariance, PTL DEF HostInv

(* Both, as the run checks them.                                           *)
THEOREM HostStateIsSafe == HostSpec => []HostStateHolds
  BY HostInvariance, PTL DEF HostInv, HostStateHolds

-----------------------------------------------------------------------------
(* ActionRecords: any actions, confirmations, requests and readers.        *)

Action == [history : Seq(Statuses) \ {<<>>}, revision : Nat, text : Nat, proposed : Nat,
           results : SUBSET Recipients]

Confirmation == [seq : Nat \ {0}, action : Actions, status : {"confirmed", "sent", "failed"},
                 by : Requests, signed : Requests \cup {Free}, settled : Requests \cup {Free},
                 reconciled : BOOLEAN]

ActionTypes ==
    /\ actions \in [Actions -> Action \cup {NoAction}]
    /\ confirmations \in [Confirmations -> Confirmation \cup {NoConfirmation}]
    /\ nextSeq \in Nat \ {0} /\ DOMAIN tx = Requests
    /\ cursor \in [Readers -> Nat] /\ received \in [Readers -> SUBSET Confirmations]

(* A transaction that changes a row holds it, and it is still as read.     *)
UpdatesHoldRows ==
    \A r \in Requests : tx[r].step = "update" =>
        /\ tx[r].on \in Actions /\ actions[tx[r].on] \in Action
        /\ tx[r].current = actions[tx[r].on]
        /\ \A q \in Requests \ {r} : tx[q].step = "update" => tx[q].on # tx[r].on

SettlesHoldRows ==
    \A r \in Requests : tx[r].step = "settle" =>
        /\ tx[r].on \in Confirmations /\ confirmations[tx[r].on] \in Confirmation
        /\ tx[r].current = confirmations[tx[r].on]
        /\ \A q \in Requests \ {r} : tx[q].step = "settle" => tx[q].on # tx[r].on

(* An insertion holds the lock of the feed; its number is after all that   *)
(* were committed and after every cursor.                                  *)
FeedInOrder ==
    /\ \A i \in Confirmations : confirmations[i].seq < nextSeq
    /\ \A d \in Readers : cursor[d] < nextSeq
    /\ \A r \in Requests : tx[r].step = "confirm" =>
          /\ feedLock = r /\ tx[r].on \in Confirmations /\ tx[r].action \in Actions
          /\ confirmations[tx[r].on] = NoConfirmation
          /\ tx[r].seq \in Nat \ {0} /\ tx[r].seq < nextSeq
          /\ \A i \in Confirmations : confirmations[i].seq < tx[r].seq
          /\ \A d \in Readers : cursor[d] < tx[r].seq

ActionInv == ActionTypes /\ UpdatesHoldRows /\ SettlesHoldRows /\ FeedInOrder /\ FeedComplete

(* What RecordsStand says of one step.                                     *)
StandsInStep ==
    /\ \A a \in Actions : Exists(a) => ActionGrows(actions[a], actions'[a])
    /\ \A i \in Confirmations :
          Recorded(i) => ConfirmationStands(confirmations[i], confirmations'[i])

-----------------------------------------------------------------------------
(* Rows.                                                                   *)

LEMMA Rows ==
    /\ NoAction \notin Action /\ NoConfirmation \notin Confirmation
    /\ NoConfirmation.seq = 0
    /\ Unasked.step = "unasked" /\ Done.step = "done"
  BY DEF NoAction, Action, NoConfirmation, Confirmation, Unasked, Done

LEMMA Appended ==
    ASSUME NEW s \in Seq(Statuses), NEW e \in Statuses
    PROVE  Append(s, e) \in Seq(Statuses) \ {<<>>} /\ IsPrefixOf(s, Append(s, e))
  <1>1. /\ Append(s, e) \in Seq(Statuses) /\ Len(Append(s, e)) = Len(s) + 1
        /\ Len(s) \in Nat /\ \A k \in 1..Len(s) : Append(s, e)[k] = s[k]
    BY AppendProperties
  <1>2. SubSeq(Append(s, e), 1, Len(s)) = s
    <2> DEFINE t == SubSeq(Append(s, e), 1, Len(s))
    <2>1. \A k \in 1..Len(s) : Append(s, e)[k] \in Statuses
      BY <1>1, ElementOfSeq
    <2>2. /\ t \in Seq(Statuses)
          /\ Len(t) = IF 1 <= Len(s) THEN Len(s) - 1 + 1 ELSE 0
          /\ \A k \in 1..(Len(s) - 1 + 1) : t[k] = Append(s, e)[1 + k - 1]
      BY <1>1, <2>1, SubSeqProperties
    <2>3. Len(t) = Len(s)
      BY <1>1, <2>2
    <2>4. \A k \in 1..Len(s) : t[k] = s[k]
      BY <1>1, <2>2
    <2> HIDE DEF t
    <2> QED  BY <2>2, <2>3, <2>4, SeqEqual
  <1>3. Append(s, e) # <<>>
    BY <1>1, EmptySeq
  <1>4. Len(s) <= Len(Append(s, e))
    BY <1>1
  <1> QED  BY <1>1, <1>2, <1>3, <1>4 DEF IsPrefixOf

LEMMA SamePrefix ==
    ASSUME NEW s \in Seq(Statuses)
    PROVE  IsPrefixOf(s, s)
  BY LenProperties, SubSeqFull DEF IsPrefixOf

(* A change computed from the row it is written to only adds to it.        *)
LEMMA ChangeGrows ==
    ASSUME NEW row \in Action, NEW s \in Statuses, NEW rewritten \in BOOLEAN,
           NEW xs \in SUBSET Recipients
    PROVE  /\ Changed(row, row, s, rewritten, xs) \in Action
           /\ ActionGrows(row, Changed(row, row, s, rewritten, xs))
  <1> DEFINE new == Changed(row, row, s, rewritten, xs)
  <1>1. /\ row.history \in Seq(Statuses) \ {<<>>} /\ row.revision \in Nat /\ row.text \in Nat
        /\ row.proposed \in Nat /\ row.results \in SUBSET Recipients
    BY DEF Action
  <1>2. /\ new.history = IF s = StatusOf(row) THEN row.history ELSE Append(row.history, s)
        /\ new.revision = IF rewritten THEN row.revision + 1 ELSE row.revision
        /\ new.text = IF rewritten THEN row.revision + 1 ELSE row.text
        /\ new.proposed = IF rewritten /\ row.proposed = 0 THEN row.text ELSE row.proposed
        /\ new.results = IF xs = {} THEN row.results ELSE row.results \cup xs
    BY DEF Changed
  <1>0. new = [history |-> new.history, revision |-> new.revision, text |-> new.text,
               proposed |-> new.proposed, results |-> new.results]
    BY DEF Changed
  <1> HIDE DEF new
  <1>3. new.history \in Seq(Statuses) \ {<<>>} /\ IsPrefixOf(row.history, new.history)
    BY <1>1, <1>2, Appended, SamePrefix
  <1>4. /\ new.revision \in Nat /\ new.text \in Nat /\ new.proposed \in Nat
        /\ new.results \in SUBSET Recipients
    BY <1>1, <1>2
  <1>5. new \in Action
    BY <1>0, <1>3, <1>4 DEF Action
  <1>6. ActionGrows(row, new)
    BY <1>1, <1>2, <1>3 DEF ActionGrows
  <1> QED  BY <1>5, <1>6 DEF new

LEMMA SameGrows ==
    ASSUME NEW row \in Action
    PROVE  ActionGrows(row, row)
  BY SamePrefix DEF ActionGrows, Action

LEMMA Unchanged ==
    ASSUME ActionTypes, UNCHANGED tables
    PROVE  StandsInStep
  <1>1. \A a \in Actions : Exists(a) => actions[a] \in Action
    BY DEF ActionTypes, Exists
  <1> QED  BY <1>1, SameGrows DEF StandsInStep, ConfirmationStands, tables

(* ActionSteps that leave the tables, the feed and what transactions read.       *)
LEMMA QuietStep ==
    ASSUME ActionInv, UNCHANGED <<tables, feed>>, nextSeq' \in Nat, nextSeq' >= nextSeq,
           UpdatesHoldRows', SettlesHoldRows', FeedInOrder', DOMAIN tx' = Requests
    PROVE  ActionInv' /\ StandsInStep
  <1>1. ActionTypes'
    BY DEF ActionInv, ActionTypes, tables, feed
  <1>2. FeedComplete'
    BY DEF ActionInv, FeedComplete, Recorded, tables, feed
  <1>3. StandsInStep
    BY Unchanged DEF ActionInv, tables
  <1> QED  BY <1>1, <1>2, <1>3 DEF ActionInv

(* A transaction that ends lets go of its locks.                           *)
LEMMA Ended ==
    ASSUME ActionInv, NEW r \in Requests, End(r)
    PROVE  /\ DOMAIN tx' = Requests /\ tx'[r].step = "done"
           /\ \A q \in Requests \ {r} : tx'[q] = tx[q]
  BY Rows DEF ActionInv, ActionTypes, End

LEMMA Held ==
    ASSUME ActionInv, NEW r \in Requests, NEW t, Hold(r, t)
    PROVE  /\ DOMAIN tx' = Requests /\ tx'[r] = t
           /\ \A q \in Requests \ {r} : tx'[q] = tx[q]
  BY DEF ActionInv, ActionTypes, Hold

-----------------------------------------------------------------------------
(* The steps.                                                              *)

LEMMA CreateStep ==
    ASSUME ActionInv, NEW r \in Requests, NEW a \in Actions, NEW s \in Statuses, Create(r, a, s)
    PROVE  ActionInv' /\ StandsInStep
  <1> USE DEF ActionInv
  <1>0. /\ DOMAIN tx' = Requests /\ tx'[r].step = "done"
        /\ \A q \in Requests \ {r} : tx'[q] = tx[q]
    BY Ended DEF Create
  <1>1. NewAction(s) \in Action
    <2>1. <<s>> \in Seq(Statuses) \ {<<>>}
      OBVIOUS
    <2> QED  BY <2>1 DEF NewAction, Action
  <1>2. /\ actions'[a] = NewAction(s) /\ actions[a] = NoAction
        /\ \A b \in Actions \ {a} : actions'[b] = actions[b]
        /\ UNCHANGED <<confirmations, nextSeq, feedLock, cursor, received>>
    BY DEF Create, ActionTypes, Exists, feed
  <1>3. ActionTypes'
    BY <1>0, <1>1 DEF ActionTypes, Create, feed
  <1>4. UpdatesHoldRows'
    BY <1>0, <1>2, Rows DEF UpdatesHoldRows
  <1>5. SettlesHoldRows' /\ FeedInOrder' /\ FeedComplete'
    BY <1>0, <1>2 DEF SettlesHoldRows, FeedInOrder, FeedComplete, Recorded
  <1>6. StandsInStep
    <2>1. \A b \in Actions : Exists(b) => actions[b] \in Action /\ actions'[b] = actions[b]
      BY <1>2 DEF Exists, ActionTypes
    <2> QED  BY <1>2, <2>1, SameGrows DEF StandsInStep, ConfirmationStands
  <1> QED  BY <1>3, <1>4, <1>5, <1>6

LEMMA UpdateReadsStep ==
    ASSUME ActionInv, NEW r \in Requests, NEW a \in Actions, UpdateReads(r, a)
    PROVE  ActionInv' /\ StandsInStep
  <1> USE DEF ActionInv
  <1>0. /\ DOMAIN tx' = Requests /\ tx'[r] = UpdateOf(a, actions[a])
        /\ \A q \in Requests \ {r} : tx'[q] = tx[q]
    BY Held DEF UpdateReads
  <1>1. tx'[r].step = "update" /\ tx'[r].on = a /\ tx'[r].current = actions[a]
    BY <1>0 DEF UpdateOf
  <1>2. actions[a] \in Action /\ \A q \in Requests : tx[q].step = "update" => tx[q].on # a
    BY DEF UpdateReads, Exists, ActionTypes, RowFree
  <1>3. UNCHANGED <<actions, confirmations, nextSeq, feedLock, cursor, received>>
    BY DEF UpdateReads, tables, feed
  <1>4. UpdatesHoldRows'
    BY <1>0, <1>1, <1>2, <1>3 DEF UpdatesHoldRows
  <1>5. SettlesHoldRows' /\ FeedInOrder'
    BY <1>0, <1>1, <1>3 DEF SettlesHoldRows, FeedInOrder
  <1> QED  BY <1>0, <1>3, <1>4, <1>5, QuietStep DEF tables, feed, ActionTypes

LEMMA SettleReadsStep ==
    ASSUME ActionInv, NEW r \in Requests, NEW i \in Confirmations, SettleReads(r, i)
    PROVE  ActionInv' /\ StandsInStep
  <1> USE DEF ActionInv
  <1>0. /\ DOMAIN tx' = Requests /\ tx'[r] = SettleOf(i, confirmations[i])
        /\ \A q \in Requests \ {r} : tx'[q] = tx[q]
    BY Held DEF SettleReads
  <1>1. tx'[r].step = "settle" /\ tx'[r].on = i /\ tx'[r].current = confirmations[i]
    BY <1>0 DEF SettleOf
  <1>2. /\ confirmations[i] \in Confirmation
        /\ \A q \in Requests : tx[q].step = "settle" => tx[q].on # i
    BY DEF SettleReads, Recorded, ActionTypes, RowFree
  <1>3. UNCHANGED <<actions, confirmations, nextSeq, feedLock, cursor, received>>
    BY DEF SettleReads, tables, feed
  <1>4. SettlesHoldRows'
    BY <1>0, <1>1, <1>2, <1>3 DEF SettlesHoldRows
  <1>5. UpdatesHoldRows' /\ FeedInOrder'
    BY <1>0, <1>1, <1>3 DEF UpdatesHoldRows, FeedInOrder
  <1> QED  BY <1>0, <1>3, <1>4, <1>5, QuietStep DEF tables, feed, ActionTypes

LEMMA RollBackStep ==
    ASSUME ActionInv, NEW r \in Requests, RollBack(r)
    PROVE  ActionInv' /\ StandsInStep
  <1> USE DEF ActionInv
  <1>0. /\ DOMAIN tx' = Requests /\ tx'[r].step = "done"
        /\ \A q \in Requests \ {r} : tx'[q] = tx[q]
    BY Ended DEF RollBack
  <1>1. /\ UNCHANGED <<actions, confirmations, nextSeq, cursor, received>>
        /\ feedLock' = IF feedLock = r THEN Free ELSE feedLock
    BY DEF RollBack, tables, feed
  <1>2. UpdatesHoldRows' /\ SettlesHoldRows'
    BY <1>0, <1>1 DEF UpdatesHoldRows, SettlesHoldRows
  <1>3. FeedInOrder'
    BY <1>0, <1>1 DEF FeedInOrder
  <1> QED  BY <1>0, <1>1, <1>2, <1>3, QuietStep DEF tables, feed, ActionTypes

LEMMA UpdateCommitsStep ==
    ASSUME ActionInv, NEW r \in Requests, UpdateCommits(r)
    PROVE  ActionInv' /\ StandsInStep
  <1> USE DEF ActionInv
  <1> DEFINE a == tx[r].on
  <1>0. /\ DOMAIN tx' = Requests /\ tx'[r].step = "done"
        /\ \A q \in Requests \ {r} : tx'[q] = tx[q]
    BY Ended DEF UpdateCommits
  <1>1. /\ a \in Actions /\ actions[a] \in Action /\ tx[r].current = actions[a]
        /\ \A q \in Requests \ {r} : tx[q].step = "update" => tx[q].on # a
    BY DEF UpdatesHoldRows, UpdateCommits
  <1>2. PICK s \in Statuses, rewritten \in BOOLEAN, xs \in SUBSET Recipients :
            actions' = [actions EXCEPT ![a] = Changed(actions[a], actions[a], s, rewritten, xs)]
    BY <1>1 DEF UpdateCommits
  <1>3. /\ actions'[a] \in Action /\ ActionGrows(actions[a], actions'[a])
        /\ \A b \in Actions \ {a} : actions'[b] = actions[b]
        /\ actions' \in [Actions -> Action \cup {NoAction}]
    <2>1. actions'[a] = Changed(actions[a], actions[a], s, rewritten, xs)
      BY <1>1, <1>2 DEF ActionTypes
    <2>2. actions'[a] \in Action /\ ActionGrows(actions[a], actions'[a])
      BY <1>1, <2>1, ChangeGrows
    <2> QED  BY <1>1, <1>2, <2>1, <2>2 DEF ActionTypes
  <1>4. UNCHANGED <<confirmations, nextSeq, feedLock, cursor, received>>
    BY DEF UpdateCommits, feed
  <1>5. ActionTypes'
    BY <1>0, <1>3, <1>4 DEF ActionTypes
  <1>6. UpdatesHoldRows'
    BY <1>0, <1>1, <1>3 DEF UpdatesHoldRows
  <1>7. SettlesHoldRows' /\ FeedInOrder' /\ FeedComplete'
    BY <1>0, <1>4 DEF SettlesHoldRows, FeedInOrder, FeedComplete, Recorded
  <1>8. StandsInStep
    <2>1. \A b \in Actions : Exists(b) => actions[b] \in Action
      BY DEF Exists, ActionTypes
    <2> QED  BY <1>3, <1>4, <2>1, SameGrows DEF StandsInStep, ConfirmationStands
  <1> QED  BY <1>5, <1>6, <1>7, <1>8

LEMMA ConfirmInsertsStep ==
    ASSUME ActionInv, NEW r \in Requests, NEW i \in Confirmations, NEW a \in Actions,
           ConfirmInserts(r, i, a)
    PROVE  ActionInv' /\ StandsInStep
  <1> USE DEF ActionInv
  <1>1. /\ UNCHANGED <<actions, confirmations, cursor, received>>
        /\ nextSeq' = nextSeq + 1 /\ nextSeq \in Nat \ {0} /\ feedLock = Free
    BY DEF ConfirmInserts, tables, feed, FeedFree, ActionTypes
  <1>2. \A q \in Requests : tx[q].step # "confirm"
    BY <1>1, ActionAssumption DEF FeedInOrder
  <1>3. /\ \A j \in Confirmations : confirmations[j].seq \in Nat
        /\ \A d \in Readers : cursor[d] \in Nat
    BY DEF ActionTypes, Confirmation, NoConfirmation
  <1>4. CASE Recorded(i)
    <2>0. /\ DOMAIN tx' = Requests /\ tx'[r].step = "done" /\ feedLock' = feedLock
          /\ \A q \in Requests \ {r} : tx'[q] = tx[q]
      BY <1>4, Ended DEF ConfirmInserts
    <2>1. UpdatesHoldRows' /\ SettlesHoldRows'
      BY <2>0, <1>1 DEF UpdatesHoldRows, SettlesHoldRows
    <2>2. FeedInOrder'
      BY <2>0, <1>1, <1>2, <1>3 DEF FeedInOrder
    <2> QED  BY <2>0, <2>1, <2>2, <1>1, QuietStep DEF tables, feed
  <1>5. CASE ~Recorded(i)
    <2>0. /\ DOMAIN tx' = Requests /\ tx'[r] = ConfirmOf(i, a, nextSeq) /\ feedLock' = r
          /\ \A q \in Requests \ {r} : tx'[q] = tx[q]
      BY <1>5, Held DEF ConfirmInserts
    <2>1. /\ tx'[r].step = "confirm" /\ tx'[r].on = i /\ tx'[r].action = a
          /\ tx'[r].seq = nextSeq
      BY <2>0 DEF ConfirmOf
    <2>2. UpdatesHoldRows' /\ SettlesHoldRows'
      BY <2>0, <2>1, <1>1 DEF UpdatesHoldRows, SettlesHoldRows
    <2>3. FeedInOrder'
      BY <2>0, <2>1, <1>1, <1>2, <1>3, <1>5 DEF FeedInOrder, Recorded
    <2> QED  BY <2>0, <2>2, <2>3, <1>1, QuietStep DEF tables, feed
  <1> QED  BY <1>4, <1>5

LEMMA ConfirmCommitsStep ==
    ASSUME ActionInv, NEW r \in Requests, ConfirmCommits(r)
    PROVE  ActionInv' /\ StandsInStep
  <1> USE DEF ActionInv
  <1> DEFINE i == tx[r].on
             row == [seq |-> tx[r].seq, action |-> tx[r].action, status |-> "confirmed",
                     by |-> r, signed |-> Free, settled |-> Free, reconciled |-> FALSE]
  <1>0. /\ DOMAIN tx' = Requests /\ tx'[r].step = "done"
        /\ \A q \in Requests \ {r} : tx'[q] = tx[q]
    BY Ended DEF ConfirmCommits
  <1>1. /\ feedLock = r /\ i \in Confirmations /\ tx[r].action \in Actions
        /\ confirmations[i] = NoConfirmation /\ tx[r].seq \in Nat \ {0} /\ tx[r].seq < nextSeq
        /\ \A d \in Readers : cursor[d] < tx[r].seq
        /\ \A q \in Requests \ {r} : tx[q].step # "confirm"
    BY DEF FeedInOrder, ConfirmCommits
  <1>2. row \in Confirmation /\ row.seq = tx[r].seq
    BY <1>1 DEF Confirmation
  <1>3. /\ confirmations' = [confirmations EXCEPT ![i] = row]
        /\ UNCHANGED <<actions, nextSeq, cursor, received>>
    BY DEF ConfirmCommits, feed
  <1> HIDE DEF row
  <1>4. /\ confirmations'[i] = row
        /\ \A j \in Confirmations \ {i} : confirmations'[j] = confirmations[j]
    BY <1>1, <1>3 DEF ActionTypes
  <1>5. ActionTypes'
    BY <1>0, <1>1, <1>2, <1>3 DEF ActionTypes
  <1>6. UpdatesHoldRows'
    BY <1>0, <1>3 DEF UpdatesHoldRows
  <1>7. SettlesHoldRows'
    BY <1>0, <1>1, <1>4, Rows DEF SettlesHoldRows
  <1>8. FeedInOrder'
    BY <1>0, <1>1, <1>2, <1>3, <1>4 DEF FeedInOrder
  <1>9. FeedComplete'
    <2> SUFFICES ASSUME NEW d \in Readers, NEW j \in Confirmations,
                        Recorded(j)', confirmations'[j].seq <= cursor[d]
                 PROVE  j \in received[d]
      BY <1>3 DEF FeedComplete
    <2>1. j # i
      BY <1>1, <1>2, <1>4 DEF ActionTypes
    <2> QED  BY <2>1, <1>4 DEF FeedComplete, Recorded
  <1>10. StandsInStep
    <2>1. \A b \in Actions : Exists(b) => actions[b] \in Action
      BY DEF Exists, ActionTypes
    <2> QED  BY <1>1, <1>3, <1>4, <2>1, SameGrows DEF StandsInStep, ConfirmationStands, Recorded
  <1> QED  BY <1>5, <1>6, <1>7, <1>8, <1>9, <1>10

LEMMA SettleCommitsStep ==
    ASSUME ActionInv, NEW r \in Requests, SettleCommits(r)
    PROVE  ActionInv' /\ StandsInStep
  <1> USE DEF ActionInv
  <1> DEFINE i == tx[r].on
             old == confirmations[i]
  <1>0. /\ DOMAIN tx' = Requests /\ tx'[r].step = "done"
        /\ \A q \in Requests \ {r} : tx'[q] = tx[q]
    BY Ended DEF SettleCommits
  <1>1. /\ i \in Confirmations /\ old \in Confirmation /\ tx[r].current = old
        /\ \A q \in Requests \ {r} : tx[q].step = "settle" => tx[q].on # i
    BY DEF SettlesHoldRows, SettleCommits
  <1>2. PICK s \in {"sent", "failed", Free}, signs \in BOOLEAN, noted \in BOOLEAN :
            /\ s # Free \/ signs => Open(old)
            /\ confirmations' = [confirmations EXCEPT ![i] = Settled(old, r, s, signs, noted)]
    BY <1>1 DEF SettleCommits
  <1>3. UNCHANGED <<actions, nextSeq, feedLock, cursor, received>>
    BY DEF SettleCommits, feed
  <1>4. \A j \in Confirmations \ {i} : confirmations'[j] = confirmations[j]
    BY <1>2 DEF ActionTypes
  <1>5. /\ confirmations'[i] \in Confirmation /\ confirmations'[i].seq = old.seq
        /\ ConfirmationStands(old, confirmations'[i])
    <2>1. confirmations'[i] = Settled(old, r, s, signs, noted)
      BY <1>1, <1>2 DEF ActionTypes
    <2>2. confirmations'[i] \in Confirmation
      BY <1>1, <2>1 DEF Settled, Confirmation, Free
    <2>3. /\ confirmations'[i].seq = old.seq /\ confirmations'[i].action = old.action
          /\ confirmations'[i].by = old.by
      BY <1>1, <2>1 DEF Settled, Confirmation
    <2>4. ASSUME old.status # "confirmed"
          PROVE  /\ confirmations'[i].status = old.status
                 /\ confirmations'[i].settled = old.settled
                 /\ confirmations'[i].signed = old.signed
      <3>1. s = Free /\ ~signs
        BY <1>2, <2>4 DEF Open
      <3> QED  BY <1>1, <2>1, <3>1 DEF Settled, Confirmation
    <2> QED  BY <2>2, <2>3, <2>4 DEF ConfirmationStands
  <1>6. ActionTypes'
    BY <1>0, <1>1, <1>2, <1>3, <1>4, <1>5 DEF ActionTypes
  <1>7. UpdatesHoldRows' /\ SettlesHoldRows'
    BY <1>0, <1>1, <1>3, <1>4 DEF UpdatesHoldRows, SettlesHoldRows
  <1>8. old # NoConfirmation /\ Recorded(i)
    BY <1>1, Rows DEF Recorded
  <1>9. FeedInOrder' /\ FeedComplete'
    BY <1>0, <1>1, <1>3, <1>4, <1>5, <1>8 DEF FeedInOrder, FeedComplete, Recorded
  <1>10. StandsInStep
    <2>1. \A b \in Actions : Exists(b) => actions[b] \in Action
      BY DEF Exists, ActionTypes
    <2> QED  BY <1>3, <1>4, <1>5, <2>1, SameGrows DEF StandsInStep, ConfirmationStands
  <1> QED  BY <1>6, <1>7, <1>9, <1>10

(* A page ends where its last confirmation is: what comes before that and  *)
(* was not read is on it.                                                  *)
LEMMA PageComplete ==
    ASSUME ActionTypes, NEW d \in Readers, NEW i \in Page(d), NEW j \in Confirmations,
           confirmations[j].seq > cursor[d], confirmations[j].seq <= confirmations[i].seq
    PROVE  j \in Page(d)
  <1> DEFINE after == {k \in Confirmations : confirmations[k].seq > cursor[d]}
             before(n) == {k \in after : confirmations[k].seq < n}
  <1>1. \A k \in Confirmations : confirmations[k].seq \in Nat
    BY DEF ActionTypes, Confirmation, NoConfirmation
  <1>2. i \in after /\ Cardinality(before(confirmations[i].seq)) < PageSize
    BY DEF Page
  <1>3. IsFiniteSet(after) /\ IsFiniteSet(before(confirmations[i].seq))
    <2>1. after \in SUBSET Confirmations
      OBVIOUS
    <2>2. before(confirmations[i].seq) \in SUBSET Confirmations
      OBVIOUS
    <2> QED  BY <2>1, <2>2, ActionAssumption, FS_Subset
  <1>4. before(confirmations[j].seq) \in SUBSET before(confirmations[i].seq)
    BY <1>1, <1>2
  <1>5. /\ IsFiniteSet(before(confirmations[j].seq))
        /\ Cardinality(before(confirmations[j].seq)) <= Cardinality(before(confirmations[i].seq))
    BY <1>3, <1>4, FS_Subset
  <1>6. /\ Cardinality(before(confirmations[i].seq)) \in Nat
        /\ Cardinality(before(confirmations[j].seq)) \in Nat
    BY <1>3, <1>5, FS_CardinalityType
  <1>7. Cardinality(before(confirmations[j].seq)) < PageSize
    BY <1>2, <1>5, <1>6, ActionAssumption
  <1>8. j \in after
    OBVIOUS
  <1> QED  BY <1>7, <1>8 DEF Page

LEMMA ReadStep ==
    ASSUME ActionInv, NEW d \in Readers, Read(d)
    PROVE  ActionInv' /\ StandsInStep
  <1> USE DEF ActionInv
  <1>0. UNCHANGED <<actions, confirmations, nextSeq, feedLock, tx>>
    BY DEF Read, tables
  <1>1. PICK i \in Page(d) : cursor' = [cursor EXCEPT ![d] = confirmations[i].seq]
    BY DEF Read
  <1>2. /\ Page(d) \subseteq Confirmations /\ i \in Confirmations
        /\ \A k \in Confirmations : confirmations[k].seq \in Nat
    BY DEF Page, ActionTypes, Confirmation, NoConfirmation
  <1>3. /\ cursor'[d] = confirmations[i].seq
        /\ received'[d] = received[d] \cup Page(d)
        /\ \A e \in Readers \ {d} : cursor'[e] = cursor[e] /\ received'[e] = received[e]
    BY <1>1 DEF Read, ActionTypes
  <1>4. ActionTypes'
    BY <1>0, <1>1, <1>2 DEF ActionTypes, Read
  <1>5. UpdatesHoldRows' /\ SettlesHoldRows'
    BY <1>0 DEF UpdatesHoldRows, SettlesHoldRows
  <1>6. FeedInOrder'
    BY <1>0, <1>2, <1>3 DEF FeedInOrder
  <1>7. FeedComplete'
    <2> SUFFICES ASSUME NEW e \in Readers, NEW j \in Confirmations, Recorded(j),
                        confirmations[j].seq <= cursor'[e]
                 PROVE  j \in received'[e]
      BY <1>0 DEF FeedComplete, Recorded
    <2>1. CASE e # d \/ confirmations[j].seq <= cursor[d]
      BY <2>1, <1>3 DEF FeedComplete
    <2>2. CASE e = d /\ confirmations[j].seq > cursor[d]
      BY <2>2, <1>3, PageComplete
    <2> QED  BY <2>1, <2>2, <1>2 DEF ActionTypes
  <1>8. StandsInStep
    BY <1>0, Unchanged DEF tables
  <1> QED  BY <1>4, <1>5, <1>6, <1>7, <1>8

-----------------------------------------------------------------------------
(* The theorems.                                                           *)

LEMMA ActionInitially == ActionInit => ActionInv
  <1> SUFFICES ASSUME ActionInit
               PROVE  ActionInv
    OBVIOUS
  <1>1. \A r \in Requests : tx[r].step = "unasked"
    BY Rows DEF ActionInit
  <1>2. \A i \in Confirmations : confirmations[i] = NoConfirmation
    BY DEF ActionInit
  <1>3. ActionTypes
    BY DEF ActionInit, ActionTypes
  <1>4. FeedInOrder
    BY <1>1, <1>2, Rows DEF FeedInOrder, ActionInit
  <1> QED  BY <1>1, <1>2, <1>3, <1>4 DEF ActionInv, UpdatesHoldRows, SettlesHoldRows, FeedComplete,
                                         Recorded

LEMMA ActionSteps == ActionInv /\ ActionNext => ActionInv' /\ StandsInStep
  BY CreateStep, UpdateReadsStep, UpdateCommitsStep, ConfirmInsertsStep, ConfirmCommitsStep,
     SettleReadsStep, SettleCommitsStep, RollBackStep, ReadStep DEF ActionNext

LEMMA ActionStutters == ActionInv /\ UNCHANGED actionVars => ActionInv'
  BY DEF ActionInv, ActionTypes, UpdatesHoldRows, SettlesHoldRows, FeedInOrder, FeedComplete, Recorded,
         actionVars

LEMMA ActionInvariance == ActionSpec => []ActionInv
  BY ActionInitially, ActionSteps, ActionStutters, PTL DEF ActionSpec

(* A host that follows the feed by its cursor misses no confirmation, with *)
(* pages of any size and any number of insertions under way.               *)
THEOREM FeedMissesNothing == ActionSpec => []FeedComplete
  BY ActionInvariance, PTL DEF ActionInv

(* No change of an action or a confirmation undoes another, however many   *)
(* transactions meet.                                                      *)
THEOREM NothingIsLost == ActionSpec => RecordsStand
  <1>1. ActionInv /\ [ActionNext]_actionVars => [StandsInStep]_actionVars
    BY ActionSteps
  <1> QED  BY <1>1, ActionInvariance, PTL DEF ActionSpec, RecordsStand, StandsInStep

(* Both, as the run checks them.                                           *)
THEOREM ActionsAreSafe == ActionSpec => ActionsHold
  BY FeedMissesNothing, NothingIsLost, PTL DEF ActionsHold

-----------------------------------------------------------------------------
(* NoteFiles: any folders and threads, any number of files and texts.      *)

Files == 1..Len(files)
NoteFile == [text : Nat, whole : BOOLEAN, doomed : BOOLEAN]

(* What a thread can be at.                                                *)
Trying == [step : {"try"}, path : Paths, file : {0}]
Creating == [step : {"write"}, path : Paths, file : Nat]
Rewriting == [step : {"rewrite"}, file : Nat, alone : BOOLEAN]
Truncating == [step : {"truncate"}, file : Nat, alone : BOOLEAN, text : Nat]
Moving == [step : {"link", "open", "copy", "unlink"}, path : Paths, to : Paths,
           file : Nat, into : Nat]
Tasks == {NotWorking} \union Trying \union Creating \union Rewriting \union Truncating
         \union Moving
UpdateSteps == {"rewrite", "truncate"}
MoveSteps == {"link", "open", "copy", "unlink"}

NoteTypes ==
    /\ files \in Seq(NoteFile) /\ entry \in [Paths -> {0} \union Files]
    /\ task \in [Workers -> Tasks]
    /\ texts \in Nat /\ kept \subseteq 0..texts
    /\ \A f \in Files : files[f].text <= texts

(* What a thread works on is there.                                        *)
FilesThere ==
    \A w \in Workers :
        /\ task[w].step \in {"write", "rewrite", "truncate", "open", "copy"} =>
              task[w].file \in Files
        /\ task[w].step = "truncate" => task[w].text <= texts
        /\ task[w].step = "copy" =>
              task[w].into \in Files /\ task[w].into # task[w].file
        /\ task[w].step \in {"link", "open"} => task[w].into = 0
        /\ task[w].step = "link" => task[w].file = 0
        /\ task[w].step = "unlink" =>
              \/ task[w].file = 0 /\ task[w].into = 0
              \/ /\ task[w].file \in Files /\ task[w].into \in Files
                 /\ task[w].into # task[w].file

(* Creates and moves hold the lock.                                        *)
LockHeld ==
    \A w \in Workers : task[w].step \in {"try", "write"} \union MoveSteps => noteLocks = {w}

(* Nobody counts on a file a name of which was deleted.                    *)
DoomedGone == \A f \in Files : files[f].doomed => files[f].text \notin kept

(* What somebody counts on has a name, and is there or being written.      *)
Named(f) == \E path \in Paths : entry[path] = f
NoteNamed ==
    \A n \in kept : \E path \in Paths : entry[path] # 0 /\ files[entry[path]].text = n
WritesTo(w, f) ==
    \/ task[w].step = "write" /\ task[w].file = f
    \/ task[w].step = "truncate" /\ task[w].file = f /\ task[w].text = files[f].text
    \/ task[w].step = "copy" /\ task[w].into = f
WholeSoon ==
    \A f \in Files : Named(f) /\ files[f].text \in kept =>
        files[f].whole \/ \E w \in Workers : WritesTo(w, f)

(* An update that is alone meets no other update and no copy; one that is  *)
(* not is not counted on.                                                  *)
Updating(w, f) == task[w].step \in {"rewrite", "truncate"} /\ task[w].file = f
Copying(w, f) == \/ task[w].step \in {"open", "copy", "unlink"} /\ task[w].file = f
                 \/ task[w].step = "copy" /\ task[w].into = f
AloneIs ==
    \A w, v \in Workers : task[w].step \in {"rewrite", "truncate"} /\ task[w].alone =>
        /\ v # w => ~Updating(v, task[w].file)
        /\ ~Copying(v, task[w].file)
Truncates ==
    \A w \in Workers : task[w].step = "truncate" =>
        /\ task[w].text \in kept => task[w].alone
        /\ files[task[w].file].text \in kept => files[task[w].file].text = task[w].text
StillNamed ==
    \A w \in Workers : task[w].step = "rewrite" /\ task[w].alone =>
        files[task[w].file].doomed \/ Named(task[w].file)

(* A move between its steps, whatever else is done to the two names.       *)
Linked(w) ==
    task[w].step = "unlink" /\ task[w].file = 0 /\ entry[task[w].path] # 0 =>
        \/ entry[task[w].to] = entry[task[w].path] /\ task[w].to # task[w].path
        \/ files[entry[task[w].path]].doomed
SourceKept(w) ==
    task[w].step \in {"open", "copy", "unlink"} /\ task[w].file # 0 =>
        /\ entry[task[w].path] = task[w].file \/ files[task[w].file].doomed
        /\ entry[task[w].path] # 0 => \/ entry[task[w].path] = task[w].file
                                      \/ files[entry[task[w].path]].doomed
                                      \/ task[w].step = "copy" /\ entry[task[w].path] = task[w].into
        /\ task[w].step # "unlink" /\ files[task[w].file].text \in kept => files[task[w].file].whole
CopyMade(w) ==
    task[w].step \in {"copy", "unlink"} /\ task[w].file # 0
    /\ files[task[w].file].text \in kept =>
        /\ files[task[w].into].text = files[task[w].file].text
        /\ entry[task[w].to] = task[w].into
        /\ task[w].step = "unlink" => files[task[w].into].whole
CopyIsNew(w) ==
    task[w].step = "copy" =>
        /\ \A p \in Paths : entry[p] = task[w].into => p = task[w].to
        /\ entry[task[w].to] # 0 => \/ entry[task[w].to] = task[w].into
                                    \/ files[entry[task[w].to]].doomed
        /\ files[task[w].into].text \in kept =>
              files[task[w].file].text = files[task[w].into].text
Moves == \A w \in Workers : Linked(w) /\ SourceKept(w) /\ CopyMade(w) /\ CopyIsNew(w)

NotesInv == /\ NoteTypes /\ FilesThere /\ LockHeld /\ DoomedGone /\ NoteNamed /\ WholeSoon
            /\ AloneIs /\ Truncates /\ StillNamed /\ Moves

-----------------------------------------------------------------------------

LEMMA NotesInvImplies ==
    ASSUME NotesInv
    PROVE  NoNoteLost
  <1> SUFFICES ASSUME NEW n \in kept, Written(n)
               PROVE  \E path \in Paths : /\ entry[path] # 0 /\ files[entry[path]].text = n
                                          /\ files[entry[path]].whole
    BY DEF NoNoteLost
  <1>1. PICK path \in Paths : entry[path] # 0 /\ files[entry[path]].text = n
    BY DEF NotesInv, NoteNamed
  <1> DEFINE f == entry[path]
  <1>2. f \in Files /\ Named(f)
    BY <1>1 DEF NotesInv, NoteTypes, Named
  <1>3. CASE files[f].whole
    BY <1>1, <1>3
  <1>4. CASE ~files[f].whole
    <2>1. PICK w \in Workers : WritesTo(w, f)
      BY <1>1, <1>2, <1>4 DEF NotesInv, WholeSoon
    <2>2. task[w].step = "copy" /\ task[w].into = f
      BY <1>1, <2>1 DEF WritesTo, Written
    <2>3. task[w].file \in Files /\ files[task[w].file].text = n /\ task[w].file # 0
      BY <1>1, <2>2 DEF NotesInv, FilesThere, Moves, CopyIsNew, Files
    <2>4. task[w].path \in Paths
      BY <2>2 DEF NotesInv, NoteTypes, Tasks, NotWorking, Trying, Creating, Rewriting,
          Truncating, Moving
    <2>5. files[task[w].file].whole /\ entry[task[w].path] = task[w].file
      BY <2>2, <2>3 DEF NotesInv, Moves, SourceKept, DoomedGone
    <2> QED  BY <2>3, <2>4, <2>5
  <1> QED  BY <1>3, <1>4

LEMMA NotesInitInv ==
    ASSUME NotesInit
    PROVE  NotesInv
  <1>1. /\ files = <<>> /\ Files = {} /\ kept = {} /\ texts = 0
        /\ \A path \in Paths : entry[path] = 0
        /\ entry \in [Paths -> {0} \union Files]
        /\ \A w \in Workers : task[w] = NotWorking /\ task[w].step = "idle"
        /\ task \in [Workers -> Tasks]
    BY DEF NotesInit, NotWorking, Files, Tasks
  <1>2. NoteTypes
    BY <1>1 DEF NoteTypes
  <1>3. FilesThere /\ LockHeld /\ DoomedGone /\ NoteNamed /\ WholeSoon
    BY <1>1 DEF FilesThere, LockHeld, DoomedGone, NoteNamed, WholeSoon, MoveSteps
  <1>4. AloneIs /\ Truncates /\ StillNamed /\ Moves
    BY <1>1 DEF AloneIs, Truncates, StillNamed, Moves, Linked, SourceKept, CopyMade, CopyIsNew
  <1> QED  BY <1>2, <1>3, <1>4 DEF NotesInv

LEMMA TaskFields ==
    ASSUME NoteTypes, NEW w \in Workers
    PROVE  /\ task[w].step = "idle" <=> task[w] = NotWorking
           /\ task[w].step = "try" => task[w] \in Trying
           /\ task[w].step = "write" => task[w] \in Creating
           /\ task[w].step = "rewrite" => task[w] \in Rewriting
           /\ task[w].step = "truncate" => task[w] \in Truncating
           /\ task[w].step \in MoveSteps => task[w] \in Moving
           /\ task[w].step \in {"idle", "try", "write"} \union UpdateSteps \union MoveSteps
  <1>1. task[w] \in Tasks
    BY DEF NoteTypes
  <1>2. NotWorking.step = "idle"
    BY DEF NotWorking
  <1>3. \A t \in Trying : t.step = "try"
    BY DEF Trying
  <1>4. \A t \in Creating : t.step = "write"
    BY DEF Creating
  <1>5. \A t \in Rewriting : t.step = "rewrite"
    BY DEF Rewriting
  <1>6. \A t \in Truncating : t.step = "truncate"
    BY DEF Truncating
  <1>7. \A t \in Moving : t.step \in MoveSteps
    BY DEF Moving, MoveSteps
  <1> QED  BY <1>1, <1>2, <1>3, <1>4, <1>5, <1>6, <1>7 DEF Tasks, UpdateSteps, MoveSteps

LEMMA FileFields ==
    ASSUME NoteTypes, NEW f \in Files
    PROVE  /\ files[f] \in NoteFile /\ files[f].text \in Nat /\ f \in Nat /\ f # 0
           /\ files[f].whole \in BOOLEAN /\ files[f].doomed \in BOOLEAN
  <1>1. files[f] \in NoteFile /\ f \in Nat /\ f # 0
    BY DEF NoteTypes, Files
  <1> QED  BY <1>1 DEF NoteFile

(* Changes of one file, one name, one thread.                              *)
LEMMA FileChanged ==
    ASSUME NoteTypes, NEW f \in Files, NEW new \in NoteFile, files' = [files EXCEPT ![f] = new]
    PROVE  /\ files' \in Seq(NoteFile) /\ Files' = Files /\ files'[f] = new
           /\ \A g \in Files \ {f} : files'[g] = files[g]
  BY DEF NoteTypes, Files

LEMMA FileAdded ==
    ASSUME NoteTypes, NEW new \in NoteFile, files' = Append(files, new)
    PROVE  /\ files' \in Seq(NoteFile) /\ Files' = Files \union {Len(files) + 1}
           /\ Len(files) + 1 \notin Files /\ Len(files) + 1 \in Nat \ {0}
           /\ files'[Len(files) + 1] = new
           /\ \A g \in Files : files'[g] = files[g]
  BY DEF NoteTypes, Files

LEMMA TaskChanged ==
    ASSUME NoteTypes, NEW w \in Workers, NEW t \in Tasks, task' = [task EXCEPT ![w] = t]
    PROVE  /\ task' \in [Workers -> Tasks] /\ task'[w] = t
           /\ \A v \in Workers \ {w} : task'[v] = task[v]
  BY DEF NoteTypes

LEMMA OneHolder ==
    ASSUME LockHeld, NEW v \in Workers, NEW w \in Workers,
           task[v].step \in {"try", "write"} \union MoveSteps,
           task[w].step \in {"try", "write"} \union MoveSteps
    PROVE  v = w
  BY DEF LockHeld

-----------------------------------------------------------------------------
(* A thread that is done, with nothing left to write.                      *)
LEMMA LeavesStep ==
    ASSUME NotesInv, NEW w \in Workers, Leaves(w), UNCHANGED <<files, entry, texts>>,
           kept' \subseteq kept, \A f \in Files : WritesTo(w, f) => files[f].text \notin kept'
    PROVE  NotesInv'
  <1>1. /\ task' \in [Workers -> Tasks] /\ task'[w].step = "idle"
        /\ \A v \in Workers \ {w} : task'[v] = task[v]
    BY TaskChanged DEF Leaves, NotesInv, Tasks, NotWorking
  <1>2. NoteTypes'
    BY <1>1 DEF NotesInv, NoteTypes, Files
  <1>3. FilesThere'
    BY <1>1 DEF NotesInv, FilesThere, Files
  <1>4. LockHeld'
    BY <1>1 DEF NotesInv, LockHeld, Leaves, Unlocks, MoveSteps
  <1>5. DoomedGone' /\ NoteNamed'
    BY DEF NotesInv, DoomedGone, NoteNamed, Files
  <1>6. WholeSoon'
    <2>1. \A v \in Workers \ {w}, f \in Files : WritesTo(v, f) => WritesTo(v, f)'
      BY <1>1 DEF WritesTo
    <2> QED  BY <2>1 DEF NotesInv, WholeSoon, Named, Files
  <1>7. AloneIs'
    BY <1>1 DEF NotesInv, AloneIs, Updating, Copying
  <1>8. Truncates' /\ StillNamed'
    BY <1>1 DEF NotesInv, Truncates, StillNamed, Named
  <1>9. Moves'
    BY <1>1 DEF NotesInv, Moves, Linked, SourceKept, CopyMade, CopyIsNew
  <1> QED  BY <1>2, <1>3, <1>4, <1>5, <1>6, <1>7, <1>8, <1>9 DEF NotesInv

LEMMA LeavesUnwritten ==
    ASSUME NotesInv, NEW w \in Workers, Leaves(w), UNCHANGED <<files, entry, texts, kept>>,
           task[w].step \in {"link", "open", "unlink"}
    PROVE  NotesInv'
  <1>1. \A f \in Files : ~WritesTo(w, f)
    BY DEF WritesTo
  <1> QED  BY <1>1, LeavesStep

(* A thread that wrote all of what somebody counts on.                     *)
LEMMA WritesStep ==
    ASSUME NotesInv, NEW w \in Workers, NEW all \in BOOLEAN, Leaves(w),
           task[w].step \in {"write", "truncate"},
           files[task[w].file].text \in kept => all,
           files' = [files EXCEPT ![task[w].file].whole = all],
           UNCHANGED <<entry, texts, kept>>
    PROVE  NotesInv'
  <1> DEFINE f == task[w].file
             new == [files[f] EXCEPT !.whole = all]
  <1>1. /\ task' \in [Workers -> Tasks] /\ task'[w].step = "idle"
        /\ \A v \in Workers \ {w} : task'[v] = task[v]
    BY TaskChanged DEF Leaves, NotesInv, Tasks, NotWorking
  <1>2. f \in Files /\ files[f] \in NoteFile
    BY FileFields DEF NotesInv, FilesThere
  <1>3. /\ new \in NoteFile /\ new.text = files[f].text /\ new.doomed = files[f].doomed
        /\ new.whole = all
    BY <1>2 DEF NoteFile
  <1>4. /\ files' \in Seq(NoteFile) /\ Files' = Files /\ files'[f] = new
        /\ \A g \in Files \ {f} : files'[g] = files[g]
    <2>1. files' = [files EXCEPT ![f] = new]
      OBVIOUS
    <2> QED  BY <1>2, <1>3, <2>1, FileChanged DEF NotesInv
  <1> HIDE DEF new
  <1>5. /\ \A g \in Files : /\ files'[g].text = files[g].text
                            /\ files'[g].doomed = files[g].doomed
                            /\ files[g].text \in kept /\ files[g].whole => files'[g].whole
        /\ files[f].text \in kept => files'[f].whole
    BY <1>2, <1>3, <1>4
  <1>6. NoteTypes'
    BY <1>1, <1>4, <1>5 DEF NotesInv, NoteTypes
  <1>7. FilesThere'
    BY <1>1, <1>4 DEF NotesInv, FilesThere
  <1>8. LockHeld'
    BY <1>1 DEF NotesInv, LockHeld, Leaves, Unlocks, MoveSteps
  <1>e. \A p \in Paths : entry[p] # 0 => entry[p] \in Files
    BY DEF NotesInv, NoteTypes
  <1>9. DoomedGone'
    BY <1>4, <1>5 DEF NotesInv, DoomedGone
  <1>10. NoteNamed'
    BY <1>4, <1>5, <1>e DEF NotesInv, NoteNamed
  <1>11. WholeSoon'
    <2>1. \A v \in Workers \ {w}, g \in Files : WritesTo(v, g) => WritesTo(v, g)'
      BY <1>1, <1>5 DEF WritesTo
    <2>2. \A g \in Files \ {f} : ~WritesTo(w, g)
      BY DEF WritesTo
    <2> SUFFICES ASSUME NEW g \in Files, Named(g), files[g].text \in kept, ~files'[g].whole
                 PROVE  \E v \in Workers : WritesTo(v, g)'
      BY <1>4, <1>5 DEF WholeSoon, Named
    <2>3. g # f /\ ~files[g].whole
      BY <1>5
    <2> QED  BY <2>1, <2>2, <2>3 DEF NotesInv, WholeSoon
  <1>12. AloneIs'
    BY <1>1 DEF NotesInv, AloneIs, Updating, Copying
  <1>13. Truncates'
    BY <1>1, <1>5 DEF NotesInv, Truncates, FilesThere
  <1>14. StillNamed'
    BY <1>1, <1>5 DEF NotesInv, StillNamed, FilesThere, Named
  <1>15. Moves'
    <2> SUFFICES ASSUME NEW v \in Workers \ {w}
                 PROVE  Linked(v)' /\ SourceKept(v)' /\ CopyMade(v)' /\ CopyIsNew(v)'
      BY <1>1 DEF Moves, Linked, SourceKept, CopyMade, CopyIsNew
    <2>1. Linked(v) /\ SourceKept(v) /\ CopyMade(v) /\ CopyIsNew(v)
      BY DEF NotesInv, Moves
    <2>2. task'[v] = task[v] /\ (task[v].step \in MoveSteps => task[v].path \in Paths /\ task[v].to \in Paths)
      BY <1>1, TaskFields DEF NotesInv, Moving
    <2>3. Linked(v)'
      BY <1>5, <1>e, <2>1, <2>2 DEF Linked, MoveSteps
    <2>4. task[v].step \in {"copy", "open", "unlink"} /\ task[v].file # 0 => task[v].file \in Files
      BY DEF NotesInv, FilesThere
    <2>5. task[v].step \in {"copy", "unlink"} /\ task[v].file # 0 => task[v].into \in Files
      BY DEF NotesInv, FilesThere, Files
    <2>6. SourceKept(v)'
      BY <1>5, <1>e, <2>1, <2>2, <2>4 DEF SourceKept, MoveSteps
    <2>7. CopyMade(v)'
      BY <1>5, <2>1, <2>2, <2>4, <2>5 DEF CopyMade
    <2>8. CopyIsNew(v)'
      <3>1. task[v].step = "copy" => task[v].file # 0
        BY DEF NotesInv, FilesThere, Files
      <3> QED  BY <1>5, <1>e, <2>1, <2>2, <2>4, <2>5, <3>1 DEF CopyIsNew, MoveSteps
    <2> QED  BY <2>3, <2>6, <2>7, <2>8
  <1> QED  BY <1>6, <1>7, <1>8, <1>9, <1>10, <1>11, <1>12, <1>13, <1>14, <1>15 DEF NotesInv

LEMMA WriteSteps ==
    ASSUME NotesInv, NEW w \in Workers,
           \/ WriteNote(w) \/ NoteWriteFails(w) \/ Truncate(w) \/ UnlinkFails(w)
    PROVE  NotesInv'
  <1>1. CASE WriteNote(w)
    BY <1>1, WritesStep DEF WriteNote
  <1>2. CASE Truncate(w)
    <2>1. task[w].step = "truncate"
      BY <1>2 DEF Truncate
    <2>2. files[task[w].file].text \in kept => files[task[w].file].text = task[w].text
      BY <2>1 DEF NotesInv, Truncates
    <2> QED  BY <1>2, <2>2, WritesStep DEF Truncate
  <1>3. CASE NoteWriteFails(w)
    <2>1. task[w].step = "write" /\ kept' = kept \ {files[task[w].file].text}
      BY <1>3 DEF NoteWriteFails
    <2>2. \A f \in Files : WritesTo(w, f) => files[f].text \notin kept'
      BY <2>1 DEF WritesTo
    <2> QED  BY <1>3, <2>1, <2>2, LeavesStep DEF NoteWriteFails
  <1>4. CASE UnlinkFails(w)
    BY <1>4, LeavesUnwritten DEF UnlinkFails
  <1> QED  BY <1>1, <1>2, <1>3, <1>4

-----------------------------------------------------------------------------
(* A create or a move begins, or a create looks for another name.          *)
LEMMA BeginsStep ==
    ASSUME NotesInv, NEW w \in Workers, NEW t \in Tasks, task' = [task EXCEPT ![w] = t],
           UNCHANGED <<files, entry, texts, kept>>, noteLocks' = {w},
           noteLocks = {} \/ noteLocks = {w}, task[w].step \in {"idle", "try"},
           t.step = "try" \/ (t.step = "link" /\ t.file = 0 /\ t.into = 0)
    PROVE  NotesInv'
  <1>1. task' \in [Workers -> Tasks] /\ task'[w] = t /\ \A v \in Workers \ {w} : task'[v] = task[v]
    BY TaskChanged DEF NotesInv
  <1>2. NoteTypes' /\ FilesThere'
    BY <1>1 DEF NotesInv, NoteTypes, FilesThere, Files
  <1>3. LockHeld'
    <2>1. \A v \in Workers \ {w} : task[v].step \notin {"try", "write"} \union MoveSteps
      BY DEF NotesInv, LockHeld
    <2> QED  BY <1>1, <2>1 DEF LockHeld
  <1>4. DoomedGone' /\ NoteNamed'
    BY DEF NotesInv, DoomedGone, NoteNamed, Files
  <1>5. WholeSoon'
    <2>1. \A v \in Workers, f \in Files : WritesTo(v, f) => v # w /\ WritesTo(v, f)'
      BY <1>1 DEF WritesTo
    <2> QED  BY <2>1 DEF NotesInv, WholeSoon, Named, Files
  <1>6. AloneIs'
    BY <1>1 DEF NotesInv, AloneIs, Updating, Copying
  <1>7. Truncates' /\ StillNamed'
    BY <1>1 DEF NotesInv, Truncates, StillNamed, Named
  <1>8. Moves'
    BY <1>1 DEF NotesInv, Moves, Linked, SourceKept, CopyMade, CopyIsNew
  <1> QED  BY <1>2, <1>3, <1>4, <1>5, <1>6, <1>7, <1>8 DEF NotesInv

LEMMA BeginSteps ==
    ASSUME NotesInv, NEW w \in Workers, NEW folder \in Folders,
           \/ BeginNote(w, folder)
           \/ \E path \in Paths : BeginMove(w, path, folder)
    PROVE  NotesInv'
  <1>1. CASE BeginNote(w, folder)
    <2> DEFINE t == [step |-> "try", path |-> <<folder, 0>>, file |-> 0]
    <2>1. /\ task' = [task EXCEPT ![w] = t] /\ UNCHANGED <<files, entry, texts, kept>>
          /\ noteLocks = {} /\ noteLocks' = {w} /\ task[w] = NotWorking
      BY <1>1 DEF BeginNote, Enters, Locks
    <2>2. t \in Tasks /\ t.step = "try" /\ NotWorking.step = "idle"
      BY BoundsAssumption DEF Tasks, Trying, Paths, NotWorking
    <2> HIDE DEF t
    <2> QED  BY <2>1, <2>2, BeginsStep
  <1>2. ASSUME NEW path \in Paths, BeginMove(w, path, folder) PROVE NotesInv'
    <2> DEFINE t == [step |-> "link", path |-> path, to |-> <<folder, path[2]>>,
                     file |-> 0, into |-> 0]
    <2>1. /\ task' = [task EXCEPT ![w] = t] /\ UNCHANGED <<files, entry, texts, kept>>
          /\ noteLocks = {} /\ noteLocks' = {w} /\ task[w] = NotWorking
      BY <1>2 DEF BeginMove, Enters, Locks
    <2>2. path[2] \in 0..MaxFiles /\ <<folder, path[2]>> \in Paths
      BY DEF Paths
    <2>3. /\ t \in Tasks /\ t.step = "link" /\ t.file = 0 /\ t.into = 0
          /\ NotWorking.step = "idle"
      BY <2>2 DEF Tasks, Moving, NotWorking
    <2> HIDE DEF t
    <2> QED  BY <2>1, <2>3, BeginsStep
  <1> QED  BY <1>1, <1>2

-----------------------------------------------------------------------------
(* create                                                                  *)

LEMMA TryNameStep ==
    ASSUME NotesInv, NEW w \in Workers, TryName(w)
    PROVE  NotesInv'
  <1>1. task[w].step = "try" /\ task[w] \in Trying /\ task[w].path \in Paths
        /\ UNCHANGED <<noteLocks>> /\ noteLocks = {w}
    BY TaskFields DEF TryName, NotesInv, Trying, LockHeld
  <1>2. CASE entry[task[w].path] # 0
    <2> DEFINE t == [task[w] EXCEPT !.path = <<task[w].path[1], task[w].path[2] + 1>>]
    <2>1. task' = [task EXCEPT ![w] = t] /\ UNCHANGED <<files, entry, texts, kept>>
          /\ task[w].path[2] < MaxFiles
      BY <1>2 DEF TryName, Exclusive
    <2>2. <<task[w].path[1], task[w].path[2] + 1>> \in Paths
      BY <1>1, <2>1, BoundsAssumption DEF Paths
    <2>3. t \in Trying /\ t.step = "try"
      BY <1>1, <2>2 DEF Trying
    <2> QED  BY <1>1, <2>1, <2>3, BeginsStep DEF Tasks
  <1>3. CASE entry[task[w].path] = 0
    <2> DEFINE path == task[w].path
               n == Len(files) + 1
               new == [text |-> texts + 1, whole |-> FALSE, doomed |-> FALSE]
               t == [task[w] EXCEPT !.step = "write", !.file = n]
    <2>0. /\ files' = Append(files, new) /\ entry' = [entry EXCEPT ![path] = n]
          /\ task' = [task EXCEPT ![w] = t]
      BY <1>3 DEF TryName, Exclusive, Opens
    <2>1. texts' = texts + 1 /\ kept' = kept \union {texts + 1}
      BY <1>3 DEF TryName, Exclusive
    <2>2. new \in NoteFile /\ new.text = texts + 1 /\ ~new.doomed /\ texts \in Nat
      BY DEF NoteFile, NotesInv, NoteTypes
    <2> HIDE DEF new
    <2>3. /\ files' \in Seq(NoteFile) /\ Files' = Files \union {n}
          /\ n \notin Files /\ n \in Nat \ {0} /\ files'[n] = new
          /\ \A g \in Files : files'[g] = files[g]
      BY <2>0, <2>2, FileAdded DEF NotesInv
    <2> HIDE DEF n
    <2>4. t \in Tasks /\ t.step = "write" /\ t.file = n
      BY <1>1, <2>3 DEF Trying, Tasks, Creating
    <2> HIDE DEF t
    <2>5. /\ task' \in [Workers -> Tasks] /\ task'[w] = t
          /\ \A v \in Workers \ {w} : task'[v] = task[v]
      BY <2>0, <2>4, TaskChanged DEF NotesInv
    <2>6. /\ entry \in [Paths -> {0} \union Files] /\ entry' \in [Paths -> {0} \union Files']
          /\ entry'[path] = n /\ \A p \in Paths \ {path} : entry'[p] = entry[p]
          /\ entry[path] = 0
      BY <1>1, <1>3, <2>0, <2>3 DEF NotesInv, NoteTypes
    <2> HIDE DEF path
    <2>7. kept \subseteq 0..texts /\ texts + 1 \notin kept
          /\ \A f \in Files : files[f].text \in Nat /\ files[f].text <= texts
      BY <2>2, FileFields DEF NotesInv, NoteTypes
    <2>8. NoteTypes'
      <3>1. texts' \in Nat /\ kept' \subseteq 0..texts'
        BY <2>1, <2>2, <2>7
      <3>2. ASSUME NEW f \in Files' PROVE files'[f].text <= texts'
        <4>1. CASE f = n
          BY <2>1, <2>2, <2>3, <4>1
        <4>2. CASE f \in Files
          <5>1. files'[f].text \in Nat /\ files'[f].text <= texts
            BY <2>3, <2>7, <4>2
          <5> QED  BY <2>1, <2>2, <5>1
        <4> QED  BY <2>3, <4>1, <4>2
      <3> QED  BY <2>3, <2>5, <2>6, <3>1, <3>2 DEF NoteTypes
    <2>9. FilesThere'
      <3>1. w \in Workers /\ task'[w].step = "write" /\ task'[w].file \in Files'
        BY <2>3, <2>4, <2>5
      <3>2. \A v \in Workers \ {w} : task'[v] = task[v]
        BY <2>5
      <3>3. \A f \in Files : f \in Files'
        BY <2>3
      <3>4. \A k \in Nat : k <= texts => k <= texts'
        BY <2>1, <2>2
      <3>5. \A v \in Workers : task[v].step = "truncate" => task[v].text \in Nat
        BY TaskFields DEF NotesInv, Truncating
      <3> QED  BY <3>1, <3>2, <3>3, <3>4, <3>5 DEF NotesInv, FilesThere
    <2>10. LockHeld'
      BY <1>1, <2>5 DEF NotesInv, LockHeld
    <2>11. DoomedGone'
      BY <2>1, <2>2, <2>3, <2>7 DEF NotesInv, DoomedGone
    <2>12. NoteNamed'
      <3>1. path \in Paths
        BY <1>1 DEF path
      <3> QED  BY <2>1, <2>2, <2>3, <2>6, <3>1 DEF NotesInv, NoteNamed
    <2>13. WholeSoon'
      <3>1. \A v \in Workers, f \in Files : WritesTo(v, f) => v # w /\ WritesTo(v, f)'
        BY <1>1, <2>3, <2>5 DEF WritesTo
      <3>2. task'[w].step = "write" /\ task'[w].file = n
        BY <2>4, <2>5
      <3>3. \A f \in Files : Named(f)' => Named(f)
        BY <2>3, <2>6 DEF Named
      <3>4. \A f \in Files : files'[f] = files[f] /\ (files[f].text \in kept' => files[f].text \in kept)
        BY <2>1, <2>2, <2>3, <2>7
      <3> SUFFICES ASSUME NEW f \in Files', Named(f)', files'[f].text \in kept', ~files'[f].whole
                   PROVE  \E v \in Workers : WritesTo(v, f)'
        BY DEF WholeSoon
      <3>5. CASE f = n
        BY <3>2, <3>5 DEF WritesTo
      <3>6. CASE f \in Files
        BY <3>1, <3>3, <3>4, <3>6 DEF NotesInv, WholeSoon
      <3> QED  BY <2>3, <3>5, <3>6
    <2>14. AloneIs'
      BY <2>4, <2>5 DEF NotesInv, AloneIs, Updating, Copying
    <2>15. Truncates'
      BY <2>1, <2>2, <2>3, <2>4, <2>5, <2>7 DEF NotesInv, Truncates, FilesThere
    <2>16. StillNamed'
      <3>1. \A f \in Files : Named(f) => Named(f)'
        BY <2>3, <2>6 DEF Named, Files
      <3> QED  BY <2>3, <2>4, <2>5, <3>1 DEF NotesInv, StillNamed, FilesThere
    <2>17. Moves'
      <3>1. \A v \in Workers : task'[v].step \notin MoveSteps
        BY <1>1, <2>4, <2>5, OneHolder DEF NotesInv, MoveSteps
      <3> QED  BY <3>1 DEF Moves, Linked, SourceKept, CopyMade, CopyIsNew, MoveSteps
    <2> QED  BY <2>8, <2>9, <2>10, <2>11, <2>12, <2>13, <2>14, <2>15, <2>16, <2>17 DEF NotesInv
  <1> QED  BY <1>2, <1>3

-----------------------------------------------------------------------------
(* delete                                                                  *)

LEMMA DeleteNoteStep ==
    ASSUME NotesInv, NEW path \in Paths, DeleteNote(path)
    PROVE  NotesInv'
  <1> DEFINE e == entry[path]
             new == [files[e] EXCEPT !.doomed = TRUE]
  <1>0. entry' = [entry EXCEPT ![path] = 0] /\ files' = [files EXCEPT ![e] = new]
    BY DEF DeleteNote
  <1>1. /\ e # 0 /\ kept' = kept \ {files[e].text}
        /\ UNCHANGED <<task, noteLocks, texts>>
    BY DEF DeleteNote
  <1>2. e \in Files /\ files[e] \in NoteFile /\ entry \in [Paths -> {0} \union Files]
    BY <1>1, FileFields DEF NotesInv, NoteTypes
  <1>3. /\ new \in NoteFile /\ new.text = files[e].text /\ new.doomed /\ new.whole = files[e].whole
    BY <1>2 DEF NoteFile
  <1> HIDE DEF new, e
  <1>4. /\ files' \in Seq(NoteFile) /\ Files' = Files /\ files'[e] = new
        /\ \A g \in Files \ {e} : files'[g] = files[g]
    BY <1>0, <1>2, <1>3, FileChanged DEF NotesInv
  <1>5. \A g \in Files :
                        /\ files'[g].text = files[g].text /\ files'[g].whole = files[g].whole
                        /\ files[g].doomed \/ g = e => files'[g].doomed
                        /\ files'[g].doomed => files[g].doomed \/ g = e
    BY <1>2, <1>3, <1>4
  <1>6. /\ entry' \in [Paths -> {0} \union Files] /\ entry'[path] = 0 /\ entry[path] = e
        /\ \A p \in Paths \ {path} : entry'[p] = entry[p]
        /\ \A p \in Paths : entry[p] # 0 => entry[p] \in Files
    BY <1>0, <1>2 DEF e
  <1>7. NoteTypes'
    <2>1. \A f \in Files' : files'[f].text <= texts'
      BY <1>1, <1>4, <1>5 DEF NotesInv, NoteTypes
    <2>2. texts' \in Nat /\ kept' \subseteq 0..texts' /\ task' \in [Workers -> Tasks]
      BY <1>1 DEF NotesInv, NoteTypes
    <2> QED  BY <1>4, <1>6, <2>1, <2>2 DEF NoteTypes
  <1>8. FilesThere' /\ LockHeld'
    BY <1>1, <1>4 DEF NotesInv, FilesThere, LockHeld
  <1>9. DoomedGone'
    <2> SUFFICES ASSUME NEW g \in Files, files'[g].doomed PROVE files'[g].text \notin kept'
      BY <1>4 DEF DoomedGone
    <2>1. files'[g].text = files[g].text /\ (files[g].doomed \/ g = e)
      BY <1>5
    <2>2. kept' = kept \ {files[e].text}
      BY <1>1
    <2>3. files[g].doomed => files[g].text \notin kept
      BY DEF NotesInv, DoomedGone
    <2> QED BY <2>1, <2>2, <2>3
  <1>10. NoteNamed'
    <2> SUFFICES ASSUME NEW k \in kept'
                 PROVE  \E p \in Paths : entry'[p] # 0 /\ files'[entry'[p]].text = k
      BY DEF NoteNamed
    <2>1. k \in kept /\ k # files[e].text
      BY <1>1
    <2>2. PICK p \in Paths : entry[p] # 0 /\ files[entry[p]].text = k
      BY <2>1 DEF NotesInv, NoteNamed
    <2>3. p # path /\ entry'[p] = entry[p] /\ entry[p] \in Files
      BY <1>6, <2>1, <2>2
    <2>4. files'[entry[p]].text = k
      BY <1>5, <2>2, <2>3
    <2> QED  BY <2>2, <2>3, <2>4
  <1>11. \A f \in Files :
                         /\ Named(f)' => Named(f)
                         /\ Named(f) => Named(f)' \/ f = e
    BY <1>6 DEF Named, Files
  <1>12. WholeSoon'
    <2>1. ASSUME NEW v \in Workers, NEW f \in Files, WritesTo(v, f)
          PROVE  WritesTo(v, f)'
      <3>1. task'[v] = task[v] /\ files'[f].text = files[f].text
        BY <1>1, <1>5
      <3> QED  BY <2>1, <3>1 DEF WritesTo
    <2> SUFFICES ASSUME NEW f \in Files, Named(f)', files'[f].text \in kept', ~files'[f].whole
                 PROVE  \E v \in Workers : WritesTo(v, f)'
      BY <1>4 DEF WholeSoon
    <2>2. Named(f) /\ files[f].text \in kept /\ ~files[f].whole
      BY <1>1, <1>5, <1>11
    <2> QED  BY <2>1, <2>2 DEF NotesInv, WholeSoon
  <1>13. AloneIs'
    BY <1>1 DEF NotesInv, AloneIs, Updating, Copying
  <1>14. Truncates'
    <2> SUFFICES ASSUME NEW v \in Workers, task[v].step = "truncate"
                 PROVE  /\ task[v].text \in kept' => task[v].alone
                        /\ files'[task[v].file].text \in kept'
                              => files'[task[v].file].text = task[v].text
      BY <1>1 DEF Truncates
    <2>1. task[v].file \in Files
      BY DEF NotesInv, FilesThere
    <2>2. files'[task[v].file].text = files[task[v].file].text
      BY <1>5, <2>1
    <2>3. kept' \subseteq kept
      BY <1>1
    <2> QED  BY <2>2, <2>3 DEF NotesInv, Truncates
  <1>15. StillNamed'
    <2> SUFFICES ASSUME NEW v \in Workers, task[v].step = "rewrite", task[v].alone
                 PROVE  files'[task[v].file].doomed \/ Named(task[v].file)'
      BY <1>1 DEF StillNamed, Named
    <2>1. task[v].file \in Files
      BY DEF NotesInv, FilesThere
    <2>2. files[task[v].file].doomed \/ Named(task[v].file)
      BY DEF NotesInv, StillNamed
    <2>3. task'[v] = task[v]
      BY <1>1
    <2> QED  BY <1>5, <1>11, <2>1, <2>2, <2>3
  <1>16. Moves'
    <2> SUFFICES ASSUME NEW v \in Workers
                 PROVE  Linked(v)' /\ SourceKept(v)' /\ CopyMade(v)' /\ CopyIsNew(v)'
      BY DEF Moves
    <2>1. Linked(v) /\ SourceKept(v) /\ CopyMade(v) /\ CopyIsNew(v)
      BY DEF NotesInv, Moves
    <2>2. task'[v] = task[v] /\ (task[v].step \in MoveSteps => task[v].path \in Paths /\ task[v].to \in Paths)
      BY <1>1, TaskFields DEF NotesInv, Moving
    <2>8. \A p \in Paths : /\ entry'[p] # 0 => entry'[p] = entry[p] /\ entry[p] \in Files
                           /\ entry'[p] # entry[p] => entry[p] = e
      BY <1>6
    <2>9. \A f \in Files : files'[f].text \in kept' => files[f].text \in kept /\ f # e
      BY <1>1, <1>5
    <2>3. Linked(v)'
      <3> SUFFICES ASSUME task[v].step = "unlink", task[v].file = 0, entry'[task[v].path] # 0
                   PROVE  \/ entry'[task[v].to] = entry'[task[v].path] /\ task[v].to # task[v].path
                          \/ files'[entry'[task[v].path]].doomed
        BY <2>2 DEF Linked
      <3>1. entry'[task[v].path] = entry[task[v].path] /\ entry[task[v].path] \in Files
        BY <2>2, <2>8 DEF MoveSteps
      <3>2. entry'[task[v].to] = entry[task[v].to] \/ entry[task[v].to] = e
        BY <2>2, <2>8 DEF MoveSteps
      <3>3. files[entry[task[v].path]].doomed \/ entry[task[v].path] = e
            => files'[entry[task[v].path]].doomed
        BY <1>5, <3>1
      <3> QED  BY <2>1, <3>1, <3>2, <3>3 DEF Linked
    <2>4. /\ task[v].step \in {"copy", "open", "unlink"} /\ task[v].file # 0 => task[v].file \in Files
          /\ task[v].step \in {"copy", "unlink"} /\ task[v].file # 0 => task[v].into \in Files
          /\ task[v].step = "copy" => task[v].file # 0
      BY DEF NotesInv, FilesThere, Files
    <2>5. SourceKept(v)'
      <3> SUFFICES ASSUME task[v].step \in {"open", "copy", "unlink"}, task[v].file # 0
                   PROVE  SourceKept(v)'
        BY <2>2 DEF SourceKept
      <3>1. /\ task[v].file \in Files /\ task[v].path \in Paths /\ task'[v] = task[v]
            /\ entry[task[v].path] # 0 => entry[task[v].path] \in Files
        BY <1>6, <2>2, <2>4 DEF MoveSteps
      <3>2. /\ entry'[task[v].path] # 0 => entry'[task[v].path] = entry[task[v].path]
            /\ entry'[task[v].path] # entry[task[v].path] => entry[task[v].path] = e
        BY <2>8, <3>1
      <3>3. /\ files[task[v].file].doomed \/ task[v].file = e => files'[task[v].file].doomed
            /\ files'[task[v].file].text \in kept' => files[task[v].file].text \in kept
            /\ files'[task[v].file].whole = files[task[v].file].whole
        BY <1>5, <2>9, <3>1
      <3>4. entry[task[v].path] # 0 /\ files[entry[task[v].path]].doomed
            => files'[entry[task[v].path]].doomed
        BY <1>5, <3>1
      <3> QED  BY <2>1, <3>1, <3>2, <3>3, <3>4 DEF SourceKept
    <2>6. CopyMade(v)'
      <3> SUFFICES ASSUME task[v].step \in {"copy", "unlink"}, task[v].file # 0,
                          files'[task[v].file].text \in kept'
                   PROVE  CopyMade(v)'
        BY <2>2 DEF CopyMade
      <3>1. /\ task[v].file \in Files /\ task[v].into \in Files /\ task[v].to \in Paths
            /\ task'[v] = task[v]
        BY <2>2, <2>4 DEF MoveSteps
      <3>2. files[task[v].file].text \in kept
        BY <2>9, <3>1
      <3>3. /\ files'[task[v].into].text = files[task[v].into].text
            /\ files'[task[v].into].whole = files[task[v].into].whole
            /\ files'[task[v].file].text = files[task[v].file].text
        BY <1>5, <3>1
      <3>4. /\ files[task[v].into].text = files[task[v].file].text
            /\ entry[task[v].to] = task[v].into
            /\ task[v].step = "unlink" => files[task[v].into].whole
        BY <2>1, <3>2 DEF CopyMade
      <3>5. task[v].into # e
        BY <2>9, <3>1, <3>3, <3>4
      <3>6. entry'[task[v].to] = task[v].into
        BY <2>8, <3>1, <3>4, <3>5
      <3> QED  BY <3>1, <3>3, <3>4, <3>6 DEF CopyMade
    <2>7. CopyIsNew(v)'
      <3> SUFFICES ASSUME task[v].step = "copy" PROVE CopyIsNew(v)'
        BY <2>2 DEF CopyIsNew
      <3>1. /\ task[v].file \in Files /\ task[v].into \in Files /\ task[v].to \in Paths
            /\ task'[v] = task[v]
        BY <2>2, <2>4 DEF MoveSteps
      <3>2. \A p \in Paths : entry'[p] = task[v].into => p = task[v].to
        BY <1>2, <2>1, <2>8, <3>1 DEF CopyIsNew, Files
      <3>3. entry'[task[v].to] # 0 =>
               entry'[task[v].to] = task[v].into \/ files'[entry'[task[v].to]].doomed
        BY <1>5, <2>1, <2>8, <3>1 DEF CopyIsNew
      <3>4. files'[task[v].into].text \in kept' =>
              files'[task[v].file].text = files'[task[v].into].text
        <4>1. /\ files'[task[v].into].text = files[task[v].into].text
              /\ files'[task[v].file].text = files[task[v].file].text
          BY <1>5, <3>1
        <4> QED  BY <2>1, <2>9, <3>1, <4>1 DEF CopyIsNew
      <3> QED  BY <3>1, <3>2, <3>3, <3>4 DEF CopyIsNew
    <2> QED  BY <2>3, <2>5, <2>6, <2>7
  <1> QED  BY <1>7, <1>8, <1>9, <1>10, <1>12, <1>13, <1>14, <1>15, <1>16 DEF NotesInv

-----------------------------------------------------------------------------
(* A move                                                                  *)

(* Only the thread that holds the lock is in a move.                       *)
LEMMA OnlyMover ==
    ASSUME NotesInv, NEW w \in Workers, task[w].step \in MoveSteps,
           \A v \in Workers \ {w} : task'[v] = task[v],
           Linked(w)', SourceKept(w)', CopyMade(w)', CopyIsNew(w)'
    PROVE  Moves'
  <1> SUFFICES ASSUME NEW v \in Workers \ {w}
               PROVE  Linked(v)' /\ SourceKept(v)' /\ CopyMade(v)' /\ CopyIsNew(v)'
    BY DEF Moves
  <1>1. task'[v].step \notin MoveSteps
    BY OneHolder DEF NotesInv
  <1> QED  BY <1>1 DEF MoveSteps, Linked, SourceKept, CopyMade, CopyIsNew

LEMMA LinkStep ==
    ASSUME NotesInv, NEW w \in Workers, Link(w)
    PROVE  NotesInv'
  <1> DEFINE path == task[w].path
             to == task[w].to
             e == entry[path]
             t == [task[w] EXCEPT !.step = "unlink"]
  <1>1. task[w].step = "link" /\ task[w] \in Moving /\ path \in Paths /\ to \in Paths
        /\ task[w].file = 0 /\ task[w].into = 0 /\ UNCHANGED <<files, texts, kept>>
    BY TaskFields DEF Link, NotesInv, MoveSteps, Moving, FilesThere
  <1>2. CASE e = 0 \/ entry[to] # 0
    <2>1. Leaves(w) /\ UNCHANGED entry
      BY <1>2 DEF Link, Replaces
    <2> QED  BY <1>1, <2>1, LeavesUnwritten
  <1>3. CASE e # 0 /\ entry[to] = 0
    <2>1. /\ entry' = [entry EXCEPT ![to] = e] /\ task' = [task EXCEPT ![w] = t]
          /\ noteLocks' = noteLocks
      BY <1>3 DEF Link, Replaces, StepsTo
    <2>2. /\ t \in Tasks /\ t.step = "unlink" /\ t.file = 0 /\ t.into = 0
          /\ t.path = path /\ t.to = to
      BY <1>1 DEF Tasks, Moving
    <2> HIDE DEF t
    <2>3. /\ task' \in [Workers -> Tasks] /\ task'[w] = t
          /\ \A v \in Workers \ {w} : task'[v] = task[v]
      BY <2>1, <2>2, TaskChanged DEF NotesInv
    <2>4. Files' = Files /\ e \in Files /\ entry \in [Paths -> {0} \union Files]
      BY <1>1, <1>3 DEF NotesInv, NoteTypes, Files
    <2>5. /\ entry' \in [Paths -> {0} \union Files] /\ entry'[to] = e /\ entry'[path] = e
          /\ to # path /\ \A p \in Paths \ {to} : entry'[p] = entry[p]
      BY <1>1, <1>3, <2>1, <2>4
    <2> HIDE DEF e, path, to
    <2>6. \A f \in Files : Named(f) <=> Named(f)'
      <3>1. \A f \in Files : f # 0
        BY DEF Files
      <3>2. path \in Paths /\ to \in Paths /\ entry[path] = e /\ entry[to] = 0
        BY <1>1, <1>3 DEF e, path, to
      <3> QED  BY <2>5, <3>1, <3>2 DEF Named
    <2>7. NoteTypes' /\ FilesThere' /\ LockHeld' /\ DoomedGone'
      <3>1. NoteTypes'
        BY <1>1, <2>3, <2>4, <2>5 DEF NotesInv, NoteTypes
      <3>2. FilesThere'
        BY <1>1, <2>2, <2>3, <2>4 DEF NotesInv, FilesThere
      <3>3. LockHeld'
        BY <1>1, <2>1, <2>3 DEF NotesInv, LockHeld, MoveSteps
      <3>4. DoomedGone'
        BY <1>1, <2>4 DEF NotesInv, DoomedGone
      <3> QED  BY <3>1, <3>2, <3>3, <3>4
    <2>8. NoteNamed'
      <3> SUFFICES ASSUME NEW k \in kept
                   PROVE  \E p \in Paths : entry'[p] # 0 /\ files[entry'[p]].text = k
        BY <1>1 DEF NoteNamed
      <3>1. PICK p \in Paths : entry[p] # 0 /\ files[entry[p]].text = k
        BY DEF NotesInv, NoteNamed
      <3>2. entry'[p] = entry[p]
        BY <1>3, <2>5, <3>1 DEF e, to
      <3> QED  BY <3>1, <3>2
    <2>9. WholeSoon'
      <3>1. ASSUME NEW v \in Workers, NEW f \in Files, WritesTo(v, f) PROVE WritesTo(v, f)'
        <4>1. v # w /\ files'[f] = files[f]
          BY <1>1, <3>1 DEF WritesTo
        <4> QED  BY <2>3, <3>1, <4>1 DEF WritesTo
      <3> QED  BY <1>1, <2>4, <2>6, <3>1 DEF NotesInv, WholeSoon
    <2>10. AloneIs'
      <3> SUFFICES ASSUME NEW u \in Workers, NEW v \in Workers,
                          task'[u].step \in {"rewrite", "truncate"}, task'[u].alone
                   PROVE  /\ v # u => ~Updating(v, task[u].file)'
                          /\ ~Copying(v, task[u].file)'
        BY <2>2, <2>3 DEF AloneIs, Updating, Copying
      <3>2. task'[u] = task[u] /\ task[u].file \in Files
        BY <2>2, <2>3 DEF NotesInv, FilesThere
      <3> QED  BY <2>2, <2>3, <3>2 DEF NotesInv, AloneIs, Updating, Copying, Files
    <2>11. Truncates'
      BY <1>1, <2>2, <2>3 DEF NotesInv, Truncates
    <2>12. StillNamed'
      <3> SUFFICES ASSUME NEW v \in Workers, task'[v].step = "rewrite", task'[v].alone
                   PROVE  files[task[v].file].doomed \/ Named(task[v].file)'
        BY <1>1, <2>2, <2>3 DEF StillNamed, Named
      <3>1. task'[v] = task[v] /\ task[v].file \in Files
        BY <2>2, <2>3 DEF NotesInv, FilesThere
      <3>2. files[task[v].file].doomed \/ Named(task[v].file)
        BY <3>1 DEF NotesInv, StillNamed
      <3> QED  BY <2>6, <3>1, <3>2 DEF Named
    <2>13. Moves'
      <3>1. Linked(w)' /\ SourceKept(w)' /\ CopyMade(w)' /\ CopyIsNew(w)'
        BY <2>2, <2>3, <2>5 DEF Linked, SourceKept, CopyMade, CopyIsNew
      <3> QED  BY <1>1, <2>3, <3>1, OnlyMover DEF MoveSteps
    <2> QED  BY <2>7, <2>8, <2>9, <2>10, <2>11, <2>12, <2>13 DEF NotesInv
  <1> QED  BY <1>2, <1>3

(* A move that is over and removes a name.                                 *)
LEMMA UnnamesStep ==
    ASSUME NotesInv, NEW w \in Workers, NEW path \in Paths, Leaves(w),
           task[w].step \in {"copy", "unlink"}, UNCHANGED <<files, texts, kept>>,
           entry' = [entry EXCEPT ![path] = 0],
           \A k \in kept : (entry[path] # 0 /\ files[entry[path]].text = k)
              => \E p \in Paths \ {path} : entry[p] # 0 /\ files[entry[p]].text = k,
           \A f \in Files : Named(f)' => ~WritesTo(w, f),
           \A v \in Workers : task[v].step = "rewrite" /\ task[v].alone /\ entry[path] = task[v].file
              => \/ files[entry[path]].doomed
                 \/ \E p \in Paths \ {path} : entry[p] = entry[path]
    PROVE  NotesInv'
  <1>1. /\ task' \in [Workers -> Tasks] /\ task'[w].step = "idle"
        /\ \A v \in Workers \ {w} : task'[v] = task[v]
    BY TaskChanged DEF Leaves, NotesInv, Tasks, NotWorking
  <1>2. /\ Files' = Files /\ entry \in [Paths -> {0} \union Files]
        /\ entry' \in [Paths -> {0} \union Files] /\ entry'[path] = 0
        /\ \A p \in Paths \ {path} : entry'[p] = entry[p]
    BY DEF NotesInv, NoteTypes, Files
  <1>3. NoteTypes'
    BY <1>1, <1>2 DEF NotesInv, NoteTypes
  <1>4. FilesThere' /\ DoomedGone'
    BY <1>1, <1>2 DEF NotesInv, FilesThere, DoomedGone
  <1>5. LockHeld'
    BY <1>1 DEF NotesInv, LockHeld, Leaves, Unlocks, MoveSteps
  <1>6. NoteNamed'
    <2> SUFFICES ASSUME NEW k \in kept
                 PROVE  \E p \in Paths : entry'[p] # 0 /\ files[entry'[p]].text = k
      BY DEF NoteNamed
    <2>1. PICK p \in Paths : entry[p] # 0 /\ files[entry[p]].text = k
      BY DEF NotesInv, NoteNamed
    <2>2. PICK q \in Paths \ {path} : entry[q] # 0 /\ files[entry[q]].text = k
      BY <2>1
    <2>3. entry'[q] = entry[q]
      BY <1>2
    <2> QED  BY <2>2, <2>3
  <1>7. \A f \in Files : Named(f)' => Named(f)
    BY <1>2 DEF Named, Files
  <1>8. WholeSoon'
    <2>1. ASSUME NEW v \in Workers \ {w}, NEW f \in Files, WritesTo(v, f) PROVE WritesTo(v, f)'
      BY <1>1, <2>1 DEF WritesTo
    <2> SUFFICES ASSUME NEW f \in Files, Named(f)', files[f].text \in kept, ~files[f].whole
                 PROVE  \E v \in Workers : WritesTo(v, f)'
      BY <1>2 DEF WholeSoon
    <2> QED  BY <1>7, <2>1 DEF NotesInv, WholeSoon
  <1>9. AloneIs'
    BY <1>1 DEF NotesInv, AloneIs, Updating, Copying
  <1>10. Truncates'
    BY <1>1 DEF NotesInv, Truncates
  <1>11. StillNamed'
    <2> SUFFICES ASSUME NEW v \in Workers, task'[v].step = "rewrite", task'[v].alone
                 PROVE  files[task'[v].file].doomed \/ \E p \in Paths : entry'[p] = task'[v].file
      BY DEF StillNamed, Named
    <2>1. task'[v] = task[v]
      BY <1>1
    <2>2. files[task[v].file].doomed \/ \E p \in Paths : entry[p] = task[v].file
      BY <2>1 DEF NotesInv, StillNamed, Named
    <2>3. (\E p \in Paths \ {path} : entry[p] = task[v].file)
          => \E p \in Paths : entry'[p] = task'[v].file
      BY <1>2, <2>1
    <2>4. CASE entry[path] = task[v].file
      BY <2>1, <2>3, <2>4
    <2>5. CASE entry[path] # task[v].file
      BY <2>1, <2>2, <2>3, <2>5
    <2> QED  BY <2>4, <2>5
  <1>12. Moves'
    <2>1. Linked(w)' /\ SourceKept(w)' /\ CopyMade(w)' /\ CopyIsNew(w)'
      BY <1>1 DEF Linked, SourceKept, CopyMade, CopyIsNew
    <2> QED  BY <1>1, <2>1, OnlyMover DEF MoveSteps
  <1> QED  BY <1>3, <1>4, <1>5, <1>6, <1>8, <1>9, <1>10, <1>11, <1>12 DEF NotesInv

LEMMA UnlinkStep ==
    ASSUME NotesInv, NEW w \in Workers, Unlink(w)
    PROVE  NotesInv'
  <1> DEFINE path == task[w].path
             to == task[w].to
             f == task[w].file
             into == task[w].into
  <1>1. /\ task[w].step = "unlink" /\ path \in Paths /\ to \in Paths /\ Leaves(w)
        /\ UNCHANGED <<files, texts, kept>> /\ entry' = [entry EXCEPT ![path] = 0]
    BY TaskFields DEF Unlink, NotesInv, MoveSteps, Moving
  <1>2. \A p \in Paths : entry[p] # 0 => entry[p] \in Files
    BY DEF NotesInv, NoteTypes
  <1>3. f = 0 \/ (f \in Files /\ into \in Files /\ into # f)
    BY <1>1 DEF NotesInv, FilesThere
  <1>4. entry[path] # 0 => \/ files[entry[path]].doomed
                           \/ f = 0 /\ to # path /\ entry[to] = entry[path]
                           \/ f # 0 /\ entry[path] = f
    BY <1>1 DEF NotesInv, Moves, Linked, SourceKept
  <1>5. entry[path] # 0 /\ files[entry[path]].text \in kept =>
           \E p \in Paths \ {path} : entry[p] # 0 /\ files[entry[p]].text = files[entry[path]].text
    <2> SUFFICES ASSUME entry[path] # 0, files[entry[path]].text \in kept
                 PROVE  \E p \in Paths \ {path} :
                           entry[p] # 0 /\ files[entry[p]].text = files[entry[path]].text
      OBVIOUS
    <2>1. ~files[entry[path]].doomed
      BY <1>1, <1>2 DEF NotesInv, DoomedGone
    <2>2. CASE f = 0
      BY <1>1, <1>4, <2>1, <2>2
    <2>3. CASE f # 0
      <3>1. entry[path] = f
        BY <1>4, <2>1, <2>3
      <3>2. files[into].text = files[f].text /\ entry[to] = into
        BY <1>1, <2>3, <3>1 DEF NotesInv, Moves, CopyMade
      <3>3. to # path /\ into # 0
        BY <1>3, <2>3, <3>1, <3>2 DEF Files
      <3> QED  BY <1>1, <3>1, <3>2, <3>3
    <2> QED  BY <2>2, <2>3
  <1>6. \A g \in Files : ~WritesTo(w, g)
    BY <1>1 DEF WritesTo
  <1>7. ASSUME NEW v \in Workers, task[v].step = "rewrite", task[v].alone,
               entry[path] = task[v].file
        PROVE  \/ files[entry[path]].doomed
               \/ \E p \in Paths \ {path} : entry[p] = entry[path]
    <2>1. entry[path] # 0 /\ ~Copying(w, entry[path])
      BY <1>7 DEF NotesInv, AloneIs, FilesThere, Files
    <2>2. f # entry[path]
      BY <1>1, <2>1 DEF Copying
    <2> QED  BY <1>1, <1>4, <2>1, <2>2
  <1> HIDE DEF path
  <1> QED  BY <1>1, <1>5, <1>6, <1>7, UnnamesStep

LEMMA CopyFailsStep ==
    ASSUME NotesInv, NEW w \in Workers, CopyFails(w)
    PROVE  NotesInv'
  <1> DEFINE path == task[w].path
             to == task[w].to
             f == task[w].file
             into == task[w].into
  <1>1. /\ task[w].step = "copy" /\ path \in Paths /\ to \in Paths /\ Leaves(w)
        /\ UNCHANGED <<files, texts, kept>> /\ entry' = [entry EXCEPT ![to] = 0]
    BY TaskFields DEF CopyFails, NotesInv, MoveSteps, Moving
  <1>2. \A p \in Paths : entry[p] # 0 => entry[p] \in Files
    BY DEF NotesInv, NoteTypes
  <1>3. f \in Files /\ into \in Files /\ into # f /\ f # 0 /\ into # 0
    BY <1>1 DEF NotesInv, FilesThere, Files
  <1>4. entry[to] # 0 => entry[to] = into \/ files[entry[to]].doomed
    BY <1>1 DEF NotesInv, Moves, CopyIsNew
  <1>5. entry[to] # 0 /\ files[entry[to]].text \in kept =>
           \E p \in Paths \ {to} : entry[p] # 0 /\ files[entry[p]].text = files[entry[to]].text
    <2> SUFFICES ASSUME entry[to] # 0, files[entry[to]].text \in kept
                 PROVE  \E p \in Paths \ {to} :
                           entry[p] # 0 /\ files[entry[p]].text = files[entry[to]].text
      OBVIOUS
    <2>1. entry[to] = into
      BY <1>1, <1>2, <1>4 DEF NotesInv, DoomedGone
    <2>2. files[f].text = files[into].text
      BY <1>1, <2>1 DEF NotesInv, Moves, CopyIsNew
    <2>3. entry[path] = f
      BY <1>1, <1>3, <2>1, <2>2 DEF NotesInv, Moves, SourceKept, DoomedGone
    <2> QED  BY <1>1, <1>3, <2>1, <2>2, <2>3
  <1>6. ASSUME NEW g \in Files, Named(g)', WritesTo(w, g) PROVE FALSE
    <2>1. g = into
      BY <1>1, <1>6 DEF WritesTo
    <2>2. PICK p \in Paths : entry'[p] = g
      BY <1>6 DEF Named
    <2>3. p # to /\ entry[p] = into
      BY <1>1, <1>3, <2>1, <2>2 DEF NotesInv, NoteTypes
    <2> QED  BY <1>1, <2>3 DEF NotesInv, Moves, CopyIsNew
  <1>7. ASSUME NEW v \in Workers, task[v].step = "rewrite", task[v].alone,
               entry[to] = task[v].file
        PROVE  \/ files[entry[to]].doomed
               \/ \E p \in Paths \ {to} : entry[p] = entry[to]
    <2>1. entry[to] # 0 /\ ~Copying(w, entry[to])
      BY <1>7 DEF NotesInv, AloneIs, FilesThere, Files
    <2> QED  BY <1>1, <1>4, <2>1 DEF Copying
  <1> HIDE DEF to
  <1> QED  BY <1>1, <1>5, <1>6, <1>7, UnnamesStep

-----------------------------------------------------------------------------
(* A file under a name that was free.                                      *)
LEMMA EntryAdded ==
    ASSUME NoteTypes, NEW path \in Paths, entry[path] = 0, NEW new \in NoteFile,
           files' = Append(files, new), entry' = [entry EXCEPT ![path] = Len(files) + 1]
    PROVE  /\ files' \in Seq(NoteFile) /\ Files' = Files \union {Len(files) + 1}
           /\ Len(files) + 1 \notin Files /\ Len(files) + 1 \in Nat \ {0}
           /\ files'[Len(files) + 1] = new
           /\ \A g \in Files : files'[g] = files[g]
           /\ entry' \in [Paths -> {0} \union Files'] /\ entry'[path] = Len(files) + 1
           /\ \A p \in Paths \ {path} : entry'[p] = entry[p]
           /\ \A p \in Paths : entry[p] # 0 => entry'[p] = entry[p] /\ entry[p] \in Files
           /\ \A g \in Files : Named(g) <=> Named(g)'
  <1>1. /\ files' \in Seq(NoteFile) /\ Files' = Files \union {Len(files) + 1}
        /\ Len(files) + 1 \notin Files /\ Len(files) + 1 \in Nat \ {0}
        /\ files'[Len(files) + 1] = new
        /\ \A g \in Files : files'[g] = files[g]
    BY FileAdded
  <1> DEFINE n == Len(files) + 1
  <1> HIDE DEF n
  <1>2. /\ entry \in [Paths -> {0} \union Files] /\ entry' = [entry EXCEPT ![path] = n]
        /\ n \in Files' /\ n \notin Files /\ Files \subseteq Files' /\ n # 0
    BY <1>1 DEF NoteTypes, n
  <1>3. /\ entry' \in [Paths -> {0} \union Files'] /\ entry'[path] = n
        /\ \A p \in Paths \ {path} : entry'[p] = entry[p]
    BY <1>2
  <1>4. \A p \in Paths : entry[p] # 0 => entry'[p] = entry[p] /\ entry[p] \in Files
    BY <1>2, <1>3
  <1>5. \A g \in Files : g # 0
    BY DEF Files
  <1>6. \A g \in Files : Named(g) <=> Named(g)'
    BY <1>2, <1>3, <1>4, <1>5 DEF Named
  <1> QED  BY <1>1, <1>3, <1>4, <1>6 DEF n

LEMMA OtherProgramStep ==
    ASSUME NotesInv, NEW path \in Paths, OtherProgram(path)
    PROVE  NotesInv'
  <1> DEFINE n == Len(files) + 1
             new == [text |-> texts + 1, whole |-> TRUE, doomed |-> path \in WorkedOn]
  <1>1. /\ entry[path] = 0 /\ files' = Append(files, new) /\ entry' = [entry EXCEPT ![path] = n]
        /\ texts' = texts + 1 /\ task' = task /\ noteLocks' = noteLocks
        /\ kept' = IF path \in WorkedOn THEN kept ELSE kept \union {texts + 1}
    BY DEF OtherProgram
  <1>2. /\ texts \in Nat /\ new \in NoteFile /\ new.text = texts + 1 /\ new.whole = TRUE
        /\ (new.doomed <=> path \in WorkedOn)
    <2>1. texts \in Nat /\ texts + 1 \in Nat /\ (path \in WorkedOn) \in BOOLEAN
      BY DEF NotesInv, NoteTypes
    <2>2. new.text = texts + 1 /\ new.whole = TRUE /\ new.doomed = (path \in WorkedOn)
      OBVIOUS
    <2>3. new.doomed <=> path \in WorkedOn
      BY <2>2, Zenon
    <2> QED  BY <2>1, <2>2, <2>3 DEF NoteFile
  <1> HIDE DEF new
  <1>3. /\ files' \in Seq(NoteFile) /\ Files' = Files \union {n}
        /\ n \notin Files /\ n \in Nat \ {0} /\ files'[n] = new
        /\ \A g \in Files : files'[g] = files[g]
        /\ entry' \in [Paths -> {0} \union Files'] /\ entry'[path] = n
        /\ \A p \in Paths \ {path} : entry'[p] = entry[p]
        /\ \A p \in Paths : entry[p] # 0 => entry'[p] = entry[p] /\ entry[p] \in Files
        /\ \A g \in Files : Named(g) <=> Named(g)'
    BY <1>1, <1>2, EntryAdded DEF NotesInv
  <1> HIDE DEF n
  <1>4. \A k \in Nat : k <= texts => (k \in kept <=> k \in kept')
    BY <1>1, <1>2
  <1>5. \A f \in Files : files[f].text \in Nat /\ files[f].text <= texts
                         /\ (files[f].text \in kept <=> files[f].text \in kept')
    BY <1>4, FileFields DEF NotesInv, NoteTypes
  <1>6. NoteTypes'
    <2>1. kept' \subseteq 0..texts'
      BY <1>1, <1>2 DEF NotesInv, NoteTypes
    <2>2. ASSUME NEW f \in Files' PROVE files'[f].text <= texts'
      <3>0. texts' = texts + 1 /\ texts \in Nat
        BY <1>1, <1>2
      <3>1. CASE f = n
        <4>1. files'[f].text = texts + 1
          BY <1>2, <1>3, <3>1
        <4> QED  BY <3>0, <4>1
      <3>2. CASE f \in Files
        <4>1. files'[f].text \in Nat /\ files'[f].text <= texts
          BY <1>3, <1>5, <3>2
        <4> QED  BY <3>0, <4>1
      <3> QED  BY <1>3, <3>1, <3>2
    <2>3. texts' \in Nat /\ task' \in [Workers -> Tasks]
      BY <1>1, <1>2 DEF NotesInv, NoteTypes
    <2> QED  BY <1>3, <2>1, <2>2, <2>3 DEF NoteTypes
  <1>7. FilesThere'
    <2>1. \A v \in Workers : task[v].step = "truncate" => task[v].text \in Nat
      BY TaskFields DEF NotesInv, Truncating
    <2>2. \A k \in Nat : k <= texts => k <= texts'
      BY <1>1, <1>2
    <2> QED  BY <1>1, <1>3, <2>1, <2>2 DEF NotesInv, FilesThere
  <1>8. LockHeld' /\ AloneIs'
    BY <1>1 DEF NotesInv, LockHeld, AloneIs, Updating, Copying
  <1>9. DoomedGone'
    <2>1. texts + 1 \notin kept
      BY <1>2 DEF NotesInv, NoteTypes
    <2>2. new.doomed => new.text \notin kept'
      BY <1>1, <1>2, <2>1
    <2> QED  BY <1>3, <1>5, <2>2 DEF NotesInv, DoomedGone
  <1>10. NoteNamed'
    <2> SUFFICES ASSUME NEW k \in kept'
                 PROVE  \E p \in Paths : entry'[p] # 0 /\ files'[entry'[p]].text = k
      BY DEF NoteNamed
    <2>1. CASE k \in kept
      <3>1. PICK p \in Paths : entry[p] # 0 /\ files[entry[p]].text = k
        BY <2>1 DEF NotesInv, NoteNamed
      <3> QED  BY <1>3, <3>1
    <2>2. CASE k = texts + 1
      BY <1>2, <1>3, <2>2
    <2> QED  BY <1>1, <2>1, <2>2
  <1>11. WholeSoon'
    <2> SUFFICES ASSUME NEW f \in Files', Named(f)', files'[f].text \in kept', ~files'[f].whole
                 PROVE  \E v \in Workers : WritesTo(v, f)'
      BY DEF WholeSoon
    <2>1. f \in Files
      BY <1>2, <1>3
    <2>2. PICK v \in Workers : WritesTo(v, f)
      BY <1>3, <1>5, <2>1 DEF NotesInv, WholeSoon
    <2> QED  BY <1>1, <1>3, <2>1, <2>2 DEF WritesTo
  <1>12. Truncates'
    <2> SUFFICES ASSUME NEW v \in Workers, task[v].step = "truncate"
                 PROVE  /\ task[v].text \in kept' => task[v].alone
                        /\ files'[task[v].file].text \in kept'
                              => files'[task[v].file].text = task[v].text
      BY <1>1 DEF Truncates
    <2>1. task[v].file \in Files /\ task[v].text \in Nat /\ task[v].text <= texts
      BY TaskFields DEF NotesInv, FilesThere, Truncating
    <2> QED  BY <1>3, <1>4, <1>5, <2>1 DEF NotesInv, Truncates
  <1>13. StillNamed'
    <2> SUFFICES ASSUME NEW v \in Workers, task[v].step = "rewrite", task[v].alone
                 PROVE  files'[task[v].file].doomed \/ Named(task[v].file)'
      BY <1>1 DEF StillNamed, Named
    <2>1. task[v].file \in Files /\ task' = task
      BY <1>1 DEF NotesInv, FilesThere
    <2>2. files[task[v].file].doomed \/ Named(task[v].file)
      BY DEF NotesInv, StillNamed
    <2> QED  BY <1>3, <2>1, <2>2 DEF Named
  <1>14. Moves'
    <2> SUFFICES ASSUME NEW v \in Workers
                 PROVE  Linked(v)' /\ SourceKept(v)' /\ CopyMade(v)' /\ CopyIsNew(v)'
      BY DEF Moves
    <2>1. Linked(v) /\ SourceKept(v) /\ CopyMade(v) /\ CopyIsNew(v)
      BY DEF NotesInv, Moves
    <2>2. /\ task'[v] = task[v]
          /\ task[v].step \in MoveSteps => task[v].path \in Paths /\ task[v].to \in Paths
      BY <1>1, TaskFields DEF NotesInv, Moving
    <2>3. /\ task[v].step \in {"copy", "open", "unlink"} /\ task[v].file # 0
             => task[v].file \in Files
          /\ task[v].step \in {"copy", "unlink"} /\ task[v].file # 0 => task[v].into \in Files
          /\ task[v].step = "copy" => task[v].file # 0
      BY DEF NotesInv, FilesThere, Files
    <2>4. /\ task[v].step \in {"open", "copy", "unlink"} /\ task[v].path = path
             => files'[entry'[task[v].path]].doomed
          /\ task[v].step = "copy" /\ task[v].to = path => files'[entry'[task[v].to]].doomed
      BY <1>2, <1>3 DEF WorkedOn
    <2>5. \A g \in Files : g # 0
      BY DEF Files
    <2>6. Linked(v)'
      BY <1>1, <1>3, <2>1, <2>2, <2>4 DEF Linked, MoveSteps
    <2>7. SourceKept(v)'
      BY <1>1, <1>3, <1>5, <2>1, <2>2, <2>3, <2>4, <2>5 DEF SourceKept, MoveSteps
    <2>8. CopyMade(v)'
      <3> SUFFICES ASSUME task[v].step \in {"copy", "unlink"}, task[v].file # 0,
                          files'[task[v].file].text \in kept'
                   PROVE  CopyMade(v)'
        BY <2>2 DEF CopyMade
      <3>1. /\ task[v].file \in Files /\ task[v].into \in Files /\ task[v].to \in Paths
            /\ task[v].into # 0
        BY <2>2, <2>3, <2>5 DEF MoveSteps
      <3>2. /\ files'[task[v].file] = files[task[v].file] /\ files[task[v].file].text \in kept
            /\ files'[task[v].into] = files[task[v].into]
        BY <1>3, <1>5, <3>1
      <3>3. entry[task[v].to] = task[v].into
        BY <2>1, <3>2 DEF CopyMade
      <3>4. entry'[task[v].to] = task[v].into
        BY <1>3, <3>1, <3>3
      <3> QED  BY <2>1, <2>2, <3>2, <3>3, <3>4 DEF CopyMade
    <2>9. CopyIsNew(v)'
      BY <1>1, <1>3, <1>5, <2>1, <2>2, <2>3, <2>4 DEF CopyIsNew, MoveSteps
    <2> QED  BY <2>6, <2>7, <2>8, <2>9
  <1> QED  BY <1>6, <1>7, <1>8, <1>9, <1>10, <1>11, <1>12, <1>13, <1>14 DEF NotesInv

(* _copy_entry: the copy is a new file, then says what the source says.    *)
LEMMA OpenCopyStep ==
    ASSUME NotesInv, NEW w \in Workers, OpenCopy(w)
    PROVE  NotesInv'
  <1> DEFINE path == task[w].path
             to == task[w].to
             f == task[w].file
             n == Len(files) + 1
             new == [text |-> files[f].text, whole |-> FALSE, doomed |-> FALSE]
             t == [task[w] EXCEPT !.step = "copy", !.into = n]
  <1>1. /\ task[w].step = "open" /\ task[w] \in Moving /\ path \in Paths /\ to \in Paths
        /\ f \in Files /\ UNCHANGED <<texts, kept>>
    BY TaskFields DEF OpenCopy, NotesInv, MoveSteps, Moving, FilesThere
  <1>2. CASE entry[to] # 0
    <2>1. Leaves(w) /\ UNCHANGED <<files, entry>>
      BY <1>2 DEF OpenCopy
    <2> QED  BY <1>1, <2>1, LeavesUnwritten
  <1>3. CASE entry[to] = 0
    <2>1. /\ files' = Append(files, new) /\ entry' = [entry EXCEPT ![to] = n]
          /\ task' = [task EXCEPT ![w] = t] /\ noteLocks' = noteLocks
      BY <1>3 DEF OpenCopy, Opens
    <2>2. /\ new \in NoteFile /\ new.text = files[f].text /\ ~new.doomed
          /\ files[f].text \in Nat /\ files[f].text <= texts /\ f # 0
      BY <1>1, FileFields DEF NotesInv, NoteTypes, NoteFile
    <2> HIDE DEF new
    <2>3. /\ files' \in Seq(NoteFile) /\ Files' = Files \union {n}
          /\ n \notin Files /\ n \in Nat \ {0} /\ files'[n] = new
          /\ \A g \in Files : files'[g] = files[g]
          /\ entry' \in [Paths -> {0} \union Files'] /\ entry'[to] = n
          /\ \A p \in Paths \ {to} : entry'[p] = entry[p]
          /\ \A p \in Paths : entry[p] # 0 => entry'[p] = entry[p] /\ entry[p] \in Files
          /\ \A g \in Files : Named(g) <=> Named(g)'
      BY <1>1, <1>3, <2>1, <2>2, EntryAdded DEF NotesInv
    <2>4. /\ t \in Tasks /\ t.step = "copy" /\ t.file = f /\ t.into = n
          /\ t.path = path /\ t.to = to
      BY <1>1, <2>3 DEF Tasks, Moving
    <2> HIDE DEF n, t
    <2>5. /\ task' \in [Workers -> Tasks] /\ task'[w] = t
          /\ \A v \in Workers \ {w} : task'[v] = task[v]
      BY <2>1, <2>4, TaskChanged DEF NotesInv
    <2>6. NoteTypes'
      <3>1. \A g \in Files' : files'[g].text <= texts'
        BY <1>1, <2>2, <2>3 DEF NotesInv, NoteTypes
      <3> QED  BY <1>1, <2>3, <2>5, <3>1 DEF NotesInv, NoteTypes
    <2>7. FilesThere'
      <3>1. n # f /\ f \in Files' /\ n \in Files'
        BY <1>1, <2>3
      <3>2. \A g \in Files : g \in Files'
        BY <2>3
      <3> QED  BY <1>1, <2>4, <2>5, <3>1, <3>2 DEF NotesInv, FilesThere
    <2>8. LockHeld'
      BY <1>1, <2>1, <2>5 DEF NotesInv, LockHeld, MoveSteps
    <2>9. DoomedGone'
      BY <1>1, <2>2, <2>3 DEF NotesInv, DoomedGone
    <2>10. NoteNamed'
      <3> SUFFICES ASSUME NEW k \in kept
                   PROVE  \E p \in Paths : entry'[p] # 0 /\ files'[entry'[p]].text = k
        BY <1>1 DEF NoteNamed
      <3>1. PICK p \in Paths : entry[p] # 0 /\ files[entry[p]].text = k
        BY DEF NotesInv, NoteNamed
      <3> QED  BY <2>3, <3>1
    <2>11. WholeSoon'
      <3> SUFFICES ASSUME NEW g \in Files', Named(g)', files'[g].text \in kept, ~files'[g].whole
                   PROVE  \E v \in Workers : WritesTo(v, g)'
        BY <1>1 DEF WholeSoon
      <3>1. CASE g = n
        BY <2>4, <2>5, <3>1 DEF WritesTo
      <3>2. CASE g \in Files
        <4>1. PICK v \in Workers : WritesTo(v, g)
          BY <2>3, <3>2 DEF NotesInv, WholeSoon
        <4>2. task'[v] = task[v]
          BY <1>1, <2>5, <4>1 DEF WritesTo
        <4> QED  BY <2>3, <3>2, <4>1, <4>2 DEF WritesTo
      <3> QED  BY <2>3, <3>1, <3>2
    <2>12. AloneIs'
      <3> SUFFICES ASSUME NEW u \in Workers, NEW v \in Workers,
                          task'[u].step \in {"rewrite", "truncate"}, task'[u].alone
                   PROVE  /\ v # u => ~Updating(v, task[u].file)'
                          /\ ~Copying(v, task[u].file)'
        BY DEF AloneIs, Updating, Copying
      <3>1. u # w /\ task'[u] = task[u] /\ task[u].file \in Files /\ task[u].file # n
        BY <2>3, <2>4, <2>5 DEF NotesInv, FilesThere
      <3>2. /\ v # u => ~Updating(v, task[u].file)
            /\ ~Copying(v, task[u].file)
        BY <3>1 DEF NotesInv, AloneIs
      <3>3. CASE v = w
        BY <1>1, <2>4, <2>5, <3>1, <3>2, <3>3 DEF Updating, Copying
      <3>4. CASE v # w
        BY <2>5, <3>1, <3>2, <3>4 DEF Updating, Copying
      <3> QED  BY <3>3, <3>4
    <2>13. Truncates'
      <3> SUFFICES ASSUME NEW v \in Workers, task'[v].step = "truncate"
                   PROVE  /\ task'[v].text \in kept => task'[v].alone
                          /\ files'[task'[v].file].text \in kept
                                => files'[task'[v].file].text = task'[v].text
        BY <1>1 DEF Truncates
      <3>1. task'[v] = task[v] /\ task[v].file \in Files
        BY <2>4, <2>5 DEF NotesInv, FilesThere
      <3> QED  BY <2>3, <3>1 DEF NotesInv, Truncates
    <2>14. StillNamed'
      <3> SUFFICES ASSUME NEW v \in Workers, task'[v].step = "rewrite", task'[v].alone
                   PROVE  files'[task'[v].file].doomed \/ Named(task[v].file)'
        BY DEF StillNamed, Named
      <3>1. task'[v] = task[v] /\ task[v].file \in Files
        BY <2>4, <2>5 DEF NotesInv, FilesThere
      <3>2. files[task[v].file].doomed \/ Named(task[v].file)
        BY <3>1 DEF NotesInv, StillNamed
      <3> QED  BY <2>3, <3>1, <3>2 DEF Named
    <2>15. Moves'
      <3>1. SourceKept(w)
        BY DEF NotesInv, Moves
      <3>2. Linked(w)' /\ files'[f] = files[f]
        BY <1>1, <2>3, <2>4, <2>5 DEF Linked
      <3>3. SourceKept(w)'
        <4>1. entry[path] = f \/ files[f].doomed
          BY <1>1, <2>2, <3>1 DEF SourceKept
        <4>2. entry[path] # 0 => entry[path] = f \/ files[entry[path]].doomed
          BY <1>1, <2>2, <3>1 DEF SourceKept
        <4>3. files[f].text \in kept => files[f].whole
          BY <1>1, <2>2, <3>1 DEF SourceKept
        <4>4. entry[path] # 0 => entry'[path] = entry[path] /\ entry[path] \in Files
          BY <1>1, <2>3
        <4>5. entry'[path] # 0 /\ entry[path] = 0 => path = to /\ entry'[path] = n
          BY <1>1, <2>3
        <4> QED  BY <1>1, <2>2, <2>3, <2>4, <2>5, <3>2, <4>1, <4>2, <4>3, <4>4, <4>5 DEF SourceKept
      <3>4. CopyMade(w)'
        BY <2>2, <2>3, <2>4, <2>5, <3>2 DEF CopyMade
      <3>5. CopyIsNew(w)'
        <4>1. \A p \in Paths : entry'[p] = n => p = to
          BY <2>3 DEF NotesInv, NoteTypes
        <4> QED  BY <2>2, <2>3, <2>4, <2>5, <3>2, <4>1 DEF CopyIsNew
      <3> QED  BY <1>1, <2>5, <3>2, <3>3, <3>4, <3>5, OnlyMover DEF MoveSteps
    <2> QED  BY <2>6, <2>7, <2>8, <2>9, <2>10, <2>11, <2>12, <2>13, <2>14, <2>15 DEF NotesInv
  <1> QED  BY <1>2, <1>3

LEMMA CopyStep ==
    ASSUME NotesInv, NEW w \in Workers, Copy(w)
    PROVE  NotesInv'
  <1> DEFINE path == task[w].path
             to == task[w].to
             f == task[w].file
             into == task[w].into
             t == [task[w] EXCEPT !.step = "unlink"]
  <1>1. /\ task[w].step = "copy" /\ task[w] \in Moving /\ path \in Paths /\ to \in Paths
        /\ f \in Files /\ into \in Files /\ into # f /\ f # 0 /\ into # 0
        /\ UNCHANGED <<entry, texts, kept, noteLocks>>
    BY TaskFields DEF Copy, NotesInv, MoveSteps, Moving, FilesThere, Files
  <1>2. files' = [files EXCEPT ![into] = files[f]] /\ task' = [task EXCEPT ![w] = t]
    BY DEF Copy, StepsTo
  <1>3. /\ files[f] \in NoteFile /\ files[f].text <= texts
        /\ \A p \in Paths : entry[p] # 0 => entry[p] \in Files
    BY <1>1, FileFields DEF NotesInv, NoteTypes
  <1>4. /\ files' \in Seq(NoteFile) /\ Files' = Files /\ files'[into] = files[f]
        /\ \A g \in Files \ {into} : files'[g] = files[g]
    BY <1>1, <1>2, <1>3, FileChanged DEF NotesInv
  <1>5. /\ t \in Tasks /\ t.step = "unlink" /\ t.file = f /\ t.into = into
        /\ t.path = path /\ t.to = to
    BY <1>1 DEF Tasks, Moving
  <1> HIDE DEF t
  <1>6. /\ task' \in [Workers -> Tasks] /\ task'[w] = t
        /\ \A v \in Workers \ {w} : task'[v] = task[v]
    BY <1>2, <1>5, TaskChanged DEF NotesInv
  <1>s. /\ entry[path] = f \/ files[f].doomed
        /\ entry[path] # 0 => \/ entry[path] = f \/ files[entry[path]].doomed
                              \/ entry[path] = into
        /\ files[f].text \in kept => files[f].whole
    BY <1>1 DEF NotesInv, Moves, SourceKept
  <1>c. files[f].text \in kept => files[into].text = files[f].text /\ entry[to] = into
    BY <1>1 DEF NotesInv, Moves, CopyMade
  <1>n. files[into].text \in kept => files[f].text = files[into].text
    BY <1>1 DEF NotesInv, Moves, CopyIsNew
  <1>7. NoteTypes'
    <2>1. \A g \in Files' : files'[g].text <= texts'
      BY <1>1, <1>3, <1>4 DEF NotesInv, NoteTypes
    <2> QED  BY <1>1, <1>4, <1>6, <2>1 DEF NotesInv, NoteTypes
  <1>8. FilesThere' /\ LockHeld'
    <2>1. FilesThere'
      BY <1>1, <1>4, <1>5, <1>6 DEF NotesInv, FilesThere
    <2>2. LockHeld'
      BY <1>1, <1>6 DEF NotesInv, LockHeld, MoveSteps
    <2> QED  BY <2>1, <2>2
  <1>9. DoomedGone'
    BY <1>1, <1>4 DEF NotesInv, DoomedGone
  <1>10. NoteNamed'
    <2> SUFFICES ASSUME NEW k \in kept
                 PROVE  \E p \in Paths : entry[p] # 0 /\ files'[entry[p]].text = k
      BY <1>1 DEF NoteNamed
    <2>1. PICK p \in Paths : entry[p] # 0 /\ files[entry[p]].text = k
      BY DEF NotesInv, NoteNamed
    <2>2. files'[entry[p]].text = k
      BY <1>3, <1>4, <1>n, <2>1
    <2> QED  BY <2>1, <2>2
  <1>11. WholeSoon'
    <2> SUFFICES ASSUME NEW g \in Files, Named(g), files'[g].text \in kept, ~files'[g].whole
                 PROVE  \E v \in Workers : WritesTo(v, g)'
      BY <1>1, <1>4 DEF WholeSoon, Named
    <2>1. g # into /\ files'[g] = files[g]
      BY <1>4, <1>s
    <2>2. PICK v \in Workers : WritesTo(v, g)
      BY <2>1 DEF NotesInv, WholeSoon
    <2>3. task'[v] = task[v]
      BY <1>1, <1>6, <2>1, <2>2 DEF WritesTo
    <2> QED  BY <2>1, <2>2, <2>3 DEF WritesTo
  <1>12. AloneIs'
    <2> SUFFICES ASSUME NEW u \in Workers, NEW v \in Workers,
                        task'[u].step \in {"rewrite", "truncate"}, task'[u].alone
                 PROVE  /\ v # u => ~Updating(v, task[u].file)'
                        /\ ~Copying(v, task[u].file)'
      BY <1>5, <1>6 DEF AloneIs, Updating, Copying
    <2>1. u # w /\ task'[u] = task[u]
      BY <1>5, <1>6
    <2>2. /\ v # u => ~Updating(v, task[u].file)
          /\ ~Copying(v, task[u].file)
      BY <2>1 DEF NotesInv, AloneIs
    <2>3. CASE v = w
      BY <1>1, <1>5, <1>6, <2>1, <2>2, <2>3 DEF Updating, Copying
    <2>4. CASE v # w
      BY <1>6, <2>1, <2>2, <2>4 DEF Updating, Copying
    <2> QED  BY <2>3, <2>4
  <1>13. Truncates'
    <2> SUFFICES ASSUME NEW v \in Workers, task'[v].step = "truncate"
                 PROVE  /\ task'[v].text \in kept => task'[v].alone
                        /\ files'[task'[v].file].text \in kept
                              => files'[task'[v].file].text = task'[v].text
      BY <1>1 DEF Truncates
    <2>1. task'[v] = task[v] /\ task[v].file \in Files
      BY <1>5, <1>6 DEF NotesInv, FilesThere
    <2>2. /\ task[v].text \in kept => task[v].alone
          /\ files[task[v].file].text \in kept => files[task[v].file].text = task[v].text
      BY <2>1 DEF NotesInv, Truncates
    <2>3. CASE task[v].file = into
      BY <1>4, <1>c, <2>1, <2>2, <2>3
    <2>4. CASE task[v].file # into
      BY <1>4, <2>1, <2>2, <2>4
    <2> QED  BY <2>3, <2>4
  <1>14. StillNamed'
    <2> SUFFICES ASSUME NEW v \in Workers, task'[v].step = "rewrite", task'[v].alone
                 PROVE  files'[task[v].file].doomed \/ Named(task[v].file)
      BY <1>1, <1>5, <1>6 DEF StillNamed, Named
    <2>1. task'[v] = task[v] /\ task[v].file \in Files
      BY <1>5, <1>6 DEF NotesInv, FilesThere
    <2>2. task[v].file # into
      BY <1>1, <2>1 DEF NotesInv, AloneIs, Copying
    <2>3. files[task[v].file].doomed \/ Named(task[v].file)
      BY <2>1 DEF NotesInv, StillNamed
    <2> QED  BY <1>4, <2>1, <2>2, <2>3
  <1>15. Moves'
    <2>1. Linked(w)' /\ CopyIsNew(w)'
      BY <1>1, <1>5, <1>6 DEF Linked, CopyIsNew
    <2>2. files'[f] = files[f]
      BY <1>1, <1>4
    <2>3. SourceKept(w)'
      <3>1. entry[path] # 0 => entry[path] = f \/ files'[entry[path]].doomed
        BY <1>1, <1>3, <1>4, <1>s
      <3> QED  BY <1>1, <1>5, <1>6, <1>s, <2>2, <3>1 DEF SourceKept
    <2>4. CopyMade(w)'
      BY <1>1, <1>4, <1>5, <1>6, <1>s, <1>c, <2>2 DEF CopyMade
    <2> QED  BY <1>1, <1>6, <2>1, <2>3, <2>4, OnlyMover DEF MoveSteps
  <1> QED  BY <1>7, <1>8, <1>9, <1>10, <1>11, <1>12, <1>13, <1>14, <1>15 DEF NotesInv

-----------------------------------------------------------------------------
(* An update, or a copy of a file that is being updated, begins            *)

LEMMA SharedDoes ==
    ASSUME NoteTypes, NEW f \in Files, NEW v \in Workers
    PROVE  /\ Shared(f)[v] \in Tasks /\ Shared(f)[v].step = task[v].step
           /\ Updating(v, f) =>
                /\ Shared(f)[v].file = f /\ ~Shared(f)[v].alone
                /\ task[v].step = "truncate" =>
                     Shared(f)[v].text = task[v].text /\ task[v].text \in InFlight(f)
           /\ ~Updating(v, f) => Shared(f)[v] = task[v]
  <1>1. v \in Updates(f) <=> Updating(v, f)
    <2>1. Updating(v, f) => task[v] # NotWorking
      BY DEF Updating, NotWorking
    <2>2. task[v].step \in {"rewrite", "truncate"} =>
             task[v] # NotWorking /\ task[v].step # "copy"
      BY DEF NotWorking
    <2> QED  BY <2>1, <2>2 DEF Updates, On, Updating
  <1>2. CASE ~Updating(v, f)
    <2>1. Shared(f)[v] = task[v]
      BY <1>1, <1>2 DEF Shared
    <2> QED  BY <1>2, <2>1 DEF NoteTypes
  <1>3. CASE Updating(v, f)
    <2>1. Shared(f)[v] = [task[v] EXCEPT !.alone = FALSE]
      BY <1>1, <1>3 DEF Shared
    <2>2. CASE task[v].step = "rewrite"
      <3>1. task[v] \in Rewriting
        BY <2>2, TaskFields
      <3> DEFINE t == [task[v] EXCEPT !.alone = FALSE]
      <3>2. t \in Rewriting /\ t.step = "rewrite" /\ t.file = task[v].file /\ t.alone = FALSE
        BY <3>1 DEF Rewriting
      <3> QED  BY <1>3, <2>1, <2>2, <3>2 DEF Updating, Tasks
    <2>3. CASE task[v].step = "truncate"
      <3>1. task[v] \in Truncating
        BY <2>3, TaskFields
      <3> DEFINE t == [task[v] EXCEPT !.alone = FALSE]
      <3>2. /\ t \in Truncating /\ t.step = "truncate" /\ t.file = task[v].file
            /\ t.alone = FALSE /\ t.text = task[v].text
        BY <3>1 DEF Truncating
      <3>3. task[v].text \in InFlight(f)
        BY <1>1, <1>3, <2>3 DEF InFlight
      <3> QED  BY <1>3, <2>1, <2>3, <3>2, <3>3 DEF Updating, Tasks
    <2> QED  BY <1>3, <2>2, <2>3 DEF Updating
  <1> QED  BY <1>2, <1>3

(* A thread that comes to a file makes the updates of it not alone.        *)
LEMMA SharesStep ==
    ASSUME NotesInv, NEW w \in Workers, NEW f \in Files, NEW t \in Tasks, t.file = f,
           task' = [Shared(f) EXCEPT ![w] = t], kept' = kept \ InFlight(f),
           task[w].step \in {"idle", "link"}, UNCHANGED <<files, entry, noteLocks, texts>>,
           \/ t.step = "rewrite" /\ (t.alone => On(f) = {}) /\ Named(f)
           \/ t.step = "open" /\ task[w].step = "link" /\ t.into = 0 /\ entry[t.path] = f
              /\ t.path \in Paths
    PROVE  NotesInv'
  <1>1. /\ task' \in [Workers -> Tasks] /\ task'[w] = t
        /\ \A v \in Workers \ {w} : task'[v] = Shared(f)[v]
    <2>1. \A v \in Workers : Shared(f)[v] \in Tasks
      BY SharedDoes DEF NotesInv
    <2>2. Shared(f) = [v \in Workers |-> Shared(f)[v]]
      BY DEF Shared
    <2> HIDE DEF Shared
    <2>3. Shared(f) \in [Workers -> Tasks]
      BY <2>1, <2>2
    <2> QED  BY <2>3
  <1>2. ASSUME NEW v \in Workers \ {w}
        PROVE  /\ task'[v].step = task[v].step
               /\ Updating(v, f) => /\ task'[v].file = f /\ ~task'[v].alone
                                    /\ task[v].step = "truncate" =>
                                         task'[v].text = task[v].text /\ task[v].text \notin kept'
               /\ ~Updating(v, f) => task'[v] = task[v]
    BY <1>1, SharedDoes DEF NotesInv
  <1>3. /\ Files' = Files /\ files' = files /\ entry' = entry /\ texts' = texts
        /\ kept' \subseteq kept /\ f # 0
        /\ \A p \in Paths : entry[p] # 0 => entry[p] \in Files
    BY DEF NotesInv, NoteTypes, Files
  <1>4. \A v \in Workers \ {w} :
           /\ task[v].step \in UpdateSteps \/ task'[v] = task[v]
           /\ task[v].step \in UpdateSteps => task'[v].file = task[v].file
           /\ task[v].step = "truncate" => task'[v].text = task[v].text
           /\ task[v].step \in UpdateSteps /\ task'[v].alone => task'[v] = task[v] /\ task[v].file # f
    BY <1>2 DEF Updating, UpdateSteps
  <1>5. NoteTypes'
    BY <1>1, <1>3 DEF NotesInv, NoteTypes
  <1>6. FilesThere'
    <2> SUFFICES ASSUME NEW v \in Workers
                 PROVE  /\ task'[v].step \in {"write", "rewrite", "truncate", "open", "copy"}
                             => task'[v].file \in Files
                        /\ task'[v].step = "truncate" => task'[v].text <= texts
                        /\ task'[v].step = "copy" =>
                             task'[v].into \in Files /\ task'[v].into # task'[v].file
                        /\ task'[v].step \in {"link", "open"} => task'[v].into = 0
                        /\ task'[v].step = "link" => task'[v].file = 0
                        /\ task'[v].step = "unlink" =>
                              \/ task'[v].file = 0 /\ task'[v].into = 0
                              \/ /\ task'[v].file \in Files /\ task'[v].into \in Files
                                 /\ task'[v].into # task'[v].file
      BY <1>3 DEF FilesThere
    <2>1. CASE v = w
      BY <1>1, <2>1
    <2>2. CASE v # w /\ task'[v] = task[v]
      BY <2>2 DEF NotesInv, FilesThere
    <2>3. CASE v # w /\ task[v].step \in UpdateSteps
      BY <1>2, <1>4, <2>3 DEF NotesInv, FilesThere, UpdateSteps
    <2> QED  BY <1>4, <2>1, <2>2, <2>3
  <1>7. LockHeld'
    BY <1>1, <1>2 DEF NotesInv, LockHeld, MoveSteps
  <1>8. DoomedGone' /\ NoteNamed'
    BY <1>3 DEF NotesInv, DoomedGone, NoteNamed
  <1>9. \A v \in Workers, g \in Files : WritesTo(v, g) => WritesTo(v, g)'
    BY <1>2, <1>3, <1>4 DEF WritesTo, UpdateSteps
  <1>10. WholeSoon'
    BY <1>3, <1>9 DEF NotesInv, WholeSoon, Named
  <1>11. AloneIs'
    <2> SUFFICES ASSUME NEW u \in Workers, NEW v \in Workers,
                        task'[u].step \in {"rewrite", "truncate"}, task'[u].alone
                 PROVE  /\ v # u => ~Updating(v, task[u].file)'
                        /\ ~Copying(v, task[u].file)'
      <3>1. \A v \in Workers, g \in Files :
               /\ Updating(v, g)' <=> task'[v].step \in {"rewrite", "truncate"} /\ task'[v].file = g
               /\ Copying(v, g)' <=> \/ task'[v].step \in {"open", "copy", "unlink"} /\ task'[v].file = g
                                     \/ task'[v].step = "copy" /\ task'[v].into = g
        BY DEF Updating, Copying
      <3> QED  BY DEF AloneIs, Updating, Copying
    <2>1. CASE u = w
      <3>1. On(f) = {} /\ task'[w].file = f
        BY <1>1, <2>1
      <3>2. task[v] = NotWorking \/ (task[v].file # f /\ ~(task[v].step = "copy" /\ task[v].into = f))
        BY <3>1 DEF On
      <3>3. v # w => task'[v] = task[v]
        BY <1>2, <3>2 DEF Updating, NotWorking
      <3>4. v = w => ~Copying(v, task[u].file)'
        BY <1>1, <2>1 DEF Copying
      <3> QED  BY <2>1, <3>1, <3>2, <3>3, <3>4 DEF Updating, Copying, NotWorking
    <2>2. CASE u # w
      <3>1. task'[u] = task[u] /\ task[u].file # f
        BY <1>2, <1>4, <2>2 DEF UpdateSteps
      <3>2. /\ v # u => ~Updating(v, task[u].file)
            /\ ~Copying(v, task[u].file)
        BY <3>1 DEF NotesInv, AloneIs
      <3>3. CASE v = w
        BY <1>1, <3>1, <3>3 DEF Updating, Copying
      <3>4. CASE v # w
        BY <1>2, <1>4, <3>1, <3>2, <3>4 DEF Updating, Copying, UpdateSteps
      <3> QED  BY <3>3, <3>4
    <2> QED  BY <2>1, <2>2
  <1>12. Truncates'
    <2> SUFFICES ASSUME NEW v \in Workers, task'[v].step = "truncate"
                 PROVE  /\ task'[v].text \in kept' => task'[v].alone
                        /\ files[task'[v].file].text \in kept'
                              => files[task'[v].file].text = task'[v].text
      BY <1>3 DEF Truncates
    <2>1. v # w /\ task[v].step = "truncate"
      BY <1>1, <1>2
    <2>2. /\ task[v].text \in kept => task[v].alone
          /\ files[task[v].file].text \in kept => files[task[v].file].text = task[v].text
      BY <2>1 DEF NotesInv, Truncates
    <2> QED  BY <1>2, <1>3, <2>1, <2>2 DEF Updating
  <1>13. StillNamed'
    <2> SUFFICES ASSUME NEW v \in Workers, task'[v].step = "rewrite", task'[v].alone
                 PROVE  files[task'[v].file].doomed \/ \E p \in Paths : entry[p] = task'[v].file
      BY <1>3 DEF StillNamed, Named
    <2>1. CASE v = w
      BY <1>1, <2>1 DEF Named
    <2>2. CASE v # w
      <3>1. task'[v] = task[v]
        BY <1>2, <1>4, <2>2 DEF UpdateSteps
      <3> QED  BY <3>1 DEF NotesInv, StillNamed, Named
    <2> QED  BY <2>1, <2>2
  <1>14. Moves'
    <2> SUFFICES ASSUME NEW v \in Workers
                 PROVE  Linked(v)' /\ SourceKept(v)' /\ CopyMade(v)' /\ CopyIsNew(v)'
      BY DEF Moves
    <2>1. CASE v # w /\ task'[v] = task[v]
      BY <1>3, <2>1 DEF NotesInv, Moves, Linked, SourceKept, CopyMade, CopyIsNew
    <2>2. CASE v # w /\ task[v].step \in UpdateSteps
      BY <1>2, <2>2 DEF UpdateSteps, Linked, SourceKept, CopyMade, CopyIsNew
    <2>3. CASE v = w /\ t.step = "rewrite"
      BY <1>1, <2>3 DEF Linked, SourceKept, CopyMade, CopyIsNew
    <2>4. CASE v = w /\ t.step = "open"
      <3>1. files[f].text \in kept' => files[f].whole
        <4> SUFFICES ASSUME files[f].text \in kept', ~files[f].whole PROVE FALSE
          OBVIOUS
        <4>1. Named(f) /\ files[f].text \in kept /\ task[w].step = "link"
          BY <1>3, <2>4 DEF Named
        <4>2. PICK u \in Workers : WritesTo(u, f)
          BY <4>1 DEF NotesInv, WholeSoon
        <4>3. u # w
          BY <4>1, <4>2 DEF WritesTo
        <4>4. task[u].step \notin {"write", "copy"}
          BY <4>1, <4>3, OneHolder DEF NotesInv, MoveSteps
        <4>5. task[u].step = "truncate" /\ task[u].file = f /\ task[u].text = files[f].text
          BY <4>2, <4>4 DEF WritesTo
        <4> QED  BY <1>2, <4>3, <4>5 DEF Updating
      <3> QED  BY <1>1, <1>3, <2>4, <3>1 DEF Linked, SourceKept, CopyMade, CopyIsNew
    <2> QED  BY <1>4, <2>1, <2>2, <2>3, <2>4
  <1> QED  BY <1>5, <1>6, <1>7, <1>8, <1>10, <1>11, <1>12, <1>13, <1>14 DEF NotesInv

LEMMA BeginUpdateStep ==
    ASSUME NotesInv, NEW w \in Workers, NEW path \in Paths, BeginUpdate(w, path)
    PROVE  NotesInv'
  <1> DEFINE f == entry[path]
             t == [step |-> "rewrite", file |-> f, alone |-> On(f) = {}]
  <1>1. /\ f # 0 /\ task[w] = NotWorking /\ task' = [Shared(f) EXCEPT ![w] = t]
        /\ kept' = kept \ InFlight(f) /\ UNCHANGED <<files, entry, noteLocks, texts>>
    BY DEF BeginUpdate
  <1>2. f \in Files /\ Named(f) /\ f \in Nat /\ task[w].step = "idle"
    BY <1>1 DEF NotesInv, NoteTypes, Named, Files, NotWorking
  <1>3. /\ t \in Tasks /\ t.file = f /\ t.step = "rewrite"
        /\ t.alone => On(f) = {}
    <2>1. t.step = "rewrite" /\ t.file = f /\ t.alone = (On(f) = {})
      OBVIOUS
    <2>2. (On(f) = {}) \in BOOLEAN
      OBVIOUS
    <2>3. t \in Rewriting
      BY <1>2, <2>2 DEF Rewriting
    <2>4. t.alone => On(f) = {}
      BY <2>1, Zenon
    <2> QED  BY <2>1, <2>3, <2>4 DEF Tasks
  <1> HIDE DEF t, f
  <1> QED  BY <1>1, <1>2, <1>3, SharesStep

LEMMA LinkRefusedStep ==
    ASSUME NotesInv, NEW w \in Workers, LinkRefused(w)
    PROVE  NotesInv'
  <1> DEFINE f == entry[task[w].path]
             t == [task[w] EXCEPT !.step = "open", !.file = f]
  <1>1. /\ task[w].step = "link" /\ task[w] \in Moving /\ task[w].path \in Paths
        /\ task[w].into = 0 /\ UNCHANGED <<files, entry, texts>>
    BY TaskFields DEF LinkRefused, NotesInv, MoveSteps, Moving, FilesThere
  <1>2. CASE f = 0
    BY <1>1, <1>2, LeavesUnwritten DEF LinkRefused
  <1>3. CASE f # 0
    <2>1. f \in Files /\ f \in Nat
      BY <1>1, <1>3 DEF NotesInv, NoteTypes, Files
    <2>2. /\ t \in Tasks /\ t.file = f /\ t.step = "open" /\ t.into = 0
          /\ t.path = task[w].path
      BY <1>1, <2>1 DEF Tasks, Moving
    <2>3. Shared(f)[w] = task[w] /\ Shared(f) = [v \in Workers |-> Shared(f)[v]]
      BY <1>1, <2>1, SharedDoes DEF NotesInv, Updating, Shared
    <2>4. /\ task' = [Shared(f) EXCEPT ![w].step = "open", ![w].file = f]
          /\ kept' = kept \ InFlight(f) /\ noteLocks' = noteLocks
      BY <1>3 DEF LinkRefused
    <2>5. task' = [Shared(f) EXCEPT ![w] = t]
      BY <2>3, <2>4
    <2> HIDE DEF f, t
    <2> QED  BY <1>1, <2>1, <2>2, <2>4, <2>5, SharesStep DEF f
  <1> QED  BY <1>2, <1>3

LEMMA RewriteStep ==
    ASSUME NotesInv, NEW w \in Workers, Rewrite(w)
    PROVE  NotesInv'
  <1> DEFINE f == task[w].file
             n == texts + 1
             new == [files[f] EXCEPT !.text = n, !.whole = FALSE]
             t == [step |-> "truncate", file |-> f, alone |-> task[w].alone, text |-> n]
  <1>1. /\ task[w].step = "rewrite" /\ task[w] \in Rewriting /\ f \in Files /\ f # 0 /\ f \in Nat
        /\ files[f] \in NoteFile /\ texts \in Nat /\ kept \subseteq 0..texts
        /\ UNCHANGED <<entry, noteLocks>> /\ texts' = n
    BY TaskFields, FileFields DEF Rewrite, NotesInv, FilesThere, Files, NoteTypes
  <1>2. /\ kept' = (kept \ {files[f].text}) \union
                   IF task[w].alone /\ ~files[f].doomed THEN {n} ELSE {}
        /\ files' = [files EXCEPT ![f].text = n, ![f].whole = FALSE]
        /\ task' = [task EXCEPT ![w] = t]
    BY DEF Rewrite
  <1>3. files' = [files EXCEPT ![f] = new]
    BY <1>2
  <1>4. /\ new \in NoteFile /\ new.text = n /\ new.whole = FALSE /\ new.doomed = files[f].doomed
    <2>1. n \in Nat
      BY <1>1
    <2> HIDE DEF n
    <2> QED  BY <1>1, <2>1 DEF NoteFile
  <1> HIDE DEF new
  <1>5. /\ files' \in Seq(NoteFile) /\ Files' = Files /\ files'[f] = new
        /\ \A g \in Files \ {f} : files'[g] = files[g]
    BY <1>1, <1>3, <1>4, FileChanged DEF NotesInv
  <1>6. t \in Tasks /\ t.step = "truncate" /\ t.file = f /\ t.alone = task[w].alone /\ t.text = n
    BY <1>1 DEF Tasks, Rewriting, Truncating
  <1> HIDE DEF t
  <1>7. /\ task' \in [Workers -> Tasks] /\ task'[w] = t
        /\ \A v \in Workers \ {w} : task'[v] = task[v]
    BY <1>2, <1>6, TaskChanged DEF NotesInv
  <1>8. /\ n \notin kept /\ (files[f].text \notin kept' \/ files[f].text = n)
        /\ \A k \in Nat : k <= texts => k # n /\ (k \in kept' => k \in kept /\ k # files[f].text)
        /\ n \in kept' => task[w].alone /\ ~files[f].doomed
        /\ \A k \in kept' : k = n \/ (k \in kept /\ k # files[f].text)
    BY <1>1, <1>2
  <1>9. /\ \A g \in Files : files[g].text \in Nat /\ files[g].text <= texts
        /\ \A p \in Paths : entry[p] # 0 => entry[p] \in Files
    BY FileFields DEF NotesInv, NoteTypes
  <1>10. /\ \A g \in Files : files'[g].doomed = files[g].doomed
         /\ \A g \in Files \ {f} : files'[g].text \in kept' => files[g].text \in kept
                                                               /\ files[g].text # files[f].text
    BY <1>4, <1>5, <1>8, <1>9
  <1>11. task[w].alone => /\ \A v \in Workers \ {w} : ~Updating(v, f)
                          /\ \A v \in Workers : ~Copying(v, f)
    BY <1>1 DEF NotesInv, AloneIs
  <1>12. NoteTypes'
    <2>1. n \in Nat /\ kept' \subseteq 0..n
      BY <1>1, <1>2
    <2>2. ASSUME NEW g \in Files PROVE files'[g].text <= n
      <3>1. CASE g = f
        BY <1>1, <1>4, <1>5, <3>1
      <3>2. CASE g # f
        <4>1. files'[g].text \in Nat /\ files'[g].text <= texts
          BY <1>5, <1>9, <3>2
        <4> QED  BY <1>1, <4>1
      <3> QED  BY <3>1, <3>2
    <2>3. entry' \in [Paths -> {0} \union Files']
      BY <1>1, <1>5 DEF NotesInv, NoteTypes
    <2> HIDE DEF n
    <2> QED  BY <1>1, <1>5, <1>7, <2>1, <2>2, <2>3 DEF NoteTypes
  <1>13. FilesThere'
    <2>1. \A v \in Workers : task[v].step = "truncate" => task[v].text \in Nat
      BY TaskFields DEF NotesInv, Truncating
    <2>2. \A k \in Nat : k <= texts => k <= texts'
      BY <1>1
    <2>3. texts' <= texts'
      BY <1>1
    <2> QED  BY <1>1, <1>5, <1>6, <1>7, <2>1, <2>2, <2>3 DEF NotesInv, FilesThere
  <1>14. LockHeld'
    BY <1>1, <1>6, <1>7 DEF NotesInv, LockHeld, MoveSteps
  <1> HIDE DEF n
  <1>15. DoomedGone'
    <2> SUFFICES ASSUME NEW g \in Files, files'[g].doomed PROVE files'[g].text \notin kept'
      BY <1>5 DEF DoomedGone
    <2>1. files[g].doomed /\ files[g].text \notin kept
      BY <1>10 DEF NotesInv, DoomedGone
    <2>2. CASE g = f
      BY <1>4, <1>5, <1>8, <2>1, <2>2
    <2>3. CASE g # f
      BY <1>10, <2>1, <2>3
    <2> QED  BY <2>2, <2>3
  <1>16. NoteNamed'
    <2> SUFFICES ASSUME NEW k \in kept'
                 PROVE  \E p \in Paths : entry[p] # 0 /\ files'[entry[p]].text = k
      BY <1>1 DEF NoteNamed
    <2>1. CASE k = n
      <3>1. PICK p \in Paths : entry[p] = f
        BY <1>1, <1>8, <2>1 DEF NotesInv, StillNamed, Named
      <3> QED  BY <1>1, <1>4, <1>5, <2>1, <3>1
    <2>2. CASE k \in kept /\ k # files[f].text
      <3>1. PICK p \in Paths : entry[p] # 0 /\ files[entry[p]].text = k
        BY <2>2 DEF NotesInv, NoteNamed
      <3> QED  BY <1>5, <1>9, <2>2, <3>1
    <2> QED  BY <1>8, <2>1, <2>2
  <1>17. WholeSoon'
    <2> SUFFICES ASSUME NEW g \in Files, Named(g), files'[g].text \in kept', ~files'[g].whole
                 PROVE  \E v \in Workers : WritesTo(v, g)'
      BY <1>1, <1>5 DEF WholeSoon, Named
    <2>1. CASE g = f
      BY <1>4, <1>5, <1>6, <1>7, <2>1 DEF WritesTo
    <2>2. CASE g # f
      <3>1. files'[g] = files[g] /\ files[g].text \in kept
        BY <1>5, <1>10, <2>2
      <3>2. PICK v \in Workers : WritesTo(v, g)
        BY <3>1 DEF NotesInv, WholeSoon
      <3>3. task'[v] = task[v]
        BY <1>1, <1>7, <3>2 DEF WritesTo
      <3> QED  BY <3>1, <3>2, <3>3 DEF WritesTo
    <2> QED  BY <2>1, <2>2
  <1>18. AloneIs'
    <2> SUFFICES ASSUME NEW u \in Workers, NEW v \in Workers,
                        task'[u].step \in {"rewrite", "truncate"}, task'[u].alone
                 PROVE  /\ v # u => ~Updating(v, task[u].file)'
                        /\ ~Copying(v, task[u].file)'
      BY <1>6, <1>7 DEF AloneIs, Updating, Copying
    <2>1. /\ task[u].step \in {"rewrite", "truncate"} /\ task[u].alone
          /\ task'[u].file = task[u].file
      BY <1>1, <1>6, <1>7
    <2>2. /\ v # u => ~Updating(v, task[u].file)
          /\ ~Copying(v, task[u].file)
      BY <2>1 DEF NotesInv, AloneIs
    <2>3. CASE v = w
      BY <1>1, <1>6, <1>7, <2>1, <2>2, <2>3 DEF Updating, Copying
    <2>4. CASE v # w
      BY <1>7, <2>1, <2>2, <2>4 DEF Updating, Copying
    <2> QED  BY <2>3, <2>4
  <1>19. Truncates'
    <2> SUFFICES ASSUME NEW v \in Workers, task'[v].step = "truncate"
                 PROVE  /\ task'[v].text \in kept' => task'[v].alone
                        /\ files'[task'[v].file].text \in kept'
                              => files'[task'[v].file].text = task'[v].text
      BY DEF Truncates
    <2>1. CASE v = w
      BY <1>4, <1>5, <1>6, <1>7, <1>8, <2>1
    <2>2. CASE v # w
      <3>1. /\ task'[v] = task[v] /\ task[v].step = "truncate" /\ task[v].file \in Files
            /\ task[v].text \in Nat /\ task[v].text <= texts
        BY <1>7, <2>2, TaskFields DEF NotesInv, FilesThere, Truncating
      <3>2. /\ task[v].text \in kept => task[v].alone
            /\ files[task[v].file].text \in kept => files[task[v].file].text = task[v].text
        BY <3>1 DEF NotesInv, Truncates
      <3>3. task[v].text \in kept' => task[v].alone
        BY <1>8, <3>1, <3>2
      <3>4. CASE task[v].file = f
        <4>1. n \notin kept'
          BY <1>8, <1>11, <2>2, <3>1, <3>4 DEF Updating
        <4> QED  BY <1>4, <1>5, <3>1, <3>3, <3>4, <4>1
      <3>5. CASE task[v].file # f
        BY <1>5, <1>10, <3>1, <3>2, <3>3, <3>5
      <3> QED  BY <3>4, <3>5
    <2> QED  BY <2>1, <2>2
  <1>20. StillNamed'
    <2> SUFFICES ASSUME NEW v \in Workers, task'[v].step = "rewrite", task'[v].alone
                 PROVE  files'[task[v].file].doomed \/ Named(task[v].file)
      BY <1>1, <1>6, <1>7 DEF StillNamed, Named
    <2>1. task'[v] = task[v] /\ task[v].file \in Files
      BY <1>6, <1>7 DEF NotesInv, FilesThere
    <2>2. files[task[v].file].doomed \/ Named(task[v].file)
      BY <2>1 DEF NotesInv, StillNamed
    <2> QED  BY <1>10, <2>1, <2>2
  <1>21. Moves'
    <2>1. Linked(w)' /\ SourceKept(w)' /\ CopyMade(w)' /\ CopyIsNew(w)'
      BY <1>6, <1>7 DEF Linked, SourceKept, CopyMade, CopyIsNew
    <2> SUFFICES ASSUME NEW v \in Workers \ {w}
                 PROVE  Linked(v)' /\ SourceKept(v)' /\ CopyMade(v)' /\ CopyIsNew(v)'
      BY <2>1 DEF Moves
    <2>2. Linked(v) /\ SourceKept(v) /\ CopyMade(v) /\ CopyIsNew(v)
      BY DEF NotesInv, Moves
    <2>3. /\ task'[v] = task[v] /\ entry' = entry
          /\ task[v].step \in MoveSteps => task[v].path \in Paths /\ task[v].to \in Paths
      BY <1>1, <1>7, TaskFields DEF NotesInv, Moving
    <2>4. /\ task[v].step \in {"copy", "open", "unlink"} /\ task[v].file # 0
             => task[v].file \in Files
          /\ task[v].step \in {"copy", "unlink"} /\ task[v].file # 0 => task[v].into \in Files
          /\ task[v].step = "copy" => task[v].file # 0
      BY DEF NotesInv, FilesThere, Files
    <2>5. Copying(v, f) => files'[f].text \notin kept'
      BY <1>4, <1>5, <1>8, <1>11
    <2>6. Linked(v)'
      BY <1>9, <1>10, <2>2, <2>3 DEF Linked, MoveSteps
    <2>7. SourceKept(v)'
      <3> SUFFICES ASSUME task[v].step \in {"open", "copy", "unlink"}, task[v].file # 0
                   PROVE  SourceKept(v)'
        BY <2>3 DEF SourceKept
      <3>1. /\ task[v].file \in Files /\ task[v].path \in Paths
            /\ files'[task[v].file].doomed = files[task[v].file].doomed
            /\ entry[task[v].path] # 0 =>
                 files'[entry[task[v].path]].doomed = files[entry[task[v].path]].doomed
        BY <1>9, <1>10, <2>3, <2>4 DEF MoveSteps
      <3>2. files'[task[v].file].text \in kept' =>
               files[task[v].file].text \in kept /\ files'[task[v].file] = files[task[v].file]
        <4>1. CASE task[v].file = f
          BY <2>5, <4>1 DEF Copying
        <4>2. CASE task[v].file # f
          BY <1>5, <1>10, <3>1, <4>2
        <4> QED  BY <4>1, <4>2
      <3> QED  BY <2>2, <2>3, <3>1, <3>2 DEF SourceKept
    <2>8. CopyMade(v)'
      <3> SUFFICES ASSUME task[v].step \in {"copy", "unlink"}, task[v].file # 0,
                          files'[task[v].file].text \in kept'
                   PROVE  CopyMade(v)'
        BY <2>3 DEF CopyMade
      <3>1. task[v].file # f
        BY <2>5 DEF Copying
      <3>2. /\ files'[task[v].file] = files[task[v].file] /\ files[task[v].file].text \in kept
            /\ files[task[v].file].text # files[f].text
        BY <1>5, <1>10, <2>4, <3>1
      <3>3. /\ files[task[v].into].text = files[task[v].file].text
            /\ entry[task[v].to] = task[v].into
            /\ task[v].step = "unlink" => files[task[v].into].whole
        BY <2>2, <3>2 DEF CopyMade
      <3>4. files'[task[v].into] = files[task[v].into]
        BY <1>5, <2>4, <3>2, <3>3
      <3> QED  BY <2>3, <3>2, <3>3, <3>4 DEF CopyMade
    <2>9. CopyIsNew(v)'
      <3> SUFFICES ASSUME task[v].step = "copy" PROVE CopyIsNew(v)'
        BY <2>3 DEF CopyIsNew
      <3>1. /\ \A p \in Paths : entry[p] = task[v].into => p = task[v].to
            /\ entry[task[v].to] # 0 => \/ entry[task[v].to] = task[v].into
                                        \/ files'[entry[task[v].to]].doomed
        BY <1>9, <1>10, <2>2, <2>3 DEF CopyIsNew, MoveSteps
      <3>2. files'[task[v].into].text \in kept' =>
               files'[task[v].file].text = files'[task[v].into].text
        <4> SUFFICES ASSUME files'[task[v].into].text \in kept'
                     PROVE  files'[task[v].file].text = files'[task[v].into].text
          OBVIOUS
        <4>1. task[v].into # f
          BY <2>5 DEF Copying
        <4>2. /\ files'[task[v].into] = files[task[v].into] /\ files[task[v].into].text \in kept
              /\ files[task[v].into].text # files[f].text
          BY <1>5, <1>10, <2>4, <4>1
        <4>3. files[task[v].file].text = files[task[v].into].text
          BY <2>2, <4>2 DEF CopyIsNew
        <4>4. files'[task[v].file] = files[task[v].file]
          BY <1>5, <2>4, <4>2, <4>3
        <4> QED  BY <4>2, <4>3, <4>4
      <3> QED  BY <2>3, <3>1, <3>2 DEF CopyIsNew
    <2> QED  BY <2>6, <2>7, <2>8, <2>9
  <1> QED  BY <1>12, <1>13, <1>14, <1>15, <1>16, <1>17, <1>18, <1>19, <1>20, <1>21 DEF NotesInv

-----------------------------------------------------------------------------
LEMMA NotesStepInv ==
    ASSUME NotesInv, [NotesNext]_noteVars
    PROVE  NotesInv'
  <1>1. CASE UNCHANGED noteVars \/ \E folder \in Folders : CreateFolder(folder)
    <2>1. UNCHANGED <<files, entry, task, noteLocks, texts, kept>>
      BY <1>1 DEF noteVars, CreateFolder
    <2>2. Files' = Files
      BY <2>1 DEF Files
    <2>3. NoteTypes' /\ FilesThere' /\ LockHeld' /\ DoomedGone' /\ NoteNamed'
      BY <2>1, <2>2 DEF NotesInv, NoteTypes, FilesThere, LockHeld, DoomedGone, NoteNamed
    <2>4. WholeSoon' /\ AloneIs' /\ Truncates' /\ StillNamed'
      BY <2>1, <2>2 DEF NotesInv, WholeSoon, WritesTo, Named, AloneIs, Updating, Copying,
         Truncates, StillNamed
    <2>5. Moves'
      BY <2>1 DEF NotesInv, Moves, Linked, SourceKept, CopyMade, CopyIsNew
    <2> QED  BY <2>3, <2>4, <2>5 DEF NotesInv
  <1>2. ASSUME NEW path \in Paths, DeleteNote(path) \/ OtherProgram(path)
        PROVE  NotesInv'
    BY <1>2, DeleteNoteStep, OtherProgramStep
  <1>3. ASSUME NEW w \in Workers, NEW folder \in Folders,
               BeginNote(w, folder) \/ \E path \in Paths : BeginMove(w, path, folder)
        PROVE  NotesInv'
    BY <1>3, BeginSteps
  <1>4. ASSUME NEW w \in Workers, NEW path \in Paths, BeginUpdate(w, path)
        PROVE  NotesInv'
    BY <1>4, BeginUpdateStep
  <1>5. ASSUME NEW w \in Workers,
               \/ TryName(w) \/ WriteNote(w) \/ NoteWriteFails(w) \/ Rewrite(w) \/ Truncate(w)
               \/ Link(w) \/ LinkRefused(w) \/ OpenCopy(w) \/ Copy(w) \/ CopyFails(w)
               \/ Unlink(w) \/ UnlinkFails(w)
        PROVE  NotesInv'
    BY <1>5, TryNameStep, WriteSteps, RewriteStep, LinkStep, LinkRefusedStep, OpenCopyStep,
       CopyStep, CopyFailsStep, UnlinkStep
  <1> QED  BY <1>1, <1>2, <1>3, <1>4, <1>5 DEF NotesNext

(* What names, files and threads say of each other agrees in every state.  *)
THEOREM NotesInvariance == NotesSpec => []NotesInv
  BY NotesInitInv, NotesStepInv, PTL DEF NotesSpec

(* No note is lost, whoever creates, updates, moves and deletes.           *)
THEOREM NotesAreKept == NotesSpec => []NoNoteLost
  BY NotesInvariance, NotesInvImplies, PTL
=============================================================================
