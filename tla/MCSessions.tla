----------------------------- MODULE MCSessions -----------------------------
(* Instances of what outlives a turn: the messages delivered to a session  *)
(* (MCDelivery), its tree and cache, the transport its turns are streamed  *)
(* over and the feeds of the records they leave.  They share no state, so  *)
(* a behaviour of the run is one of a single component.                    *)
EXTENDS MCDelivery, SessionTree, SocketTransport, ChangeFeeds

VARIABLE part
allVars == <<vars, treeVars, socketVars, feedVars, part>>

AllInit == /\ Init /\ TreeInit /\ SocketInit /\ FeedInit
           /\ part \in {"delivery", "tree", "socket", "feed"}
           /\ part # "feed" => durable /\ pass.by = Admin
AllNext ==
    \/ part = "delivery" /\ Next /\ UNCHANGED <<treeVars, socketVars, feedVars, part>>
    \/ part = "tree" /\ TreeNext /\ UNCHANGED <<vars, socketVars, feedVars, part>>
    \/ part = "socket" /\ SocketNext /\ UNCHANGED <<vars, treeVars, feedVars, part>>
    \/ part = "feed" /\ FeedNext /\ UNCHANGED <<vars, treeVars, socketVars, part>>
AllSpec == AllInit /\ [][AllNext]_allVars

(* Messages take their ids in order.  A session without an owner, one      *)
(* bound to a subject and one that is given away have one message; the     *)
(* others have up to three, in any tree.                                   *)
IdsSeen == IdsOf(messages) \cup UNION {IdsOf(contexts[c].messages) : c \in 1..Len(contexts)}
           \cup (IF "id" \in DOMAIN writer THEN {writer.id} ELSE {})
OneTree ==
    /\ astray = {}
    /\ "m2" \in IdsSeen => "m1" \in IdsSeen
    /\ "m3" \in IdsSeen => "m2" \in IdsSeen
    /\ sessionRow.subject # NoSubject \/ admin.step # "idle" \/ sessionRow.owner = NoOwner
           => Len(messages) <= 1

(* The first stream is a message's.  A failure, and steering, come to two  *)
(* streams; of three the first has ended and the second continues it.      *)
Streamed(kind) == {t \in Transports : carrier[t].kind = kind}
OneSocket ==
    /\ Transports # {} => carrier[1].kind = "plain"
    /\ Cardinality(Streamed("steering") \cup Streamed("continuation")) <= 1
    /\ Streamed("steering") # {} \/ failures > 0 => Len(carrier) <= 2
    /\ Len(carrier) <= 2 \/ (carrier[2].kind = "continuation" /\ TransportEnded(1))

(* A host walks the list, or indexes what changes while records are        *)
(* written; then the first record is of time 0.  Two transactions insert   *)
(* into an empty table, or both change what is there.                      *)
Writing == {w \in Transactors : txn[w] # Rest}
OneFeed ==
    /\ \/ walk = Rest
       \/ /\ pass.step = "rest" /\ pass.last = 0 /\ mirror = [i \in RecordIds |-> 0] /\ now <= 1
          /\ \A i \in RecordIds : rowsById[i].version < 2
    /\ pass.by # Admin => ~durable
    /\ (\E i \in Present : rowsById[i].by # "u") => ~durable
    /\ Cardinality(Writing) = 2 =>
          /\ \E w \in Transactors : txn[w].id = 1
          /\ \A w \in Transactors : txn[w].step = "create" => Present = {} /\ now = 0
    /\ Present # {} => \E i \in Present : rowsById[i].created = 0
    /\ now > 0 => Present # {} \/ Writing # {}
    /\ ~durable => now < 3
    /\ pass.last > 0 \/ (\E i \in Present : rowsById[i].version = 2) => txn["w2"] = Rest

OneStory == OneScenario /\ OneTree /\ OneSocket /\ OneFeed

-----------------------------------------------------------------------------
(* The properties of each component, of its own behaviours.                *)

SocketSafety == part = "socket" => OneTransportSpeaks
FeedSafety   == part = "feed" => FeedsAreWhole
=============================================================================
