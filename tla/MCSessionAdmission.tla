------------------------- MODULE MCSessionAdmission -------------------------
(* Instances of SessionAdmission: which calls are made, and by whom.       *)
EXTENDS SessionAdmission

NoLeases == [p \in Procs |-> None]
People == {"alice", "bob", "root"}
Administrators == {"root"}

(* The safety run makes every call below; a behaviour makes those of one   *)
(* scenario.  Turns: two messages with a continuation or a cancel request, *)
(* and the shutdown.  Voice: four of what competes with a voice call and   *)
(* its turn.  Race: two calls of two callers want the reservation, with    *)
(* two of steering, a repair and a join.                                   *)
TurnProcs  == {"m1", "m2", "r1", "x"}
VoiceProcs == {"c1", "v1", "m1", "h1", "a1", "d1"}
RaceProcs  == {"c1", "c2", "s1", "t1", "p1", "j1"}
AllProcs   == TurnProcs \cup VoiceProcs \cup RaceProcs

AllKinds == [p \in Procs |-> CASE p \in {"m1", "m2", "v1"} -> "message"
                               [] p = "r1" -> "result"
                               [] p = "t1" -> "steering"
                               [] p \in {"c1", "c2"} -> "call"
                               [] p = "h1" -> "host"
                               [] p = "s1" -> "steer"
                               [] p = "a1" -> "assign"
                               [] p = "d1" -> "delete"
                               [] p = "p1" -> "repair"
                               [] p = "x" -> "cancel"
                               [] p = "j1" -> "join"]
AllActors == [p \in Procs |-> IF p \in {"m2", "a1"} THEN "root"
                              ELSE IF p \in {"c2", "j1"} THEN "bob" ELSE "alice"]
AllLeases == [p \in Procs |-> IF p \in {"c1", "c2"} THEN p
                              ELSE IF p = "v1" THEN "c1" ELSE None]

Called == {p \in Procs : pc[p] # "idle"}
OneScenario == \/ Called \subseteq TurnProcs /\ ~({"r1", "x"} \subseteq Called)
               \/ Called \subseteq VoiceProcs /\ Cardinality(Called) <= 4
               \/ Called \subseteq RaceProcs /\ Cardinality(Called) <= 4

(* A message replaces another while its tools publish, and a voice call    *)
(* with a turn of its own comes and goes.                                  *)
LiveProcs == {"m1", "m2", "c1", "v1"}
LiveKind == [p \in Procs |-> IF p = "c1" THEN "call" ELSE "message"]
LiveLease == [p \in Procs |-> IF p \in {"c1", "v1"} THEN "c1" ELSE None]
LiveActor == [p \in Procs |-> "alice"]

(* A client joins a new session and sends its first message.               *)
JoinProcs == {"j1", "m1"}
JoinKind == [p \in Procs |-> IF p = "j1" THEN "join" ELSE "message"]
=============================================================================
