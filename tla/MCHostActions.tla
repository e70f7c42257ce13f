--------------------------- MODULE MCHostActions ---------------------------
(* Instances of HostActions: which requests a client makes.                *)
EXTENDS HostActions

ThreeCalls == {"c1", "c2", "c3"}
TwoCalls == {"c1", "c2"}
(* One response may ask for a batch, and a later run for one more call.    *)
BatchThenOne == {{"c1", "c2"}, {"c3"}}
Singles == {{"c1"}, {"c2"}}
InOrderOfNames == [c \in Calls |-> CASE c = "c1" -> 1 [] c = "c2" -> 2 [] c = "c3" -> 3]

AllRequests == {"m1", "m2", "a1", "b1", "a2", "k1", "s1", "v", "fix"}
KindOf == [r \in Requests |-> CASE r \in {"m1", "m2"} -> "message"
                                [] r \in {"a1", "b1", "a2"} -> "result"
                                [] r = "k1" -> "receipt"
                                [] r = "s1" -> "steering"
                                [] r = "v" -> "release"
                                [] r = "fix" -> "repair"]
Answers == [r \in Requests |-> CASE r \in {"a1", "b1", "k1"} -> "c1"
                                 [] r = "a2" -> "c2"
                                 [] OTHER -> None]

(* The safety run makes every request above; a behaviour those of one      *)
(* scenario.  Batch: a batch is answered, one result twice, or another     *)
(* message arrives.  Faults: a receipt, an answer and a released voice     *)
(* call, while writes fail.  Steered: steering promoted while nothing was  *)
(* pending.  Repaired: a repair while a continuation runs.                 *)
Made == {r \in Requests : pc[r] # "idle"}
OneScenario == \/ /\ Made \subseteq {"m1", "a1", "b1", "a2", "m2"} /\ faults = 0
                  /\ ~({"b1", "m2"} \subseteq Made)
               \/ Made \subseteq {"m1", "k1", "a2", "v"}
               \/ Made \subseteq {"m1", "m2", "s1", "a1"} /\ faults = 0
               \/ Made \subseteq {"m1", "m2", "a1", "fix"} /\ faults = 0

(* The requests of the steering counterexample.                            *)
SteerRequests == {"m1", "m2", "s1"}
=============================================================================
