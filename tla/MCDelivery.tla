----------------------------- MODULE MCDelivery -----------------------------
(* Instances of Delivery: who brings messages, and what turns there are.   *)
EXTENDS Delivery

OneEvent == {"e1"}
AllRequests == {"p1", "p2", "n1", "s1", "h1"}
CarriesOf == [r \in Requests |-> CASE r \in {"p1", "p2"} -> "e1"
                                   [] r = "n1" -> "inject"
                                   [] r = "s1" -> "steer"
                                   [] r = "h1" -> "tick"]
TwoTurns == {"t1", "t2"}
(* Only steering may name a profile; the second turn runs another one.     *)
Profiles == [x \in Requests \cup MessageTurns |->
               CASE x = "s1" -> "helper" [] x = "t1" -> "startup" [] x = "t2" -> "helper"
                 [] OTHER -> None]

(* A behaviour makes the requests of one scenario.  Events: an event is    *)
(* recorded twice, with a crash or with writes that fail.  Steered: an     *)
(* injected message and steering of another profile, while writes fail.    *)
(* Beat: the heartbeat and steering, over a crash.                         *)
Made == {r \in Requests : pc[r] # "idle"}
OneScenario == \/ Made \subseteq {"p1", "p2"} /\ crashes + faults <= 1 /\ "t2" \notin ran
               \/ /\ Made \subseteq {"n1", "s1"} /\ crashes = 0
                  /\ faults = 0 \/ ~({"t1", "t2"} \subseteq ran)
               \/ Made \subseteq {"s1", "h1"} /\ faults = 0 /\ "t1" \notin ran

(* The requests of the heartbeat's counterexample.                         *)
Beat == {"h1"}
=============================================================================
