-------------------------- MODULE DeliveryPromise --------------------------
(***************************************************************************)
(* What the runtime promises about one message another system or a person  *)
(* hands to a session that is not a turn of its own (app/ingress,          *)
(* app/event_log, accept_steering): once it is taken it is kept, in the    *)
(* inbox or with the session's steering, until a model request that        *)
(* carried it completed, and only then is it done.  A message that never   *)
(* was taken may stay offered for ever.                                    *)
(***************************************************************************)
CONSTANT Messages

VARIABLES fate,     \* [Messages -> Fates]
          heard     \* messages a completed model request carried

vars == <<fate, heard>>

Fates == {"offered", "kept", "done"}

Init == fate = [m \in Messages |-> "offered"] /\ heard = {}

Take(m) == /\ fate[m] = "offered"
           /\ fate' = [fate EXCEPT ![m] = "kept"]
           /\ UNCHANGED heard

(* One model request may carry several messages.                           *)
Hear(H) == /\ \A m \in H : fate[m] = "kept"
           /\ heard' = heard \cup H
           /\ UNCHANGED fate

Finish(D) == /\ \A m \in D : fate[m] = "kept" /\ m \in heard
             /\ fate' = [m \in Messages |-> IF m \in D THEN "done" ELSE fate[m]]
             /\ UNCHANGED heard

Next == \/ \E m \in Messages : Take(m)
        \/ \E S \in SUBSET Messages : Hear(S) \/ Finish(S)

Spec == Init /\ [][Next]_vars
=============================================================================
