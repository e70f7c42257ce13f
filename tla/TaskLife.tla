------------------------------ MODULE TaskLife ------------------------------
(***************************************************************************)
(* What app/tasks promises about one record of background work, a task or  *)
(* a message to a persistent agent: it is queued once, it may run, it ends *)
(* at most once and keeps that end ("a task's end is recorded once, and a  *)
(* later terminal update changes nothing", docs/persistence.md), and the   *)
(* end is announced at most once and as it was recorded.  A runtime that   *)
(* dies in between may leave a record unfinished and an end unannounced.   *)
(***************************************************************************)
EXTENDS Sequences

CONSTANT Jobs   \* records of background work

Unfinished == {"queued", "running"}
Ends       == {"done", "failed", "cancelled", "interrupted"}
Statuses   == {"absent"} \cup Unfinished \cup Ends

VARIABLES status,   \* the record's status, "absent" before it is created
          told      \* the ends published for it on the event hub, in order

vars == <<status, told>>

Init == status = [j \in Jobs |-> "absent"] /\ told = [j \in Jobs |-> <<>>]

Queue(j) == /\ status[j] = "absent"
            /\ status' = [status EXCEPT ![j] = "queued"]
            /\ UNCHANGED told

Run(j) == /\ status[j] = "queued"
          /\ status' = [status EXCEPT ![j] = "running"]
          /\ UNCHANGED told

(* An end is recorded; whoever records it may announce it at once.         *)
End(j, s) == /\ status[j] \in Unfinished
             /\ status' = [status EXCEPT ![j] = s]
             /\ \/ UNCHANGED told
                \/ told' = [told EXCEPT ![j] = <<s>>]

Tell(j) == /\ status[j] \in Ends /\ told[j] = <<>>
           /\ told' = [told EXCEPT ![j] = <<status[j]>>]
           /\ UNCHANGED status

(* A runtime that starts ends everything it finds unfinished.              *)
Recover ==
    /\ status' = [j \in Jobs |-> IF status[j] \in Unfinished
                                 THEN "interrupted" ELSE status[j]]
    /\ told' = [j \in Jobs |-> IF status[j] \in Unfinished
                               THEN <<"interrupted">> ELSE told[j]]

Next == \/ \E j \in Jobs : \/ Queue(j) \/ Run(j) \/ Tell(j)
                           \/ \E s \in Ends : End(j, s)
        \/ Recover

Spec == Init /\ [][Next]_vars
=============================================================================
