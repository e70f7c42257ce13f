-------------------------- MODULE MCTaskScheduler --------------------------
(* Instances of TaskScheduler: which work is queued and what is asked.     *)
EXTENDS TaskScheduler

NoAgents == [j \in Jobs |-> None]
NoSubject == [j \in Jobs |-> None]
Houses == [a \in Agents |-> IF a = "A" THEN "s1" ELSE "s2"]
Names  == [a \in Agents |-> a]
ToThird == [o \in Ops |-> "s3"]
Nothing == {}

TaskSubject == [j \in Jobs |-> IF j \in {"j1", "j2"} THEN "doc" ELSE None]
TaskSubjects == {"doc"}
OneJob == {"j1"}
TwoCancels == {"c1", "c3"}
Kinds == [o \in Ops |-> CASE o = "down" -> "shutdown" [] o = "mv" -> "move"
                          [] o = "st" -> "stop" [] o = "new" -> "start"
                          [] o \in {"cfg", "cfg2"} -> "configure"
                          [] OTHER -> "cancel"]
Targets == [o \in Ops |-> CASE o = "down" -> None [] o = "new" -> "B"
                            [] o \in {"c1", "c3"} -> "j1" [] o = "c2" -> "j2"
                            [] OTHER -> "A"]

AgentNames == {"A", "B"}

(* The safety run queues all this work and makes all these requests; a     *)
(* behaviour those of one scenario.  Limits: three pieces of work and a    *)
(* fourth that asks for a place while they wait.  Restarts: two tasks and  *)
(* two of a cancel, a shutdown, and a crash, another runtime that starts   *)
(* or a failing write.  AgentsActed: over a crash, one agent is moved and stopped *)
(* with either a second message to it or another agent that wants the      *)
(* session it moves to.                                                    *)
AllJobs == {"j1", "j2", "j3", "m1", "m2"}
AllOps  == {"c1", "down", "mv", "st", "new"}
AllAgentOf == [j \in Jobs |-> IF j \in {"m1", "m2"} THEN "A" ELSE None]

Used == {j \in Jobs : pc[j] # "idle"} \cup {o \in Ops : opc[o] # "idle"}
Limits   == /\ Used \subseteq {"j1", "j3", "m1", "m2"} /\ {crashes, others, faults} = {0}
            /\ pc["m2"] \in Callers \cup {"idle", "refused"}
            /\ "m2" \in Used => \A j \in {"j1", "j3", "m1"} :
                  pc[j] \in Callers \cup {"idle", "refused", "unstarted", "order", "slot"}
Restarts == /\ Used \subseteq {"j1", "j2", "c1", "down"}
            /\ Cardinality(Used \cap {"c1", "down"}) + crashes + others + faults <= 2
            /\ crashes + others + faults <= 1
AgentsActed == /\ Used \subseteq {"m1", "m2", "mv", "st", "new"} /\ {others, faults} = {0}
               /\ ~({"m2", "new"} \subseteq Used)
OneScenario == Limits \/ Restarts \/ AgentsActed

(* Two messages to one agent that is moved, configured and stopped.        *)
MessageJobs == {"m1", "m2"}
LiveAgentOf == [j \in Jobs |-> "A"]
ConfigureOps == {"mv", "cfg", "st"}
AgentHouses == [a \in Agents |-> IF a = "A" THEN "s1" ELSE "s3"]
AgentSessions == {"s1", "s3"}
=============================================================================
