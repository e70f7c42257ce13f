----------------------------- MODULE MCServices -----------------------------
(* Instances of what turns reach outside their session: a voice call's     *)
(* work and its session at the provider, and the notes in their folders.   *)
(* They share no state, so a behaviour of the run is one of a single       *)
(* component.                                                              *)
EXTENDS VoiceWork, VoiceTransport, NoteFiles

VARIABLE part
allVars == <<vars, transportVars, noteVars, part>>

AllInit == /\ Init /\ TransportInit /\ NotesInit
           /\ part \in {"call", "transport", "notes"}
           /\ part # "transport" => ~gptLive
           /\ folders = {"root"}
AllNext == \/ part = "call" /\ Next /\ UNCHANGED <<transportVars, noteVars, part>>
           \/ part = "transport" /\ TransportNext /\ UNCHANGED <<vars, noteVars, part>>
           \/ part = "notes" /\ NotesNext /\ UNCHANGED <<vars, transportVars, part>>

(* Of the calls, what VoiceWork's Fairness says; of the others nothing.    *)
OfCall(A) == part = "call" /\ A /\ UNCHANGED <<transportVars, noteVars, part>>
AllFairness == /\ WF_allVars(OfCall(WorkerStep)) /\ WF_allVars(OfCall(WorkStep))
               /\ WF_allVars(OfCall(RunStep))
               /\ \A c \in Cancels : WF_allVars(OfCall(CancelStep(c)))
AllSpec == AllInit /\ [][AllNext]_allVars /\ AllFairness

AnswersTo == [r \in Results |-> IF r = "r1" THEN 1 ELSE 2]

(* The provider names its delegations in order, and the call has one       *)
(* scenario.  Host: turns that ask the host, and one cancel.               *)
(* Talk: two cancels, and nothing asked of the host.                       *)
Named(d) == status[d] # None
OneCall ==
    /\ Named("d2") => Named("d1")
    /\ Named("d3") => Named("d2")
    /\ cancel["c2"] # "idle" => cancel["c1"] # "idle"
    /\ cancel["c2"] = "idle" \/ asked = 0
    /\ Named("d3") => cancel["c1"] = "idle"

(* Of the sessions at the provider, t1 is first.  One that speaks is alone *)
(* with the usage poll; a second one follows an attached or abandoned one. *)
(* At most two requests wait at a server, one of which timed out.          *)
Late == {<<n, i>> \in Servers \X (1..2) :
            i <= Len(mailbox[n]) /\ req[mailbox[n][i][1]].reply # "waiting"}
OneSession ==
    /\ \A n \in Servers : Len(mailbox[n]) <= 2
    /\ Cardinality(Late) <= 1
    /\ sent["t2"] = 0
    /\ \/ create["t2"] = "new" /\ req[UsagePoll] = NoRequest
       \/ create["t2"] = "new" /\ Late = {} /\ sent["t1"] = 0
          /\ create["t1"] # "failed" /\ conn["t1"] # "closed"
       \/ /\ create["t2"] # "new" /\ req[UsagePoll] = NoRequest /\ Late = {} /\ sent["t1"] = 0
          /\ server[1] # "new" /\ (conn["t1"] = "open" \/ stopper["t1"] \in {"due", "asked"})
          /\ voice = "up" \/ server[2] = "new"

(* Notes have three names, and a failure comes to the first file.          *)
OneNote == /\ \A path \in Paths \ {<<"root", 0>>, <<"root", 1>>, <<"work", 0>>} : entry[path] = 0
           /\ failures > 0 => Len(files) <= 1

OneStory == OneCall /\ OneSession /\ OneNote

-----------------------------------------------------------------------------
(* The properties of each component, of its own behaviours.                *)

(* Every call ends and gives its session back (VoiceWork's CallEnds).      *)
CallReturns == <>(part # "call" \/ runner = "done" \/ Stuck)

=============================================================================
