---------------------------- MODULE PromptInputs ----------------------------
(***************************************************************************)
(* A turn's system prompt: the views of the artifact service it is read    *)
(* from, the text it is composed of, and the record of it that is saved    *)
(* with the message (services/artifacts/interface, _prompt_builder,        *)
(* prompt_record).                                                         *)
(*                                                                         *)
(* A prompt takes several reads, each a transaction of its own: the rows   *)
(* of its profile, those of its subject, the same of every included        *)
(* profile, the names of the documents.  Versions are written, and deleted,*)
(* in between; after a deletion the numbers begin again.  A row here is an *)
(* active one, and a text is the number of the write that made it, 0 for   *)
(* the default.                                                            *)
(***************************************************************************)
EXTENDS Integers, FiniteSets, SequencesExt

CONSTANTS
    Builds,        \* prompts under construction
    Order,         \* [profiles -> their artifacts, in order: [name, scope]]
    Include,       \* [profiles -> the profiles they include, in order]
    Documents,     \* [profiles -> the names in their collections]
    Subjects,
    LeftOver,      \* stored artifacts of before their scope was changed
    ViewsKept,     \* _SUBJECT_VIEWS
    MaxTextWrites  \* bound: writes and deletions

VARIABLES
    activeTexts,  \* [Slots -> [version, text]]: active, Default for none
    unreturned,   \* writes that are committed and have not returned
    views,        \* [Views -> texts cached since a write has last returned]
    recent,       \* [profiles -> its subject views, the latest last]
    prompt,       \* [Prompts -> prompt_inputs and what follows it]
    snapshots,    \* stable texts that are stored
    records,      \* prompt records saved with messages
    textWrites    \* what the bound counts

promptInputVars == <<activeTexts, unreturned, views, recent, prompt, snapshots, records, textWrites>>

Registered == DOMAIN Order
Default == [version |-> 0, text |-> 0]
NotCached == <<>>
NotBuilding == [step |-> "idle"]

(* A stored artifact: of a profile, for a subject or none.                 *)
NamesOf(q) == {Order[q][i].name : i \in DOMAIN Order[q]} \cup Documents[q]
Slots == UNION {[profile : {q}, subject : Subjects \cup {""}, name : NamesOf(q)] : q \in Registered}
Declares(q, a) == \E i \in DOMAIN Order[q] : Order[q][i] = a
Slot(q, s, x) == [profile |-> q, subject |-> s, name |-> x]
StoredNames(q, s) == {x \in NamesOf(q) : activeTexts[Slot(q, s, x)] # Default}

ViewOf(q, s) == [profile |-> q, subject |-> s]
SubjectViews == {ViewOf(q, s) : q \in Registered, s \in Subjects \cup {""}}

-----------------------------------------------------------------------------
(* Writes of an artifact, by its profile's and subject's view.             *)

Writable == {k \in Slots :
    \/ k.subject = "" /\ k.name \in Documents[k.profile]
    \/ Declares(k.profile, [name |-> k.name,
                             scope |-> IF k.subject = "" THEN "profile" ELSE "subject"])}

(* Prompts under construction may use what was active since they began.    *)
Noted(k, value) ==
    [p \in Builds |->
        IF prompt[p] # NotBuilding /\ k \in DOMAIN prompt[p].valid
        THEN [prompt[p] EXCEPT !.valid[k] = @ \cup {value}] ELSE prompt[p]]

Wrote(k, value) ==
    /\ textWrites < MaxTextWrites /\ k \in Writable
    /\ activeTexts' = [activeTexts EXCEPT ![k] = value]
    /\ textWrites' = textWrites + 1
    /\ unreturned' = unreturned \cup {[slot |-> k, old |-> activeTexts[k]]}
    /\ prompt' = Noted(k, value)
    /\ UNCHANGED <<views, recent, snapshots, records>>

Update(k) == Wrote(k, [version |-> activeTexts[k].version + 1, text |-> textWrites + 1])
Forget(k) == activeTexts[k] # Default /\ Wrote(k, Default)

(* The generation moves on: what is cached is of no use any more, and what *)
(* is being read will not be cached.                                       *)
Return(w) ==
    /\ w \in unreturned
    /\ unreturned' = unreturned \ {w}
    /\ views' = [v \in SubjectViews |-> NotCached]
    /\ prompt' = [p \in Builds |-> IF prompt[p] = NotBuilding THEN NotBuilding
                                   ELSE [prompt[p] EXCEPT !.current = FALSE]]
    /\ UNCHANGED <<activeTexts, recent, snapshots, records, textWrites>>

-----------------------------------------------------------------------------
(* for_profile and for_subject.  A view that was dropped is built anew;    *)
(* who holds it goes on with its own.                                      *)

Looked(q, s) ==
    LET later == SelectSeq(recent[q], LAMBDA x : x # s) \o <<s>>
    IN  IF s = "" THEN recent[q]
        ELSE IF Len(later) > ViewsKept THEN Tail(later) ELSE later
Dropped(q, s) == ToSet(recent[q]) \ ToSet(Looked(q, s))

(* What a prompt of view v that begins may be made of.                     *)
Uses(v, k) == \/ k.profile = v.profile /\ k.subject \in {"", v.subject}
              \/ k.profile \in ToSet(Include[v.profile]) /\ k.subject = ""
Valid(v) == [k \in {j \in Writable : Uses(v, j)} |->
                {activeTexts[k]} \cup {w.old : w \in {u \in unreturned : u.slot = k}}]

(* Views that are dropped, and the prompts that hold them.                 *)
KeptViews(q, s) == [v \in SubjectViews |-> IF v.profile = q /\ v.subject \in Dropped(q, s)
                                           THEN NotCached ELSE views[v]]
Held(q, s) ==
    [p \in Builds |->
        IF prompt[p] # NotBuilding /\ prompt[p].of.profile = q /\ prompt[p].of.subject \in Dropped(q, s)
        THEN [prompt[p] EXCEPT !.dropped = TRUE] ELSE prompt[p]]

(* A route, or the assistant's tool, asks for a view.                      *)
Look(q, s) ==
    /\ Looked(q, s) # recent[q]
    /\ recent' = [recent EXCEPT ![q] = Looked(q, s)]
    /\ views' = KeptViews(q, s) /\ prompt' = Held(q, s)
    /\ UNCHANGED <<activeTexts, unreturned, snapshots, records, textWrites>>

BeginPrompt(p, q, s) ==
    /\ prompt[p] = NotBuilding
    /\ recent' = [recent EXCEPT ![q] = Looked(q, s)] /\ views' = KeptViews(q, s)
    /\ prompt' = [Held(q, s) EXCEPT ![p] =
          [step |-> "ask", todo |-> <<ViewOf(q, s)>> \o [i \in DOMAIN Include[q] |->
                                                            ViewOf(Include[q][i], "")],
           of |-> ViewOf(q, s), dropped |-> FALSE, current |-> FALSE, read |-> <<>>,
           fragments |-> <<>>, valid |-> Valid(ViewOf(q, s))]]
    /\ UNCHANGED <<activeTexts, unreturned, snapshots, records, textWrites>>

-----------------------------------------------------------------------------
(* _load_active.                                                           *)

(* A row counts only in its own scope.                                     *)
BugTakes(a, s) == TRUE   \* Mutant: it counts in any.
Takes(a, s) == (a.scope = "subject") = (s # "")

(* The texts after the rows of subject s have been read.                   *)
Taken(q, s, texts) ==
    [i \in DOMAIN Order[q] |->
        LET a == Order[q][i]
        IN  IF Takes(a, s) /\ a.name \in StoredNames(q, s) THEN activeTexts[Slot(q, s, a.name)] ELSE texts[i]]
Defaults(q) == [i \in DOMAIN Order[q] |-> Default]

(* Artifacts of an included profile follow under its name; without a       *)
(* subject nothing is taken of what is kept per subject.                   *)
Given(p, texts) ==
    LET v == prompt[p].todo[1]
        own == v = prompt[p].of
        all == [i \in DOMAIN texts |->
                  [profile |-> v.profile, name |-> Order[v.profile][i].name,
                   scope |-> Order[v.profile][i].scope, value |-> texts[i], dynamic |-> FALSE]]
    IN  SelectSeq(all, LAMBDA f : f.scope = "profile" \/ (own /\ v.subject # ""))

After(p, texts) ==
    [prompt[p] EXCEPT !.todo = Tail(@), !.step = IF Len(prompt[p].todo) = 1 THEN "list" ELSE "ask",
                      !.fragments = @ \o Given(p, texts), !.read = <<>>, !.current = FALSE]

Hit(p) ==
    /\ prompt[p].step = "ask"
    /\ LET v == prompt[p].todo[1]
       IN  /\ ~(prompt[p].dropped /\ v = prompt[p].of)
           /\ views[v] # NotCached
           /\ prompt' = [prompt EXCEPT ![p] = After(p, views[v])]
    /\ UNCHANGED <<activeTexts, unreturned, views, recent, snapshots, records, textWrites>>

(* It is not cached, or it has expired.                                    *)
Miss(p) ==
    /\ prompt[p].step = "ask"
    /\ prompt' = [prompt EXCEPT ![p].step = "rows", ![p].current = TRUE]
    /\ UNCHANGED <<activeTexts, unreturned, views, recent, snapshots, records, textWrites>>

ReadRows(p) ==
    /\ prompt[p].step = "rows"
    /\ LET v == prompt[p].todo[1]
       IN  prompt' = [prompt EXCEPT ![p].read = Taken(v.profile, "", Defaults(v.profile)),
                                    ![p].step = IF v.subject = "" THEN "cache" ELSE "subject"]
    /\ UNCHANGED <<activeTexts, unreturned, views, recent, snapshots, records, textWrites>>

ReadSubject(p) ==
    /\ prompt[p].step = "subject"
    /\ LET v == prompt[p].todo[1]
       IN  prompt' = [prompt EXCEPT ![p].read = Taken(v.profile, v.subject, @),
                                    ![p].step = "cache"]
    /\ UNCHANGED <<activeTexts, unreturned, views, recent, snapshots, records, textWrites>>

BugStillCurrent(p) == TRUE   \* Mutant: the generation is looked up when it is cached.
StillCurrent(p) == prompt[p].current

Cache(p) ==
    /\ prompt[p].step = "cache"
    /\ LET v == prompt[p].todo[1]
       IN  views' = IF StillCurrent(p) /\ ~(prompt[p].dropped /\ v = prompt[p].of)
                    THEN [views EXCEPT ![v] = prompt[p].read]
                    ELSE views
    /\ prompt' = [prompt EXCEPT ![p] = After(p, prompt[p].read)]
    /\ UNCHANGED <<activeTexts, unreturned, recent, snapshots, records, textWrites>>

(* _document_listing, and what build_system_prompt adds: working memory,   *)
(* if the session has it, after everything that is stable.                 *)
Memory == [profile |-> "", name |-> "working_memory", scope |-> "", value |-> Default,
           dynamic |-> TRUE]
DocumentNames(q) == [profile |-> q, name |-> "documents", scope |-> "names",
                     value |-> StoredNames(q, "") \cap Documents[q], dynamic |-> FALSE]
Compose(p, remembers) ==
    /\ prompt[p].step = "list"
    /\ LET q == prompt[p].of.profile
           listed == IF DocumentNames(q).value = {} THEN <<>> ELSE <<DocumentNames(q)>>
       IN  prompt' = [prompt EXCEPT
              ![p].fragments = @ \o listed \o (IF remembers THEN <<Memory>> ELSE <<>>),
              ![p].step = "run"]
    /\ UNCHANGED <<activeTexts, unreturned, views, recent, snapshots, records, textWrites>>

-----------------------------------------------------------------------------
(* prompt_record: the stable text goes into a snapshot, the rest into the  *)
(* record; a decision turn's instruction is appended to the content.       *)

BugStable(s) == SelectSeq(s, LAMBDA f : f.name # Memory.name)   \* Mutant: told by its name.
Stable(s) == SelectSeq(s, LAMBDA f : ~f.dynamic)
Dynamic(s) == SelectSeq(s, LAMBDA f : f.dynamic)
RecordOf(s) == [hash |-> Stable(s), dynamic |-> Dynamic(s), received |-> s]

(* The turn is saved, at its checkpoints and at its end: the snapshot, and *)
(* then the message.  It may fail before either.                           *)
SaveSnapshot(p) ==
    /\ prompt[p].step = "run"
    /\ snapshots' = snapshots \cup {Stable(prompt[p].fragments)}
    /\ prompt' = [prompt EXCEPT ![p].step = "save"]
    /\ UNCHANGED <<activeTexts, unreturned, views, recent, records, textWrites>>

SaveMessage(p) ==
    /\ prompt[p].step = "save"
    /\ records' = records \cup {RecordOf(prompt[p].fragments)}
    /\ prompt' = [prompt EXCEPT ![p] = NotBuilding]
    /\ UNCHANGED <<activeTexts, unreturned, views, recent, snapshots, textWrites>>

FailPrompt(p) ==
    /\ prompt[p] # NotBuilding
    /\ prompt' = [prompt EXCEPT ![p] = NotBuilding]
    /\ UNCHANGED <<activeTexts, unreturned, views, recent, snapshots, records, textWrites>>

PromptsInit ==
    /\ activeTexts = [k \in Slots |-> IF k \in LeftOver THEN [version |-> 1, text |-> -1] ELSE Default]
    /\ unreturned = {}
    /\ views = [v \in SubjectViews |-> NotCached] /\ recent = [q \in Registered |-> <<>>]
    /\ prompt = [p \in Builds |-> NotBuilding]
    /\ snapshots = {} /\ records = {} /\ textWrites = 0

PromptsNext ==
    \/ \E k \in Slots : Update(k) \/ Forget(k)
    \/ \E w \in unreturned : Return(w)
    \/ \E q \in Registered, s \in Subjects : Look(q, s)
    \/ \E p \in Builds :
          \/ \E q \in Registered, s \in Subjects \cup {""} : BeginPrompt(p, q, s)
          \/ Hit(p) \/ Miss(p) \/ ReadRows(p) \/ ReadSubject(p) \/ Cache(p)
          \/ (\E remembers \in BOOLEAN : Compose(p, remembers))
          \/ SaveSnapshot(p) \/ SaveMessage(p) \/ FailPrompt(p)

PromptsSpec == PromptsInit /\ [][PromptsNext]_promptInputVars

-----------------------------------------------------------------------------
(* Properties.                                                             *)

(* "a prompt record names exactly what the prompt used even while versions *)
(* change", and a write that has returned "affects the next prompt built": *)
(* every text of a prompt and the version its record names for it were     *)
(* active together, for the prompt's own profile and subject, at a moment  *)
(* since the prompt was begun.                                             *)
PromptOfItsTime ==
    \A p \in Builds : prompt[p] # NotBuilding =>
        \A f \in ToSet(prompt[p].fragments) :
            f.scope \in {"profile", "subject"} =>
                f.value \in prompt[p].valid[
                    Slot(f.profile, IF f.scope = "subject" THEN prompt[p].of.subject ELSE "",
                         f.name)]

(* "rebuilds the exact text the model received": from the record of a      *)
(* saved message and the snapshot it names, which is stored.               *)
RecordRebuilds ==
    \A r \in records : r.hash \in snapshots /\ r.hash \o r.dynamic = r.received

PromptsSafety == PromptOfItsTime /\ RecordRebuilds
=============================================================================
