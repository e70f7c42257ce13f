----------------------------- MODULE NoteFiles -----------------------------
(***************************************************************************)
(* The notes kept in a folder: services/tools/providers/filesystem.py      *)
(* (MarkdownNotes) with the descriptor operations of                       *)
(* providers/_filesystem.py.                                               *)
(*                                                                         *)
(* Every operation runs in a thread.  A file is what an open descriptor    *)
(* refers to; an entry is a name that leads to one.  The notes of the      *)
(* module all have one title and date, so that a name is a folder and the  *)
(* number that keeps it apart from the others.  What a note says is a      *)
(* number: each text that is written has its own.  Links are left out.     *)
(***************************************************************************)
EXTENDS Integers, Sequences, FiniteSets

CONSTANTS
    Folders,     \* folders under the root, and the root
    Workers,     \* the threads
    MaxFiles,    \* bounds: files, and the numbers in their names
    MaxTexts,    \* texts that are written
    MaxFailures  \* writes, copies and removals the file system refuses

ASSUME BoundsAssumption == MaxFiles \in Nat

VARIABLES
    files,      \* what each file says, whether all of it is there, and whether a
                \* name of it was deleted, or is one that a move will remove
    entry,      \* the file each name leads to, 0 for none
    folders,    \* the folders there are
    task,       \* what each thread does
    noteLocks,  \* the thread that holds _entry_lock
    texts,      \* texts written so far
    kept,       \* those nobody has since replaced, deleted or given up
    failures

noteVars == <<files, entry, folders, task, noteLocks, texts, kept, failures>>

Paths == Folders \X (0..MaxFiles)
NotWorking == [step |-> "idle"]

(* Who has the file open to read or to write it.                           *)
On(f) == {w \in Workers : task[w] # NotWorking /\ (task[w].file = f \/ (task[w].step = "copy" /\ task[w].into = f))}
MayWrite == texts < MaxTexts
MayAdd == Len(files) < MaxFiles
Fails == failures < MaxFailures /\ failures' = failures + 1

(* _entry_lock.                                                            *)
BugLocks(w) == UNCHANGED noteLocks   \* Mutant: without the lock.
Locks(w) == noteLocks = {} /\ noteLocks' = {w}
Unlocks(w) == noteLocks' = noteLocks \ {w}

Enters(w, what) == task[w] = NotWorking /\ task' = [task EXCEPT ![w] = what]
StepsTo(w, step) == task' = [task EXCEPT ![w].step = step]
Leaves(w) == task' = [task EXCEPT ![w] = NotWorking] /\ Unlocks(w)

(* A new entry, whose content is not complete.                             *)
Opens(path, text) ==
    /\ files' = Append(files, [text |-> text, whole |-> FALSE, doomed |-> FALSE])
    /\ entry' = [entry EXCEPT ![path] = Len(files) + 1]

-----------------------------------------------------------------------------
(* create.                                                                 *)

BeginNote(w, folder) ==
    /\ MayAdd /\ MayWrite /\ Locks(w)
    /\ Enters(w, [step |-> "try", path |-> <<folder, 0>>, file |-> 0])
    /\ folders' = folders \cup {folder}
    /\ UNCHANGED <<files, entry, texts, kept, failures>>

(* exclusive_text: only a name that is free.                               *)
BugExclusive(path) == TRUE   \* Mutant: whatever has the name is replaced.
Exclusive(path) == entry[path] = 0

TryName(w) ==
    LET path == task[w].path
    IN  /\ task[w].step = "try"
        /\ IF Exclusive(path)
           THEN /\ MayAdd /\ MayWrite
                /\ Opens(path, texts + 1)
                /\ texts' = texts + 1 /\ kept' = kept \cup {texts + 1}
                /\ task' = [task EXCEPT ![w].step = "write", ![w].file = Len(files) + 1]
           ELSE /\ path[2] < MaxFiles
                /\ task' = [task EXCEPT ![w].path = <<path[1], path[2] + 1>>]
                /\ UNCHANGED <<files, entry, texts, kept>>
        /\ UNCHANGED <<folders, noteLocks, failures>>

(* What two threads write to one file at a time may be of either, or torn. *)
WriteNote(w) ==
    /\ task[w].step = "write"
    /\ \E all \in BOOLEAN :
          /\ files[task[w].file].text \in kept => all
          /\ files' = [files EXCEPT ![task[w].file].whole = all]
    /\ Leaves(w)
    /\ UNCHANGED <<entry, folders, texts, kept, failures>>

(* The note it could not write stays, under a name that nobody is told.    *)
NoteWriteFails(w) ==
    /\ task[w].step = "write" /\ Fails
    /\ kept' = kept \ {files[task[w].file].text}
    /\ Leaves(w)
    /\ UNCHANGED <<files, entry, folders, texts>>

-----------------------------------------------------------------------------
(* update: the file it opened, in place, without the lock.                 *)

(* Of an update and another thread that reads or writes the file during    *)
(* it, neither is sure to be seen: the update is not alone.                *)
Updates(f) == {w \in On(f) : task[w].step \in {"rewrite", "truncate"}}
Shared(f) ==
    [w \in Workers |-> IF w \in Updates(f) THEN [task[w] EXCEPT !.alone = FALSE] ELSE task[w]]
InFlight(f) == {task[w].text : w \in {v \in Updates(f) : task[v].step = "truncate"}}

BeginUpdate(w, path) ==
    LET f == entry[path]
    IN  /\ f # 0 /\ task[w] = NotWorking /\ MayWrite
        /\ task' = [Shared(f) EXCEPT ![w] = [step |-> "rewrite", file |-> f, alone |-> On(f) = {}]]
        /\ kept' = kept \ InFlight(f)
        /\ UNCHANGED <<files, entry, folders, noteLocks, texts, failures>>

Rewrite(w) ==
    /\ task[w].step = "rewrite" /\ MayWrite
    /\ LET f == task[w].file
       IN  /\ files' = [files EXCEPT ![f].text = texts + 1, ![f].whole = FALSE]
           /\ kept' = (kept \ {files[f].text}) \cup
                      IF task[w].alone /\ ~files[f].doomed THEN {texts + 1} ELSE {}
    /\ task' = [task EXCEPT ![w] = [step |-> "truncate", file |-> @.file, alone |-> @.alone, text |-> texts + 1]]
    /\ texts' = texts + 1
    /\ UNCHANGED <<entry, folders, noteLocks, failures>>

Truncate(w) ==
    /\ task[w].step = "truncate"
    /\ \E all \in BOOLEAN :
          /\ task[w].text \in kept => all
          /\ files' = [files EXCEPT ![task[w].file].whole = all]
    /\ Leaves(w)
    /\ UNCHANGED <<entry, folders, texts, kept, failures>>

-----------------------------------------------------------------------------
(* delete: the name, without the lock.                                     *)

DeleteNote(path) ==
    /\ entry[path] # 0
    /\ entry' = [entry EXCEPT ![path] = 0]
    /\ files' = [files EXCEPT ![entry[path]].doomed = TRUE]
    /\ kept' = kept \ {files[entry[path]].text}
    /\ UNCHANGED <<folders, task, noteLocks, texts, failures>>

CreateFolder(folder) ==
    /\ folder \notin folders /\ folders' = folders \cup {folder}
    /\ UNCHANGED <<files, entry, task, noteLocks, texts, kept, failures>>

-----------------------------------------------------------------------------
(* move_note.                                                              *)

BeginMove(w, path, folder) ==
    /\ entry[path] # 0 /\ Locks(w)
    /\ Enters(w, [step |-> "link", path |-> path, to |-> <<folder, path[2]>>, file |-> 0, into |-> 0])
    /\ folders' = folders \cup {folder}
    /\ UNCHANGED <<files, entry, texts, kept, failures>>

(* "Unlike a rename, a link fails rather than replace the destination."    *)
BugReplaces(path) == TRUE   \* Mutant: a rename.
Replaces(path) == entry[path] = 0

Link(w) ==
    LET source == entry[task[w].path]
    IN  /\ task[w].step = "link"
        /\ IF source # 0 /\ Replaces(task[w].to)
           THEN entry' = [entry EXCEPT ![task[w].to] = source] /\ StepsTo(w, "unlink") /\ UNCHANGED noteLocks
           ELSE Leaves(w) /\ UNCHANGED entry
        /\ UNCHANGED <<files, folders, texts, kept, failures>>

(* The file system refuses a link; _copy_entry opens the source.           *)
LinkRefused(w) ==
    LET source == entry[task[w].path]
    IN  /\ task[w].step = "link"
        /\ IF source # 0
           THEN /\ task' = [Shared(source) EXCEPT ![w].step = "open", ![w].file = source]
                /\ kept' = kept \ InFlight(source)
                /\ UNCHANGED noteLocks
           ELSE Leaves(w) /\ UNCHANGED kept
        /\ UNCHANGED <<files, entry, folders, texts, failures>>

OpenCopy(w) ==
    /\ task[w].step = "open"
    /\ IF entry[task[w].to] # 0
       THEN Leaves(w) /\ UNCHANGED <<files, entry>>
       ELSE /\ MayAdd
            /\ Opens(task[w].to, files[task[w].file].text)
            /\ task' = [task EXCEPT ![w].step = "copy", ![w].into = Len(files) + 1]
            /\ UNCHANGED noteLocks
    /\ UNCHANGED <<folders, texts, kept, failures>>

Copy(w) ==
    /\ task[w].step = "copy"
    /\ files' = [files EXCEPT ![task[w].into] = files[task[w].file]]
    /\ StepsTo(w, "unlink")
    /\ UNCHANGED <<entry, folders, noteLocks, texts, kept, failures>>

(* "A partial copy would make every retry report 'already exists'."        *)
CopyFails(w) ==
    /\ task[w].step = "copy" /\ Fails
    /\ entry' = [entry EXCEPT ![task[w].to] = 0]
    /\ Leaves(w)
    /\ UNCHANGED <<files, folders, texts, kept>>

Unlink(w) ==
    /\ task[w].step = "unlink"
    /\ entry' = [entry EXCEPT ![task[w].path] = 0]
    /\ Leaves(w)
    /\ UNCHANGED <<files, folders, texts, kept, failures>>

UnlinkFails(w) ==
    /\ task[w].step = "unlink" /\ Fails /\ Leaves(w)
    /\ UNCHANGED <<files, entry, folders, texts, kept>>

-----------------------------------------------------------------------------
(* Another program writes a note where there is none.  What it puts under  *)
(* a name a move is working on may be removed by that name.                *)

WorkedOn ==
    {task[w].path : w \in {v \in Workers : task[v].step \in {"open", "copy", "unlink"}}}
    \cup {task[w].to : w \in {v \in Workers : task[v].step = "copy"}}

OtherProgram(path) ==
    /\ entry[path] = 0 /\ path[1] \in folders /\ MayAdd /\ MayWrite
    /\ files' = Append(files, [text |-> texts + 1, whole |-> TRUE,
                                doomed |-> path \in WorkedOn])
    /\ entry' = [entry EXCEPT ![path] = Len(files) + 1]
    /\ texts' = texts + 1
    /\ kept' = IF path \in WorkedOn THEN kept ELSE kept \cup {texts + 1}
    /\ UNCHANGED <<folders, task, noteLocks, failures>>

-----------------------------------------------------------------------------
NotesInit ==
    /\ files = <<>> /\ entry = [path \in Paths |-> 0]
    /\ \E folder \in Folders : folders = {folder}
    /\ task = [w \in Workers |-> NotWorking] /\ noteLocks = {}
    /\ texts = 0 /\ kept = {} /\ failures = 0

NotesNext ==
    \/ \E folder \in Folders : CreateFolder(folder)
    \/ \E path \in Paths : DeleteNote(path) \/ OtherProgram(path)
    \/ \E w \in Workers :
         \/ \E folder \in Folders : BeginNote(w, folder)
         \/ TryName(w) \/ WriteNote(w) \/ NoteWriteFails(w)
         \/ \E path \in Paths : \/ BeginUpdate(w, path)
                                \/ \E folder \in Folders : BeginMove(w, path, folder)
         \/ Rewrite(w) \/ Truncate(w)
         \/ Link(w) \/ LinkRefused(w) \/ OpenCopy(w) \/ Copy(w) \/ CopyFails(w)
         \/ Unlink(w) \/ UnlinkFails(w)

NotesSpec == NotesInit /\ [][NotesNext]_noteVars

-----------------------------------------------------------------------------
(* Properties.                                                             *)

(* No note is lost: what a create or an update acknowledged, or another    *)
(* program put there, can be read, all of it, under some name, until       *)
(* someone deletes or rewrites it, whatever is moved where meanwhile.      *)
Written(n) == \A w \in Workers : task[w].step \in {"write", "truncate"}
                                 => files[task[w].file].text # n
NoNoteLost ==
    \A n \in kept : Written(n) =>
        \E path \in Paths : entry[path] # 0 /\ files[entry[path]].text = n /\ files[entry[path]].whole
=============================================================================
