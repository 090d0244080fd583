----------------------------- MODULE FileEdits ------------------------------
(***************************************************************************)
(* One file of the project, written from three sides: the editor pane      *)
(* (src/lib/use-file-buffer.ts over read_text_file, write_text_file and    *)
(* watch_file of src-tauri/src/commands/files.rs), the anchored edits of a *)
(* run (apply_str_replace, src-tauri/src/sandbox.rs), and everybody else   *)
(* (a patch, a shell command, delete_file, another editor).                *)
(*                                                                         *)
(* A text is the set of the changes it contains.  A write gives the file a *)
(* new modification time; two writes within one millisecond are left out.  *)
(***************************************************************************)
EXTENDS Naturals, Sequences, FiniteSets

CONSTANTS
  Typings,   \* changes the user may type into the pane
  Edits,     \* anchored edits
  Others,    \* changes made by everybody else
  MaxSaves,  \* bound: saves
  MaxForeign \* bound: writes and deletions by everybody else

ASSUME FileConstants ==
  /\ MaxSaves \in Nat /\ MaxForeign \in Nat
  /\ IsFiniteSet(Edits) /\ Typings \cap (Edits \cup Others) = {}

VARIABLES
  disk,      \* the file
  pane,      \* the buffer of the editor pane
  load,      \* the pane's read_text_file
  saves,     \* its write_text_file calls
  fileWatch, \* the file's watcher
  changes,   \* file://changed events on their way
  edits,     \* the anchored edits
  written,   \* history: typed changes a save has put on disk
  hasty,     \* history: the user typed, saved or reloaded during a load or a save
  overtaken  \* history: another's write, or the news of one, fell into a load or a
             \* save, or came before the file was watched

fileVars == <<disk, pane, load, saves, fileWatch, changes, edits, written, hasty,
              overtaken>>

Texts == SUBSET (Typings \cup Edits \cup Others)
Saves == 1 .. MaxSaves
Times == 0 .. MaxSaves + Cardinality(Edits) + MaxForeign + 1

Payload == [text : Texts, mtime : Times]
NoConflict == [text |-> {}, mtime |-> 0]
Pane == [value : Texts, original : Texts, mtime : Times, conflict : Payload,
         status : {"loading", "ready", "saving", "error"}]
FileCall == [pc : {"none", "called", "done", "reply", "failed", "over"}, text : Texts,
             mtime : Times]
NoCall == [pc |-> "none", text |-> {}, mtime |-> 0]

FilesTypeOK ==
  /\ disk \in [exists : BOOLEAN, text : Texts, mtime : Times, foreign : 0 .. MaxForeign]
  /\ pane \in Pane /\ load \in FileCall
  /\ saves \in [Saves -> FileCall]
  /\ fileWatch \in [pc : {"off", "on", "read"}, last : Times]
  /\ changes \in Seq(Payload)
  /\ edits \in [Edits -> [pc : {"none", "write", "over"}, text : Texts]]
  /\ written \in SUBSET Typings
  /\ hasty \in BOOLEAN /\ overtaken \in BOOLEAN

\* The pane has just been given the file's path.
FilesInit ==
  /\ disk = [exists |-> TRUE, text |-> {}, mtime |-> 1, foreign |-> 0]
  /\ pane = [value |-> {}, original |-> {}, mtime |-> 0, conflict |-> NoConflict,
             status |-> "loading"]
  /\ load = [NoCall EXCEPT !.pc = "called"]
  /\ saves = [i \in Saves |-> NoCall]
  /\ fileWatch = [pc |-> "off", last |-> 0]
  /\ changes = <<>>
  /\ edits = [e \in Edits |-> [pc |-> "none", text |-> {}]]
  /\ written = {} /\ hasty = FALSE /\ overtaken = FALSE

Dirty == pane.value # pane.original
InConflict == pane.conflict # NoConflict
Busy == load.pc # "over" \/ \E i \in Saves : saves[i].pc \notin {"none", "over"}

WriteDisk(file, text) ==
  disk' = [file EXCEPT !.exists = TRUE, !.text = text, !.mtime = @ + 1]

\* Somebody's write, or the news of one.
Crosses == overtaken' = (overtaken \/ Busy \/ fileWatch.pc = "off")

-----------------------------------------------------------------------------
(* The pane is loaded, and watched: the two run side by side.              *)

ReadContents ==
  /\ load.pc = "called"
  /\ load' = IF disk.exists THEN [load EXCEPT !.pc = "done", !.text = disk.text]
                            ELSE [load EXCEPT !.pc = "failed"]
  /\ UNCHANGED <<disk, pane, saves, fileWatch, changes, edits, written, hasty,
                 overtaken>>

\* The time is asked for after the content was read; it is 0 without a file.
ReadTime ==
  /\ load.pc = "done"
  /\ load' = [load EXCEPT !.pc = "reply", !.mtime = IF disk.exists THEN disk.mtime ELSE 0]
  /\ UNCHANGED <<disk, pane, saves, fileWatch, changes, edits, written, hasty,
                 overtaken>>

OnLoaded ==
  /\ load.pc = "reply"
  /\ load' = [NoCall EXCEPT !.pc = "over"]
  /\ pane' = [pane EXCEPT !.value = load.text, !.original = load.text,
                          !.mtime = load.mtime, !.status = "ready"]
  /\ UNCHANGED <<disk, saves, fileWatch, changes, edits, written, hasty, overtaken>>

OnLoadFailed ==
  /\ load.pc = "failed"
  /\ load' = [NoCall EXCEPT !.pc = "over"]
  /\ pane' = [pane EXCEPT !.status = "error"]
  /\ UNCHANGED <<disk, saves, fileWatch, changes, edits, written, hasty, overtaken>>

StartWatch ==
  /\ fileWatch.pc = "off"
  /\ fileWatch' = [pc |-> "on", last |-> IF disk.exists THEN disk.mtime ELSE 0]
  /\ UNCHANGED <<disk, pane, load, saves, changes, edits, written, hasty, overtaken>>

\* A tick of the watcher, and the read that follows it.
Tick ==
  /\ fileWatch.pc = "on" /\ disk.exists /\ disk.mtime # fileWatch.last
  /\ fileWatch' = [pc |-> "read", last |-> disk.mtime]
  /\ UNCHANGED <<disk, pane, load, saves, changes, edits, written, hasty, overtaken>>

EmitChange ==
  /\ fileWatch.pc = "read"
  /\ fileWatch' = [fileWatch EXCEPT !.pc = "on"]
  /\ changes' = IF disk.exists THEN Append(changes, [text |-> disk.text, mtime |-> fileWatch.last])
                               ELSE changes
  /\ UNCHANGED <<disk, pane, load, saves, edits, written, hasty, overtaken>>

\* Unsaved text that differs is a conflict; everything else is adopted.  The
\* slips: whatever is newer is adopted; nothing is said while text is unsaved;
\* the time is not kept with the conflict.
AdoptsNewer(change) == TRUE
Adopts(change) == ~Dirty \/ change.text = pane.value
FlaggedNot(change) == pane
FlaggedUntimed(change) == [pane EXCEPT !.conflict = [text |-> change.text]]
Flagged(change) == [pane EXCEPT !.conflict = change]

OnChanged ==
  /\ changes # <<>>
  /\ changes' = Tail(changes)
  /\ LET change == Head(changes)
     IN  \/ change.mtime <= pane.mtime /\ UNCHANGED pane
         \/ /\ change.mtime > pane.mtime /\ Adopts(change)
            /\ pane' = [pane EXCEPT !.value = change.text, !.original = change.text,
                                    !.mtime = change.mtime, !.conflict = NoConflict]
         \/ /\ change.mtime > pane.mtime /\ ~Adopts(change)
            /\ pane' = Flagged(change)
  /\ Crosses
  /\ UNCHANGED <<disk, load, saves, fileWatch, edits, written, hasty>>

-----------------------------------------------------------------------------
(* The user.  The text area takes input at any time, and so does Cmd+S.    *)

TypeText ==
  /\ \E t \in Typings :
       /\ t \notin pane.value \cup written
       /\ \A i \in Saves : t \notin saves[i].text
       /\ pane' = [pane EXCEPT !.value = @ \cup {t}]
  /\ hasty' = (hasty \/ Busy)
  /\ UNCHANGED <<disk, load, saves, fileWatch, changes, edits, written, overtaken>>

Save(i) ==
  /\ saves[i].pc = "none" /\ \A j \in 1 .. i - 1 : saves[j].pc # "none"
  /\ saves' = [saves EXCEPT ![i] = [NoCall EXCEPT !.pc = "called", !.text = pane.value]]
  /\ pane' = [pane EXCEPT !.status = "saving"]
  /\ hasty' = (hasty \/ Busy)
  /\ UNCHANGED <<disk, load, fileWatch, changes, edits, written, overtaken>>

WriteFile(i) ==
  /\ saves[i].pc = "called"
  /\ \/ /\ saves' = [saves EXCEPT ![i].pc = "done"]
        /\ WriteDisk(disk, saves[i].text)
        /\ written' = written \cup (saves[i].text \cap Typings)
     \/ /\ saves' = [saves EXCEPT ![i].pc = "failed"]
        /\ UNCHANGED <<disk, written>>
  /\ UNCHANGED <<pane, load, fileWatch, changes, edits, hasty, overtaken>>

TimeOfSave(i) ==
  /\ saves[i].pc = "done"
  /\ saves' = [saves EXCEPT ![i].pc = "reply",
                            ![i].mtime = IF disk.exists THEN disk.mtime ELSE 0]
  /\ UNCHANGED <<disk, pane, load, fileWatch, changes, edits, written, hasty,
                 overtaken>>

\* What is in the buffer by now counts as saved.
OnSaved(i) ==
  /\ saves[i].pc = "reply"
  /\ saves' = [saves EXCEPT ![i] = [NoCall EXCEPT !.pc = "over"]]
  /\ pane' = [pane EXCEPT !.original = pane.value, !.mtime = saves[i].mtime,
                          !.conflict = NoConflict, !.status = "ready"]
  /\ UNCHANGED <<disk, load, fileWatch, changes, edits, written, hasty, overtaken>>

OnSaveFailed(i) ==
  /\ saves[i].pc = "failed"
  /\ saves' = [saves EXCEPT ![i] = [NoCall EXCEPT !.pc = "over"]]
  /\ pane' = [pane EXCEPT !.status = "error"]
  /\ UNCHANGED <<disk, load, fileWatch, changes, edits, written, hasty, overtaken>>

ReloadFromDisk ==
  /\ InConflict
  /\ pane' = [pane EXCEPT !.value = pane.conflict.text, !.original = pane.conflict.text,
                          !.mtime = pane.conflict.mtime, !.conflict = NoConflict]
  /\ hasty' = (hasty \/ Busy)
  /\ UNCHANGED <<disk, load, saves, fileWatch, changes, edits, written, overtaken>>

\* The time is adopted, the text is not.
DismissConflict ==
  /\ InConflict
  /\ pane' = [pane EXCEPT !.mtime = pane.conflict.mtime, !.conflict = NoConflict]
  /\ UNCHANGED <<disk, load, saves, fileWatch, changes, edits, written, hasty,
                 overtaken>>

-----------------------------------------------------------------------------
(* The others.                                                             *)

\* The anchor is looked for in what was read; then the tree is snapshot, which
\* takes its time.
ReadForEdit(e) ==
  /\ edits[e].pc = "none"
  /\ \/ edits' = [edits EXCEPT ![e].pc = "over"]
     \/ /\ disk.exists
        /\ edits' = [edits EXCEPT ![e] = [pc |-> "write", text |-> disk.text \cup {e}]]
  /\ UNCHANGED <<disk, pane, load, saves, fileWatch, changes, written, hasty,
                 overtaken>>

WriteEdit(e) ==
  /\ edits[e].pc = "write"
  /\ edits' = [edits EXCEPT ![e] = [pc |-> "over", text |-> {}]]
  /\ WriteDisk(disk, edits[e].text)
  /\ Crosses
  /\ UNCHANGED <<pane, load, saves, fileWatch, changes, written, hasty>>

OtherWrite ==
  /\ disk.foreign < MaxForeign
  /\ \E o \in Others : WriteDisk([disk EXCEPT !.foreign = @ + 1], disk.text \cup {o})
  /\ Crosses
  /\ UNCHANGED <<pane, load, saves, fileWatch, changes, edits, written, hasty>>

DeleteFile ==
  /\ disk.exists /\ disk.foreign < MaxForeign
  /\ disk' = [disk EXCEPT !.exists = FALSE, !.text = {}, !.foreign = @ + 1]
  /\ UNCHANGED <<pane, load, saves, fileWatch, changes, edits, written, hasty,
                 overtaken>>

FilesNext ==
  \/ ReadContents \/ ReadTime \/ OnLoaded \/ OnLoadFailed \/ StartWatch \/ Tick \/ EmitChange
  \/ OnChanged \/ TypeText \/ ReloadFromDisk \/ DismissConflict \/ OtherWrite \/ DeleteFile
  \/ \E i \in Saves : Save(i) \/ WriteFile(i) \/ TimeOfSave(i) \/ OnSaved(i) \/ OnSaveFailed(i)
  \/ \E e \in Edits : ReadForEdit(e) \/ WriteEdit(e)

FilesSpec == FilesInit /\ [][FilesNext]_fileVars

-----------------------------------------------------------------------------
(* What the code guarantees.                                               *)

\* Typed text leaves the pane only once it was saved, or when the user takes
\* the version on disk, whoever writes the file and however late the news is:
\* as long as the user waits for loads and saves.
TypedSurvives ==
  [][~hasty =>
       \A t \in Typings : t \in pane.value /\ t \notin pane.value' =>
         t \in written \/ pane.value' = pane.conflict.text]_fileVars

\* When the news has arrived, a pane without unsaved text shows what is on disk,
\* and one with unsaved text has told the user of the version on disk: unless
\* another's write, or the news of it, crossed the pane's own reading and writing.
Quiet ==
  /\ ~Busy /\ changes = <<>>
  /\ fileWatch.pc = "on" /\ fileWatch.last = disk.mtime /\ disk.exists
NoStaleView ==
  Quiet /\ ~overtaken /\ ~hasty =>
    IF Dirty THEN \/ pane.mtime = disk.mtime
                  \/ pane.conflict = [text |-> disk.text, mtime |-> disk.mtime]
             ELSE pane.value = disk.text

\* What the comments promise beyond that.

\* "`dirty` is true when the user has typed since the last save/load".
DirtyIfTyped ==
  pane.status = "ready" /\ ~Busy =>
    \A t \in Typings : t \in pane.value \ written => Dirty

\* An edit changes what it anchors, and undoes no change of another.
EditSparesOthers ==
  [][\A e \in Edits : WriteEdit(e) => disk.text \subseteq disk'.text]_fileVars
=============================================================================
