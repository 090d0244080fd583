---------------------------- MODULE SavedRuntimes ----------------------------
(***************************************************************************)
(* The permanent list of runtimes of                                       *)
(* src/features/01-llm-provider/use-runtime-store.ts: which ones are       *)
(* listed, which ones the user deleted, and both on disk.                  *)
(*                                                                         *)
(* The two lists are written whole, by calls nobody waits for.  They can   *)
(* land in another order than they were begun, and the app can end before  *)
(* they do; the list is also replaced by what bootstrap read from disk.    *)
(***************************************************************************)
EXTENDS Naturals, Sequences, SequencesExt

CONSTANTS
  Urls,        \* endpoints
  Local,       \* those detect_runtimes probes, by another name than their host's
  Adding,      \* what an endpoint that is new replaces
  MaxWrites,   \* bound: writes under way
  MaxGestures, \* bound: what the user and the project do
  MaxSessions  \* bound: launches of the app

ASSUME SavedConstants ==
  /\ Local \subseteq Urls /\ Adding \notin Urls /\ MaxWrites \in Nat /\ MaxGestures \in Nat
  /\ MaxSessions \in Nat \ {0}

VARIABLES
  restore,  \* bootstrap: "off", "reading", with what it read "read", "up"
  fromDisk, \* what it read
  saved, dismissed,
  disk,     \* aka-runtimes.json
  writes,   \* under way, in the order they were begun
  checks,   \* endpoints being validated, with the one each replaces
  gestures, sessions,
  gone,     \* history: deleted and not used again
  disturbed \* history: writes crossed, or the list was changed before it was read

savedVars == <<restore, fromDisk, saved, dismissed, disk, writes, checks, gestures,
               sessions, gone, disturbed>>

\* An entry is labelled by its host, or by the name detection has for it.
Entries == [url : Urls, detected : BOOLEAN]
Lists == [saved : SUBSET Entries, dismissed : SUBSET Urls]
UrlsOf(list) == {e.url : e \in list}
Empty == [saved |-> {}, dismissed |-> {}]

SavedTypeOK ==
  /\ restore \in {"off", "reading", "read", "up"}
  /\ fromDisk \in Lists /\ disk \in Lists
  /\ saved \subseteq Entries /\ dismissed \subseteq Urls
  /\ writes \in Seq([parts : SUBSET {"saved", "dismissed"}, lists : Lists])
  /\ checks \subseteq [url : Urls, old : Urls \cup {Adding}]
  /\ gestures \in 0 .. MaxGestures /\ sessions \in 1 .. MaxSessions
  /\ gone \subseteq Urls /\ disturbed \in BOOLEAN

SavedInit ==
  /\ restore = "off" /\ fromDisk = Empty
  /\ saved = {} /\ dismissed = {} /\ disk = Empty
  /\ writes = <<>> /\ checks = {}
  /\ gestures = 0 /\ sessions = 1 /\ gone = {} /\ disturbed = FALSE

Gesture == gestures < MaxGestures /\ gestures' = gestures + 1
\* persistSavedRuntimes and persistDismissedRuntimes, of the lists as they are now.
Begin(parts, list, deleted) ==
  IF parts = {} THEN UNCHANGED writes
  ELSE /\ Len(writes) < MaxWrites
       /\ writes' = Append(writes, [parts |-> parts,
                                    lists |-> [saved |-> list, dismissed |-> deleted]])
EarlyChange == disturbed' = (disturbed \/ restore # "up")

-----------------------------------------------------------------------------
(* The disk.                                                               *)

\* A deletion writes the list first, then what was deleted.
NextPart(w) == IF "saved" \in w.parts THEN "saved" ELSE "dismissed"
Crosses(i) == \E j \in 1 .. i - 1 : NextPart(writes[i]) \in writes[j].parts

Land(i) ==
  /\ i \in DOMAIN writes
  /\ LET part == NextPart(writes[i]) IN
       /\ disk' = [disk EXCEPT ![part] = writes[i].lists[part]]
       /\ writes' = IF writes[i].parts = {part} THEN RemoveAt(writes, i)
                    ELSE [writes EXCEPT ![i].parts = @ \ {part}]
  /\ disturbed' = (disturbed \/ Crosses(i))
  /\ UNCHANGED <<restore, fromDisk, saved, dismissed, checks, gestures, sessions, gone>>

AppEnds ==
  /\ sessions < MaxSessions /\ sessions' = sessions + 1
  /\ restore' = "off" /\ fromDisk' = Empty
  /\ saved' = {} /\ dismissed' = {} /\ writes' = <<>> /\ checks' = {}
  /\ gone' = IF writes = <<>> THEN gone ELSE {}
  /\ UNCHANGED <<disk, gestures, disturbed>>

-----------------------------------------------------------------------------
(* bootstrap and the detection.                                            *)

Restore ==
  /\ \/ restore = "off" /\ restore' = "reading" /\ UNCHANGED <<fromDisk, saved, dismissed>>
     \/ /\ restore = "reading" /\ restore' = "read"
        /\ fromDisk' = disk /\ UNCHANGED <<saved, dismissed>>
     \/ /\ restore = "read" /\ restore' = "up"
        /\ saved' = fromDisk.saved /\ dismissed' = fromDisk.dismissed /\ UNCHANGED fromDisk
  /\ UNCHANGED <<disk, writes, checks, gestures, sessions, gone, disturbed>>

\* Installed runtimes that are not listed join the list; a slip forgets what was
\* deleted.
FoldAll(installed) == installed \ UrlsOf(saved)
Folded(installed) == installed \ (UrlsOf(saved) \cup dismissed)
WrittenIfChanged(list) == IF list # saved THEN {"saved"} ELSE {}

SyncDetectedIntoSaved(installed) ==
  /\ restore = "up"
  /\ LET named == {[e EXCEPT !.detected = @ \/ e.url \in Local] : e \in saved}
         list == named \cup {[url |-> u, detected |-> TRUE] : u \in Folded(installed)}
     IN  saved' = list /\ Begin(WrittenIfChanged(list), list, dismissed)
  /\ UNCHANGED <<restore, fromDisk, dismissed, disk, checks, gestures, sessions, gone,
                 disturbed>>

-----------------------------------------------------------------------------
(* The user, and the project that is opened.                               *)

\* rememberRuntime.
Remember(u, byName) ==
  LET list == {e \in saved : e.url # u} \cup {[url |-> u, detected |-> byName]}
      deleted == dismissed \ {u}
  IN  /\ saved' = list /\ dismissed' = deleted
      /\ \/ deleted = dismissed /\ Begin({"saved"}, list, deleted)
         \/ /\ deleted # dismissed /\ Len(writes) + 2 <= MaxWrites
            /\ writes' = writes \o [i \in 1 .. 2 |->
                 [parts |-> IF i = 1 THEN {"saved"} ELSE {"dismissed"},
                  lists |-> [saved |-> list, dismissed |-> deleted]]]
      /\ gone' = gone \ {u}

SelectDetected(u) ==
  /\ restore = "up" /\ Gesture
  /\ u \in Local
  /\ Remember(u, TRUE)
  /\ UNCHANGED <<restore, fromDisk, disk, checks, sessions, disturbed>>

\* hydrateFromProject waits for nothing that bootstrap does.
HydrateFromProject(u) ==
  /\ restore # "off" /\ Gesture
  /\ Remember(u, FALSE) /\ EarlyChange
  /\ UNCHANGED <<restore, fromDisk, disk, checks, sessions>>

\* saveManual and editSavedRuntime ask the endpoint first.
Validate(u) ==
  /\ restore = "up" /\ Gesture
  /\ \E old \in {Adding} \cup (UrlsOf(saved) \ Local) :
       checks' = checks \cup {[url |-> u, old |-> old]}
  /\ UNCHANGED <<restore, fromDisk, saved, dismissed, disk, writes, sessions,
                 gone, disturbed>>

\* An edit changes whatever entry has the old endpoint when the answer arrives.
Validated(c) ==
  /\ c \in checks /\ checks' = checks \ {c}
  /\ \/ c.old = Adding /\ Remember(c.url, FALSE)
     \/ /\ c.old # Adding
        /\ saved' = {IF e.url = c.old THEN [url |-> c.url, detected |-> FALSE] ELSE e : e \in saved}
        /\ Begin({"saved"}, saved', dismissed)
        /\ gone' = IF c.old \in UrlsOf(saved) THEN gone \ {c.url} ELSE gone
        /\ UNCHANGED dismissed
     \/ UNCHANGED <<saved, dismissed, writes, gone>>
  /\ UNCHANGED <<restore, fromDisk, disk, gestures, sessions, disturbed>>

\* A slip writes the list only.
ListOnly == {"saved"}
BothLists == {"saved", "dismissed"}

DeleteSavedRuntime(u) ==
  /\ restore = "up" /\ Gesture
  /\ u \in UrlsOf(saved)
  /\ saved' = {e \in saved : e.url # u}
  /\ dismissed' = dismissed \cup {u}
  /\ Begin(BothLists, saved', dismissed')
  /\ gone' = gone \cup {u}
  /\ UNCHANGED <<restore, fromDisk, disk, checks, sessions, disturbed>>

SavedNext ==
  \/ AppEnds \/ Restore
  \/ \E i \in 1 .. MaxWrites : Land(i)
  \/ \E installed \in SUBSET Local : SyncDetectedIntoSaved(installed)
  \/ \E u \in Urls : \/ SelectDetected(u) \/ HydrateFromProject(u) \/ Validate(u)
                     \/ DeleteSavedRuntime(u)
  \/ \E c \in checks : Validated(c)

SavedSpec == SavedInit /\ [][SavedNext]_savedVars

-----------------------------------------------------------------------------
(* What the code guarantees.                                               *)

\* "Never re-add one the user explicitly deleted": what was deleted stays away
\* until the user or a project uses it again, through detections and edits, and
\* through restarts that no write was under way at.
DeletedStaysGone == ~disturbed => gone \cap UrlsOf(saved) = {}

\* The permanent list "survives launches": when no write is under way the disk
\* holds both lists as they are shown.
ListsOnDisk ==
  ~disturbed /\ writes = <<>> /\ restore = "up"
    => disk = [saved |-> saved, dismissed |-> dismissed]

\* What the two promises of the permanent list come to.
SavedSafe == DeletedStaysGone /\ ListsOnDisk

\* What the comments promise beyond that: "keyed by base URL", which an edit to
\* an endpoint that is listed already breaks.
OneRowEach == \A d, e \in saved : d.url = e.url => d = e
=============================================================================
