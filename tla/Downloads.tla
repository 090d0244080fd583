----------------------------- MODULE Downloads ------------------------------
(***************************************************************************)
(* Fetching one model file (src-tauri/src/commands/models.rs), and what    *)
(* the model browser's store shows of it                                   *)
(* (features/01-llm-provider/use-model-browser-store.ts).                  *)
(*                                                                         *)
(* A download writes <name>.part and renames it into place.  Everything is *)
(* keyed by the file's name, so a download, the one begun after it was     *)
(* cancelled, and an import of a file of that name share the two paths and *)
(* the slot of the cancellation flags.  An open file is an inode: it keeps *)
(* its identity when its path is renamed, removed or created again.        *)
(***************************************************************************)
EXTENDS Naturals, Sequences

CONSTANTS
  MaxDownloads, \* bound: downloads ever begun
  Chunks,       \* bound: chunks of the file
  MaxEvents     \* bound: events on their way to the store

ASSUME DownloadConstants ==
  MaxDownloads \in Nat /\ Chunks \in Nat \ {0} /\ MaxEvents \in Nat \ {0}

VARIABLES
  dl,         \* the downloads
  flagSlot,   \* DownloadState.cancels[name]: whose flag it is, or 0
  content,    \* the chunks each inode holds
  part,       \* the inode <name>.part names, or 0
  final,      \* the inode <name> names, or 0
  import,     \* the import: its inode, and whether it still copies
  entry,      \* the store shows the file as downloading
  cancelCall, \* the store's cancelDownload: "no", "called", "answered"
  events,     \* model:download-* events on their way
  overlapped  \* history: a download was begun while another was under way

downloadVars == <<dl, flagSlot, content, part, final, import, entry,
                  cancelCall, events, overlapped>>
diskVars == <<content, part, final, import>>
storeVars == <<entry, cancelCall, overlapped>>

Downloads == 1 .. MaxDownloads
ImportInode == MaxDownloads + 1
PartInodes == 1 .. ImportInode
AllChunks == 1 .. Chunks

\* "asked": before it registers its flag.  "request": awaiting the response.
\* "create": about to create the part file.  "unwind": run_download returns and
\* PartFileGuard is dropped.  "ending": about to deregister and to report.
\* "reject": the store still awaits the answer, an error.
DownloadStates == {"none", "asked", "request", "create", "stream", "rename",
                   "unwind", "ending", "reject", "over", "crashed"}
Download == [pc : DownloadStates, flag : BOOLEAN, got : 0 .. Chunks,
             inode : 0 .. ImportInode, result : {"ok", "error", "cancelled"}]
NoDownload == [pc |-> "none", flag |-> FALSE, got |-> 0, inode |-> 0, result |-> "ok"]

DownloadsTypeOK ==
  /\ dl \in [Downloads -> Download]
  /\ flagSlot \in 0 .. MaxDownloads
  /\ content \in [PartInodes -> SUBSET AllChunks]
  /\ part \in 0 .. ImportInode /\ final \in 0 .. ImportInode
  /\ import \in [copying : BOOLEAN, inode : 0 .. ImportInode]
  /\ entry \in BOOLEAN /\ overlapped \in BOOLEAN
  /\ cancelCall \in {"no", "called", "answered"}
  /\ events \in Seq({"progress", "complete", "error"})

DownloadsInit ==
  /\ dl = [d \in Downloads |-> NoDownload]
  /\ flagSlot = 0
  /\ content = [i \in PartInodes |-> {}]
  /\ part = 0 /\ final = 0
  /\ import = [copying |-> FALSE, inode |-> 0]
  /\ entry = FALSE /\ cancelCall = "no"
  /\ events = <<>>
  /\ overlapped = FALSE

UnderWay(d) == dl[d].pc \in {"asked", "request", "create", "stream", "rename",
                             "unwind", "ending"}
MoveTo(d, pc) == dl' = [dl EXCEPT ![d].pc = pc]
EndsWith(d, pc, result) == dl' = [dl EXCEPT ![d].pc = pc, ![d].result = result]
RoomFor(n) == Len(events) + n <= MaxEvents

-----------------------------------------------------------------------------
(* What the user does.  A file shown as downloading has a Cancel button,   *)
(* and any other one a Download button.                                    *)

\* requestDownload and confirmDownload (the dialog that asks about too little
\* RAM comes in between): the entry is seeded and download_model invoked.
RequestDownload ==
  \E d \in Downloads :
    /\ ~entry
    /\ dl[d].pc = "none" /\ \A c \in 1 .. d - 1 : dl[c].pc # "none"
    /\ dl' = [dl EXCEPT ![d].pc = "asked"]
    /\ entry' = TRUE
    /\ overlapped' = (overlapped \/ \E c \in Downloads : UnderWay(c))
    /\ UNCHANGED <<flagSlot, diskVars, cancelCall, events>>

ClickCancel ==
  /\ entry /\ cancelCall = "no"
  /\ cancelCall' = "called"
  /\ UNCHANGED <<dl, flagSlot, diskVars, entry, events, overlapped>>

DeleteModel ==
  /\ final # 0
  /\ final' = 0
  /\ UNCHANGED <<dl, flagSlot, content, part, import, storeVars, events>>

\* import_model copies onto the final path itself, over what is there.
BeginImport ==
  /\ ~import.copying
  /\ LET inode == IF final # 0 THEN final ELSE ImportInode IN
       /\ content' = [content EXCEPT ![inode] = {}]
       /\ final' = inode
       /\ import' = [copying |-> TRUE, inode |-> inode]
  /\ UNCHANGED <<dl, flagSlot, part, storeVars, events>>

\* A copy that fails leaves what it has written.
EndImport ==
  /\ import.copying
  /\ import' = [import EXCEPT !.copying = FALSE]
  /\ \/ content' = [content EXCEPT ![import.inode] = AllChunks]
     \/ UNCHANGED content
  /\ UNCHANGED <<dl, flagSlot, part, final, storeVars, events>>

-----------------------------------------------------------------------------
(* download_model and run_download, cut at every await.                    *)

RegisterDownload(d) ==
  /\ dl[d].pc = "asked"
  /\ flagSlot' = d
  /\ MoveTo(d, "request")
  /\ UNCHANGED <<diskVars, storeVars, events>>

\* The response is in: a bad one, or one too large for the disk, ends the
\* download before it owns a part file.
Respond(d) ==
  /\ dl[d].pc = "request"
  /\ MoveTo(d, "create") \/ EndsWith(d, "ending", "error")
  /\ UNCHANGED <<flagSlot, diskVars, storeVars, events>>

\* File::create truncates what it finds.
CreatePart(d) ==
  /\ dl[d].pc = "create"
  /\ LET inode == IF part # 0 THEN part ELSE d IN
       /\ dl' = [dl EXCEPT ![d].pc = "stream", ![d].inode = inode]
       /\ part' = inode
       /\ content' = [content EXCEPT ![inode] = {}]
  /\ UNCHANGED <<flagSlot, final, import, storeVars, events>>

\* The guard exists before the file is created.
CreateFails(d) ==
  /\ dl[d].pc = "create"
  /\ EndsWith(d, "unwind", "error")
  /\ UNCHANGED <<flagSlot, diskVars, storeVars, events>>

\* The flag is looked at when a chunk, or an error, arrives: a cancelled
\* download removes the part file, and its guard does so again.
SeeCancel(d) ==
  /\ dl[d].pc = "stream" /\ dl[d].flag /\ dl[d].got < Chunks
  /\ part' = 0
  /\ EndsWith(d, "unwind", "cancelled")
  /\ UNCHANGED <<flagSlot, content, final, import, storeVars, events>>

\* A chunk is written; every MiB of them is reported.
WriteChunk(d) ==
  /\ dl[d].pc = "stream" /\ ~dl[d].flag /\ dl[d].got < Chunks
  /\ dl' = [dl EXCEPT ![d].got = @ + 1]
  /\ content' = [content EXCEPT ![dl[d].inode] = @ \cup {dl[d].got + 1}]
  /\ \/ RoomFor(1) /\ events' = Append(events, "progress")
     \/ UNCHANGED events
  /\ UNCHANGED <<flagSlot, part, final, import, storeVars>>

StreamFails(d) ==
  /\ dl[d].pc = "stream"
  /\ ~dl[d].flag \/ dl[d].got = Chunks
  /\ EndsWith(d, "unwind", "error")
  /\ UNCHANGED <<flagSlot, diskVars, storeVars, events>>

\* The end of the stream; a slip takes a stream that was cut off for one.
EndOfAnyStream(d) == dl[d].got > 0
EndOfStream(d) == dl[d].got = Chunks

Flush(d) ==
  /\ dl[d].pc = "stream" /\ EndOfStream(d)
  /\ MoveTo(d, "rename")
  /\ UNCHANGED <<flagSlot, diskVars, storeVars, events>>

\* The part file is moved into place and reported at 100%.
Rename(d) ==
  /\ dl[d].pc = "rename" /\ part # 0 /\ RoomFor(1)
  /\ final' = part /\ part' = 0
  /\ EndsWith(d, "ending", "ok")
  /\ events' = Append(events, "progress")
  /\ UNCHANGED <<flagSlot, content, import, storeVars>>

RenameFails(d) ==
  /\ dl[d].pc = "rename"
  /\ EndsWith(d, "unwind", "error")
  /\ UNCHANGED <<flagSlot, diskVars, storeVars, events>>

\* PartFileGuard::drop: whatever file has the path; a slip cleans up on
\* cancellation only.
CleanedUpCancelled(d) == IF dl[d].result = "cancelled" THEN 0 ELSE part
CleanedUp(d) == 0

Unwind(d) ==
  /\ dl[d].pc = "unwind"
  /\ part' = CleanedUp(d)
  /\ MoveTo(d, "ending")
  /\ UNCHANGED <<flagSlot, content, final, import, storeVars, events>>

\* The slips: the flag is removed only on success; the outcome overtakes the
\* events that are still on their way.
DeregisteredIfOk(d) == IF dl[d].result = "ok" THEN 0 ELSE flagSlot
Deregistered(d) == 0
ReportedFirst(kind) == <<kind>> \o events
Reported(kind) == Append(events, kind)

\* A cancelled download is reported as an error; the slip has an event for it
\* that nobody listens to.
OutcomeOfItsOwn(d) == IF dl[d].result = "ok" THEN "complete" ELSE dl[d].result
Outcome(d) == IF dl[d].result = "ok" THEN "complete" ELSE "error"

\* Deregister, emit the outcome and return.
Deregister(d) ==
  /\ dl[d].pc = "ending" /\ RoomFor(1)
  /\ flagSlot' = Deregistered(d)
  /\ MoveTo(d, IF dl[d].result = "ok" THEN "over" ELSE "reject")
  /\ events' = Reported(Outcome(d))
  /\ UNCHANGED <<diskVars, storeVars>>

\* cancel_download.
ServeCancel ==
  /\ cancelCall = "called"
  /\ cancelCall' = "answered"
  /\ dl' = [d \in Downloads |-> IF d = flagSlot THEN [dl[d] EXCEPT !.flag = TRUE] ELSE dl[d]]
  /\ UNCHANGED <<flagSlot, diskVars, entry, events, overlapped>>

-----------------------------------------------------------------------------
(* What reaches the store: the entry is the file's, not the download's.    *)

OnEvent ==
  /\ events # <<>>
  /\ events' = Tail(events)
  /\ entry' = (Head(events) = "progress")
  /\ UNCHANGED <<dl, flagSlot, diskVars, cancelCall, overlapped>>

OnRejection(d) ==
  /\ dl[d].pc = "reject"
  /\ entry' = FALSE
  /\ MoveTo(d, "over")
  /\ UNCHANGED <<flagSlot, diskVars, cancelCall, events, overlapped>>

OnCancelled ==
  /\ cancelCall = "answered"
  /\ cancelCall' = "no" /\ entry' = FALSE
  /\ UNCHANGED <<dl, flagSlot, diskVars, events, overlapped>>

\* The app dies and comes back: no guard runs, and the disk stays as it is.
AppCrashes ==
  /\ \E d \in Downloads : UnderWay(d)
  /\ dl' = [d \in Downloads |-> IF UnderWay(d) THEN [dl[d] EXCEPT !.pc = "crashed"]
                                 ELSE IF dl[d].pc = "reject" THEN [dl[d] EXCEPT !.pc = "over"]
                                 ELSE dl[d]]
  /\ flagSlot' = 0 /\ entry' = FALSE /\ cancelCall' = "no"
  /\ events' = <<>>
  /\ import' = [import EXCEPT !.copying = FALSE]
  /\ UNCHANGED <<content, part, final, overlapped>>

UserStep ==
  \/ RequestDownload \/ ClickCancel \/ DeleteModel \/ BeginImport

DownloadStep(d) ==
  \/ RegisterDownload(d) \/ Respond(d) \/ CreatePart(d) \/ CreateFails(d)
  \/ SeeCancel(d) \/ WriteChunk(d) \/ StreamFails(d) \/ Flush(d)
  \/ Rename(d) \/ RenameFails(d) \/ Unwind(d) \/ Deregister(d) \/ OnRejection(d)

DownloadsNext ==
  \/ UserStep \/ EndImport \/ ServeCancel \/ OnEvent \/ OnCancelled \/ AppCrashes
  \/ \E d \in Downloads : DownloadStep(d)

DownloadsSpec == DownloadsInit /\ [][DownloadsNext]_downloadVars

-----------------------------------------------------------------------------
(* What the code guarantees.                                               *)

\* "A failed download never leaves an orphaned partial file behind": while a
\* part file exists, a download that will remove or rename it is under way, or
\* one died with the app, however many of them share the path.
NoOrphanPart ==
  part # 0 =>
    \E d \in Downloads : dl[d].pc \in {"stream", "rename", "unwind", "crashed"}

\* "An interrupted download never looks complete", as long as no download is
\* begun while another one of that name is under way: only an import can leave
\* a part of a file under the final name.
CompleteOnly ==
  ~overlapped =>
    final = 0 \/ content[final] = AllChunks \/ final = import.inode

\* A download that has registered can be cancelled until it ends, under the
\* same condition: the slot holds its flag and nobody else's.
Cancellable ==
  ~overlapped =>
    \A d \in Downloads :
      dl[d].pc \in {"request", "create", "stream", "rename", "unwind", "ending"}
        <=> flagSlot = d

\* When the last download is over and its events have arrived, the file is no
\* longer shown as downloading, whatever cancels, late progress and errors of
\* several downloads crossed each other.
NoGhostEntry ==
  entry => \/ events # <<>>
           \/ \E d \in Downloads : UnderWay(d)

\* What cancels, retries, failures and crashes leave behind: no part of a file
\* that nobody finishes, nothing that looks complete and is not, nothing that is
\* shown and not under way.
DownloadsSafe == NoOrphanPart /\ CompleteOnly /\ Cancellable /\ NoGhostEntry

\* The comment without its condition: a download that was cancelled and begun
\* again still shares the part file with the one it replaces.
NeverLooksComplete ==
  final = 0 \/ content[final] = AllChunks \/ final = import.inode
=============================================================================
