--------------------------- MODULE MCFiles_proofs ---------------------------
(***************************************************************************)
(* Proofs about what keeps files and lists on the user's behalf: downloads,*)
(* the model search, the list of MCP servers, the boundary of the edits,   *)
(* an open file with its editors, and the configurations of projects; for  *)
(* any number of each, and any bounds.                                     *)
(***************************************************************************)
EXTENDS MCFiles, FiniteSetTheorems, SequenceTheorems, TLAPS

-----------------------------------------------------------------------------
(* Sequences.                                                              *)

\* What is left of a sequence when its first element is taken.
LEMMA Rest ==
  ASSUME NEW S, NEW s \in Seq(S), s # <<>>
  PROVE  /\ Len(s) \in Nat \ {0} /\ Head(s) = s[1] /\ s[1] \in S
         /\ Tail(s) \in Seq(S) /\ Len(Tail(s)) = Len(s) - 1
         /\ \A k \in 1 .. Len(s) - 1 : Tail(s)[k] = s[k + 1]
BY HeadTailProperties, EmptySeq

\* A sequence and what is added at its end.
LEMMA Longer ==
  ASSUME NEW S, NEW s \in Seq(S), NEW e \in S
  PROVE  /\ Append(s, e) \in Seq(S) /\ Len(Append(s, e)) = Len(s) + 1
         /\ Append(s, e) # <<>> /\ Append(s, e)[Len(s) + 1] = e
         /\ \A k \in 1 .. Len(s) : Append(s, e)[k] = s[k]
OBVIOUS

\* What is left of a sequence when one element leaves it.
LEMMA Shorter ==
  ASSUME NEW S, NEW s \in Seq(S), NEW i \in 1 .. Len(s)
  PROVE  /\ RemoveAt(s, i) \in Seq(S)
         /\ Len(RemoveAt(s, i)) = Len(s) - 1
         /\ \A k \in 1 .. Len(s) - 1 : RemoveAt(s, i)[k] = s[IF k < i THEN k ELSE k + 1]
<1> DEFINE before == SubSeq(s, 1, i - 1)  after == SubSeq(s, i + 1, Len(s))
<1>1. before \in Seq(S) /\ Len(before) = i - 1 /\ \A k \in 1 .. i - 1 : before[k] = s[k]
  OBVIOUS
<1>2. after \in Seq(S) /\ Len(after) = Len(s) - i /\ \A k \in 1 .. Len(s) - i : after[k] = s[i + k]
  OBVIOUS
<1>3. RemoveAt(s, i) = before \o after
  BY DEF RemoveAt
<1> HIDE DEF before, after
<1>4. (before \o after) \in Seq(S) /\ Len(before \o after) = Len(s) - 1
  BY <1>1, <1>2
<1>5. ASSUME NEW k \in 1 .. Len(s) - 1
      PROVE  (before \o after)[k] = s[IF k < i THEN k ELSE k + 1]
  <2>1. CASE k < i
    BY <1>1, <1>2, <2>1
  <2>2. CASE ~(k < i)
    <3>1. (before \o after)[k] = after[k - (i - 1)] /\ k - (i - 1) \in 1 .. Len(s) - i
      BY <1>1, <1>2, <2>2
    <3> QED
      BY <1>2, <2>2, <3>1
  <2> QED
    BY <2>1, <2>2
<1> QED
  BY <1>3, <1>4, <1>5

-----------------------------------------------------------------------------
(* Downloads.                                                              *)

\* A download that has not created its file has received nothing, and no file has
\* the identity that would be its own.
Unborn ==
  \A d \in Downloads : dl[d].pc \in {"none", "asked", "request", "create"} =>
    dl[d].got = 0 /\ d # part /\ d # final /\ d # import.inode

\* The part file is a download's, and is neither the finished file nor the import's.
PartApart == part # 0 => part \in Downloads /\ part # final /\ part # import.inode

\* Unless one was begun while another was under way, there is one download at a time.
OneAtATime ==
  ~overlapped => \A c, d \in Downloads : UnderWay(c) /\ UnderWay(d) => c = d

\* Its part file then has what it received.
PartIsItsOwn ==
  ~overlapped => \A d \in Downloads :
    /\ dl[d].pc = "stream" =>
         part # 0 /\ part = dl[d].inode /\ content[part] = 1 .. dl[d].got
    /\ dl[d].pc = "rename" => part # 0 /\ content[part] = AllChunks

\* When the last news is of progress, a download is under way.
ProgressIsReal ==
  events # <<>> /\ events[Len(events)] = "progress" => \E d \in Downloads : UnderWay(d)

DownloadsInv ==
  DownloadsTypeOK /\ Unborn /\ PartApart /\ OneAtATime /\ PartIsItsOwn /\ ProgressIsReal
  /\ DownloadsSafe

LEMMA DownloadMoves ==
  ASSUME DownloadsTypeOK, NEW d \in Downloads, NEW pc \in DownloadStates
  PROVE  /\ [dl EXCEPT ![d].pc = pc] \in [Downloads -> Download]
         /\ \A result \in {"ok", "error", "cancelled"} :
              [dl EXCEPT ![d].pc = pc, ![d].result = result] \in [Downloads -> Download]
         /\ \A i \in 0 .. ImportInode :
              [dl EXCEPT ![d].pc = pc, ![d].inode = i] \in [Downloads -> Download]
         /\ \A n \in 0 .. Chunks : [dl EXCEPT ![d].got = n] \in [Downloads -> Download]
<1>1. dl[d] \in Download /\ dl \in [Downloads -> Download]
  BY DEF DownloadsTypeOK
<1> QED
  BY <1>1 DEF Download


LEMMA DownloadsTypeStep ==
  ASSUME DownloadsTypeOK, [DownloadsNext]_downloadVars PROVE DownloadsTypeOK'
<1>1. CASE UserStep \/ EndImport \/ ServeCancel \/ OnEvent \/ OnCancelled \/ AppCrashes
  <2>1. dl' \in [Downloads -> Download]
    <3>1. ASSUME NEW d \in Downloads PROVE dl[d] \in Download /\ [dl[d] EXCEPT !.flag = TRUE] \in Download
      BY DEF DownloadsTypeOK, Download
    <3>2. ASSUME NEW d \in Downloads, NEW pc \in {"crashed", "over"} PROVE [dl[d] EXCEPT !.pc = pc] \in Download
      BY DEF DownloadsTypeOK, Download, DownloadStates
    <3>3. CASE RequestDownload
      <4>1. PICK d \in Downloads : dl' = [dl EXCEPT ![d].pc = "asked"]
        BY <3>3 DEF RequestDownload
      <4> QED
        BY <4>1, DownloadMoves DEF DownloadStates
    <3>4. CASE ServeCancel
      BY <3>1, <3>4 DEF ServeCancel
    <3>5. CASE AppCrashes
      BY <3>1, <3>2, <3>5 DEF AppCrashes
    <3>6. CASE dl' = dl
      BY <3>6 DEF DownloadsTypeOK
    <3> QED
      BY <1>1, <3>3, <3>4, <3>5, <3>6 DEF UserStep, ClickCancel, DeleteModel, BeginImport,
                                         EndImport, OnEvent, OnCancelled
  <2>2. events' \in Seq({"progress", "complete", "error"})
    <3>1. CASE OnEvent
      BY <3>1 DEF OnEvent, DownloadsTypeOK
    <3>2. CASE AppCrashes
      BY <3>2 DEF AppCrashes
    <3>3. CASE events' = events
      BY <3>3 DEF DownloadsTypeOK
    <3> QED
      BY <1>1, <3>1, <3>2, <3>3 DEF UserStep, RequestDownload, ClickCancel, DeleteModel, BeginImport,
                               EndImport, ServeCancel, OnCancelled
  <2>3. /\ part' \in 0 .. ImportInode /\ final' \in 0 .. ImportInode
        /\ flagSlot' \in 0 .. MaxDownloads
    BY <1>1, DownloadConstants DEF UserStep, RequestDownload, ClickCancel, DeleteModel, BeginImport,
       EndImport, ServeCancel, OnEvent, OnCancelled, AppCrashes, DownloadsTypeOK, diskVars, storeVars, ImportInode
  <2>4. content' \in [PartInodes -> SUBSET AllChunks]
    <3>1. content \in [PartInodes -> SUBSET AllChunks]
      BY DEF DownloadsTypeOK
    <3>2. CASE BeginImport
      BY <3>1, <3>2 DEF BeginImport
    <3>3. CASE EndImport
      BY <3>1, <3>3 DEF EndImport
    <3> QED
      BY <1>1, <3>1, <3>2, <3>3 DEF UserStep, RequestDownload, ClickCancel, DeleteModel,
         ServeCancel, OnEvent, OnCancelled, AppCrashes, diskVars
  <2>6. import' \in [copying : BOOLEAN, inode : 0 .. ImportInode]
    <3>1. ImportInode \in 0 .. ImportInode
      BY DownloadConstants DEF ImportInode
    <3>2. import \in [copying : BOOLEAN, inode : 0 .. ImportInode] /\ final \in 0 .. ImportInode
      BY DEF DownloadsTypeOK
    <3>3. CASE BeginImport
      BY <3>1, <3>2, <3>3 DEF BeginImport
    <3>4. CASE EndImport \/ AppCrashes
      BY <3>2, <3>4 DEF EndImport, AppCrashes
    <3> QED
      BY <1>1, <3>2, <3>3, <3>4 DEF UserStep, RequestDownload, ClickCancel, DeleteModel,
         ServeCancel, OnEvent, OnCancelled, diskVars
  <2>5. entry' \in BOOLEAN /\ overlapped' \in BOOLEAN /\ cancelCall' \in {"no", "called", "answered"}
    BY <1>1 DEF UserStep, RequestDownload, ClickCancel, DeleteModel, BeginImport,
       EndImport, ServeCancel, OnEvent, OnCancelled, AppCrashes, DownloadsTypeOK, storeVars
  <2> QED
    BY <2>1, <2>2, <2>3, <2>4, <2>5, <2>6 DEF DownloadsTypeOK
<1>2. ASSUME NEW d \in Downloads, DownloadStep(d) PROVE DownloadsTypeOK'
  <2>1. dl' \in [Downloads -> Download]
    <3>1. d \in 0 .. ImportInode /\ part \in 0 .. ImportInode
      BY DownloadConstants DEF DownloadsTypeOK, Downloads, ImportInode
    <3>2. dl[d].got \in 0 .. Chunks
      BY DEF DownloadsTypeOK, Download
    <3>3. CASE WriteChunk(d)
      <4>1. dl[d].got + 1 \in 0 .. Chunks
        BY <3>2, <3>3, DownloadConstants DEF WriteChunk
      <4>2. dl' = [dl EXCEPT ![d].got = dl[d].got + 1]
        BY <3>3 DEF WriteChunk
      <4> QED
        BY <4>1, <4>2, DownloadMoves DEF DownloadStates
    <3>4. CASE CreatePart(d)
      BY <3>1, <3>4, DownloadMoves DEF CreatePart, DownloadStates
    <3>5. ASSUME NEW pc \in DownloadStates, MoveTo(d, pc) PROVE dl' \in [Downloads -> Download]
      BY <3>5, DownloadMoves DEF MoveTo
    <3>6. ASSUME NEW pc \in DownloadStates, NEW result \in {"ok", "error", "cancelled"},
                 EndsWith(d, pc, result)
          PROVE  dl' \in [Downloads -> Download]
      BY <3>6, DownloadMoves DEF EndsWith
    <3> QED
      BY <1>2, <3>3, <3>4, <3>5, <3>6 DEF DownloadStep, RegisterDownload, Respond, CreateFails,
         SeeCancel, StreamFails, Flush, Rename, RenameFails, Unwind, Deregister, OnRejection,
         DownloadStates
  <2>2. events' \in Seq({"progress", "complete", "error"})
    <3>1. events \in Seq({"progress", "complete", "error"})
      BY DEF DownloadsTypeOK
    <3>2. CASE Deregister(d)
      BY <3>1, <3>2 DEF Deregister, Reported, Outcome
    <3> QED
      BY <1>2, <3>1, <3>2 DEF DownloadStep, RegisterDownload, Respond, CreatePart, CreateFails,
         SeeCancel, WriteChunk, StreamFails, Flush, Rename, RenameFails, Unwind, OnRejection
  <2>3. /\ part' \in 0 .. ImportInode /\ final' \in 0 .. ImportInode
        /\ flagSlot' \in 0 .. MaxDownloads
    BY <1>2, DownloadConstants DEF DownloadStep, RegisterDownload, Respond, CreatePart, CreateFails,
       SeeCancel, WriteChunk, StreamFails, Flush, Rename, RenameFails, Unwind, Deregister, OnRejection,
       CleanedUp, Deregistered, DownloadsTypeOK, diskVars, Downloads, ImportInode
  <2>4. content' \in [PartInodes -> SUBSET AllChunks] /\ import' = import
    <3>1. dl[d].got \in 0 .. Chunks
      BY DEF DownloadsTypeOK, Download
    <3>2. CASE WriteChunk(d)
      <4>1. dl[d].got + 1 \in AllChunks
        BY <3>1, <3>2, DownloadConstants DEF WriteChunk, AllChunks
      <4>2. content' = [content EXCEPT ![dl[d].inode] = @ \cup {dl[d].got + 1}]
        BY <3>2 DEF WriteChunk
      <4>3. content \in [PartInodes -> SUBSET AllChunks] /\ import' = import
        BY <3>2 DEF WriteChunk, DownloadsTypeOK
      <4> QED
        BY <4>1, <4>2, <4>3
    <3> QED
      BY <1>2, <3>2 DEF DownloadStep, RegisterDownload, Respond, CreatePart, CreateFails,
         SeeCancel, StreamFails, Flush, Rename, RenameFails, Unwind, Deregister, OnRejection,
         DownloadsTypeOK, diskVars
  <2>5. entry' \in BOOLEAN /\ overlapped' = overlapped /\ cancelCall' = cancelCall
    BY <1>2 DEF DownloadStep, RegisterDownload, Respond, CreatePart, CreateFails,
       SeeCancel, WriteChunk, StreamFails, Flush, Rename, RenameFails, Unwind, Deregister, OnRejection,
       DownloadsTypeOK, storeVars
  <2> QED
    BY <2>1, <2>2, <2>3, <2>4, <2>5 DEF DownloadsTypeOK
<1>3. CASE UNCHANGED downloadVars
  BY <1>3 DEF downloadVars, DownloadsTypeOK
<1> QED
  BY <1>1, <1>2, <1>3 DEF DownloadsNext

LEMMA DownloadsStep ==
  ASSUME DownloadsInv, [DownloadsNext]_downloadVars PROVE DownloadsInv'
<1>0. DownloadsTypeOK'
  BY DownloadsTypeStep DEF DownloadsInv
<1> USE DownloadConstants DEF DownloadsInv, DownloadsSafe, DownloadsTypeOK, Download, Downloads,
                              ImportInode, PartInodes
<1>1. CASE RequestDownload
  <2>1. Unborn' /\ PartApart'
    BY <1>1 DEF RequestDownload, Unborn, PartApart, diskVars, UnderWay
  <2>2. OneAtATime' /\ Cancellable'
    <3>1. PICK d \in Downloads : /\ dl[d].pc = "none" /\ dl' = [dl EXCEPT ![d].pc = "asked"]
                                 /\ overlapped' = (overlapped \/ \E c \in Downloads : UnderWay(c))
      BY <1>1 DEF RequestDownload
    <3>2. flagSlot' = flagSlot
      BY <1>1 DEF RequestDownload
    <3>3. OneAtATime'
      BY <3>1 DEF OneAtATime, UnderWay
    <3> QED
      BY <3>1, <3>2, <3>3 DEF Cancellable
  <2>3. PartIsItsOwn'
    BY <1>1 DEF RequestDownload, PartIsItsOwn, Unborn, PartApart, OneAtATime,
       UnderWay, diskVars, AllChunks
  <2>4. ProgressIsReal' /\ NoGhostEntry'
    BY <1>1 DEF RequestDownload, ProgressIsReal, NoGhostEntry, UnderWay, diskVars
  <2>5. NoOrphanPart' /\ CompleteOnly'
    BY <1>1 DEF RequestDownload, NoOrphanPart, CompleteOnly, PartIsItsOwn, PartApart,
       Unborn, diskVars, UnderWay, AllChunks
  <2> QED
    BY <1>0, <2>1, <2>2, <2>3, <2>4, <2>5
<1>2. CASE ClickCancel
  <2>1. Unborn' /\ PartApart'
    BY <1>2 DEF ClickCancel, Unborn, PartApart, diskVars
  <2>2. OneAtATime' /\ Cancellable'
    BY <1>2 DEF ClickCancel, OneAtATime, Cancellable, UnderWay, diskVars
  <2>3. PartIsItsOwn'
    BY <1>2 DEF ClickCancel, PartIsItsOwn, Unborn, PartApart, OneAtATime, UnderWay,
       diskVars, AllChunks
  <2>4. ProgressIsReal' /\ NoGhostEntry'
    BY <1>2 DEF ClickCancel, ProgressIsReal, NoGhostEntry, UnderWay, diskVars
  <2>5. NoOrphanPart' /\ CompleteOnly'
    BY <1>2 DEF ClickCancel, NoOrphanPart, CompleteOnly, PartIsItsOwn, PartApart,
       Unborn, diskVars, AllChunks
  <2> QED
    BY <1>0, <2>1, <2>2, <2>3, <2>4, <2>5
<1>3. CASE DeleteModel
  <2>1. Unborn' /\ PartApart'
    BY <1>3 DEF DeleteModel, Unborn, PartApart, storeVars
  <2>2. OneAtATime' /\ Cancellable'
    BY <1>3 DEF DeleteModel, OneAtATime, Cancellable, UnderWay, storeVars
  <2>3. PartIsItsOwn'
    BY <1>3 DEF DeleteModel, PartIsItsOwn, Unborn, PartApart, OneAtATime, UnderWay,
       storeVars, AllChunks
  <2>4. ProgressIsReal' /\ NoGhostEntry'
    BY <1>3 DEF DeleteModel, ProgressIsReal, NoGhostEntry, UnderWay, storeVars
  <2>5. NoOrphanPart' /\ CompleteOnly'
    BY <1>3 DEF DeleteModel, NoOrphanPart, CompleteOnly, PartIsItsOwn, PartApart,
       Unborn, storeVars, AllChunks
  <2> QED
    BY <1>0, <2>1, <2>2, <2>3, <2>4, <2>5
<1>4. CASE BeginImport
  <2>1. Unborn' /\ PartApart'
    BY <1>4 DEF BeginImport, Unborn, PartApart, storeVars
  <2>2. OneAtATime' /\ Cancellable'
    BY <1>4 DEF BeginImport, OneAtATime, Cancellable, UnderWay, storeVars
  <2>3. PartIsItsOwn'
    BY <1>4 DEF BeginImport, PartIsItsOwn, Unborn, PartApart, OneAtATime, UnderWay,
       storeVars, AllChunks
  <2>4. ProgressIsReal' /\ NoGhostEntry'
    BY <1>4 DEF BeginImport, ProgressIsReal, NoGhostEntry, UnderWay, storeVars
  <2>5. NoOrphanPart' /\ CompleteOnly'
    BY <1>4 DEF BeginImport, NoOrphanPart, CompleteOnly, PartIsItsOwn, PartApart,
       Unborn, storeVars, AllChunks
  <2> QED
    BY <1>0, <2>1, <2>2, <2>3, <2>4, <2>5
<1>5. CASE EndImport
  <2>1. Unborn' /\ PartApart'
    BY <1>5 DEF EndImport, Unborn, PartApart, storeVars, AllChunks
  <2>2. OneAtATime' /\ Cancellable'
    BY <1>5 DEF EndImport, OneAtATime, Cancellable, UnderWay, storeVars, AllChunks
  <2>3. PartIsItsOwn'
    BY <1>5 DEF EndImport, PartIsItsOwn, Unborn, PartApart, OneAtATime, UnderWay,
       storeVars, AllChunks
  <2>4. ProgressIsReal' /\ NoGhostEntry'
    BY <1>5 DEF EndImport, ProgressIsReal, NoGhostEntry, UnderWay, storeVars,
       AllChunks
  <2>5. NoOrphanPart' /\ CompleteOnly'
    BY <1>5 DEF EndImport, NoOrphanPart, CompleteOnly, PartIsItsOwn, PartApart,
       Unborn, storeVars, AllChunks
  <2> QED
    BY <1>0, <2>1, <2>2, <2>3, <2>4, <2>5
<1>6. CASE ServeCancel
  <2>1. Unborn' /\ PartApart'
    BY <1>6 DEF ServeCancel, Unborn, PartApart, diskVars
  <2>2. OneAtATime' /\ Cancellable'
    BY <1>6 DEF ServeCancel, OneAtATime, Cancellable, UnderWay, diskVars
  <2>3. PartIsItsOwn'
    BY <1>6 DEF ServeCancel, PartIsItsOwn, Unborn, PartApart, OneAtATime, UnderWay,
       diskVars, AllChunks
  <2>4. ProgressIsReal' /\ NoGhostEntry'
    BY <1>6 DEF ServeCancel, ProgressIsReal, NoGhostEntry, UnderWay, diskVars
  <2>5. NoOrphanPart' /\ CompleteOnly'
    BY <1>6 DEF ServeCancel, NoOrphanPart, CompleteOnly, PartIsItsOwn, PartApart,
       Unborn, diskVars, AllChunks
  <2> QED
    BY <1>0, <2>1, <2>2, <2>3, <2>4, <2>5
<1>7. CASE OnEvent
  <2>1. Unborn' /\ PartApart'
    BY <1>7 DEF OnEvent, Unborn, PartApart, diskVars
  <2>2. OneAtATime' /\ Cancellable'
    BY <1>7 DEF OnEvent, OneAtATime, Cancellable, UnderWay, diskVars
  <2>3. PartIsItsOwn'
    BY <1>7 DEF OnEvent, PartIsItsOwn, Unborn, PartApart, OneAtATime, UnderWay,
       diskVars, AllChunks
  <2>4. ProgressIsReal' /\ NoGhostEntry'
    <3>1. /\ events \in Seq({"progress", "complete", "error"}) /\ events # <<>>
          /\ events' = Tail(events) /\ dl' = dl
      BY <1>7 DEF OnEvent
    <3>2. CASE Len(events) = 1
      <4>1. events' = <<>> /\ entry' = (events[Len(events)] = "progress")
        BY <1>7, <3>1, <3>2, Rest DEF OnEvent
      <4> QED
        BY <3>1, <4>1 DEF ProgressIsReal, NoGhostEntry, UnderWay
    <3>3. CASE Len(events) # 1
      <4>1. /\ Len(events') = Len(events) - 1 /\ Len(events) > 1
            /\ events'[Len(events')] = events[Len(events)]
        <5>1. /\ Len(events) \in Nat \ {0} /\ Len(Tail(events)) = Len(events) - 1
              /\ \A k \in 1 .. Len(events) - 1 : Tail(events)[k] = events[k + 1]
          BY ONLY <3>1, Rest
        <5>2. Len(events) - 1 \in 1 .. Len(events) - 1
          BY <3>3, <5>1
        <5> QED
          BY <3>1, <5>1, <5>2
      <4>2. events' # <<>>
        BY <4>1
      <4> QED
        BY <3>1, <4>1, <4>2 DEF ProgressIsReal, NoGhostEntry, UnderWay
    <3> QED
      BY <3>2, <3>3
  <2>5. NoOrphanPart' /\ CompleteOnly'
    BY <1>7 DEF OnEvent, NoOrphanPart, CompleteOnly, PartIsItsOwn, PartApart, Unborn,
       diskVars, AllChunks
  <2> QED
    BY <1>0, <2>1, <2>2, <2>3, <2>4, <2>5
<1>8. CASE OnCancelled
  <2>1. Unborn' /\ PartApart'
    BY <1>8 DEF OnCancelled, Unborn, PartApart, diskVars
  <2>2. OneAtATime' /\ Cancellable'
    BY <1>8 DEF OnCancelled, OneAtATime, Cancellable, UnderWay, diskVars
  <2>3. PartIsItsOwn'
    BY <1>8 DEF OnCancelled, PartIsItsOwn, Unborn, PartApart, OneAtATime, UnderWay,
       diskVars, AllChunks
  <2>4. ProgressIsReal' /\ NoGhostEntry'
    BY <1>8 DEF OnCancelled, ProgressIsReal, NoGhostEntry, UnderWay, diskVars
  <2>5. NoOrphanPart' /\ CompleteOnly'
    BY <1>8 DEF OnCancelled, NoOrphanPart, CompleteOnly, PartIsItsOwn, PartApart,
       Unborn, diskVars, AllChunks
  <2> QED
    BY <1>0, <2>1, <2>2, <2>3, <2>4, <2>5
<1>9. CASE AppCrashes
  <2>1. Unborn' /\ PartApart'
    BY <1>9 DEF AppCrashes, Unborn, PartApart, UnderWay
  <2>2. OneAtATime' /\ Cancellable'
    BY <1>9 DEF AppCrashes, OneAtATime, Cancellable, UnderWay
  <2>3. PartIsItsOwn'
    BY <1>9 DEF AppCrashes, PartIsItsOwn, Unborn, PartApart, OneAtATime, UnderWay,
       AllChunks
  <2>4. ProgressIsReal' /\ NoGhostEntry'
    BY <1>9 DEF AppCrashes, ProgressIsReal, NoGhostEntry, UnderWay
  <2>5. NoOrphanPart' /\ CompleteOnly'
    BY <1>9 DEF AppCrashes, NoOrphanPart, CompleteOnly, PartIsItsOwn, PartApart,
       Unborn, UnderWay, AllChunks
  <2> QED
    BY <1>0, <2>1, <2>2, <2>3, <2>4, <2>5
<1>10. ASSUME NEW d \in Downloads, RegisterDownload(d) PROVE DownloadsInv'
  <2>1. Unborn' /\ PartApart'
    BY <1>10 DEF RegisterDownload, Unborn, PartApart, MoveTo, diskVars, storeVars
  <2>2. OneAtATime' /\ Cancellable'
    BY <1>10 DEF RegisterDownload, OneAtATime, Cancellable, UnderWay, MoveTo,
       diskVars, storeVars
  <2>3. PartIsItsOwn'
    BY <1>10 DEF RegisterDownload, PartIsItsOwn, Unborn, PartApart, OneAtATime,
       UnderWay, MoveTo, diskVars, storeVars, AllChunks
  <2>4. ProgressIsReal' /\ NoGhostEntry'
    BY <1>10 DEF RegisterDownload, ProgressIsReal, NoGhostEntry, UnderWay, MoveTo,
       diskVars, storeVars
  <2>5. NoOrphanPart' /\ CompleteOnly'
    BY <1>10 DEF RegisterDownload, NoOrphanPart, CompleteOnly, PartIsItsOwn,
       PartApart, Unborn, MoveTo, diskVars, storeVars, AllChunks
  <2> QED
    BY <1>0, <2>1, <2>2, <2>3, <2>4, <2>5
<1>11. ASSUME NEW d \in Downloads, Respond(d) PROVE DownloadsInv'
  <2>1. Unborn' /\ PartApart'
    <3>1. /\ dl'[d].pc \in {"create", "ending"} /\ dl'[d].got = dl[d].got
          /\ dl[d].pc = "request" /\ \A c \in Downloads : c # d => dl'[c] = dl[c]
          /\ part' = part /\ final' = final /\ import' = import
      BY <1>11 DEF Respond, MoveTo, EndsWith, diskVars
    <3> QED
      BY <3>1 DEF Unborn, PartApart
  <2>2. OneAtATime' /\ Cancellable'
    <3>1. /\ dl'[d].pc \in {"create", "ending"} /\ \A c \in Downloads : c # d => dl'[c] = dl[c]
          /\ dl[d].pc = "request" /\ flagSlot' = flagSlot /\ overlapped' = overlapped
      BY <1>11 DEF Respond, MoveTo, EndsWith, storeVars
    <3> QED
      BY <3>1 DEF OneAtATime, Cancellable, UnderWay
  <2>3. PartIsItsOwn'
    <3>1. /\ dl'[d].pc \in {"create", "ending"} /\ \A c \in Downloads : c # d => dl'[c] = dl[c]
          /\ part' = part /\ content' = content /\ overlapped' = overlapped
      BY <1>11 DEF Respond, MoveTo, EndsWith, diskVars, storeVars
    <3> QED
      BY <3>1 DEF PartIsItsOwn
  <2>4. ProgressIsReal' /\ NoGhostEntry'
    BY <1>11 DEF Respond, ProgressIsReal, NoGhostEntry, UnderWay, MoveTo, EndsWith,
       diskVars, storeVars
  <2>5. NoOrphanPart' /\ CompleteOnly'
    BY <1>11 DEF Respond, NoOrphanPart, CompleteOnly, PartIsItsOwn, PartApart,
       Unborn, MoveTo, EndsWith, diskVars, storeVars, AllChunks
  <2> QED
    BY <1>0, <2>1, <2>2, <2>3, <2>4, <2>5
<1>12. ASSUME NEW d \in Downloads, CreatePart(d) PROVE DownloadsInv'
  <2>1. Unborn' /\ PartApart'
    BY <1>12 DEF CreatePart, Unborn, PartApart, storeVars
  <2>2. OneAtATime' /\ Cancellable'
    BY <1>12 DEF CreatePart, OneAtATime, Cancellable, UnderWay, storeVars
  <2>3. PartIsItsOwn'
    <3>1. PICK new \in Downloads :
            /\ dl[d].pc = "create"
            /\ dl' = [dl EXCEPT ![d].pc = "stream", ![d].inode = new]
            /\ part' = new /\ content' = [content EXCEPT ![new] = {}]
            /\ overlapped' = overlapped
      BY <1>12 DEF CreatePart, PartApart, storeVars
    <3>2. ASSUME ~overlapped, NEW c \in Downloads, c # d PROVE dl'[c].pc \notin {"stream", "rename"}
      BY <3>1, <3>2 DEF OneAtATime, UnderWay
    <3>3. /\ dl'[d].pc = "stream" /\ part' # 0 /\ part' = dl'[d].inode /\ content'[part'] = {}
      BY <3>1
    <3>4. ASSUME ~overlapped PROVE dl'[d].got = 0
      BY <3>1 DEF Unborn
    <3> QED
      BY <3>1, <3>2, <3>3, <3>4 DEF PartIsItsOwn
  <2>4. ProgressIsReal' /\ NoGhostEntry'
    BY <1>12 DEF CreatePart, ProgressIsReal, NoGhostEntry, UnderWay, storeVars
  <2>5. NoOrphanPart' /\ CompleteOnly'
    BY <1>12 DEF CreatePart, NoOrphanPart, CompleteOnly, PartIsItsOwn, PartApart,
       Unborn, storeVars, AllChunks
  <2> QED
    BY <1>0, <2>1, <2>2, <2>3, <2>4, <2>5
<1>13. ASSUME NEW d \in Downloads, CreateFails(d) PROVE DownloadsInv'
  <2>1. Unborn' /\ PartApart'
    BY <1>13 DEF CreateFails, Unborn, PartApart, EndsWith, diskVars, storeVars
  <2>2. OneAtATime' /\ Cancellable'
    BY <1>13 DEF CreateFails, OneAtATime, Cancellable, UnderWay, EndsWith, diskVars,
       storeVars
  <2>3. PartIsItsOwn'
    BY <1>13 DEF CreateFails, PartIsItsOwn, Unborn, PartApart, OneAtATime, UnderWay,
       EndsWith, diskVars, storeVars, AllChunks
  <2>4. ProgressIsReal' /\ NoGhostEntry'
    BY <1>13 DEF CreateFails, ProgressIsReal, NoGhostEntry, UnderWay, EndsWith,
       diskVars, storeVars
  <2>5. NoOrphanPart' /\ CompleteOnly'
    BY <1>13 DEF CreateFails, NoOrphanPart, CompleteOnly, PartIsItsOwn, PartApart,
       Unborn, EndsWith, diskVars, storeVars, AllChunks
  <2> QED
    BY <1>0, <2>1, <2>2, <2>3, <2>4, <2>5
<1>14. ASSUME NEW d \in Downloads, SeeCancel(d) PROVE DownloadsInv'
  <2>1. Unborn' /\ PartApart'
    BY <1>14 DEF SeeCancel, Unborn, PartApart, EndsWith, storeVars
  <2>2. OneAtATime' /\ Cancellable'
    BY <1>14 DEF SeeCancel, OneAtATime, Cancellable, UnderWay, EndsWith, storeVars
  <2>3. PartIsItsOwn'
    BY <1>14 DEF SeeCancel, PartIsItsOwn, Unborn, PartApart, OneAtATime, UnderWay,
       EndsWith, storeVars, AllChunks
  <2>4. ProgressIsReal' /\ NoGhostEntry'
    BY <1>14 DEF SeeCancel, ProgressIsReal, NoGhostEntry, UnderWay, EndsWith,
       storeVars
  <2>5. NoOrphanPart' /\ CompleteOnly'
    BY <1>14 DEF SeeCancel, NoOrphanPart, CompleteOnly, PartIsItsOwn, PartApart,
       Unborn, EndsWith, storeVars, AllChunks
  <2> QED
    BY <1>0, <2>1, <2>2, <2>3, <2>4, <2>5
<1>15. ASSUME NEW d \in Downloads, WriteChunk(d) PROVE DownloadsInv'
  <2>1. Unborn' /\ PartApart'
    BY <1>15 DEF WriteChunk, Unborn, PartApart, storeVars, RoomFor
  <2>2. OneAtATime' /\ Cancellable'
    BY <1>15 DEF WriteChunk, OneAtATime, Cancellable, UnderWay, storeVars, RoomFor
  <2>3. PartIsItsOwn'
    <3>1. /\ dl[d].pc = "stream" /\ dl' = [dl EXCEPT ![d].got = dl[d].got + 1]
          /\ content' = [content EXCEPT ![dl[d].inode] = @ \cup {dl[d].got + 1}]
          /\ part' = part /\ overlapped' = overlapped
      BY <1>15 DEF WriteChunk, storeVars
    <3>2. ASSUME ~overlapped PROVE part # 0 /\ part = dl[d].inode /\ content[part] = 1 .. dl[d].got
      BY <3>1, <3>2 DEF PartIsItsOwn
    <3>3. ASSUME ~overlapped PROVE content'[part'] = 1 .. dl'[d].got
      <4>1. dl[d].got \in Nat /\ dl'[d].got = dl[d].got + 1
        BY <3>1
      <4>2. content'[part'] = (1 .. dl[d].got) \cup {dl[d].got + 1}
        BY <3>1, <3>2, <3>3 DEF PartApart
      <4> QED
        BY <4>1, <4>2
    <3>4. ASSUME ~overlapped, NEW c \in Downloads, c # d PROVE dl'[c].pc \notin {"stream", "rename"}
      BY <3>1, <3>4 DEF OneAtATime, UnderWay
    <3>5. dl'[d].pc = "stream" /\ dl'[d].inode = dl[d].inode
      BY <3>1
    <3> QED
      BY <3>1, <3>2, <3>3, <3>4, <3>5 DEF PartIsItsOwn
  <2>4. ProgressIsReal' /\ NoGhostEntry'
    BY <1>15 DEF WriteChunk, ProgressIsReal, NoGhostEntry, UnderWay, storeVars,
       RoomFor
  <2>5. NoOrphanPart' /\ CompleteOnly'
    BY <1>15 DEF WriteChunk, NoOrphanPart, CompleteOnly, PartIsItsOwn, PartApart,
       Unborn, storeVars, RoomFor, AllChunks
  <2> QED
    BY <1>0, <2>1, <2>2, <2>3, <2>4, <2>5
<1>16. ASSUME NEW d \in Downloads, StreamFails(d) PROVE DownloadsInv'
  <2>1. Unborn' /\ PartApart'
    BY <1>16 DEF StreamFails, Unborn, PartApart, EndsWith, diskVars, storeVars
  <2>2. OneAtATime' /\ Cancellable'
    BY <1>16 DEF StreamFails, OneAtATime, Cancellable, UnderWay, EndsWith, diskVars,
       storeVars
  <2>3. PartIsItsOwn'
    BY <1>16 DEF StreamFails, PartIsItsOwn, Unborn, PartApart, OneAtATime, UnderWay,
       EndsWith, diskVars, storeVars, AllChunks
  <2>4. ProgressIsReal' /\ NoGhostEntry'
    BY <1>16 DEF StreamFails, ProgressIsReal, NoGhostEntry, UnderWay, EndsWith,
       diskVars, storeVars
  <2>5. NoOrphanPart' /\ CompleteOnly'
    BY <1>16 DEF StreamFails, NoOrphanPart, CompleteOnly, PartIsItsOwn, PartApart,
       Unborn, EndsWith, diskVars, storeVars, AllChunks
  <2> QED
    BY <1>0, <2>1, <2>2, <2>3, <2>4, <2>5
<1>17. ASSUME NEW d \in Downloads, Flush(d) PROVE DownloadsInv'
  <2>1. Unborn' /\ PartApart'
    BY <1>17 DEF Flush, Unborn, PartApart, MoveTo, diskVars, storeVars, EndOfStream
  <2>2. OneAtATime' /\ Cancellable'
    BY <1>17 DEF Flush, OneAtATime, Cancellable, UnderWay, MoveTo, diskVars,
       storeVars, EndOfStream
  <2>3. PartIsItsOwn'
    BY <1>17 DEF Flush, PartIsItsOwn, Unborn, PartApart, OneAtATime, UnderWay,
       MoveTo, diskVars, storeVars, EndOfStream, AllChunks
  <2>4. ProgressIsReal' /\ NoGhostEntry'
    BY <1>17 DEF Flush, ProgressIsReal, NoGhostEntry, UnderWay, MoveTo, diskVars,
       storeVars, EndOfStream
  <2>5. NoOrphanPart' /\ CompleteOnly'
    BY <1>17 DEF Flush, NoOrphanPart, CompleteOnly, PartIsItsOwn, PartApart, Unborn,
       MoveTo, diskVars, storeVars, EndOfStream, AllChunks
  <2> QED
    BY <1>0, <2>1, <2>2, <2>3, <2>4, <2>5
<1>18. ASSUME NEW d \in Downloads, Rename(d) PROVE DownloadsInv'
  <2>1. Unborn' /\ PartApart'
    BY <1>18 DEF Rename, Unborn, PartApart, EndsWith, storeVars, RoomFor
  <2>2. OneAtATime' /\ Cancellable'
    BY <1>18 DEF Rename, OneAtATime, Cancellable, UnderWay, EndsWith, storeVars,
       RoomFor
  <2>3. PartIsItsOwn'
    BY <1>18 DEF Rename, PartIsItsOwn, Unborn, PartApart, OneAtATime, UnderWay,
       EndsWith, storeVars, RoomFor, AllChunks
  <2>4. ProgressIsReal' /\ NoGhostEntry'
    BY <1>18 DEF Rename, ProgressIsReal, NoGhostEntry, UnderWay, EndsWith, storeVars,
       RoomFor
  <2>5. NoOrphanPart' /\ CompleteOnly'
    BY <1>18 DEF Rename, NoOrphanPart, CompleteOnly, PartIsItsOwn, PartApart, Unborn,
       EndsWith, storeVars, RoomFor, AllChunks
  <2> QED
    BY <1>0, <2>1, <2>2, <2>3, <2>4, <2>5
<1>19. ASSUME NEW d \in Downloads, RenameFails(d) PROVE DownloadsInv'
  <2>1. Unborn' /\ PartApart'
    BY <1>19 DEF RenameFails, Unborn, PartApart, EndsWith, diskVars, storeVars
  <2>2. OneAtATime' /\ Cancellable'
    BY <1>19 DEF RenameFails, OneAtATime, Cancellable, UnderWay, EndsWith, diskVars,
       storeVars
  <2>3. PartIsItsOwn'
    BY <1>19 DEF RenameFails, PartIsItsOwn, Unborn, PartApart, OneAtATime, UnderWay,
       EndsWith, diskVars, storeVars, AllChunks
  <2>4. ProgressIsReal' /\ NoGhostEntry'
    BY <1>19 DEF RenameFails, ProgressIsReal, NoGhostEntry, UnderWay, EndsWith,
       diskVars, storeVars
  <2>5. NoOrphanPart' /\ CompleteOnly'
    BY <1>19 DEF RenameFails, NoOrphanPart, CompleteOnly, PartIsItsOwn, PartApart,
       Unborn, EndsWith, diskVars, storeVars, AllChunks
  <2> QED
    BY <1>0, <2>1, <2>2, <2>3, <2>4, <2>5
<1>20. ASSUME NEW d \in Downloads, Unwind(d) PROVE DownloadsInv'
  <2>1. Unborn' /\ PartApart'
    BY <1>20 DEF Unwind, Unborn, PartApart, MoveTo, storeVars, CleanedUp
  <2>2. OneAtATime' /\ Cancellable'
    BY <1>20 DEF Unwind, OneAtATime, Cancellable, UnderWay, MoveTo, storeVars,
       CleanedUp
  <2>3. PartIsItsOwn'
    BY <1>20 DEF Unwind, PartIsItsOwn, Unborn, PartApart, OneAtATime, UnderWay,
       MoveTo, storeVars, CleanedUp, AllChunks
  <2>4. ProgressIsReal' /\ NoGhostEntry'
    BY <1>20 DEF Unwind, ProgressIsReal, NoGhostEntry, UnderWay, MoveTo, storeVars,
       CleanedUp
  <2>5. NoOrphanPart' /\ CompleteOnly'
    BY <1>20 DEF Unwind, NoOrphanPart, CompleteOnly, PartIsItsOwn, PartApart, Unborn,
       MoveTo, storeVars, CleanedUp, AllChunks
  <2> QED
    BY <1>0, <2>1, <2>2, <2>3, <2>4, <2>5
<1>21. ASSUME NEW d \in Downloads, Deregister(d) PROVE DownloadsInv'
  <2>1. Unborn' /\ PartApart'
    BY <1>21 DEF Deregister, Unborn, PartApart, MoveTo, diskVars, storeVars, RoomFor,
       Reported, Outcome, Deregistered
  <2>2. OneAtATime' /\ Cancellable'
    BY <1>21 DEF Deregister, OneAtATime, Cancellable, UnderWay, MoveTo, diskVars,
       storeVars, RoomFor, Reported, Outcome, Deregistered
  <2>3. PartIsItsOwn'
    BY <1>21 DEF Deregister, PartIsItsOwn, Unborn, PartApart, OneAtATime, UnderWay,
       MoveTo, diskVars, storeVars, RoomFor, Reported, Outcome, Deregistered,
       AllChunks
  <2>4. ProgressIsReal' /\ NoGhostEntry'
    BY <1>21 DEF Deregister, ProgressIsReal, NoGhostEntry, UnderWay, MoveTo,
       diskVars, storeVars, RoomFor, Reported, Outcome, Deregistered
  <2>5. NoOrphanPart' /\ CompleteOnly'
    BY <1>21 DEF Deregister, NoOrphanPart, CompleteOnly, PartIsItsOwn, PartApart,
       Unborn, MoveTo, diskVars, storeVars, RoomFor, Reported, Outcome, Deregistered,
       AllChunks
  <2> QED
    BY <1>0, <2>1, <2>2, <2>3, <2>4, <2>5
<1>22. ASSUME NEW d \in Downloads, OnRejection(d) PROVE DownloadsInv'
  <2>1. Unborn' /\ PartApart'
    BY <1>22 DEF OnRejection, Unborn, PartApart, MoveTo, diskVars
  <2>2. OneAtATime' /\ Cancellable'
    BY <1>22 DEF OnRejection, OneAtATime, Cancellable, UnderWay, MoveTo, diskVars
  <2>3. PartIsItsOwn'
    BY <1>22 DEF OnRejection, PartIsItsOwn, Unborn, PartApart, OneAtATime, UnderWay,
       MoveTo, diskVars, AllChunks
  <2>4. ProgressIsReal' /\ NoGhostEntry'
    BY <1>22 DEF OnRejection, ProgressIsReal, NoGhostEntry, UnderWay, MoveTo,
       diskVars
  <2>5. NoOrphanPart' /\ CompleteOnly'
    BY <1>22 DEF OnRejection, NoOrphanPart, CompleteOnly, PartIsItsOwn, PartApart,
       Unborn, MoveTo, diskVars, AllChunks
  <2> QED
    BY <1>0, <2>1, <2>2, <2>3, <2>4, <2>5
<1>23. CASE UNCHANGED downloadVars
  BY <1>23 DEF downloadVars, Unborn, PartApart, OneAtATime, Cancellable,
     PartIsItsOwn, ProgressIsReal, NoGhostEntry, NoOrphanPart, CompleteOnly, UnderWay
<1> QED
  BY <1>1, <1>2, <1>3, <1>4, <1>5, <1>6, <1>7, <1>8, <1>9, <1>10, <1>11, <1>12,
     <1>13, <1>14, <1>15, <1>16, <1>17, <1>18, <1>19, <1>20, <1>21, <1>22, <1>23 DEF
     DownloadsNext, UserStep, DownloadStep

LEMMA DownloadsBegin == DownloadsInit => DownloadsInv
<1> SUFFICES ASSUME DownloadsInit PROVE DownloadsInv
  OBVIOUS
<1> USE DEF DownloadsInit, NoDownload, Downloads, ImportInode, PartInodes
<1>1. DownloadsTypeOK
  <2>1. NoDownload \in Download
    BY DownloadConstants DEF Download, DownloadStates
  <2> QED
    <3>1. /\ dl \in [Downloads -> Download] /\ content \in [PartInodes -> SUBSET AllChunks]
          /\ events \in Seq({"progress", "complete", "error"})
      BY <2>1
    <3>2. 0 \in 0 .. MaxDownloads /\ 0 \in 0 .. ImportInode
      BY DownloadConstants
    <3> QED
      BY <3>1, <3>2 DEF DownloadsTypeOK
<1>2. Unborn /\ PartApart /\ OneAtATime /\ PartIsItsOwn /\ ProgressIsReal
  BY DownloadConstants DEF Unborn, PartApart, OneAtATime, UnderWay, PartIsItsOwn, ProgressIsReal
<1>3. DownloadsSafe
  BY DownloadConstants DEF DownloadsSafe, NoOrphanPart, CompleteOnly, Cancellable, NoGhostEntry
<1> QED
  BY <1>1, <1>2, <1>3 DEF DownloadsInv


-----------------------------------------------------------------------------
(* The search for models.                                                  *)

SearchInv == SearchTypeOK /\ SearchSafe

\* What can be downloaded of a repository has a label, and is in the file list.
LEMMA LabelsAreListed ==
  ASSUME NEW r \in Repos
  PROVE  /\ FacetLabels(Tree[r]) \subseteq Labels
         /\ FacetLabels(Tree[r]) \subseteq {f.quant : f \in {g \in ListedFiles(Tree[r]) : ~g.sharded}}
<1>1. Tree[r] \subseteq FileKinds
  BY SearchConstants
<1>2. FacetLabels(Tree[r]) \subseteq Labels
  BY <1>1 DEF FacetLabels, FileKinds
<1>3. FacetLabels(Tree[r]) \subseteq {f.quant : f \in {g \in ListedFiles(Tree[r]) : ~g.sharded}}
  <2> SUFFICES ASSUME NEW q \in FacetLabels(Tree[r])
               PROVE  q \in {f.quant : f \in {g \in ListedFiles(Tree[r]) : ~g.sharded}}
    OBVIOUS
  <2>1. PICK f \in Tree[r] : ~f.nested /\ ~f.sharded /\ q = f.quant
    BY DEF FacetLabels
  <2> QED
    BY <2>1 DEF ListedFiles
<1> QED
  BY <1>2, <1>3

\* Every answer keeps the promise of the labels.
LEMMA PromiseKept == results \subseteq Repos => FacetKeepsPromise
BY LabelsAreListed DEF FacetKeepsPromise

LEMMA SearchBegins == SearchInit => SearchInv
<1> SUFFICES ASSUME SearchInit PROVE SearchInv
  OBVIOUS
<1>1. SearchTypeOK
  <2>1. 0 \in 0 .. MaxSearches
    BY SearchConstants
  <2> QED
    BY <2>1 DEF SearchInit, SearchTypeOK, Sorts
<1>2. OneListing
  BY DEF SearchInit, OneListing
<1> QED
  BY <1>1, <1>2, PromiseKept DEF SearchInv, SearchSafe, SearchTypeOK

LEMMA OfferedQuants ==
  ASSUME NEW q \in QuantFacets, q \notin quants
  PROVE  \E r \in ByAuthor : q \in FacetLabels(Tree[r])
<1> DEFINE offered == UNION {FacetLabels(Tree[r]) : r \in ByAuthor}
<1>0. QuantFacets = offered \cup quants
  BY DEF QuantFacets
<1> HIDE DEF offered
<1>1. q \in offered
  BY <1>0
<1>2. PICK labels \in {FacetLabels(Tree[r]) : r \in ByAuthor} : q \in labels
  BY <1>1 DEF offered
<1>3. PICK r \in ByAuthor : labels = FacetLabels(Tree[r])
  BY <1>2
<1> QED
  BY <1>2, <1>3

\* A search begins.
LEMMA SearchRuns ==
  ASSUME SearchTypeOK, NEW q \in Queries, NEW order \in Sorts, NEW keep \in BOOLEAN,
         RunSearch(q, order, keep)
  PROVE  SearchTypeOK'
<1>1. searches' \in SUBSET Search
  BY DEF RunSearch, SearchTypeOK, Search
<1>2. authors' \in SUBSET Owners /\ quants' \in SUBSET Labels
  BY DEF RunSearch, SearchTypeOK
<1>3. /\ searching' \in BOOLEAN /\ selected' \in Repos \cup {NoRepo} /\ sort' \in Sorts
      /\ UNCHANGED <<submitted, results, searched, listed, loading, listings>>
  BY DEF RunSearch
<1> QED
  BY <1>1, <1>2, <1>3 DEF SearchTypeOK

LEMMA SearchTypeStep ==
  ASSUME SearchTypeOK, OneListing, [SearchNext]_searchVars PROVE SearchTypeOK'
<1>1. CASE SubmitQuery
  BY <1>1, SearchRuns DEF SubmitQuery, SearchTypeOK
<1>2. CASE SetSort
  <2>1. PICK order \in Sorts :
          IF submitted # NoQuery THEN RunSearch(submitted, order, TRUE)
          ELSE sort' = order /\ UNCHANGED <<panelVars, searching, searches, listed, loading, listings>>
    BY <1>2 DEF SetSort
  <2>2. CASE submitted # NoQuery
    BY <2>1, <2>2, SearchRuns DEF SearchTypeOK
  <2>3. CASE submitted = NoQuery
    BY <2>1, <2>3 DEF SearchTypeOK, panelVars
  <2> QED
    BY <2>2, <2>3
<1>3. CASE Back \/ ClosePanel
  BY <1>3 DEF Back, ClosePanel, Emptied, SearchTypeOK
<1>4. CASE ClearFacets
  BY <1>4 DEF ClearFacets, SearchTypeOK
<1>5. ASSUME NEW s \in searches, SearchAnswered(s) PROVE SearchTypeOK'
  <2>1. s.query \in Queries
    BY DEF SearchTypeOK, Search
  <2>2. /\ results' \in SUBSET Repos /\ authors' \in SUBSET Owners /\ quants' \in SUBSET Labels
    BY <1>5 DEF SearchAnswered, SearchTypeOK
  <2>3. /\ searches' \in SUBSET Search /\ searching' \in BOOLEAN /\ searched' \in BOOLEAN
        /\ submitted' = s.query /\ UNCHANGED <<sort, selected, listed, loading, listings>>
    BY <1>5 DEF SearchAnswered, SearchTypeOK
  <2> QED
    BY <2>1, <2>2, <2>3 DEF SearchTypeOK
<1>6. ASSUME NEW r \in Repos, SelectRepo(r) PROVE SearchTypeOK'
  <2>1. listings[r] \in 0 .. MaxSearches /\ listings[r] < MaxSearches
    BY <1>6 DEF SelectRepo, SearchTypeOK
  <2>2. listings[r] + 1 \in 0 .. MaxSearches
    BY <2>1, SearchConstants
  <2>3. loading' \in SUBSET Repos /\ listings' \in [Repos -> 0 .. MaxSearches]
    BY <1>6, <2>2 DEF SelectRepo, SearchTypeOK
  <2> QED
    BY <1>6, <2>3 DEF SelectRepo, SearchTypeOK
<1>7. ASSUME NEW r \in Repos, ListingAnswered(r) PROVE SearchTypeOK'
  <2>1. listings[r] \in 0 .. MaxSearches /\ listings[r] > 0
    BY <1>7 DEF ListingAnswered, SearchTypeOK
  <2>2. listings[r] - 1 \in 0 .. MaxSearches
    BY <2>1, SearchConstants
  <2>3. /\ loading' \in SUBSET Repos /\ listings' \in [Repos -> 0 .. MaxSearches]
        /\ listed' \in [Repos -> {"none", "empty", "files"}]
    BY <1>7, <2>2 DEF ListingAnswered, SearchTypeOK
  <2> QED
    BY <1>7, <2>3 DEF ListingAnswered, SearchTypeOK, panelVars
<1>8. ASSUME NEW a \in Owners, ToggleAuthor(a) PROVE SearchTypeOK'
  BY <1>8 DEF ToggleAuthor, SearchTypeOK
<1>9. ASSUME NEW q, ToggleQuant(q) PROVE SearchTypeOK'
  <2>1. quants' \in SUBSET Labels
    <3>1. quants \in SUBSET Labels /\ results \in SUBSET Repos
      BY DEF SearchTypeOK
    <3>2. q \in Labels
      <4>1. q \in quants \/ \E r \in ByAuthor : q \in FacetLabels(Tree[r])
        BY <1>9, OfferedQuants DEF ToggleQuant
      <4>2. ByAuthor \subseteq Repos
        BY <3>1 DEF ByAuthor
      <4> QED
        BY <3>1, <4>1, <4>2, LabelsAreListed
    <3> QED
      BY <1>9, <3>1, <3>2 DEF ToggleQuant
  <2> QED
    BY <1>9, <2>1 DEF ToggleQuant, SearchTypeOK
<1>10. CASE UNCHANGED searchVars
  BY <1>10 DEF searchVars, SearchTypeOK
<1> QED
  BY <1>1, <1>2, <1>3, <1>4, <1>5, <1>6, <1>7, <1>8, <1>9, <1>10 DEF SearchNext

LEMMA SearchStep == ASSUME SearchInv, [SearchNext]_searchVars PROVE SearchInv'
<1>1. SearchTypeOK'
  BY SearchTypeStep DEF SearchInv, SearchSafe
<1>2. FacetKeepsPromise'
  <2>1. results' \subseteq Repos
    BY <1>1 DEF SearchTypeOK
  <2> QED
    BY <2>1, LabelsAreListed DEF FacetKeepsPromise
<1>3. OneListing'
  <2>1. OneListing /\ listings \in [Repos -> 0 .. MaxSearches] /\ loading \in SUBSET Repos
        /\ listed \in [Repos -> {"none", "empty", "files"}]
    BY DEF SearchInv, SearchSafe, SearchTypeOK
  <2>2. ASSUME NEW r \in Repos, SelectRepo(r) PROVE OneListing'
    <3>1. CASE NeedsListing(r)
      <4>1. r \notin loading /\ listings[r] = 0 /\ listed[r] = "none"
        BY <2>1, <3>1 DEF NeedsListing, OneListing
      <4> QED
        BY <2>1, <2>2, <3>1, <4>1 DEF SelectRepo, OneListing
    <3>2. CASE ~NeedsListing(r)
      BY <2>1, <2>2, <3>2 DEF SelectRepo, OneListing
    <3> QED
      BY <3>1, <3>2
  <2>3. ASSUME NEW r \in Repos, ListingAnswered(r) PROVE OneListing'
    <3>1. r \in loading /\ listings[r] = 1
      BY <2>1, <2>3 DEF ListingAnswered, OneListing
    <3> QED
      BY <2>1, <2>3, <3>1 DEF ListingAnswered, OneListing
  <2>4. CASE UNCHANGED <<listed, loading, listings>>
    BY <2>1, <2>4 DEF OneListing
  <2> QED
    BY <2>2, <2>3, <2>4 DEF SearchNext, SubmitQuery, SetSort, RunSearch, SearchAnswered, Back,
       ClosePanel, ClearFacets, ToggleAuthor, ToggleQuant, searchVars
<1> QED
  BY <1>1, <1>2, <1>3 DEF SearchInv, SearchSafe

\* A pick that is offered leaves something to see.
PickStands ==
  /\ Visible # {} /\ UNCHANGED results
  /\ \/ authors' # authors /\ authors \subseteq authors'
     \/ quants' # quants /\ quants \subseteq quants'
  => Visible' # {}

LEMMA PickStep == SearchNext => PickStands
<1> SUFFICES ASSUME SearchNext PROVE PickStands
  OBVIOUS
<1>1. ASSUME NEW a, ToggleAuthor(a) PROVE PickStands
  <2> SUFFICES ASSUME results' = results, authors' # authors, authors \subseteq authors'
               PROVE  Visible' # {}
    BY <1>1 DEF ToggleAuthor, PickStands
  <2>1. a \notin authors /\ authors' = authors \cup {a} /\ quants' = quants
    BY <1>1 DEF ToggleAuthor
  <2>2. PICK r \in Matching(results) : a = Owner[r]
    BY <1>1, <2>1 DEF ToggleAuthor, AuthorFacets
  <2>3. r \in Visible'
    BY <2>1, <2>2 DEF Visible, Matching, ByAuthor
  <2> QED
    BY <2>3
<1>2. ASSUME NEW q, ToggleQuant(q) PROVE PickStands
  <2> SUFFICES ASSUME results' = results, quants' # quants, quants \subseteq quants'
               PROVE  Visible' # {}
    BY <1>2 DEF ToggleQuant, PickStands
  <2>1. q \notin quants /\ quants' = quants \cup {q} /\ authors' = authors
    BY <1>2 DEF ToggleQuant
  <2>2. PICK r \in ByAuthor : q \in FacetLabels(Tree[r])
    <3>1. q \in QuantFacets
      BY <1>2 DEF ToggleQuant
    <3> QED
      BY <2>1, <3>1, OfferedQuants
  <2>3. r \in Visible'
    BY <2>1, <2>2 DEF Visible, Matching, ByAuthor
  <2> QED
    BY <2>3
<1>3. CASE authors' \subseteq authors /\ quants' \subseteq quants
  BY <1>3 DEF PickStands
<1> QED
  BY <1>1, <1>2, <1>3 DEF SearchNext, SubmitQuery, SetSort, RunSearch, SearchAnswered, Back,
     ClosePanel, Emptied, ClearFacets, SelectRepo, ListingAnswered, panelVars

-----------------------------------------------------------------------------
(* The boundary of the edits.                                              *)

\* Unless a call failed or was overtaken, the last one under way is about the
\* project in view.
LastMoveCounts ==
  ~unclear => IF moves = <<>> THEN boundary = viewed ELSE moves[Len(moves)] = viewed

\* An edit that was let through is of its project's own file, or a deletion, and
\* its checkpoint is of its project.
LetThroughOwn ==
  \A j \in Jobs :
    /\ jobs[j].pc \in {"let", "kept", "done", "failed"} =>
         jobs[j].kind = "delete_file" \/ jobs[j].target = jobs[j].project
    /\ jobs[j].pc \in {"kept", "done", "failed"} =>
         jobs[j].snapshot \in {NoFolder, jobs[j].project}

SandboxInv == SandboxTypeOK /\ LastMoveCounts /\ LetThroughOwn

LEMMA BoundaryHolds == SandboxInv => BoundarySafe
BY DEF SandboxInv, LastMoveCounts, LetThroughOwn, BoundarySafe, BoundaryFollowsView, UndoCovers

LEMMA SandboxBegins == SandboxInit => SandboxInv
<1> SUFFICES ASSUME SandboxInit PROVE SandboxInv
  OBVIOUS
<1>1. SandboxTypeOK
  <2>1. [kind |-> "none", project |-> NoFolder, target |-> NoFolder,
         snapshot |-> NoFolder, pc |-> "idle"] \in Job
    BY DEF Job, Somewhere
  <2>2. moves \in Seq(Somewhere) /\ switches \in 0 .. MaxSwitches
    BY SandboxConstants DEF SandboxInit
  <2> QED
    BY <2>1, <2>2 DEF SandboxInit, SandboxTypeOK, Somewhere
<1> QED
  BY <1>1 DEF SandboxInit, SandboxInv, LastMoveCounts, LetThroughOwn

LEMMA ViewStep == ASSUME SandboxInv, NEW f \in Somewhere, View(f) PROVE SandboxInv'
<1>1. moves \in Seq(Somewhere) /\ switches \in 0 .. MaxSwitches /\ switches < MaxSwitches
  BY DEF SandboxInv, SandboxTypeOK, View
<1>2. switches + 1 \in 0 .. MaxSwitches
  BY <1>1, SandboxConstants
<1>3. moves' \in Seq(Somewhere) /\ moves' # <<>> /\ moves'[Len(moves')] = f
  BY <1>1, Longer DEF View
<1>4. SandboxTypeOK'
  BY <1>2, <1>3 DEF SandboxInv, SandboxTypeOK, View
<1> QED
  BY <1>3, <1>4 DEF SandboxInv, LastMoveCounts, LetThroughOwn, View

LEMMA MoveStep == ASSUME SandboxInv, NEW i \in DOMAIN moves, Move(i) PROVE SandboxInv'
<1>1. moves \in Seq(Somewhere) /\ i \in 1 .. Len(moves) /\ moves[i] \in Somewhere /\ Len(moves) \in Nat
  BY DEF SandboxInv, SandboxTypeOK
<1>2. /\ moves' \in Seq(Somewhere) /\ Len(moves') = Len(moves) - 1
      /\ \A k \in 1 .. Len(moves) - 1 : moves'[k] = moves[IF k < i THEN k ELSE k + 1]
  BY <1>1, Shorter DEF Move
<1>3. SandboxTypeOK'
  BY <1>1, <1>2 DEF SandboxInv, SandboxTypeOK, Move, KeepsBoundary
<1>4. LastMoveCounts'
  <2> SUFFICES ASSUME ~unclear' PROVE IF moves' = <<>> THEN boundary' = viewed'
                                     ELSE moves'[Len(moves')] = viewed'
    BY DEF LastMoveCounts
  <2>1. i = 1 /\ ~unclear /\ boundary' = moves[1] /\ viewed' = viewed
    BY DEF Move
  <2>2. moves[Len(moves)] = viewed
    BY <1>1, <2>1 DEF SandboxInv, LastMoveCounts
  <2>3. CASE Len(moves) = 1
    <3>1. moves' = <<>>
      BY <1>2, <2>3, EmptySeq
    <3> QED
      BY <2>1, <2>2, <2>3, <3>1
  <2>4. CASE Len(moves) # 1
    <3>1. Len(moves') \in 1 .. Len(moves) - 1
      BY <1>1, <1>2, <2>4
    <3>2. moves'[Len(moves')] = moves[Len(moves)] /\ moves' # <<>>
      BY <1>1, <1>2, <2>1, <3>1
    <3> QED
      BY <2>1, <2>2, <3>2
  <2> QED
    BY <2>3, <2>4
<1>5. LetThroughOwn'
  BY DEF SandboxInv, LetThroughOwn, Move
<1> QED
  BY <1>3, <1>4, <1>5 DEF SandboxInv

\* A job's step: it changes nothing of the boundary, and leaves the job with what
\* an edit that was let through has.
LEMMA JobMoves ==
  ASSUME SandboxInv, KeepsBoundary, NEW j \in Jobs, NEW job \in Job,
         jobs' = [jobs EXCEPT ![j] = job],
         job.pc \in {"let", "kept", "done", "failed"} =>
           job.kind = "delete_file" \/ job.target = job.project,
         job.pc \in {"kept", "done", "failed"} => job.snapshot \in {NoFolder, job.project}
  PROVE  SandboxInv'
<1>1. jobs \in [Jobs -> Job]
  BY DEF SandboxInv, SandboxTypeOK
<1>2. SandboxTypeOK'
  BY <1>1 DEF SandboxInv, SandboxTypeOK, KeepsBoundary
<1>3. LastMoveCounts'
  BY DEF SandboxInv, LastMoveCounts, KeepsBoundary
<1>4. LetThroughOwn'
  BY <1>1 DEF SandboxInv, LetThroughOwn
<1> QED
  BY <1>2, <1>3, <1>4 DEF SandboxInv

LEMMA SandboxStep == ASSUME SandboxInv, [SandboxNext]_sandboxVars PROVE SandboxInv'
<1>1. ASSUME NEW f \in Folders, Vanish(f) PROVE SandboxInv'
  BY <1>1 DEF Vanish, SandboxInv, SandboxTypeOK, LastMoveCounts, LetThroughOwn
<1>2. ASSUME NEW j \in Jobs PROVE
        /\ jobs[j] \in Job
        /\ \A to \in {"idle", "launched", "called", "let", "kept", "done", "refused", "failed"} :
             LET job == [jobs[j] EXCEPT !.pc = to] IN
             /\ job \in Job /\ job.pc = to /\ job.kind = jobs[j].kind
             /\ job.target = jobs[j].target /\ job.project = jobs[j].project
             /\ job.snapshot = jobs[j].snapshot
  BY DEF SandboxInv, SandboxTypeOK, Job
<1>3. ASSUME NEW j \in Jobs, Launch(j) PROVE SandboxInv'
  <2>1. [jobs[j] EXCEPT !.pc = "launched", !.project = viewed] \in Job
    BY <1>2 DEF SandboxInv, SandboxTypeOK, Job
  <2>2. [jobs[j] EXCEPT !.pc = "launched", !.project = viewed].pc = "launched"
    BY <1>2 DEF Job
  <2>3. jobs' = [jobs EXCEPT ![j] = [jobs[j] EXCEPT !.pc = "launched", !.project = viewed]]
    BY <1>3 DEF Launch
  <2> QED
    BY <1>3, <2>1, <2>2, <2>3, JobMoves DEF Launch
<1>4. ASSUME NEW j \in Jobs, NEW kind \in {"str_replace", "apply_diff", "delete_file"},
             NEW f \in Folders, Call(j, kind, f)
      PROVE  SandboxInv'
  <2> DEFINE job == [jobs[j] EXCEPT !.pc = "called", !.kind = kind, !.target = f]
  <2>1. job \in Job /\ job.pc = "called"
    BY <1>2 DEF Job, Somewhere
  <2>2. jobs' = [jobs EXCEPT ![j] = job]
    BY <1>4 DEF Call
  <2> HIDE DEF job
  <2> QED
    BY <1>4, <2>1, <2>2, JobMoves DEF Call
<1>5. ASSUME NEW j \in Jobs, Refuse(j) PROVE SandboxInv'
  BY <1>2, <1>5, JobMoves DEF Refuse, At
<1>6. ASSUME NEW j \in Jobs, Enter(j) PROVE SandboxInv'
  <2>1. jobs[j].kind = "delete_file" \/ jobs[j].target = jobs[j].project
    BY <1>6 DEF Enter, LetThrough, OwnProject, Within
  <2> QED
    BY <1>2, <1>6, <2>1, JobMoves DEF Enter, At
<1>7. ASSUME NEW j \in Jobs, Snapshot(j) PROVE SandboxInv'
  <2>1. PICK s \in {NoFolder} \cup (standing \cap {jobs[j].project}) :
          jobs' = [jobs EXCEPT ![j].pc = "kept", ![j].snapshot = s]
    BY <1>7 DEF Snapshot
  <2> DEFINE job == [jobs[j] EXCEPT !.pc = "kept", !.snapshot = s]
  <2>2. jobs' = [jobs EXCEPT ![j] = job]
    BY <2>1
  <2>3. job \in Job
    <3>1. s \in Somewhere
      BY DEF SandboxInv, SandboxTypeOK, Somewhere
    <3> QED
      BY <1>2, <3>1 DEF Job
  <2>4. /\ job.pc = "kept" /\ job.kind = jobs[j].kind /\ job.target = jobs[j].target
        /\ job.project = jobs[j].project /\ job.snapshot = s
    BY <1>2 DEF Job
  <2>5. jobs[j].kind = "delete_file" \/ jobs[j].target = jobs[j].project
    BY <1>7 DEF Snapshot, SandboxInv, LetThroughOwn
  <2> HIDE DEF job
  <2> QED
    BY <1>7, <2>2, <2>3, <2>4, <2>5, JobMoves DEF Snapshot
<1>8. ASSUME NEW j \in Jobs, Carry(j) PROVE SandboxInv'
  <2>1. /\ jobs[j].kind = "delete_file" \/ jobs[j].target = jobs[j].project
        /\ jobs[j].snapshot \in {NoFolder, jobs[j].project}
    BY <1>8 DEF Carry, At, SandboxInv, LetThroughOwn
  <2>2. ASSUME NEW to \in {"done", "failed"}, At(j, "kept", to) PROVE SandboxInv'
    <3> DEFINE job == [jobs[j] EXCEPT !.pc = to]
    <3>1. jobs' = [jobs EXCEPT ![j] = job]
      BY <2>2 DEF At
    <3>2. /\ job \in Job /\ job.pc = to /\ job.kind = jobs[j].kind /\ job.target = jobs[j].target
          /\ job.project = jobs[j].project /\ job.snapshot = jobs[j].snapshot
      <4>1. jobs[j] \in Job
        BY <1>2
      <4> QED
        BY <4>1 DEF Job
    <3> HIDE DEF job
    <3> QED
      BY <1>8, <2>1, <3>1, <3>2, JobMoves DEF Carry
  <2> QED
    BY <1>8, <2>2 DEF Carry
<1>9. CASE UNCHANGED sandboxVars
  BY <1>9 DEF sandboxVars, SandboxInv, SandboxTypeOK, LastMoveCounts, LetThroughOwn
<1> QED
  BY <1>1, <1>3, <1>4, <1>5, <1>6, <1>7, <1>8, <1>9, ViewStep, MoveStep DEF SandboxNext

-----------------------------------------------------------------------------
(* The list of MCP servers.                                                *)

\* The calls under way on a server, and its turns that bootstrap has yet to take.
AskedOf(n) == {i \in DOMAIN asked : asked[i].server.name = n}
ForgetsOf(n) == {i \in DOMAIN forgets : forgets[i] = n}
BootsOf(n) == {i \in DOMAIN toBoot : toBoot[i].name = n}

\* At most one of them is due for a server,
OneCall(n) ==
  /\ \A i, j \in AskedOf(n) : i = j
  /\ \A i, j \in ForgetsOf(n) : i = j
  /\ \A i, j \in BootsOf(n) : i = j
  /\ AskedOf(n) # {} => ForgetsOf(n) = {}
  /\ BootsOf(n) # {} => AskedOf(n) = {} /\ ForgetsOf(n) = {}

\* and it is about the server as it is listed.
CallsAreCurrent(n) ==
  /\ \A i \in BootsOf(n) : toBoot[i].command = servers[n]
  /\ \A i \in AskedOf(n) : /\ asked[i].server.command = servers[n]
                           /\ asked[i].pc = "found" => cache[n] = servers[n]
  /\ ForgetsOf(n) # {} => servers[n] = Unset /\ statusByName[n] = NotShown

\* Before the list was read, there is nothing of a server.
NothingBefore(n) ==
  boot # "up" => /\ BootsOf(n) = {} /\ AskedOf(n) = {} /\ ForgetsOf(n) = {}
                 /\ servers[n] = Unset /\ cache[n] = Unset /\ statusByName[n] = NotShown

NothingDue(n) == boot = "up" /\ BootsOf(n) = {} /\ AskedOf(n) = {} /\ ForgetsOf(n) = {}

\* Once nothing is due, what is shown, what the registry has and what is listed agree.
Settled(n) ==
  NothingDue(n) =>
    /\ servers[n] = Unset => cache[n] = Unset /\ statusByName[n] = NotShown
    /\ statusByName[n].state = "connected" =>
         cache[n] = servers[n] /\ statusByName[n].tools = servers[n]
    /\ servers[n] # Unset => statusByName[n].state \in {"connected", "error"}

InOrder(n) == OneCall(n) /\ CallsAreCurrent(n) /\ NothingBefore(n) /\ Settled(n)

\* The last write of the list under way is of the list.
ListsAreCurrent ==
  ~misordered => IF boot = "up" THEN IF lists = <<>> THEN onDisk = servers
                                     ELSE lists[Len(lists)] = servers
                 ELSE lists = <<>>

ServersInv ==
  /\ ServersTypeOK /\ ListsAreCurrent
  /\ boot # "up" => toBoot = <<>>
  /\ \A n \in ServerNames \ met : InOrder(n)

LEMMA DueMeans ==
  ASSUME ServersTypeOK, NEW n
  PROVE  /\ Called(n) <=> AskedOf(n) # {} \/ ForgetsOf(n) # {}
         /\ ~Due(n) <=> NothingDue(n)
<1>1. n \in ToSet(forgets) <=> ForgetsOf(n) # {}
  BY DEF ToSet, ForgetsOf
<1>2. (\E d \in ToSet(asked) : d.server.name = n) <=> AskedOf(n) # {}
  BY DEF ToSet, AskedOf
<1>3. (\E s \in ToSet(toBoot) : s.name = n) <=> BootsOf(n) # {}
  BY DEF ToSet, BootsOf
<1> QED
  BY <1>1, <1>2, <1>3 DEF Called, Due, NothingDue

LEMMA ServersHold == ServersInv => ServersSafe
<1> SUFFICES ASSUME ServersInv PROVE ServersSafe
  OBVIOUS
<1>1. ServersTypeOK
  BY DEF ServersInv
<1>2. ASSUME NEW n \in ServerNames \ met, ~Due(n)
      PROVE  /\ servers[n] = Unset => cache[n] = Unset /\ statusByName[n] = NotShown
             /\ statusByName[n].state = "connected" =>
                  cache[n] = servers[n] /\ statusByName[n].tools = servers[n]
             /\ servers[n] # Unset => statusByName[n].state \in {"connected", "error"}
  BY <1>1, <1>2, DueMeans DEF ServersInv, InOrder, Settled
<1>3. DiskFollowsList
  BY DEF ServersInv, ListsAreCurrent, DiskFollowsList
<1> QED
  BY <1>2, <1>3 DEF ServersSafe, RegistryFollowsList, EachWasTried

LEMMA ServersBegin == ServersInit => ServersInv
<1> SUFFICES ASSUME ServersInit PROVE ServersInv
  OBVIOUS
<1>1. ServersTypeOK
  <2>1. NothingListed \in ServerLists /\ NotShown \in
          [state : {"none", "idle", "connecting", "connected", "error"},
           tools : ServerCommands \cup {Unset}]
    BY DEF NothingListed, ServerLists, NotShown
  <2>2. 0 \in 0 .. MaxCalls
    BY ServerConstants
  <2>3. /\ toBoot \in Seq(Saved) /\ asked \in Seq(Discovery) /\ forgets \in Seq(ServerNames)
        /\ lists \in Seq(ServerLists)
    BY DEF ServersInit
  <2>4. /\ servers \in ServerLists /\ cache \in ServerLists /\ onDisk \in ServerLists
        /\ boot \in {"off", "loading", "up"} /\ misordered \in BOOLEAN /\ met \subseteq ServerNames
        /\ calls = 0 /\ statusByName = [n \in ServerNames |-> NotShown]
    BY <2>1 DEF ServersInit
  <2> QED
    BY <2>1, <2>2, <2>3, <2>4 DEF ServersTypeOK
<1>2. ASSUME NEW n \in ServerNames PROVE InOrder(n)
  BY DEF ServersInit, InOrder, OneCall, CallsAreCurrent, NothingBefore, Settled, NothingDue,
         AskedOf, ForgetsOf, BootsOf, NothingListed
<1> QED
  BY <1>1, <1>2 DEF ServersInit, ServersInv, ListsAreCurrent

(* How the calls under way change.                                         *)

LEMMA AskedMore ==
  ASSUME asked \in Seq(Discovery), NEW d \in Discovery, asked' = Append(asked, d), NEW n
  PROVE  /\ asked' \in Seq(Discovery)
         /\ d.server.name # n => AskedOf(n)' = AskedOf(n)
         /\ d.server.name = n => AskedOf(n)' = AskedOf(n) \cup {Len(asked) + 1}
         /\ \A i \in AskedOf(n) : asked'[i] = asked[i]
         /\ asked'[Len(asked) + 1] = d
<1>1. Len(asked) \in Nat /\ DOMAIN asked = 1 .. Len(asked)
  OBVIOUS
<1>2. /\ asked' \in Seq(Discovery) /\ DOMAIN asked' = 1 .. Len(asked) + 1
      /\ asked'[Len(asked) + 1] = d /\ \A k \in 1 .. Len(asked) : asked'[k] = asked[k]
  BY Longer
<1> QED
  BY <1>1, <1>2 DEF AskedOf

LEMMA AskedLess ==
  ASSUME asked \in Seq(Discovery), NEW i \in DOMAIN asked, asked' = RemoveAt(asked, i), NEW n
  PROVE  /\ asked' \in Seq(Discovery)
         /\ \A k \in AskedOf(n)' : \E l \in AskedOf(n) \ {i} : asked'[k] = asked[l]
         /\ (\A a, b \in AskedOf(n) : a = b) => (\A a, b \in AskedOf(n)' : a = b)
         /\ i \notin AskedOf(n) /\ AskedOf(n) # {} => AskedOf(n)' # {}
<1> DEFINE from(k) == IF k < i THEN k ELSE k + 1
<1>1. Len(asked) \in Nat /\ DOMAIN asked = 1 .. Len(asked) /\ i \in 1 .. Len(asked)
  OBVIOUS
<1>2. /\ asked' \in Seq(Discovery) /\ DOMAIN asked' = 1 .. Len(asked) - 1
      /\ \A k \in 1 .. Len(asked) - 1 : asked'[k] = asked[from(k)]
  <2>1. /\ RemoveAt(asked, i) \in Seq(Discovery) /\ Len(RemoveAt(asked, i)) = Len(asked) - 1
        /\ \A k \in 1 .. Len(asked) - 1 : RemoveAt(asked, i)[k] = asked[from(k)]
    BY <1>1, Shorter
  <2> HIDE DEF from
  <2> QED
    BY <2>1
<1>3. ASSUME NEW k \in AskedOf(n)' PROVE from(k) \in AskedOf(n) \ {i} /\ asked'[k] = asked[from(k)]
  BY <1>1, <1>2 DEF AskedOf
<1>4. ASSUME \A a, b \in AskedOf(n) : a = b, NEW a \in AskedOf(n)', NEW b \in AskedOf(n)' PROVE a = b
  <2>1. from(a) = from(b) /\ a \in Nat /\ b \in Nat
    BY <1>2, <1>3, <1>4 DEF AskedOf
  <2> QED
    BY <1>1, <2>1
<1>5. ASSUME i \notin AskedOf(n), NEW l \in AskedOf(n) PROVE AskedOf(n)' # {}
  <2>1. l \in 1 .. Len(asked) /\ l # i
    BY <1>1, <1>5 DEF AskedOf
  <2>2. PICK k \in 1 .. Len(asked) - 1 : from(k) = l
    <3>1. CASE l < i
      BY <1>1, <2>1, <3>1
    <3>2. CASE l > i
      <4>1. l - 1 \in 1 .. Len(asked) - 1 /\ from(l - 1) = l
        BY <1>1, <2>1, <3>2
      <4> QED
        BY <4>1
    <3> QED
      BY <1>1, <2>1, <3>1, <3>2
  <2>3. k \in AskedOf(n)'
    BY <1>2, <2>2 DEF AskedOf
  <2> QED
    BY <2>3
<1> QED
  BY <1>2, <1>3, <1>4, <1>5

LEMMA ForgetsMore ==
  ASSUME forgets \in Seq(ServerNames), NEW m \in ServerNames, forgets' = Append(forgets, m), NEW n
  PROVE  /\ forgets' \in Seq(ServerNames)
         /\ m # n => ForgetsOf(n)' = ForgetsOf(n)
         /\ m = n => ForgetsOf(n)' = ForgetsOf(n) \cup {Len(forgets) + 1}
<1>1. Len(forgets) \in Nat /\ DOMAIN forgets = 1 .. Len(forgets)
  OBVIOUS
<1>2. /\ forgets' \in Seq(ServerNames) /\ DOMAIN forgets' = 1 .. Len(forgets) + 1
      /\ forgets'[Len(forgets) + 1] = m /\ \A k \in 1 .. Len(forgets) : forgets'[k] = forgets[k]
  BY Longer
<1> QED
  BY <1>1, <1>2 DEF ForgetsOf

LEMMA ForgetsLess ==
  ASSUME forgets \in Seq(ServerNames), NEW i \in DOMAIN forgets, forgets' = RemoveAt(forgets, i), NEW n
  PROVE  /\ forgets' \in Seq(ServerNames)
         /\ \A k \in ForgetsOf(n)' : \E l \in ForgetsOf(n) \ {i} : TRUE
         /\ (\A a, b \in ForgetsOf(n) : a = b) => (\A a, b \in ForgetsOf(n)' : a = b)
         /\ i \notin ForgetsOf(n) /\ ForgetsOf(n) # {} => ForgetsOf(n)' # {}
<1> DEFINE from(k) == IF k < i THEN k ELSE k + 1
<1>1. Len(forgets) \in Nat /\ DOMAIN forgets = 1 .. Len(forgets) /\ i \in 1 .. Len(forgets)
  OBVIOUS
<1>2. /\ forgets' \in Seq(ServerNames) /\ DOMAIN forgets' = 1 .. Len(forgets) - 1
      /\ \A k \in 1 .. Len(forgets) - 1 : forgets'[k] = forgets[from(k)]
  <2>1. /\ RemoveAt(forgets, i) \in Seq(ServerNames) /\ Len(RemoveAt(forgets, i)) = Len(forgets) - 1
        /\ \A k \in 1 .. Len(forgets) - 1 : RemoveAt(forgets, i)[k] = forgets[from(k)]
    BY <1>1, Shorter
  <2> HIDE DEF from
  <2> QED
    BY <2>1
<1>3. ASSUME NEW k \in ForgetsOf(n)' PROVE from(k) \in ForgetsOf(n) \ {i}
  BY <1>1, <1>2 DEF ForgetsOf
<1>4. ASSUME \A a, b \in ForgetsOf(n) : a = b, NEW a \in ForgetsOf(n)', NEW b \in ForgetsOf(n)' PROVE a = b
  <2>1. from(a) = from(b) /\ a \in Nat /\ b \in Nat
    BY <1>2, <1>3, <1>4 DEF ForgetsOf
  <2> QED
    BY <1>1, <2>1
<1>5. ASSUME i \notin ForgetsOf(n), NEW l \in ForgetsOf(n) PROVE ForgetsOf(n)' # {}
  <2>1. l \in 1 .. Len(forgets) /\ l # i
    BY <1>1, <1>5 DEF ForgetsOf
  <2>2. PICK k \in 1 .. Len(forgets) - 1 : from(k) = l
    <3>1. CASE l < i
      BY <1>1, <2>1, <3>1
    <3>2. CASE l > i
      <4>1. l - 1 \in 1 .. Len(forgets) - 1 /\ from(l - 1) = l
        BY <1>1, <2>1, <3>2
      <4> QED
        BY <4>1
    <3> QED
      BY <1>1, <2>1, <3>1, <3>2
  <2>3. k \in ForgetsOf(n)'
    BY <1>2, <2>2 DEF ForgetsOf
  <2> QED
    BY <2>3
<1> QED
  BY <1>2, <1>3, <1>4, <1>5

\* A server that nothing happens to.
LEMMA Unmoved ==
  ASSUME NEW n, InOrder(n), OneCall(n)', boot' = boot, servers'[n] = servers[n],
         cache'[n] = cache[n], statusByName'[n] = statusByName[n],
         \A k \in AskedOf(n)' : \E l \in AskedOf(n) : asked'[k] = asked[l],
         \A k \in BootsOf(n)' : \E l \in BootsOf(n) : toBoot'[k] = toBoot[l],
         AskedOf(n) # {} => AskedOf(n)' # {},
         ForgetsOf(n)' = {} <=> ForgetsOf(n) = {}, BootsOf(n) # {} => BootsOf(n)' # {}
  PROVE  InOrder(n)'
<1>1. CallsAreCurrent(n)'
  BY DEF InOrder, CallsAreCurrent
<1>2. NothingBefore(n)'
  BY DEF InOrder, NothingBefore
<1>3. Settled(n)'
  BY DEF InOrder, Settled, NothingDue
<1> QED
  BY <1>1, <1>2, <1>3 DEF InOrder

\* A discovery begins, of another server,
LEMMA AnotherAsked ==
  ASSUME ServersTypeOK, NEW server \in Saved, NEW atBoot \in BOOLEAN, Asking(server, atBoot),
         NEW n \in ServerNames, InOrder(n), server.name # n, servers'[n] = servers[n],
         UNCHANGED <<boot, cache, forgets>>,
         \A k \in BootsOf(n)' : \E l \in BootsOf(n) : toBoot'[k] = toBoot[l],
         \A k, l \in BootsOf(n)' : k = l,
         BootsOf(n) # {} => BootsOf(n)' # {}
  PROVE  InOrder(n)'
<1> DEFINE d == [server |-> server, pc |-> "runs", boot |-> atBoot]
<1>1. d \in Discovery /\ d.server = server
  BY DEF Discovery
<1>2. asked \in Seq(Discovery) /\ asked' = Append(asked, d)
  BY DEF ServersTypeOK, Asking
<1> HIDE DEF d
<1>3. ForgetsOf(n)' = ForgetsOf(n)
  BY DEF ForgetsOf
<1>4. AskedOf(n)' = AskedOf(n) /\ \A i \in AskedOf(n) : asked'[i] = asked[i]
  BY <1>1, <1>2, AskedMore
<1>5. statusByName'[n] = statusByName[n]
  BY DEF Asking, ServersTypeOK, Saved
<1>6. OneCall(n)'
  BY <1>3, <1>4 DEF InOrder, OneCall
<1> QED
  BY <1>3, <1>4, <1>5, <1>6, Unmoved

\* or of a server that nothing else is due for.
LEMMA ItIsAsked ==
  ASSUME ServersTypeOK, NEW server \in Saved, NEW atBoot \in BOOLEAN, Asking(server, atBoot),
         NEW n \in ServerNames, server.name = n, servers'[n] = server.command,
         boot' = "up", UNCHANGED <<cache, forgets>>,
         AskedOf(n) = {}, ForgetsOf(n) = {}, BootsOf(n)' = {}
  PROVE  InOrder(n)'
<1> DEFINE d == [server |-> server, pc |-> "runs", boot |-> atBoot]
<1>1. d \in Discovery /\ d.server = server /\ d.pc = "runs"
  BY DEF Discovery
<1>2. asked \in Seq(Discovery) /\ asked' = Append(asked, d)
  BY DEF ServersTypeOK, Asking
<1> HIDE DEF d
<1>3. ForgetsOf(n)' = {}
  BY DEF ForgetsOf
<1>4. AskedOf(n)' = {Len(asked) + 1} /\ asked'[Len(asked) + 1] = d
  BY <1>1, <1>2, AskedMore
<1>5. OneCall(n)'
  BY <1>3, <1>4 DEF OneCall
<1>6. CallsAreCurrent(n)'
  BY <1>1, <1>3, <1>4 DEF CallsAreCurrent
<1>7. NothingBefore(n)' /\ Settled(n)'
  BY <1>4 DEF NothingBefore, Settled, NothingDue
<1> QED
  BY <1>5, <1>6, <1>7 DEF InOrder

LEMMA PersistStep ==
  ASSUME ServersTypeOK, ListsAreCurrent, Persist(servers'), servers' \in ServerLists,
         UNCHANGED <<boot, onDisk>>
  PROVE  /\ lists' \in Seq(ServerLists) /\ misordered' \in BOOLEAN
         /\ ListsAreCurrent'
<1>1. lists \in Seq(ServerLists) /\ lists' = Append(lists, servers')
      /\ misordered' = (misordered \/ boot # "up")
  BY DEF ServersTypeOK, Persist
<1>2. /\ lists' \in Seq(ServerLists) /\ lists' # <<>> /\ lists'[Len(lists')] = servers'
  BY <1>1, Longer
<1> QED
  BY <1>1, <1>2 DEF ServersTypeOK, ListsAreCurrent

\* A gesture on a server that is met by nothing finds nothing due.
LEMMA GestureStep ==
  ASSUME ServersTypeOK, NEW n \in ServerNames, Gesture(n)
  PROVE  /\ calls' \in 0 .. MaxCalls /\ met \subseteq met' /\ met' \subseteq ServerNames
         /\ n \notin met' => NothingDue(n) /\ n \notin met
<1>1. calls \in 0 .. MaxCalls /\ calls < MaxCalls /\ calls' = calls + 1 /\ met \subseteq ServerNames
  BY DEF ServersTypeOK, Gesture
<1>2. calls' \in 0 .. MaxCalls
  BY <1>1, ServerConstants
<1> QED
  BY <1>1, <1>2, DueMeans DEF Gesture

LEMMA AskingTypes ==
  ASSUME ServersTypeOK, NEW server \in Saved, NEW atBoot \in BOOLEAN, Asking(server, atBoot)
  PROVE  /\ asked' \in Seq(Discovery)
         /\ statusByName' \in [ServerNames ->
              [state : {"none", "idle", "connecting", "connected", "error"},
               tools : ServerCommands \cup {Unset}]]
<1>1. [server |-> server, pc |-> "runs", boot |-> atBoot] \in Discovery
  BY DEF Discovery
<1>2. Shown("connecting", Unset) \in
        [state : {"none", "idle", "connecting", "connected", "error"},
         tools : ServerCommands \cup {Unset}]
  BY DEF Shown
<1>3. server.name \in ServerNames
  BY DEF Saved
<1> QED
  BY <1>1, <1>2, <1>3, Longer DEF Asking, ServersTypeOK

LEMMA AddServerStep ==
  ASSUME ServersInv, NEW n \in ServerNames, NEW command \in ServerCommands, AddServer(n, command)
  PROVE  ServersInv'
<1> DEFINE server == [name |-> n, command |-> command]
<1>1. ServersTypeOK /\ ListsAreCurrent /\ server \in Saved /\ server.name = n /\ server.command = command
  BY DEF ServersInv, Saved
<1>2. Asking(server, FALSE) /\ Gesture(n) /\ Persist(servers')
      /\ servers' = [servers EXCEPT ![n] = command]
      /\ UNCHANGED <<cache, boot, toBoot, forgets, onDisk>>
  BY DEF AddServer
<1> HIDE DEF server
<1>3. servers' \in ServerLists /\ servers'[n] = command /\ \A m \in ServerNames : m # n => servers'[m] = servers[m]
  BY <1>1, <1>2 DEF ServersTypeOK, ServerLists
<1>4. ServersTypeOK'
  BY <1>1, <1>2, <1>3, AskingTypes, PersistStep, GestureStep DEF ServersTypeOK
<1>5. ListsAreCurrent'
  BY <1>1, <1>2, <1>3, PersistStep
<1>6. ASSUME NEW m \in ServerNames \ met' PROVE InOrder(m)'
  <2>1. m \notin met /\ InOrder(m) /\ OneCall(m)
    BY <1>1, <1>2, GestureStep DEF ServersInv, InOrder
  <2>2. BootsOf(m)' = BootsOf(m)
    BY <1>2 DEF BootsOf
  <2>3. m = n => NothingDue(m)
    BY <1>1, <1>2, GestureStep
  <2>4. CASE m = n
    BY <1>1, <1>2, <1>3, <2>2, <2>3, <2>4, ItIsAsked DEF NothingDue
  <2>5. CASE m # n
    <3>1. /\ \A k \in BootsOf(m)' : \E l \in BootsOf(m) : toBoot'[k] = toBoot[l]
          /\ \A k, l \in BootsOf(m)' : k = l
      BY <1>2, <2>1, <2>2 DEF OneCall
    <3> QED
      BY <1>1, <1>2, <1>3, <2>1, <2>2, <2>5, <3>1, AnotherAsked
  <2> QED
    BY <2>4, <2>5
<1> QED
  BY <1>2, <1>4, <1>5, <1>6 DEF ServersInv

LEMMA RediscoverStep ==
  ASSUME ServersInv, NEW n \in ServerNames, Rediscover(n)
  PROVE  ServersInv'
<1> DEFINE server == [name |-> n, command |-> servers[n]]
<1>1. ServersTypeOK /\ ListsAreCurrent /\ server \in Saved /\ server.name = n /\ server.command = servers[n]
  BY DEF ServersInv, Saved, ServersTypeOK, ServerLists, Rediscover
<1>2. Asking(server, FALSE) /\ Gesture(n)
      /\ UNCHANGED <<servers, cache, boot, toBoot, forgets, lists, onDisk, misordered>>
  BY DEF Rediscover
<1> HIDE DEF server
<1>4. ServersTypeOK'
  BY <1>1, <1>2, AskingTypes, GestureStep DEF ServersTypeOK
<1>5. ListsAreCurrent'
  BY <1>1, <1>2 DEF ListsAreCurrent
<1>6. ASSUME NEW m \in ServerNames \ met' PROVE InOrder(m)'
  <2>1. m \notin met /\ InOrder(m) /\ OneCall(m)
    BY <1>1, <1>2, GestureStep DEF ServersInv, InOrder
  <2>2. BootsOf(m)' = BootsOf(m)
    BY <1>2 DEF BootsOf
  <2>3. m = n => NothingDue(m)
    BY <1>1, <1>2, GestureStep
  <2>4. CASE m = n
    BY <1>1, <1>2, <2>2, <2>3, <2>4, ItIsAsked DEF NothingDue
  <2>5. CASE m # n
    <3>1. /\ \A k \in BootsOf(m)' : \E l \in BootsOf(m) : toBoot'[k] = toBoot[l]
          /\ \A k, l \in BootsOf(m)' : k = l
      BY <1>2, <2>1, <2>2 DEF OneCall
    <3> QED
      BY <1>1, <1>2, <2>1, <2>2, <2>5, <3>1, AnotherAsked
  <2> QED
    BY <2>4, <2>5
<1> QED
  BY <1>2, <1>4, <1>5, <1>6 DEF ServersInv

\* Bootstrap's next server is discovered.
LEMMA DiscoverNextStep == ASSUME ServersInv, DiscoverNext PROVE ServersInv'
<1> DEFINE server == Head(toBoot)
<1>1. /\ ServersTypeOK /\ ListsAreCurrent /\ toBoot \in Seq(Saved) /\ toBoot # <<>> /\ boot = "up"
  BY DEF ServersInv, ServersTypeOK, DiscoverNext
<1>2. /\ server \in Saved /\ server = toBoot[1] /\ Len(toBoot) \in Nat \ {0}
      /\ Tail(toBoot) \in Seq(Saved) /\ Len(Tail(toBoot)) = Len(toBoot) - 1
      /\ \A k \in 1 .. Len(toBoot) - 1 : Tail(toBoot)[k] = toBoot[k + 1]
  BY <1>1, Rest
<1> HIDE DEF server
<1>3. /\ Asking(server, TRUE) /\ toBoot' = Tail(toBoot)
      /\ met' = IF Called(server.name) THEN met \cup {server.name} ELSE met
      /\ UNCHANGED <<servers, cache, boot, forgets, lists, onDisk, calls, misordered>>
  BY DEF DiscoverNext, server
<1>4. met \subseteq met' /\ met' \subseteq ServerNames
  BY <1>1, <1>2, <1>3 DEF ServersTypeOK, Saved
<1>5. ServersTypeOK'
  BY <1>1, <1>2, <1>3, <1>4, AskingTypes DEF ServersTypeOK
<1>6. ListsAreCurrent'
  BY <1>1, <1>3 DEF ListsAreCurrent
<1>7. DOMAIN toBoot = 1 .. Len(toBoot) /\ DOMAIN toBoot' = 1 .. Len(toBoot) - 1
  BY <1>1, <1>2, <1>3
<1>8. ASSUME NEW m \in ServerNames \ met' PROVE InOrder(m)'
  <2>1. m \notin met /\ InOrder(m) /\ OneCall(m) /\ CallsAreCurrent(m)
    BY <1>4 DEF ServersInv, InOrder
  <2>2. ASSUME NEW k \in BootsOf(m)' PROVE k + 1 \in BootsOf(m) /\ toBoot'[k] = toBoot[k + 1] /\ k \in Nat \ {0}
    BY <1>2, <1>3, <1>7 DEF BootsOf
  <2>3. CASE server.name = m
    <3>1. 1 \in BootsOf(m)
      BY <1>2, <1>7, <2>3 DEF BootsOf
    <3>2. BootsOf(m)' = {} /\ servers[m] = server.command
      BY <1>2, <2>1, <2>2, <3>1 DEF OneCall, CallsAreCurrent
    <3>3. AskedOf(m) = {} /\ ForgetsOf(m) = {}
      BY <2>1, <3>1 DEF OneCall
    <3> QED
      BY <1>1, <1>2, <1>3, <2>3, <3>2, <3>3, ItIsAsked
  <2>4. CASE server.name # m
    <3>1. \A k \in BootsOf(m)' : \E l \in BootsOf(m) : toBoot'[k] = toBoot[l]
      BY <2>2
    <3>2. \A k, l \in BootsOf(m)' : k = l
      BY <2>1, <2>2 DEF OneCall
    <3>3. BootsOf(m) # {} => BootsOf(m)' # {}
      <4>1. ASSUME NEW l \in BootsOf(m) PROVE l - 1 \in BootsOf(m)'
        <5>1. l \in 1 .. Len(toBoot) /\ toBoot[l].name = m /\ l # 1
          BY <1>2, <1>7, <2>4 DEF BootsOf
        <5>2. l - 1 \in 1 .. Len(toBoot) - 1 /\ toBoot'[l - 1] = toBoot[l]
          BY <1>2, <1>3, <5>1
        <5> QED
          BY <1>7, <5>1, <5>2 DEF BootsOf
      <4> QED
        BY <4>1
    <3> QED
      BY <1>1, <1>2, <1>3, <2>1, <2>4, <3>1, <3>2, <3>3, AnotherAsked
  <2> QED
    BY <2>3, <2>4
<1> QED
  BY <1>1, <1>3, <1>5, <1>6, <1>8 DEF ServersInv

LEMMA RemoveServerStep ==
  ASSUME ServersInv, NEW n \in ServerNames, RemoveServer(n)
  PROVE  ServersInv'
<1>1. ServersTypeOK /\ ListsAreCurrent /\ forgets \in Seq(ServerNames)
  BY DEF ServersInv, ServersTypeOK
<1>2. /\ Gesture(n) /\ Persist(servers') /\ forgets' = Append(forgets, n)
      /\ servers' = [servers EXCEPT ![n] = Unset]
      /\ statusByName' = [statusByName EXCEPT ![n] = NotShown]
      /\ UNCHANGED <<cache, boot, toBoot, asked, onDisk>>
  BY DEF RemoveServer
<1>3. servers' \in ServerLists
  BY <1>1, <1>2 DEF ServersTypeOK, ServerLists
<1>4. statusByName' \in [ServerNames ->
        [state : {"none", "idle", "connecting", "connected", "error"},
         tools : ServerCommands \cup {Unset}]]
  BY <1>1, <1>2 DEF ServersTypeOK, NotShown
<1>5. ServersTypeOK'
  BY <1>1, <1>2, <1>3, <1>4, ForgetsMore, PersistStep, GestureStep DEF ServersTypeOK
<1>6. ListsAreCurrent'
  BY <1>1, <1>2, <1>3, PersistStep
<1>7. ASSUME NEW m \in ServerNames \ met' PROVE InOrder(m)'
  <2>1. m \notin met /\ InOrder(m) /\ OneCall(m)
    BY <1>1, <1>2, GestureStep DEF ServersInv, InOrder
  <2>2. BootsOf(m)' = BootsOf(m) /\ AskedOf(m)' = AskedOf(m)
    BY <1>2 DEF BootsOf, AskedOf
  <2>3. CASE m = n
    <3>1. NothingDue(m)
      BY <1>1, <1>2, <2>3, GestureStep
    <3>2. ForgetsOf(m)' = {Len(forgets) + 1}
      BY <1>1, <1>2, <2>3, <3>1, ForgetsMore DEF NothingDue
    <3>3. servers'[m] = Unset /\ statusByName'[m] = NotShown
      BY <1>1, <1>2, <2>3 DEF ServersTypeOK, ServerLists
    <3>4. OneCall(m)' /\ CallsAreCurrent(m)'
      BY <2>2, <3>1, <3>2, <3>3 DEF OneCall, CallsAreCurrent, NothingDue
    <3> QED
      BY <1>2, <3>1, <3>2, <3>4 DEF InOrder, NothingBefore, Settled, NothingDue
  <2>4. CASE m # n
    <3>1. ForgetsOf(m)' = ForgetsOf(m)
      BY <1>1, <1>2, <2>4, ForgetsMore
    <3>2. servers'[m] = servers[m] /\ statusByName'[m] = statusByName[m]
      BY <1>1, <1>2, <2>4 DEF ServersTypeOK, ServerLists
    <3>3. OneCall(m)'
      BY <2>1, <2>2, <3>1 DEF OneCall
    <3> QED
      BY <1>2, <2>1, <2>2, <3>1, <3>2, <3>3, Unmoved
  <2> QED
    BY <2>3, <2>4
<1> QED
  BY <1>2, <1>5, <1>6, <1>7 DEF ServersInv

\* A discovery ends.
LEMMA EndsStep ==
  ASSUME ServersInv, NEW i \in DOMAIN asked, NEW how \in {"found", "failed"}, Ends(i, how)
  PROVE  ServersInv'
<1>1. ServersTypeOK /\ asked \in Seq(Discovery) /\ i \in 1 .. Len(asked)
  BY DEF ServersInv, ServersTypeOK
<1>2. asked[i] \in Discovery
  BY <1>1
<1> DEFINE d == [asked[i] EXCEPT !.pc = how]
<1>3. d \in Discovery
  BY <1>2 DEF Discovery
<1>4. d.server = asked[i].server /\ d.pc = how /\ asked[i].server.name \in ServerNames
      /\ asked[i].server.command \in ServerCommands
  BY <1>2 DEF Discovery, Saved
<1>5. /\ asked' = [asked EXCEPT ![i] = d]
      /\ cache' = IF how = "found"
                  THEN [cache EXCEPT ![asked[i].server.name] = asked[i].server.command] ELSE cache
      /\ UNCHANGED <<servers, statusByName, boot, toBoot, forgets, lists, onDisk, calls, met,
                     misordered>>
  BY DEF Ends
<1> HIDE DEF d
<1>6. /\ asked' \in Seq(Discovery) /\ DOMAIN asked' = DOMAIN asked /\ asked'[i] = d
      /\ \A k \in DOMAIN asked : k # i => asked'[k] = asked[k]
  BY <1>1, <1>3, <1>5, ExceptSeq
<1>7. cache' \in ServerLists
  BY <1>1, <1>4, <1>5 DEF ServersTypeOK, ServerLists
<1>8. ServersTypeOK'
  BY <1>1, <1>5, <1>6, <1>7 DEF ServersTypeOK
<1>9. ASSUME NEW m \in ServerNames \ met' PROVE InOrder(m)'
  <2>1. InOrder(m) /\ OneCall(m) /\ CallsAreCurrent(m)
    BY <1>5 DEF ServersInv, InOrder
  <2>2. BootsOf(m)' = BootsOf(m) /\ ForgetsOf(m)' = ForgetsOf(m) /\ AskedOf(m)' = AskedOf(m)
    BY <1>4, <1>5, <1>6 DEF BootsOf, ForgetsOf, AskedOf
  <2>3. OneCall(m)'
    BY <2>1, <2>2 DEF OneCall
  <2>4. CASE i \in AskedOf(m)
    <3>1. asked[i].server.name = m /\ asked[i].server.command = servers[m]
      BY <2>1, <2>4 DEF AskedOf, CallsAreCurrent
    <3>2. how = "found" => cache'[m] = servers[m]
      BY <1>1, <1>5, <3>1 DEF ServersTypeOK, ServerLists
    <3>3. CallsAreCurrent(m)'
      BY <1>4, <1>5, <1>6, <2>1, <2>2, <2>4, <3>1, <3>2 DEF CallsAreCurrent, OneCall
    <3>4. NothingBefore(m)' /\ Settled(m)'
      BY <1>5, <2>1, <2>2, <2>4 DEF InOrder, NothingBefore, Settled, NothingDue
    <3> QED
      BY <2>3, <3>3, <3>4 DEF InOrder
  <2>5. CASE i \notin AskedOf(m)
    <3>1. cache'[m] = cache[m]
      BY <1>1, <1>4, <1>5, <2>5 DEF AskedOf, ServersTypeOK, ServerLists
    <3>2. \A k \in AskedOf(m)' : k \in AskedOf(m) /\ asked'[k] = asked[k]
      BY <1>6, <2>2, <2>5 DEF AskedOf
    <3> QED
      BY <1>5, <2>1, <2>2, <2>3, <3>1, <3>2, Unmoved
  <2> QED
    BY <2>4, <2>5
<1> QED
  BY <1>5, <1>8, <1>9 DEF ServersInv, ListsAreCurrent

\* Its answer reaches the panel.
LEMMA ReplyStep == ASSUME ServersInv, NEW i \in DOMAIN asked, Reply(i) PROVE ServersInv'
<1>1. ServersTypeOK /\ asked \in Seq(Discovery) /\ i \in 1 .. Len(asked)
  BY DEF ServersInv, ServersTypeOK
<1>2. asked[i] \in Discovery
  BY <1>1
<1>3. asked[i].server.name \in ServerNames /\ asked[i].server.command \in ServerCommands
      /\ asked[i].pc \in {"found", "failed"}
  BY <1>2 DEF Discovery, Saved, Reply
<1> DEFINE shown == IF asked[i].pc = "found" THEN Shown("connected", asked[i].server.command)
                    ELSE Shown("error", Unset)
<1>4. /\ statusByName' = [statusByName EXCEPT ![asked[i].server.name] = shown]
      /\ asked' = RemoveAt(asked, i)
      /\ UNCHANGED <<servers, cache, boot, toBoot, forgets, lists, onDisk, calls, met, misordered>>
  BY DEF Reply
<1>5. /\ shown \in [state : {"none", "idle", "connecting", "connected", "error"},
                    tools : ServerCommands \cup {Unset}]
      /\ shown.state \in {"connected", "error"}
      /\ shown.state = "connected" => asked[i].pc = "found" /\ shown.tools = asked[i].server.command
  BY <1>3 DEF Shown
<1> HIDE DEF shown
<1>6. asked' \in Seq(Discovery)
  BY <1>1, <1>4, AskedLess
<1>7. ServersTypeOK'
  BY <1>1, <1>3, <1>4, <1>5, <1>6 DEF ServersTypeOK
<1>8. ASSUME NEW m \in ServerNames \ met' PROVE InOrder(m)'
  <2>1. InOrder(m) /\ OneCall(m) /\ CallsAreCurrent(m) /\ NothingBefore(m)
    BY <1>4 DEF ServersInv, InOrder
  <2>2. BootsOf(m)' = BootsOf(m) /\ ForgetsOf(m)' = ForgetsOf(m)
    BY <1>4 DEF BootsOf, ForgetsOf
  <2>3. \A k \in AskedOf(m)' : \E l \in AskedOf(m) \ {i} : asked'[k] = asked[l]
    BY <1>1, <1>4, AskedLess
  <2>4. \A a, b \in AskedOf(m)' : a = b
    BY <1>1, <1>4, <2>1, AskedLess DEF OneCall
  <2>5. OneCall(m)'
    BY <2>1, <2>2, <2>3, <2>4 DEF OneCall
  <2>6. CASE i \in AskedOf(m)
    <3>1. asked[i].server.name = m /\ asked[i].server.command = servers[m]
          /\ (asked[i].pc = "found" => cache[m] = servers[m])
      BY <2>1, <2>6 DEF AskedOf, CallsAreCurrent
    <3>2. statusByName'[m] = shown /\ servers[m] # Unset
      BY <1>1, <1>3, <1>4, <3>1, ServerConstants DEF ServersTypeOK
    <3>3. AskedOf(m)' = {} /\ BootsOf(m)' = {} /\ ForgetsOf(m)' = {} /\ boot' = "up"
      BY <1>4, <2>1, <2>2, <2>3, <2>6 DEF OneCall, NothingBefore
    <3>4. CallsAreCurrent(m)' /\ NothingBefore(m)'
      BY <3>3 DEF CallsAreCurrent, NothingBefore
    <3>5. Settled(m)'
      BY <1>4, <1>5, <3>1, <3>2 DEF Settled
    <3> QED
      BY <2>5, <3>4, <3>5 DEF InOrder
  <2>7. CASE i \notin AskedOf(m)
    <3>1. statusByName'[m] = statusByName[m]
      BY <1>1, <1>3, <1>4, <2>7 DEF AskedOf, ServersTypeOK
    <3>2. AskedOf(m) # {} => AskedOf(m)' # {}
      BY <1>1, <1>4, <2>7, AskedLess
    <3>3. \A k \in BootsOf(m)' : \E l \in BootsOf(m) : toBoot'[k] = toBoot[l]
      BY <1>4, <2>2
    <3> QED
      BY <1>4, <2>1, <2>2, <2>3, <2>5, <3>1, <3>2, <3>3, Unmoved
  <2> QED
    BY <2>6, <2>7
<1> QED
  BY <1>4, <1>7, <1>8 DEF ServersInv, ListsAreCurrent

LEMMA ForgetStep == ASSUME ServersInv, NEW i \in DOMAIN forgets, Forget(i) PROVE ServersInv'
<1>1. ServersTypeOK /\ forgets \in Seq(ServerNames) /\ i \in 1 .. Len(forgets)
  BY DEF ServersInv, ServersTypeOK
<1>2. forgets[i] \in ServerNames
  BY <1>1
<1>3. /\ cache' = [cache EXCEPT ![forgets[i]] = Unset] /\ forgets' = RemoveAt(forgets, i)
      /\ UNCHANGED <<servers, statusByName, boot, toBoot, asked, lists, onDisk, calls, met,
                     misordered>>
  BY DEF Forget
<1>4. forgets' \in Seq(ServerNames) /\ cache' \in ServerLists
  BY <1>1, <1>2, <1>3, ForgetsLess DEF ServersTypeOK, ServerLists
<1>5. ServersTypeOK'
  BY <1>1, <1>3, <1>4 DEF ServersTypeOK
<1>6. ASSUME NEW m \in ServerNames \ met' PROVE InOrder(m)'
  <2>1. InOrder(m) /\ OneCall(m) /\ CallsAreCurrent(m) /\ NothingBefore(m)
    BY <1>3 DEF ServersInv, InOrder
  <2>2. BootsOf(m)' = BootsOf(m) /\ AskedOf(m)' = AskedOf(m)
    BY <1>3 DEF BootsOf, AskedOf
  <2>3. \A k \in ForgetsOf(m)' : \E l \in ForgetsOf(m) \ {i} : TRUE
    BY <1>1, <1>3, ForgetsLess
  <2>4. \A a, b \in ForgetsOf(m)' : a = b
    BY <1>1, <1>3, <2>1, ForgetsLess DEF OneCall
  <2>5. OneCall(m)'
    BY <2>1, <2>2, <2>3, <2>4 DEF OneCall
  <2>6. CASE i \in ForgetsOf(m)
    <3>1. servers[m] = Unset /\ statusByName[m] = NotShown /\ cache'[m] = Unset
      BY <1>1, <1>2, <1>3, <2>1, <2>6 DEF ForgetsOf, CallsAreCurrent, ServersTypeOK, ServerLists
    <3>2. AskedOf(m)' = {} /\ BootsOf(m)' = {} /\ ForgetsOf(m)' = {} /\ boot' = "up"
      BY <1>3, <2>1, <2>2, <2>3, <2>6 DEF OneCall, NothingBefore
    <3>3. CallsAreCurrent(m)' /\ NothingBefore(m)'
      BY <3>2 DEF CallsAreCurrent, NothingBefore
    <3>4. Settled(m)'
      BY <1>3, <3>1 DEF Settled, NotShown
    <3> QED
      BY <2>5, <3>3, <3>4 DEF InOrder
  <2>7. CASE i \notin ForgetsOf(m)
    <3>1. cache'[m] = cache[m]
      BY <1>1, <1>2, <1>3, <2>7 DEF ForgetsOf, ServersTypeOK, ServerLists
    <3>2. ForgetsOf(m)' = {} <=> ForgetsOf(m) = {}
      BY <1>1, <1>3, <2>3, <2>7, ForgetsLess
    <3>3. /\ \A k \in BootsOf(m)' : \E l \in BootsOf(m) : toBoot'[k] = toBoot[l]
          /\ \A k \in AskedOf(m)' : \E l \in AskedOf(m) : asked'[k] = asked[l]
      BY <1>3, <2>2
    <3> QED
      BY <1>3, <2>1, <2>2, <2>5, <3>1, <3>2, <3>3, Unmoved
  <2> QED
    BY <2>6, <2>7
<1> QED
  BY <1>3, <1>5, <1>6 DEF ServersInv, ListsAreCurrent

\* A write of the list lands.
LEMMA LandsStep == ASSUME ServersInv, NEW i \in DOMAIN lists, Lands(i) PROVE ServersInv'
<1>1. ServersTypeOK /\ lists \in Seq(ServerLists) /\ i \in 1 .. Len(lists) /\ Len(lists) \in Nat
  BY DEF ServersInv, ServersTypeOK
<1>2. lists[i] \in ServerLists
  BY <1>1
<1>3. /\ RemoveAt(lists, i) \in Seq(ServerLists) /\ Len(RemoveAt(lists, i)) = Len(lists) - 1
      /\ \A k \in 1 .. Len(lists) - 1 : RemoveAt(lists, i)[k] = lists[IF k < i THEN k ELSE k + 1]
  BY <1>1, Shorter
<1>4. /\ onDisk' = lists[i] /\ lists' = RemoveAt(lists, i) /\ misordered' = (misordered \/ i # 1)
      /\ UNCHANGED <<servers, statusByName, cache, boot, toBoot, asked, forgets, calls, met>>
  BY DEF Lands
<1>5. ServersTypeOK'
  BY <1>1, <1>2, <1>3, <1>4 DEF ServersTypeOK
<1>6. ListsAreCurrent'
  <2> SUFFICES ASSUME ~misordered' PROVE /\ boot' = "up"
                                         /\ lists' = <<>> => onDisk' = servers'
                                         /\ lists' # <<>> => lists'[Len(lists')] = servers'
    BY DEF ListsAreCurrent
  <2>1. ~misordered /\ i = 1
    BY <1>4
  <2>0. lists # <<>>
    BY <1>1
  <2>2. boot = "up" /\ lists[Len(lists)] = servers
    BY <2>0, <2>1 DEF ServersInv, ListsAreCurrent
  <2>3. CASE Len(lists) = 1
    <3>1. lists' = <<>>
      BY <1>3, <1>4, <2>3, EmptySeq
    <3> QED
      BY <1>4, <2>1, <2>2, <2>3, <3>1
  <2>4. CASE Len(lists) # 1
    <3>1. Len(lists') \in 1 .. Len(lists) - 1
      BY <1>1, <1>3, <1>4, <2>4
    <3>2. lists'[Len(lists')] = lists[Len(lists)] /\ lists' # <<>>
      BY <1>1, <1>3, <1>4, <2>1, <3>1
    <3> QED
      BY <1>4, <2>2, <3>2
  <2> QED
    BY <2>3, <2>4
<1>7. ASSUME NEW m \in ServerNames \ met' PROVE InOrder(m)'
  <2>1. InOrder(m) /\ OneCall(m)
    BY <1>4 DEF ServersInv, InOrder
  <2>2. BootsOf(m)' = BootsOf(m) /\ ForgetsOf(m)' = ForgetsOf(m) /\ AskedOf(m)' = AskedOf(m)
    BY <1>4 DEF BootsOf, ForgetsOf, AskedOf
  <2>3. OneCall(m)'
    BY <2>1, <2>2 DEF OneCall
  <2>4. /\ \A k \in BootsOf(m)' : \E l \in BootsOf(m) : toBoot'[k] = toBoot[l]
        /\ \A k \in AskedOf(m)' : \E l \in AskedOf(m) : asked'[k] = asked[l]
    BY <1>4, <2>2
  <2> QED
    BY <1>4, <2>1, <2>2, <2>3, <2>4, Unmoved
<1> QED
  BY <1>4, <1>5, <1>6, <1>7 DEF ServersInv

\* The list was read: bootstrap has a turn for every server in it.
LEMMA RestoreStep == ASSUME ServersInv, Restore PROVE ServersInv'
<1> DEFINE read == {s \in Saved : onDisk[s.name] = s.command}
<1>1. /\ ServersTypeOK /\ ListsAreCurrent /\ onDisk \in ServerLists
  BY DEF ServersInv, ServersTypeOK
<1>2. /\ boot = "loading" /\ boot' = "up" /\ servers' = onDisk /\ statusByName' = Restored(onDisk)
      /\ toBoot' \in SetToSeqs(read)
      /\ UNCHANGED <<cache, asked, forgets, lists, onDisk, calls, met, misordered>>
  BY DEF Restore
<1>3. IsFiniteSet(read)
  <2>1. [s \in read |-> s.name] \in Injection(read, ServerNames)
    <3>1. ASSUME NEW s \in read PROVE s.name \in ServerNames /\ s = [name |-> s.name, command |-> onDisk[s.name]]
      BY DEF Saved
    <3> QED
      BY <3>1 DEF Injection, IsInjective
  <2> QED
    BY <2>1, FS_Injection, ServerConstants
<1>4. /\ Cardinality(read) \in Nat /\ toBoot' \in [1 .. Cardinality(read) -> read]
      /\ \A i, j \in 1 .. Cardinality(read) : i # j => toBoot'[i] # toBoot'[j]
  BY <1>2, <1>3, FS_CardinalityType DEF SetToSeqs
<1>5. \A s \in read : \E i \in 1 .. Cardinality(read) : toBoot'[i] = s
  <2>1. toBoot' \in Injection(1 .. Cardinality(read), read)
    BY <1>4 DEF Injection, IsInjective
  <2>2. Cardinality(1 .. Cardinality(read)) = Cardinality(read)
    BY <1>4, FS_Interval
  <2>3. toBoot' \in Surjection(1 .. Cardinality(read), read)
    BY <1>3, <2>1, <2>2, FS_Injection
  <2> QED
    BY <2>3 DEF Surjection
<1>6. toBoot' \in Seq(Saved) /\ DOMAIN toBoot' = 1 .. Cardinality(read)
  BY <1>4
<1>7. ServersTypeOK'
  <2>1. Restored(onDisk) \in [ServerNames ->
          [state : {"none", "idle", "connecting", "connected", "error"},
           tools : ServerCommands \cup {Unset}]]
    BY DEF Restored, NotShown, Shown
  <2> QED
    BY <1>1, <1>2, <1>6, <2>1 DEF ServersTypeOK
<1>8. ListsAreCurrent'
  BY <1>1, <1>2 DEF ListsAreCurrent
<1> HIDE DEF read
<1>9. ASSUME NEW m \in ServerNames \ met' PROVE InOrder(m)'
  <2>1. NothingBefore(m) /\ boot # "up"
    BY <1>2 DEF ServersInv, InOrder
  <2>2. AskedOf(m)' = {} /\ ForgetsOf(m)' = {} /\ cache'[m] = Unset
    BY <1>2, <2>1 DEF NothingBefore, AskedOf, ForgetsOf
  <2>3. ASSUME NEW i \in BootsOf(m)'
        PROVE  i \in 1 .. Cardinality(read) /\ toBoot'[i] = [name |-> m, command |-> onDisk[m]]
               /\ onDisk[m] # Unset
    <3>1. i \in 1 .. Cardinality(read) /\ toBoot'[i] \in read /\ toBoot'[i].name = m
      BY <1>4, <1>6 DEF BootsOf
    <3> QED
      BY <3>1, ServerConstants DEF read, Saved
  <2>4. OneCall(m)'
    BY <1>4, <2>2, <2>3 DEF OneCall
  <2>5. CallsAreCurrent(m)'
    BY <1>2, <2>2, <2>3 DEF CallsAreCurrent
  <2>6. Settled(m)'
    <3>1. CASE onDisk[m] = Unset
      BY <1>2, <2>2, <3>1 DEF Settled, Restored, NotShown
    <3>2. CASE onDisk[m] # Unset
      <4>1. [name |-> m, command |-> onDisk[m]] \in read
        BY <1>1, <3>2 DEF read, Saved, ServerLists
      <4>2. PICK i \in 1 .. Cardinality(read) : toBoot'[i] = [name |-> m, command |-> onDisk[m]]
        BY <1>5, <4>1
      <4>3. i \in BootsOf(m)'
        BY <1>6, <4>2 DEF BootsOf
      <4> QED
        BY <4>3 DEF Settled, NothingDue
    <3> QED
      BY <3>1, <3>2
  <2>7. NothingBefore(m)'
    BY <1>2 DEF NothingBefore
  <2> QED
    BY <2>4, <2>5, <2>6, <2>7 DEF InOrder
<1> QED
  BY <1>2, <1>7, <1>8, <1>9 DEF ServersInv

LEMMA ServersStep == ASSUME ServersInv, [ServersNext]_serverVars PROVE ServersInv'
<1>1. CASE Bootstrap \/ UNCHANGED serverVars
  <2>1. /\ boot' = boot \/ (boot = "off" /\ boot' = "loading")
        /\ UNCHANGED <<servers, statusByName, cache, toBoot, asked, forgets, lists, onDisk,
                       calls, met, misordered>>
    BY <1>1 DEF Bootstrap, serverVars
  <2>2. ServersTypeOK' /\ ListsAreCurrent' /\ (boot' # "up" => toBoot' = <<>>)
    BY <2>1 DEF ServersInv, ServersTypeOK, ListsAreCurrent
  <2>3. ASSUME NEW n \in ServerNames \ met PROVE InOrder(n)'
    BY <2>1 DEF ServersInv, InOrder, OneCall, CallsAreCurrent, NothingBefore, Settled, NothingDue,
       AskedOf, ForgetsOf, BootsOf
  <2> QED
    BY <2>1, <2>2, <2>3 DEF ServersInv
<1> QED
  BY <1>1, AddServerStep, RediscoverStep, RemoveServerStep, DiscoverNextStep, EndsStep, ReplyStep,
     ForgetStep, LandsStep, RestoreStep DEF ServersNext

-----------------------------------------------------------------------------
(* An open file.                                                           *)

\* Every write that is over has its time.
WritesOver ==
  {i \in Saves : saves[i].pc \in {"done", "reply", "failed", "over"}}
EditsOver == {e \in Edits : edits[e].pc = "over"}
TimesCount ==
  disk.mtime <= Cardinality(WritesOver) + Cardinality(EditsOver) + disk.foreign + 1

\* What was read of the file is not newer than the file, and what has the time of the
\* file has its text.
Fits(version) ==
  /\ version.mtime <= disk.mtime
  /\ disk.exists /\ version.mtime = disk.mtime => version.text = disk.text
NothingNewer ==
  /\ disk.mtime >= 1
  /\ pane.mtime <= disk.mtime /\ load.mtime <= disk.mtime /\ fileWatch.last <= disk.mtime
  /\ \A i \in Saves : saves[i].mtime <= disk.mtime
  /\ Fits(pane.conflict)
  /\ \A k \in 1 .. Len(changes) : Fits(changes[k])

\* The last news is that of the version the watcher has seen.
LastNewsIsLast ==
  /\ fileWatch.pc = "off" => changes = <<>>
  /\ fileWatch.pc = "on" /\ changes # <<>> /\ fileWatch.last = disk.mtime /\ disk.exists
       => changes[Len(changes)].mtime = disk.mtime

\* What was typed is on the disk, or on its way there, only once it was saved.
Typed(text) == text \cap Typings
SavedOnly ==
  /\ Typed(disk.text) \subseteq written /\ Typed(load.text) \subseteq written
  /\ Typed(pane.conflict.text) \subseteq written
  /\ \A e \in Edits : Typed(edits[e].text) \subseteq written
  /\ \A k \in 1 .. Len(changes) : Typed(changes[k].text) \subseteq written
  /\ \A i \in Saves : saves[i].pc \in {"done", "reply"} => Typed(saves[i].text) \subseteq written

\* For a user who waits for loads and saves there is one of them at a time, and what
\* counts as saved was saved.
OneAtATimeHere ==
  ~hasty => \A i \in Saves : saves[i].pc \notin {"none", "over"} =>
    load.pc = "over" /\ \A j \in Saves : j # i => saves[j].pc \in {"none", "over"}
OriginalWasSaved ==
  ~hasty =>
    /\ Typed(pane.original) \subseteq written
    /\ load.pc # "over" => Typed(pane.value) \subseteq written
    /\ \A i \in Saves : saves[i].pc \in {"called", "done", "reply"} =>
         Typed(pane.value) \subseteq saves[i].text \cup written

\* If nobody's write crosses them either, a load and a save bring the version on disk.
Calm == ~hasty /\ ~overtaken
LoadIsFresh ==
  Calm =>
    /\ load.pc \in {"done", "reply"} /\ disk.exists => load.text = disk.text
    /\ load.pc = "reply" /\ disk.exists => load.mtime = disk.mtime
    /\ load.pc = "failed" => ~disk.exists
    /\ load.pc # "over" => ~InConflict
SaveIsFresh ==
  Calm => \A i \in Saves :
    /\ saves[i].pc \in {"called", "done", "reply"} => pane.value = saves[i].text
    /\ saves[i].pc \in {"done", "reply"} /\ disk.exists => saves[i].text = disk.text
    /\ saves[i].pc = "reply" /\ disk.exists => saves[i].mtime = disk.mtime

\* Then a pane in conflict has unsaved text, and one without shows the version it has
\* the time of.
ConflictIsNews == Calm /\ InConflict => Dirty /\ pane.mtime < pane.conflict.mtime
TimeTells ==
  Calm /\ disk.exists /\ pane.mtime = disk.mtime /\ ~Dirty => pane.value = disk.text

\* And once all news has arrived, the pane has the time of the version on disk, or
\* tells of it.
OnDisk == [text |-> disk.text, mtime |-> disk.mtime]
Rested == load.pc = "over" /\ \A i \in Saves : saves[i].pc \notin {"done", "reply"}
Informed ==
  Calm /\ Rested /\ disk.exists
    /\ (fileWatch.pc = "off"
          \/ (fileWatch.pc = "on" /\ fileWatch.last = disk.mtime /\ changes = <<>>))
  => pane.mtime = disk.mtime \/ (Dirty /\ pane.conflict = OnDisk)

FilesInv ==
  /\ FilesTypeOK /\ TimesCount /\ NothingNewer /\ LastNewsIsLast /\ SavedOnly
  /\ OneAtATimeHere /\ OriginalWasSaved
  /\ LoadIsFresh /\ SaveIsFresh /\ ConflictIsNews /\ TimeTells /\ Informed


\* A time is one of the times when the writes, the edits and the others' doings count it.
LEMMA CountsFit ==
  ASSUME NEW n \in Nat, NEW f \in 0 .. MaxForeign, NEW W \in SUBSET Saves,
         NEW E \in SUBSET Edits, n <= Cardinality(W) + Cardinality(E) + f + 1
  PROVE  n \in Times
<1>1. IsFiniteSet(Saves) /\ Cardinality(Saves) = MaxSaves
  <2>1. IsFiniteSet(1 .. MaxSaves) /\ Cardinality(1 .. MaxSaves) = MaxSaves
    BY FS_Interval, FileConstants
  <2> QED
    BY <2>1 DEF Saves
<1>2. Cardinality(W) \in Nat /\ Cardinality(W) <= MaxSaves
  BY <1>1, FS_Subset, FS_CardinalityType
<1>3. Cardinality(E) \in Nat /\ Cardinality(E) <= Cardinality(Edits) /\ Cardinality(Edits) \in Nat
  BY FileConstants, FS_Subset, FS_CardinalityType
<1> QED
  BY <1>2, <1>3, FileConstants DEF Times

\* One more of a set of calls is over.
LEMMA OneMore ==
  ASSUME NEW S, IsFiniteSet(S), NEW A \in SUBSET S, NEW B \in SUBSET S, NEW x \in B \ A,
         A \subseteq B
  PROVE  Cardinality(B) \in Nat /\ Cardinality(A) \in Nat /\ Cardinality(B) >= Cardinality(A) + 1
<1>1. IsFiniteSet(A) /\ IsFiniteSet(B) /\ Cardinality(A) \in Nat /\ Cardinality(B) \in Nat
  BY FS_Subset, FS_CardinalityType
<1>2. Cardinality(A \cup {x}) = Cardinality(A) + 1 /\ IsFiniteSet(A \cup {x})
  BY <1>1, FS_AddElement
<1>3. Cardinality(A \cup {x}) <= Cardinality(B)
  BY <1>1, <1>2, FS_Subset
<1> QED
  BY <1>1, <1>2, <1>3

LEMMA SavesFinite == IsFiniteSet(Saves)
BY FS_Interval, FileConstants DEF Saves

LEMMA NoLess ==
  ASSUME NEW S, IsFiniteSet(S), NEW A \in SUBSET S, NEW B \in SUBSET S, A \subseteq B
  PROVE  Cardinality(B) \in Nat /\ Cardinality(A) \in Nat /\ Cardinality(B) >= Cardinality(A)
BY FS_Subset, FS_CardinalityType

\* The times are within their bound as soon as they are counted.
Disks == [exists : BOOLEAN, text : Texts, mtime : Nat, foreign : 0 .. MaxForeign]
LEMMA DiskFits ==
  ASSUME disk' \in Disks, TimesCount' PROVE disk'.mtime \in Times
<1>1. WritesOver' \in SUBSET Saves /\ EditsOver' \in SUBSET Edits
  BY DEF WritesOver, EditsOver
<1>2. disk'.mtime \in Nat /\ disk'.foreign \in 0 .. MaxForeign
  BY DEF Disks
<1> QED
  BY <1>1, <1>2, CountsFit DEF TimesCount

\* Where nothing is written, and no call begins anew, the count stands.
LEMMA CountStands ==
  ASSUME FilesTypeOK, TimesCount, disk'.mtime = disk.mtime,
         disk'.foreign \in Nat, disk'.foreign >= disk.foreign,
         WritesOver \subseteq WritesOver', EditsOver \subseteq EditsOver'
  PROVE  TimesCount'
<1>1. IsFiniteSet(Saves)
  BY SavesFinite
<1>2. /\ WritesOver \in SUBSET Saves /\ WritesOver' \in SUBSET Saves
      /\ EditsOver \in SUBSET Edits /\ EditsOver' \in SUBSET Edits
  BY DEF WritesOver, EditsOver
<1>3. /\ Cardinality(WritesOver) \in Nat /\ Cardinality(WritesOver') \in Nat
      /\ Cardinality(WritesOver') >= Cardinality(WritesOver)
  BY <1>1, <1>2, NoLess
<1>4. /\ Cardinality(EditsOver) \in Nat /\ Cardinality(EditsOver') \in Nat
      /\ Cardinality(EditsOver') >= Cardinality(EditsOver)
  BY <1>2, NoLess, FileConstants
<1>5. disk.mtime \in Nat /\ disk.foreign \in Nat
  BY FileConstants DEF FilesTypeOK, Times
<1> QED
  BY <1>3, <1>4, <1>5 DEF TimesCount

LEMMA FilesTypeStep ==
  ASSUME FilesTypeOK, TimesCount, FilesNext PROVE FilesTypeOK' /\ TimesCount'
<1> DEFINE D == [exists : BOOLEAN, text : Texts, mtime : Times, foreign : 0 .. MaxForeign]
<1>1. /\ disk \in D /\ pane \in Pane /\ load \in FileCall /\ saves \in [Saves -> FileCall]
      /\ fileWatch \in [pc : {"off", "on", "read"}, last : Times] /\ changes \in Seq(Payload)
      /\ edits \in [Edits -> [pc : {"none", "write", "over"}, text : Texts]]
      /\ written \in SUBSET Typings /\ hasty \in BOOLEAN /\ overtaken \in BOOLEAN
  BY DEF FilesTypeOK
<1>2. 0 \in Times /\ disk.mtime \in Times /\ disk.text \in Texts /\ disk.exists \in BOOLEAN
      /\ disk.foreign \in 0 .. MaxForeign /\ disk.mtime \in Nat /\ {} \in Texts
  <2>1. 0 \in 0 .. MaxSaves + Cardinality(Edits) + MaxForeign + 1
    BY FS_CardinalityType, FileConstants
  <2> QED
    BY <1>1, <2>1 DEF Times, Texts
<1>3. /\ pane.value \in Texts /\ pane.original \in Texts /\ pane.mtime \in Times
      /\ pane.conflict \in Payload /\ pane.conflict.text \in Texts /\ pane.conflict.mtime \in Times
      /\ load.text \in Texts /\ load.mtime \in Times
  BY <1>1 DEF Pane, Payload, FileCall
<1>4. NoConflict \in Payload /\ [NoCall EXCEPT !.pc = "over"] \in FileCall
      /\ [NoCall EXCEPT !.pc = "over"].pc = "over"
  BY <1>2 DEF NoConflict, Payload, NoCall, FileCall
<1>5. ASSUME NEW i \in Saves
      PROVE  saves[i] \in FileCall /\ saves[i].text \in Texts /\ saves[i].mtime \in Times
  BY <1>1 DEF FileCall
<1>6. ASSUME NEW e \in Edits
      PROVE  edits[e].pc \in {"none", "write", "over"} /\ edits[e].text \in Texts
  BY <1>1
<1>7. IsFiniteSet(Saves)
  BY SavesFinite
\* What leaves the file, the saves and the edits alone.
<1>8. ASSUME UNCHANGED <<disk, saves, edits>> PROVE TimesCount'
  BY <1>8 DEF TimesCount, WritesOver, EditsOver
<1>10. CASE ReadContents
  <2>1. load' \in FileCall
    BY <1>1, <1>2, <1>10 DEF ReadContents, FileCall
  <2> QED
    BY <2>1, <1>1, <1>8, <1>10 DEF ReadContents, FilesTypeOK
<1>11. CASE ReadTime
  <2>1. load' \in FileCall
    BY <1>1, <1>2, <1>11 DEF ReadTime, FileCall
  <2> QED
    BY <2>1, <1>1, <1>8, <1>11 DEF ReadTime, FilesTypeOK
<1>12. CASE OnLoaded
  <2>1. pane' \in Pane
    BY <1>1, <1>3, <1>12 DEF OnLoaded, Pane
  <2> QED
    BY <2>1, <1>1, <1>4, <1>8, <1>12 DEF OnLoaded, FilesTypeOK
<1>13. CASE OnLoadFailed
  <2>1. pane' \in Pane
    BY <1>1, <1>13 DEF OnLoadFailed, Pane
  <2> QED
    BY <2>1, <1>1, <1>4, <1>8, <1>13 DEF OnLoadFailed, FilesTypeOK
<1>14. CASE StartWatch
  <2>1. fileWatch' \in [pc : {"off", "on", "read"}, last : Times]
    BY <1>2, <1>14 DEF StartWatch
  <2> QED
    BY <2>1, <1>1, <1>8, <1>14 DEF StartWatch, FilesTypeOK
<1>15. CASE Tick
  <2>1. fileWatch' \in [pc : {"off", "on", "read"}, last : Times]
    BY <1>2, <1>15 DEF Tick
  <2> QED
    BY <2>1, <1>1, <1>8, <1>15 DEF Tick, FilesTypeOK
<1>16. CASE EmitChange
  <2>1. fileWatch' \in [pc : {"off", "on", "read"}, last : Times] /\ fileWatch.last \in Times
    BY <1>1, <1>16 DEF EmitChange
  <2>2. [text |-> disk.text, mtime |-> fileWatch.last] \in Payload
    BY <1>2, <2>1 DEF Payload
  <2>3. changes' \in Seq(Payload)
    BY <1>1, <1>16, <2>2 DEF EmitChange
  <2> QED
    BY <2>1, <2>3, <1>1, <1>8, <1>16 DEF EmitChange, FilesTypeOK
<1>17. CASE OnChanged
  <2>1. Head(changes) \in Payload /\ changes' \in Seq(Payload)
    BY <1>1, <1>17, Rest DEF OnChanged
  <2>2. Head(changes).text \in Texts /\ Head(changes).mtime \in Times
    BY <2>1 DEF Payload
  <2>3. pane' \in Pane
    BY <1>1, <1>4, <1>17, <2>1, <2>2 DEF OnChanged, Flagged, Pane
  <2>4. overtaken' \in BOOLEAN
    BY <1>17 DEF OnChanged, Crosses
  <2> QED
    BY <2>1, <2>3, <2>4, <1>1, <1>8, <1>17 DEF OnChanged, FilesTypeOK
<1>18. CASE TypeText
  <2>1. pane' \in Pane
    BY <1>1, <1>3, <1>18 DEF TypeText, Pane, Texts
  <2>2. hasty' \in BOOLEAN
    BY <1>18 DEF TypeText
  <2> QED
    BY <2>1, <2>2, <1>1, <1>8, <1>18 DEF TypeText, FilesTypeOK
<1>19. CASE ReloadFromDisk
  <2>1. pane' \in Pane
    BY <1>1, <1>3, <1>4, <1>19 DEF ReloadFromDisk, Pane
  <2>2. hasty' \in BOOLEAN
    BY <1>19 DEF ReloadFromDisk
  <2> QED
    BY <2>1, <2>2, <1>1, <1>8, <1>19 DEF ReloadFromDisk, FilesTypeOK
<1>20. CASE DismissConflict
  <2>1. pane' \in Pane
    BY <1>1, <1>3, <1>4, <1>20 DEF DismissConflict, Pane
  <2> QED
    BY <2>1, <1>1, <1>8, <1>20 DEF DismissConflict, FilesTypeOK
<1>21. CASE OtherWrite
  <2>1. PICK o \in Others : disk' = [[disk EXCEPT !.foreign = @ + 1] EXCEPT !.exists = TRUE,
                                     !.text = disk.text \cup {o}, !.mtime = @ + 1]
    BY <1>21 DEF OtherWrite, WriteDisk
  <2>2. disk'.mtime = disk.mtime + 1 /\ disk'.foreign = disk.foreign + 1 /\ disk.foreign < MaxForeign
    BY <1>1, <2>1, <1>21 DEF OtherWrite
  <2>3. disk.foreign + 1 \in 0 .. MaxForeign
    BY <1>2, <2>2, FileConstants
  <2>4. disk' \in Disks
    <3>1. disk' = [exists |-> TRUE, text |-> disk.text \cup {o}, mtime |-> disk.mtime + 1,
                   foreign |-> disk.foreign + 1]
      BY <1>1, <2>1
    <3>2. disk.text \cup {o} \in Texts /\ disk.mtime + 1 \in Nat
      BY <1>2 DEF Texts
    <3> QED
      BY <2>3, <3>1, <3>2 DEF Disks
  <2>5. WritesOver' = WritesOver /\ EditsOver' = EditsOver
    BY <1>21 DEF OtherWrite, WritesOver, EditsOver
  <2>6. Cardinality(WritesOver) \in Nat /\ Cardinality(EditsOver) \in Nat
    BY <1>7, NoLess, FileConstants DEF WritesOver, EditsOver
  <2>7. TimesCount'
    BY <1>2, <2>2, <2>5, <2>6 DEF TimesCount
  <2>8. disk' \in D
    BY <2>4, <2>7, DiskFits DEF Disks
  <2>9. overtaken' \in BOOLEAN
    BY <1>21 DEF OtherWrite, Crosses
  <2> QED
    BY <2>7, <2>8, <2>9, <1>1, <1>21 DEF OtherWrite, FilesTypeOK
<1>22. CASE DeleteFile
  <2>1. disk' = [disk EXCEPT !.exists = FALSE, !.text = {}, !.foreign = @ + 1] /\ disk.foreign < MaxForeign
    BY <1>22 DEF DeleteFile
  <2>2. disk.foreign + 1 \in 0 .. MaxForeign
    BY <1>2, <2>1, FileConstants
  <2>3. disk' \in D /\ disk'.mtime = disk.mtime /\ disk'.foreign = disk.foreign + 1
    BY <1>1, <1>2, <2>1, <2>2
  <2>4. WritesOver' = WritesOver /\ EditsOver' = EditsOver
    BY <1>22 DEF DeleteFile, WritesOver, EditsOver
  <2>5. TimesCount'
    BY <1>2, <2>2, <2>3, <2>4, CountStands
  <2> QED
    BY <2>3, <2>5, <1>1, <1>22 DEF DeleteFile, FilesTypeOK
<1>23. ASSUME NEW i \in Saves, Save(i) PROVE FilesTypeOK' /\ TimesCount'
  <2>1. saves' \in [Saves -> FileCall] /\ pane' \in Pane
    BY <1>1, <1>2, <1>3, <1>23 DEF Save, FileCall, Pane, NoCall
  <2>2. hasty' \in BOOLEAN
    BY <1>23 DEF Save
  <2>3. WritesOver' = WritesOver /\ EditsOver' = EditsOver
    BY <1>1, <1>23 DEF Save, WritesOver, EditsOver, NoCall
  <2>4. TimesCount'
    BY <2>3, <1>23 DEF TimesCount, Save
  <2> QED
    BY <2>1, <2>2, <2>4, <1>1, <1>23 DEF Save, FilesTypeOK
<1>24. ASSUME NEW i \in Saves, WriteFile(i) PROVE FilesTypeOK' /\ TimesCount'
  <2>1. saves' \in [Saves -> FileCall]
    BY <1>1, <1>5, <1>24 DEF WriteFile, FileCall
  <2>2. EditsOver' = EditsOver /\ WritesOver \subseteq WritesOver' /\ i \in WritesOver' \ WritesOver
    BY <1>1, <1>5, <1>24 DEF WriteFile, EditsOver, WritesOver, FileCall
  <2>3. /\ Cardinality(WritesOver') \in Nat /\ Cardinality(WritesOver) \in Nat
        /\ Cardinality(WritesOver') >= Cardinality(WritesOver) + 1
    <3>1. WritesOver \in SUBSET Saves /\ WritesOver' \in SUBSET Saves
      BY DEF WritesOver
    <3> QED
      BY <1>7, <2>2, <3>1, OneMore
  <2>4. Cardinality(EditsOver) \in Nat
    BY NoLess, FileConstants DEF EditsOver
  <2>5. /\ disk'.mtime \in Nat /\ disk'.mtime <= disk.mtime + 1 /\ disk'.foreign = disk.foreign
        /\ disk' \in Disks
    <3>1. CASE UNCHANGED disk
      BY <1>1, <1>2, <3>1 DEF Disks
    <3>2. CASE WriteDisk(disk, saves[i].text)
      <4>1. disk' = [exists |-> TRUE, text |-> saves[i].text, mtime |-> disk.mtime + 1,
                     foreign |-> disk.foreign]
        BY <1>1, <3>2 DEF WriteDisk
      <4>2. disk.mtime + 1 \in Nat
        BY <1>2
      <4> QED
        BY <1>2, <1>5, <4>1, <4>2 DEF Disks
    <3> QED
      BY <1>24, <3>1, <3>2 DEF WriteFile
  <2>6. TimesCount'
    BY <1>2, <2>2, <2>3, <2>4, <2>5 DEF TimesCount
  <2>7. disk' \in D
    BY <2>5, <2>6, DiskFits DEF Disks
  <2>8. written' \in SUBSET Typings
    BY <1>1, <1>24 DEF WriteFile
  <2> QED
    BY <2>1, <2>6, <2>7, <2>8, <1>1, <1>24 DEF WriteFile, FilesTypeOK
<1>25. ASSUME NEW i \in Saves, TimeOfSave(i) PROVE FilesTypeOK' /\ TimesCount'
  <2>1. saves' \in [Saves -> FileCall]
    BY <1>1, <1>2, <1>5, <1>25 DEF TimeOfSave, FileCall
  <2>2. WritesOver' = WritesOver /\ EditsOver' = EditsOver
    BY <1>1, <1>5, <1>25 DEF TimeOfSave, WritesOver, EditsOver, FileCall
  <2>3. TimesCount'
    BY <2>2, <1>25 DEF TimesCount, TimeOfSave
  <2> QED
    BY <2>1, <2>3, <1>1, <1>25 DEF TimeOfSave, FilesTypeOK
<1>26. ASSUME NEW i \in Saves, OnSaved(i) PROVE FilesTypeOK' /\ TimesCount'
  <2>1. saves' \in [Saves -> FileCall]
    BY <1>1, <1>4, <1>26 DEF OnSaved
  <2>2. pane' \in Pane
    BY <1>1, <1>3, <1>4, <1>5, <1>26 DEF OnSaved, Pane
  <2>3. WritesOver' = WritesOver /\ EditsOver' = EditsOver
    BY <1>1, <1>4, <1>26 DEF OnSaved, WritesOver, EditsOver
  <2>4. TimesCount'
    BY <2>3, <1>26 DEF TimesCount, OnSaved
  <2> QED
    BY <2>1, <2>2, <2>4, <1>1, <1>26 DEF OnSaved, FilesTypeOK
<1>27. ASSUME NEW i \in Saves, OnSaveFailed(i) PROVE FilesTypeOK' /\ TimesCount'
  <2>1. saves' \in [Saves -> FileCall]
    BY <1>1, <1>4, <1>27 DEF OnSaveFailed
  <2>2. pane' \in Pane
    BY <1>1, <1>27 DEF OnSaveFailed, Pane
  <2>3. WritesOver' = WritesOver /\ EditsOver' = EditsOver
    BY <1>1, <1>4, <1>27 DEF OnSaveFailed, WritesOver, EditsOver
  <2>4. TimesCount'
    BY <2>3, <1>27 DEF TimesCount, OnSaveFailed
  <2> QED
    BY <2>1, <2>2, <2>4, <1>1, <1>27 DEF OnSaveFailed, FilesTypeOK
<1>28. ASSUME NEW e \in Edits, ReadForEdit(e) PROVE FilesTypeOK' /\ TimesCount'
  <2>1. disk.text \cup {e} \in Texts
    BY <1>2 DEF Texts
  <2>2. edits' \in [Edits -> [pc : {"none", "write", "over"}, text : Texts]]
    <3>1. [pc |-> "write", text |-> disk.text \cup {e}] \in [pc : {"none", "write", "over"}, text : Texts]
      BY <2>1
    <3>2. [edits[e] EXCEPT !.pc = "over"] \in [pc : {"none", "write", "over"}, text : Texts]
      BY <1>1
    <3>3. \/ edits' = [edits EXCEPT ![e] = [edits[e] EXCEPT !.pc = "over"]]
          \/ edits' = [edits EXCEPT ![e] = [pc |-> "write", text |-> disk.text \cup {e}]]
      BY <1>28 DEF ReadForEdit
    <3> QED
      BY <1>1, <3>1, <3>2, <3>3
  <2>3. WritesOver' = WritesOver /\ EditsOver \subseteq EditsOver'
    BY <1>1, <1>28 DEF ReadForEdit, WritesOver, EditsOver
  <2>4. TimesCount'
    BY <1>2, <2>3, <1>28, CountStands DEF ReadForEdit
  <2> QED
    BY <2>2, <2>4, <1>1, <1>28 DEF ReadForEdit, FilesTypeOK
<1>29. ASSUME NEW e \in Edits, WriteEdit(e) PROVE FilesTypeOK' /\ TimesCount'
  <2>1. edits' \in [Edits -> [pc : {"none", "write", "over"}, text : Texts]]
    BY <1>1, <1>2, <1>29 DEF WriteEdit
  <2>2. WritesOver' = WritesOver /\ EditsOver \subseteq EditsOver' /\ e \in EditsOver' \ EditsOver
    BY <1>1, <1>29 DEF WriteEdit, WritesOver, EditsOver
  <2>3. /\ Cardinality(EditsOver') \in Nat /\ Cardinality(EditsOver) \in Nat
        /\ Cardinality(EditsOver') >= Cardinality(EditsOver) + 1
    <3>1. EditsOver \in SUBSET Edits /\ EditsOver' \in SUBSET Edits
      BY DEF EditsOver
    <3> QED
      BY <2>2, <3>1, OneMore, FileConstants
  <2>4. Cardinality(WritesOver) \in Nat
    BY <1>7, NoLess DEF WritesOver
  <2>5. /\ disk'.mtime \in Nat /\ disk'.mtime = disk.mtime + 1 /\ disk'.foreign = disk.foreign
        /\ disk' \in Disks
    <3>1. disk' = [exists |-> TRUE, text |-> edits[e].text, mtime |-> disk.mtime + 1,
                   foreign |-> disk.foreign]
      BY <1>1, <1>29 DEF WriteEdit, WriteDisk
    <3>2. disk.mtime + 1 \in Nat
      BY <1>2
    <3> QED
      BY <1>2, <1>6, <3>1, <3>2 DEF Disks
  <2>6. TimesCount'
    BY <1>2, <2>2, <2>3, <2>4, <2>5 DEF TimesCount
  <2>7. disk' \in D
    BY <2>5, <2>6, DiskFits DEF Disks
  <2>8. overtaken' \in BOOLEAN
    BY <1>29 DEF WriteEdit, Crosses
  <2> QED
    BY <2>1, <2>6, <2>7, <2>8, <1>1, <1>29 DEF WriteEdit, FilesTypeOK
<1> QED
  BY <1>10, <1>11, <1>12, <1>13, <1>14, <1>15, <1>16, <1>17, <1>18, <1>19, <1>20, <1>21, <1>22,
     <1>23, <1>24, <1>25, <1>26, <1>27, <1>28, <1>29 DEF FilesNext

\* What the types say of the fields.
LEMMA FileShapes ==
  ASSUME FilesTypeOK
  PROVE  /\ disk.mtime \in Nat /\ pane.mtime \in Nat /\ load.mtime \in Nat /\ fileWatch.last \in Nat
         /\ pane.conflict.mtime \in Nat /\ \A i \in Saves : saves[i].mtime \in Nat
         /\ changes \in Seq(Payload) /\ Len(changes) \in Nat
         /\ \A k \in 1 .. Len(changes) : changes[k] \in Payload /\ changes[k].mtime \in Nat
         /\ saves \in [Saves -> FileCall]
<1>1. Times \subseteq Nat
  BY FS_CardinalityType, FileConstants DEF Times
<1>2. changes \in Seq(Payload)
  BY DEF FilesTypeOK
<1>3. \A k \in 1 .. Len(changes) : changes[k] \in Payload
  BY <1>2
<1>4. \A k \in 1 .. Len(changes) : changes[k].mtime \in Nat
  BY <1>1, <1>3 DEF Payload
<1>5. /\ disk.mtime \in Times /\ pane.mtime \in Times /\ load.mtime \in Times
      /\ fileWatch.last \in Times /\ pane.conflict \in Payload
      /\ \A i \in Saves : saves[i].mtime \in Times
  BY DEF FilesTypeOK, Pane, FileCall
<1>6. pane.conflict.mtime \in Times
  BY <1>5 DEF Payload
<1>7. saves \in [Saves -> FileCall]
  BY DEF FilesTypeOK
<1>8. Len(changes) \in Nat
  BY <1>2
<1>9. /\ disk.mtime \in Nat /\ pane.mtime \in Nat /\ load.mtime \in Nat /\ fileWatch.last \in Nat
      /\ pane.conflict.mtime \in Nat /\ \A i \in Saves : saves[i].mtime \in Nat
  BY <1>1, <1>5, <1>6
<1>10. \A k \in 1 .. Len(changes) : changes[k].mtime \in Nat
  BY <1>1, <1>4
<1> QED
  BY <1>2, <1>3, <1>7, <1>8, <1>9, <1>10

\* A write of the file makes everything that was read of it older.
LEMMA WriteAges ==
  ASSUME FilesTypeOK, NothingNewer, disk'.mtime = disk.mtime + 1,
         UNCHANGED <<pane, load, fileWatch, changes>>,
         \A i \in Saves : saves'[i].mtime = saves[i].mtime
  PROVE  NothingNewer' /\ (LastNewsIsLast => LastNewsIsLast')
<1>1. disk.mtime \in Nat /\ pane.mtime \in Nat /\ load.mtime \in Nat /\ fileWatch.last \in Nat
      /\ pane.conflict.mtime \in Nat /\ (\A i \in Saves : saves[i].mtime \in Nat)
      /\ \A k \in 1 .. Len(changes) : changes[k].mtime \in Nat
  BY FileShapes
<1>2. pane' = pane /\ load' = load /\ fileWatch' = fileWatch /\ changes' = changes
  OBVIOUS
<1>3. \A k \in 1 .. Len(changes) : changes[k].mtime <= disk.mtime
  BY DEF NothingNewer, Fits
<1>4. \A k \in 1 .. Len(changes) : Fits(changes[k])'
  BY <1>1, <1>2, <1>3 DEF Fits
<1>5. Fits(pane.conflict)'
  BY <1>1, <1>2 DEF NothingNewer, Fits
<1>6. NothingNewer'
  BY <1>1, <1>2, <1>4, <1>5 DEF NothingNewer
<1>7. LastNewsIsLast => LastNewsIsLast'
  BY <1>1, <1>2 DEF NothingNewer, LastNewsIsLast
<1> QED
  BY <1>6, <1>7

LEMMA FilesNewsStep ==
  ASSUME FilesTypeOK, NothingNewer, LastNewsIsLast, FilesNext
  PROVE  NothingNewer' /\ LastNewsIsLast'
<1>1. /\ disk.mtime \in Nat /\ pane.mtime \in Nat /\ load.mtime \in Nat /\ fileWatch.last \in Nat
      /\ pane.conflict.mtime \in Nat /\ (\A i \in Saves : saves[i].mtime \in Nat)
      /\ changes \in Seq(Payload) /\ Len(changes) \in Nat
      /\ (\A k \in 1 .. Len(changes) : changes[k].mtime \in Nat)
      /\ saves \in [Saves -> FileCall]
  BY FileShapes
<1>2. /\ disk.mtime >= 1
      /\ pane.mtime <= disk.mtime /\ load.mtime <= disk.mtime /\ fileWatch.last <= disk.mtime
      /\ (\A i \in Saves : saves[i].mtime <= disk.mtime)
      /\ Fits(pane.conflict)
      /\ \A k \in 1 .. Len(changes) : Fits(changes[k])
  BY DEF NothingNewer
<1>3. /\ pane \in Pane /\ load \in FileCall
      /\ fileWatch \in [pc : {"off", "on", "read"}, last : Times]
      /\ disk \in [exists : BOOLEAN, text : Texts, mtime : Times, foreign : 0 .. MaxForeign]
  BY DEF FilesTypeOK
<1>4. Fits(NoConflict) /\ [NoCall EXCEPT !.pc = "over"].mtime = 0
      /\ NoConflict.mtime = 0
  BY <1>1, <1>2 DEF Fits, NoConflict, NoCall
\* Where the file stays, the news and the watcher too, only the times of the calls
\* and the pane's are to be looked at.
<1>5. ASSUME UNCHANGED <<disk, fileWatch, changes>>, pane'.mtime <= disk.mtime,
             load'.mtime <= disk.mtime, Fits(pane'.conflict),
             \A i \in Saves : saves'[i].mtime <= disk.mtime
      PROVE  NothingNewer' /\ LastNewsIsLast'
  <2>1. disk' = disk /\ fileWatch' = fileWatch /\ changes' = changes
    BY <1>5
  <2>2. Fits(pane.conflict)'
    BY <1>5, <2>1 DEF Fits
  <2>3. \A k \in 1 .. Len(changes) : Fits(changes[k])'
    BY <1>2, <2>1 DEF Fits
  <2> QED
    BY <1>2, <1>5, <2>1, <2>2, <2>3 DEF NothingNewer, LastNewsIsLast
<1>10. CASE ReadContents
  <2>1. load'.mtime = load.mtime /\ UNCHANGED <<disk, fileWatch, changes>> /\ UNCHANGED <<pane, saves>>
    BY <1>3, <1>10 DEF ReadContents, FileCall
  <2> QED
    BY <1>2, <1>5, <2>1
<1>11. CASE ReadTime
  <2>1. load'.mtime <= disk.mtime /\ UNCHANGED <<disk, fileWatch, changes>> /\ UNCHANGED <<pane, saves>>
    BY <1>1, <1>2, <1>3, <1>11 DEF ReadTime, FileCall
  <2> QED
    BY <1>2, <1>5, <2>1
<1>12. CASE OnLoaded
  <2>1. /\ load'.mtime = 0 /\ UNCHANGED <<disk, fileWatch, changes>> /\ UNCHANGED saves
        /\ pane'.mtime = load.mtime /\ pane'.conflict = pane.conflict
    BY <1>3, <1>4, <1>12 DEF OnLoaded, Pane
  <2> QED
    BY <1>1, <1>2, <1>5, <2>1
<1>13. CASE OnLoadFailed
  <2>1. /\ load'.mtime = 0 /\ UNCHANGED <<disk, fileWatch, changes>> /\ UNCHANGED saves
        /\ pane'.mtime = pane.mtime /\ pane'.conflict = pane.conflict
    BY <1>3, <1>4, <1>13 DEF OnLoadFailed, Pane
  <2> QED
    BY <1>1, <1>2, <1>5, <2>1
<1>14. CASE StartWatch
  <2>1. /\ fileWatch'.pc = "on" /\ fileWatch'.last <= disk.mtime
        /\ disk' = disk /\ pane' = pane /\ load' = load /\ saves' = saves /\ changes' = changes
        /\ changes = <<>>
    BY <1>1, <1>2, <1>14 DEF StartWatch, LastNewsIsLast
  <2>2. \A k \in 1 .. Len(changes) : Fits(changes[k])'
    BY <1>2, <2>1 DEF Fits
  <2>3. Fits(pane.conflict)'
    BY <1>2, <2>1 DEF Fits
  <2> QED
    BY <1>2, <2>1, <2>2, <2>3 DEF NothingNewer, LastNewsIsLast
<1>15. CASE Tick
  <2>1. /\ fileWatch'.pc = "read" /\ fileWatch'.last = disk.mtime
        /\ disk' = disk /\ pane' = pane /\ load' = load /\ saves' = saves /\ changes' = changes
    BY <1>15 DEF Tick
  <2>2. \A k \in 1 .. Len(changes) : Fits(changes[k])'
    BY <1>2, <2>1 DEF Fits
  <2>3. Fits(pane.conflict)'
    BY <1>2, <2>1 DEF Fits
  <2> QED
    BY <1>1, <1>2, <2>1, <2>2, <2>3 DEF NothingNewer, LastNewsIsLast
<1>16. CASE EmitChange
  <2>1. /\ fileWatch'.pc = "on" /\ fileWatch'.last = fileWatch.last
        /\ disk' = disk /\ pane' = pane /\ load' = load /\ saves' = saves
    BY <1>3, <1>16 DEF EmitChange
  <2>2. Fits(pane.conflict)'
    BY <1>2, <2>1 DEF Fits
  <2>3. CASE disk.exists
    <3> DEFINE news == [text |-> disk.text, mtime |-> fileWatch.last]
    <3>1. news \in Payload /\ news.mtime = fileWatch.last /\ Fits(news)
      BY <1>1, <1>2, <1>3 DEF Payload, Fits
    <3>2. changes' = Append(changes, news)
      BY <1>16, <2>3 DEF EmitChange
    <3> HIDE DEF news
    <3>3. /\ Len(changes') = Len(changes) + 1 /\ changes'[Len(changes) + 1] = news
          /\ \A k \in 1 .. Len(changes) : changes'[k] = changes[k]
      BY <1>1, <3>1, <3>2, Longer
    <3>4. \A k \in 1 .. Len(changes') : Fits(changes'[k])
      BY <1>1, <1>2, <3>1, <3>3
    <3>5. \A k \in 1 .. Len(changes') : Fits(changes[k])'
      BY <2>1, <3>4 DEF Fits
    <3>6. changes'[Len(changes')].mtime = fileWatch.last
      BY <3>1, <3>3
    <3> QED
      BY <1>2, <2>1, <2>2, <3>5, <3>6 DEF NothingNewer, LastNewsIsLast
  <2>4. CASE ~disk.exists
    <3>1. changes' = changes
      BY <1>16, <2>4 DEF EmitChange
    <3>2. \A k \in 1 .. Len(changes) : Fits(changes[k])'
      BY <1>2, <2>1, <3>1 DEF Fits
    <3> QED
      BY <1>2, <2>1, <2>2, <2>4, <3>1, <3>2 DEF NothingNewer, LastNewsIsLast
  <2> QED
    BY <2>3, <2>4
<1>17. CASE OnChanged
  <2>1. changes # <<>> /\ changes' = Tail(changes) /\ UNCHANGED <<disk, load, saves, fileWatch>>
    BY <1>17 DEF OnChanged
  <2>2. /\ Len(changes) \in Nat \ {0} /\ Head(changes) = changes[1]
        /\ Len(changes') = Len(changes) - 1
        /\ \A k \in 1 .. Len(changes) - 1 : changes'[k] = changes[k + 1]
    BY <1>1, <2>1, Rest
  <2>3. Fits(Head(changes)) /\ Head(changes).mtime \in Nat
    BY <1>1, <1>2, <2>2
  <2>4. Head(changes).mtime <= disk.mtime
    BY <2>3 DEF Fits
  <2>5. pane'.mtime <= disk.mtime /\ Fits(pane'.conflict)
    <3>1. \/ pane' = pane
          \/ pane' = [pane EXCEPT !.value = Head(changes).text, !.original = Head(changes).text,
                                  !.mtime = Head(changes).mtime, !.conflict = NoConflict]
          \/ pane' = [pane EXCEPT !.conflict = Head(changes)]
      BY <1>17 DEF OnChanged, Flagged
    <3>2. \/ pane'.mtime = pane.mtime /\ pane'.conflict = pane.conflict
          \/ pane'.mtime = Head(changes).mtime /\ pane'.conflict = NoConflict
          \/ pane'.mtime = pane.mtime /\ pane'.conflict = Head(changes)
      BY <1>3, <3>1 DEF Pane
    <3> QED
      BY <1>2, <1>4, <2>3, <2>4, <3>2
  <2>6. Fits(pane.conflict)'
    BY <2>1, <2>5 DEF Fits
  <2>7. \A k \in 1 .. Len(changes') : Fits(changes'[k])
    BY <1>2, <2>2
  <2>8. \A k \in 1 .. Len(changes') : Fits(changes[k])'
    BY <2>1, <2>7 DEF Fits
  <2>9. LastNewsIsLast'
    <3>1. fileWatch.pc # "off"
      BY <2>1 DEF LastNewsIsLast
    <3>2. changes' # <<>> => Len(changes') \in 1 .. Len(changes) - 1
      <4>1. changes' \in Seq(Payload) /\ (changes' # <<>> => Len(changes') # 0)
        BY <1>1, <2>1, Rest, EmptySeq
      <4> QED
        BY <2>2, <4>1
    <3>3. changes' # <<>> => changes'[Len(changes')] = changes[Len(changes)]
      BY <2>2, <3>2
    <3> QED
      BY <2>1, <3>1, <3>3 DEF LastNewsIsLast
  <2> QED
    BY <1>2, <2>1, <2>5, <2>6, <2>8, <2>9 DEF NothingNewer
<1>18. CASE TypeText
  <2>1. /\ UNCHANGED <<disk, fileWatch, changes>> /\ UNCHANGED <<load, saves>>
        /\ pane'.mtime = pane.mtime /\ pane'.conflict = pane.conflict
    BY <1>3, <1>18 DEF TypeText, Pane
  <2> QED
    BY <1>2, <1>5, <2>1
<1>19. CASE ReloadFromDisk
  <2>1. /\ UNCHANGED <<disk, fileWatch, changes>> /\ UNCHANGED <<load, saves>>
        /\ pane'.mtime = pane.conflict.mtime /\ pane'.conflict = NoConflict
    BY <1>3, <1>19 DEF ReloadFromDisk, Pane
  <2>2. pane.conflict.mtime <= disk.mtime
    BY <1>2 DEF Fits
  <2> QED
    BY <1>2, <1>4, <1>5, <2>1, <2>2
<1>20. CASE DismissConflict
  <2>1. /\ UNCHANGED <<disk, fileWatch, changes>> /\ UNCHANGED <<load, saves>>
        /\ pane'.mtime = pane.conflict.mtime /\ pane'.conflict = NoConflict
    BY <1>3, <1>20 DEF DismissConflict, Pane
  <2>2. pane.conflict.mtime <= disk.mtime
    BY <1>2 DEF Fits
  <2> QED
    BY <1>2, <1>4, <1>5, <2>1, <2>2
<1>21. CASE OtherWrite
  <2>1. disk'.mtime = disk.mtime + 1 /\ UNCHANGED saves /\ UNCHANGED <<pane, load, fileWatch, changes>>
    BY <1>3, <1>21 DEF OtherWrite, WriteDisk
  <2> QED
    BY <2>1, WriteAges
<1>22. CASE DeleteFile
  <2>1. disk'.mtime = disk.mtime /\ disk'.exists = FALSE
        /\ pane' = pane /\ load' = load /\ saves' = saves /\ fileWatch' = fileWatch /\ changes' = changes
    BY <1>3, <1>22 DEF DeleteFile
  <2>2. \A k \in 1 .. Len(changes) : Fits(changes[k])'
    BY <1>2, <2>1 DEF Fits
  <2>3. Fits(pane.conflict)'
    BY <1>2, <2>1 DEF Fits
  <2> QED
    BY <1>2, <2>1, <2>2, <2>3 DEF NothingNewer, LastNewsIsLast
<1>23. ASSUME NEW i \in Saves, Save(i) PROVE NothingNewer' /\ LastNewsIsLast'
  <2>1. /\ UNCHANGED <<disk, fileWatch, changes>> /\ UNCHANGED load
        /\ pane'.mtime = pane.mtime /\ pane'.conflict = pane.conflict
        /\ \A j \in Saves : saves'[j].mtime \in {saves[j].mtime, 0}
    BY <1>1, <1>3, <1>23 DEF Save, Pane, NoCall
  <2> QED
    BY <1>1, <1>2, <1>5, <2>1
<1>24. ASSUME NEW i \in Saves, WriteFile(i) PROVE NothingNewer' /\ LastNewsIsLast'
  <2>1. /\ UNCHANGED <<pane, load, fileWatch, changes>>
        /\ \A j \in Saves : saves'[j].mtime = saves[j].mtime
        /\ disk'.mtime = disk.mtime + 1 \/ disk' = disk
    <3>1. UNCHANGED <<pane, load, fileWatch, changes>>
      BY <1>24 DEF WriteFile
    <3>2. \/ saves' = [saves EXCEPT ![i].pc = "done"]
          \/ saves' = [saves EXCEPT ![i].pc = "failed"]
      BY <1>24 DEF WriteFile
    <3>3. \A j \in Saves : saves'[j].mtime = saves[j].mtime
      <4>1. saves[i] \in FileCall
        BY <1>1
      <4>2. \A pc : [saves[i] EXCEPT !.pc = pc].mtime = saves[i].mtime
        BY <4>1 DEF FileCall
      <4>3. \E pc : saves' = [saves EXCEPT ![i] = [saves[i] EXCEPT !.pc = pc]]
        BY <3>2
      <4> QED
        BY <1>1, <4>2, <4>3
    <3>4. disk'.mtime = disk.mtime + 1 \/ disk' = disk
      BY <1>3, <1>24 DEF WriteFile, WriteDisk
    <3> QED
      BY <3>1, <3>3, <3>4
  <2>2. CASE disk' = disk
    <3>1. UNCHANGED <<disk, fileWatch, changes>> /\ pane' = pane /\ load' = load
      BY <2>1, <2>2
    <3> QED
      BY <1>2, <1>5, <2>1, <3>1
  <2> QED
    BY <2>1, <2>2, WriteAges
<1>25. ASSUME NEW i \in Saves, TimeOfSave(i) PROVE NothingNewer' /\ LastNewsIsLast'
  <2>1. /\ UNCHANGED <<disk, fileWatch, changes>> /\ UNCHANGED <<pane, load>>
        /\ \A j \in Saves : saves'[j].mtime \in {saves[j].mtime, disk.mtime, 0}
    BY <1>1, <1>25 DEF TimeOfSave, FileCall
  <2> QED
    BY <1>1, <1>2, <1>5, <2>1
<1>26. ASSUME NEW i \in Saves, OnSaved(i) PROVE NothingNewer' /\ LastNewsIsLast'
  <2>1. /\ UNCHANGED <<disk, fileWatch, changes>> /\ UNCHANGED load
        /\ pane'.mtime = saves[i].mtime /\ pane'.conflict = NoConflict
        /\ \A j \in Saves : saves'[j].mtime \in {saves[j].mtime, 0}
    BY <1>1, <1>3, <1>4, <1>26 DEF OnSaved, Pane
  <2> QED
    BY <1>1, <1>2, <1>4, <1>5, <2>1
<1>27. ASSUME NEW i \in Saves, OnSaveFailed(i) PROVE NothingNewer' /\ LastNewsIsLast'
  <2>1. /\ UNCHANGED <<disk, fileWatch, changes>> /\ UNCHANGED load
        /\ pane'.mtime = pane.mtime /\ pane'.conflict = pane.conflict
        /\ \A j \in Saves : saves'[j].mtime \in {saves[j].mtime, 0}
    BY <1>1, <1>3, <1>4, <1>27 DEF OnSaveFailed, Pane
  <2> QED
    BY <1>1, <1>2, <1>5, <2>1
<1>28. ASSUME NEW e \in Edits, ReadForEdit(e) PROVE NothingNewer' /\ LastNewsIsLast'
  <2>1. UNCHANGED <<disk, fileWatch, changes>> /\ UNCHANGED <<pane, load, saves>>
    BY <1>28 DEF ReadForEdit
  <2> QED
    BY <1>2, <1>5, <2>1
<1>29. ASSUME NEW e \in Edits, WriteEdit(e) PROVE NothingNewer' /\ LastNewsIsLast'
  <2>1. disk'.mtime = disk.mtime + 1 /\ UNCHANGED saves /\ UNCHANGED <<pane, load, fileWatch, changes>>
    BY <1>3, <1>29 DEF WriteEdit, WriteDisk
  <2> QED
    BY <2>1, WriteAges
<1> QED
  BY <1>10, <1>11, <1>12, <1>13, <1>14, <1>15, <1>16, <1>17, <1>18, <1>19, <1>20, <1>21, <1>22,
     <1>23, <1>24, <1>25, <1>26, <1>27, <1>28, <1>29 DEF FilesNext

LEMMA TypedAdds ==
  ASSUME NEW text, NEW x \in Edits \cup Others PROVE Typed(text \cup {x}) = Typed(text)
BY FileConstants DEF Typed

\* What the user has not typed is not put on the disk by others.
LEMMA SavedOnlyStep == ASSUME FilesTypeOK, SavedOnly, FilesNext PROVE SavedOnly'
<1>1. /\ disk \in [exists : BOOLEAN, text : Texts, mtime : Times, foreign : 0 .. MaxForeign]
      /\ pane \in Pane /\ load \in FileCall /\ saves \in [Saves -> FileCall]
      /\ changes \in Seq(Payload)
      /\ edits \in [Edits -> [pc : {"none", "write", "over"}, text : Texts]]
  BY DEF FilesTypeOK
<1>2. /\ Typed(disk.text) \subseteq written /\ Typed(load.text) \subseteq written
      /\ Typed(pane.conflict.text) \subseteq written
      /\ (\A e \in Edits : Typed(edits[e].text) \subseteq written)
      /\ (\A k \in 1 .. Len(changes) : Typed(changes[k].text) \subseteq written)
      /\ \A i \in Saves : saves[i].pc \in {"done", "reply"} => Typed(saves[i].text) \subseteq written
  BY DEF SavedOnly
<1>3. Typed({}) = {} /\ NoConflict.text = {} /\ [NoCall EXCEPT !.pc = "over"].text = {}
      /\ [NoCall EXCEPT !.pc = "over"].pc = "over"
  BY DEF Typed, NoConflict, NoCall
\* Where the file, the edits and the news stay, and nothing is written.
<1>4. ASSUME UNCHANGED <<disk, edits, changes, written>>, Typed(load'.text) \subseteq written,
             Typed(pane'.conflict.text) \subseteq written,
             \A i \in Saves : saves'[i].pc \in {"done", "reply"} => Typed(saves'[i].text) \subseteq written
      PROVE  SavedOnly'
  BY <1>2, <1>4 DEF SavedOnly, Typed
<1>10. CASE ReadContents
  <2>1. load'.text \in {load.text, disk.text} /\ UNCHANGED <<disk, edits, changes, written>>
        /\ UNCHANGED <<pane, saves>>
    BY <1>1, <1>10 DEF ReadContents, FileCall
  <2> QED
    BY <1>2, <1>4, <2>1
<1>11. CASE ReadTime
  <2>1. load'.text = load.text /\ UNCHANGED <<disk, edits, changes, written>>
        /\ UNCHANGED <<pane, saves>>
    BY <1>1, <1>11 DEF ReadTime, FileCall
  <2> QED
    BY <1>2, <1>4, <2>1
<1>12. CASE OnLoaded
  <2>1. load'.text = {} /\ UNCHANGED <<disk, edits, changes, written>>
        /\ UNCHANGED saves /\ pane'.conflict = pane.conflict
    BY <1>1, <1>3, <1>12 DEF OnLoaded, Pane
  <2> QED
    BY <1>2, <1>3, <1>4, <2>1
<1>13. CASE OnLoadFailed
  <2>1. load'.text = {} /\ UNCHANGED <<disk, edits, changes, written>>
        /\ UNCHANGED saves /\ pane'.conflict = pane.conflict
    BY <1>1, <1>3, <1>13 DEF OnLoadFailed, Pane
  <2> QED
    BY <1>2, <1>3, <1>4, <2>1
<1>14. CASE StartWatch \/ Tick
  <2>1. UNCHANGED <<disk, edits, changes, written>> /\ UNCHANGED <<pane, saves, load>>
    BY <1>14 DEF StartWatch, Tick
  <2> QED
    BY <1>2, <1>4, <2>1
<1>16. CASE EmitChange
  <2>1. UNCHANGED <<disk, edits, written>> /\ UNCHANGED <<pane, saves, load>>
    BY <1>16 DEF EmitChange
  <2>2. \A k \in 1 .. Len(changes') : Typed(changes'[k].text) \subseteq written
    <3>1. CASE disk.exists
      <4> DEFINE news == [text |-> disk.text, mtime |-> fileWatch.last]
      <4>1. news \in Payload /\ news.text = disk.text
        BY <1>1 DEF FilesTypeOK, Payload
      <4>2. changes' = Append(changes, news)
        BY <1>16, <3>1 DEF EmitChange
      <4> HIDE DEF news
      <4>3. /\ Len(changes') = Len(changes) + 1 /\ changes'[Len(changes) + 1] = news
            /\ (\A k \in 1 .. Len(changes) : changes'[k] = changes[k]) /\ Len(changes) \in Nat
        BY <1>1, <4>1, <4>2, Longer
      <4> QED
        BY <1>2, <4>1, <4>3
    <3>2. CASE ~disk.exists
      BY <1>2, <1>16, <3>2 DEF EmitChange
    <3> QED
      BY <3>1, <3>2
  <2> QED
    BY <1>2, <2>1, <2>2 DEF SavedOnly, Typed
<1>17. CASE OnChanged
  <2>1. changes # <<>> /\ changes' = Tail(changes) /\ UNCHANGED <<disk, edits, written>>
        /\ UNCHANGED <<load, saves>>
    BY <1>17 DEF OnChanged
  <2>2. /\ Len(changes) \in Nat \ {0} /\ Head(changes) = changes[1]
        /\ Len(changes') = Len(changes) - 1
        /\ \A k \in 1 .. Len(changes) - 1 : changes'[k] = changes[k + 1]
    BY <1>1, <2>1, Rest
  <2>3. Typed(Head(changes).text) \subseteq written
    BY <1>2, <2>2
  <2>4. Typed(pane'.conflict.text) \subseteq written
    <3>1. \/ pane' = pane
          \/ pane' = [pane EXCEPT !.value = Head(changes).text, !.original = Head(changes).text,
                                  !.mtime = Head(changes).mtime, !.conflict = NoConflict]
          \/ pane' = [pane EXCEPT !.conflict = Head(changes)]
      BY <1>17 DEF OnChanged, Flagged
    <3>2. pane'.conflict \in {pane.conflict, NoConflict, Head(changes)}
      BY <1>1, <3>1 DEF Pane
    <3> QED
      BY <1>2, <1>3, <2>3, <3>2
  <2>5. \A k \in 1 .. Len(changes') : Typed(changes'[k].text) \subseteq written
    BY <1>2, <2>2
  <2> QED
    BY <1>2, <2>1, <2>4, <2>5 DEF SavedOnly, Typed
<1>18. CASE TypeText
  <2>1. UNCHANGED <<disk, edits, changes, written>> /\ UNCHANGED <<load, saves>>
        /\ pane'.conflict = pane.conflict
    BY <1>1, <1>18 DEF TypeText, Pane
  <2> QED
    BY <1>2, <1>4, <2>1
<1>19. CASE ReloadFromDisk \/ DismissConflict
  <2>1. UNCHANGED <<disk, edits, changes, written>> /\ UNCHANGED <<load, saves>>
        /\ pane'.conflict = NoConflict
    BY <1>1, <1>19 DEF ReloadFromDisk, DismissConflict, Pane
  <2> QED
    BY <1>2, <1>3, <1>4, <2>1
<1>21. CASE OtherWrite
  <2>1. UNCHANGED <<edits, changes, written>> /\ UNCHANGED <<pane, load, saves>>
    BY <1>21 DEF OtherWrite
  <2>2. Typed(disk'.text) \subseteq written
    <3>1. PICK o \in Others : disk'.text = disk.text \cup {o}
      BY <1>1, <1>21 DEF OtherWrite, WriteDisk
    <3> QED
      BY <1>2, <3>1, TypedAdds
  <2> QED
    BY <1>2, <2>1, <2>2 DEF SavedOnly, Typed
<1>22. CASE DeleteFile
  <2>1. UNCHANGED <<edits, changes, written>> /\ UNCHANGED <<pane, load, saves>> /\ disk'.text = {}
    BY <1>1, <1>22 DEF DeleteFile
  <2> QED
    BY <1>2, <2>1 DEF SavedOnly, Typed
<1>23. ASSUME NEW i \in Saves, Save(i) PROVE SavedOnly'
  <2>1. /\ UNCHANGED <<disk, edits, changes, written>> /\ UNCHANGED load
        /\ pane'.conflict = pane.conflict
        /\ saves'[i].pc = "called" /\ \A j \in Saves : j # i => saves'[j] = saves[j]
    BY <1>1, <1>23 DEF Save, Pane, NoCall
  <2> QED
    BY <1>2, <1>4, <2>1
<1>24. ASSUME NEW i \in Saves, WriteFile(i) PROVE SavedOnly'
  <2>1. UNCHANGED <<edits, changes>> /\ UNCHANGED <<pane, load>>
    BY <1>24 DEF WriteFile
  <2>2. saves[i] \in FileCall
    BY <1>1
  <2>3. CASE /\ saves' = [saves EXCEPT ![i].pc = "done"]
             /\ WriteDisk(disk, saves[i].text)
             /\ written' = written \cup (saves[i].text \cap Typings)
    <3>1. disk'.text = saves[i].text /\ \A j \in Saves : saves'[j].text = saves[j].text
      BY <1>1, <2>2, <2>3 DEF WriteDisk, FileCall
    <3>2. \A j \in Saves : j # i => saves'[j] = saves[j]
      BY <1>1, <2>3
    <3> QED
      BY <1>2, <2>1, <2>3, <3>1, <3>2 DEF SavedOnly, Typed
  <2>4. CASE saves' = [saves EXCEPT ![i].pc = "failed"] /\ UNCHANGED <<disk, written>>
    <3>1. saves'[i].pc = "failed" /\ \A j \in Saves : j # i => saves'[j] = saves[j]
      BY <1>1, <2>2, <2>4 DEF FileCall
    <3> QED
      BY <1>2, <1>4, <2>1, <2>4, <3>1
  <2> QED
    BY <1>24, <2>3, <2>4 DEF WriteFile
<1>25. ASSUME NEW i \in Saves, TimeOfSave(i) PROVE SavedOnly'
  <2>1. saves[i] \in FileCall
    BY <1>1
  <2>2. /\ UNCHANGED <<disk, edits, changes, written>> /\ UNCHANGED <<pane, load>>
        /\ saves'[i].text = saves[i].text /\ saves[i].pc = "done"
        /\ \A j \in Saves : j # i => saves'[j] = saves[j]
    BY <1>1, <1>25, <2>1 DEF TimeOfSave, FileCall
  <2> QED
    BY <1>2, <1>4, <2>2
<1>26. ASSUME NEW i \in Saves, OnSaved(i) PROVE SavedOnly'
  <2>1. /\ UNCHANGED <<disk, edits, changes, written>> /\ UNCHANGED load
        /\ pane'.conflict = NoConflict
        /\ saves'[i].pc = "over" /\ \A j \in Saves : j # i => saves'[j] = saves[j]
    BY <1>1, <1>3, <1>26 DEF OnSaved, Pane
  <2> QED
    BY <1>2, <1>3, <1>4, <2>1
<1>27. ASSUME NEW i \in Saves, OnSaveFailed(i) PROVE SavedOnly'
  <2>1. /\ UNCHANGED <<disk, edits, changes, written>> /\ UNCHANGED load
        /\ pane'.conflict = pane.conflict
        /\ saves'[i].pc = "over" /\ \A j \in Saves : j # i => saves'[j] = saves[j]
    BY <1>1, <1>3, <1>27 DEF OnSaveFailed, Pane
  <2> QED
    BY <1>2, <1>3, <1>4, <2>1
<1>28. ASSUME NEW e \in Edits, ReadForEdit(e) PROVE SavedOnly'
  <2>1. UNCHANGED <<disk, changes, written>> /\ UNCHANGED <<pane, load, saves>>
    BY <1>28 DEF ReadForEdit
  <2>2. edits'[e].text \in {edits[e].text, disk.text \cup {e}}
        /\ \A d \in Edits : d # e => edits'[d] = edits[d]
    BY <1>1, <1>28 DEF ReadForEdit
  <2>3. \A d \in Edits : Typed(edits'[d].text) \subseteq written
    BY <1>2, <2>2, TypedAdds
  <2> QED
    BY <1>2, <2>1, <2>3 DEF SavedOnly, Typed
<1>29. ASSUME NEW e \in Edits, WriteEdit(e) PROVE SavedOnly'
  <2>1. UNCHANGED <<changes, written>> /\ UNCHANGED <<pane, load, saves>>
    BY <1>29 DEF WriteEdit
  <2>2. disk'.text = edits[e].text /\ edits'[e].text = {}
        /\ \A d \in Edits : d # e => edits'[d] = edits[d]
    BY <1>1, <1>29 DEF WriteEdit, WriteDisk
  <2>3. \A d \in Edits : Typed(edits'[d].text) \subseteq written
    BY <1>2, <1>3, <2>2
  <2> QED
    BY <1>2, <2>1, <2>2, <2>3 DEF SavedOnly, Typed
<1> QED
  BY <1>10, <1>11, <1>12, <1>13, <1>14, <1>16, <1>17, <1>18, <1>19, <1>21, <1>22,
     <1>23, <1>24, <1>25, <1>26, <1>27, <1>28, <1>29 DEF FilesNext

\* For a user who waits for loads and saves.
LEMMA WaitingStep ==
  ASSUME FilesTypeOK, SavedOnly, OneAtATimeHere, OriginalWasSaved, FilesNext
  PROVE  OneAtATimeHere' /\ OriginalWasSaved'
<1> DEFINE Idle2(call) == call.pc \in {"none", "over"}
<1>1. /\ disk \in [exists : BOOLEAN, text : Texts, mtime : Times, foreign : 0 .. MaxForeign]
      /\ pane \in Pane /\ load \in FileCall /\ saves \in [Saves -> FileCall]
      /\ changes \in Seq(Payload)
  BY DEF FilesTypeOK
<1> SUFFICES ASSUME ~hasty'
             PROVE  /\ \A i \in Saves : ~Idle2(saves'[i]) =>
                         load'.pc = "over" /\ \A j \in Saves : j # i => Idle2(saves'[j])
                    /\ Typed(pane'.original) \subseteq written'
                    /\ load'.pc # "over" => Typed(pane'.value) \subseteq written'
                    /\ \A i \in Saves : saves'[i].pc \in {"called", "done", "reply"} =>
                         Typed(pane'.value) \subseteq saves'[i].text \cup written'
  BY DEF OneAtATimeHere, OriginalWasSaved, Typed
<1>2. ~hasty
  BY DEF FilesNext, ReadContents, ReadTime, OnLoaded, OnLoadFailed, StartWatch, Tick, EmitChange,
         OnChanged, TypeText, ReloadFromDisk, DismissConflict, OtherWrite, DeleteFile, Save,
         WriteFile, TimeOfSave, OnSaved, OnSaveFailed, ReadForEdit, WriteEdit
<1>3. /\ \A i \in Saves : ~Idle2(saves[i]) =>
           load.pc = "over" /\ \A j \in Saves : j # i => Idle2(saves[j])
      /\ Typed(pane.original) \subseteq written
      /\ load.pc # "over" => Typed(pane.value) \subseteq written
      /\ \A i \in Saves : saves[i].pc \in {"called", "done", "reply"} =>
           Typed(pane.value) \subseteq saves[i].text \cup written
  BY <1>2 DEF OneAtATimeHere, OriginalWasSaved
<1>4. [NoCall EXCEPT !.pc = "over"].pc = "over"
  BY DEF NoCall
<1> HIDE DEF Idle2
\* What leaves the pane's texts and the calls alone.
<1>5. ASSUME pane'.value = pane.value, pane'.original = pane.original,
             UNCHANGED <<load, saves, written>>
      PROVE  /\ \A i \in Saves : ~Idle2(saves'[i]) =>
                  load'.pc = "over" /\ \A j \in Saves : j # i => Idle2(saves'[j])
             /\ Typed(pane'.original) \subseteq written'
             /\ load'.pc # "over" => Typed(pane'.value) \subseteq written'
             /\ \A i \in Saves : saves'[i].pc \in {"called", "done", "reply"} =>
                  Typed(pane'.value) \subseteq saves'[i].text \cup written'
  BY <1>3, <1>5
<1>10. CASE ReadContents \/ ReadTime
  <2>1. UNCHANGED <<pane, saves, written>> /\ load.pc \in {"called", "done"}
    BY <1>10 DEF ReadContents, ReadTime
  <2> QED
    BY <1>3, <2>1
<1>12. CASE OnLoaded
  <2>1. UNCHANGED <<saves, written>> /\ load.pc = "reply" /\ load'.pc = "over"
        /\ pane'.value = load.text /\ pane'.original = load.text
    BY <1>1, <1>4, <1>12 DEF OnLoaded, Pane
  <2>2. Typed(load.text) \subseteq written
    BY DEF SavedOnly
  <2>3. \A i \in Saves : Idle2(saves[i])
    BY <1>3, <2>1
  <2> QED
    BY <1>3, <2>1, <2>2, <2>3 DEF Idle2
<1>13. CASE OnLoadFailed
  <2>1. UNCHANGED <<saves, written>> /\ load'.pc = "over"
        /\ pane'.value = pane.value /\ pane'.original = pane.original
    BY <1>1, <1>4, <1>13 DEF OnLoadFailed, Pane
  <2> QED
    BY <1>3, <2>1
<1>14. CASE StartWatch \/ Tick \/ EmitChange \/ OtherWrite \/ DeleteFile
  <2>1. UNCHANGED <<load, saves, written>> /\ UNCHANGED pane
    BY <1>14 DEF StartWatch, Tick, EmitChange, OtherWrite, DeleteFile
  <2> QED
    BY <1>5, <2>1
<1>17. CASE OnChanged
  <2>1. changes # <<>> /\ UNCHANGED <<load, saves, written>>
    BY <1>17 DEF OnChanged
  <2>2. Typed(Head(changes).text) \subseteq written
    <3>1. 1 \in 1 .. Len(changes) /\ Head(changes) = changes[1]
      BY <1>1, <2>1, Rest
    <3> QED
      BY <3>1 DEF SavedOnly
  <2>3. \/ pane' = pane
        \/ pane' = [pane EXCEPT !.value = Head(changes).text, !.original = Head(changes).text,
                                !.mtime = Head(changes).mtime, !.conflict = NoConflict]
        \/ pane' = [pane EXCEPT !.conflict = Head(changes)]
    BY <1>17 DEF OnChanged, Flagged
  <2>4. \/ pane'.value = pane.value /\ pane'.original = pane.original
        \/ pane'.value = Head(changes).text /\ pane'.original = Head(changes).text
    BY <1>1, <2>3 DEF Pane
  <2>5. CASE pane'.value = Head(changes).text /\ pane'.original = Head(changes).text
    BY <1>3, <2>1, <2>2, <2>5
  <2> QED
    BY <1>5, <2>1, <2>4, <2>5
<1>18. CASE TypeText
  <2>1. UNCHANGED <<load, saves, written>> /\ ~Busy /\ pane'.original = pane.original
    BY <1>1, <1>18 DEF TypeText, Pane
  <2>2. load.pc = "over" /\ \A i \in Saves : Idle2(saves[i])
    BY <2>1 DEF Busy, Idle2
  <2> QED
    BY <1>3, <2>1, <2>2 DEF Idle2
<1>19. CASE ReloadFromDisk
  <2>1. UNCHANGED <<load, saves, written>> /\ pane'.value = pane.conflict.text
        /\ pane'.original = pane.conflict.text
    BY <1>1, <1>19 DEF ReloadFromDisk, Pane
  <2>2. Typed(pane.conflict.text) \subseteq written
    BY DEF SavedOnly
  <2> QED
    BY <1>3, <2>1, <2>2
<1>20. CASE DismissConflict
  <2>1. UNCHANGED <<load, saves, written>> /\ pane'.value = pane.value /\ pane'.original = pane.original
    BY <1>1, <1>20 DEF DismissConflict, Pane
  <2> QED
    BY <1>5, <2>1
<1>23. ASSUME NEW i \in Saves, Save(i)
       PROVE  /\ \A k \in Saves : ~Idle2(saves'[k]) =>
                   load'.pc = "over" /\ \A j \in Saves : j # k => Idle2(saves'[j])
              /\ Typed(pane'.original) \subseteq written'
              /\ load'.pc # "over" => Typed(pane'.value) \subseteq written'
              /\ \A k \in Saves : saves'[k].pc \in {"called", "done", "reply"} =>
                   Typed(pane'.value) \subseteq saves'[k].text \cup written'
  <2>1. UNCHANGED <<load, written>> /\ ~Busy
        /\ pane'.value = pane.value /\ pane'.original = pane.original
        /\ saves'[i].text = pane.value /\ \A j \in Saves : j # i => saves'[j] = saves[j]
    BY <1>1, <1>23 DEF Save, Pane, NoCall
  <2>2. load.pc = "over" /\ \A j \in Saves : Idle2(saves[j])
    BY <2>1 DEF Busy, Idle2
  <2>3. Typed(pane.value) \subseteq pane.value
    BY DEF Typed
  <2>4. \A k \in Saves : saves'[k].pc \in {"called", "done", "reply"} => k = i
    BY <2>1, <2>2 DEF Idle2
  <2> QED
    BY <1>3, <2>1, <2>2, <2>3, <2>4
<1>24. ASSUME NEW i \in Saves, WriteFile(i) \/ TimeOfSave(i)
       PROVE  /\ \A k \in Saves : ~Idle2(saves'[k]) =>
                   load'.pc = "over" /\ \A j \in Saves : j # k => Idle2(saves'[j])
              /\ Typed(pane'.original) \subseteq written'
              /\ load'.pc # "over" => Typed(pane'.value) \subseteq written'
              /\ \A k \in Saves : saves'[k].pc \in {"called", "done", "reply"} =>
                   Typed(pane'.value) \subseteq saves'[k].text \cup written'
  <2>1. saves[i] \in FileCall
    BY <1>1
  <2>2. /\ UNCHANGED <<pane, load>> /\ written \subseteq written'
        /\ saves[i].pc \in {"called", "done"}
    BY <1>24 DEF WriteFile, TimeOfSave
  <2>3. saves'[i].text = saves[i].text /\ \A j \in Saves : j # i => saves'[j] = saves[j]
    BY <1>1, <1>24, <2>1 DEF WriteFile, TimeOfSave, FileCall
  <2>4. load.pc = "over" /\ (\A j \in Saves : j # i => Idle2(saves[j]))
        /\ Typed(pane.value) \subseteq saves[i].text \cup written
    BY <1>3, <2>2 DEF Idle2
  <2>5. \A k \in Saves : saves'[k].pc \in {"called", "done", "reply"} => k = i
    BY <2>3, <2>4 DEF Idle2
  <2> QED
    BY <1>3, <2>2, <2>3, <2>4, <2>5
<1>26. ASSUME NEW i \in Saves, OnSaved(i) \/ OnSaveFailed(i)
       PROVE  /\ \A k \in Saves : ~Idle2(saves'[k]) =>
                   load'.pc = "over" /\ \A j \in Saves : j # k => Idle2(saves'[j])
              /\ Typed(pane'.original) \subseteq written'
              /\ load'.pc # "over" => Typed(pane'.value) \subseteq written'
              /\ \A k \in Saves : saves'[k].pc \in {"called", "done", "reply"} =>
                   Typed(pane'.value) \subseteq saves'[k].text \cup written'
  <2>1. /\ UNCHANGED <<load, written>> /\ saves[i].pc \in {"reply", "failed"}
        /\ saves'[i].pc = "over" /\ \A j \in Saves : j # i => saves'[j] = saves[j]
    BY <1>1, <1>4, <1>26 DEF OnSaved, OnSaveFailed
  <2>2. /\ pane'.value = pane.value
        /\ pane'.original = pane.original \/ (pane'.original = pane.value /\ saves[i].pc = "reply")
    BY <1>1, <1>26 DEF OnSaved, OnSaveFailed, Pane
  <2>3. load.pc = "over" /\ \A j \in Saves : j # i => Idle2(saves[j])
    BY <1>3, <2>1 DEF Idle2
  <2>4. \A k \in Saves : Idle2(saves'[k])
    BY <2>1, <2>3 DEF Idle2
  <2>5. saves[i].pc = "reply" => Typed(pane.value) \subseteq written
    <3>1. saves[i].pc = "reply" => Typed(saves[i].text) \subseteq written
      BY DEF SavedOnly
    <3>2. saves[i].pc = "reply" => Typed(pane.value) \subseteq saves[i].text \cup written
      BY <1>3
    <3> QED
      BY <3>1, <3>2 DEF Typed
  <2> QED
    BY <1>3, <2>1, <2>2, <2>3, <2>4, <2>5 DEF Idle2
<1>28. ASSUME NEW e \in Edits, ReadForEdit(e) \/ WriteEdit(e)
       PROVE  UNCHANGED <<load, saves, written>> /\ pane'.value = pane.value /\ pane'.original = pane.original
  BY <1>28 DEF ReadForEdit, WriteEdit
<1> QED
  BY <1>5, <1>10, <1>12, <1>13, <1>14, <1>17, <1>18, <1>19, <1>20,
     <1>23, <1>24, <1>26, <1>28 DEF FilesNext

\* What is typed is unsaved text, and it is not lost.
LEMMA TypedTextSurvives ==
  ASSUME FilesInv, FilesNext, ~hasty, NEW t \in Typings, t \in pane.value, t \notin pane'.value
  PROVE  t \in written \/ pane'.value = pane.conflict.text
<1>1. pane \in Pane /\ load \in FileCall /\ saves \in [Saves -> FileCall]
  BY DEF FilesInv, FilesTypeOK
<1>2. /\ Typed(pane.original) \subseteq written
      /\ load.pc # "over" => Typed(pane.value) \subseteq written
  BY DEF FilesInv, OriginalWasSaved
<1>3. CASE OnLoaded
  BY <1>2, <1>3 DEF OnLoaded, Typed
<1>4. CASE OnChanged
  <2>1. \/ pane'.value = pane.value
        \/ pane'.value = Head(changes).text /\ Adopts(Head(changes))
    BY <1>1, <1>4 DEF OnChanged, Flagged, Pane
  <2>2. pane.value = pane.original
    BY <2>1 DEF Adopts, Dirty
  <2> QED
    BY <1>2, <2>2 DEF Typed
<1>5. CASE ReloadFromDisk
  BY <1>1, <1>5 DEF ReloadFromDisk, Pane
<1>6. CASE TypeText
  BY <1>1, <1>6 DEF TypeText, Pane
<1>7. CASE OnLoadFailed \/ DismissConflict
  BY <1>1, <1>7 DEF OnLoadFailed, DismissConflict, Pane
<1>8. CASE ReadContents \/ ReadTime \/ StartWatch \/ Tick \/ EmitChange \/ OtherWrite \/ DeleteFile
  BY <1>8 DEF ReadContents, ReadTime, StartWatch, Tick, EmitChange, OtherWrite, DeleteFile
<1>9. ASSUME NEW i \in Saves,
             Save(i) \/ WriteFile(i) \/ TimeOfSave(i) \/ OnSaved(i) \/ OnSaveFailed(i)
      PROVE  pane'.value = pane.value
  BY <1>1, <1>9 DEF Save, WriteFile, TimeOfSave, OnSaved, OnSaveFailed, Pane
<1>10. ASSUME NEW e \in Edits, ReadForEdit(e) \/ WriteEdit(e) PROVE pane'.value = pane.value
  BY <1>10 DEF ReadForEdit, WriteEdit
<1> QED
  BY <1>3, <1>4, <1>5, <1>6, <1>7, <1>8, <1>9, <1>10 DEF FilesNext

Fresh == LoadIsFresh /\ SaveIsFresh /\ ConflictIsNews /\ TimeTells /\ Informed

\* Where nobody's write or news crosses a load or a save, what is read and written is
\* the version on disk.
LEMMA FreshStep ==
  ASSUME FilesTypeOK, NothingNewer, LastNewsIsLast, OneAtATimeHere, OriginalWasSaved, Fresh,
         FilesNext
  PROVE  Fresh'
<1>1. /\ disk \in [exists : BOOLEAN, text : Texts, mtime : Times, foreign : 0 .. MaxForeign]
      /\ pane \in Pane /\ load \in FileCall /\ saves \in [Saves -> FileCall]
      /\ fileWatch \in [pc : {"off", "on", "read"}, last : Times]
      /\ changes \in Seq(Payload)
  BY DEF FilesTypeOK
<1>2. /\ disk.mtime \in Nat /\ pane.mtime \in Nat /\ load.mtime \in Nat /\ fileWatch.last \in Nat
      /\ pane.conflict.mtime \in Nat
  BY FileShapes
<1>3. /\ pane.mtime <= disk.mtime /\ fileWatch.last <= disk.mtime /\ Fits(pane.conflict)
      /\ \A k \in 1 .. Len(changes) : Fits(changes[k])
  BY DEF NothingNewer
<1> SUFFICES ASSUME Calm' PROVE Fresh'
  BY DEF Fresh, LoadIsFresh, SaveIsFresh, ConflictIsNews, TimeTells, Informed
<1>4. Calm
  <2>1. ~hasty' /\ ~overtaken'
    BY DEF Calm
  <2>2. ~hasty
    BY <2>1 DEF FilesNext, ReadContents, ReadTime, OnLoaded, OnLoadFailed, StartWatch,
           Tick, EmitChange, OnChanged, TypeText, ReloadFromDisk, DismissConflict, OtherWrite,
           DeleteFile, Save, WriteFile, TimeOfSave, OnSaved, OnSaveFailed, ReadForEdit, WriteEdit
  <2>3. overtaken' = overtaken \/ Crosses
    BY DEF FilesNext, ReadContents, ReadTime, OnLoaded, OnLoadFailed, StartWatch,
           Tick, EmitChange, OnChanged, TypeText, ReloadFromDisk, DismissConflict, OtherWrite,
           DeleteFile, Save, WriteFile, TimeOfSave, OnSaved, OnSaveFailed, ReadForEdit, WriteEdit
  <2>4. ~overtaken
    BY <2>1, <2>3 DEF Crosses
  <2> QED
    BY <2>2, <2>4 DEF Calm
<1>5. /\ load.pc \in {"done", "reply"} /\ disk.exists => load.text = disk.text
      /\ load.pc = "reply" /\ disk.exists => load.mtime = disk.mtime
      /\ load.pc = "failed" => ~disk.exists
      /\ load.pc # "over" => ~InConflict
  BY <1>4 DEF Fresh, LoadIsFresh
<1>6. \A i \in Saves :
        /\ saves[i].pc \in {"called", "done", "reply"} => pane.value = saves[i].text
        /\ saves[i].pc \in {"done", "reply"} /\ disk.exists => saves[i].text = disk.text
        /\ saves[i].pc = "reply" /\ disk.exists => saves[i].mtime = disk.mtime
  BY <1>4 DEF Fresh, SaveIsFresh
<1>7. /\ InConflict => Dirty /\ pane.mtime < pane.conflict.mtime
      /\ disk.exists /\ pane.mtime = disk.mtime /\ ~Dirty => pane.value = disk.text
  BY <1>4 DEF Fresh, ConflictIsNews, TimeTells
<1>8. Rested /\ disk.exists
        /\ (fileWatch.pc = "off"
              \/ (fileWatch.pc = "on" /\ fileWatch.last = disk.mtime /\ changes = <<>>))
      => pane.mtime = disk.mtime \/ (Dirty /\ pane.conflict = OnDisk)
  BY <1>4 DEF Fresh, Informed
<1>9. /\ \A i \in Saves : saves[i].pc \notin {"none", "over"} =>
           load.pc = "over" /\ \A j \in Saves : j # i => saves[j].pc \in {"none", "over"}
      /\ Typed(pane.original) \subseteq written
  BY <1>4 DEF Calm, OneAtATimeHere, OriginalWasSaved
<1>10. [NoCall EXCEPT !.pc = "over"].pc = "over" /\ NoConflict = [text |-> {}, mtime |-> 0]
  BY DEF NoCall, NoConflict
\* What the news, the file and the calls leave alone.
<1>11. ASSUME UNCHANGED <<disk, load, saves>>, pane'.value = pane.value,
              pane'.original = pane.original, pane'.mtime = pane.mtime,
              pane'.conflict = pane.conflict,
              Informed'
       PROVE  Fresh'
  <2>1. disk' = disk /\ load' = load /\ saves' = saves /\ Dirty' = Dirty /\ InConflict' = InConflict
    BY <1>11 DEF Dirty, InConflict
  <2>2. LoadIsFresh' /\ SaveIsFresh'
    BY <1>5, <1>6, <1>11, <2>1 DEF LoadIsFresh, SaveIsFresh
  <2>3. ConflictIsNews' /\ TimeTells'
    BY <1>7, <1>11, <2>1 DEF ConflictIsNews, TimeTells
  <2> QED
    BY <1>11, <2>2, <2>3 DEF Fresh
<1>12. CASE ReadContents
  <2>1. /\ disk' = disk /\ pane' = pane /\ saves' = saves /\ load.pc = "called"
        /\ IF disk.exists THEN load'.pc = "done" /\ load'.text = disk.text ELSE load'.pc = "failed"
    BY <1>1, <1>12 DEF ReadContents, FileCall
  <2>2. LoadIsFresh' /\ SaveIsFresh' /\ ConflictIsNews' /\ TimeTells'
    BY <1>5, <1>6, <1>7, <2>1
    DEF LoadIsFresh, SaveIsFresh, ConflictIsNews, TimeTells, Dirty, InConflict
  <2>3. Informed'
    BY <2>1 DEF Informed, Rested
  <2> QED
    BY <2>2, <2>3 DEF Fresh
<1>13. CASE ReadTime
  <2>1. /\ disk' = disk /\ pane' = pane /\ saves' = saves /\ load.pc = "done"
        /\ load'.pc = "reply" /\ load'.text = load.text
        /\ disk.exists => load'.mtime = disk.mtime
    BY <1>1, <1>13 DEF ReadTime, FileCall
  <2>2. LoadIsFresh' /\ SaveIsFresh' /\ ConflictIsNews' /\ TimeTells'
    BY <1>5, <1>6, <1>7, <2>1
    DEF LoadIsFresh, SaveIsFresh, ConflictIsNews, TimeTells, Dirty, InConflict
  <2>3. Informed'
    BY <2>1 DEF Informed, Rested
  <2> QED
    BY <2>2, <2>3 DEF Fresh
<1>14. CASE OnLoaded
  <2>1. /\ disk' = disk /\ saves' = saves /\ load.pc = "reply" /\ load'.pc = "over"
        /\ pane'.value = load.text /\ pane'.original = load.text /\ pane'.mtime = load.mtime
        /\ pane'.conflict = pane.conflict
    BY <1>1, <1>10, <1>14 DEF OnLoaded, Pane
  <2>2. ~InConflict /\ ~InConflict'
    BY <1>5, <2>1 DEF InConflict
  <2>3. \A i \in Saves : saves[i].pc \in {"none", "over"}
    BY <1>9, <2>1
  <2>4. LoadIsFresh' /\ SaveIsFresh' /\ ConflictIsNews'
    BY <2>1, <2>2, <2>3 DEF LoadIsFresh, SaveIsFresh, ConflictIsNews
  <2>5. TimeTells' /\ Informed'
    BY <1>5, <2>1 DEF TimeTells, Informed
  <2> QED
    BY <2>4, <2>5 DEF Fresh
<1>15. CASE OnLoadFailed
  <2>1. /\ disk' = disk /\ saves' = saves /\ load.pc = "failed" /\ load'.pc = "over"
        /\ pane'.value = pane.value /\ pane'.original = pane.original /\ pane'.mtime = pane.mtime
        /\ pane'.conflict = pane.conflict
    BY <1>1, <1>10, <1>15 DEF OnLoadFailed, Pane
  <2>2. ~InConflict /\ ~InConflict' /\ ~disk.exists
    BY <1>5, <2>1 DEF InConflict
  <2>3. LoadIsFresh' /\ SaveIsFresh' /\ ConflictIsNews' /\ TimeTells' /\ Informed'
    BY <1>6, <2>1, <2>2 DEF LoadIsFresh, SaveIsFresh, ConflictIsNews, TimeTells, Informed
  <2> QED
    BY <2>3 DEF Fresh
<1>16. CASE StartWatch \/ Tick \/ EmitChange
  <2>1. /\ disk' = disk /\ load' = load /\ saves' = saves /\ pane' = pane
        /\ UNCHANGED <<disk, load, saves>>
    BY <1>16 DEF StartWatch, Tick, EmitChange
  <2>2. Informed'
    <3>1. CASE StartWatch
      <4>1. fileWatch.pc = "off" /\ Rested' = Rested /\ Dirty' = Dirty /\ OnDisk' = OnDisk
        BY <2>1, <3>1 DEF StartWatch, Rested, Dirty, OnDisk
      <4> QED
        BY <1>8, <2>1, <4>1 DEF Informed
    <3>2. CASE Tick
      BY <1>1, <3>2 DEF Tick, Informed
    <3>3. CASE EmitChange
      <4>1. fileWatch'.pc = "on" /\ (disk.exists => changes' # <<>>)
        <5>1. [text |-> disk.text, mtime |-> fileWatch.last] \in Payload
          BY <1>1 DEF Payload
        <5>2. Append(changes, [text |-> disk.text, mtime |-> fileWatch.last]) # <<>>
          BY <1>1, <5>1, Longer
        <5> QED
          BY <1>1, <3>3, <5>2 DEF EmitChange
      <4> QED
        BY <2>1, <4>1 DEF Informed
    <3> QED
      BY <1>16, <3>1, <3>2, <3>3
  <2> QED
    BY <1>11, <2>1, <2>2
<1>17. CASE OnChanged
  <2> DEFINE change == Head(changes)
  <2>1. /\ changes # <<>> /\ changes' = Tail(changes) /\ disk' = disk /\ load' = load /\ saves' = saves
        /\ fileWatch' = fileWatch
        /\ ~Busy /\ fileWatch.pc # "off"
    BY <1>17 DEF OnChanged, Crosses, Calm
  <2>2. load.pc = "over" /\ \A i \in Saves : saves[i].pc \in {"none", "over"}
    BY <2>1 DEF Busy
  <2>3. change = changes[1] /\ change \in Payload /\ 1 \in 1 .. Len(changes)
        /\ (changes' = <<>> => Len(changes) = 1)
    <3>1. /\ change = changes[1] /\ change \in Payload /\ Len(changes) \in Nat \ {0}
          /\ Len(changes') = Len(changes) - 1
      BY <1>1, <2>1, Rest
    <3>2. changes' = <<>> => Len(changes') = 0
      OBVIOUS
    <3> QED
      BY <3>1, <3>2
  <2>4. Fits(change) /\ change.mtime \in Nat
    BY <1>3, <2>3, FileShapes
  <2>5. change = [text |-> change.text, mtime |-> change.mtime]
    BY <2>3 DEF Payload
  <2>6. changes' = <<>> /\ fileWatch'.pc = "on" /\ fileWatch'.last = disk.mtime /\ disk.exists
          => change.mtime = disk.mtime
    BY <2>1, <2>3 DEF LastNewsIsLast
  <2>7. LoadIsFresh' /\ SaveIsFresh'
    BY <2>1, <2>2 DEF LoadIsFresh, SaveIsFresh
  <2>8. CASE change.mtime <= pane.mtime /\ UNCHANGED pane
    <3>1. ConflictIsNews' /\ TimeTells'
      BY <1>7, <2>1, <2>8 DEF ConflictIsNews, TimeTells, Dirty, InConflict
    <3>2. Informed'
      BY <1>2, <1>3, <2>1, <2>4, <2>6, <2>8 DEF Informed
    <3> QED
      BY <2>7, <3>1, <3>2 DEF Fresh
  <2>9. CASE pane' = [pane EXCEPT !.value = change.text, !.original = change.text,
                                  !.mtime = change.mtime, !.conflict = NoConflict]
    <3>1. pane'.value = change.text /\ pane'.original = change.text /\ pane'.mtime = change.mtime
          /\ pane'.conflict = NoConflict
      BY <1>1, <2>9 DEF Pane
    <3>2. ConflictIsNews' /\ TimeTells'
      BY <2>1, <2>4, <3>1 DEF ConflictIsNews, TimeTells, InConflict, Fits
    <3>3. Informed'
      BY <2>1, <2>6, <3>1 DEF Informed
    <3> QED
      BY <2>7, <3>2, <3>3 DEF Fresh
  <2>10. CASE change.mtime > pane.mtime /\ ~Adopts(change) /\ pane' = Flagged(change)
    <3>1. pane'.value = pane.value /\ pane'.original = pane.original /\ pane'.mtime = pane.mtime
          /\ pane'.conflict = change
      BY <1>1, <2>10 DEF Pane, Flagged
    <3>2. Dirty /\ Dirty'
      BY <2>10, <3>1 DEF Adopts, Dirty
    <3>3. ConflictIsNews' /\ TimeTells'
      BY <1>2, <2>4, <2>10, <3>1, <3>2 DEF ConflictIsNews, TimeTells
    <3>4. Informed'
      <4>1. disk.exists /\ change.mtime = disk.mtime => change = OnDisk
        BY <2>4, <2>5 DEF Fits, OnDisk
      <4>2. OnDisk' = OnDisk
        BY <2>1 DEF OnDisk
      <4> QED
        BY <2>1, <2>6, <3>1, <3>2, <4>1, <4>2 DEF Informed
    <3> QED
      BY <2>7, <3>3, <3>4 DEF Fresh
  <2> QED
    BY <1>17, <2>8, <2>9, <2>10 DEF OnChanged
<1>18. CASE TypeText
  <2>1. /\ disk' = disk /\ load' = load /\ saves' = saves /\ fileWatch' = fileWatch /\ changes' = changes
        /\ ~Busy
    BY <1>18 DEF TypeText, Calm
  <2>2. load.pc = "over" /\ \A i \in Saves : saves[i].pc \in {"none", "over"}
    BY <2>1 DEF Busy
  <2>3. PICK t \in Typings : t \notin pane.value \cup written /\ pane' = [pane EXCEPT !.value = @ \cup {t}]
    BY <1>18 DEF TypeText
  <2>4. pane'.value = pane.value \cup {t} /\ pane'.original = pane.original /\ pane'.mtime = pane.mtime
        /\ pane'.conflict = pane.conflict
    BY <1>1, <2>3 DEF Pane
  <2>5. Dirty'
    BY <1>9, <2>3, <2>4 DEF Dirty, Typed
  <2>6. LoadIsFresh' /\ SaveIsFresh'
    BY <2>1, <2>2 DEF LoadIsFresh, SaveIsFresh
  <2>7. ConflictIsNews' /\ TimeTells'
    BY <1>7, <2>4, <2>5 DEF ConflictIsNews, TimeTells, InConflict
  <2>8. Informed'
    <3>1. Rested' = Rested /\ OnDisk' = OnDisk
      BY <2>1 DEF Rested, OnDisk
    <3> QED
      BY <1>8, <2>1, <2>4, <2>5, <3>1 DEF Informed
  <2> QED
    BY <2>6, <2>7, <2>8 DEF Fresh
\* The version that is told of: it is the one on disk when all news has arrived.
<1>19. ASSUME InConflict, UNCHANGED <<disk, load, saves, fileWatch, changes>>,
              pane'.mtime = pane.conflict.mtime
       PROVE  Informed'
  <2>1. /\ disk' = disk /\ load' = load /\ saves' = saves /\ fileWatch' = fileWatch /\ changes' = changes
        /\ Rested' = Rested
    BY <1>19 DEF Rested
  <2>2. pane.conflict.mtime <= disk.mtime /\ pane.mtime < pane.conflict.mtime
    BY <1>3, <1>7, <1>19 DEF Fits
  <2>3. pane.mtime # disk.mtime
    BY <1>2, <2>2
  <2>4. pane.conflict = OnDisk => pane.conflict.mtime = disk.mtime
    BY DEF OnDisk
  <2> QED
    BY <1>8, <1>19, <2>1, <2>3, <2>4 DEF Informed
<1>20. CASE ReloadFromDisk
  <2>1. /\ disk' = disk /\ load' = load /\ saves' = saves /\ fileWatch' = fileWatch /\ changes' = changes
        /\ ~Busy /\ InConflict
    BY <1>20 DEF ReloadFromDisk, Calm
  <2>2. load.pc = "over" /\ \A i \in Saves : saves[i].pc \in {"none", "over"}
    BY <2>1 DEF Busy
  <2>3. pane'.value = pane.conflict.text /\ pane'.original = pane.conflict.text
        /\ pane'.mtime = pane.conflict.mtime /\ pane'.conflict = NoConflict
    BY <1>1, <1>20 DEF ReloadFromDisk, Pane
  <2>4. LoadIsFresh' /\ SaveIsFresh'
    BY <2>1, <2>2 DEF LoadIsFresh, SaveIsFresh
  <2>5. ConflictIsNews' /\ TimeTells'
    BY <1>3, <2>1, <2>3 DEF ConflictIsNews, TimeTells, InConflict, Fits
  <2> QED
    BY <1>19, <2>1, <2>3, <2>4, <2>5 DEF Fresh
<1>21. CASE DismissConflict
  <2>1. /\ disk' = disk /\ load' = load /\ saves' = saves /\ fileWatch' = fileWatch /\ changes' = changes
        /\ InConflict
    BY <1>21 DEF DismissConflict
  <2>2. pane'.value = pane.value /\ pane'.original = pane.original
        /\ pane'.mtime = pane.conflict.mtime /\ pane'.conflict = NoConflict
    BY <1>1, <1>21 DEF DismissConflict, Pane
  <2>3. LoadIsFresh' /\ SaveIsFresh'
    BY <1>5, <1>6, <2>1, <2>2 DEF LoadIsFresh, SaveIsFresh, InConflict
  <2>4. ConflictIsNews' /\ TimeTells'
    BY <1>7, <2>1, <2>2 DEF ConflictIsNews, TimeTells, InConflict, Dirty
  <2> QED
    BY <1>19, <2>1, <2>2, <2>3, <2>4 DEF Fresh
\* Another's write.
<1>22. ASSUME disk'.mtime = disk.mtime + 1, UNCHANGED <<pane, load, saves, fileWatch, changes>>, Crosses
       PROVE  Fresh'
  <2>1. /\ pane' = pane /\ load' = load /\ saves' = saves /\ fileWatch' = fileWatch
        /\ ~Busy /\ fileWatch.pc # "off"
    BY <1>22 DEF Crosses, Calm
  <2>2. load.pc = "over" /\ \A i \in Saves : saves[i].pc \in {"none", "over"}
    BY <2>1 DEF Busy
  <2>3. LoadIsFresh' /\ SaveIsFresh'
    BY <2>1, <2>2 DEF LoadIsFresh, SaveIsFresh
  <2>4. ConflictIsNews' /\ TimeTells' /\ Informed'
    BY <1>2, <1>3, <1>7, <1>22, <2>1 DEF ConflictIsNews, TimeTells, Informed, InConflict, Dirty
  <2> QED
    BY <2>3, <2>4 DEF Fresh
<1>23. CASE OtherWrite
  <2>1. disk'.mtime = disk.mtime + 1 /\ UNCHANGED <<pane, load, saves, fileWatch, changes>> /\ Crosses
    BY <1>1, <1>23 DEF OtherWrite, WriteDisk
  <2> QED
    BY <1>22, <2>1
<1>24. ASSUME NEW e \in Edits, WriteEdit(e) PROVE Fresh'
  <2>1. disk'.mtime = disk.mtime + 1 /\ UNCHANGED <<pane, load, saves, fileWatch, changes>> /\ Crosses
    BY <1>1, <1>24 DEF WriteEdit, WriteDisk
  <2> QED
    BY <1>22, <2>1
<1>25. ASSUME NEW e \in Edits, ReadForEdit(e) PROVE Fresh'
  <2>1. UNCHANGED <<disk, load, saves>> /\ pane' = pane /\ fileWatch' = fileWatch /\ changes' = changes
        /\ disk' = disk /\ load' = load /\ saves' = saves
    BY <1>25 DEF ReadForEdit
  <2>2. Informed'
    <3>1. Rested' = Rested /\ OnDisk' = OnDisk /\ Dirty' = Dirty
      BY <2>1 DEF Rested, OnDisk, Dirty
    <3> QED
      BY <1>8, <2>1, <3>1 DEF Informed
  <2> QED
    BY <1>11, <2>1, <2>2
<1>26. CASE DeleteFile
  <2>1. disk'.exists = FALSE /\ pane' = pane /\ load' = load /\ saves' = saves
    BY <1>1, <1>26 DEF DeleteFile
  <2>2. LoadIsFresh' /\ SaveIsFresh'
    BY <1>5, <1>6, <2>1 DEF LoadIsFresh, SaveIsFresh, InConflict
  <2>3. ConflictIsNews' /\ TimeTells' /\ Informed'
    BY <1>7, <2>1 DEF ConflictIsNews, TimeTells, Informed, InConflict, Dirty
  <2> QED
    BY <2>2, <2>3 DEF Fresh
<1>27. ASSUME NEW i \in Saves, Save(i) PROVE Fresh'
  <2>1. /\ disk' = disk /\ load' = load /\ fileWatch' = fileWatch /\ changes' = changes /\ ~Busy
        /\ pane'.value = pane.value /\ pane'.original = pane.original /\ pane'.mtime = pane.mtime
        /\ pane'.conflict = pane.conflict
        /\ saves'[i].pc = "called" /\ saves'[i].text = pane.value
        /\ \A j \in Saves : j # i => saves'[j] = saves[j]
    BY <1>1, <1>27 DEF Save, Pane, NoCall, Calm
  <2>2. load.pc = "over" /\ \A j \in Saves : saves[j].pc \in {"none", "over"}
    BY <2>1 DEF Busy
  <2>3. LoadIsFresh' /\ SaveIsFresh'
    BY <2>1, <2>2 DEF LoadIsFresh, SaveIsFresh
  <2>4. ConflictIsNews' /\ TimeTells'
    BY <1>7, <2>1 DEF ConflictIsNews, TimeTells, InConflict, Dirty
  <2>5. Informed'
    <3>1. Rested /\ OnDisk' = OnDisk /\ Dirty' = Dirty
      BY <2>1, <2>2 DEF Rested, OnDisk, Dirty
    <3> QED
      BY <1>8, <2>1, <3>1 DEF Informed
  <2> QED
    BY <2>3, <2>4, <2>5 DEF Fresh
<1>28. ASSUME NEW i \in Saves, WriteFile(i) PROVE Fresh'
  <2>1. saves[i] \in FileCall /\ saves[i].pc = "called"
    BY <1>1, <1>28 DEF WriteFile
  <2>2. /\ pane' = pane /\ load' = load /\ fileWatch' = fileWatch /\ changes' = changes
        /\ saves'[i].text = saves[i].text
        /\ \A j \in Saves : j # i => saves'[j] = saves[j]
    BY <1>1, <1>28, <2>1 DEF WriteFile, FileCall
  <2>3. load.pc = "over" /\ \A j \in Saves : j # i => saves[j].pc \in {"none", "over"}
    BY <1>9, <2>1
  <2>4. LoadIsFresh'
    BY <2>2, <2>3 DEF LoadIsFresh
  <2>5. CASE saves' = [saves EXCEPT ![i].pc = "done"] /\ WriteDisk(disk, saves[i].text)
    <3>1. saves'[i].pc = "done" /\ disk'.text = saves[i].text /\ disk'.mtime = disk.mtime + 1
      BY <1>1, <2>1, <2>5 DEF WriteDisk, FileCall
    <3>2. SaveIsFresh'
      BY <1>6, <2>1, <2>2, <2>3, <3>1 DEF SaveIsFresh
    <3>3. ConflictIsNews' /\ TimeTells' /\ Informed'
      BY <1>2, <1>3, <1>7, <2>2, <3>1
      DEF ConflictIsNews, TimeTells, Informed, Rested, InConflict, Dirty
    <3> QED
      BY <2>4, <3>2, <3>3 DEF Fresh
  <2>6. CASE saves' = [saves EXCEPT ![i].pc = "failed"] /\ UNCHANGED disk
    <3>1. saves'[i].pc = "failed" /\ disk' = disk
      BY <1>1, <2>1, <2>6 DEF FileCall
    <3>2. SaveIsFresh' /\ ConflictIsNews' /\ TimeTells'
      BY <1>6, <1>7, <2>2, <2>3, <3>1 DEF SaveIsFresh, ConflictIsNews, TimeTells, InConflict, Dirty
    <3>3. Informed'
      <4>1. Rested /\ OnDisk' = OnDisk /\ Dirty' = Dirty
        BY <2>1, <2>2, <2>3, <3>1 DEF Rested, OnDisk, Dirty
      <4> QED
        BY <1>8, <2>2, <3>1, <4>1 DEF Informed
    <3> QED
      BY <2>4, <3>2, <3>3 DEF Fresh
  <2> QED
    BY <1>28, <2>5, <2>6 DEF WriteFile
<1>29. ASSUME NEW i \in Saves, TimeOfSave(i) PROVE Fresh'
  <2>1. saves[i] \in FileCall /\ saves[i].pc = "done"
    BY <1>1, <1>29 DEF TimeOfSave
  <2>2. /\ pane' = pane /\ load' = load /\ disk' = disk
        /\ saves'[i].text = saves[i].text /\ saves'[i].pc = "reply"
        /\ disk.exists => saves'[i].mtime = disk.mtime
        /\ \A j \in Saves : j # i => saves'[j] = saves[j]
    BY <1>1, <1>29, <2>1 DEF TimeOfSave, FileCall
  <2>3. load.pc = "over"
    BY <1>9, <2>1
  <2>4. LoadIsFresh' /\ SaveIsFresh'
    BY <1>6, <2>1, <2>2, <2>3 DEF LoadIsFresh, SaveIsFresh
  <2>5. ConflictIsNews' /\ TimeTells' /\ Informed'
    BY <1>7, <2>2 DEF ConflictIsNews, TimeTells, Informed, Rested, InConflict, Dirty
  <2> QED
    BY <2>4, <2>5 DEF Fresh
<1>30. ASSUME NEW i \in Saves, OnSaved(i) PROVE Fresh'
  <2>1. /\ saves[i].pc = "reply" /\ disk' = disk /\ load' = load
        /\ saves'[i].pc = "over" /\ \A j \in Saves : j # i => saves'[j] = saves[j]
        /\ pane'.value = pane.value /\ pane'.original = pane.value /\ pane'.mtime = saves[i].mtime
        /\ pane'.conflict = NoConflict
    BY <1>1, <1>10, <1>30 DEF OnSaved, Pane
  <2>2. load.pc = "over" /\ \A j \in Saves : j # i => saves[j].pc \in {"none", "over"}
    BY <1>9, <2>1
  <2>3. LoadIsFresh' /\ SaveIsFresh' /\ ConflictIsNews'
    BY <2>1, <2>2 DEF LoadIsFresh, SaveIsFresh, ConflictIsNews, InConflict
  <2>4. TimeTells' /\ Informed'
    BY <1>6, <2>1 DEF TimeTells, Informed
  <2> QED
    BY <2>3, <2>4 DEF Fresh
<1>31. ASSUME NEW i \in Saves, OnSaveFailed(i) PROVE Fresh'
  <2>1. /\ saves[i].pc = "failed" /\ disk' = disk /\ load' = load
        /\ fileWatch' = fileWatch /\ changes' = changes
        /\ saves'[i].pc = "over" /\ \A j \in Saves : j # i => saves'[j] = saves[j]
        /\ pane'.value = pane.value /\ pane'.original = pane.original /\ pane'.mtime = pane.mtime
        /\ pane'.conflict = pane.conflict
    BY <1>1, <1>10, <1>31 DEF OnSaveFailed, Pane
  <2>2. load.pc = "over" /\ \A j \in Saves : j # i => saves[j].pc \in {"none", "over"}
    BY <1>9, <2>1
  <2>3. LoadIsFresh' /\ SaveIsFresh' /\ ConflictIsNews' /\ TimeTells'
    BY <1>7, <2>1, <2>2 DEF LoadIsFresh, SaveIsFresh, ConflictIsNews, TimeTells, InConflict, Dirty
  <2>4. Informed'
    <3>1. Rested /\ OnDisk' = OnDisk /\ Dirty' = Dirty
      BY <2>1, <2>2 DEF Rested, OnDisk, Dirty
    <3> QED
      BY <1>8, <2>1, <3>1 DEF Informed
  <2> QED
    BY <2>3, <2>4 DEF Fresh
<1> QED
  BY <1>12, <1>13, <1>14, <1>15, <1>16, <1>17, <1>18, <1>20, <1>21, <1>23, <1>24, <1>25, <1>26,
     <1>27, <1>28, <1>29, <1>30, <1>31 DEF FilesNext

LEMMA FilesBegin == FilesInit => FilesInv
<1> SUFFICES ASSUME FilesInit PROVE FilesInv
  OBVIOUS
<1>1. 0 \in Times /\ 1 \in Times /\ {} \in Texts /\ 0 \in 0 .. MaxForeign
  <2>1. 0 \in 0 .. MaxSaves + Cardinality(Edits) + MaxForeign + 1
        /\ 1 \in 0 .. MaxSaves + Cardinality(Edits) + MaxForeign + 1
    BY FS_CardinalityType, FileConstants
  <2> QED
    BY <2>1, FileConstants DEF Times, Texts
<1>2. NoCall \in FileCall /\ [NoCall EXCEPT !.pc = "called"] \in FileCall /\ NoConflict \in Payload
  BY <1>1 DEF NoCall, FileCall, NoConflict, Payload
<1>3. FilesTypeOK
  <2>1. pane \in Pane /\ load \in FileCall /\ saves \in [Saves -> FileCall]
    BY <1>1, <1>2 DEF FilesInit, Pane
  <2>2. disk \in [exists : BOOLEAN, text : Texts, mtime : Times, foreign : 0 .. MaxForeign]
        /\ fileWatch \in [pc : {"off", "on", "read"}, last : Times]
    BY <1>1 DEF FilesInit
  <2>3. edits \in [Edits -> [pc : {"none", "write", "over"}, text : Texts]] /\ changes \in Seq(Payload)
    BY <1>1 DEF FilesInit
  <2> QED
    BY <2>1, <2>2, <2>3 DEF FilesInit, FilesTypeOK
<1>4. /\ disk.mtime = 1 /\ disk.exists /\ disk.text = {} /\ disk.foreign = 0
      /\ pane.mtime = 0 /\ pane.value = {} /\ pane.original = {} /\ pane.conflict = NoConflict
      /\ load.pc = "called" /\ load.text = {} /\ load.mtime = 0
      /\ \A i \in Saves : saves[i] = NoCall
      /\ NoCall.pc = "none" /\ NoCall.mtime = 0 /\ NoConflict.text = {} /\ NoConflict.mtime = 0
      /\ \A e \in Edits : edits[e].text = {}
      /\ changes = <<>> /\ Len(changes) = 0 /\ fileWatch.pc = "off" /\ fileWatch.last = 0
  BY DEF FilesInit, NoCall, NoConflict
<1>5. TimesCount
  <2>1. Cardinality(WritesOver) \in Nat /\ Cardinality(EditsOver) \in Nat
    BY SavesFinite, NoLess, FileConstants DEF WritesOver, EditsOver
  <2> QED
    BY <1>4, <2>1 DEF TimesCount
<1>6. NothingNewer /\ LastNewsIsLast
  BY <1>4 DEF NothingNewer, LastNewsIsLast, Fits
<1>7. SavedOnly /\ OneAtATimeHere /\ OriginalWasSaved
  BY <1>4 DEF SavedOnly, OneAtATimeHere, OriginalWasSaved, Typed
<1>8. LoadIsFresh /\ SaveIsFresh /\ ConflictIsNews /\ TimeTells /\ Informed
  BY <1>4 DEF LoadIsFresh, SaveIsFresh, ConflictIsNews, TimeTells, Informed, Rested, InConflict
<1> QED
  BY <1>3, <1>5, <1>6, <1>7, <1>8 DEF FilesInv

LEMMA FilesStep == ASSUME FilesInv, [FilesNext]_fileVars PROVE FilesInv'
<1>1. CASE FilesNext
  <2>1. FilesTypeOK' /\ TimesCount'
    BY <1>1, FilesTypeStep DEF FilesInv
  <2>2. NothingNewer' /\ LastNewsIsLast'
    BY <1>1, FilesNewsStep DEF FilesInv
  <2>3. SavedOnly'
    BY <1>1, SavedOnlyStep DEF FilesInv
  <2>4. OneAtATimeHere' /\ OriginalWasSaved'
    BY <1>1, WaitingStep DEF FilesInv
  <2>5. Fresh'
    BY <1>1, FreshStep DEF FilesInv, Fresh
  <2> QED
    BY <2>1, <2>2, <2>3, <2>4, <2>5 DEF FilesInv, Fresh
<1>2. CASE UNCHANGED fileVars
  <2>1. /\ disk' = disk /\ pane' = pane /\ load' = load /\ saves' = saves /\ fileWatch' = fileWatch
        /\ changes' = changes /\ edits' = edits /\ written' = written /\ hasty' = hasty
        /\ overtaken' = overtaken
    BY <1>2 DEF fileVars
  <2>2. FilesTypeOK'
    BY <2>1 DEF FilesInv, FilesTypeOK
  <2>3. TimesCount'
    BY <2>1 DEF FilesInv, TimesCount, WritesOver, EditsOver
  <2>4. NothingNewer' /\ LastNewsIsLast'
    BY <2>1 DEF FilesInv, NothingNewer, LastNewsIsLast, Fits
  <2>5. SavedOnly' /\ OneAtATimeHere' /\ OriginalWasSaved'
    BY <2>1 DEF FilesInv, SavedOnly, OneAtATimeHere, OriginalWasSaved, Typed
  <2>6. LoadIsFresh' /\ SaveIsFresh'
    BY <2>1 DEF FilesInv, LoadIsFresh, SaveIsFresh, Calm, InConflict
  <2>7. ConflictIsNews' /\ TimeTells' /\ Informed'
    BY <2>1 DEF FilesInv, ConflictIsNews, TimeTells, Informed, Calm, InConflict, Dirty, Rested, OnDisk
  <2> QED
    BY <2>2, <2>3, <2>4, <2>5, <2>6, <2>7 DEF FilesInv
<1> QED
  BY <1>1, <1>2

\* When all news has arrived, the pane has the time of the version on disk, or tells
\* of it: and it shows it when nothing is unsaved.
LEMMA NothingStale == FilesInv => NoStaleView
<1> SUFFICES ASSUME FilesInv, Quiet, ~overtaken, ~hasty
             PROVE  IF Dirty THEN \/ pane.mtime = disk.mtime
                                  \/ pane.conflict = [text |-> disk.text, mtime |-> disk.mtime]
                             ELSE pane.value = disk.text
  BY DEF NoStaleView
<1>1. Calm /\ Rested
  BY DEF Calm, Rested, Quiet, Busy
<1>2. pane.mtime = disk.mtime \/ (Dirty /\ pane.conflict = OnDisk)
  BY <1>1 DEF FilesInv, Informed, Quiet
<1> QED
  BY <1>1, <1>2 DEF FilesInv, TimeTells, OnDisk, Quiet

-----------------------------------------------------------------------------
(* The configurations of projects.                                         *)

\* Calls and openings are about folders.
AboutFolders ==
  /\ \A i \in SaveIds : configSaves[i].phase # "none" => configSaves[i].path \in Projects
  /\ \A k \in OpenIds : opens[k].phase \in {"loading", "loaded", "healing"} => opens[k].to \in Projects

\* No two names are of one temporary file, and none is of a file that is to be made.
NamesApart ==
  /\ \A p, q \in Projects : tmp[p] # 0 => tmp[p] # file[q] /\ (p # q => tmp[p] # tmp[q])
  /\ \A i \in SaveIds, p \in Projects :
       file[p] = i \/ tmp[p] = i => configSaves[i].phase \notin {"none", "issued"}

\* For a user who waits, one thing is under way at a time.
OneOpening == \A k, l \in OpenIds : Opening(k) /\ Opening(l) => k = l
OneSave == \A i, j \in SaveIds : CallInFlight(i) /\ CallInFlight(j) => i = j
OpeningsSave ==
  /\ \A k \in OpenIds : opens[k].phase \in {"saving", "healing"} =>
       opens[k].save \in SaveIds /\ configSaves[opens[k].save].by = "opening"
  /\ \A k \in OpenIds, i \in SaveIds : Opening(k) /\ CallInFlight(i) =>
       opens[k].phase \in {"saving", "healing"} /\ opens[k].save = i
  /\ \A i \in SaveIds : CallInFlight(i) /\ configSaves[i].by = "opening" => \E k \in OpenIds : Opening(k)
  /\ \A i \in SaveIds : CallInFlight(i) => configSaves[i].by # "seed"
InTurn == steady => seeds = {} /\ OneOpening /\ OneSave /\ OpeningsSave

\* Then the temporary file is the writer's own.
OwnTmp ==
  steady => \A i \in SaveIds :
    /\ configSaves[i].phase \in {"open", "written"} =>
         tmp[configSaves[i].path] = configSaves[i].fd /\ configSaves[i].fd # 0
    /\ configSaves[i].phase = "open" => inode[configSaves[i].fd].kind = "cut"
    /\ configSaves[i].phase = "written" => inode[configSaves[i].fd] = Whole(configSaves[i].config)

\* What is in memory is the project's own, and what its file says.
Holds(p, c) == file[p] # 0 /\ inode[file[p]] = Whole(c)
Told(p, c) ==
  c.stamp = p /\ (file[p] # 0 /\ inode[file[p]].kind = "whole" =>
                    c.agent = inode[file[p]].config.agent)
Agreed ==
  (\A i \in SaveIds : ~CallInFlight(i)) /\ (\A k \in OpenIds : ~Opening(k)) /\ memPath # NoProject
    => \A c \in mem : Told(memPath, c)

\* What is under way will make it so.
SavesBringIt ==
  \A i \in SaveIds : CallInFlight(i) =>
    /\ configSaves[i].by = "setting" =>
         configSaves[i].path = memPath /\ mem = {configSaves[i].config} /\ configSaves[i].config.stamp = memPath
    /\ configSaves[i].by = "reset" =>
         /\ configSaves[i].path = memPath /\ configSaves[i].config.stamp = memPath
         /\ configSaves[i].phase = "done" => Holds(memPath, configSaves[i].config)
OpeningsBringIt ==
  \A k \in OpenIds :
    /\ opens[k].phase \in {"loading", "loaded", "healing"} => memPath = opens[k].to
    /\ opens[k].phase = "loaded" => opens[k].got = ReadFile(opens[k].to)
    /\ opens[k].phase = "healing" =>
         LET i == opens[k].save IN
         /\ configSaves[i].path = opens[k].to /\ configSaves[i].config = opens[k].got.config
         /\ opens[k].got.config.stamp = opens[k].to
         /\ configSaves[i].phase = "done" => Holds(opens[k].to, opens[k].got.config)
Kept == steady /\ ~Failed => Agreed /\ SavesBringIt /\ OpeningsBringIt

ConfigInv ==
  /\ ConfigTypeOK /\ AboutFolders /\ NamesApart /\ LoadingHasCall
  /\ InTurn /\ OwnTmp /\ NeverPartial /\ Kept

AnOpening == [phase : OpenPhases, to : Anyone, save : 0 .. MaxConfigSaves, got : Content]
ASave == [phase : SavePhases, by : Savers, path : Anyone, config : Configs, fd : ConfigInodes]
Turns(k, phase, q, i, g) ==
  \E o \in AnOpening :
    /\ opens' = [opens EXCEPT ![k] = o]
    /\ o.phase = phase /\ o.to = q /\ o.save = i /\ o.got = g
Issued(by, p, c) == [phase |-> "issued", by |-> by, path |-> p, config |-> c, fd |-> 0]
EndOf(q) == IF q = NoProject THEN "over" ELSE "loading"

LEMMA ConfigShapes ==
  ASSUME ConfigTypeOK
  PROVE  /\ listedProjects \in SUBSET Projects /\ seeds \in SUBSET Projects
         /\ opened \in Anyone /\ memPath \in Anyone
         /\ mem \in SUBSET Configs /\ Cardinality(mem) <= 1
         /\ configLoading \in BOOLEAN /\ broken \in BOOLEAN /\ steady \in BOOLEAN
         /\ opens \in [OpenIds -> AnOpening] /\ configSaves \in [SaveIds -> ASave]
         /\ \A k \in OpenIds : /\ opens[k] \in AnOpening
                               /\ opens[k].phase \in OpenPhases /\ opens[k].to \in Anyone
                               /\ opens[k].save \in 0 .. MaxConfigSaves /\ opens[k].got \in Content
         /\ \A i \in SaveIds : /\ configSaves[i] \in ASave
                               /\ configSaves[i].phase \in SavePhases /\ configSaves[i].by \in Savers
                               /\ configSaves[i].path \in Anyone /\ configSaves[i].config \in Configs
                               /\ configSaves[i].fd \in ConfigInodes
         /\ inode \in [ConfigInodes -> Content]
         /\ file \in [Projects -> ConfigInodes] /\ tmp \in [Projects -> ConfigInodes]
         /\ settings \in 0 .. MaxSettings /\ crashes \in 0 .. MaxCrashes
<1>1. opens \in [OpenIds -> AnOpening] /\ configSaves \in [SaveIds -> ASave]
  BY DEF ConfigTypeOK, AnOpening, ASave
<1>2. \A k \in OpenIds : opens[k] \in AnOpening
  BY <1>1
<1>3. \A i \in SaveIds : configSaves[i] \in ASave
  BY <1>1
<1>4. \A k \in OpenIds : opens[k].phase \in OpenPhases /\ opens[k].to \in Anyone
                         /\ opens[k].save \in 0 .. MaxConfigSaves /\ opens[k].got \in Content
  BY <1>2 DEF AnOpening
<1>5. \A i \in SaveIds : configSaves[i].phase \in SavePhases /\ configSaves[i].by \in Savers
                         /\ configSaves[i].path \in Anyone /\ configSaves[i].config \in Configs
                         /\ configSaves[i].fd \in ConfigInodes
  BY <1>3 DEF ASave
<1> QED
  BY <1>1, <1>2, <1>3, <1>4, <1>5 DEF ConfigTypeOK

LEMMA ConfigValues ==
  /\ Default \in Values /\ Global \in Values /\ NoProject \in Anyone /\ Projects \subseteq Anyone
  /\ DefaultConfig \in Configs /\ CutSave \in Content
  /\ \A p \in Anyone : BlankFor(p) \in Configs /\ BlankFor(p).stamp = p
  /\ \A p \in Projects : OwnConfig(p) \in Configs
  /\ \A c \in Configs : Whole(c) \in Content /\ Whole(c).kind = "whole" /\ Whole(c).config = c
  /\ 0 \in ConfigInodes /\ SaveIds \subseteq ConfigInodes /\ 0 \notin SaveIds
  /\ 0 \in 0 .. MaxConfigSaves /\ SaveIds \subseteq 0 .. MaxConfigSaves
  /\ Projects \cap SaveIds = {} /\ NoProject \notin Projects
<1>1. Default \in Values /\ Global \in Values /\ NoProject \in Anyone /\ Projects \subseteq Anyone
  BY DEF Values, Anyone
<1>2. DefaultConfig \in Configs
  BY <1>1 DEF DefaultConfig, Configs
<1>3. CutSave \in Content
  BY <1>2 DEF CutSave, Content
<1>4. ASSUME NEW p \in Anyone PROVE BlankFor(p) \in Configs /\ BlankFor(p).stamp = p
  BY <1>1 DEF BlankFor, DefaultConfig, Configs
<1>5. ASSUME NEW p \in Projects PROVE OwnConfig(p) \in Configs
  <2>1. 0 \in 0 .. MaxSettings
    BY ProjectConfigConstants
  <2>2. <<p, 0>> \in Values
    BY <2>1 DEF Values
  <2> QED
    BY <1>1, <2>2 DEF OwnConfig, Configs
<1>6. \A c \in Configs : Whole(c) \in Content /\ Whole(c).kind = "whole" /\ Whole(c).config = c
  BY DEF Whole, Content
<1>7. /\ 0 \in 0 .. MaxConfigSaves /\ SaveIds \subseteq 0 .. MaxConfigSaves /\ 0 \notin SaveIds
      /\ Projects \cap SaveIds = {} /\ NoProject \notin Projects
  BY ProjectConfigConstants DEF SaveIds
<1>8. 0 \in ConfigInodes /\ SaveIds \subseteq ConfigInodes
  BY <1>7 DEF ConfigInodes
<1> QED
  BY <1>1, <1>2, <1>3, <1>4, <1>5, <1>6, <1>7, <1>8

\* An opening that moves on, by its fields.
LEMMA TurnsByPhase ==
  ASSUME ConfigTypeOK, NEW k \in OpenIds, NEW phase \in OpenPhases,
         opens' = [opens EXCEPT ![k].phase = phase]
  PROVE  Turns(k, phase, opens[k].to, opens[k].save, opens[k].got)
<1>1. opens[k] \in AnOpening
  BY ConfigShapes
<1> DEFINE o == [opens[k] EXCEPT !.phase = phase]
<1>2. o \in AnOpening /\ o.phase = phase /\ o.to = opens[k].to /\ o.save = opens[k].save
      /\ o.got = opens[k].got
  BY <1>1 DEF AnOpening
<1>3. opens' = [opens EXCEPT ![k] = o]
  OBVIOUS
<1> HIDE DEF o
<1> QED
  BY <1>2, <1>3 DEF Turns

LEMMA TurnsAtOnce ==
  ASSUME ConfigTypeOK, NEW k \in OpenIds, NEW phase \in OpenPhases, NEW q \in Anyone,
         opens' = [[opens EXCEPT ![k].phase = "saving", ![k].to = q] EXCEPT ![k].phase = phase]
  PROVE  Turns(k, phase, q, opens[k].save, opens[k].got)
<1>1. opens[k] \in AnOpening /\ opens \in [OpenIds -> AnOpening]
  BY ConfigShapes
<1> DEFINE o == [[opens[k] EXCEPT !.phase = "saving", !.to = q] EXCEPT !.phase = phase]
<1>2. o \in AnOpening /\ o.phase = phase /\ o.to = q /\ o.save = opens[k].save
      /\ o.got = opens[k].got
  BY <1>1 DEF AnOpening
<1>3. opens' = [opens EXCEPT ![k] = o]
  BY <1>1
<1> HIDE DEF o
<1> QED
  BY <1>2, <1>3 DEF Turns

LEMMA TurnsToSaving ==
  ASSUME ConfigTypeOK, NEW k \in OpenIds, NEW q \in Anyone, NEW i \in SaveIds,
         opens' = [[opens EXCEPT ![k].phase = "saving", ![k].to = q] EXCEPT ![k].save = i]
  PROVE  Turns(k, "saving", q, i, opens[k].got)
<1>1. opens[k] \in AnOpening /\ opens \in [OpenIds -> AnOpening] /\ i \in 0 .. MaxConfigSaves
  BY ConfigShapes, ConfigValues
<1> DEFINE o == [[opens[k] EXCEPT !.phase = "saving", !.to = q] EXCEPT !.save = i]
<1>2. o \in AnOpening /\ o.phase = "saving" /\ o.to = q /\ o.save = i
      /\ o.got = opens[k].got
  BY <1>1 DEF AnOpening, OpenPhases
<1>3. opens' = [opens EXCEPT ![k] = o]
  BY <1>1
<1> HIDE DEF o
<1> QED
  BY <1>2, <1>3 DEF Turns

LEMMA TurnsToHealing ==
  ASSUME ConfigTypeOK, NEW k \in OpenIds, NEW i \in SaveIds, NEW g \in Content,
         opens' = [opens EXCEPT ![k].phase = "healing", ![k].save = i, ![k].got = g]
  PROVE  Turns(k, "healing", opens[k].to, i, g)
<1>1. opens[k] \in AnOpening /\ opens \in [OpenIds -> AnOpening] /\ i \in 0 .. MaxConfigSaves
  BY ConfigShapes, ConfigValues
<1> DEFINE o == [opens[k] EXCEPT !.phase = "healing", !.save = i, !.got = g]
<1>2. o \in AnOpening /\ o.phase = "healing" /\ o.to = opens[k].to /\ o.save = i /\ o.got = g
  BY <1>1 DEF AnOpening, OpenPhases
<1>3. opens' = [opens EXCEPT ![k] = o]
  BY <1>1
<1> HIDE DEF o
<1> QED
  BY <1>2, <1>3 DEF Turns

\* How an opening begins: by what it is for, or by saving what is to be left.
LEMMA SwitchWays ==
  ASSUME ConfigTypeOK, NEW q \in Anyone, SwitchTo(q)
  PROVE  /\ opened' = q /\ UNCHANGED <<inode, file, tmp, settings, crashes, steady>>
         /\ \E k \in OpenIds :
              /\ opens[k].phase = "none"
              /\ \/ /\ memPath' = q /\ broken' = FALSE /\ configLoading' = (q # NoProject)
                    /\ mem' = IF q = NoProject THEN {} ELSE mem
                    /\ Turns(k, EndOf(q), q, opens[k].save, opens[k].got)
                    /\ configSaves' = configSaves
                 \/ \E i \in SaveIds, c \in mem :
                      /\ memPath # NoProject /\ configSaves[i].phase = "none"
                      /\ configSaves' = [configSaves EXCEPT ![i] = Issued("opening", memPath, c)]
                      /\ Turns(k, "saving", q, i, opens[k].got)
                      /\ memPath' = memPath /\ mem' = mem /\ configLoading' = configLoading
                      /\ broken' = broken
<1>1. opened' = q /\ UNCHANGED <<inode, file, tmp, settings, crashes, steady>>
  BY DEF SwitchTo, filesVars
<1>2. opens \in [OpenIds -> AnOpening]
  BY ConfigShapes
<1>3. PICK k \in OpenIds :
        LET begun == [opens EXCEPT ![k].phase = "saving", ![k].to = q] IN
        /\ opens[k].phase = "none"
        /\ \/ Entered(k, q, begun) /\ configSaves' = configSaves
           \/ /\ memPath # NoProject
              /\ \E i \in SaveIds, c \in mem :
                   /\ Issue(i, "opening", memPath, c)
                   /\ opens' = [begun EXCEPT ![k].save = i]
              /\ UNCHANGED <<memPath, mem, configLoading, broken>>
  BY DEF SwitchTo
<1> DEFINE begun == [opens EXCEPT ![k].phase = "saving", ![k].to = q]
<1>4. EndOf(q) \in OpenPhases
  BY DEF EndOf, OpenPhases
<1>7. CASE Entered(k, q, begun) /\ configSaves' = configSaves
  <2>1. opens' = [begun EXCEPT ![k].phase = EndOf(q)]
    BY <1>7 DEF Entered, EndOf
  <2>2. memPath' = q /\ broken' = FALSE /\ configLoading' = (q # NoProject)
        /\ mem' = IF q = NoProject THEN {} ELSE mem
    BY <1>7 DEF Entered
  <2>3. Turns(k, EndOf(q), q, opens[k].save, opens[k].got)
    BY <1>4, <2>1, TurnsAtOnce
  <2> QED
    BY <1>1, <1>3, <1>7, <2>2, <2>3
<1>8. CASE /\ memPath # NoProject
           /\ \E i \in SaveIds, c \in mem :
                Issue(i, "opening", memPath, c) /\ opens' = [begun EXCEPT ![k].save = i]
           /\ UNCHANGED <<memPath, mem, configLoading, broken>>
  <2>1. PICK i \in SaveIds, c \in mem : Issue(i, "opening", memPath, c) /\ opens' = [begun EXCEPT ![k].save = i]
    BY <1>8
  <2>2. configSaves[i].phase = "none" /\ configSaves' = [configSaves EXCEPT ![i] = Issued("opening", memPath, c)]
    BY <2>1 DEF Issue, NextSave, Issued
  <2>3. Turns(k, "saving", q, i, opens[k].got)
    BY <2>1, TurnsToSaving
  <2>4. memPath' = memPath /\ mem' = mem /\ configLoading' = configLoading /\ broken' = broken
    BY <1>8
  <2> HIDE DEF begun
  <2> QED
    BY <1>1, <1>3, <1>8, <2>2, <2>3, <2>4
<1> QED
  BY <1>3, <1>7, <1>8

\* How the path comes to be that of the incoming project.
LEMMA OutgoingWays ==
  ASSUME ConfigTypeOK, NEW k \in OpenIds, Outgoing(k)
  PROVE  LET q == opens[k].to IN
         /\ opens[k].phase = "saving" /\ CallEnded(opens[k].save) /\ q \in Anyone
         /\ memPath' = q /\ broken' = FALSE /\ configLoading' = (q # NoProject)
         /\ mem' = IF q = NoProject THEN {} ELSE mem
         /\ Turns(k, EndOf(q), q, opens[k].save, opens[k].got)
         /\ UNCHANGED <<listedProjects, opened, seeds, configSaves, inode, file, tmp, settings,
                        crashes, steady>>
<1>1. opens \in [OpenIds -> AnOpening] /\ opens[k] \in AnOpening /\ opens[k].to \in Anyone
  BY ConfigShapes
<1> DEFINE q == opens[k].to
<1>2. EndOf(q) \in OpenPhases
  BY DEF EndOf, OpenPhases
<1>3. opens' = [opens EXCEPT ![k].phase = EndOf(q)]
  BY DEF Outgoing, Entered, EndOf
<1>4. /\ opens[k].phase = "saving" /\ CallEnded(opens[k].save)
      /\ memPath' = q /\ broken' = FALSE /\ configLoading' = (q # NoProject)
      /\ mem' = IF q = NoProject THEN {} ELSE mem
      /\ UNCHANGED <<listedProjects, opened, seeds, configSaves, inode, file, tmp, settings,
                     crashes, steady>>
  BY DEF Outgoing, Entered, filesVars
<1>5. Turns(k, EndOf(q), q, opens[k].save, opens[k].got)
  BY <1>2, <1>3, TurnsByPhase
<1> QED
  BY <1>1, <1>4, <1>5

\* What becomes of what was loaded.
LEMMA LoadedWays ==
  ASSUME ConfigTypeOK, NEW k \in OpenIds, OnConfigLoaded(k), opens[k].to \in Anyone
  PROVE  LET q == opens[k].to
             got == opens[k].got
         IN
         /\ opens[k].phase = "loaded"
         /\ UNCHANGED <<listedProjects, opened, memPath, seeds, inode, file, tmp, settings,
                        crashes, steady>>
         /\ \/ /\ got.kind # "whole" /\ mem' = {BlankFor(q)}
               /\ configLoading' = FALSE /\ broken' = TRUE
               /\ Turns(k, "over", q, opens[k].save, got)
               /\ configSaves' = configSaves
            \/ /\ got.kind = "whole" /\ got.config.stamp = q /\ mem' = {got.config}
               /\ configLoading' = FALSE /\ broken' = broken
               /\ Turns(k, "over", q, opens[k].save, got)
               /\ configSaves' = configSaves
            \/ \E i \in SaveIds, c \in Configs :
                 /\ got.kind = "whole" /\ c.stamp = q /\ configSaves[i].phase = "none"
                 /\ configSaves' = [configSaves EXCEPT ![i] = Issued("opening", q, c)]
                 /\ Turns(k, "healing", q, i, Whole(c))
                 /\ mem' = mem /\ configLoading' = configLoading /\ broken' = broken
<1>1. opens \in [OpenIds -> AnOpening] /\ opens[k] \in AnOpening /\ opens[k].got \in Content
  BY ConfigShapes
<1> DEFINE q == opens[k].to
           got == opens[k].got
<1>2. got.config \in Configs
  BY <1>1 DEF Content
<1>3. ASSUME opens' = [opens EXCEPT ![k].phase = "over"]
      PROVE  Turns(k, "over", q, opens[k].save, got)
  <2>1. "over" \in OpenPhases
    BY DEF OpenPhases
  <2> QED
    BY <1>3, <2>1, TurnsByPhase
<1>4. /\ opens[k].phase = "loaded"
      /\ UNCHANGED <<listedProjects, opened, memPath, seeds, inode, file, tmp, settings,
                     crashes, steady>>
  BY DEF OnConfigLoaded, filesVars
<1>5. CASE /\ got.kind # "whole" /\ mem' = {BlankFor(q)}
           /\ configLoading' = LoadingAfterError /\ broken' = TRUE
           /\ opens' = [opens EXCEPT ![k].phase = "over"] /\ UNCHANGED configSaves
  <2>1. configLoading' = FALSE
    BY <1>5 DEF LoadingAfterError
  <2> QED
    BY <1>3, <1>4, <1>5, <2>1
<1>6. ASSUME NEW c \in Heals([got.config EXCEPT !.stamp = q]), c = got.config, got.kind = "whole",
             mem' = Held(c), configLoading' = FALSE, opens' = [opens EXCEPT ![k].phase = "over"],
             configSaves' = configSaves, broken' = broken
      PROVE  /\ got.config.stamp = q /\ mem' = {got.config}
             /\ Turns(k, "over", q, opens[k].save, got)
  <2>1. c.stamp = q
    BY <1>2 DEF Heals, Configs
  <2> QED
    BY <1>3, <1>6, <2>1 DEF Held
<1>7. ASSUME NEW c \in Heals([got.config EXCEPT !.stamp = q]), NEW i \in SaveIds,
             Issue(i, "opening", q, c),
             opens' = [opens EXCEPT ![k].phase = "healing", ![k].save = i, ![k].got = Whole(c)]
      PROVE  /\ c \in Configs /\ c.stamp = q /\ configSaves[i].phase = "none"
             /\ configSaves' = [configSaves EXCEPT ![i] = Issued("opening", q, c)]
             /\ Turns(k, "healing", q, i, Whole(c))
  <2>1. c \in Configs /\ c.stamp = q
    <3>1. [got.config EXCEPT !.stamp = q] \in Configs /\ [got.config EXCEPT !.stamp = q].stamp = q
      BY <1>2 DEF Configs
    <3> DEFINE d == [got.config EXCEPT !.stamp = q]
    <3>2. c = d \/ c = [d EXCEPT !.agent = Global]
      BY DEF Heals
    <3> HIDE DEF d
    <3>3. d \in Configs /\ d.stamp = q
      BY <3>1 DEF d
    <3>4. [d EXCEPT !.agent = Global] \in Configs /\ [d EXCEPT !.agent = Global].stamp = q
      BY <3>3, ConfigValues DEF Configs
    <3> QED
      BY <3>2, <3>3, <3>4
  <2>2. configSaves[i].phase = "none" /\ configSaves' = [configSaves EXCEPT ![i] = Issued("opening", q, c)]
    BY <1>7 DEF Issue, NextSave, Issued
  <2>3. Turns(k, "healing", q, i, Whole(c))
    BY <1>7, <2>1, ConfigValues, TurnsToHealing
  <2> QED
    BY <2>1, <2>2, <2>3
<1>8. CASE /\ got.kind = "whole" /\ UNCHANGED broken
           /\ \E c \in Heals([got.config EXCEPT !.stamp = q]) :
                IF c = got.config
                THEN /\ mem' = Held(c) /\ configLoading' = FALSE
                     /\ opens' = [opens EXCEPT ![k].phase = "over"]
                     /\ UNCHANGED configSaves
                ELSE /\ \E i \in SaveIds :
                          /\ Issue(i, "opening", q, c)
                          /\ opens' = [opens EXCEPT ![k].phase = "healing", ![k].save = i,
                                                    ![k].got = Whole(c)]
                     /\ UNCHANGED <<mem, configLoading>>
  <2>1. PICK c \in Heals([got.config EXCEPT !.stamp = q]) :
                IF c = got.config
                THEN /\ mem' = Held(c) /\ configLoading' = FALSE
                     /\ opens' = [opens EXCEPT ![k].phase = "over"]
                     /\ configSaves' = configSaves
                ELSE /\ \E i \in SaveIds :
                          /\ Issue(i, "opening", q, c)
                          /\ opens' = [opens EXCEPT ![k].phase = "healing", ![k].save = i,
                                                    ![k].got = Whole(c)]
                     /\ mem' = mem /\ configLoading' = configLoading
    BY <1>8
  <2>2. got.kind = "whole" /\ broken' = broken
    BY <1>8
  <2>3. CASE c = got.config
    <3>1. mem' = Held(c) /\ configLoading' = FALSE /\ configSaves' = configSaves
          /\ opens' = [opens EXCEPT ![k].phase = "over"]
      BY <2>1, <2>3
    <3>2. /\ got.config.stamp = q /\ mem' = {got.config}
          /\ Turns(k, "over", q, opens[k].save, got)
      BY <1>6, <2>2, <2>3, <3>1
    <3> QED
      BY <1>4, <2>2, <3>1, <3>2
  <2>4. CASE c # got.config
    <3>1. PICK i \in SaveIds :
            /\ Issue(i, "opening", q, c)
            /\ opens' = [opens EXCEPT ![k].phase = "healing", ![k].save = i, ![k].got = Whole(c)]
      BY <2>1, <2>4
    <3>2. mem' = mem /\ configLoading' = configLoading
      BY <2>1, <2>4
    <3>3. /\ c \in Configs /\ c.stamp = q /\ configSaves[i].phase = "none"
          /\ configSaves' = [configSaves EXCEPT ![i] = Issued("opening", q, c)]
          /\ Turns(k, "healing", q, i, Whole(c))
      BY <1>7, <3>1
    <3> HIDE DEF q, got
    <3>4. \E j \in SaveIds, d \in Configs :
                 /\ got.kind = "whole" /\ d.stamp = q /\ configSaves[j].phase = "none"
                 /\ configSaves' = [configSaves EXCEPT ![j] = Issued("opening", q, d)]
                 /\ Turns(k, "healing", q, j, Whole(d))
                 /\ mem' = mem /\ configLoading' = configLoading /\ broken' = broken
      BY <2>2, <3>2, <3>3
    <3> QED
      BY <1>4, <3>4 DEF q, got
  <2> QED
    BY <2>3, <2>4
<1> QED
  BY <1>5, <1>8 DEF OnConfigLoaded

\* A call of save_config that moves on.
SaveTurns(i, phase, fd) ==
  \E s \in ASave :
    /\ configSaves' = [configSaves EXCEPT ![i] = s]
    /\ s.phase = phase /\ s.by = configSaves[i].by /\ s.path = configSaves[i].path
    /\ s.config = configSaves[i].config /\ s.fd = fd

LEMMA SavesByPhase ==
  ASSUME ConfigTypeOK, NEW i \in SaveIds, NEW phase \in SavePhases,
         configSaves' = [configSaves EXCEPT ![i].phase = phase]
  PROVE  SaveTurns(i, phase, configSaves[i].fd)
<1>1. configSaves[i] \in ASave
  BY ConfigShapes
<1> DEFINE s == [configSaves[i] EXCEPT !.phase = phase]
<1>2. s \in ASave /\ s.phase = phase /\ s.by = configSaves[i].by /\ s.path = configSaves[i].path
      /\ s.config = configSaves[i].config /\ s.fd = configSaves[i].fd
  BY <1>1 DEF ASave
<1>3. configSaves' = [configSaves EXCEPT ![i] = s]
  OBVIOUS
<1> HIDE DEF s
<1> QED
  BY <1>2, <1>3 DEF SaveTurns

\* What a call of the temporary file opens, and what it makes of it.
LEMMA OpenTmpWays ==
  ASSUME ConfigTypeOK, AboutFolders, NEW i \in SaveIds, OpenTmp(i)
  PROVE  LET p == configSaves[i].path
             fd == IF tmp[p] = 0 THEN i ELSE tmp[p]
         IN  /\ configSaves[i].phase = "issued" /\ p \in Projects /\ fd \in ConfigInodes /\ fd # 0
             /\ tmp' = [tmp EXCEPT ![p] = fd]
             /\ inode' = [inode EXCEPT ![fd] = CutSave]
             /\ SaveTurns(i, "open", fd)
             /\ UNCHANGED <<listedProjects, opened, memPath, mem, configLoading, opens, seeds,
                            broken, file, settings, crashes, steady>>
<1>1. configSaves[i] \in ASave /\ configSaves[i].phase = "issued"
      /\ configSaves \in [SaveIds -> ASave] /\ tmp \in [Projects -> ConfigInodes]
  BY ConfigShapes DEF OpenTmp
<1> DEFINE p == configSaves[i].path
           fd == IF tmp[p] = 0 THEN i ELSE tmp[p]
           s == [configSaves[i] EXCEPT !.phase = "open", !.fd = fd]
<1>2. p \in Projects
  BY <1>1 DEF AboutFolders
<1>3. fd \in ConfigInodes /\ fd # 0
  BY <1>1, <1>2, ConfigValues
<1>4. /\ tmp' = [tmp EXCEPT ![p] = fd]
      /\ inode' = [inode EXCEPT ![fd] = CutSave]
      /\ configSaves' = [configSaves EXCEPT ![i].phase = "open", ![i].fd = fd]
      /\ UNCHANGED <<listedProjects, opened, memPath, mem, configLoading, opens, seeds,
                     broken, file, settings, crashes, steady>>
  BY DEF OpenTmp, Target, memoryVars
<1>5. configSaves' = [configSaves EXCEPT ![i] = s]
  BY <1>1, <1>4
<1> HIDE DEF fd
<1>6. s \in ASave /\ s.phase = "open" /\ s.by = configSaves[i].by /\ s.path = p
      /\ s.config = configSaves[i].config /\ s.fd = fd
  BY <1>1, <1>3 DEF ASave, SavePhases
<1> HIDE DEF s
<1>7. SaveTurns(i, "open", fd)
  BY <1>5, <1>6 DEF SaveTurns
<1> QED
  BY <1>1, <1>2, <1>3, <1>4, <1>7 DEF fd

LEMMA WriteTmpWays ==
  ASSUME ConfigTypeOK, NEW i \in SaveIds, WriteTmp(i)
  PROVE  LET fd == configSaves[i].fd IN
         /\ configSaves[i].phase = "open"
         /\ SaveTurns(i, "written", fd)
         /\ \E kind \in {"whole", "mixed"} :
              /\ inode[fd].kind = "cut" => kind = "whole"
              /\ [kind |-> kind, config |-> configSaves[i].config] \in Content
              /\ inode' = [inode EXCEPT ![fd] = [kind |-> kind, config |-> configSaves[i].config]]
         /\ UNCHANGED <<listedProjects, opened, memPath, mem, configLoading, opens, seeds,
                        broken, file, tmp, settings, crashes, steady>>
<1>1. configSaves[i].config \in Configs
  BY ConfigShapes
<1>2. \A kind \in {"whole", "mixed"} : [kind |-> kind, config |-> configSaves[i].config] \in Content
  BY <1>1 DEF Content
<1>3. configSaves[i].phase = "open" /\ configSaves' = [configSaves EXCEPT ![i].phase = "written"]
      /\ UNCHANGED <<listedProjects, opened, memPath, mem, configLoading, opens, seeds,
                     broken, file, tmp, settings, crashes, steady>>
  BY DEF WriteTmp, memoryVars
<1>4. SaveTurns(i, "written", configSaves[i].fd)
  <2>1. "written" \in SavePhases
    BY DEF SavePhases
  <2> QED
    BY <1>3, <2>1, SavesByPhase
<1>5. \E kind \in {"whole", "mixed"} :
        /\ inode[configSaves[i].fd].kind = "cut" => kind = "whole"
        /\ inode' = [inode EXCEPT ![configSaves[i].fd] = [kind |-> kind, config |-> configSaves[i].config]]
  BY DEF WriteTmp
<1> QED
  BY <1>2, <1>3, <1>4, <1>5

LEMMA RenameTmpWays ==
  ASSUME ConfigTypeOK, AboutFolders, NEW i \in SaveIds, RenameTmp(i)
  PROVE  LET p == configSaves[i].path IN
         /\ configSaves[i].phase = "written" /\ p \in Projects
         /\ \/ /\ tmp[p] = 0 /\ SaveTurns(i, "failed", configSaves[i].fd)
               /\ UNCHANGED <<file, tmp>> /\ broken' \in BOOLEAN
            \/ /\ tmp[p] # 0 /\ SaveTurns(i, "done", configSaves[i].fd)
               /\ file' = [file EXCEPT ![p] = tmp[p]] /\ tmp' = [tmp EXCEPT ![p] = 0]
               /\ broken' = broken
         /\ UNCHANGED <<listedProjects, opened, memPath, mem, configLoading, opens, seeds,
                        inode, settings, crashes, steady>>
<1>1. configSaves[i].phase = "written"
      /\ UNCHANGED <<listedProjects, opened, memPath, mem, configLoading, opens, seeds,
                     inode, settings, crashes, steady>>
  BY DEF RenameTmp, memoryVars
<1>2. configSaves[i].path \in Projects
  BY <1>1 DEF AboutFolders
<1>3. "failed" \in SavePhases /\ "done" \in SavePhases
  BY DEF SavePhases
<1>4. CASE tmp[configSaves[i].path] = 0
  <2>1. configSaves' = [configSaves EXCEPT ![i].phase = "failed"] /\ UNCHANGED <<file, tmp>>
    BY <1>4 DEF RenameTmp
  <2>2. broken' \in BOOLEAN
    BY <1>4 DEF RenameTmp
  <2>3. SaveTurns(i, "failed", configSaves[i].fd)
    BY <1>3, <2>1, SavesByPhase
  <2> QED
    BY <1>1, <1>2, <1>4, <2>1, <2>2, <2>3
<1>5. CASE tmp[configSaves[i].path] # 0
  <2>1. configSaves' = [configSaves EXCEPT ![i].phase = "done"]
        /\ file' = [file EXCEPT ![configSaves[i].path] = tmp[configSaves[i].path]]
        /\ tmp' = [tmp EXCEPT ![configSaves[i].path] = 0] /\ broken' = broken
    BY <1>5 DEF RenameTmp
  <2>2. SaveTurns(i, "done", configSaves[i].fd)
    BY <1>3, <2>1, SavesByPhase
  <2> QED
    BY <1>1, <1>2, <1>5, <2>1, <2>2
<1> QED
  BY <1>4, <1>5

\* A call that is issued.
LEMMA IssuedFields ==
  ASSUME NEW by, NEW p, NEW c
  PROVE  /\ Issued(by, p, c).phase = "issued" /\ Issued(by, p, c).by = by
         /\ Issued(by, p, c).path = p /\ Issued(by, p, c).config = c
BY DEF Issued

\* The types, once those of the openings and the calls are known.
LEMMA ConfigFields ==
  ASSUME opens' \in [OpenIds -> AnOpening], configSaves' \in [SaveIds -> ASave],
         listedProjects' \in SUBSET Projects, seeds' \in SUBSET Projects,
         opened' \in Anyone, memPath' \in Anyone, mem' \in SUBSET Configs, Cardinality(mem') <= 1,
         configLoading' \in BOOLEAN, broken' \in BOOLEAN, steady' \in BOOLEAN,
         inode' \in [ConfigInodes -> Content],
         file' \in [Projects -> ConfigInodes], tmp' \in [Projects -> ConfigInodes],
         settings' \in 0 .. MaxSettings, crashes' \in 0 .. MaxCrashes
  PROVE  ConfigTypeOK'
BY DEF ConfigTypeOK, AnOpening, ASave

LEMMA OneHeld ==
  ASSUME NEW c PROVE Cardinality({c}) <= 1 /\ Cardinality({}) <= 1
<1>1. Cardinality({c}) = 1
  BY FS_Singleton
<1>2. Cardinality({}) = 0
  BY FS_EmptySet
<1> QED
  BY <1>1, <1>2

LEMMA ConfigTypeStep ==
  ASSUME ConfigTypeOK, AboutFolders, ConfigNext PROVE ConfigTypeOK' /\ AboutFolders'
<1>1. /\ listedProjects \in SUBSET Projects /\ seeds \in SUBSET Projects
      /\ opened \in Anyone /\ memPath \in Anyone
      /\ mem \in SUBSET Configs /\ Cardinality(mem) <= 1
      /\ configLoading \in BOOLEAN /\ broken \in BOOLEAN /\ steady \in BOOLEAN
      /\ opens \in [OpenIds -> AnOpening] /\ configSaves \in [SaveIds -> ASave]
      /\ inode \in [ConfigInodes -> Content]
      /\ file \in [Projects -> ConfigInodes] /\ tmp \in [Projects -> ConfigInodes]
      /\ settings \in 0 .. MaxSettings /\ crashes \in 0 .. MaxCrashes
  BY ConfigShapes
<1>2. /\ \A k \in OpenIds : /\ opens[k] \in AnOpening
                            /\ opens[k].phase \in OpenPhases /\ opens[k].to \in Anyone
                            /\ opens[k].save \in 0 .. MaxConfigSaves /\ opens[k].got \in Content
      /\ \A i \in SaveIds : /\ configSaves[i] \in ASave
                            /\ configSaves[i].phase \in SavePhases /\ configSaves[i].by \in Savers
                            /\ configSaves[i].path \in Anyone /\ configSaves[i].config \in Configs
                            /\ configSaves[i].fd \in ConfigInodes
  BY ConfigShapes
<1>3. /\ \A i \in SaveIds : configSaves[i].phase # "none" => configSaves[i].path \in Projects
      /\ \A k \in OpenIds : opens[k].phase \in {"loading", "loaded", "healing"} => opens[k].to \in Projects
  BY DEF AboutFolders
<1>4. \A q \in Anyone : q # NoProject => q \in Projects
  BY DEF Anyone
\* One opening moves, or none; one call, or none.
<1>5. ASSUME NEW k \in OpenIds, NEW phase, NEW q, NEW i, NEW g, Turns(k, phase, q, i, g),
             phase \in {"loading", "loaded", "healing"} => q \in Projects
      PROVE  /\ opens' \in [OpenIds -> AnOpening]
             /\ \A l \in OpenIds : opens'[l].phase \in {"loading", "loaded", "healing"} => opens'[l].to \in Projects
  <2>1. PICK o \in AnOpening : opens' = [opens EXCEPT ![k] = o] /\ o.phase = phase /\ o.to = q
    BY <1>5 DEF Turns
  <2> QED
    BY <1>1, <1>3, <1>5, <2>1
<1>6. ASSUME NEW i \in SaveIds, NEW phase, NEW fd, SaveTurns(i, phase, fd), configSaves[i].phase # "none"
      PROVE  /\ configSaves' \in [SaveIds -> ASave]
             /\ \A j \in SaveIds : configSaves'[j].phase # "none" => configSaves'[j].path \in Projects
  <2>1. PICK s \in ASave : configSaves' = [configSaves EXCEPT ![i] = s] /\ s.path = configSaves[i].path
    BY <1>6 DEF SaveTurns
  <2> QED
    BY <1>1, <1>3, <1>6, <2>1
<1>7. ASSUME NEW i \in SaveIds, NEW by \in Savers, NEW p \in Projects, NEW c \in Configs,
             configSaves' = [configSaves EXCEPT ![i] = Issued(by, p, c)]
      PROVE  /\ configSaves' \in [SaveIds -> ASave]
             /\ \A j \in SaveIds : configSaves'[j].phase # "none" => configSaves'[j].path \in Projects
  <2>1. configSaves' \in [SaveIds -> ASave] /\ Issued(by, p, c).path = p
    <3>1. p \in Anyone
      BY ConfigValues
    <3> QED
      <4>1. Issued(by, p, c) \in ASave /\ Issued(by, p, c).path = p
        BY <3>1, ConfigValues DEF Issued, ASave, SavePhases
      <4> QED
        BY <1>1, <1>7, <4>1
  <2> QED
    BY <1>1, <1>3, <1>7, <2>1
<1>8. ASSUME NEW i \in SaveIds, NEW by, NEW p, NEW c, Issue(i, by, p, c)
      PROVE  configSaves' = [configSaves EXCEPT ![i] = Issued(by, p, c)]
  BY <1>8 DEF Issue, Issued
<1>9. "opening" \in Savers /\ "setting" \in Savers /\ "reset" \in Savers /\ "seed" \in Savers
  BY DEF Savers
<1>10. ASSUME NEW q \in Anyone, SwitchTo(q), listedProjects' \in SUBSET Projects,
              seeds' \in SUBSET Projects
       PROVE  ConfigTypeOK' /\ AboutFolders'
  <2>1. opened' = q /\ inode' = inode /\ file' = file /\ tmp' = tmp /\ settings' = settings
        /\ crashes' = crashes /\ steady' = steady
    BY <1>10, SwitchWays
  <2>2. PICK k \in OpenIds :
          \/ /\ memPath' = q /\ broken' = FALSE /\ configLoading' = (q # NoProject)
             /\ mem' = IF q = NoProject THEN {} ELSE mem
             /\ Turns(k, EndOf(q), q, opens[k].save, opens[k].got)
             /\ configSaves' = configSaves
          \/ \E i \in SaveIds, c \in mem :
               /\ memPath # NoProject /\ configSaves[i].phase = "none"
               /\ configSaves' = [configSaves EXCEPT ![i] = Issued("opening", memPath, c)]
               /\ Turns(k, "saving", q, i, opens[k].got)
               /\ memPath' = memPath /\ mem' = mem /\ configLoading' = configLoading
               /\ broken' = broken
    BY <1>10, SwitchWays
  <2>3. CASE /\ memPath' = q /\ broken' = FALSE /\ configLoading' = (q # NoProject)
             /\ mem' = IF q = NoProject THEN {} ELSE mem
             /\ Turns(k, EndOf(q), q, opens[k].save, opens[k].got)
             /\ configSaves' = configSaves
    <3>1. EndOf(q) \in {"loading", "loaded", "healing"} => q \in Projects
      BY <1>4 DEF EndOf
    <3>2. /\ opens' \in [OpenIds -> AnOpening]
          /\ \A l \in OpenIds : opens'[l].phase \in {"loading", "loaded", "healing"} => opens'[l].to \in Projects
      BY <1>5, <2>3, <3>1
    <3>3. mem' \in SUBSET Configs /\ Cardinality(mem') <= 1
      BY <1>1, <2>3, OneHeld
    <3>4. memPath' \in Anyone /\ opened' \in Anyone /\ configLoading' \in BOOLEAN /\ broken' \in BOOLEAN
      BY <2>1, <2>3
    <3>5. ConfigTypeOK'
      BY <1>1, <1>10, <2>1, <2>3, <3>2, <3>3, <3>4, ConfigFields
    <3> QED
      BY <1>3, <2>3, <3>2, <3>5 DEF AboutFolders
  <2>4. CASE \E i \in SaveIds, c \in mem :
               /\ memPath # NoProject /\ configSaves[i].phase = "none"
               /\ configSaves' = [configSaves EXCEPT ![i] = Issued("opening", memPath, c)]
               /\ Turns(k, "saving", q, i, opens[k].got)
               /\ memPath' = memPath /\ mem' = mem /\ configLoading' = configLoading
               /\ broken' = broken
    <3>1. PICK i \in SaveIds, c \in mem :
               /\ memPath # NoProject
               /\ configSaves' = [configSaves EXCEPT ![i] = Issued("opening", memPath, c)]
               /\ Turns(k, "saving", q, i, opens[k].got)
               /\ memPath' = memPath /\ mem' = mem /\ configLoading' = configLoading
               /\ broken' = broken
      BY <2>4
    <3>2. memPath \in Projects /\ c \in Configs
      BY <1>1, <1>4, <3>1
    <3>3. /\ configSaves' \in [SaveIds -> ASave]
          /\ \A j \in SaveIds : configSaves'[j].phase # "none" => configSaves'[j].path \in Projects
      BY <1>7, <1>9, <3>1, <3>2
    <3>4. /\ opens' \in [OpenIds -> AnOpening]
          /\ \A l \in OpenIds : opens'[l].phase \in {"loading", "loaded", "healing"} => opens'[l].to \in Projects
      BY <1>5, <3>1
    <3>5. opened' \in Anyone
      BY <2>1
    <3>6. ConfigTypeOK'
      BY <1>1, <1>10, <2>1, <3>1, <3>3, <3>4, <3>5, ConfigFields
    <3> QED
      BY <3>3, <3>4, <3>6 DEF AboutFolders
  <2> QED
    BY <2>2, <2>3, <2>4
<1>11. ASSUME NEW p \in Projects, SelectProject(p) \/ Import(p) \/ RemoveProject(p)
       PROVE  ConfigTypeOK' /\ AboutFolders'
  <2>1. PICK q \in Anyone : SwitchTo(q)
    BY <1>11, ConfigValues DEF SelectProject, Import, RemoveProject
  <2>2. listedProjects' \in SUBSET Projects /\ seeds' \in SUBSET Projects
    BY <1>1, <1>11 DEF SelectProject, Import, RemoveProject
  <2> QED
    BY <1>10, <2>1, <2>2
<1>12. ASSUME NEW p \in Projects, HandEdit(p) PROVE ConfigTypeOK' /\ AboutFolders'
  <2>1. settings' = settings + 1 /\ settings < MaxSettings /\ file[p] \in ConfigInodes
        /\ UNCHANGED <<listedProjects, opened, memPath, mem, configLoading, opens, seeds,
                       broken, configSaves, file, tmp, crashes, steady>>
    BY <1>1, <1>12 DEF HandEdit, memoryVars
  <2>2. settings' \in 0 .. MaxSettings
    BY <1>1, <2>1, ProjectConfigConstants
  <2>3. inode[file[p]].config \in Configs
    BY <1>1, <2>1 DEF Content
  <2>4. <<p, settings'>> \in Values
    BY <2>2 DEF Values
  <2>5. [inode[file[p]].config EXCEPT !.rest = <<p, settings'>>] \in Configs
    BY <2>3, <2>4 DEF Configs
  <2>6. [kind |-> "broken", config |-> DefaultConfig] \in Content
    BY ConfigValues DEF Content
  <2>7. \E c \in Content : inode' = [inode EXCEPT ![file[p]] = c]
    BY <1>12, <2>5, <2>6, ConfigValues DEF HandEdit
  <2>8. inode' \in [ConfigInodes -> Content]
    BY <1>1, <2>7
  <2>9. ConfigTypeOK'
    BY <1>1, <2>1, <2>2, <2>8, ConfigFields
  <2> QED
    BY <1>3, <2>1, <2>9 DEF AboutFolders
<1>13. ASSUME NEW q \in Projects, Seed(q) PROVE ConfigTypeOK' /\ AboutFolders'
  <2>1. seeds' \in SUBSET Projects
        /\ UNCHANGED <<listedProjects, opened, memPath, mem, configLoading, broken,
                       opens, inode, file, tmp, settings, crashes, steady>>
    BY <1>1, <1>13 DEF Seed, filesVars
  <2>2. PICK i \in SaveIds, agent \in {Default, Global} :
          Issue(i, "seed", q, [BlankFor(q) EXCEPT !.agent = agent])
    BY <1>13 DEF Seed
  <2>3. [BlankFor(q) EXCEPT !.agent = agent] \in Configs
    <3>1. BlankFor(q) \in Configs /\ agent \in Values
      BY ConfigValues
    <3> QED
      BY <3>1 DEF Configs
  <2>4. /\ configSaves' \in [SaveIds -> ASave]
        /\ \A j \in SaveIds : configSaves'[j].phase # "none" => configSaves'[j].path \in Projects
    BY <1>7, <1>8, <1>9, <2>2, <2>3
  <2>5. ConfigTypeOK'
    BY <1>1, <2>1, <2>4, ConfigFields
  <2> QED
    BY <1>3, <2>1, <2>4, <2>5 DEF AboutFolders
<1>14. CASE AppCrashesSaving
  <2>1. /\ crashes' = crashes + 1 /\ crashes < MaxCrashes
        /\ opened' = NoProject /\ memPath' = NoProject /\ mem' = {}
        /\ configLoading' = FALSE /\ broken' = FALSE /\ seeds' = {}
        /\ UNCHANGED <<listedProjects, inode, file, tmp, settings, steady>>
    BY <1>14 DEF AppCrashesSaving
  <2>2. crashes' \in 0 .. MaxCrashes
    BY <1>1, <2>1, ProjectConfigConstants
  <2>3. ASSUME NEW k \in OpenIds
        PROVE  [opens[k] EXCEPT !.phase = "over"] \in AnOpening /\ [opens[k] EXCEPT !.phase = "over"].phase = "over"
    BY <1>2 DEF AnOpening, OpenPhases
  <2>4. opens' = [k \in OpenIds |->
                    IF Opening(k) THEN [opens[k] EXCEPT !.phase = "over"] ELSE opens[k]]
    BY <1>14 DEF AppCrashesSaving
  <2>5. /\ opens' \in [OpenIds -> AnOpening]
        /\ \A l \in OpenIds : opens'[l].phase \in {"loading", "loaded", "healing"} => opens'[l].to \in Projects
    BY <1>2, <1>3, <2>3, <2>4
  <2>6. ASSUME NEW i \in SaveIds
        PROVE  /\ [configSaves[i] EXCEPT !.phase = "lost"] \in ASave
               /\ [configSaves[i] EXCEPT !.phase = "lost"].path = configSaves[i].path
    BY <1>2 DEF ASave, SavePhases
  <2>7. configSaves' = [i \in SaveIds |->
                 IF CallInFlight(i) THEN [configSaves[i] EXCEPT !.phase = "lost"] ELSE configSaves[i]]
    BY <1>14 DEF AppCrashesSaving
  <2>8. /\ configSaves' \in [SaveIds -> ASave]
        /\ \A j \in SaveIds : configSaves'[j].phase # "none" => configSaves'[j].path \in Projects
    BY <1>2, <1>3, <2>6, <2>7 DEF CallInFlight
  <2>9. mem' \in SUBSET Configs /\ Cardinality(mem') <= 1 /\ seeds' \in SUBSET Projects
        /\ opened' \in Anyone /\ memPath' \in Anyone /\ configLoading' \in BOOLEAN /\ broken' \in BOOLEAN
    BY <2>1, OneHeld, ConfigValues
  <2>10. ConfigTypeOK'
    BY <1>1, <2>1, <2>2, <2>5, <2>8, <2>9, ConfigFields
  <2> QED
    BY <2>5, <2>8, <2>10 DEF AboutFolders
<1>15. CASE ResetConfig
  <2>1. PICK i \in SaveIds : Issue(i, "reset", memPath, BlankFor(memPath))
    BY <1>15 DEF ResetConfig
  <2>2. memPath \in Projects /\ BlankFor(memPath) \in Configs
        /\ UNCHANGED <<listedProjects, opened, memPath, mem, configLoading, broken,
                       opens, seeds, inode, file, tmp, settings, crashes, steady>>
    BY <1>1, <1>4, <1>15, ConfigValues DEF ResetConfig, filesVars
  <2>3. /\ configSaves' \in [SaveIds -> ASave]
        /\ \A j \in SaveIds : configSaves'[j].phase # "none" => configSaves'[j].path \in Projects
    BY <1>7, <1>8, <1>9, <2>1, <2>2
  <2>4. ConfigTypeOK'
    BY <1>1, <2>2, <2>3, ConfigFields
  <2> QED
    BY <1>3, <2>2, <2>3, <2>4 DEF AboutFolders
<1>16. ASSUME NEW i \in SaveIds, SaveFails(i) PROVE ConfigTypeOK' /\ AboutFolders'
  <2>1. configSaves[i].phase = "issued" /\ configSaves' = [configSaves EXCEPT ![i].phase = "failed"]
        /\ broken' \in BOOLEAN
        /\ UNCHANGED <<listedProjects, opened, memPath, mem, configLoading, opens, seeds,
                       inode, file, tmp, settings, crashes, steady>>
    BY <1>16 DEF SaveFails, memoryVars
  <2>2. SaveTurns(i, "failed", configSaves[i].fd)
    BY <2>1, SavesByPhase DEF SavePhases
  <2>3. ConfigTypeOK'
    BY <1>1, <1>6, <2>1, <2>2, ConfigFields
  <2> QED
    BY <1>3, <1>6, <2>1, <2>2, <2>3 DEF AboutFolders
<1>17. ASSUME NEW i \in SaveIds, OpenTmp(i) PROVE ConfigTypeOK' /\ AboutFolders'
  <2> DEFINE p == configSaves[i].path
             fd == IF tmp[p] = 0 THEN i ELSE tmp[p]
  <2>1. /\ configSaves[i].phase = "issued" /\ p \in Projects /\ fd \in ConfigInodes
        /\ tmp' = [tmp EXCEPT ![p] = fd]
        /\ inode' = [inode EXCEPT ![fd] = CutSave]
        /\ SaveTurns(i, "open", fd)
        /\ UNCHANGED <<listedProjects, opened, memPath, mem, configLoading, opens, seeds,
                       broken, file, settings, crashes, steady>>
    BY <1>17, OpenTmpWays
  <2> HIDE DEF fd, p
  <2>2. tmp' \in [Projects -> ConfigInodes] /\ inode' \in [ConfigInodes -> Content]
    BY <1>1, <2>1, ConfigValues
  <2>3. /\ configSaves' \in [SaveIds -> ASave]
        /\ \A j \in SaveIds : configSaves'[j].phase # "none" => configSaves'[j].path \in Projects
    BY <1>6, <2>1
  <2>4. ConfigTypeOK'
    BY <1>1, <2>1, <2>2, <2>3, ConfigFields
  <2> QED
    BY <1>3, <2>1, <2>3, <2>4 DEF AboutFolders
<1>18. ASSUME NEW i \in SaveIds, WriteTmp(i) PROVE ConfigTypeOK' /\ AboutFolders'
  <2>1. /\ configSaves[i].phase = "open" /\ SaveTurns(i, "written", configSaves[i].fd)
        /\ \E c \in Content : inode' = [inode EXCEPT ![configSaves[i].fd] = c]
        /\ UNCHANGED <<listedProjects, opened, memPath, mem, configLoading, opens, seeds,
                       broken, file, tmp, settings, crashes, steady>>
    BY <1>18, WriteTmpWays
  <2>2. inode' \in [ConfigInodes -> Content]
    BY <1>1, <2>1
  <2>3. /\ configSaves' \in [SaveIds -> ASave]
        /\ \A j \in SaveIds : configSaves'[j].phase # "none" => configSaves'[j].path \in Projects
    BY <1>6, <2>1
  <2>4. ConfigTypeOK'
    BY <1>1, <2>1, <2>2, <2>3, ConfigFields
  <2> QED
    BY <1>3, <2>1, <2>3, <2>4 DEF AboutFolders
<1>19. ASSUME NEW i \in SaveIds, RenameTmp(i) PROVE ConfigTypeOK' /\ AboutFolders'
  <2> DEFINE p == configSaves[i].path
  <2>1. /\ configSaves[i].phase = "written" /\ p \in Projects
        /\ \/ /\ SaveTurns(i, "failed", configSaves[i].fd)
              /\ UNCHANGED <<file, tmp>> /\ broken' \in BOOLEAN
           \/ /\ SaveTurns(i, "done", configSaves[i].fd)
              /\ file' = [file EXCEPT ![p] = tmp[p]] /\ tmp' = [tmp EXCEPT ![p] = 0]
              /\ broken' = broken
        /\ UNCHANGED <<listedProjects, opened, memPath, mem, configLoading, opens, seeds,
                       inode, settings, crashes, steady>>
    BY <1>19, RenameTmpWays
  <2>2. tmp' \in [Projects -> ConfigInodes] /\ file' \in [Projects -> ConfigInodes] /\ broken' \in BOOLEAN
    BY <1>1, <2>1, ConfigValues
  <2>3. /\ configSaves' \in [SaveIds -> ASave]
        /\ \A j \in SaveIds : configSaves'[j].phase # "none" => configSaves'[j].path \in Projects
    BY <1>6, <2>1
  <2>4. ConfigTypeOK'
    BY <1>1, <2>1, <2>2, <2>3, ConfigFields
  <2> QED
    BY <1>3, <2>1, <2>3, <2>4 DEF AboutFolders
<1>20. ASSUME NEW i \in SaveIds, OnReset(i) PROVE ConfigTypeOK' /\ AboutFolders'
  <2>1. /\ configSaves[i].phase = "done" /\ configSaves' = [configSaves EXCEPT ![i].phase = "over"]
        /\ mem' = {configSaves[i].config} /\ broken' = FALSE
        /\ UNCHANGED <<listedProjects, opened, memPath, configLoading, opens, seeds,
                       inode, file, tmp, settings, crashes, steady>>
    BY <1>20 DEF OnReset, filesVars
  <2>2. SaveTurns(i, "over", configSaves[i].fd)
    BY <2>1, SavesByPhase DEF SavePhases
  <2>3. mem' \in SUBSET Configs /\ Cardinality(mem') <= 1
    BY <1>2, <2>1, OneHeld
  <2>4. ConfigTypeOK'
    BY <1>1, <1>6, <2>1, <2>2, <2>3, ConfigFields
  <2> QED
    BY <1>3, <1>6, <2>1, <2>2, <2>4 DEF AboutFolders
<1>21. ASSUME NEW k \in OpenIds, Outgoing(k) PROVE ConfigTypeOK' /\ AboutFolders'
  <2> DEFINE q == opens[k].to
  <2>1. /\ q \in Anyone
        /\ memPath' = q /\ broken' = FALSE /\ configLoading' = (q # NoProject)
        /\ mem' = IF q = NoProject THEN {} ELSE mem
        /\ Turns(k, EndOf(q), q, opens[k].save, opens[k].got)
        /\ UNCHANGED <<listedProjects, opened, seeds, configSaves, inode, file, tmp, settings,
                       crashes, steady>>
    BY <1>21, OutgoingWays
  <2>2. EndOf(q) \in {"loading", "loaded", "healing"} => q \in Projects
    BY <1>4, <2>1 DEF EndOf
  <2>3. /\ opens' \in [OpenIds -> AnOpening]
        /\ \A l \in OpenIds : opens'[l].phase \in {"loading", "loaded", "healing"} => opens'[l].to \in Projects
    BY <1>5, <2>1, <2>2
  <2>4. mem' \in SUBSET Configs /\ Cardinality(mem') <= 1
    BY <1>1, <2>1, OneHeld
  <2>5. memPath' \in Anyone /\ configLoading' \in BOOLEAN /\ broken' \in BOOLEAN
    BY <2>1
  <2>6. ConfigTypeOK'
    BY <1>1, <2>1, <2>3, <2>4, <2>5, ConfigFields
  <2> QED
    BY <1>3, <2>1, <2>3, <2>6 DEF AboutFolders
<1>22. ASSUME NEW k \in OpenIds, LoadConfig(k) PROVE ConfigTypeOK' /\ AboutFolders'
  <2>1. /\ opens[k].phase = "loading" /\ opens[k].to \in Projects
        /\ opens' = [opens EXCEPT ![k].phase = "loaded", ![k].got = ReadFile(opens[k].to)]
        /\ UNCHANGED <<listedProjects, opened, memPath, mem, configLoading, broken,
                       seeds, configSaves, inode, file, tmp, settings, crashes, steady>>
    BY <1>3, <1>22 DEF LoadConfig, filesVars
  <2>2. ReadFile(opens[k].to) \in Content
    <3>1. inode[file[opens[k].to]] \in Content
      BY <1>1, <2>1
    <3> QED
      BY <3>1, ConfigValues DEF ReadFile
  <2>3. [opens[k] EXCEPT !.phase = "loaded", !.got = ReadFile(opens[k].to)] \in AnOpening
        /\ [opens[k] EXCEPT !.phase = "loaded", !.got = ReadFile(opens[k].to)].to = opens[k].to
    BY <1>2, <2>2 DEF AnOpening, OpenPhases
  <2>4. /\ opens' \in [OpenIds -> AnOpening]
        /\ \A l \in OpenIds : opens'[l].phase \in {"loading", "loaded", "healing"} => opens'[l].to \in Projects
    BY <1>1, <1>3, <2>1, <2>3
  <2>5. ConfigTypeOK'
    BY <1>1, <2>1, <2>4, ConfigFields
  <2> QED
    BY <1>3, <2>1, <2>4, <2>5 DEF AboutFolders
<1>23. ASSUME NEW k \in OpenIds, OnConfigLoaded(k) PROVE ConfigTypeOK' /\ AboutFolders'
  <2> DEFINE q == opens[k].to
             got == opens[k].got
  <2>1. q \in Projects /\ q \in Anyone /\ got \in Content /\ got.config \in Configs
    BY <1>2, <1>3, <1>23 DEF OnConfigLoaded, Content
  <2>2. /\ UNCHANGED <<listedProjects, opened, memPath, seeds, inode, file, tmp, settings,
                       crashes, steady>>
        /\ \/ /\ got.kind # "whole" /\ mem' = {BlankFor(q)}
              /\ configLoading' = FALSE /\ broken' = TRUE
              /\ Turns(k, "over", q, opens[k].save, got)
              /\ configSaves' = configSaves
           \/ /\ got.kind = "whole" /\ got.config.stamp = q /\ mem' = {got.config}
              /\ configLoading' = FALSE /\ broken' = broken
              /\ Turns(k, "over", q, opens[k].save, got)
              /\ configSaves' = configSaves
           \/ \E i \in SaveIds, c \in Configs :
                /\ got.kind = "whole" /\ c.stamp = q /\ configSaves[i].phase = "none"
                /\ configSaves' = [configSaves EXCEPT ![i] = Issued("opening", q, c)]
                /\ Turns(k, "healing", q, i, Whole(c))
                /\ mem' = mem /\ configLoading' = configLoading /\ broken' = broken
    BY <1>23, <2>1, LoadedWays
  <2> HIDE DEF q, got
  <2>3. ASSUME NEW c \in Configs, mem' = {c}, configLoading' = FALSE, broken' \in BOOLEAN,
               Turns(k, "over", q, opens[k].save, got), configSaves' = configSaves
        PROVE  ConfigTypeOK' /\ AboutFolders'
    <3>1. mem' \in SUBSET Configs /\ Cardinality(mem') <= 1 /\ configLoading' \in BOOLEAN
      BY <2>3, OneHeld
    <3>2. /\ opens' \in [OpenIds -> AnOpening]
          /\ \A l \in OpenIds : opens'[l].phase \in {"loading", "loaded", "healing"} => opens'[l].to \in Projects
      BY <1>5, <2>3
    <3>3. ConfigTypeOK'
      BY <1>1, <2>2, <2>3, <3>1, <3>2, ConfigFields
    <3> QED
      BY <1>3, <2>3, <3>2, <3>3 DEF AboutFolders
  <2>4. ASSUME NEW i \in SaveIds, NEW c \in Configs,
               configSaves' = [configSaves EXCEPT ![i] = Issued("opening", q, c)],
               Turns(k, "healing", q, i, Whole(c)),
               mem' = mem, configLoading' = configLoading, broken' = broken
        PROVE  ConfigTypeOK' /\ AboutFolders'
    <3>1. /\ configSaves' \in [SaveIds -> ASave]
          /\ \A j \in SaveIds : configSaves'[j].phase # "none" => configSaves'[j].path \in Projects
      BY <1>7, <1>9, <2>1, <2>4
    <3>2. /\ opens' \in [OpenIds -> AnOpening]
          /\ \A l \in OpenIds : opens'[l].phase \in {"loading", "loaded", "healing"} => opens'[l].to \in Projects
      BY <1>5, <2>1, <2>4
    <3>3. ConfigTypeOK'
      BY <1>1, <2>2, <2>4, <3>1, <3>2, ConfigFields
    <3> QED
      BY <3>1, <3>2, <3>3 DEF AboutFolders
  <2>5. BlankFor(q) \in Configs
    BY <2>1, ConfigValues
  <2> QED
    BY <1>1, <2>1, <2>2, <2>3, <2>4, <2>5
<1>24. ASSUME NEW k \in OpenIds, OnHealed(k) PROVE ConfigTypeOK' /\ AboutFolders'
  <2>1. /\ mem' = {opens[k].got.config} /\ configLoading' = FALSE
        /\ opens' = [opens EXCEPT ![k].phase = "over"]
        /\ UNCHANGED <<listedProjects, opened, memPath, broken, seeds, configSaves,
                       inode, file, tmp, settings, crashes, steady>>
    BY <1>24 DEF OnHealed, Held, filesVars
  <2>2. opens[k].got.config \in Configs
    BY <1>2 DEF Content
  <2>3. mem' \in SUBSET Configs /\ Cardinality(mem') <= 1 /\ configLoading' \in BOOLEAN
    BY <2>1, <2>2, OneHeld
  <2>4. Turns(k, "over", opens[k].to, opens[k].save, opens[k].got)
    BY <2>1, TurnsByPhase DEF OpenPhases
  <2>5. /\ opens' \in [OpenIds -> AnOpening]
        /\ \A l \in OpenIds : opens'[l].phase \in {"loading", "loaded", "healing"} => opens'[l].to \in Projects
    BY <1>5, <2>4
  <2>6. ConfigTypeOK'
    BY <1>1, <2>1, <2>3, <2>5, ConfigFields
  <2> QED
    BY <1>3, <2>1, <2>5, <2>6 DEF AboutFolders
<1>25. ASSUME NEW slot \in {"agent", "rest"}, Change(slot) PROVE ConfigTypeOK' /\ AboutFolders'
  <2>1. /\ settings' = settings + 1 /\ settings < MaxSettings /\ opened # NoProject /\ memPath # NoProject
        /\ UNCHANGED <<listedProjects, opened, memPath, configLoading, broken, opens,
                       seeds, inode, file, tmp, crashes, steady>>
    BY <1>25 DEF Change, filesVars
  <2>2. PICK c \in mem, i \in SaveIds :
          /\ mem' = {[c EXCEPT ![slot] = <<opened, settings'>>]}
          /\ Issue(i, "setting", memPath, [c EXCEPT ![slot] = <<opened, settings'>>])
    BY <1>25 DEF Change, Persisted
  <2>3. settings' \in 0 .. MaxSettings
    BY <1>1, <2>1, ProjectConfigConstants
  <2>4. <<opened, settings'>> \in Values
    BY <1>1, <1>4, <2>1, <2>3 DEF Values
  <2>5. c \in Configs
    BY <1>1, <2>2
  <2> DEFINE next == [c EXCEPT ![slot] = <<opened, settings'>>]
  <2>6. next \in Configs
    <3>1. CASE slot = "agent"
      BY <2>4, <2>5, <3>1 DEF Configs
    <3>2. CASE slot = "rest"
      BY <2>4, <2>5, <3>2 DEF Configs
    <3> QED
      BY <3>1, <3>2
  <2>7. mem' = {next} /\ configSaves' = [configSaves EXCEPT ![i] = Issued("setting", memPath, next)]
    BY <1>8, <2>2
  <2> HIDE DEF next
  <2>8. mem' \in SUBSET Configs /\ Cardinality(mem') <= 1 /\ memPath \in Projects
    BY <1>1, <1>4, <2>1, <2>6, <2>7, OneHeld
  <2>9. /\ configSaves' \in [SaveIds -> ASave]
        /\ \A j \in SaveIds : configSaves'[j].phase # "none" => configSaves'[j].path \in Projects
    BY <1>7, <1>9, <2>6, <2>7, <2>8
  <2>10. ConfigTypeOK'
    BY <1>1, <2>1, <2>3, <2>8, <2>9, ConfigFields
  <2> QED
    BY <1>3, <2>1, <2>9, <2>10 DEF AboutFolders
<1> QED
  BY <1>11, <1>12, <1>13, <1>14, <1>15, <1>16, <1>17, <1>18, <1>19, <1>20, <1>21, <1>22, <1>23,
     <1>24, <1>25 DEF ConfigNext

\* What a step does of the calls and of the names of the files.
Begins(i) == \E by, p, c : configSaves[i].phase = "none" /\ configSaves' = [configSaves EXCEPT ![i] = Issued(by, p, c)]
Crashed ==
  configSaves' = [i \in SaveIds |->
                    IF CallInFlight(i) THEN [configSaves[i] EXCEPT !.phase = "lost"] ELSE configSaves[i]]
SavesMove ==
  \/ configSaves' = configSaves \/ Crashed
  \/ \E i \in SaveIds :
       \/ Begins(i)
       \/ configSaves[i].phase = "issued" /\ SaveTurns(i, "failed", configSaves[i].fd)
       \/ configSaves[i].phase = "done" /\ SaveTurns(i, "over", configSaves[i].fd)
SavesWrite ==
  \E i \in SaveIds : OpenTmp(i) \/ WriteTmp(i) \/ RenameTmp(i)

InodesStay == inode' = inode \/ \E p \in Projects : HandEdit(p)

LEMMA ConfigMoves ==
  ASSUME ConfigTypeOK, ConfigNext
  PROVE  SavesWrite \/ (SavesMove /\ file' = file /\ tmp' = tmp /\ InodesStay)
<1> USE DEF SavesMove, InodesStay
<1>1. ASSUME NEW i \in SaveIds, NEW by, NEW p, NEW c, Issue(i, by, p, c) PROVE Begins(i)
  <2>1. configSaves[i].phase = "none" /\ configSaves' = [configSaves EXCEPT ![i] = Issued(by, p, c)]
    BY <1>1 DEF Issue, NextSave, Issued
  <2> QED
    BY <2>1 DEF Begins
<1>2. ASSUME NEW q \in Anyone, SwitchTo(q) PROVE SavesMove /\ file' = file /\ tmp' = tmp /\ InodesStay
  <2>1. file' = file /\ tmp' = tmp /\ inode' = inode
    BY <1>2 DEF SwitchTo, filesVars
  <2>2. \/ configSaves' = configSaves
        \/ \E i \in SaveIds, c \in mem : Issue(i, "opening", memPath, c)
    BY <1>2 DEF SwitchTo
  <2> QED
    BY <1>1, <2>1, <2>2
<1>3. ASSUME NEW p \in Projects, SelectProject(p) \/ Import(p) \/ RemoveProject(p)
      PROVE  SavesMove /\ file' = file /\ tmp' = tmp /\ InodesStay
  BY <1>2, <1>3, ConfigValues DEF SelectProject, Import, RemoveProject
<1>4. ASSUME NEW p \in Projects, HandEdit(p) \/ Seed(p) PROVE SavesMove /\ file' = file /\ tmp' = tmp /\ InodesStay
  BY <1>1, <1>4 DEF HandEdit, Seed, filesVars
<1>5. CASE AppCrashesSaving
  BY <1>5 DEF AppCrashesSaving, Crashed
<1>6. CASE ResetConfig
  BY <1>1, <1>6 DEF ResetConfig, filesVars
<1>7. ASSUME NEW i \in SaveIds, SaveFails(i) PROVE SavesMove /\ file' = file /\ tmp' = tmp /\ InodesStay
  <2>1. configSaves[i].phase = "issued" /\ configSaves' = [configSaves EXCEPT ![i].phase = "failed"]
        /\ file' = file /\ tmp' = tmp /\ inode' = inode
    BY <1>7 DEF SaveFails
  <2>2. SaveTurns(i, "failed", configSaves[i].fd)
    BY <2>1, SavesByPhase DEF SavePhases
  <2> QED
    BY <2>1, <2>2
<1>8. ASSUME NEW i \in SaveIds, OnReset(i) PROVE SavesMove /\ file' = file /\ tmp' = tmp /\ InodesStay
  <2>1. configSaves[i].phase = "done" /\ configSaves' = [configSaves EXCEPT ![i].phase = "over"]
        /\ file' = file /\ tmp' = tmp /\ inode' = inode
    BY <1>8 DEF OnReset, filesVars
  <2>2. SaveTurns(i, "over", configSaves[i].fd)
    BY <2>1, SavesByPhase DEF SavePhases
  <2> QED
    BY <2>1, <2>2
<1>9. ASSUME NEW k \in OpenIds, Outgoing(k) \/ LoadConfig(k) \/ OnHealed(k)
      PROVE  SavesMove /\ file' = file /\ tmp' = tmp /\ InodesStay
  BY <1>9 DEF Outgoing, LoadConfig, OnHealed, filesVars
<1>10. ASSUME NEW k \in OpenIds, OnConfigLoaded(k) PROVE SavesMove /\ file' = file /\ tmp' = tmp /\ InodesStay
  <2>1. file' = file /\ tmp' = tmp /\ inode' = inode
    BY <1>10 DEF OnConfigLoaded, filesVars
  <2>2. \/ configSaves' = configSaves
        \/ \E i \in SaveIds : \E c : Issue(i, "opening", opens[k].to, c)
    BY <1>10 DEF OnConfigLoaded
  <2> QED
    BY <1>1, <2>1, <2>2
<1>11. ASSUME NEW slot \in {"agent", "rest"}, Change(slot) PROVE SavesMove /\ file' = file /\ tmp' = tmp /\ InodesStay
  <2>1. file' = file /\ tmp' = tmp /\ inode' = inode
    BY <1>11 DEF Change, filesVars
  <2>2. \E i \in SaveIds : \E c : Issue(i, "setting", memPath, c)
    BY <1>11 DEF Change
  <2> QED
    BY <1>1, <2>1, <2>2
<1> QED
  BY <1>3, <1>4, <1>5, <1>6, <1>7, <1>8, <1>9, <1>10, <1>11 DEF ConfigNext, SavesWrite

\* A call goes on, or ends: it does not begin again.
LEMMA CallsGoOn ==
  ASSUME ConfigTypeOK, AboutFolders, ConfigNext, NEW i \in SaveIds
  PROVE  /\ configSaves[i].phase \notin {"none", "issued"} => configSaves'[i].phase \notin {"none", "issued"}
         /\ configSaves[i].phase \in {"failed", "lost"} => configSaves'[i].phase \in {"failed", "lost"}
<1>1. configSaves \in [SaveIds -> ASave] /\ configSaves[i] \in ASave
  BY ConfigShapes
<1>2. ASSUME NEW j \in SaveIds, NEW phase, NEW fd, SaveTurns(j, phase, fd)
      PROVE  configSaves'[j].phase = phase /\ (j # i => configSaves'[i] = configSaves[i])
  <2>1. PICK s \in ASave : configSaves' = [configSaves EXCEPT ![j] = s] /\ s.phase = phase
    BY <1>2 DEF SaveTurns
  <2> QED
    BY <1>1, <2>1
<1>3. ASSUME NEW j \in SaveIds, Begins(j)
      PROVE  configSaves[j].phase = "none" /\ (j # i => configSaves'[i] = configSaves[i])
  BY <1>1, <1>3 DEF Begins
<1>4. CASE SavesWrite
  <2>1. PICK j \in SaveIds : OpenTmp(j) \/ WriteTmp(j) \/ RenameTmp(j)
    BY <1>4 DEF SavesWrite
  <2>2. /\ configSaves[j].phase \in {"issued", "open", "written"}
        /\ \E phase \in {"open", "written", "failed", "done"} : \E fd : SaveTurns(j, phase, fd)
    BY <2>1, OpenTmpWays, WriteTmpWays, RenameTmpWays
  <2> QED
    BY <1>2, <2>2
<1>5. CASE Crashed
  <2>1. \A phase : [configSaves[i] EXCEPT !.phase = phase].phase = phase
    BY <1>1 DEF ASave
  <2> QED
    BY <1>5, <2>1 DEF Crashed, CallInFlight
<1>6. CASE SavesMove /\ ~Crashed
  BY <1>2, <1>3, <1>6 DEF SavesMove
<1> QED
  BY <1>4, <1>5, <1>6, ConfigMoves

LEMMA NamesStep == ASSUME ConfigTypeOK, AboutFolders, NamesApart, ConfigNext PROVE NamesApart'
<1>1. file \in [Projects -> ConfigInodes] /\ tmp \in [Projects -> ConfigInodes]
  BY ConfigShapes
<1>2. /\ \A p, q \in Projects : tmp[p] # 0 => tmp[p] # file[q] /\ (p # q => tmp[p] # tmp[q])
      /\ \A i \in SaveIds, p \in Projects :
           file[p] = i \/ tmp[p] = i => configSaves[i].phase \notin {"none", "issued"}
  BY DEF NamesApart
<1>3. \A i \in SaveIds : configSaves[i].phase \notin {"none", "issued"} => configSaves'[i].phase \notin {"none", "issued"}
  BY CallsGoOn
<1>4. CASE file' = file /\ tmp' = tmp
  BY <1>2, <1>3, <1>4 DEF NamesApart
<1>5. ASSUME NEW i \in SaveIds, OpenTmp(i) PROVE NamesApart'
  <2> DEFINE p == configSaves[i].path
             fd == IF tmp[p] = 0 THEN i ELSE tmp[p]
  <2>1. /\ configSaves[i].phase = "issued" /\ p \in Projects /\ fd # 0
        /\ tmp' = [tmp EXCEPT ![p] = fd] /\ SaveTurns(i, "open", fd) /\ file' = file
    BY <1>5, OpenTmpWays
  <2>2. configSaves'[i].phase = "open"
    <3>1. configSaves \in [SaveIds -> ASave]
      BY ConfigShapes
    <3>2. \E s \in ASave : configSaves' = [configSaves EXCEPT ![i] = s] /\ s.phase = "open"
      BY <2>1 DEF SaveTurns
    <3> QED
      BY <3>1, <3>2
  <2>3. (fd = i /\ tmp[p] = 0) \/ (fd = tmp[p] /\ tmp[p] # 0)
    OBVIOUS
  <2> HIDE DEF fd, p
  <2>4. \A q \in Projects : q # p => fd # tmp[q]
    BY <1>2, <2>1, <2>3
  <2>5. \A q \in Projects : fd # file[q]
    BY <1>2, <2>1, <2>3
  <2>6. \A r, q \in Projects : tmp'[r] # 0 => tmp'[r] # file'[q] /\ (r # q => tmp'[r] # tmp'[q])
    BY <1>1, <1>2, <2>1, <2>4, <2>5
  <2>7. \A j \in SaveIds, q \in Projects :
           file'[q] = j \/ tmp'[q] = j => configSaves'[j].phase \notin {"none", "issued"}
    BY <1>1, <1>2, <1>3, <2>1, <2>2, <2>3
  <2> QED
    BY <2>6, <2>7 DEF NamesApart
<1>6. ASSUME NEW i \in SaveIds, WriteTmp(i) PROVE NamesApart'
  BY <1>4, <1>6 DEF WriteTmp
<1>7. ASSUME NEW i \in SaveIds, RenameTmp(i) PROVE NamesApart'
  <2> DEFINE p == configSaves[i].path
  <2>1. /\ p \in Projects
        /\ \/ file' = file /\ tmp' = tmp
           \/ tmp[p] # 0 /\ file' = [file EXCEPT ![p] = tmp[p]] /\ tmp' = [tmp EXCEPT ![p] = 0]
    BY <1>7, RenameTmpWays
  <2> HIDE DEF p
  <2>2. CASE tmp[p] # 0 /\ file' = [file EXCEPT ![p] = tmp[p]] /\ tmp' = [tmp EXCEPT ![p] = 0]
    <3>1. \A r, q \in Projects : tmp'[r] # 0 => tmp'[r] # file'[q] /\ (r # q => tmp'[r] # tmp'[q])
      BY <1>1, <1>2, <2>1, <2>2
    <3>2. \A j \in SaveIds, q \in Projects :
             file'[q] = j \/ tmp'[q] = j => configSaves'[j].phase \notin {"none", "issued"}
      BY <1>1, <1>2, <1>3, <2>1, <2>2, ConfigValues
    <3> QED
      BY <3>1, <3>2 DEF NamesApart
  <2> QED
    BY <1>4, <2>1, <2>2
<1> QED
  BY <1>4, <1>5, <1>6, <1>7, ConfigMoves DEF SavesWrite

\* The pane that waits for a configuration has something that brings it.
LEMMA LoadingStep ==
  ASSUME ConfigTypeOK, AboutFolders, LoadingHasCall, ConfigNext PROVE LoadingHasCall'
<1>1. opens \in [OpenIds -> AnOpening] /\ \A k \in OpenIds : opens[k] \in AnOpening /\ opens[k].to \in Anyone
  BY ConfigShapes
<1>2. ASSUME UNCHANGED <<configLoading, opens>> PROVE LoadingHasCall'
  BY <1>2 DEF LoadingHasCall
<1>3. ASSUME ~configLoading' PROVE LoadingHasCall'
  BY <1>3 DEF LoadingHasCall
<1>4. ASSUME NEW k \in OpenIds, NEW phase \in {"loading", "loaded", "healing"}, NEW q, NEW i, NEW g,
             Turns(k, phase, q, i, g)
      PROVE  LoadingHasCall'
  <2>1. PICK o \in AnOpening : opens' = [opens EXCEPT ![k] = o] /\ o.phase = phase
    BY <1>4 DEF Turns
  <2>2. opens'[k].phase = phase
    BY <1>1, <2>1
  <2> QED
    BY <2>2 DEF LoadingHasCall
<1>5. ASSUME NEW q \in Anyone, SwitchTo(q) PROVE LoadingHasCall'
  <2>1. PICK k \in OpenIds :
          /\ opens[k].phase = "none"
          /\ \/ configLoading' = (q # NoProject) /\ Turns(k, EndOf(q), q, opens[k].save, opens[k].got)
             \/ \E i \in SaveIds : Turns(k, "saving", q, i, opens[k].got) /\ configLoading' = configLoading
    BY <1>5, SwitchWays
  <2>2. CASE configLoading' = (q # NoProject) /\ Turns(k, EndOf(q), q, opens[k].save, opens[k].got)
    <3>1. CASE q = NoProject
      BY <1>3, <2>2, <3>1
    <3>2. CASE q # NoProject
      BY <1>4, <2>2, <3>2 DEF EndOf
    <3> QED
      BY <3>1, <3>2
  <2>3. CASE \E i \in SaveIds : Turns(k, "saving", q, i, opens[k].got) /\ configLoading' = configLoading
    <3>1. PICK o \in AnOpening : opens' = [opens EXCEPT ![k] = o]
      BY <2>3 DEF Turns
    <3> QED
      BY <1>1, <2>1, <2>3, <3>1 DEF LoadingHasCall
  <2> QED
    BY <2>1, <2>2, <2>3
<1>6. ASSUME NEW p \in Projects, SelectProject(p) \/ Import(p) \/ RemoveProject(p) PROVE LoadingHasCall'
  BY <1>5, <1>6, ConfigValues DEF SelectProject, Import, RemoveProject
<1>7. ASSUME NEW p \in Projects, HandEdit(p) \/ Seed(p) PROVE LoadingHasCall'
  BY <1>2, <1>7 DEF HandEdit, Seed, memoryVars
<1>8. CASE AppCrashesSaving
  BY <1>3, <1>8 DEF AppCrashesSaving
<1>9. CASE ResetConfig
  BY <1>2, <1>9 DEF ResetConfig
<1>10. ASSUME NEW i \in SaveIds, SaveFails(i) \/ OpenTmp(i) \/ WriteTmp(i) \/ RenameTmp(i) \/ OnReset(i)
       PROVE  LoadingHasCall'
  BY <1>2, <1>10 DEF SaveFails, OpenTmp, WriteTmp, RenameTmp, OnReset, memoryVars
<1>11. ASSUME NEW k \in OpenIds, Outgoing(k) PROVE LoadingHasCall'
  <2>1. configLoading' = (opens[k].to # NoProject)
        /\ Turns(k, EndOf(opens[k].to), opens[k].to, opens[k].save, opens[k].got)
    BY <1>11, OutgoingWays
  <2>2. CASE opens[k].to = NoProject
    BY <1>3, <2>1, <2>2
  <2>3. CASE opens[k].to # NoProject
    BY <1>4, <2>1, <2>3 DEF EndOf
  <2> QED
    BY <2>2, <2>3
<1>12. ASSUME NEW k \in OpenIds, LoadConfig(k) PROVE LoadingHasCall'
  <2>1. opens' = [opens EXCEPT ![k].phase = "loaded", ![k].got = ReadFile(opens[k].to)]
    BY <1>12 DEF LoadConfig
  <2>2. [opens[k] EXCEPT !.phase = "loaded", !.got = ReadFile(opens[k].to)].phase = "loaded"
    BY <1>1 DEF AnOpening
  <2>3. opens'[k].phase = "loaded"
    BY <1>1, <2>1, <2>2
  <2> QED
    BY <2>3 DEF LoadingHasCall
<1>13. ASSUME NEW k \in OpenIds, OnConfigLoaded(k) PROVE LoadingHasCall'
  <2>1. \/ configLoading' = FALSE
        \/ \E i, c : Turns(k, "healing", opens[k].to, i, Whole(c))
    BY <1>1, <1>13, LoadedWays
  <2> QED
    BY <1>3, <1>4, <2>1
<1>14. ASSUME NEW k \in OpenIds, OnHealed(k) PROVE LoadingHasCall'
  BY <1>3, <1>14 DEF OnHealed
<1>15. ASSUME NEW slot \in {"agent", "rest"}, Change(slot) PROVE LoadingHasCall'
  BY <1>2, <1>15 DEF Change
<1> QED
  BY <1>6, <1>7, <1>8, <1>9, <1>10, <1>11, <1>12, <1>13, <1>14, <1>15 DEF ConfigNext

LEMMA TurnsMean ==
  ASSUME ConfigTypeOK, NEW k \in OpenIds, NEW phase, NEW q, NEW i, NEW g, Turns(k, phase, q, i, g)
  PROVE  /\ opens'[k].phase = phase /\ opens'[k].to = q /\ opens'[k].save = i /\ opens'[k].got = g
         /\ \A l \in OpenIds : l # k => opens'[l] = opens[l]
<1>1. opens \in [OpenIds -> AnOpening]
  BY ConfigShapes
<1>2. PICK o \in AnOpening : /\ opens' = [opens EXCEPT ![k] = o]
                             /\ o.phase = phase /\ o.to = q /\ o.save = i /\ o.got = g
  BY DEF Turns
<1> QED
  BY <1>1, <1>2

LEMMA SaveTurnsMean ==
  ASSUME ConfigTypeOK, NEW i \in SaveIds, NEW phase, NEW fd, SaveTurns(i, phase, fd)
  PROVE  /\ configSaves'[i].phase = phase /\ configSaves'[i].by = configSaves[i].by
         /\ configSaves'[i].path = configSaves[i].path /\ configSaves'[i].config = configSaves[i].config
         /\ configSaves'[i].fd = fd
         /\ \A j \in SaveIds : j # i => configSaves'[j] = configSaves[j]
<1>1. configSaves \in [SaveIds -> ASave]
  BY ConfigShapes
<1>2. PICK s \in ASave :
        /\ configSaves' = [configSaves EXCEPT ![i] = s]
        /\ s.phase = phase /\ s.by = configSaves[i].by /\ s.path = configSaves[i].path
        /\ s.config = configSaves[i].config /\ s.fd = fd
  BY DEF SaveTurns
<1> QED
  BY <1>1, <1>2

LEMMA IssueMeans ==
  ASSUME ConfigTypeOK, NEW i \in SaveIds, NEW by, NEW p, NEW c,
         configSaves' = [configSaves EXCEPT ![i] = Issued(by, p, c)]
  PROVE  /\ configSaves'[i].phase = "issued" /\ configSaves'[i].by = by
         /\ configSaves'[i].path = p /\ configSaves'[i].config = c
         /\ \A j \in SaveIds : j # i => configSaves'[j] = configSaves[j]
<1>1. configSaves \in [SaveIds -> ASave]
  BY ConfigShapes
<1>2. configSaves'[i] = Issued(by, p, c) /\ \A j \in SaveIds : j # i => configSaves'[j] = configSaves[j]
  BY <1>1
<1> QED
  BY <1>2, IssuedFields

\* The user waits, or not, from the start.
LEMMA SteadyStays == ASSUME ConfigNext PROVE steady' = steady
BY DEF ConfigNext, AppCrashesSaving, ResetConfig, HandEdit, SelectProject, Import, RemoveProject,
       Seed, SaveFails, OpenTmp, WriteTmp, RenameTmp, OnReset, Outgoing, LoadConfig,
       OnConfigLoaded, OnHealed, Change, SwitchTo

\* A write of the temporary file is the only one, and no reader sees it.
LEMMA WholeStep ==
  ASSUME ConfigTypeOK, AboutFolders, NamesApart, InTurn, OwnTmp, NeverPartial, ConfigNext
  PROVE  OwnTmp' /\ NeverPartial'
<1>1. /\ configSaves \in [SaveIds -> ASave]
      /\ inode \in [ConfigInodes -> Content]
      /\ file \in [Projects -> ConfigInodes] /\ tmp \in [Projects -> ConfigInodes]
      /\ \A i \in SaveIds : configSaves[i] \in ASave /\ configSaves[i].fd \in ConfigInodes
  BY ConfigShapes
<1>2. /\ \A p, q \in Projects : tmp[p] # 0 => tmp[p] # file[q]
      /\ \A i \in SaveIds, p \in Projects :
           file[p] = i \/ tmp[p] = i => configSaves[i].phase \notin {"none", "issued"}
  BY DEF NamesApart
<1> SUFFICES ASSUME steady'
    PROVE  /\ \A i \in SaveIds :
                /\ configSaves'[i].phase \in {"open", "written"} =>
                     tmp'[configSaves'[i].path] = configSaves'[i].fd /\ configSaves'[i].fd # 0
                /\ configSaves'[i].phase = "open" => inode'[configSaves'[i].fd].kind = "cut"
                /\ configSaves'[i].phase = "written" => inode'[configSaves'[i].fd] = Whole(configSaves'[i].config)
           /\ \A p \in Projects : file'[p] = 0 \/ inode'[file'[p]].kind \in {"whole", "broken"}
  BY DEF OwnTmp, NeverPartial, AllWhole
<1>3. steady
  BY SteadyStays
<1>4. /\ \A i \in SaveIds :
           /\ configSaves[i].phase \in {"open", "written"} =>
                tmp[configSaves[i].path] = configSaves[i].fd /\ configSaves[i].fd # 0
           /\ configSaves[i].phase = "open" => inode[configSaves[i].fd].kind = "cut"
           /\ configSaves[i].phase = "written" => inode[configSaves[i].fd] = Whole(configSaves[i].config)
      /\ \A p \in Projects : file[p] = 0 \/ inode[file[p]].kind \in {"whole", "broken"}
  BY <1>3 DEF OwnTmp, NeverPartial, AllWhole
<1>5. \A i, j \in SaveIds : CallInFlight(i) /\ CallInFlight(j) => i = j
  BY <1>3 DEF InTurn, OneSave
<1>6. ASSUME NEW i \in SaveIds, configSaves[i].phase \in {"issued", "open", "written"}
      PROVE  \A j \in SaveIds : j # i => configSaves[j].phase \notin {"open", "written"}
  BY <1>5, <1>6 DEF CallInFlight
<1>10. ASSUME NEW i \in SaveIds, OpenTmp(i)
       PROVE  /\ \A j \in SaveIds :
                   /\ configSaves'[j].phase \in {"open", "written"} =>
                        tmp'[configSaves'[j].path] = configSaves'[j].fd /\ configSaves'[j].fd # 0
                   /\ configSaves'[j].phase = "open" => inode'[configSaves'[j].fd].kind = "cut"
                   /\ configSaves'[j].phase = "written" => inode'[configSaves'[j].fd] = Whole(configSaves'[j].config)
              /\ \A p \in Projects : file'[p] = 0 \/ inode'[file'[p]].kind \in {"whole", "broken"}
  <2> DEFINE p == configSaves[i].path
             fd == IF tmp[p] = 0 THEN i ELSE tmp[p]
  <2>1. /\ configSaves[i].phase = "issued" /\ p \in Projects /\ fd \in ConfigInodes /\ fd # 0
        /\ tmp' = [tmp EXCEPT ![p] = fd] /\ SaveTurns(i, "open", fd) /\ file' = file
        /\ inode' = [inode EXCEPT ![fd] = CutSave]
    BY <1>10, OpenTmpWays
  <2>2. (fd = i /\ tmp[p] = 0) \/ (fd = tmp[p] /\ tmp[p] # 0)
    OBVIOUS
  <2>3. configSaves'[i].phase = "open" /\ configSaves'[i].path = p /\ configSaves'[i].fd = fd
        /\ \A j \in SaveIds : j # i => configSaves'[j] = configSaves[j]
    BY <2>1, SaveTurnsMean
  <2> HIDE DEF fd, p
  <2>4. \A q \in Projects : fd # file[q]
    BY <1>2, <2>1, <2>2
  <2>5. tmp'[p] = fd /\ inode'[fd].kind = "cut"
    BY <1>1, <2>1 DEF CutSave
  <2>6. \A j \in SaveIds : j # i => configSaves'[j].phase \notin {"open", "written"}
    BY <1>6, <2>1, <2>3
  <2>7. \A q \in Projects : inode'[file'[q]] = inode[file[q]]
    BY <1>1, <2>1, <2>4
  <2> QED
    BY <1>4, <2>1, <2>3, <2>5, <2>6, <2>7
<1>11. ASSUME NEW i \in SaveIds, WriteTmp(i)
       PROVE  /\ \A j \in SaveIds :
                   /\ configSaves'[j].phase \in {"open", "written"} =>
                        tmp'[configSaves'[j].path] = configSaves'[j].fd /\ configSaves'[j].fd # 0
                   /\ configSaves'[j].phase = "open" => inode'[configSaves'[j].fd].kind = "cut"
                   /\ configSaves'[j].phase = "written" => inode'[configSaves'[j].fd] = Whole(configSaves'[j].config)
              /\ \A p \in Projects : file'[p] = 0 \/ inode'[file'[p]].kind \in {"whole", "broken"}
  <2> DEFINE fd == configSaves[i].fd
  <2>1. /\ configSaves[i].phase = "open" /\ SaveTurns(i, "written", fd) /\ file' = file /\ tmp' = tmp
        /\ \E kind \in {"whole", "mixed"} :
              /\ inode[fd].kind = "cut" => kind = "whole"
              /\ inode' = [inode EXCEPT ![fd] = [kind |-> kind, config |-> configSaves[i].config]]
    BY <1>11, WriteTmpWays
  <2>2. inode[fd].kind = "cut" /\ tmp[configSaves[i].path] = fd /\ fd # 0 /\ fd \in ConfigInodes
    BY <1>1, <1>4, <2>1
  <2>3. configSaves[i].path \in Projects
    BY <2>1 DEF AboutFolders
  <2>4. inode' = [inode EXCEPT ![fd] = Whole(configSaves[i].config)]
    BY <2>1, <2>2 DEF Whole
  <2>5. configSaves'[i].phase = "written" /\ configSaves'[i].path = configSaves[i].path
        /\ configSaves'[i].fd = fd /\ configSaves'[i].config = configSaves[i].config
        /\ \A j \in SaveIds : j # i => configSaves'[j] = configSaves[j]
    BY <2>1, SaveTurnsMean
  <2> HIDE DEF fd
  <2>6. \A j \in SaveIds : j # i => configSaves'[j].phase \notin {"open", "written"}
    BY <1>6, <2>1, <2>5
  <2>7. \A q \in Projects : inode'[file'[q]] = inode[file[q]]
    BY <1>1, <1>2, <2>1, <2>2, <2>3, <2>4
  <2>8. inode'[fd] = Whole(configSaves[i].config)
    BY <1>1, <2>2, <2>4
  <2> QED
    BY <1>4, <2>1, <2>2, <2>5, <2>6, <2>7, <2>8
<1>12. ASSUME NEW i \in SaveIds, RenameTmp(i)
       PROVE  /\ \A j \in SaveIds :
                   /\ configSaves'[j].phase \in {"open", "written"} =>
                        tmp'[configSaves'[j].path] = configSaves'[j].fd /\ configSaves'[j].fd # 0
                   /\ configSaves'[j].phase = "open" => inode'[configSaves'[j].fd].kind = "cut"
                   /\ configSaves'[j].phase = "written" => inode'[configSaves'[j].fd] = Whole(configSaves'[j].config)
              /\ \A p \in Projects : file'[p] = 0 \/ inode'[file'[p]].kind \in {"whole", "broken"}
  <2> DEFINE p == configSaves[i].path
  <2>1. /\ configSaves[i].phase = "written" /\ p \in Projects /\ inode' = inode
        /\ \/ tmp[p] = 0
           \/ /\ SaveTurns(i, "done", configSaves[i].fd)
              /\ file' = [file EXCEPT ![p] = tmp[p]]
    BY <1>12, RenameTmpWays
  <2>2. tmp[p] = configSaves[i].fd /\ tmp[p] # 0 /\ inode[tmp[p]] = Whole(configSaves[i].config)
    BY <1>4, <2>1
  <2>3. configSaves'[i].phase = "done" /\ \A j \in SaveIds : j # i => configSaves'[j] = configSaves[j]
    BY <2>1, <2>2, SaveTurnsMean
  <2>4. \A j \in SaveIds : configSaves'[j].phase \notin {"open", "written"}
    BY <1>6, <2>1, <2>3
  <2>5. inode[tmp[p]].kind = "whole"
    BY <2>2 DEF Whole
  <2> HIDE DEF p
  <2> QED
    BY <1>1, <1>4, <2>1, <2>2, <2>4, <2>5
<1>13. ASSUME SavesMove, file' = file, tmp' = tmp
       PROVE  \A j \in SaveIds : configSaves'[j].phase \in {"open", "written"} => configSaves'[j] = configSaves[j]
  <2>1. CASE configSaves' = configSaves
    BY <2>1
  <2>2. CASE Crashed
    <3>1. \A j \in SaveIds : [configSaves[j] EXCEPT !.phase = "lost"].phase = "lost"
      BY <1>1 DEF ASave
    <3> QED
      BY <2>2, <3>1 DEF Crashed
  <2>3. ASSUME NEW i \in SaveIds, Begins(i)
        PROVE  \A j \in SaveIds : configSaves'[j].phase \in {"open", "written"} => configSaves'[j] = configSaves[j]
    <3>1. PICK by, p, c : configSaves' = [configSaves EXCEPT ![i] = Issued(by, p, c)]
      BY <2>3 DEF Begins
    <3>2. configSaves'[i].phase = "issued" /\ \A j \in SaveIds : j # i => configSaves'[j] = configSaves[j]
      BY <3>1, IssueMeans
    <3> QED
      BY <3>2
  <2>4. ASSUME NEW i \in SaveIds, NEW phase \in {"failed", "over"}, NEW fd, SaveTurns(i, phase, fd)
        PROVE  \A j \in SaveIds : configSaves'[j].phase \in {"open", "written"} => configSaves'[j] = configSaves[j]
    <3>1. configSaves'[i].phase = phase /\ \A j \in SaveIds : j # i => configSaves'[j] = configSaves[j]
      BY <2>4, SaveTurnsMean
    <3> QED
      BY <3>1
  <2> QED
    BY <1>13, <2>1, <2>2, <2>3, <2>4 DEF SavesMove
<1>14. CASE SavesMove /\ file' = file /\ tmp' = tmp /\ inode' = inode
  <2>1. \A j \in SaveIds : configSaves'[j].phase \in {"open", "written"} => configSaves'[j] = configSaves[j]
    BY <1>13, <1>14
  <2> QED
    BY <1>4, <1>14, <2>1
<1>15. ASSUME NEW p \in Projects, HandEdit(p)
       PROVE  /\ \A j \in SaveIds : configSaves'[j].phase \notin {"open", "written"}
              /\ \A q \in Projects : file'[q] = 0 \/ inode'[file'[q]].kind \in {"whole", "broken"}
  <2>1. /\ configSaves' = configSaves /\ file' = file /\ Idle
    BY <1>3, <1>15 DEF HandEdit, MayAct
  <2>2. \E c : inode' = [inode EXCEPT ![file[p]] = c] /\ c.kind \in {"whole", "broken"}
    <3>1. Whole([inode[file[p]].config EXCEPT !.rest = <<p, settings'>>]).kind \in {"whole", "broken"}
          /\ [kind |-> "broken", config |-> DefaultConfig].kind \in {"whole", "broken"}
      BY DEF Whole
    <3>2. PICK c \in {Whole([inode[file[p]].config EXCEPT !.rest = <<p, settings'>>]),
                      [kind |-> "broken", config |-> DefaultConfig]} :
            inode' = [inode EXCEPT ![file[p]] = c]
      BY <1>15 DEF HandEdit
    <3> QED
      BY <3>1, <3>2
  <2>3. \A j \in SaveIds : configSaves'[j].phase \notin {"open", "written"}
    BY <2>1 DEF Idle, CallInFlight
  <2>4. \A q \in Projects : file'[q] = 0 \/ inode'[file'[q]].kind \in {"whole", "broken"}
    BY <1>1, <1>4, <2>1, <2>2
  <2> QED
    BY <2>3, <2>4
<1> QED
  BY <1>10, <1>11, <1>12, <1>14, <1>15, ConfigMoves DEF SavesWrite, InodesStay

\* What there is to know of a user who waits.
LEMMA AtMostOne ==
  ASSUME InTurn, steady
  PROVE  /\ seeds = {}
         /\ \A i \in SaveIds : CallInFlight(i) =>
              /\ \A j \in SaveIds : CallInFlight(j) => j = i
              /\ configSaves[i].by # "seed"
              /\ \A k \in OpenIds : Opening(k) =>
                   opens[k].phase \in {"saving", "healing"} /\ opens[k].save = i
                   /\ configSaves[i].by = "opening"
         /\ \A k, l \in OpenIds : Opening(k) /\ Opening(l) => k = l
         /\ \A k \in OpenIds :
              \/ opens[k].phase \in {"saving", "healing"} /\ CallEnded(opens[k].save)
              \/ opens[k].phase \in {"loading", "loaded"}
              => Opening(k) /\ \A i \in SaveIds : ~CallInFlight(i)
<1>1. seeds = {} /\ OneOpening /\ OneSave /\ OpeningsSave
  BY DEF InTurn
<1>2. \A k \in OpenIds : opens[k].phase \in {"saving", "healing"} => configSaves[opens[k].save].by = "opening"
  BY <1>1 DEF OpeningsSave
<1>3. \A k \in OpenIds, i \in SaveIds : Opening(k) /\ CallInFlight(i) =>
       opens[k].phase \in {"saving", "healing"} /\ opens[k].save = i
  BY <1>1 DEF OpeningsSave
<1>4. \A i \in SaveIds : CallInFlight(i) => configSaves[i].by # "seed"
  BY <1>1 DEF OpeningsSave
<1>5. ASSUME NEW k \in OpenIds, opens[k].phase \in {"saving", "healing", "loading", "loaded"}
      PROVE  Opening(k)
  BY <1>5 DEF Opening
<1>6. ASSUME NEW k \in OpenIds, opens[k].phase \in {"saving", "healing"}, CallEnded(opens[k].save),
             NEW i \in SaveIds, CallInFlight(i)
      PROVE  FALSE
  <2>1. opens[k].save = i /\ configSaves[i].by = "opening"
    BY <1>2, <1>3, <1>5, <1>6
  <2> QED
    BY <1>6, <2>1 DEF CallEnded, CallInFlight
<1>7. ASSUME NEW k \in OpenIds, opens[k].phase \in {"loading", "loaded"},
             NEW i \in SaveIds, CallInFlight(i)
      PROVE  FALSE
  BY <1>3, <1>5, <1>7
<1>8. \A i \in SaveIds : CallInFlight(i) =>
        /\ \A j \in SaveIds : CallInFlight(j) => j = i
        /\ configSaves[i].by # "seed"
        /\ \A k \in OpenIds : Opening(k) =>
             opens[k].phase \in {"saving", "healing"} /\ opens[k].save = i
             /\ configSaves[i].by = "opening"
  BY <1>1, <1>2, <1>3, <1>4 DEF OneSave
<1>9. \A k, l \in OpenIds : Opening(k) /\ Opening(l) => k = l
  BY <1>1 DEF OneOpening
<1> QED
  BY <1>1, <1>5, <1>6, <1>7, <1>8, <1>9

LEMMA FewerCalls ==
  ASSUME InTurn, steady' = steady, opens' = opens, seeds' = seeds,
         \A i \in SaveIds : /\ configSaves'[i].by = configSaves[i].by
                            /\ CallInFlight(i)' => CallInFlight(i)
  PROVE  InTurn'
BY DEF InTurn, OneOpening, OneSave, OpeningsSave, Opening

LEMMA OneSaveBegun ==
  ASSUME seeds' = {}, \A k \in OpenIds : ~Opening(k)', NEW i \in SaveIds,
         configSaves'[i].by \in {"setting", "reset"},
         \A j \in SaveIds : CallInFlight(j)' => j = i
  PROVE  InTurn'
BY DEF InTurn, OneOpening, OneSave, OpeningsSave, Opening

LEMMA OneUnderWay ==
  ASSUME seeds' = {}, NEW k \in OpenIds, \A l \in OpenIds : l # k => ~Opening(l)',
         \/ /\ opens'[k].phase \notin {"saving", "healing"}
            /\ \A j \in SaveIds : ~CallInFlight(j)'
         \/ /\ opens'[k].phase \in {"saving", "healing"} /\ opens'[k].save \in SaveIds
            /\ configSaves'[opens'[k].save].by = "opening"
            /\ \A j \in SaveIds : CallInFlight(j)' => j = opens'[k].save
  PROVE  InTurn'
<1>1. \A l \in OpenIds : opens'[l].phase \in {"saving", "healing"} => l = k
  BY DEF Opening
<1>2. OneOpening'
  BY DEF OneOpening
<1>3. OneSave'
  BY DEF OneSave
<1>4. OpeningsSave'
  <2>1. CASE opens'[k].phase \notin {"saving", "healing"} /\ \A j \in SaveIds : ~CallInFlight(j)'
    BY <1>1, <2>1 DEF OpeningsSave
  <2>2. CASE /\ opens'[k].phase \in {"saving", "healing"} /\ opens'[k].save \in SaveIds
             /\ configSaves'[opens'[k].save].by = "opening"
             /\ \A j \in SaveIds : CallInFlight(j)' => j = opens'[k].save
    <3>1. Opening(k)'
      BY <2>2 DEF Opening
    <3>2. \A l \in OpenIds : Opening(l)' => l = k
      OBVIOUS
    <3>3. \A j \in SaveIds : CallInFlight(j)' => j = opens'[k].save
      BY <2>2
    <3>4. \A l \in OpenIds : opens'[l].phase \in {"saving", "healing"} =>
            opens'[l].save \in SaveIds /\ configSaves'[opens'[l].save].by = "opening"
      BY <1>1, <2>2
    <3>5. \A j \in SaveIds : CallInFlight(j)' => configSaves'[j].by = "opening"
      BY <2>2, <3>3
    <3> QED
      BY <2>2, <3>1, <3>2, <3>3, <3>4, <3>5 DEF OpeningsSave
  <2> QED
    BY <2>1, <2>2
<1> QED
  BY <1>2, <1>3, <1>4 DEF InTurn

\* Where a step of one opening leaves the others, and a call the other calls.
LEMMA OthersRest ==
  ASSUME ConfigTypeOK, NEW k \in OpenIds, NEW phase, NEW q, NEW i, NEW g, Turns(k, phase, q, i, g),
         \A l \in OpenIds : l # k => ~Opening(l)
  PROVE  /\ opens'[k].phase = phase /\ opens'[k].to = q /\ opens'[k].save = i /\ opens'[k].got = g
         /\ \A l \in OpenIds : l # k => ~Opening(l)'
<1>1. \A l \in OpenIds : l # k => opens'[l] = opens[l]
  BY TurnsMean
<1>2. opens'[k].phase = phase /\ opens'[k].to = q /\ opens'[k].save = i /\ opens'[k].got = g
  BY TurnsMean
<1> QED
  BY <1>1, <1>2 DEF Opening

LEMMA OneIssued ==
  ASSUME ConfigTypeOK, NEW i \in SaveIds, NEW by, NEW p, NEW c,
         configSaves' = [configSaves EXCEPT ![i] = Issued(by, p, c)],
         \A j \in SaveIds : ~CallInFlight(j)
  PROVE  /\ configSaves'[i].phase = "issued" /\ configSaves'[i].by = by
         /\ configSaves'[i].path = p /\ configSaves'[i].config = c
         /\ \A j \in SaveIds : CallInFlight(j)' => j = i
<1>1. configSaves \in [SaveIds -> ASave]
  BY ConfigShapes
<1>2. configSaves'[i] = Issued(by, p, c) /\ \A j \in SaveIds : j # i => configSaves'[j] = configSaves[j]
  BY <1>1
<1>3. configSaves'[i].phase = "issued" /\ configSaves'[i].by = by
      /\ configSaves'[i].path = p /\ configSaves'[i].config = c
  BY <1>2, IssuedFields
<1> QED
  BY <1>2, <1>3 DEF CallInFlight

LEMMA SwitchEnds ==
  ASSUME ConfigTypeOK, Idle, NEW q \in Anyone, SwitchTo(q)
  PROVE  \E k \in OpenIds :
           /\ \A l \in OpenIds : l # k => ~Opening(l)'
           /\ \/ /\ memPath' = q /\ opens'[k].phase = EndOf(q) /\ opens'[k].to = q
                 /\ \A j \in SaveIds : ~CallInFlight(j)'
              \/ /\ opens'[k].phase = "saving" /\ opens'[k].save \in SaveIds
                 /\ configSaves'[opens'[k].save].by = "opening"
                 /\ \A j \in SaveIds : CallInFlight(j)' => j = opens'[k].save
<1>1. (\A i \in SaveIds : ~CallInFlight(i)) /\ (\A k \in OpenIds : ~Opening(k))
  BY DEF Idle
<1>2. PICK k \in OpenIds :
        \/ /\ memPath' = q /\ Turns(k, EndOf(q), q, opens[k].save, opens[k].got)
           /\ configSaves' = configSaves
        \/ \E i \in SaveIds, c \in mem :
             /\ configSaves' = [configSaves EXCEPT ![i] = Issued("opening", memPath, c)]
             /\ Turns(k, "saving", q, i, opens[k].got)
  BY SwitchWays
<1>3. CASE /\ memPath' = q /\ Turns(k, EndOf(q), q, opens[k].save, opens[k].got)
           /\ configSaves' = configSaves
  <2>1. opens'[k].phase = EndOf(q) /\ opens'[k].to = q /\ \A l \in OpenIds : l # k => ~Opening(l)'
    BY <1>1, <1>3, OthersRest
  <2>2. \A j \in SaveIds : ~CallInFlight(j)'
    BY <1>1, <1>3 DEF CallInFlight
  <2> QED
    BY <1>3, <2>1, <2>2
<1>4. ASSUME NEW i \in SaveIds, NEW c \in mem,
             configSaves' = [configSaves EXCEPT ![i] = Issued("opening", memPath, c)],
             Turns(k, "saving", q, i, opens[k].got)
      PROVE  /\ \A l \in OpenIds : l # k => ~Opening(l)'
             /\ opens'[k].phase = "saving" /\ opens'[k].save = i
             /\ configSaves'[i].by = "opening"
             /\ \A j \in SaveIds : CallInFlight(j)' => j = i
  <2>1. opens'[k].phase = "saving" /\ opens'[k].save = i /\ \A l \in OpenIds : l # k => ~Opening(l)'
    BY <1>1, <1>4, OthersRest
  <2>2. configSaves'[i].by = "opening" /\ \A j \in SaveIds : CallInFlight(j)' => j = i
    BY <1>1, <1>4, OneIssued
  <2> QED
    BY <2>1, <2>2
<1> QED
  BY <1>2, <1>3, <1>4

\* A step of one opening finds no call under way, and no other opening.
LEMMA Alone ==
  ASSUME InTurn, steady, NEW k \in OpenIds,
         Outgoing(k) \/ LoadConfig(k) \/ OnConfigLoaded(k) \/ OnHealed(k)
  PROVE  /\ \A i \in SaveIds : ~CallInFlight(i)
         /\ \A l \in OpenIds : l # k => ~Opening(l)
<1>1. \/ opens[k].phase \in {"saving", "healing"} /\ CallEnded(opens[k].save)
      \/ opens[k].phase \in {"loading", "loaded"}
  BY DEF Outgoing, LoadConfig, OnConfigLoaded, OnHealed
<1>2. Opening(k) /\ \A i \in SaveIds : ~CallInFlight(i)
  BY <1>1, AtMostOne
<1> QED
  BY <1>2, AtMostOne

\* Nothing is under way after the end of the program.
LEMMA NothingAfterCrash ==
  ASSUME ConfigTypeOK, AppCrashesSaving
  PROVE  /\ \A i \in SaveIds : ~CallInFlight(i)'
         /\ \A k \in OpenIds : ~Opening(k)'
<1>1. \A i \in SaveIds : configSaves[i] \in ASave
  BY ConfigShapes
<1>2. \A k \in OpenIds : opens[k] \in AnOpening
  BY ConfigShapes
<1>3. ASSUME NEW i \in SaveIds PROVE ~CallInFlight(i)'
  <2>1. configSaves'[i] = IF CallInFlight(i) THEN [configSaves[i] EXCEPT !.phase = "lost"] ELSE configSaves[i]
    BY DEF AppCrashesSaving
  <2>2. [configSaves[i] EXCEPT !.phase = "lost"].phase = "lost"
    BY <1>1 DEF ASave
  <2> QED
    BY <2>1, <2>2 DEF CallInFlight
<1>4. ASSUME NEW k \in OpenIds PROVE ~Opening(k)'
  <2>1. opens'[k] = IF Opening(k) THEN [opens[k] EXCEPT !.phase = "over"] ELSE opens[k]
    BY DEF AppCrashesSaving
  <2>2. [opens[k] EXCEPT !.phase = "over"].phase = "over"
    BY <1>2 DEF AnOpening
  <2> QED
    BY <2>1, <2>2 DEF Opening
<1> QED
  BY <1>3, <1>4

\* What was read, and where.
LEMMA LoadTurns ==
  ASSUME ConfigTypeOK, AboutFolders, NEW k \in OpenIds, LoadConfig(k)
  PROVE  Turns(k, "loaded", opens[k].to, opens[k].save, ReadFile(opens[k].to))
<1>1. opens[k] \in AnOpening /\ opens \in [OpenIds -> AnOpening] /\ opens[k].to \in Projects
  BY ConfigShapes DEF LoadConfig, AboutFolders
<1>2. ReadFile(opens[k].to) \in Content
  <2>1. inode[file[opens[k].to]] \in Content
    BY <1>1, ConfigShapes
  <2> QED
    BY <2>1, ConfigValues DEF ReadFile
<1> DEFINE got == ReadFile(opens[k].to)
           o == [opens[k] EXCEPT !.phase = "loaded", !.got = got]
<1>3. opens' = [opens EXCEPT ![k] = o]
  BY <1>1 DEF LoadConfig
<1> HIDE DEF got
<1>4. got \in Content
  BY <1>2 DEF got
<1>5. o \in AnOpening /\ o.phase = "loaded" /\ o.to = opens[k].to /\ o.save = opens[k].save /\ o.got = got
  BY <1>1, <1>4 DEF AnOpening, OpenPhases
<1> HIDE DEF o
<1>6. Turns(k, "loaded", opens[k].to, opens[k].save, got)
  BY <1>3, <1>5 DEF Turns
<1> QED
  BY <1>6 DEF got

\* A call of the user who waits follows the end of everything else.
LEMMA TurnStep ==
  ASSUME ConfigTypeOK, AboutFolders, InTurn, ConfigNext PROVE InTurn'
<1> SUFFICES ASSUME steady' PROVE InTurn'
  BY DEF InTurn
<1>1. steady /\ steady' = steady
  BY SteadyStays
<1>2. seeds = {}
  BY <1>1, AtMostOne
<1>3. ASSUME NEW i \in SaveIds, NEW phase, NEW fd, SaveTurns(i, phase, fd), opens' = opens, seeds' = seeds,
             CallInFlight(i) \/ (phase # "done" /\ phase \notin {"issued", "open", "written"})
      PROVE  InTurn'
  <2>1. configSaves'[i].phase = phase /\ configSaves'[i].by = configSaves[i].by
        /\ \A j \in SaveIds : j # i => configSaves'[j] = configSaves[j]
    BY <1>3, SaveTurnsMean
  <2>2. \A j \in SaveIds : configSaves'[j].by = configSaves[j].by
    BY <2>1
  <2>3. \A j \in SaveIds : CallInFlight(j)' => CallInFlight(j)
    BY <1>3, <2>1 DEF CallInFlight
  <2> QED
    BY <1>1, <1>3, <2>2, <2>3, FewerCalls
<1>4. ASSUME Idle, NEW i \in SaveIds, NEW by \in {"setting", "reset"}, NEW p, NEW c,
             Issue(i, by, p, c), opens' = opens, seeds' = seeds
      PROVE  InTurn'
  <2>1. (\A j \in SaveIds : ~CallInFlight(j)) /\ (\A k \in OpenIds : ~Opening(k))
    BY <1>4 DEF Idle
  <2>2. configSaves' = [configSaves EXCEPT ![i] = Issued(by, p, c)]
    BY <1>4 DEF Issue, Issued
  <2>3. configSaves'[i].by = by /\ \A j \in SaveIds : CallInFlight(j)' => j = i
    BY <2>1, <2>2, OneIssued
  <2>4. \A k \in OpenIds : ~Opening(k)'
    BY <1>4, <2>1 DEF Opening
  <2> QED
    BY <1>2, <1>4, <2>3, <2>4, OneSaveBegun
<1>5. ASSUME NEW i \in SaveIds, SaveFails(i) PROVE InTurn'
  <2>1. configSaves' = [configSaves EXCEPT ![i].phase = "failed"] /\ opens' = opens /\ seeds' = seeds
    BY <1>5 DEF SaveFails, memoryVars
  <2>2. SaveTurns(i, "failed", configSaves[i].fd)
    BY <2>1, SavesByPhase DEF SavePhases
  <2> QED
    BY <1>3, <2>1, <2>2
<1>6. ASSUME NEW i \in SaveIds, OpenTmp(i) \/ WriteTmp(i) \/ RenameTmp(i) PROVE InTurn'
  <2>1. CallInFlight(i) /\ opens' = opens /\ seeds' = seeds
    BY <1>6 DEF OpenTmp, WriteTmp, RenameTmp, CallInFlight, memoryVars
  <2>2. \E phase, fd : SaveTurns(i, phase, fd)
    BY <1>6, OpenTmpWays, WriteTmpWays, RenameTmpWays
  <2> QED
    BY <1>3, <2>1, <2>2
<1>7. ASSUME NEW i \in SaveIds, OnReset(i) PROVE InTurn'
  <2>1. configSaves' = [configSaves EXCEPT ![i].phase = "over"] /\ opens' = opens /\ seeds' = seeds
    BY <1>7 DEF OnReset
  <2>2. SaveTurns(i, "over", configSaves[i].fd)
    BY <2>1, SavesByPhase DEF SavePhases
  <2> QED
    BY <1>3, <2>1, <2>2
<1>8. CASE AppCrashesSaving
  <2>1. (\A i \in SaveIds : ~CallInFlight(i)') /\ (\A k \in OpenIds : ~Opening(k)') /\ seeds' = {}
    BY <1>8, NothingAfterCrash DEF AppCrashesSaving
  <2>2. \A k \in OpenIds : opens'[k].phase \notin {"saving", "healing"}
    BY <2>1 DEF Opening
  <2> QED
    BY <2>1, <2>2 DEF InTurn, OneOpening, OneSave, OpeningsSave
<1>9. ASSUME NEW p \in Projects, SelectProject(p) \/ RemoveProject(p) PROVE InTurn'
  <2>1. Idle /\ seeds' = {} /\ \E q \in Anyone : SwitchTo(q)
    BY <1>1, <1>2, <1>9, ConfigValues DEF SelectProject, RemoveProject, MayAct
  <2>2. PICK q \in Anyone : SwitchTo(q)
    BY <2>1
  <2>3. PICK k \in OpenIds :
           /\ \A l \in OpenIds : l # k => ~Opening(l)'
           /\ \/ /\ memPath' = q /\ opens'[k].phase = EndOf(q) /\ opens'[k].to = q
                 /\ \A j \in SaveIds : ~CallInFlight(j)'
              \/ /\ opens'[k].phase = "saving" /\ opens'[k].save \in SaveIds
                 /\ configSaves'[opens'[k].save].by = "opening"
                 /\ \A j \in SaveIds : CallInFlight(j)' => j = opens'[k].save
    BY <2>1, <2>2, SwitchEnds
  <2>4. EndOf(q) \notin {"saving", "healing"}
    BY DEF EndOf
  <2> QED
    BY <2>1, <2>3, <2>4, OneUnderWay
<1>10. ASSUME NEW p \in Projects, Import(p) \/ Seed(p) PROVE FALSE
  BY <1>1, <1>2, <1>10 DEF Import, Seed
<1>11. ASSUME NEW p \in Projects, HandEdit(p) PROVE InTurn'
  <2>1. configSaves' = configSaves /\ opens' = opens /\ seeds' = seeds
    BY <1>11 DEF HandEdit, memoryVars
  <2>2. \A j \in SaveIds : CallInFlight(j)' => CallInFlight(j)
    BY <2>1 DEF CallInFlight
  <2> QED
    BY <1>1, <2>1, <2>2, FewerCalls
<1>12. CASE ResetConfig
  <2>1. Idle /\ opens' = opens /\ seeds' = seeds
    BY <1>1, <1>12 DEF ResetConfig, MayAct
  <2>2. \E i \in SaveIds : Issue(i, "reset", memPath, BlankFor(memPath))
    BY <1>12 DEF ResetConfig
  <2> QED
    BY <1>4, <2>1, <2>2
<1>13. ASSUME NEW slot \in {"agent", "rest"}, Change(slot) PROVE InTurn'
  <2>1. Idle /\ opens' = opens /\ seeds' = seeds
    BY <1>1, <1>13 DEF Change, MayAct
  <2>2. \E i \in SaveIds : \E c : Issue(i, "setting", memPath, c)
    BY <1>13 DEF Change
  <2> QED
    BY <1>4, <2>1, <2>2
<1>14. ASSUME NEW k \in OpenIds, NEW phase \in {"over", "loading", "loaded"}, NEW q, NEW i, NEW g,
              Turns(k, phase, q, i, g), configSaves' = configSaves, seeds' = seeds,
              \A j \in SaveIds : ~CallInFlight(j), \A l \in OpenIds : l # k => ~Opening(l)
       PROVE  InTurn'
  <2>1. opens'[k].phase = phase /\ \A l \in OpenIds : l # k => ~Opening(l)'
    BY <1>14, OthersRest
  <2>2. \A j \in SaveIds : ~CallInFlight(j)'
    BY <1>14 DEF CallInFlight
  <2>3. opens'[k].phase \notin {"saving", "healing"} /\ seeds' = {}
    BY <1>2, <1>14, <2>1
  <2> QED
    BY <2>1, <2>2, <2>3, OneUnderWay
<1>15. ASSUME NEW k \in OpenIds, Outgoing(k) \/ LoadConfig(k) \/ OnConfigLoaded(k) \/ OnHealed(k)
       PROVE  /\ \A i \in SaveIds : ~CallInFlight(i)
              /\ \A l \in OpenIds : l # k => ~Opening(l)
  BY <1>1, <1>15, Alone
<1>16. ASSUME NEW k \in OpenIds, Outgoing(k) PROVE InTurn'
  <2>1. Turns(k, EndOf(opens[k].to), opens[k].to, opens[k].save, opens[k].got)
        /\ configSaves' = configSaves /\ seeds' = seeds
    BY <1>16, OutgoingWays
  <2>2. EndOf(opens[k].to) \in {"over", "loading", "loaded"}
    BY DEF EndOf
  <2> QED
    BY <1>14, <1>15, <1>16, <2>1, <2>2
<1>17. ASSUME NEW k \in OpenIds, LoadConfig(k) PROVE InTurn'
  <2>1. Turns(k, "loaded", opens[k].to, opens[k].save, ReadFile(opens[k].to))
        /\ configSaves' = configSaves /\ seeds' = seeds
    BY <1>17, LoadTurns DEF LoadConfig
  <2> QED
    BY <1>14, <1>15, <1>17, <2>1
<1>18. ASSUME NEW k \in OpenIds, OnHealed(k) PROVE InTurn'
  <2>1. opens' = [opens EXCEPT ![k].phase = "over"] /\ configSaves' = configSaves /\ seeds' = seeds
    BY <1>18 DEF OnHealed
  <2>2. Turns(k, "over", opens[k].to, opens[k].save, opens[k].got)
    BY <2>1, TurnsByPhase DEF OpenPhases
  <2> QED
    BY <1>14, <1>15, <1>18, <2>1, <2>2
<1>19. ASSUME NEW k \in OpenIds, OnConfigLoaded(k) PROVE InTurn'
  <2> DEFINE q == opens[k].to
             got == opens[k].got
  <2>1. q \in Anyone /\ seeds' = seeds
    BY <1>19, ConfigShapes DEF OnConfigLoaded
  <2>2. \/ Turns(k, "over", q, opens[k].save, got) /\ configSaves' = configSaves
        \/ \E i \in SaveIds, c \in Configs :
             /\ configSaves' = [configSaves EXCEPT ![i] = Issued("opening", q, c)]
             /\ Turns(k, "healing", q, i, Whole(c))
    BY <1>19, <2>1, LoadedWays
  <2>3. (\A i \in SaveIds : ~CallInFlight(i)) /\ \A l \in OpenIds : l # k => ~Opening(l)
    BY <1>15, <1>19
  <2> HIDE DEF q, got
  <2>4. ASSUME NEW i \in SaveIds, NEW c \in Configs,
               configSaves' = [configSaves EXCEPT ![i] = Issued("opening", q, c)],
               Turns(k, "healing", q, i, Whole(c))
        PROVE  InTurn'
    <3>1. opens'[k].phase = "healing" /\ opens'[k].save = i /\ \A l \in OpenIds : l # k => ~Opening(l)'
      BY <2>3, <2>4, OthersRest
    <3>2. configSaves'[i].by = "opening" /\ \A j \in SaveIds : CallInFlight(j)' => j = i
      BY <2>3, <2>4, OneIssued
    <3>3. seeds' = {}
      BY <1>2, <2>1
    <3> QED
      BY <3>1, <3>2, <3>3, OneUnderWay
  <2> QED
    BY <1>14, <2>1, <2>2, <2>3, <2>4
<1> QED
  BY <1>5, <1>6, <1>7, <1>8, <1>9, <1>10, <1>11, <1>12, <1>13, <1>16, <1>17, <1>18, <1>19 DEF ConfigNext

\* What is left when nothing is under way, and while an opening reads.
LEMMA KeptAtRest ==
  ASSUME \A i \in SaveIds : ~CallInFlight(i)', \A k \in OpenIds : ~Opening(k)',
         memPath' # NoProject => \A c \in mem' :
            c.stamp = memPath' /\ (file'[memPath'] # 0 /\ inode'[file'[memPath']].kind = "whole" =>
                                     c.agent = inode'[file'[memPath']].config.agent)
  PROVE  Agreed' /\ SavesBringIt' /\ OpeningsBringIt'
<1>1. Agreed'
  BY DEF Agreed, Told
<1>2. SavesBringIt'
  BY DEF SavesBringIt
<1>3. \A k \in OpenIds : opens'[k].phase \notin {"loading", "loaded", "healing"}
  BY DEF Opening
<1>4. OpeningsBringIt'
  BY <1>3 DEF OpeningsBringIt
<1> QED
  BY <1>1, <1>2, <1>4

LEMMA KeptReading ==
  ASSUME \A i \in SaveIds : ~CallInFlight(i)', NEW k \in OpenIds, \A l \in OpenIds : l # k => ~Opening(l)',
         opens'[k].phase \in {"loading", "loaded"}, memPath' = opens'[k].to,
         opens'[k].phase = "loaded" => opens'[k].got = ReadFile(opens[k].to)',
         opens'[k].to = opens[k].to \/ opens'[k].phase = "loading"
  PROVE  Agreed' /\ SavesBringIt' /\ OpeningsBringIt'
<1>1. Opening(k)'
  BY DEF Opening
<1>2. Agreed'
  BY <1>1 DEF Agreed
<1>3. SavesBringIt'
  BY DEF SavesBringIt
<1>4. \A l \in OpenIds : l # k => opens'[l].phase \notin {"loading", "loaded", "healing"}
  BY DEF Opening
<1>5. OpeningsBringIt'
  BY <1>4 DEF OpeningsBringIt
<1> QED
  BY <1>2, <1>3, <1>5

\* Once one call is under way, all hangs on it.
LEMMA KeptSaving ==
  ASSUME NEW i \in SaveIds, \A j \in SaveIds : CallInFlight(j)' => j = i,
         CallInFlight(i)' \/ \E k \in OpenIds : Opening(k)',
         CallInFlight(i)' /\ configSaves'[i].by = "setting" =>
           configSaves'[i].path = memPath' /\ mem' = {configSaves'[i].config} /\ configSaves'[i].config.stamp = memPath',
         CallInFlight(i)' /\ configSaves'[i].by = "reset" =>
           /\ configSaves'[i].path = memPath' /\ configSaves'[i].config.stamp = memPath'
           /\ configSaves'[i].phase = "done" => Holds(memPath, configSaves[i].config)',
         \A k \in OpenIds : Opening(k)' => opens'[k].phase \in {"saving", "healing"} /\ opens'[k].save = i,
         \A k \in OpenIds : opens'[k].phase = "healing" =>
           /\ memPath' = opens'[k].to
           /\ configSaves'[i].path = opens'[k].to /\ configSaves'[i].config = opens'[k].got.config
           /\ opens'[k].got.config.stamp = opens'[k].to
           /\ configSaves'[i].phase = "done" => Holds(opens[k].to, opens[k].got.config)'
  PROVE  Agreed' /\ SavesBringIt' /\ OpeningsBringIt'
<1>1. Agreed'
  BY DEF Agreed
<1>2. SavesBringIt'
  BY DEF SavesBringIt
<1>3. \A k \in OpenIds : /\ opens'[k].phase \notin {"loading", "loaded"}
                         /\ opens'[k].phase = "healing" => opens'[k].save = i
  BY DEF Opening
<1>4. OpeningsBringIt'
  BY <1>3 DEF OpeningsBringIt
<1> QED
  BY <1>1, <1>2, <1>4

\* The file says what memory holds, or what is under way will see to it.
LEMMA KeptStep ==
  ASSUME ConfigTypeOK, AboutFolders, NamesApart, InTurn, OwnTmp, Kept, ConfigNext PROVE Kept'
<1> SUFFICES ASSUME steady', ~Failed' PROVE Agreed' /\ SavesBringIt' /\ OpeningsBringIt'
  BY DEF Kept
<1>1. steady /\ steady' = steady
  BY SteadyStays
<1>2. \A i \in SaveIds : configSaves'[i].phase \notin {"failed", "lost"}
  BY DEF Failed
<1>3. \A i \in SaveIds : configSaves[i].phase \notin {"failed", "lost"}
  BY <1>2, CallsGoOn
<1>4. Agreed /\ SavesBringIt /\ OpeningsBringIt
  BY <1>1, <1>3 DEF Kept, Failed
<1>5. /\ file \in [Projects -> ConfigInodes] /\ tmp \in [Projects -> ConfigInodes]
      /\ inode \in [ConfigInodes -> Content] /\ memPath \in Anyone
      /\ \A i \in SaveIds : configSaves[i].path \in Anyone
  BY ConfigShapes
<1>6. seeds = {}
  BY <1>1, AtMostOne
<1>7. ASSUME Idle, memPath # NoProject
      PROVE  \A c \in mem :
               c.stamp = memPath /\ (file[memPath] # 0 /\ inode[file[memPath]].kind = "whole" =>
                                       c.agent = inode[file[memPath]].config.agent)
  BY <1>4, <1>7 DEF Agreed, Idle, Told
\* A call under way.
<1>8. ASSUME NEW i \in SaveIds, CallInFlight(i)
      PROVE  /\ \A j \in SaveIds : j # i => ~CallInFlight(j)
             /\ configSaves[i].by # "seed"
             /\ \A k \in OpenIds : Opening(k) =>
                  opens[k].phase \in {"saving", "healing"} /\ opens[k].save = i
                  /\ configSaves[i].by = "opening"
             /\ configSaves[i].by = "setting" =>
                  configSaves[i].path = memPath /\ mem = {configSaves[i].config} /\ configSaves[i].config.stamp = memPath
             /\ configSaves[i].by = "reset" =>
                  configSaves[i].path = memPath /\ configSaves[i].config.stamp = memPath
             /\ \A k \in OpenIds : opens[k].phase = "healing" =>
                  /\ memPath = opens[k].to
                  /\ configSaves[i].path = opens[k].to /\ configSaves[i].config = opens[k].got.config
                  /\ opens[k].got.config.stamp = opens[k].to
  <2>1. /\ \A j \in SaveIds : j # i => ~CallInFlight(j)
        /\ configSaves[i].by # "seed"
        /\ \A k \in OpenIds : Opening(k) =>
             opens[k].phase \in {"saving", "healing"} /\ opens[k].save = i
             /\ configSaves[i].by = "opening"
    BY <1>1, <1>8, AtMostOne
  <2>2. /\ configSaves[i].by = "setting" =>
             configSaves[i].path = memPath /\ mem = {configSaves[i].config} /\ configSaves[i].config.stamp = memPath
        /\ configSaves[i].by = "reset" =>
             configSaves[i].path = memPath /\ configSaves[i].config.stamp = memPath
    BY <1>4, <1>8 DEF SavesBringIt
  <2>3. ASSUME NEW k \in OpenIds, opens[k].phase = "healing"
        PROVE  /\ memPath = opens[k].to
               /\ configSaves[i].path = opens[k].to /\ configSaves[i].config = opens[k].got.config
               /\ opens[k].got.config.stamp = opens[k].to
    <3>1. opens[k].save = i
      BY <2>1, <2>3 DEF Opening
    <3> QED
      BY <1>4, <2>3, <3>1 DEF OpeningsBringIt
  <2> QED
    BY <2>1, <2>2, <2>3
<1>9. ASSUME NEW i \in SaveIds, CallInFlight(i), NEW phase, NEW fd, SaveTurns(i, phase, fd),
             opens' = opens, memPath' = memPath, mem' = mem
      PROVE  /\ configSaves'[i].phase = phase
             /\ configSaves'[i].by = configSaves[i].by
             /\ configSaves'[i].path = configSaves[i].path /\ configSaves'[i].config = configSaves[i].config
             /\ \A j \in SaveIds : CallInFlight(j)' => j = i
             /\ \A k \in OpenIds : Opening(k)' => opens'[k].phase \in {"saving", "healing"} /\ opens'[k].save = i
  <2>1. /\ configSaves'[i].phase = phase /\ configSaves'[i].by = configSaves[i].by
        /\ configSaves'[i].path = configSaves[i].path /\ configSaves'[i].config = configSaves[i].config
        /\ \A j \in SaveIds : j # i => configSaves'[j] = configSaves[j]
    BY <1>9, SaveTurnsMean
  <2>2. \A j \in SaveIds : CallInFlight(j)' => j = i
    BY <1>8, <1>9, <2>1 DEF CallInFlight
  <2>3. \A k \in OpenIds : Opening(k)' => opens'[k].phase \in {"saving", "healing"} /\ opens'[k].save = i
    BY <1>8, <1>9 DEF Opening
  <2> QED
    BY <2>1, <2>2, <2>3
<1>10. ASSUME NEW i \in SaveIds, OpenTmp(i) \/ WriteTmp(i)
       PROVE  Agreed' /\ SavesBringIt' /\ OpeningsBringIt'
  <2>1. CallInFlight(i) /\ opens' = opens /\ memPath' = memPath /\ mem' = mem
    BY <1>10 DEF OpenTmp, WriteTmp, CallInFlight, memoryVars
  <2>2. \E phase \in {"open", "written"} : \E fd : SaveTurns(i, phase, fd)
    BY <1>10, OpenTmpWays, WriteTmpWays
  <2>3. PICK fd : \E phase \in {"open", "written"} : SaveTurns(i, phase, fd)
    BY <2>2
  <2>4. /\ configSaves'[i].phase \in {"open", "written"}
        /\ configSaves'[i].by = configSaves[i].by
        /\ configSaves'[i].path = configSaves[i].path /\ configSaves'[i].config = configSaves[i].config
        /\ \A j \in SaveIds : CallInFlight(j)' => j = i
        /\ \A k \in OpenIds : Opening(k)' => opens'[k].phase \in {"saving", "healing"} /\ opens'[k].save = i
    BY <1>9, <2>1, <2>3
  <2>5. CallInFlight(i)' /\ configSaves'[i].phase # "done"
    BY <2>4 DEF CallInFlight
  <2>6. /\ configSaves'[i].by = "setting" =>
             configSaves'[i].path = memPath' /\ mem' = {configSaves'[i].config} /\ configSaves'[i].config.stamp = memPath'
        /\ configSaves'[i].by = "reset" =>
             configSaves'[i].path = memPath' /\ configSaves'[i].config.stamp = memPath'
    BY <1>8, <2>1, <2>4
  <2>7. \A k \in OpenIds : opens'[k].phase = "healing" =>
          /\ memPath' = opens'[k].to
          /\ configSaves'[i].path = opens'[k].to /\ configSaves'[i].config = opens'[k].got.config
          /\ opens'[k].got.config.stamp = opens'[k].to
    BY <1>8, <2>1, <2>4
  <2> QED
    BY <2>4, <2>5, <2>6, <2>7, KeptSaving
<1>11. ASSUME NEW i \in SaveIds, RenameTmp(i)
       PROVE  Agreed' /\ SavesBringIt' /\ OpeningsBringIt'
  <2> DEFINE p == configSaves[i].path
  <2>1. CallInFlight(i) /\ opens' = opens /\ memPath' = memPath /\ mem' = mem
        /\ inode' = inode /\ configSaves[i].phase = "written"
    BY <1>11 DEF RenameTmp, CallInFlight, memoryVars
  <2>2. /\ p \in Projects
        /\ \/ SaveTurns(i, "failed", configSaves[i].fd)
           \/ /\ tmp[p] # 0 /\ SaveTurns(i, "done", configSaves[i].fd)
              /\ file' = [file EXCEPT ![p] = tmp[p]]
    BY <1>11, RenameTmpWays
  <2>3. tmp[p] # 0 /\ SaveTurns(i, "done", configSaves[i].fd) /\ file' = [file EXCEPT ![p] = tmp[p]]
    BY <1>2, <2>2, SaveTurnsMean
  <2>4. /\ configSaves'[i].phase = "done"
        /\ configSaves'[i].by = configSaves[i].by
        /\ configSaves'[i].path = p /\ configSaves'[i].config = configSaves[i].config
        /\ \A j \in SaveIds : CallInFlight(j)' => j = i
        /\ \A k \in OpenIds : Opening(k)' => opens'[k].phase \in {"saving", "healing"} /\ opens'[k].save = i
    BY <1>9, <2>1, <2>3
  <2>5. tmp[p] = configSaves[i].fd /\ inode[tmp[p]] = Whole(configSaves[i].config)
    BY <1>1, <2>1 DEF OwnTmp
  <2>6. file'[p] # 0 /\ inode'[file'[p]] = Whole(configSaves[i].config)
    BY <1>5, <2>1, <2>2, <2>3, <2>5
  <2>7. Whole(configSaves[i].config).config = configSaves[i].config
    BY DEF Whole
  <2>8. CASE configSaves[i].by = "setting"
    <3>1. \A j \in SaveIds : ~CallInFlight(j)'
      BY <2>4, <2>8 DEF CallInFlight
    <3>2. \A k \in OpenIds : ~Opening(k)'
      BY <1>8, <2>1, <2>8 DEF Opening
    <3>3. p = memPath /\ mem = {configSaves[i].config} /\ configSaves[i].config.stamp = memPath
      BY <1>8, <2>1, <2>8
    <3>4. inode'[file'[p]].config = configSaves[i].config
      BY <2>6, <2>7
    <3>5. \A c \in mem' : c.stamp = memPath' /\ c.agent = inode'[file'[memPath']].config.agent
      BY <2>1, <3>3, <3>4
    <3> QED
      BY <3>1, <3>2, <3>5, KeptAtRest
  <2>9. CASE configSaves[i].by # "setting"
    <3>1. CallInFlight(i)' \/ \E k \in OpenIds : Opening(k)'
      <4>1. CASE configSaves[i].by = "reset"
        BY <2>4, <4>1 DEF CallInFlight
      <4>2. CASE configSaves[i].by = "opening"
        <5>1. \E k \in OpenIds : Opening(k)
          BY <1>1, <2>1, <4>2 DEF InTurn, OpeningsSave
        <5> QED
          BY <2>1, <5>1 DEF Opening
      <4>3. configSaves[i].by \in Savers
        BY ConfigShapes
      <4> QED
        BY <1>8, <2>1, <2>9, <4>1, <4>2, <4>3 DEF Savers
    <3>2. Holds(p, configSaves[i].config)'
      BY <2>4, <2>6 DEF Holds
    <3>3. configSaves'[i].by = "reset" =>
           /\ configSaves'[i].path = memPath' /\ configSaves'[i].config.stamp = memPath'
           /\ configSaves'[i].phase = "done" => Holds(memPath, configSaves[i].config)'
      <4>1. ASSUME configSaves'[i].by = "reset" PROVE p = memPath /\ configSaves[i].config.stamp = memPath
        BY <1>8, <2>1, <2>4, <4>1
      <4>2. ASSUME configSaves'[i].by = "reset" PROVE Holds(memPath, configSaves[i].config)'
        BY <2>1, <2>4, <2>6, <4>1, <4>2 DEF Holds
      <4> QED
        BY <2>1, <2>4, <4>1, <4>2
    <3>4. ASSUME NEW k \in OpenIds, opens'[k].phase = "healing"
          PROVE  /\ memPath' = opens'[k].to
                 /\ configSaves'[i].path = opens'[k].to /\ configSaves'[i].config = opens'[k].got.config
                 /\ opens'[k].got.config.stamp = opens'[k].to
                 /\ configSaves'[i].phase = "done" => Holds(opens[k].to, opens[k].got.config)'
      <4>1. opens[k].phase = "healing" /\ opens'[k] = opens[k]
        BY <2>1, <3>4
      <4>2. /\ memPath = opens[k].to
            /\ p = opens[k].to /\ configSaves[i].config = opens[k].got.config
            /\ opens[k].got.config.stamp = opens[k].to
        BY <1>8, <2>1, <4>1
      <4>3. Holds(opens[k].to, opens[k].got.config)'
        BY <2>6, <4>1, <4>2 DEF Holds
      <4> QED
        BY <2>1, <2>4, <4>1, <4>2, <4>3
    <3>5. configSaves'[i].by # "setting"
      BY <2>4, <2>9
    <3> QED
      BY <2>4, <3>1, <3>3, <3>4, <3>5, KeptSaving
  <2> QED
    BY <2>8, <2>9
<1>12. ASSUME NEW i \in SaveIds, SaveFails(i) PROVE FALSE
  <2>1. configSaves' = [configSaves EXCEPT ![i].phase = "failed"]
    BY <1>12 DEF SaveFails
  <2>2. configSaves'[i].phase = "failed"
    BY <2>1, SavesByPhase, SaveTurnsMean DEF SavePhases
  <2> QED
    BY <1>2, <2>2
<1>13. ASSUME NEW i \in SaveIds, OnReset(i)
       PROVE  Agreed' /\ SavesBringIt' /\ OpeningsBringIt'
  <2>1. /\ configSaves[i].phase = "done" /\ configSaves[i].by = "reset" /\ CallInFlight(i)
        /\ configSaves' = [configSaves EXCEPT ![i].phase = "over"]
        /\ mem' = {configSaves[i].config} /\ memPath' = memPath /\ opens' = opens
        /\ file' = file /\ inode' = inode
    BY <1>13 DEF OnReset, CallInFlight, filesVars
  <2>2. SaveTurns(i, "over", configSaves[i].fd)
    BY <2>1, SavesByPhase DEF SavePhases
  <2>3. configSaves'[i].phase = "over" /\ \A j \in SaveIds : j # i => configSaves'[j] = configSaves[j]
    BY <2>2, SaveTurnsMean
  <2>4. \A j \in SaveIds : ~CallInFlight(j)'
    BY <1>8, <2>1, <2>3 DEF CallInFlight
  <2>5. \A k \in OpenIds : ~Opening(k)'
    BY <1>8, <2>1 DEF Opening
  <2>6. configSaves[i].config.stamp = memPath /\ Holds(memPath, configSaves[i].config)
    BY <1>4, <2>1 DEF SavesBringIt
  <2>7. inode[file[memPath]].config = configSaves[i].config
    BY <2>6 DEF Holds, Whole
  <2>8. \A c \in mem' : c.stamp = memPath' /\ c.agent = inode'[file'[memPath']].config.agent
    BY <2>1, <2>6, <2>7
  <2> QED
    BY <2>4, <2>5, <2>8, KeptAtRest
<1>14. CASE AppCrashesSaving
  <2>1. (\A i \in SaveIds : ~CallInFlight(i)') /\ (\A k \in OpenIds : ~Opening(k)') /\ memPath' = NoProject
    BY <1>14, NothingAfterCrash DEF AppCrashesSaving
  <2> QED
    BY <2>1, KeptAtRest
<1>15. ASSUME NEW p \in Projects, Import(p) \/ Seed(p) PROVE FALSE
  BY <1>1, <1>6, <1>15 DEF Import, Seed
\* What begins when all is over.
<1>16. ASSUME NEW k \in OpenIds, NEW q \in Anyone, opens'[k].phase = EndOf(q), opens'[k].to = q, memPath' = q,
              \A j \in SaveIds : ~CallInFlight(j)', \A l \in OpenIds : l # k => ~Opening(l)'
       PROVE  Agreed' /\ SavesBringIt' /\ OpeningsBringIt'
  <2>1. CASE q = NoProject
    <3>1. ~Opening(k)'
      BY <1>16, <2>1 DEF EndOf, Opening
    <3>2. \A l \in OpenIds : ~Opening(l)'
      BY <1>16, <3>1
    <3> QED
      BY <1>16, <2>1, <3>2, KeptAtRest
  <2>2. CASE q # NoProject
    <3>1. opens'[k].phase = "loading"
      BY <1>16, <2>2 DEF EndOf
    <3> QED
      BY <1>16, <3>1, KeptReading
  <2> QED
    BY <2>1, <2>2
<1>17. ASSUME NEW p \in Projects, SelectProject(p) \/ RemoveProject(p)
       PROVE  Agreed' /\ SavesBringIt' /\ OpeningsBringIt'
  <2>1. Idle /\ \E q \in Anyone : SwitchTo(q)
    BY <1>1, <1>17, ConfigValues DEF SelectProject, RemoveProject, MayAct
  <2>2. PICK q \in Anyone : SwitchTo(q)
    BY <2>1
  <2>3. PICK k \in OpenIds :
           /\ \A l \in OpenIds : l # k => ~Opening(l)'
           /\ \/ /\ memPath' = q /\ opens'[k].phase = EndOf(q) /\ opens'[k].to = q
                 /\ \A j \in SaveIds : ~CallInFlight(j)'
              \/ /\ opens'[k].phase = "saving" /\ opens'[k].save \in SaveIds
                 /\ configSaves'[opens'[k].save].by = "opening"
                 /\ \A j \in SaveIds : CallInFlight(j)' => j = opens'[k].save
    BY <2>1, <2>2, SwitchEnds
  <2>4. CASE /\ opens'[k].phase = "saving" /\ opens'[k].save \in SaveIds
             /\ configSaves'[opens'[k].save].by = "opening"
             /\ \A j \in SaveIds : CallInFlight(j)' => j = opens'[k].save
    <3>1. Opening(k)'
      BY <2>4 DEF Opening
    <3>2. \A l \in OpenIds : opens'[l].phase # "healing"
      BY <2>3, <2>4 DEF Opening
    <3>3. PICK i \in SaveIds : i = opens'[k].save
      BY <2>4
    <3>4. \A l \in OpenIds : Opening(l)' => opens'[l].phase \in {"saving", "healing"} /\ opens'[l].save = i
      BY <2>3, <2>4, <3>3
    <3> QED
      BY <2>4, <3>1, <3>2, <3>3, <3>4, KeptSaving
  <2> QED
    BY <1>16, <2>3, <2>4
<1>18. ASSUME NEW p \in Projects, HandEdit(p)
       PROVE  Agreed' /\ SavesBringIt' /\ OpeningsBringIt'
  <2>1. /\ Idle /\ inode[file[p]].kind = "whole" /\ file[p] \in ConfigInodes
        /\ UNCHANGED <<memPath, mem, opens, configSaves, file>>
    BY <1>1, <1>5, <1>18 DEF HandEdit, MayAct, memoryVars
  <2>2. (\A j \in SaveIds : ~CallInFlight(j)') /\ (\A k \in OpenIds : ~Opening(k)')
    BY <2>1 DEF Idle, CallInFlight, Opening
  <2>3. \E c : /\ inode' = [inode EXCEPT ![file[p]] = c]
               /\ c.kind = "whole" => c.config.agent = inode[file[p]].config.agent
    <3> DEFINE d == [inode[file[p]].config EXCEPT !.rest = <<p, settings'>>]
    <3>1. PICK c \in {Whole(d), [kind |-> "broken", config |-> DefaultConfig]} :
            inode' = [inode EXCEPT ![file[p]] = c]
      BY <1>18 DEF HandEdit
    <3>2. inode[file[p]].config \in Configs
      BY <1>5, <2>1 DEF Content
    <3>3. d.agent = inode[file[p]].config.agent
      BY <3>2 DEF Configs
    <3> HIDE DEF d
    <3>4. Whole(d).config.agent = d.agent
      BY DEF Whole
    <3>5. [kind |-> "broken", config |-> DefaultConfig].kind # "whole"
      OBVIOUS
    <3> QED
      BY <3>1, <3>3, <3>4, <3>5
  <2>4. PICK c : /\ inode' = [inode EXCEPT ![file[p]] = c]
                 /\ c.kind = "whole" => c.config.agent = inode[file[p]].config.agent
    BY <2>3
  <2>5. ASSUME memPath # NoProject
        PROVE  \A b \in mem :
                 b.stamp = memPath /\ (file[memPath] # 0 /\ inode'[file[memPath]].kind = "whole" =>
                                         b.agent = inode'[file[memPath]].config.agent)
    <3>1. file[memPath] \in ConfigInodes
      BY <1>5, <2>5 DEF Anyone
    <3>2. CASE file[memPath] = file[p]
      <4>1. inode'[file[memPath]] = c /\ inode[file[memPath]].kind = "whole"
        BY <1>5, <2>1, <2>4, <3>1, <3>2
      <4> QED
        BY <1>7, <2>1, <2>4, <2>5, <3>2, <4>1
    <3>3. CASE file[memPath] # file[p]
      <4>1. inode'[file[memPath]] = inode[file[memPath]]
        BY <1>5, <2>4, <3>1, <3>3
      <4> QED
        BY <1>7, <2>1, <2>5, <4>1
    <3> QED
      BY <3>2, <3>3
  <2>6. memPath' # NoProject => \A b \in mem' :
            b.stamp = memPath' /\ (file'[memPath'] # 0 /\ inode'[file'[memPath']].kind = "whole" =>
                                     b.agent = inode'[file'[memPath']].config.agent)
    BY <2>1, <2>5
  <2> QED
    BY <2>2, <2>6, KeptAtRest
<1>19. ASSUME Idle, NEW i \in SaveIds, NEW by \in {"setting", "reset"}, NEW c,
              Issue(i, by, memPath, c), c.stamp = memPath, by = "setting" => mem' = {c},
              opens' = opens, memPath' = memPath
       PROVE  Agreed' /\ SavesBringIt' /\ OpeningsBringIt'
  <2>1. (\A j \in SaveIds : ~CallInFlight(j)) /\ (\A k \in OpenIds : ~Opening(k))
    BY <1>19 DEF Idle
  <2>2. configSaves' = [configSaves EXCEPT ![i] = Issued(by, memPath, c)]
    BY <1>19 DEF Issue, Issued
  <2>3. /\ configSaves'[i].phase = "issued" /\ configSaves'[i].by = by
        /\ configSaves'[i].path = memPath /\ configSaves'[i].config = c
        /\ \A j \in SaveIds : CallInFlight(j)' => j = i
    BY <2>1, <2>2, OneIssued
  <2>4. CallInFlight(i)'
    BY <2>3 DEF CallInFlight
  <2>5. \A k \in OpenIds : ~Opening(k)' /\ opens'[k].phase # "healing"
    BY <1>19, <2>1 DEF Opening
  <2> QED
    BY <1>19, <2>3, <2>4, <2>5, KeptSaving
<1>20. CASE ResetConfig
  <2>1. Idle /\ opens' = opens /\ memPath' = memPath
    BY <1>1, <1>20 DEF ResetConfig, MayAct
  <2>2. PICK i \in SaveIds : Issue(i, "reset", memPath, BlankFor(memPath))
    BY <1>20 DEF ResetConfig
  <2>3. BlankFor(memPath).stamp = memPath
    BY <1>5, ConfigValues
  <2> QED
    BY <1>19, <2>1, <2>2, <2>3
<1>21. ASSUME NEW slot \in {"agent", "rest"}, Change(slot)
       PROVE  Agreed' /\ SavesBringIt' /\ OpeningsBringIt'
  <2>1. Idle /\ opens' = opens /\ memPath' = memPath /\ memPath # NoProject
    BY <1>1, <1>21 DEF Change, MayAct
  <2>2. PICK c \in mem, i \in SaveIds :
          /\ mem' = {[c EXCEPT ![slot] = <<opened, settings'>>]}
          /\ Issue(i, "setting", memPath, [c EXCEPT ![slot] = <<opened, settings'>>])
    BY <1>21 DEF Change, Persisted
  <2> DEFINE next == [c EXCEPT ![slot] = <<opened, settings'>>]
  <2>3. c \in Configs /\ c.stamp = memPath
    BY <1>7, <2>1, ConfigShapes
  <2>4. next.stamp = memPath
    BY <2>3 DEF Configs
  <2>5. mem' = {next} /\ Issue(i, "setting", memPath, next)
    BY <2>2
  <2> HIDE DEF next
  <2> QED
    BY <1>19, <2>1, <2>4, <2>5
\* What an opening makes of what it reads.
<1>22. ASSUME NEW k \in OpenIds, Outgoing(k) \/ LoadConfig(k) \/ OnConfigLoaded(k) \/ OnHealed(k)
       PROVE  /\ \A i \in SaveIds : ~CallInFlight(i)
              /\ \A l \in OpenIds : l # k => ~Opening(l)
  BY <1>1, <1>22, Alone
<1>23. ASSUME NEW k \in OpenIds, NEW phase, NEW q, NEW i, NEW g, Turns(k, phase, q, i, g),
              \A j \in SaveIds : ~CallInFlight(j), \A l \in OpenIds : l # k => ~Opening(l),
              configSaves' = configSaves
       PROVE  /\ opens'[k].phase = phase /\ opens'[k].to = q /\ opens'[k].got = g
              /\ \A l \in OpenIds : l # k => ~Opening(l)'
              /\ \A j \in SaveIds : ~CallInFlight(j)'
  <2>1. /\ opens'[k].phase = phase /\ opens'[k].to = q /\ opens'[k].got = g
        /\ \A l \in OpenIds : l # k => ~Opening(l)'
    BY <1>23, OthersRest
  <2>2. \A j \in SaveIds : ~CallInFlight(j)'
    BY <1>23 DEF CallInFlight
  <2> QED
    BY <2>1, <2>2
<1>24. ASSUME NEW k \in OpenIds, Outgoing(k) PROVE Agreed' /\ SavesBringIt' /\ OpeningsBringIt'
  <2>1. /\ opens[k].to \in Anyone /\ memPath' = opens[k].to /\ configSaves' = configSaves
        /\ Turns(k, EndOf(opens[k].to), opens[k].to, opens[k].save, opens[k].got)
    BY <1>24, OutgoingWays
  <2>2. /\ opens'[k].phase = EndOf(opens[k].to) /\ opens'[k].to = opens[k].to
        /\ \A l \in OpenIds : l # k => ~Opening(l)'
        /\ \A j \in SaveIds : ~CallInFlight(j)'
    BY <1>22, <1>23, <1>24, <2>1
  <2> QED
    BY <1>16, <2>1, <2>2
<1>25. ASSUME NEW k \in OpenIds, LoadConfig(k) PROVE Agreed' /\ SavesBringIt' /\ OpeningsBringIt'
  <2>1. /\ Turns(k, "loaded", opens[k].to, opens[k].save, ReadFile(opens[k].to))
        /\ configSaves' = configSaves /\ memPath' = memPath /\ file' = file /\ inode' = inode
        /\ opens[k].phase = "loading"
    BY <1>25, LoadTurns DEF LoadConfig, filesVars
  <2>2. /\ opens'[k].phase = "loaded" /\ opens'[k].to = opens[k].to /\ opens'[k].got = ReadFile(opens[k].to)
        /\ \A l \in OpenIds : l # k => ~Opening(l)'
        /\ \A j \in SaveIds : ~CallInFlight(j)'
    BY <1>22, <1>23, <1>25, <2>1
  <2>3. memPath = opens[k].to
    BY <1>4, <2>1 DEF OpeningsBringIt
  <2>4. ReadFile(opens[k].to)' = ReadFile(opens[k].to)
    BY <2>1, <2>2 DEF ReadFile
  <2> QED
    BY <2>1, <2>2, <2>3, <2>4, KeptReading
\* The opening is over: memory holds what the file says.
<1>26. ASSUME NEW k \in OpenIds, NEW g, NEW j, NEW c, Turns(k, "over", opens[k].to, j, g),
              configSaves' = configSaves, mem' = {c}, memPath' = memPath, memPath = opens[k].to,
              file' = file, inode' = inode, c.stamp = opens[k].to,
              file[opens[k].to] # 0 /\ inode[file[opens[k].to]].kind = "whole" =>
                c.agent = inode[file[opens[k].to]].config.agent,
              \A i \in SaveIds : ~CallInFlight(i), \A l \in OpenIds : l # k => ~Opening(l)
       PROVE  Agreed' /\ SavesBringIt' /\ OpeningsBringIt'
  <2>1. /\ opens'[k].phase = "over"
        /\ \A l \in OpenIds : l # k => ~Opening(l)'
        /\ \A i \in SaveIds : ~CallInFlight(i)'
    BY <1>23, <1>26
  <2>2. \A l \in OpenIds : ~Opening(l)'
    BY <2>1 DEF Opening
  <2> QED
    BY <1>26, <2>1, <2>2, KeptAtRest
<1>27. ASSUME NEW k \in OpenIds, OnHealed(k) PROVE Agreed' /\ SavesBringIt' /\ OpeningsBringIt'
  <2> DEFINE i == opens[k].save
             c == opens[k].got.config
  <2>1. /\ opens[k].phase = "healing" /\ CallEnded(i) /\ mem' = {c}
        /\ opens' = [opens EXCEPT ![k].phase = "over"]
        /\ configSaves' = configSaves /\ memPath' = memPath /\ file' = file /\ inode' = inode
    BY <1>27 DEF OnHealed, Held, filesVars
  <2>2. Turns(k, "over", opens[k].to, opens[k].save, opens[k].got)
    BY <2>1, TurnsByPhase DEF OpenPhases
  <2>3. i \in SaveIds
    BY <1>1, <2>1 DEF InTurn, OpeningsSave
  <2>4. configSaves[i].phase = "done"
    BY <1>3, <2>1, <2>3 DEF CallEnded
  <2>5. memPath = opens[k].to /\ c.stamp = opens[k].to /\ Holds(opens[k].to, c)
    BY <1>4, <2>1, <2>4 DEF OpeningsBringIt
  <2>6. inode[file[opens[k].to]].config = c
    BY <2>5 DEF Holds, Whole
  <2> QED
    BY <1>22, <1>26, <1>27, <2>1, <2>2, <2>5, <2>6
<1>28. ASSUME NEW k \in OpenIds, OnConfigLoaded(k) PROVE Agreed' /\ SavesBringIt' /\ OpeningsBringIt'
  <2> DEFINE q == opens[k].to
             got == opens[k].got
  <2>1. opens[k].phase = "loaded" /\ q \in Anyone
    BY <1>28, ConfigShapes DEF OnConfigLoaded
  <2>2. memPath = q /\ got = ReadFile(q)
    BY <1>4, <2>1 DEF OpeningsBringIt
  <2>3. q \in Projects
    BY <2>1 DEF AboutFolders
  <2>4. /\ UNCHANGED <<memPath, file, inode>>
        /\ \/ /\ got.kind # "whole" /\ mem' = {BlankFor(q)}
              /\ Turns(k, "over", q, opens[k].save, got) /\ configSaves' = configSaves
           \/ /\ got.kind = "whole" /\ got.config.stamp = q /\ mem' = {got.config}
              /\ Turns(k, "over", q, opens[k].save, got) /\ configSaves' = configSaves
           \/ \E i \in SaveIds, c \in Configs :
                /\ c.stamp = q
                /\ configSaves' = [configSaves EXCEPT ![i] = Issued("opening", q, c)]
                /\ Turns(k, "healing", q, i, Whole(c))
    BY <1>28, <2>1, LoadedWays
  <2>5. (\A i \in SaveIds : ~CallInFlight(i)) /\ \A l \in OpenIds : l # k => ~Opening(l)
    BY <1>22, <1>28
  <2>6. file[q] # 0 /\ inode[file[q]].kind = "whole" => got = inode[file[q]]
    BY <2>2 DEF ReadFile
  <2>7. CASE /\ got.kind # "whole" /\ mem' = {BlankFor(q)}
             /\ Turns(k, "over", q, opens[k].save, got) /\ configSaves' = configSaves
    <3>1. BlankFor(q).stamp = q
      BY <2>1, ConfigValues
    <3> QED
      BY <1>26, <2>2, <2>4, <2>5, <2>6, <2>7, <3>1
  <2>8. CASE /\ got.kind = "whole" /\ got.config.stamp = q /\ mem' = {got.config}
             /\ Turns(k, "over", q, opens[k].save, got) /\ configSaves' = configSaves
    BY <1>26, <2>2, <2>4, <2>5, <2>6, <2>8
  <2>9. ASSUME NEW i \in SaveIds, NEW c \in Configs, c.stamp = q,
               configSaves' = [configSaves EXCEPT ![i] = Issued("opening", q, c)],
               Turns(k, "healing", q, i, Whole(c))
        PROVE  Agreed' /\ SavesBringIt' /\ OpeningsBringIt'
    <3>1. /\ opens'[k].phase = "healing" /\ opens'[k].to = q /\ opens'[k].save = i /\ opens'[k].got = Whole(c)
          /\ \A l \in OpenIds : l # k => ~Opening(l)'
      BY <2>5, <2>9, OthersRest
    <3>2. /\ configSaves'[i].phase = "issued" /\ configSaves'[i].by = "opening"
          /\ configSaves'[i].path = q /\ configSaves'[i].config = c
          /\ \A j \in SaveIds : CallInFlight(j)' => j = i
      BY <2>5, <2>9, OneIssued
    <3>3. CallInFlight(i)'
      BY <3>2 DEF CallInFlight
    <3>4. Whole(c).config = c
      BY DEF Whole
    <3>5. \A l \in OpenIds : Opening(l)' => opens'[l].phase \in {"saving", "healing"} /\ opens'[l].save = i
      BY <3>1
    <3>6. \A l \in OpenIds : opens'[l].phase = "healing" => l = k
      BY <3>1 DEF Opening
    <3> HIDE DEF q, got
    <3>7. \A l \in OpenIds : opens'[l].phase = "healing" =>
           /\ memPath' = opens'[l].to
           /\ configSaves'[i].path = opens'[l].to /\ configSaves'[i].config = opens'[l].got.config
           /\ opens'[l].got.config.stamp = opens'[l].to
           /\ configSaves'[i].phase # "done"
      BY <2>2, <2>4, <2>9, <3>1, <3>2, <3>4, <3>6
    <3> QED
      BY <3>2, <3>3, <3>5, <3>7, KeptSaving
  <2> HIDE DEF q, got
  <2> QED
    BY <2>4, <2>7, <2>8, <2>9
<1> QED
  BY <1>10, <1>11, <1>12, <1>13, <1>14, <1>15, <1>17, <1>18, <1>20, <1>21, <1>24, <1>25, <1>27, <1>28 DEF ConfigNext

LEMMA ConfigBegin == ASSUME ConfigInit PROVE ConfigInv
<1>1. /\ Imported \subseteq Projects /\ Projects \cap ({NoProject} \cup 0 .. MaxConfigSaves) = {}
      /\ 0 \in 0 .. MaxSettings /\ 0 \in 0 .. MaxCrashes
  BY ProjectConfigConstants
<1> DEFINE o == [phase |-> "none", to |-> NoProject, save |-> 0, got |-> CutSave]
           s == [phase |-> "none", by |-> "seed", path |-> NoProject, config |-> DefaultConfig, fd |-> 0]
<1>2. /\ listedProjects = Imported /\ opened = NoProject /\ memPath = NoProject
      /\ mem = {} /\ configLoading = FALSE /\ broken = FALSE /\ steady \in BOOLEAN
      /\ opens = [k \in OpenIds |-> o] /\ seeds = {} /\ configSaves = [i \in SaveIds |-> s]
      /\ inode = [i \in ConfigInodes |-> IF i \in Projects THEN Whole(OwnConfig(i)) ELSE CutSave]
      /\ file = [p \in Projects |-> IF p \in Imported THEN p ELSE 0]
      /\ tmp = [p \in Projects |-> 0] /\ settings = 0 /\ crashes = 0
  BY DEF ConfigInit
<1>3. o \in [phase : OpenPhases, to : Anyone, save : 0 .. MaxConfigSaves, got : Content] /\ o.phase = "none"
  BY ConfigValues DEF OpenPhases
<1>4. s \in [phase : SavePhases, by : Savers, path : Anyone, config : Configs, fd : ConfigInodes]
      /\ s.phase = "none"
  BY ConfigValues DEF SavePhases, Savers
<1> HIDE DEF o, s
<1>5. inode \in [ConfigInodes -> Content]
  <2>1. \A p \in Projects : Whole(OwnConfig(p)) \in Content
    BY ConfigValues
  <2> QED
    BY <1>2, <2>1, ConfigValues
<1>6. file \in [Projects -> ConfigInodes] /\ tmp \in [Projects -> ConfigInodes]
  BY <1>1, <1>2, ConfigValues DEF ConfigInodes
<1>7. opens \in [OpenIds -> [phase : OpenPhases, to : Anyone, save : 0 .. MaxConfigSaves, got : Content]]
  BY <1>2, <1>3
<1>8. configSaves \in [SaveIds -> [phase : SavePhases, by : Savers, path : Anyone,
                                   config : Configs, fd : ConfigInodes]]
  BY <1>2, <1>4
<1>9. mem \subseteq Configs /\ Cardinality(mem) <= 1
  BY <1>2, OneHeld
<1>10. ConfigTypeOK
  <2>1. opened \in Anyone /\ memPath \in Anyone /\ listedProjects \subseteq Projects
        /\ seeds \subseteq Projects /\ configLoading \in BOOLEAN /\ broken \in BOOLEAN
    BY <1>1, <1>2, ConfigValues
  <2>2. settings \in 0 .. MaxSettings /\ crashes \in 0 .. MaxCrashes
    BY <1>1, <1>2
  <2> QED
    BY <1>2, <1>5, <1>6, <1>7, <1>8, <1>9, <2>1, <2>2 DEF ConfigTypeOK
<1>11. /\ \A k \in OpenIds : opens[k].phase = "none"
       /\ \A i \in SaveIds : configSaves[i].phase = "none"
  BY <1>2, <1>3, <1>4
<1>12. AboutFolders
  BY <1>11 DEF AboutFolders
<1>13. NamesApart
  <2>1. \A i \in SaveIds, p \in Projects : file[p] # i /\ tmp[p] # i
    BY <1>2, ConfigValues
  <2> QED
    BY <1>2, <2>1 DEF NamesApart
<1>14. InTurn
  BY <1>2, <1>11 DEF InTurn, OneOpening, OneSave, OpeningsSave, Opening, CallInFlight
<1>15. OwnTmp
  BY <1>11 DEF OwnTmp
<1>16. NeverPartial
  <2>1. \A p \in Projects : p \in ConfigInodes /\ Whole(OwnConfig(p)).kind = "whole"
    BY DEF ConfigInodes, Whole
  <2> QED
    BY <1>2, <2>1 DEF NeverPartial, AllWhole
<1>17. Kept
  BY <1>2, <1>11 DEF Kept, Agreed, SavesBringIt, OpeningsBringIt, CallInFlight
<1> QED
  BY <1>2, <1>10, <1>12, <1>13, <1>14, <1>15, <1>16, <1>17 DEF ConfigInv, LoadingHasCall

LEMMA ConfigStep == ASSUME ConfigInv, [ConfigNext]_configVars PROVE ConfigInv'
<1>1. CASE ConfigNext
  BY <1>1, ConfigTypeStep, NamesStep, LoadingStep, WholeStep, TurnStep, KeptStep DEF ConfigInv
<1>2. CASE UNCHANGED configVars
  <2>1. UNCHANGED <<listedProjects, opened, memPath, mem, configLoading, broken,
                    opens, seeds, configSaves, inode, file, tmp, settings, crashes, steady>>
    BY <1>2 DEF configVars
  <2>2. ConfigTypeOK' /\ AboutFolders' /\ NamesApart' /\ LoadingHasCall'
    BY <2>1 DEF ConfigInv, ConfigTypeOK, AboutFolders, NamesApart, LoadingHasCall
  <2>3. InTurn' /\ OwnTmp' /\ NeverPartial'
    BY <2>1 DEF ConfigInv, InTurn, OneOpening, OneSave, OpeningsSave, Opening, CallInFlight,
                OwnTmp, NeverPartial, AllWhole
  <2>4. Kept'
    BY <2>1 DEF ConfigInv, Kept, Failed, Agreed, SavesBringIt, OpeningsBringIt, Told, Holds, ReadFile,
                Opening, CallInFlight
  <2> QED
    BY <2>2, <2>3, <2>4 DEF ConfigInv
<1> QED
  BY <1>1, <1>2

LEMMA ConfigHolds == ASSUME ConfigInv PROVE ConfigSafe
<1>1. NothingLost
  <2> SUFFICES ASSUME steady, Idle, ~Failed, memPath # NoProject, file[memPath] # 0,
                      inode[file[memPath]].kind = "whole", NEW c \in mem
               PROVE  c.stamp = memPath /\ c.agent = inode[file[memPath]].config.agent
    BY DEF NothingLost
  <2>1. Told(memPath, c)
    BY DEF ConfigInv, Kept, Agreed, Idle
  <2> QED
    BY <2>1 DEF Told
<1> QED
  BY <1>1 DEF ConfigInv, ConfigSafe

-----------------------------------------------------------------------------
(* All of them, side by side.                                              *)

KeptInv == DownloadsInv /\ SearchInv /\ ServersInv /\ SandboxInv /\ FilesInv /\ ConfigInv

LEMMA KeptMoves ==
  ASSUME [KeptNext]_keptVars
  PROVE  /\ [FilesNext]_fileVars /\ [SandboxNext]_sandboxVars /\ [ConfigNext]_configVars
         /\ [DownloadsNext]_downloadVars /\ [SearchNext]_searchVars /\ [ServersNext]_serverVars
BY DEF KeptNext, keptVars, Only

LEMMA KeptBegins == KeptInit => KeptInv
<1> SUFFICES ASSUME KeptInit PROVE KeptInv
  OBVIOUS
<1>1. /\ FilesInit /\ SandboxInit /\ ConfigInit /\ DownloadsInit /\ SearchInit /\ ServersInit
  BY DEF KeptInit
<1> QED
  BY <1>1, FilesBegin, SandboxBegins, ConfigBegin, DownloadsBegin, SearchBegins, ServersBegin
     DEF KeptInv

LEMMA KeptMovesOn == KeptInv /\ [KeptNext]_keptVars => KeptInv'
<1> SUFFICES ASSUME KeptInv, [KeptNext]_keptVars PROVE KeptInv'
  OBVIOUS
<1>1. DownloadsInv /\ SearchInv /\ ServersInv /\ SandboxInv /\ FilesInv /\ ConfigInv
  BY DEF KeptInv
<1>2. /\ [FilesNext]_fileVars /\ [SandboxNext]_sandboxVars /\ [ConfigNext]_configVars
      /\ [DownloadsNext]_downloadVars /\ [SearchNext]_searchVars /\ [ServersNext]_serverVars
  BY KeptMoves
<1>3. DownloadsInv' /\ SearchInv' /\ ServersInv'
  BY <1>1, <1>2, DownloadsStep, SearchStep, ServersStep
<1>4. SandboxInv' /\ FilesInv' /\ ConfigInv'
  BY <1>1, <1>2, SandboxStep, FilesStep, ConfigStep
<1> QED
  BY <1>3, <1>4 DEF KeptInv

\* What holds of every one of them, in any order of their steps.
LEMMA KeptAlways == KeptSpec => []KeptInv
BY KeptBegins, KeptMovesOn, PTL DEF KeptSpec

\* Every variable of the six components stays within its type, whatever the
\* numbers of files' versions, folders, projects, downloads, models and servers
\* and the bounds on what happens to them.
THEOREM FilesTypeCorrect == KeptSpec => []KeptTypeOK
<1>1. KeptInv => KeptTypeOK
  BY DEF KeptInv, KeptTypeOK, DownloadsInv, SearchInv, ServersInv, SandboxInv, FilesInv, ConfigInv
<1> QED
  BY <1>1, KeptAlways, PTL

\* Once the news of a file has arrived, a pane without unsaved text shows what
\* is on disk and one with unsaved text has told of the version there, if the
\* user waits for loads and saves and no other's write crosses them; at rest
\* the boundary is the project in view, unless a move of it failed or was
\* overtaken; and what an edit changed can be undone from the checkpoint taken
\* for it (use-file-buffer.ts, files.rs, sandbox.rs, AppShell.tsx).
THEOREM FilesAreSafe == KeptSpec => []FilesSafe
<1>1. KeptInv => FilesSafe
  BY NothingStale, BoundaryHolds DEF KeptInv, FilesSafe
<1> QED
  BY <1>1, KeptAlways, PTL

\* Unless the user is hasty, what was typed leaves the editor only when it is
\* in a file or when the user takes the version of the disk instead.
THEOREM TypedIsNotLost == KeptSpec => TypedSurvives
<1>1. KeptInv /\ [KeptNext]_keptVars
        => [~hasty =>
              \A t \in Typings : t \in pane.value /\ t \notin pane.value' =>
                t \in written \/ pane.value' = pane.conflict.text]_fileVars
  <2> SUFFICES ASSUME FilesInv, FilesNext, ~hasty, NEW t \in Typings,
                      t \in pane.value, t \notin pane.value'
               PROVE  t \in written \/ pane.value' = pane.conflict.text
    BY KeptMoves DEF KeptInv
  <2> QED
    BY TypedTextSurvives
<1> QED
  BY <1>1, KeptAlways, PTL DEF KeptSpec, TypedSurvives

\* For any projects, settings, failures of save_config and ends of the program,
\* and a user who waits: the file of a project is never partial, memory and file
\* agree about the project that is open once all is over, and the pane waits
\* only for a call that is under way (project_config.rs,
\* use-project-config-store.ts, AppShell.tsx).
THEOREM ConfigsAreSafe == KeptSpec => []ConfigSafe
<1>1. KeptInv => ConfigSafe
  BY ConfigHolds DEF KeptInv
<1> QED
  BY <1>1, KeptAlways, PTL

\* Downloads that are cancelled, begun again or cut off leave no part of a file
\* that nobody finishes and, unless they overlap, none that looks complete; a
\* facet of the search keeps what it promises; and the registry of tools follows
\* the list of servers, unless calls on one of them cross (models.rs,
\* use-model-browser-store.ts, mcp.rs, use-mcp-store.ts).
THEOREM ModelsAreWhole == KeptSpec => []ModelsSafe
<1>1. KeptInv => ModelsSafe
  BY ServersHold DEF KeptInv, ModelsSafe, DownloadsInv, SearchInv
<1> QED
  BY <1>1, KeptAlways, PTL

\* An author or a quantisation that the search offers as a facet, once picked,
\* leaves at least one model in view.
THEOREM PicksNeverDeadEnd == KeptSpec => PickNeverDeadEnds
<1>1. [KeptNext]_keptVars
        => [ /\ Visible # {} /\ UNCHANGED results
             /\ \/ authors' # authors /\ authors \subseteq authors'
                \/ quants' # quants /\ quants \subseteq quants'
             => Visible' # {} ]_searchVars
  BY KeptMoves, PickStep DEF PickStands
<1> QED
  BY <1>1, PTL DEF KeptSpec, PickNeverDeadEnds
=============================================================================
