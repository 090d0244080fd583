----------------------------- MODULE ChatHistory -----------------------------
(***************************************************************************)
(* The conversations: use-messages-store.ts, the sessions of a project in  *)
(* use-projects-store.ts, and the subscription that keeps the messages on  *)
(* screen in step with the session in view.                                *)
(*                                                                         *)
(* Runs write into the session they were begun in, whatever the user looks *)
(* at; sessions are begun, opened and deleted meanwhile.  The archive is   *)
(* written some time after it changes, the list and the selection at once  *)
(* but in two calls, and at the next launch all of it is read back while   *)
(* the user already acts.                                                  *)
(***************************************************************************)
EXTENDS Naturals, FiniteSets, Sequences, SequencesExt

CONSTANTS
  Sessions,    \* ids of sessions
  NoSession,   \* null
  MaxMessages, \* bound: messages ever added
  MaxGestures, \* bound: what the user does to sessions
  MaxSaves,    \* bound: calls that write the list or the selection, under way
  MaxLaunches  \* bound: launches of the app

ASSUME HistoryConstants ==
  /\ NoSession \notin Sessions /\ {MaxMessages, MaxGestures, MaxSaves} \subseteq Nat
  /\ MaxLaunches \in Nat \ {0}

VARIABLES
  project,  \* TRUE while the project is in the list
  sessions, \* its sessions
  active,   \* activeSessionId
  chat,     \* the messages store: currentSessionId, messages, sessionMessages
  runs,     \* sessions with a run, NoSession for one begun in none
  boot,     \* what has been restored: "off", "list read", "list", "archive read", "up"
  found,    \* what was read from the disk and is not installed yet
  disk,     \* aka-projects.json and aka-session-messages.json
  saves,    \* writes of the list and the selection, under way
  timer,    \* TRUE while a write of the archive is due
  writing,  \* the archive being written
  sent,     \* messages ever added
  gestures, launches,
  made,     \* sessions ever begun
  early,    \* history: the user acted before all was restored
  haunted   \* history: sessions deleted while a run wrote into them, or in the
            \* archive on disk but not in the list when the app ended

historyVars == <<project, sessions, active, chat, runs, boot, found, disk, saves, timer,
                 writing, sent, gestures, launches, made, early, haunted>>
chatSide == <<chat, runs, sent, timer>>
diskSide == <<boot, found, disk, writing, launches>>

Places == Sessions \cup {NoSession}
Empty == [s \in {} |-> <<>>]  \* no archive
Message == [id : 1 .. MaxMessages, owner : Places, live : BOOLEAN]
IsArchive(a) == DOMAIN a \subseteq Sessions /\ \A s \in DOMAIN a : a[s] \in Seq(Message)
Saves == [parts : SUBSET {"list", "active"}, project : BOOLEAN, sessions : SUBSET Sessions,
          active : Places]
Nothing == [project |-> FALSE, sessions |-> {}, active |-> NoSession, archive |-> Empty]

HistoryTypeOK ==
  /\ project \in BOOLEAN /\ sessions \subseteq Sessions /\ active \in Places
  /\ chat.cur \in Places /\ chat.visible \in Seq(Message) /\ IsArchive(chat.bucket)
  /\ runs \subseteq Places
  /\ boot \in {"off", "list read", "list", "archive read", "up"}
  /\ \A d \in {found, disk} : /\ d.project \in BOOLEAN /\ d.sessions \subseteq Sessions
                              /\ d.active \in Places /\ IsArchive(d.archive)
  /\ saves \in Seq(Saves) /\ Len(saves) <= MaxSaves
  /\ Len(writing) <= 1 /\ \A i \in DOMAIN writing : IsArchive(writing[i])
  /\ timer \in BOOLEAN /\ sent \in 0 .. MaxMessages /\ gestures \in 0 .. MaxGestures
  /\ launches \in 1 .. MaxLaunches /\ made \subseteq Sessions
  /\ early \in BOOLEAN /\ haunted \subseteq Sessions

HistoryInit ==
  /\ project = FALSE /\ sessions = {} /\ active = NoSession
  /\ chat = [cur |-> NoSession, visible |-> <<>>, bucket |-> Empty]
  /\ runs = {} /\ boot = "off" /\ found = Nothing /\ disk = Nothing
  /\ saves = <<>> /\ timer = FALSE /\ writing = <<>> /\ sent = 0
  /\ gestures = 0 /\ launches = 1 /\ made = {} /\ early = FALSE /\ haunted = {}

-----------------------------------------------------------------------------
(* The messages store.                                                     *)

With(bucket, s, msgs) ==
  [x \in DOMAIN bucket \cup {s} |-> IF x = s THEN msgs ELSE bucket[x]]
Without(bucket, gone) == [x \in DOMAIN bucket \ gone |-> bucket[x]]
Archived(c, s) == IF s \in DOMAIN c.bucket THEN c.bucket[s] ELSE <<>>

\* Which session a mutation is for; the slip takes the one in view.
TargetInView(c, s) == c.cur
Target(c, s) == s

\* applyToSession: the list a mutation of session s is made to, and where the
\* mutated list goes.
ListOf(c, s) == IF s \in {c.cur, NoSession} THEN c.visible ELSE Archived(c, s)
ApplyToSession(c, s, next) ==
  [cur |-> c.cur, visible |-> IF s = c.cur THEN next ELSE c.visible,
   bucket |-> IF s = NoSession THEN c.bucket ELSE With(c.bucket, s, next)]

Settled(m) == [m EXCEPT !.live = FALSE]
SettleAll(msgs) == [i \in DOMAIN msgs |-> Settled(msgs[i])]
BeforeAnswer(msgs, m) ==
  IF msgs = <<>> THEN <<m>> ELSE InsertAt(msgs, Len(msgs), m)

\* What was typed in no session becomes part of the next one; the slip puts it
\* in the place of what that one has.
AdoptedOver(c, s) == With(c.bucket, s, c.visible)
Adopted(c, s) == With(c.bucket, s, Archived(c, s) \o c.visible)

LoadSession(c, s) ==
  LET archived ==
        IF c.cur # NoSession THEN With(c.bucket, c.cur, c.visible)
        ELSE IF s # NoSession /\ c.visible # <<>> THEN Adopted(c, s)
        ELSE c.bucket
  IN [cur |-> s, bucket |-> archived,
      visible |-> IF s \in DOMAIN archived THEN archived[s] ELSE <<>>]

\* forgetSession, of each session in gone.
ForgetSessions(c, gone) ==
  [cur |-> IF c.cur \in gone THEN NoSession ELSE c.cur,
   visible |-> IF c.cur \in gone THEN <<>> ELSE c.visible,
   bucket |-> Without(c.bucket, gone)]

\* schedulePersist; the slip schedules nothing during a write.
SchedulePersistIdle == timer' = (timer \/ (boot = "up" /\ writing = <<>>))
SchedulePersist == timer' = (timer \/ boot = "up")

\* The subscription to the selection.
InStep(c, to) == IF to = active THEN c ELSE LoadSession(c, to)

-----------------------------------------------------------------------------
(* Runs.                                                                   *)

New(owner, live) == [id |-> sent + 1, owner |-> owner, live |-> live]

\* A message and the placeholder of its answer, here one, and the run.
SubmitMessage ==
  /\ project /\ chat.cur \notin runs /\ sent < MaxMessages
  /\ sent' = sent + 1
  /\ chat' = ApplyToSession(chat, chat.cur, Append(ListOf(chat, chat.cur), New(chat.cur, TRUE)))
  /\ runs' = runs \cup {chat.cur}
  /\ SchedulePersist /\ early' = (early \/ boot # "up")
  /\ UNCHANGED <<project, sessions, active, diskSide, saves, gestures, made, haunted>>

\* A row of the run's work, above the answer.
RunAdds(s) ==
  /\ s \in runs /\ sent < MaxMessages /\ sent' = sent + 1
  /\ LET t == Target(chat, s)
     IN chat' = ApplyToSession(chat, t, BeforeAnswer(ListOf(chat, t), New(s, TRUE)))
  /\ SchedulePersist
  /\ UNCHANGED <<project, sessions, active, runs, diskSide, saves, gestures, made, early, haunted>>

\* The answer is finalised and closeRunningTools called.
RunEnds(s) ==
  /\ s \in runs /\ runs' = runs \ {s}
  /\ LET t == Target(chat, s)
     IN chat' = ApplyToSession(chat, t, SettleAll(ListOf(chat, t)))
  /\ SchedulePersist
  /\ UNCHANGED <<project, sessions, active, sent, diskSide, saves, gestures, made, early, haunted>>

-----------------------------------------------------------------------------
(* The user and the sessions.                                              *)

\* What is awaited in turn: persist(projects), then persistActiveIds; or only
\* the latter.
Save(parts, p, ss, a) ==
  /\ Len(saves) < MaxSaves
  /\ saves' = Append(saves, [parts |-> parts, project |-> p, sessions |-> ss, active |-> a])

Gesture ==
  /\ gestures < MaxGestures /\ gestures' = gestures + 1
  /\ early' = (early \/ boot # "up")
  /\ UNCHANGED <<runs, sent, diskSide>>

\* addProject and startNewSession: the new session is selected with it.
StartNewSession(s) ==
  /\ s \notin made /\ made' = made \cup {s}
  /\ project' = TRUE /\ sessions' = sessions \cup {s}
  /\ active' = s /\ chat' = InStep(chat, s)
  /\ Save({"list", "active"}, TRUE, sessions', s)
  /\ SchedulePersist /\ Gesture /\ UNCHANGED haunted

ActivateSession(s) ==
  /\ s \in sessions \ {active}
  /\ active' = s /\ chat' = InStep(chat, s)
  /\ Save({"active"}, project, sessions, s)
  /\ SchedulePersist /\ Gesture /\ UNCHANGED <<project, sessions, made, haunted>>

\* confirm: deleteSession up to its first await, then forgetSession.
DeleteSession(s) ==
  /\ s \in sessions
  /\ sessions' = sessions \ {s}
  /\ active' = IF active = s THEN NoSession ELSE active
  /\ chat' = ForgetSessions(InStep(chat, active'), {s})
  /\ haunted' = haunted \cup ({s} \cap runs)
  /\ Save({"list", "active"}, project, sessions', active')
  /\ SchedulePersist /\ Gesture /\ UNCHANGED <<project, made>>

\* doDelete: forgetSession for each session, then removeProject.
RemoveProject ==
  /\ project /\ project' = FALSE /\ sessions' = {} /\ active' = NoSession
  /\ chat' = InStep(ForgetSessions(chat, sessions), NoSession)
  /\ haunted' = haunted \cup (sessions \cap runs)
  /\ Save({"list", "active"}, FALSE, {}, NoSession)
  /\ SchedulePersist /\ Gesture /\ UNCHANGED made

-----------------------------------------------------------------------------
(* The disk.                                                               *)

\* The next part of a save lands: the list before the selection.
LandSave(i) ==
  /\ i \in DOMAIN saves
  /\ LET w == saves[i]
         part == IF "list" \in w.parts THEN "list" ELSE "active" IN
       /\ disk' = IF part = "list"
                  THEN [disk EXCEPT !.project = w.project, !.sessions = w.sessions]
                  ELSE [disk EXCEPT !.active = w.active]
       /\ saves' = IF w.parts = {part} THEN RemoveAt(saves, i)
                   ELSE [saves EXCEPT ![i].parts = @ \ {part}]
  /\ UNCHANGED <<project, sessions, active, chatSide, boot, found, writing, gestures,
                 launches, made, early, haunted>>

\* The timer: what is written is the archive as it is when the timer fires.
\* A write is over before the next one is due.
PersistTimer ==
  /\ timer /\ writing = <<>>
  /\ timer' = FALSE /\ writing' = <<chat.bucket>>
  /\ UNCHANGED <<project, sessions, active, chat, runs, sent, boot, found, disk, saves,
                 gestures, launches, made, early, haunted>>

SnapshotLands ==
  /\ writing # <<>>
  /\ disk' = [disk EXCEPT !.archive = writing[1]] /\ writing' = <<>>
  /\ UNCHANGED <<project, sessions, active, chatSide, boot, found, saves, gestures,
                 launches, made, early, haunted>>

\* The app ends, or its page is reloaded.
AppEnds ==
  /\ launches < MaxLaunches /\ launches' = launches + 1
  /\ project' = FALSE /\ sessions' = {} /\ active' = NoSession
  /\ chat' = [cur |-> NoSession, visible |-> <<>>, bucket |-> Empty]
  /\ runs' = {} /\ boot' = "off" /\ found' = Nothing
  /\ saves' = <<>> /\ timer' = FALSE /\ writing' = <<>>
  /\ haunted' = haunted \cup (DOMAIN disk.archive \ disk.sessions)
  /\ UNCHANGED <<disk, sent, gestures, made, early>>

-----------------------------------------------------------------------------
(* The launch.                                                             *)

\* A message that was live has no run any more.
Scrub(archive) == [s \in DOMAIN archive |-> SettleAll(archive[s])]

ReadList ==
  /\ boot = "off" /\ boot' = "list read" /\ found' = disk
  /\ UNCHANGED <<project, sessions, active, chatSide, disk, saves, writing, gestures,
                 launches, made, early, haunted>>

\* init of the projects: an empty list restores nothing, nor does a selection
\* that is not in the list.
InstallList ==
  /\ boot = "list read" /\ boot' = "list"
  /\ project' = (found.project \/ project)
  /\ sessions' = IF found.project THEN found.sessions ELSE sessions
  /\ active' = IF found.active \in sessions' THEN found.active ELSE active
  /\ chat' = InStep(chat, active')
  /\ UNCHANGED <<runs, sent, timer, found, disk, saves, writing, gestures, launches,
                 made, early, haunted>>

ReadArchive ==
  /\ boot = "list" /\ boot' = "archive read" /\ found' = disk
  /\ UNCHANGED <<project, sessions, active, chatSide, disk, saves, writing, gestures,
                 launches, made, early, haunted>>

\* init of the messages.
InstallArchive ==
  /\ boot = "archive read" /\ boot' = "up"
  /\ LET archive == Scrub(found.archive) IN
       chat' = IF archive = Empty THEN chat
               ELSE [cur |-> chat.cur, bucket |-> archive,
                     visible |-> IF chat.cur \in DOMAIN archive THEN archive[chat.cur]
                                 ELSE chat.visible]
  /\ UNCHANGED <<project, sessions, active, runs, sent, timer, found, disk, saves, writing,
                 gestures, launches, made, early, haunted>>

Boot == ReadList \/ InstallList \/ ReadArchive \/ InstallArchive

HistoryNext ==
  \/ SubmitMessage \/ RemoveProject \/ PersistTimer \/ SnapshotLands \/ AppEnds \/ Boot
  \/ \E s \in Sessions : StartNewSession(s) \/ ActivateSession(s) \/ DeleteSession(s)
  \/ \E s \in Places : RunAdds(s) \/ RunEnds(s)
  \/ \E i \in 1 .. MaxSaves : LandSave(i)

HistoryFairness == WF_historyVars(PersistTimer) /\ WF_historyVars(SnapshotLands)

HistorySpec == HistoryInit /\ [][HistoryNext]_historyVars /\ HistoryFairness

-----------------------------------------------------------------------------
(* Properties.                                                             *)

Holders == {chat.visible} \cup {chat.bucket[s] : s \in DOMAIN chat.bucket}
Ids(msgs) == {msgs[i].id : i \in DOMAIN msgs}

\* What is on screen is what the archive keeps for the session in view, so that
\* neither a switch nor a save loses what the other has.
Mirror == chat.cur \in DOMAIN chat.bucket => chat.visible = chat.bucket[chat.cur]

\* A session holds what was sent or answered in it, and what was typed before
\* there was a session: a run in the background never lands in the view
\* (the promise of applyToSession).
OwnMessages ==
  \A s \in DOMAIN chat.bucket : \A i \in DOMAIN chat.bucket[s] :
    chat.bucket[s][i].owner \in {s, NoSession}

\* A message that pulses has a run that will settle it, also after a restart.
\* Of what was typed in no session this is not said: a run keyed by no session
\* writes nowhere once its messages have been adopted.
LiveHasRun ==
  \A msgs \in Holders : \A i \in DOMAIN msgs :
    msgs[i].live => msgs[i].owner \in runs \cup {NoSession}

\* No message is kept twice.
KeptOnce == \A msgs \in Holders : Cardinality(Ids(msgs)) = Len(msgs)

\* The archive has no session the user deleted, as long as no run was writing
\* into it and the app did not end with the two files apart.
DeletedIsForgotten ==
  ~early => \A s \in DOMAIN chat.bucket \ sessions : s \in haunted

\* The session in view is one of the list, and the one whose messages are loaded.
ViewFollows == ~early /\ boot \in {"list", "archive read", "up"} =>
  /\ active \in sessions \cup {NoSession}
  /\ chat.cur = active

HistorySafe == Mirror /\ OwnMessages /\ LiveHasRun /\ KeptOnce /\ DeletedIsForgotten
               /\ ViewFollows

\* No step takes a message from a session that stays in the list, once all is
\* restored and while the app runs.
NoMessageLost ==
  [][boot = "up" /\ boot' = "up" =>
       \A s \in (sessions \cap sessions') \cap DOMAIN chat.bucket :
         s \in DOMAIN chat'.bucket /\ Ids(chat.bucket[s]) \subseteq Ids(chat'.bucket[s])]_historyVars

\* What the archive keeps is on disk again and again, if the app goes on: the
\* same messages in the same sessions.
Kept(archive) == {<<s, Ids(archive[s])>> : s \in {x \in DOMAIN archive : archive[x] # <<>>}}
ArchiveCatchesUp == []<>(early \/ boot # "up" \/ Kept(disk.archive) = Kept(chat.bucket))
=============================================================================
