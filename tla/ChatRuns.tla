----------------------------- MODULE ChatRuns ------------------------------
(***************************************************************************)
(* The chat store's bookkeeping of runs (src/stores/use-chat-store.ts):    *)
(* the per-session generation, the map of sessions shown as running, the   *)
(* set of cancelled sessions, and the asynchronous handler of each submit, *)
(* in Execute mode with an external agent.                                 *)
(*                                                                         *)
(* JavaScript runs one callback at a time, so an action is what happens    *)
(* between two awaits.  A handler is named <<session, generation>>: the    *)
(* generation it claimed in submit.  What the backend does between two     *)
(* awaits, and the channel of its events, are in AgentRunner; AgentRun     *)
(* puts the two together.                                                  *)
(***************************************************************************)
EXTENDS RunIds

CONSTANT
  NoSession   \* no session is on screen

ASSUME NoSessionAssumption == NoSession \notin Sessions

VARIABLES
  view,       \* the session on screen
  deleted,    \* sessions the user deleted
  gen,        \* sessionGen, 0 when absent
  shown,      \* the keys of `runs`: sessions shown as working
  entry,      \* the values of `runs`
  cancelled,  \* cancelledRuns
  remembered, \* sessions that answer the agents' prompt by themselves
  msg,        \* each handler's placeholder message
  toolRows,   \* handlers with a tool row still marked running
  hpc,        \* where each handler is suspended
  restart,    \* sessions with a restart under way, and where it is
  calls       \* commands invoked and not yet served by the backend

chatVars == <<view, deleted, gen, shown, entry, cancelled, remembered, msg,
              toolRows, hpc, restart, calls>>

\* placeholder and question name the handler, and the invocation, they are of.
Entry == [placeholder : 0 .. MaxGen, question : 0 .. MaxGen, paused : BOOLEAN]
FreshEntry == [placeholder |-> 0, question |-> 0, paused |-> FALSE]

Bodies == {"empty", "text", "[stopped]", "[abandoned]", "[cancelled]"}
Message == [state : {"none", "pending", "settled"}, body : Bodies, error : BOOLEAN]
NoMessage == [state |-> "none", body |-> "empty", error |-> FALSE]

\* "attach": materializing attachments.  "listen": attaching listeners and
\* completing the config.  "running": awaiting runAgent.  "diff": awaiting
\* runFileChanges in the finally block.
HandlerStates == {"none", "attach", "listen", "running", "diff", "done"}
Commands == {"stop", "answer", "pause", "resume"}
Call == Commands \X Sessions \X (0 .. MaxGen)

ChatTypeOK ==
  /\ view \in Sessions \cup {NoSession}
  /\ deleted \in SUBSET Sessions
  /\ gen \in [Sessions -> 0 .. MaxGen]
  /\ shown \in SUBSET Sessions
  /\ entry \in [Sessions -> Entry]
  /\ cancelled \in SUBSET Sessions
  /\ remembered \in SUBSET Sessions
  /\ msg \in [Run -> Message]
  /\ toolRows \in SUBSET Run
  /\ hpc \in [Run -> HandlerStates]
  /\ restart \in [Sessions -> {"no", "rollback", "resubmit"}]
  /\ calls \in SUBSET Call

ChatInit ==
  /\ view \in Sessions
  /\ deleted = {}
  /\ gen = [s \in Sessions |-> 0]
  /\ shown = {}
  /\ entry = [s \in Sessions |-> FreshEntry]
  /\ cancelled = {}
  /\ remembered = {}
  /\ msg = [h \in Run |-> NoMessage]
  /\ toolRows = {}
  /\ hpc = [h \in Run |-> "none"]
  /\ restart = [s \in Sessions |-> "no"]
  /\ calls = {}

Current(h) == gen[h[1]] = h[2]
Active(h) == hpc[h] \notin {"none", "done"}

\* The handler whose listeners take an event of session s: every other one is
\* detached, or returns because its generation has moved on.
Listener(s) == <<s, gen[s]>>
Attaching(s) == gen[s] # 0 /\ hpc[Listener(s)] = "listen"
Listening(s) == gen[s] # 0 /\ hpc[Listener(s)] \in {"listen", "running", "diff"}

\* A slip: the message is settled and stays blank.
FinalizedBlank(m, reason) == IF m.state = "none" THEN m ELSE [m EXCEPT !.state = "settled"]

\* finalizePlaceholder: an existing message that is pending or empty stops
\* being pending, and says why when it is empty.
Finalized(m, reason) ==
  IF m.state = "none" THEN m
  ELSE [state |-> "settled", error |-> m.error,
        body |-> IF m.body = "empty" THEN reason ELSE m.body]

\* closeRunningTools: every running row of the session, whoever owns it.
RowsLeft(s) == {h \in toolRows : h[1] # s}

-----------------------------------------------------------------------------
(* What the user does.                                                     *)

Navigate(s) ==
  /\ s \notin deleted /\ s # view
  /\ view' = s
  /\ UNCHANGED <<deleted, gen, shown, entry, cancelled, remembered, msg,
                 toolRows, hpc, restart, calls>>

\* The body of submit from its guard on.  One generation is kept back so that
\* every run of the model can be stopped.
MaySubmit == view # NoSession /\ view \notin shown
Room(s) == gen[s] + 1 < MaxGen

Claim(s) ==
  /\ gen' = [gen EXCEPT ![s] = @ + 1]
  /\ shown' = shown \cup {s}
  /\ entry' = [entry EXCEPT ![s] = FreshEntry]
  /\ hpc' = [hpc EXCEPT ![<<s, gen[s] + 1>>] = "attach"]

Submit ==
  /\ MaySubmit /\ Room(view)
  /\ Claim(view)
  /\ UNCHANGED <<view, deleted, cancelled, remembered, msg, toolRows, restart, calls>>

\* Without a project the run is cleared in the same callback.
SubmitWithoutProject ==
  /\ MaySubmit /\ Room(view)
  /\ gen' = [gen EXCEPT ![view] = @ + 1]
  /\ UNCHANGED <<view, deleted, shown, entry, cancelled, remembered, msg,
                 toolRows, hpc, restart, calls>>

\* stop: move the generation, flag the session, drop it from `runs`, finalize
\* the placeholder, close its tool rows, and invoke stop_agent unawaited.
StopRun(s) ==
  /\ gen[s] < MaxGen
  /\ gen' = [gen EXCEPT ![s] = @ + 1]
  /\ cancelled' = cancelled \cup {s}
  /\ shown' = shown \ {s}
  /\ entry' = [entry EXCEPT ![s] = FreshEntry]
  /\ msg' = [h \in Run |->
               IF h = <<s, entry[s].placeholder>> THEN Finalized(msg[h], "[stopped]")
                                                  ELSE msg[h]]
  /\ toolRows' = RowsLeft(s)
  /\ calls' = calls \cup {<<"stop", s, gen[s]>>}

Stop(s) ==
  /\ s \in shown /\ s \notin deleted
  /\ StopRun(s)
  /\ UNCHANGED <<view, deleted, remembered, hpc, restart>>

\* restart: needs a task already handed to an agent and the session in view;
\* stops a run in flight and awaits the rollback.  One restart of a session
\* at a time.
HasTask(s) == \E g \in Gens : hpc[<<s, g>>] \notin {"none", "attach"}

Restart(s) ==
  /\ s = view /\ HasTask(s) /\ restart[s] = "no"
  /\ restart' = [restart EXCEPT ![s] = "rollback"]
  /\ IF s \in shown
       THEN StopRun(s)
       ELSE UNCHANGED <<gen, cancelled, shown, entry, msg, toolRows, calls>>
  /\ UNCHANGED <<view, deleted, remembered, hpc>>

\* The backend has restored the working tree (or there was nothing to restore).
RolledBack(s) ==
  /\ restart[s] = "rollback"
  /\ restart' = [restart EXCEPT ![s] = "resubmit"]
  /\ UNCHANGED <<view, deleted, gen, shown, entry, cancelled, remembered, msg,
                 toolRows, hpc, calls>>

\* restore_checkpoint rejected: restart goes no further.
RollbackFails(s) ==
  /\ restart[s] = "rollback"
  /\ restart' = [restart EXCEPT ![s] = "no"]
  /\ UNCHANGED <<view, deleted, gen, shown, entry, cancelled, remembered, msg,
                 toolRows, hpc, calls>>

\* The continuation of restart calls submit, which goes to the session that is
\* on screen by now and does nothing when that one is running.
Resubmit(s) ==
  /\ restart[s] = "resubmit"
  /\ restart' = [restart EXCEPT ![s] = "no"]
  /\ IF MaySubmit
       THEN Room(view) /\ Claim(view)
       ELSE UNCHANGED <<gen, shown, entry, hpc>>
  /\ UNCHANGED <<view, deleted, cancelled, remembered, msg, toolRows, calls>>

\* answerQuestion from the session's card.
Answer(s, remember) ==
  /\ s \in shown /\ s \notin deleted /\ entry[s].question # 0
  /\ calls' = calls \cup {<<"answer", s, gen[s]>>}
  /\ remembered' = IF remember THEN remembered \cup {s} ELSE remembered
  /\ entry' = [entry EXCEPT ![s].question = 0]
  /\ UNCHANGED <<view, deleted, gen, shown, cancelled, msg, toolRows, hpc, restart>>

\* pause and resume invoke the backend; its state event changes the entry.
Signal(s, command) ==
  /\ s \in shown /\ s \notin deleted
  /\ entry[s].paused = (command = "resume")
  /\ calls' = calls \cup {<<command, s, gen[s]>>}
  /\ UNCHANGED <<view, deleted, gen, shown, entry, cancelled, remembered, msg,
                 toolRows, hpc, restart>>

\* deleteSession and forgetSession: the messages and every module-level map
\* entry of the session go, its entry of `runs` stays.
Delete(s) ==
  /\ s \notin deleted
  /\ deleted' = deleted \cup {s}
  /\ view' = IF view = s THEN NoSession ELSE view
  /\ gen' = [gen EXCEPT ![s] = 0]
  /\ cancelled' = cancelled \ {s}
  /\ remembered' = remembered \ {s}
  /\ msg' = [h \in Run |-> IF h[1] = s THEN NoMessage ELSE msg[h]]
  /\ toolRows' = RowsLeft(s)
  /\ UNCHANGED <<shown, entry, hpc, restart, calls>>

-----------------------------------------------------------------------------
(* The handler of one submit.                                              *)

\* Attachments are materialized: add the placeholder and point the session's
\* entry at it, without looking at the generation.
Attached(h) ==
  /\ hpc[h] = "attach"
  /\ hpc' = [hpc EXCEPT ![h] = "listen"]
  /\ msg' = [msg EXCEPT ![h] = [NoMessage EXCEPT !.state = "pending"]]
  /\ entry' = IF h[1] \in shown
                THEN [entry EXCEPT ![h[1]].placeholder = h[2]]
                ELSE entry
  /\ UNCHANGED <<view, deleted, gen, shown, cancelled, remembered, toolRows,
                 restart, calls>>

\* Listeners are attached: invoke runAgent, again whatever the generation.
Invoke(h) ==
  /\ hpc[h] = "listen"
  /\ hpc' = [hpc EXCEPT ![h] = "running"]
  /\ UNCHANGED <<view, deleted, gen, shown, entry, cancelled, remembered, msg,
                 toolRows, restart, calls>>

\* detach clears the session's question, its pointer to this placeholder, and
\* every running tool row of the session; none of it looks at the generation.
Detached(e, h) == [placeholder |-> IF e.placeholder = h[2] THEN 0 ELSE e.placeholder,
                   question |-> 0, paused |-> e.paused]
DetachedEntry(h) ==
  IF h[1] \in shown THEN [entry EXCEPT ![h[1]] = Detached(@, h)] ELSE entry

\* A slip: the outcome is rendered without a look at the generation.
RenderedStale(h, ok) ==
  CASE ok -> msg[h]
    [] ~ok /\ h[1] \in cancelled -> [msg[h] EXCEPT !.body = "[cancelled]"]
    [] ~ok /\ h[1] \notin cancelled -> [msg[h] EXCEPT !.error = TRUE]

\* runAgent has settled: the catch block, and the finally block down to its
\* await.  A handler whose generation has moved on detaches instead of
\* rendering an outcome.
Rendered(h, ok) ==
  CASE ~Current(h) -> Finalized(msg[h], "[abandoned]")
    [] Current(h) /\ ok -> msg[h]
    [] Current(h) /\ ~ok /\ h[1] \in cancelled -> [msg[h] EXCEPT !.body = "[cancelled]"]
    [] Current(h) /\ ~ok /\ h[1] \notin cancelled -> [msg[h] EXCEPT !.error = TRUE]

Settled(m) == IF m.state = "none" THEN NoMessage ELSE [m EXCEPT !.state = "settled"]

Settle(h, ok) ==
  /\ hpc[h] = "running"
  /\ hpc' = [hpc EXCEPT ![h] = "diff"]
  /\ msg' = [msg EXCEPT ![h] = Settled(Rendered(h, ok))]
  /\ toolRows' = IF Current(h) THEN toolRows \ {h} ELSE RowsLeft(h[1])
  /\ entry' = IF Current(h) THEN entry ELSE DetachedEntry(h)
  /\ UNCHANGED <<view, deleted, gen, shown, cancelled, remembered, restart, calls>>

\* Slips of clearRun: any generation clears, or the session on screen is cleared.
ClearedAlways(h) == shown \ {h[1]}
ClearedInView(h) == IF Current(h) THEN shown \ {view} ELSE shown

\* clearRun, as `runs` sees it.
Cleared(h) == IF Current(h) THEN shown \ {h[1]} ELSE shown

\* The end of the finally block: detach, forget the cancelled flag, and clear
\* the run unless a newer generation owns it.
Finish(h) ==
  /\ hpc[h] = "diff"
  /\ hpc' = [hpc EXCEPT ![h] = "done"]
  /\ msg' = [msg EXCEPT ![h] = Finalized(@, "[abandoned]")]
  /\ toolRows' = RowsLeft(h[1])
  /\ cancelled' = cancelled \ {h[1]}
  /\ shown' = Cleared(h)
  /\ entry' = IF Current(h) THEN [entry EXCEPT ![h[1]] = FreshEntry] ELSE DetachedEntry(h)
  /\ UNCHANGED <<view, deleted, gen, remembered, restart, calls>>

-----------------------------------------------------------------------------
(* Events of the backend, as the listeners of session s take them; from is *)
(* the invocation that emitted the event, which the payload does not name. *)

WithText(m) == [state |-> "settled", body |-> "text", error |-> m.error]
OnText(s) ==
  /\ msg' = IF Listening(s) /\ msg[Listener(s)].state # "none"
              THEN [msg EXCEPT ![Listener(s)] = WithText(@)]
              ELSE msg
  /\ UNCHANGED <<entry, toolRows, calls>>

OnTool(s, running) ==
  /\ toolRows' = CASE ~Listening(s) -> toolRows
                   [] Listening(s) /\ running -> toolRows \cup {Listener(s)}
                   [] Listening(s) /\ ~running -> toolRows \ {Listener(s)}
  /\ UNCHANGED <<entry, msg, calls>>

OnQuestion(s, from) ==
  /\ IF Listening(s) /\ s \in remembered
       THEN calls' = calls \cup {<<"answer", s, gen[s]>>} /\ UNCHANGED entry
       ELSE /\ entry' = IF Listening(s) /\ s \in shown
                          THEN [entry EXCEPT ![s].question = from]
                          ELSE entry
            /\ UNCHANGED calls
  /\ UNCHANGED <<msg, toolRows>>

OnState(s, paused) ==
  /\ entry' = IF s \in shown THEN [entry EXCEPT ![s].paused = paused] ELSE entry
  /\ UNCHANGED <<msg, toolRows, calls>>

\* A listener that is still being attached may miss the event.
Missed(s) == Attaching(s) /\ UNCHANGED <<entry, msg, toolRows, calls>>

\* The listeners of one event.
Deliver(kind, s, from) ==
  /\ CASE kind = "text" -> OnText(s) \/ Missed(s)
       [] kind \in {"tool", "toolend"} -> OnTool(s, kind = "tool") \/ Missed(s)
       [] kind = "ask" -> OnQuestion(s, from) \/ Missed(s)
       [] kind \in {"paused", "running"} -> OnState(s, kind = "paused")
  /\ UNCHANGED <<view, deleted, gen, shown, cancelled, remembered, hpc, restart>>

\* A call leaves the webview when the backend serves it.
Served(call) ==
  /\ call \in calls
  /\ calls' = calls \ {call}
  /\ UNCHANGED <<view, deleted, gen, shown, entry, cancelled, remembered, msg,
                 toolRows, hpc, restart>>
=============================================================================
