----------------------------- MODULE AgentRun ------------------------------
(***************************************************************************)
(* External-agent runs end to end: the chat store's handlers (ChatRuns)    *)
(* over the backend that spawns, registers and kills the agents            *)
(* (AgentRunner).                                                          *)
(*                                                                         *)
(* The two sides meet in four places.  A handler invokes run_agent and is  *)
(* resumed when it resolves; stop, answer, pause and resume are invoked    *)
(* and served later, in any order, as Tauri runs async commands on a pool; *)
(* events of the backend reach the listeners in the order they were        *)
(* emitted; and restart awaits the rollback of the working tree.           *)
(***************************************************************************)
EXTENDS ChatRuns, AgentRunner

vars == <<chatVars, runnerVars>>

\* Model bound: which of the user's optional gestures a run explores.
CONSTANT Gestures
AllGestures == {"navigate", "restart", "pause", "delete", "noproject"}
ASSUME GesturesAreKnown == Gestures \subseteq AllGestures

Init == ChatInit /\ RunnerInit

TypeOK == ChatTypeOK /\ RunnerTypeOK

-----------------------------------------------------------------------------
User ==
  /\ \/ Submit
     \/ "noproject" \in Gestures /\ SubmitWithoutProject
     \/ \E s \in Sessions :
          \/ Stop(s)
          \/ \E remember \in BOOLEAN : Answer(s, remember)
          \/ "navigate" \in Gestures /\ Navigate(s)
          \/ "restart" \in Gestures /\ Restart(s)
          \/ "pause" \in Gestures /\ \E c \in {"pause", "resume"} : Signal(s, c)
          \/ "delete" \in Gestures /\ Delete(s)
  /\ UNCHANGED runnerVars

\* Steps of a handler that involve no command.
HandlerStep(h) == (Attached(h) \/ Finish(h)) /\ UNCHANGED runnerVars

RunAgent(h) == Invoke(h) /\ EnterRun(h)

\* run_agent has resolved or rejected: the handler resumes.
Resume(h) ==
  /\ Returned(h)
  /\ Settle(h, cmd[h] = "ok")
  /\ UNCHANGED runnerVars

Backend(r) == (RunStep(r) \/ AgentStep(r)) /\ UNCHANGED chatVars

Serve(call) ==
  /\ Served(call)
  /\ CASE call[1] = "stop" -> StopAgent(call[2])
       [] call[1] = "answer" -> AnswerAgent(call[2])
       [] call[1] = "pause" -> PauseAgent(call[2])
       [] call[1] = "resume" -> ResumeAgent(call[2])

DeliverEvent ==
  /\ TakeEvent
  /\ LET e == Head(events) IN Deliver(e[1], e[2], e[3])

RestoreTree(s) == (RolledBack(s) \/ RollbackFails(s)) /\ UNCHANGED runnerVars
ResubmitTask(s) == Resubmit(s) /\ UNCHANGED runnerVars

Next ==
  \/ User
  \/ \E h \in Run : HandlerStep(h) \/ RunAgent(h) \/ Resume(h) \/ Backend(h)
  \/ \E call \in calls : Serve(call)
  \/ DeliverEvent
  \/ \E s \in Sessions : RestoreTree(s) \/ ResubmitTask(s)

\* Every promise that has settled resumes its handler, the pool serves every
\* call, events are delivered, tokio and the PTY thread make progress, and an
\* agent that got the signal and is not suspended ends.  The user, and an
\* agent nobody stopped, owe nothing.
Fairness ==
  /\ \A h \in Run : /\ WF_vars(HandlerStep(h))
                    /\ WF_vars(RunAgent(h))
                    /\ WF_vars(Resume(h))
                    /\ WF_vars(RunStep(h) /\ UNCHANGED chatVars)
                    /\ WF_vars(h \in killed /\ ExitProc(h, "exit1") /\ UNCHANGED chatVars)
  /\ \A s \in Sessions : \A g \in 0 .. MaxGen : \A c \in Commands :
       WF_vars(Serve(<<c, s, g>>))
  /\ WF_vars(DeliverEvent)
  /\ \A s \in Sessions : WF_vars(RestoreTree(s)) /\ WF_vars(ResubmitTask(s))

SafeSpec == Init /\ [][Next]_vars
Spec == SafeSpec /\ Fairness

-----------------------------------------------------------------------------
(* What the code guarantees.                                               *)

\* A session is shown as working exactly while the handler that claimed its
\* current generation is still under way; no interleaving of stale handlers
\* with newer ones loses or leaks the entry of a session that exists.
ShownIffCurrentActive ==
  \A s \in Sessions \ deleted :
    s \in shown <=> (gen[s] # 0 /\ Active(<<s, gen[s]>>))

\* A finished handler leaves no spinner: its placeholder is not pending, it is
\* not blank, and no tool row of it is still marked running.
FinishedIsQuiet ==
  \A h \in Run : hpc[h] = "done" =>
    /\ msg[h].state # "pending"
    /\ msg[h].state = "settled" => msg[h].body # "empty"
    /\ h \notin toolRows

\* What a stopped or superseded run shows is final: once its message carries
\* text, a reason or an error, no late output, late exit or late event of any
\* invocation writes to it again.
StaleBubbleFrozen ==
  [][\A h \in Run :
       /\ hpc[h] # "none" /\ gen[h[1]] > h[2]
       /\ msg[h].state = "settled" /\ msg[h].body # "empty"
       => msg'[h] = msg[h] \/ h[1] \in deleted']_vars

\* Removing a session from `runs` is the privilege of stop (which moves the
\* generation) and of the handler that owns the generation: no step of a
\* stale handler ends a newer run's entry.
OnlyOwnerClears ==
  [][\A s \in Sessions : s \in shown /\ s \notin shown' =>
       \/ gen'[s] = gen[s] + 1
       \/ hpc[<<s, gen[s]>>] = "diff" /\ hpc'[<<s, gen[s]>>] = "done"]_vars

\* A stop served while the stopped invocation is registered and not suspended
\* brings that handler to its end: the whole chain of kill, exit, teardown,
\* return and finally block makes progress.
KilledRunEnds ==
  \A h \in Run : []<>(h \in killed => hpc[h] = "done" \/ h \in suspended)

-----------------------------------------------------------------------------
(* What the documentation claims and the code does not guarantee.          *)

\* "Live runs keyed by run id" (RunnerState): while nobody stopped it, a run
\* that waits for its agent is the one its run id maps to, so that it can be
\* stopped and answered.
LiveRunReachable ==
  \A h \in Run :
    cmd[h] = "await" /\ Live(h) /\ Current(h) /\ h[1] \in shown => handle[h[1]] = h[2]

\* "Tell the backend to stop THIS run" (stop): once the stop of a run has been
\* served, its agent is not running any more unless it has been sent the signal.
StopReachesAgent ==
  \A h \in Run :
    /\ Live(h) /\ h[1] \notin deleted /\ ~Current(h) /\ h \notin killed
    => \E call \in calls : call[1] = "stop" /\ call[2] = h[1]
=============================================================================
