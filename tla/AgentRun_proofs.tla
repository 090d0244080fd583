-------------------------- MODULE AgentRun_proofs ---------------------------
(***************************************************************************)
(* Proofs about external-agent runs, for any number of sessions,           *)
(* generations and undelivered events: first of the backend, under any     *)
(* frontend, any number of invocations of one run id and any order of the  *)
(* commands that answer, pause, resume and stop them; then end to end.     *)
(***************************************************************************)
EXTENDS AgentRun, TLAPS

-----------------------------------------------------------------------------
(* The backend.                                                            *)

RunnerInv == RunnerTypeOK /\ HandleInFlight /\ TornDownIsOver

\* A run is the pair of its session and its number.
LEMMA RunPairs ==
  /\ \A r \in Run : r[1] \in Sessions /\ r[2] \in Gens /\ r = <<r[1], r[2]>> /\ r[2] # 0
  /\ \A s \in Sessions, g \in Gens : <<s, g>> \in Run /\ <<s, g>>[1] = s /\ <<s, g>>[2] = g
  /\ \A g \in 0 .. MaxGen : g # 0 => g \in Gens
BY RunIdsAssumption DEF Run, Gens

\* What the registered invocation of a session is.
LEMMA HandleIsRun ==
  ASSUME RunnerTypeOK, NEW s \in Sessions, handle[s] # 0
  PROVE  <<s, handle[s]>> \in Run
BY RunPairs DEF RunnerTypeOK

LEMMA RunnerInitInv == RunnerInit => RunnerInv
BY RunPairs, RunIdsAssumption
   DEF RunnerInit, RunnerInv, RunnerTypeOK, HandleInFlight, TornDownIsOver, CmdStates,
       ProcStates, Event

-----------------------------------------------------------------------------
(* The queue of events.                                                    *)

LEMMA EventAppended ==
  ASSUME RunnerTypeOK, NEW kind \in OutputKinds \cup StateKinds,
         NEW s \in Sessions, NEW g \in Gens
  PROVE  Append(events, <<kind, s, g>>) \in Seq(Event)
<1>1. <<kind, s, g>> \in Event
  BY DEF Event
<1> QED
  BY <1>1 DEF RunnerTypeOK

-----------------------------------------------------------------------------
(* Type correctness.                                                       *)

LEMMA RunnerTypeStep == RunnerTypeOK /\ [RunnerNext]_runnerVars => RunnerTypeOK'
<1> SUFFICES ASSUME RunnerTypeOK, [RunnerNext]_runnerVars PROVE RunnerTypeOK'
  OBVIOUS
<1> USE DEF RunnerTypeOK
<1>1. ASSUME NEW r \in Run, EnterRun(r) \/ RunStep(r) PROVE RunnerTypeOK'
  <2>1. /\ UNCHANGED <<killed, suspended, events>>
        /\ \E c \in CmdStates : cmd' = [cmd EXCEPT ![r] = c]
    BY <1>1 DEF EnterRun, RunStep, StartFails, SpawnAgent, SetupFails, RegisterRun,
                Teardown, ReturnRun, CmdStates
  <2>2. proc' \in [Run -> ProcStates]
    BY <1>1 DEF EnterRun, RunStep, StartFails, SpawnAgent, SetupFails, RegisterRun,
                Teardown, ReturnRun, ProcStates
  <2>3. handle' \in [Sessions -> 0 .. MaxGen]
    <3>1. r[1] \in Sessions /\ r[2] \in 0 .. MaxGen /\ 0 \in 0 .. MaxGen
      BY RunPairs, RunIdsAssumption DEF Gens
    <3>2. \/ handle' = handle
          \/ handle' = [handle EXCEPT ![r[1]] = r[2]]
          \/ handle' = [handle EXCEPT ![r[1]] = 0]
      BY <1>1 DEF EnterRun, RunStep, StartFails, SpawnAgent, SetupFails, RegisterRun,
                  Teardown, ReturnRun
    <3> QED
      BY <3>1, <3>2
  <2> QED
    BY <2>1, <2>2, <2>3
<1>2. ASSUME NEW r \in Run, AgentStep(r) PROVE RunnerTypeOK'
  <2>1. ASSUME NEW kind \in Kinds, Emit(r, kind) PROVE RunnerTypeOK'
    <3>1. events' \in Seq(Event)
      BY <2>1, EventAppended, RunPairs, RunnerConstants DEF Emit
    <3>2. proc' \in [Run -> ProcStates]
      BY <2>1 DEF Emit, ProcStates
    <3> QED
      BY <2>1, <3>1, <3>2 DEF Emit
  <2>2. ASSUME NEW code \in {"exit0", "exit1"}, ExitProc(r, code) PROVE RunnerTypeOK'
    BY <2>2 DEF ExitProc, ProcStates
  <2> QED
    BY <1>2, <2>1, <2>2 DEF AgentStep
<1>3. ASSUME NEW s \in Sessions, Command(s) PROVE RunnerTypeOK'
  <2>1. CASE StopAgent(s)
    BY <2>1, HandleIsRun, RunIdsAssumption DEF StopAgent
  <2>2. CASE AnswerAgent(s)
    BY <2>2, HandleIsRun DEF AnswerAgent, ProcStates
  <2>3. CASE PauseAgent(s) \/ ResumeAgent(s)
    <3>1. CASE UNCHANGED runnerVars
      BY <3>1 DEF runnerVars
    <3>2. CASE /\ Signalled(s)
               /\ UNCHANGED <<cmd, proc, killed, handle>>
               /\ \/ suspended' = suspended \cup {<<s, handle[s]>>}
                  \/ suspended' = suspended \ {<<s, handle[s]>>}
               /\ \E kind \in StateKinds : events' = Append(events, <<kind, s, handle[s]>>)
      <4>1. handle[s] \in Gens /\ <<s, handle[s]>> \in Run
        BY <3>2, HandleIsRun, RunPairs DEF Signalled
      <4>2. events' \in Seq(Event)
        BY <3>2, <4>1, EventAppended
      <4> QED
        BY <3>2, <4>1, <4>2
    <3> QED
      BY <2>3, <3>1, <3>2 DEF PauseAgent, ResumeAgent, StateKinds
  <2> QED
    BY <1>3, <2>1, <2>2, <2>3 DEF Command
<1>4. CASE TakeEvent
  BY <1>4 DEF TakeEvent
<1>5. CASE StopAll
  <2>1. killed' \subseteq Run
    BY <1>5, HandleIsRun DEF StopAll
  <2>2. handle' \in [Sessions -> 0 .. MaxGen]
    BY <1>5, RunIdsAssumption DEF StopAll
  <2> QED
    BY <1>5, <2>1, <2>2 DEF StopAll
<1>6. CASE UNCHANGED runnerVars
  BY <1>6 DEF runnerVars
<1> QED
  BY <1>1, <1>2, <1>3, <1>4, <1>5, <1>6 DEF RunnerNext

-----------------------------------------------------------------------------
(* The map of live runs, and what has been torn down.                      *)

\* A step that neither registers nor removes anything and lets no invocation
\* out of its wait keeps the map right.
LEMMA HandlesKept ==
  ASSUME RunnerInv, \A s \in Sessions : handle'[s] \in {0, handle[s]},
         \A r \in Run : cmd[r] = "await" => cmd'[r] = "await"
  PROVE  HandleInFlight'
BY HandleIsRun DEF RunnerInv, HandleInFlight

LEMMA RunnerSafeStep ==
  RunnerInv /\ [RunnerNext]_runnerVars => (HandleInFlight /\ TornDownIsOver)'
<1> SUFFICES ASSUME RunnerInv, [RunnerNext]_runnerVars
             PROVE (HandleInFlight /\ TornDownIsOver)'
  OBVIOUS
<1> USE RunPairs DEF RunnerInv, RunnerTypeOK, HandleInFlight, TornDownIsOver, Exited
<1>1. ASSUME NEW r \in Run,
             EnterRun(r) \/ StartFails(r) \/ SpawnAgent(r) \/ SetupFails(r)
      PROVE (HandleInFlight /\ TornDownIsOver)'
  <2>1. /\ UNCHANGED <<handle, killed, suspended>>
        /\ cmd[r] \in {"none", "entered"}
        /\ \E c \in {"entered", "spawned", "err"} : cmd' = [cmd EXCEPT ![r] = c]
        /\ proc' = proc \/ proc' = [proc EXCEPT ![r] = "alive"]
    BY <1>1 DEF EnterRun, StartFails, SpawnAgent, SetupFails
  <2>2. HandleInFlight'
    BY <2>1, HandlesKept
  <2>3. TornDownIsOver'
    BY <2>1
  <2> QED
    BY <2>2, <2>3
<1>2. ASSUME NEW r \in Run, RegisterRun(r) PROVE (HandleInFlight /\ TornDownIsOver)'
  <2>1. /\ cmd[r] = "spawned" /\ cmd' = [cmd EXCEPT ![r] = "await"]
        /\ handle' = [handle EXCEPT ![r[1]] = r[2]]
        /\ UNCHANGED <<proc, killed, suspended>>
    BY <1>2 DEF RegisterRun
  <2>2. ASSUME NEW s \in Sessions, handle'[s] # 0
        PROVE  cmd'[<<s, handle'[s]>>] = "await"
    <3>1. CASE s = r[1]
      BY <2>1, <3>1
    <3>2. CASE s # r[1]
      <4>1. cmd[<<s, handle[s]>>] = "await" /\ <<s, handle[s]>> \in Run
        BY <2>1, <2>2, <3>2, HandleIsRun
      <4>2. handle'[s] = handle[s] /\ <<s, handle[s]>> # r
        BY <2>1, <3>2, <4>1
      <4> QED
        BY <2>1, <4>1, <4>2
    <3> QED
      BY <3>1, <3>2
  <2>3. TornDownIsOver'
    BY <2>1
  <2> QED
    BY <2>2, <2>3
<1>3. ASSUME NEW r \in Run, Teardown(r) PROVE (HandleInFlight /\ TornDownIsOver)'
  <2>1. /\ cmd[r] = "await" /\ cmd' = [cmd EXCEPT ![r] = "postrun"]
        /\ handle' = [handle EXCEPT ![r[1]] = 0]
        /\ proc[r] \in {"exit0", "exit1"}
        /\ UNCHANGED <<proc, killed, suspended>>
    BY <1>3 DEF Teardown
  <2>2. ASSUME NEW s \in Sessions, handle'[s] # 0
        PROVE  cmd'[<<s, handle'[s]>>] = "await"
    <3>1. s # r[1] /\ handle'[s] = handle[s]
      BY <2>1, <2>2
    <3>2. cmd[<<s, handle[s]>>] = "await" /\ <<s, handle[s]>> \in Run
      BY <2>2, <3>1, HandleIsRun
    <3>3. <<s, handle[s]>> # r
      BY <3>1, <3>2
    <3> QED
      BY <2>1, <3>1, <3>2, <3>3
  <2>3. TornDownIsOver'
    BY <2>1
  <2> QED
    BY <2>2, <2>3
<1>4. ASSUME NEW r \in Run, ReturnRun(r) PROVE (HandleInFlight /\ TornDownIsOver)'
  BY <1>4 DEF ReturnRun
<1>5. ASSUME NEW r \in Run, AgentStep(r) PROVE (HandleInFlight /\ TornDownIsOver)'
  <2>1. /\ UNCHANGED <<cmd, handle, killed, suspended>>
        /\ \/ proc' = proc
           \/ /\ proc[r] \in {"alive", "asking"}
              /\ \E c \in ProcStates : proc' = [proc EXCEPT ![r] = c]
    BY <1>5 DEF AgentStep, Emit, ExitProc, Live, ProcStates
  <2>2. HandleInFlight'
    BY <2>1
  <2>3. TornDownIsOver'
    BY <2>1
  <2> QED
    BY <2>2, <2>3
<1>6. ASSUME NEW s \in Sessions, Command(s) PROVE (HandleInFlight /\ TornDownIsOver)'
  <2> DEFINE h == <<s, handle[s]>>
  <2>1. handle[s] # 0 => h \in Run /\ cmd[h] = "await"
    BY HandleIsRun
  <2>2. CASE StopAgent(s)
    <3>1. HandleInFlight'
      BY <2>2, HandlesKept DEF StopAgent
    <3>2. TornDownIsOver'
      BY <2>1, <2>2 DEF StopAgent
    <3> QED
      BY <3>1, <3>2
  <2>3. CASE AnswerAgent(s)
    <3>1. HandleInFlight'
      BY <2>3 DEF AnswerAgent
    <3>2. TornDownIsOver'
      BY <2>1, <2>3 DEF AnswerAgent
    <3> QED
      BY <3>1, <3>2
  <2>4. CASE PauseAgent(s) \/ ResumeAgent(s)
    <3>1. /\ UNCHANGED <<cmd, proc, killed, handle>>
          /\ suspended' \subseteq suspended \/ (handle[s] # 0 /\ suspended' = suspended \cup {h})
      BY <2>4 DEF PauseAgent, ResumeAgent, Signalled, runnerVars
    <3> QED
      BY <2>1, <3>1
  <2> QED
    BY <1>6, <2>2, <2>3, <2>4 DEF Command
<1>7. CASE TakeEvent
  BY <1>7 DEF TakeEvent
<1>8. CASE StopAll
  <2>1. HandleInFlight'
    BY <1>8 DEF StopAll
  <2>2. TornDownIsOver'
    <3>1. \A r \in killed' : r \in killed \/ cmd[r] = "await"
      BY <1>8, HandleIsRun DEF StopAll
    <3> QED
      BY <1>8, <3>1 DEF StopAll
  <2> QED
    BY <2>1, <2>2
<1>9. CASE UNCHANGED runnerVars
  BY <1>9 DEF runnerVars
<1> QED
  BY <1>1, <1>2, <1>3, <1>4, <1>5, <1>6, <1>7, <1>8, <1>9 DEF RunnerNext, RunStep

LEMMA RunnerStepInv == RunnerInv /\ [RunnerNext]_runnerVars => RunnerInv'
BY RunnerTypeStep, RunnerSafeStep DEF RunnerInv

LEMMA RunnerInvariant == RunnerInit /\ [][RunnerNext]_runnerVars => []RunnerInv
BY RunnerInitInv, RunnerStepInv, PTL

-----------------------------------------------------------------------------
\* Under any frontend the backend's state keeps its shape: run_agent, the PTY
\* thread and the other commands leave nothing malformed behind.
THEOREM RunnerTypeCorrect == RunnerSpec => []RunnerTypeOK
<1>1. RunnerInv => RunnerTypeOK
  BY DEF RunnerInv
<1> QED
  BY RunnerInvariant, <1>1, PTL DEF RunnerSpec

\* The map of live runs never points at an invocation that is not registered
\* yet or is already torn down (run_agent's insert and remove, stop_agent).
THEOREM HandlesAreInFlight == RunnerSpec => []HandleInFlight
<1>1. RunnerInv => HandleInFlight
  BY DEF RunnerInv
<1> QED
  BY RunnerInvariant, <1>1, PTL DEF RunnerSpec

\* A run that is torn down, or has returned its agent's exit code, has no
\* agent any more, and no signal is ever sent to an unregistered process.
THEOREM TornDownRunsAreOver == RunnerSpec => []TornDownIsOver
<1>1. RunnerInv => TornDownIsOver
  BY DEF RunnerInv
<1> QED
  BY RunnerInvariant, <1>1, PTL DEF RunnerSpec

-----------------------------------------------------------------------------
(* End to end.                                                             *)

\* What one step may do to the chat store.
ChatStep ==
  \/ Submit \/ SubmitWithoutProject
  \/ \E s \in Sessions :
       \/ Stop(s) \/ Navigate(s) \/ Restart(s) \/ Delete(s)
       \/ \E remember \in BOOLEAN : Answer(s, remember)
       \/ \E c \in {"pause", "resume"} : Signal(s, c)
       \/ RolledBack(s) \/ RollbackFails(s) \/ Resubmit(s)
  \/ \E h \in Run : Attached(h) \/ Finish(h) \/ Invoke(h) \/ \E ok \in BOOLEAN : Settle(h, ok)
  \/ \E call \in calls : Served(call)
  \/ \E kind \in OutputKinds \cup StateKinds, s \in Sessions, g \in Gens : Deliver(kind, s, g)

-----------------------------------------------------------------------------
(* Every step of the composition is a step of the backend, or leaves it    *)
(* alone, and a step of the chat store, or leaves that alone.              *)

LEMMA DeliverSplits ==
  ASSUME TypeOK, DeliverEvent
  PROVE  \E kind \in OutputKinds \cup StateKinds, s \in Sessions, g \in Gens : Deliver(kind, s, g)
<1>1. Head(events) \in Event
  BY DEF DeliverEvent, TakeEvent, TypeOK, RunnerTypeOK
<1> QED
  BY <1>1 DEF DeliverEvent, Event

LEMMA ServeSplits ==
  ASSUME TypeOK, NEW call \in calls, Serve(call)
  PROVE  Served(call) /\ \E s \in Sessions : Command(s)
<1>1. call \in Call
  BY DEF TypeOK, ChatTypeOK
<1> QED
  BY <1>1 DEF Serve, Command, Call, Commands

LEMMA StepSplits ==
  TypeOK /\ [Next]_vars => [ChatStep]_chatVars /\ [RunnerNext]_runnerVars
<1> SUFFICES ASSUME TypeOK, [Next]_vars PROVE [ChatStep]_chatVars /\ [RunnerNext]_runnerVars
  OBVIOUS
<1>1. CASE User
  BY <1>1 DEF User, ChatStep
<1>2. ASSUME NEW h \in Run, HandlerStep(h) \/ RunAgent(h) \/ Resume(h)
      PROVE [ChatStep]_chatVars /\ [RunnerNext]_runnerVars
  BY <1>2 DEF HandlerStep, RunAgent, Resume, ChatStep, RunnerNext
<1>3. ASSUME NEW h \in Run, Backend(h) PROVE [ChatStep]_chatVars /\ [RunnerNext]_runnerVars
  BY <1>3 DEF Backend, RunnerNext
<1>4. ASSUME NEW call \in calls, Serve(call)
      PROVE [ChatStep]_chatVars /\ [RunnerNext]_runnerVars
  BY <1>4, ServeSplits DEF ChatStep, RunnerNext
<1>5. CASE DeliverEvent
  BY <1>5, DeliverSplits DEF DeliverEvent, ChatStep, RunnerNext
<1>6. ASSUME NEW s \in Sessions, RestoreTree(s) \/ ResubmitTask(s)
      PROVE [ChatStep]_chatVars /\ [RunnerNext]_runnerVars
  BY <1>6 DEF RestoreTree, ResubmitTask, ChatStep
<1>7. CASE UNCHANGED vars
  BY <1>7 DEF vars
<1> QED
  BY <1>1, <1>2, <1>3, <1>4, <1>5, <1>6, <1>7 DEF Next

-----------------------------------------------------------------------------
(* Type correctness of the chat store.                                     *)

LEMMA FreshEntryType == FreshEntry \in Entry
BY RunIdsAssumption DEF FreshEntry, Entry

LEMMA FinalizedType ==
  ASSUME NEW m \in Message, NEW reason \in Bodies PROVE Finalized(m, reason) \in Message
BY DEF Finalized, Message, Bodies

LEMMA SettledType == \A m \in Message : Settled(m) \in Message
BY DEF Settled, NoMessage, Message, Bodies

LEMMA RenderedType ==
  ASSUME ChatTypeOK, NEW h \in Run, NEW ok \in BOOLEAN PROVE Rendered(h, ok) \in Message
<1>1. msg[h] \in Message
  BY DEF ChatTypeOK
<1>2. Finalized(msg[h], "[abandoned]") \in Message
  BY <1>1, FinalizedType DEF Bodies
<1>3. [msg[h] EXCEPT !.body = "[cancelled]"] \in Message /\ [msg[h] EXCEPT !.error = TRUE] \in Message
  BY <1>1 DEF Message, Bodies
<1> QED
  BY <1>1, <1>2, <1>3 DEF Rendered

LEMMA DetachedEntryType ==
  ASSUME ChatTypeOK, NEW h \in Run PROVE DetachedEntry(h) \in [Sessions -> Entry]
<1>1. h[1] \in Sessions /\ entry[h[1]] \in Entry
  BY RunPairs DEF ChatTypeOK
<1>2. Detached(entry[h[1]], h) \in Entry
  BY <1>1, RunIdsAssumption DEF Entry, Detached
<1> QED
  BY <1>1, <1>2 DEF DetachedEntry, ChatTypeOK

LEMMA ClaimType ==
  ASSUME ChatTypeOK, NEW s \in Sessions, Room(s), Claim(s)
  PROVE  /\ gen' \in [Sessions -> 0 .. MaxGen] /\ shown' \in SUBSET Sessions
         /\ entry' \in [Sessions -> Entry] /\ hpc' \in [Run -> HandlerStates]
<1>1. gen' \in [Sessions -> 0 .. MaxGen]
  BY RunIdsAssumption DEF ChatTypeOK, Room, Claim
<1>2. entry' \in [Sessions -> Entry]
  BY FreshEntryType DEF ChatTypeOK, Claim
<1> QED
  BY <1>1, <1>2 DEF ChatTypeOK, Claim, HandlerStates

LEMMA StopRunType ==
  ASSUME ChatTypeOK, NEW s \in Sessions, StopRun(s)
  PROVE  /\ gen' \in [Sessions -> 0 .. MaxGen] /\ shown' \in SUBSET Sessions
         /\ entry' \in [Sessions -> Entry] /\ cancelled' \in SUBSET Sessions
         /\ msg' \in [Run -> Message] /\ toolRows' \in SUBSET Run
         /\ calls' \in SUBSET Call
<1>1. gen' \in [Sessions -> 0 .. MaxGen]
  BY RunIdsAssumption DEF StopRun, ChatTypeOK
<1>2. entry' \in [Sessions -> Entry]
  BY FreshEntryType DEF StopRun, ChatTypeOK
<1>3. \A h \in Run : Finalized(msg[h], "[stopped]") \in Message /\ msg[h] \in Message
  BY FinalizedType DEF ChatTypeOK, Bodies
<1>4. msg' \in [Run -> Message]
  BY <1>3 DEF StopRun
<1>5. calls' \in SUBSET Call
  BY DEF StopRun, ChatTypeOK, Call, Commands
<1> QED
  BY <1>1, <1>2, <1>4, <1>5 DEF StopRun, ChatTypeOK, RowsLeft

LEMMA CalledType ==
  ASSUME ChatTypeOK, NEW c \in Commands, NEW s \in Sessions
  PROVE  calls \cup {<<c, s, gen[s]>>} \in SUBSET Call
BY DEF ChatTypeOK, Call

LEMMA UserTypeStep ==
  ASSUME ChatTypeOK, NEW s \in Sessions,
         \/ Submit \/ SubmitWithoutProject \/ Stop(s) \/ Navigate(s) \/ Restart(s) \/ Delete(s)
         \/ \E remember \in BOOLEAN : Answer(s, remember)
         \/ \E c \in {"pause", "resume"} : Signal(s, c)
         \/ RolledBack(s) \/ RollbackFails(s) \/ Resubmit(s)
  PROVE  ChatTypeOK'
<1> USE DEF ChatTypeOK
<1>1. CASE Submit
  <2>1. view \in Sessions /\ Room(view) /\ Claim(view)
    BY <1>1 DEF Submit, MaySubmit
  <2> QED
    BY <1>1, <2>1, ClaimType DEF Submit
<1>2. CASE SubmitWithoutProject
  <2>1. view \in Sessions /\ gen' = [gen EXCEPT ![view] = gen[view] + 1]
    BY <1>2 DEF SubmitWithoutProject, MaySubmit
  <2>2. gen' \in [Sessions -> 0 .. MaxGen]
    BY <1>2, <2>1, RunIdsAssumption DEF SubmitWithoutProject, Room
  <2> QED
    BY <1>2, <2>2 DEF SubmitWithoutProject
<1>3. CASE Stop(s)
  BY <1>3, StopRunType DEF Stop
<1>4. CASE Navigate(s)
  BY <1>4 DEF Navigate
<1>5. CASE Restart(s)
  <2>1. restart' \in [Sessions -> {"no", "rollback", "resubmit"}]
    BY <1>5 DEF Restart
  <2>2. CASE s \in shown
    BY <1>5, <2>1, <2>2, StopRunType DEF Restart
  <2>3. CASE s \notin shown
    BY <1>5, <2>1, <2>3 DEF Restart
  <2> QED
    BY <2>2, <2>3
<1>6. CASE Delete(s)
  <2>1. msg' \in [Run -> Message]
    <3>1. NoMessage \in Message
      BY DEF NoMessage, Message, Bodies
    <3> QED
      BY <1>6, <3>1 DEF Delete
  <2>2. gen' \in [Sessions -> 0 .. MaxGen]
    BY <1>6, RunIdsAssumption DEF Delete
  <2> QED
    BY <1>6, <2>1, <2>2 DEF Delete, RowsLeft
<1>7. ASSUME NEW remember \in BOOLEAN, Answer(s, remember) PROVE ChatTypeOK'
  <2>1. calls' \in SUBSET Call
    BY <1>7, CalledType DEF Answer, Commands
  <2>2. [entry[s] EXCEPT !.question = 0] \in Entry
    BY RunIdsAssumption DEF Entry
  <2>3. entry' = [entry EXCEPT ![s] = [entry[s] EXCEPT !.question = 0]]
    BY <1>7 DEF Answer
  <2>4. entry' \in [Sessions -> Entry]
    BY <2>2, <2>3
  <2> QED
    BY <1>7, <2>1, <2>4 DEF Answer
<1>8. ASSUME NEW c \in {"pause", "resume"}, Signal(s, c) PROVE ChatTypeOK'
  <2>1. calls' \in SUBSET Call
    BY <1>8, CalledType DEF Signal, Commands
  <2> QED
    BY <1>8, <2>1 DEF Signal
<1>9. CASE RolledBack(s) \/ RollbackFails(s)
  BY <1>9 DEF RolledBack, RollbackFails
<1>10. CASE Resubmit(s)
  <2>1. restart' \in [Sessions -> {"no", "rollback", "resubmit"}]
    BY <1>10 DEF Resubmit
  <2>2. CASE MaySubmit
    <3>1. view \in Sessions /\ Room(view) /\ Claim(view)
      BY <1>10, <2>2 DEF Resubmit, MaySubmit
    <3> QED
      BY <1>10, <2>1, <3>1, ClaimType DEF Resubmit
  <2>3. CASE ~MaySubmit
    BY <1>10, <2>1, <2>3 DEF Resubmit
  <2> QED
    BY <2>2, <2>3
<1> QED
  BY <1>1, <1>2, <1>3, <1>4, <1>5, <1>6, <1>7, <1>8, <1>9, <1>10

LEMMA HandlerTypeStep ==
  ASSUME ChatTypeOK, NEW h \in Run,
         Attached(h) \/ Finish(h) \/ Invoke(h) \/ \E ok \in BOOLEAN : Settle(h, ok)
  PROVE  ChatTypeOK'
<1> USE DEF ChatTypeOK
<1>1. h[1] \in Sessions /\ h[2] \in 0 .. MaxGen
  BY RunPairs, RunIdsAssumption DEF Gens
<1>2. hpc' \in [Run -> HandlerStates]
  BY DEF Attached, Finish, Invoke, Settle, HandlerStates
<1>3. CASE Attached(h)
  <2>1. [NoMessage EXCEPT !.state = "pending"] \in Message
    BY DEF NoMessage, Message, Bodies
  <2>2. msg' \in [Run -> Message]
    BY <1>3, <2>1 DEF Attached
  <2>3. [entry[h[1]] EXCEPT !.placeholder = h[2]] \in Entry
    BY <1>1 DEF Entry
  <2>4. entry' \in {entry, [entry EXCEPT ![h[1]] = [entry[h[1]] EXCEPT !.placeholder = h[2]]]}
    BY <1>3 DEF Attached
  <2>5. entry' \in [Sessions -> Entry]
    BY <1>1, <2>3, <2>4
  <2> QED
    BY <1>2, <1>3, <2>2, <2>5 DEF Attached
<1>4. CASE Invoke(h)
  BY <1>2, <1>4 DEF Invoke
<1>5. ASSUME NEW ok \in BOOLEAN, Settle(h, ok) PROVE ChatTypeOK'
  <2>1. msg' \in [Run -> Message]
    BY <1>5, RenderedType, SettledType DEF Settle
  <2>2. entry' \in [Sessions -> Entry]
    BY <1>5, DetachedEntryType DEF Settle
  <2> QED
    BY <1>2, <1>5, <2>1, <2>2 DEF Settle, RowsLeft
<1>6. CASE Finish(h)
  <2>1. Finalized(msg[h], "[abandoned]") \in Message
    BY FinalizedType DEF Bodies
  <2>2. msg' \in [Run -> Message]
    BY <1>6, <2>1 DEF Finish
  <2>3. entry' \in [Sessions -> Entry]
    BY <1>1, <1>6, DetachedEntryType, FreshEntryType DEF Finish
  <2> QED
    BY <1>2, <1>6, <2>2, <2>3 DEF Finish, Cleared, RowsLeft
<1> QED
  BY <1>3, <1>4, <1>5, <1>6

LEMMA EventTypeStep ==
  ASSUME ChatTypeOK, NEW kind \in OutputKinds \cup StateKinds, NEW s \in Sessions,
         NEW g \in Gens, Deliver(kind, s, g)
  PROVE  ChatTypeOK'
<1> USE DEF ChatTypeOK
<1>1. Listening(s) => Listener(s) \in Run
  BY RunPairs DEF Listening, Listener
<1>2. g \in 0 .. MaxGen
  BY RunIdsAssumption DEF Gens
<1>3. UNCHANGED <<view, deleted, gen, shown, cancelled, remembered, hpc, restart>>
  BY DEF Deliver
<1>4. CASE OnText(s)
  <2>1. \A m \in Message : WithText(m) \in Message
    BY DEF WithText, Message, Bodies
  <2>2. msg' \in [Run -> Message]
    BY <1>1, <1>4, <2>1 DEF OnText
  <2> QED
    BY <1>3, <1>4, <2>2 DEF OnText
<1>5. ASSUME NEW running \in BOOLEAN, OnTool(s, running) PROVE ChatTypeOK'
  <2>1. toolRows' \in SUBSET Run
    BY <1>1, <1>5 DEF OnTool
  <2> QED
    BY <1>3, <1>5, <2>1 DEF OnTool
<1>6. CASE OnQuestion(s, g)
  <2>1. [entry[s] EXCEPT !.question = g] \in Entry
    BY <1>2 DEF Entry
  <2>2. entry' \in {entry, [entry EXCEPT ![s] = [entry[s] EXCEPT !.question = g]]}
    BY <1>6 DEF OnQuestion
  <2>3. entry' \in [Sessions -> Entry]
    BY <2>1, <2>2
  <2>4. calls' \in SUBSET Call
    BY <1>6, CalledType DEF OnQuestion, Commands
  <2> QED
    BY <1>3, <1>6, <2>3, <2>4 DEF OnQuestion
<1>7. ASSUME NEW paused \in BOOLEAN, OnState(s, paused) PROVE ChatTypeOK'
  <2>1. [entry[s] EXCEPT !.paused = paused] \in Entry
    BY <1>7 DEF Entry
  <2>2. entry' \in {entry, [entry EXCEPT ![s] = [entry[s] EXCEPT !.paused = paused]]}
    BY <1>7 DEF OnState
  <2> QED
    BY <1>3, <1>7, <2>1, <2>2 DEF OnState
<1>8. CASE Missed(s)
  BY <1>3, <1>8 DEF Missed
<1>9. \/ OnText(s) \/ OnQuestion(s, g) \/ Missed(s)
      \/ \E b \in BOOLEAN : OnTool(s, b) \/ OnState(s, b)
  BY DEF Deliver, OutputKinds, StateKinds
<1> QED
  BY <1>4, <1>5, <1>6, <1>7, <1>8, <1>9

LEMMA ChatTypeStep == ChatTypeOK /\ [ChatStep]_chatVars => ChatTypeOK'
<1> SUFFICES ASSUME ChatTypeOK, [ChatStep]_chatVars PROVE ChatTypeOK'
  OBVIOUS
<1>1. CASE UNCHANGED chatVars
  BY <1>1 DEF chatVars, ChatTypeOK
<1>2. ASSUME NEW call \in calls, Served(call) PROVE ChatTypeOK'
  BY <1>2 DEF Served, ChatTypeOK
<1>3. CASE Submit \/ SubmitWithoutProject
  <2>1. view \in Sessions
    BY <1>3 DEF ChatTypeOK, Submit, SubmitWithoutProject, MaySubmit
  <2> QED
    BY <1>3, <2>1, UserTypeStep
<1> QED
  BY <1>1, <1>2, <1>3, UserTypeStep, HandlerTypeStep, EventTypeStep DEF ChatStep

-----------------------------------------------------------------------------
(* The entries of `runs`.                                                  *)

\* A session on screen exists.
ViewExists == view \notin deleted

\* No handler has a generation its session has not reached: what makes the
\* generation a submit claims a fresh one.
HandlersReached ==
  \A s \in Sessions \ deleted, g \in Gens : g > gen[s] => hpc[<<s, g>>] = "none"

\* A handler that has not added its placeholder has no message.
BlankBefore == \A h \in Run : hpc[h] \in {"none", "attach"} => msg[h].state = "none"

ChatInv ==
  /\ ChatTypeOK
  /\ ViewExists /\ HandlersReached /\ ShownIffCurrentActive
  /\ BlankBefore /\ FinishedIsQuiet

LEMMA ChatInitInv == ChatInit => ChatInv
<1> SUFFICES ASSUME ChatInit PROVE ChatInv
  OBVIOUS
<1>1. NoMessage \in Message /\ NoMessage.state = "none"
  BY DEF NoMessage, Message, Bodies
<1>2. ChatTypeOK
  BY <1>1, FreshEntryType, RunIdsAssumption DEF ChatInit, ChatTypeOK, HandlerStates
<1>3. ViewExists /\ HandlersReached /\ BlankBefore /\ FinishedIsQuiet
  BY <1>1, RunPairs DEF ChatInit, ViewExists, HandlersReached, BlankBefore, FinishedIsQuiet
<1>4. ShownIffCurrentActive
  BY DEF ChatInit, ShownIffCurrentActive
<1> QED
  BY <1>2, <1>3, <1>4 DEF ChatInv

RunsInv == ViewExists /\ HandlersReached /\ ShownIffCurrentActive

\* A claimed generation is fresh, so its handler is the only one to be active
\* under it.
LEMMA ClaimKeepsRuns ==
  ASSUME ChatInv, view \in Sessions, Room(view), Claim(view), UNCHANGED <<view, deleted>>
  PROVE  RunsInv'
<1> USE RunIdsAssumption, RunPairs
        DEF ChatInv, ChatTypeOK, ViewExists, HandlersReached, ShownIffCurrentActive, Active
<1> DEFINE new == <<view, gen[view] + 1>>
<1>1. /\ gen[view] \in 0 .. MaxGen /\ gen[view] + 1 \in Gens /\ new \in Run
      /\ gen' = [gen EXCEPT ![view] = gen[view] + 1]
      /\ hpc' = [hpc EXCEPT ![new] = "attach"]
      /\ shown' = shown \cup {view}
  BY DEF Room, Claim, Gens
<1> HIDE DEF new
<1>2. \A s \in Sessions, g \in Gens :
        <<s, g>> # new => hpc'[<<s, g>>] = hpc[<<s, g>>]
  BY <1>1
<1>3. \A s \in Sessions, g \in Gens : s # view \/ g # gen[view] + 1 => <<s, g>> # new
  BY <1>1 DEF new
<1>4. HandlersReached'
  <2> SUFFICES ASSUME NEW s \in Sessions, s \notin deleted, NEW g \in Gens, g > gen'[s]
               PROVE  hpc'[<<s, g>>] = "none"
    BY DEF HandlersReached
  <2>1. g > gen[s] /\ (s # view \/ g # gen[view] + 1)
    BY <1>1 DEF Gens
  <2> QED
    BY <1>2, <1>3, <2>1
<1>5. ShownIffCurrentActive'
  <2> SUFFICES ASSUME NEW s \in Sessions, s \notin deleted
               PROVE  s \in shown' <=> (gen'[s] # 0 /\ hpc'[<<s, gen'[s]>>] \notin {"none", "done"})
    BY DEF ShownIffCurrentActive, Active
  <2>1. CASE s = view
    <3>1. <<s, gen'[s]>> = new /\ gen'[s] # 0
      BY <1>1, <2>1 DEF new
    <3>2. hpc'[new] = "attach"
      BY <1>1
    <3> QED
      BY <1>1, <2>1, <3>1, <3>2
  <2>2. CASE s # view
    <3>1. gen'[s] = gen[s] /\ (s \in shown' <=> s \in shown)
      BY <1>1, <2>2
    <3>2. gen[s] # 0 => hpc'[<<s, gen[s]>>] = hpc[<<s, gen[s]>>]
      BY <1>2, <1>3, <2>2
    <3> QED
      BY <3>1, <3>2
  <2> QED
    BY <2>1, <2>2
<1> QED
  BY <1>4, <1>5 DEF RunsInv

\* A generation moved past every handler leaves the session without one.
LEMMA MovedGeneration ==
  ASSUME ChatInv, NEW s \in Sessions, s \notin deleted, gen[s] < MaxGen,
         gen' = [gen EXCEPT ![s] = gen[s] + 1], shown' = shown \ {s},
         UNCHANGED <<view, deleted, hpc>>
  PROVE  RunsInv'
<1> USE RunIdsAssumption, RunPairs
        DEF ChatInv, ChatTypeOK, ViewExists, HandlersReached, ShownIffCurrentActive, Active
<1>1. gen[s] \in 0 .. MaxGen /\ gen[s] + 1 \in Gens /\ gen'[s] = gen[s] + 1
  BY DEF Gens
<1>2. HandlersReached'
  BY <1>1 DEF Gens
<1>3. hpc'[<<s, gen'[s]>>] = "none"
  BY <1>1
<1>4. ShownIffCurrentActive'
  BY <1>3
<1> QED
  BY <1>2, <1>4 DEF RunsInv

LEMMA RunsStep == ChatInv /\ [ChatStep]_chatVars => RunsInv'
<1> SUFFICES ASSUME ChatInv, [ChatStep]_chatVars PROVE RunsInv'
  OBVIOUS
<1> USE DEF ChatInv, ChatTypeOK, ViewExists, HandlersReached, ShownIffCurrentActive, Active
<1>1. CASE Submit
  BY <1>1, ClaimKeepsRuns DEF Submit, MaySubmit
<1>2. CASE SubmitWithoutProject
  <2>1. view \in Sessions /\ shown' = shown \ {view} /\ gen[view] < MaxGen
    BY <1>2, RunIdsAssumption DEF SubmitWithoutProject, MaySubmit, Room
  <2> QED
    BY <1>2, <2>1, MovedGeneration DEF SubmitWithoutProject
<1>3. ASSUME NEW s \in Sessions, StopRun(s), s \notin deleted, UNCHANGED <<view, deleted, hpc>>
      PROVE  RunsInv'
  BY <1>3, MovedGeneration DEF StopRun
<1>4. CASE UNCHANGED <<view, deleted, gen, shown, hpc>>
  BY <1>4 DEF RunsInv
<1>5. ASSUME NEW s \in Sessions, Stop(s) PROVE RunsInv'
  BY <1>3, <1>5 DEF Stop
<1>6. ASSUME NEW s \in Sessions, Restart(s) PROVE RunsInv'
  <2>1. CASE s \in shown
    BY <1>3, <1>6, <2>1 DEF Restart
  <2>2. CASE s \notin shown
    BY <1>4, <1>6, <2>2 DEF Restart
  <2> QED
    BY <2>1, <2>2
<1>7. ASSUME NEW s \in Sessions, Navigate(s) \/ Delete(s) PROVE RunsInv'
  BY <1>7, NoSessionAssumption DEF Navigate, Delete, RunsInv
<1>8. ASSUME NEW s \in Sessions, Resubmit(s) PROVE RunsInv'
  <2>1. CASE MaySubmit
    BY <1>8, <2>1, ClaimKeepsRuns DEF Resubmit, MaySubmit
  <2>2. CASE ~MaySubmit
    BY <1>4, <1>8, <2>2 DEF Resubmit
  <2> QED
    BY <2>1, <2>2
<1>9. ASSUME NEW s \in Sessions, RolledBack(s) \/ RollbackFails(s) PROVE RunsInv'
  BY <1>4, <1>9 DEF RolledBack, RollbackFails
<1>10. ASSUME NEW s \in Sessions,
              \/ \E remember \in BOOLEAN : Answer(s, remember)
              \/ \E c \in {"pause", "resume"} : Signal(s, c)
       PROVE  RunsInv'
  BY <1>4, <1>10 DEF Answer, Signal
<1>11. ASSUME NEW h \in Run,
              Attached(h) \/ Invoke(h) \/ \E ok \in BOOLEAN : Settle(h, ok)
       PROVE  RunsInv'
  <2>1. /\ UNCHANGED <<view, deleted, gen, shown>>
        /\ hpc[h] \notin {"none", "done"}
        /\ \E c \in {"listen", "running", "diff"} : hpc' = [hpc EXCEPT ![h] = c]
    BY <1>11 DEF Attached, Invoke, Settle
  <2>2. HandlersReached'
    BY <2>1
  <2>3. ShownIffCurrentActive'
    BY <2>1
  <2> QED
    BY <2>1, <2>2, <2>3 DEF RunsInv
<1>12. ASSUME NEW h \in Run, Finish(h) PROVE RunsInv'
  <2>1. /\ UNCHANGED <<view, deleted, gen>>
        /\ hpc[h] = "diff" /\ hpc' = [hpc EXCEPT ![h] = "done"]
        /\ shown' = IF gen[h[1]] = h[2] THEN shown \ {h[1]} ELSE shown
    BY <1>12 DEF Finish, Cleared, Current
  <2>2. HandlersReached'
    BY <2>1
  <2>3. ShownIffCurrentActive'
    <3> SUFFICES ASSUME NEW s \in Sessions, s \notin deleted
                 PROVE  s \in shown' <=> (gen[s] # 0 /\ hpc'[<<s, gen[s]>>] \notin {"none", "done"})
      BY <2>1
    <3>1. CASE <<s, gen[s]>> = h
      BY <2>1, <3>1, RunPairs
    <3>2. CASE <<s, gen[s]>> # h
      BY <2>1, <3>2, RunPairs
    <3> QED
      BY <3>1, <3>2
  <2> QED
    BY <2>1, <2>2, <2>3 DEF RunsInv
<1>13. ASSUME NEW kind \in OutputKinds \cup StateKinds, NEW s \in Sessions, NEW g \in Gens,
              Deliver(kind, s, g)
       PROVE  RunsInv'
  BY <1>4, <1>13 DEF Deliver
<1>14. ASSUME NEW call \in calls, Served(call) PROVE RunsInv'
  BY <1>4, <1>14 DEF Served
<1>15. CASE UNCHANGED chatVars
  BY <1>4, <1>15 DEF chatVars
<1> QED
  BY <1>1, <1>2, <1>5, <1>6, <1>7, <1>8, <1>9, <1>10, <1>11, <1>12, <1>13, <1>14, <1>15
     DEF ChatStep

-----------------------------------------------------------------------------
(* The messages.                                                           *)

\* finalizePlaceholder leaves no message pending or blank, and gives none to
\* a handler that has none.
LEMMA FinalizedQuiet ==
  ASSUME NEW m \in Message, NEW reason \in Bodies \ {"empty"}
  PROVE  /\ m.state = "none" => Finalized(m, reason) = m
         /\ m.state # "none" =>
              Finalized(m, reason).state = "settled" /\ Finalized(m, reason).body # "empty"
         /\ m.state = "settled" /\ m.body # "empty" => Finalized(m, reason) = m
BY DEF Finalized, Message, Bodies

\* What a step may do to one handler: let it be, while its message may be
\* finalized or deleted; advance it; or hand it an event of the current run.
LetBe(h) ==
  /\ hpc'[h] = hpc[h]
  /\ \/ msg'[h] = msg[h]
     \/ msg'[h] = Finalized(msg[h], "[stopped]")
     \/ h[1] \in deleted' /\ msg'[h] = NoMessage
  /\ h \in toolRows' => h \in toolRows

Advanced(h) ==
  \/ hpc[h] = "none" /\ hpc'[h] = "attach" /\ msg'[h] = msg[h]
  \/ hpc[h] = "attach" /\ hpc'[h] = "listen"
  \/ hpc[h] = "listen" /\ hpc'[h] = "running" /\ msg'[h] = msg[h]
  \/ /\ hpc[h] = "running" /\ hpc'[h] = "diff"
     /\ ~Current(h) => msg'[h] = Settled(Finalized(msg[h], "[abandoned]"))
  \/ /\ hpc[h] = "diff" /\ hpc'[h] = "done"
     /\ msg'[h] = Finalized(msg[h], "[abandoned]") /\ h \notin toolRows'

Evented(h) == Current(h) /\ hpc[h] \in {"listen", "running", "diff"} /\ hpc'[h] = hpc[h]

Effect(h) == LetBe(h) \/ Advanced(h) \/ Evented(h)

LEMMA ClaimEffect ==
  ASSUME ChatInv, NEW h \in Run, view \in Sessions, Room(view), Claim(view),
         UNCHANGED <<msg, toolRows>>
  PROVE  Effect(h)
<1> USE DEF ChatInv, ChatTypeOK, ViewExists, HandlersReached
<1> DEFINE new == <<view, gen[view] + 1>>
<1>1. gen[view] + 1 \in Gens /\ gen[view] + 1 > gen[view] /\ new \in Run
  BY RunPairs, RunIdsAssumption DEF Room, Gens
<1>2. hpc[new] = "none" /\ hpc' = [hpc EXCEPT ![new] = "attach"]
  BY <1>1 DEF Claim
<1> QED
  BY <1>2 DEF Effect, LetBe, Advanced

LEMMA StopEffect ==
  ASSUME ChatInv, NEW h \in Run, NEW s \in Sessions, StopRun(s), UNCHANGED hpc
  PROVE  Effect(h)
BY DEF StopRun, RowsLeft, Effect, LetBe, ChatInv, ChatTypeOK

LEMMA EventEffect ==
  ASSUME ChatInv, NEW h \in Run, NEW kind \in OutputKinds \cup StateKinds, NEW s \in Sessions,
         NEW g \in Gens, Deliver(kind, s, g)
  PROVE  Effect(h)
<1> USE DEF ChatInv, ChatTypeOK
<1>1. hpc' = hpc
  BY DEF Deliver
<1>2. CASE UNCHANGED <<msg, toolRows>>
  BY <1>1, <1>2 DEF Effect, LetBe
<1>3. CASE OnText(s) \/ \E running \in BOOLEAN : OnTool(s, running)
  <2>1. CASE Listening(s) /\ h = Listener(s)
    BY <1>1, <2>1, RunPairs DEF Listening, Listener, Effect, Evented, Current
  <2>2. CASE ~(Listening(s) /\ h = Listener(s))
    <3>1. msg'[h] = msg[h] /\ (h \in toolRows' => h \in toolRows)
      BY <1>3, <2>2 DEF OnText, OnTool
    <3> QED
      BY <1>1, <3>1 DEF Effect, LetBe
  <2> QED
    BY <2>1, <2>2
<1> QED
  BY <1>2, <1>3 DEF Deliver, OutputKinds, StateKinds, OnQuestion, OnState, Missed

LEMMA SettleEffect ==
  ASSUME ChatInv, NEW h \in Run, NEW k \in Run, NEW ok \in BOOLEAN, Settle(k, ok)
  PROVE  Effect(h)
<1> USE DEF ChatInv, ChatTypeOK
<1>1. CASE h = k
  <2>1. hpc[h] = "running" /\ hpc'[h] = "diff" /\ msg'[h] = Settled(Rendered(h, ok))
    BY <1>1 DEF Settle
  <2>2. ~Current(h) => Rendered(h, ok) = Finalized(msg[h], "[abandoned]")
    BY DEF Rendered
  <2> QED
    BY <2>1, <2>2 DEF Effect, Advanced
<1>2. CASE h # k
  BY <1>2 DEF Settle, RowsLeft, Effect, LetBe
<1> QED
  BY <1>1, <1>2

LEMMA FinishEffect ==
  ASSUME ChatInv, NEW h \in Run, NEW k \in Run, Finish(k) PROVE Effect(h)
<1> USE DEF ChatInv, ChatTypeOK, Finish, RowsLeft, Effect
<1>1. CASE h = k
  BY <1>1 DEF Advanced
<1>2. CASE h # k
  BY <1>2 DEF LetBe
<1> QED
  BY <1>1, <1>2

LEMMA ChatEffect == ASSUME ChatInv, [ChatStep]_chatVars, NEW h \in Run PROVE Effect(h)
<1> USE DEF ChatInv, ChatTypeOK
<1>1. CASE UNCHANGED <<hpc, msg, toolRows>>
  BY <1>1 DEF Effect, LetBe
<1>2. CASE Submit
  BY <1>2, ClaimEffect DEF Submit, MaySubmit
<1>3. ASSUME NEW s \in Sessions, Stop(s) PROVE Effect(h)
  BY <1>3, StopEffect DEF Stop
<1>4. ASSUME NEW s \in Sessions, Restart(s) PROVE Effect(h)
  BY <1>1, <1>4, StopEffect DEF Restart
<1>5. ASSUME NEW s \in Sessions, Delete(s) PROVE Effect(h)
  BY <1>5 DEF Delete, RowsLeft, Effect, LetBe
<1>6. ASSUME NEW s \in Sessions, Resubmit(s) PROVE Effect(h)
  <2>1. CASE MaySubmit
    BY <1>6, <2>1, ClaimEffect DEF Resubmit, MaySubmit
  <2>2. CASE ~MaySubmit
    BY <1>1, <1>6, <2>2 DEF Resubmit
  <2> QED
    BY <2>1, <2>2
<1>7. ASSUME NEW k \in Run, Attached(k) \/ Invoke(k) PROVE Effect(h)
  <2>1. CASE h = k
    BY <1>7, <2>1 DEF Attached, Invoke, Effect, Advanced
  <2>2. CASE h # k
    BY <1>7, <2>2 DEF Attached, Invoke, Effect, LetBe
  <2> QED
    BY <2>1, <2>2
<1>8. ASSUME SubmitWithoutProject \/ UNCHANGED chatVars \/ \E call \in calls : Served(call)
      PROVE  Effect(h)
  BY <1>1, <1>8 DEF SubmitWithoutProject, chatVars, Served
<1>9. ASSUME NEW s \in Sessions,
             \/ Navigate(s) \/ RolledBack(s) \/ RollbackFails(s)
             \/ \E remember \in BOOLEAN : Answer(s, remember)
             \/ \E c \in {"pause", "resume"} : Signal(s, c)
      PROVE  Effect(h)
  BY <1>1, <1>9 DEF Navigate, RolledBack, RollbackFails, Answer, Signal
<1> QED
  BY <1>2, <1>3, <1>4, <1>5, <1>6, <1>7, <1>8, <1>9, SettleEffect, FinishEffect, EventEffect
     DEF ChatStep

LEMMA MessagesStep ==
  ASSUME ChatInv, [ChatStep]_chatVars, ChatTypeOK' PROVE BlankBefore' /\ FinishedIsQuiet'
<1> USE DEF ChatInv, ChatTypeOK
<1>1. ASSUME NEW h \in Run
      PROVE  /\ hpc'[h] \in {"none", "attach"} => msg'[h].state = "none"
             /\ hpc'[h] = "done" => /\ msg'[h].state # "pending"
                                    /\ msg'[h].state = "settled" => msg'[h].body # "empty"
                                    /\ h \notin toolRows'
  <2>1. Effect(h) /\ msg[h] \in Message
    BY <1>1, ChatEffect
  <2>2. NoMessage.state = "none"
    BY DEF NoMessage
  <2>3. /\ hpc[h] \in {"none", "attach"} => msg[h].state = "none"
        /\ hpc[h] = "done" => /\ msg[h].state # "pending"
                              /\ msg[h].state = "settled" => msg[h].body # "empty"
                              /\ h \notin toolRows
    BY <1>1 DEF BlankBefore, FinishedIsQuiet
  <2>4. \A reason \in {"[stopped]", "[abandoned]"} :
          /\ msg[h].state = "none" => Finalized(msg[h], reason) = msg[h]
          /\ msg[h].state # "none" => /\ Finalized(msg[h], reason).state = "settled"
                                      /\ Finalized(msg[h], reason).body # "empty"
    BY <2>1, FinalizedQuiet DEF Bodies
  <2>5. CASE LetBe(h)
    BY <2>2, <2>3, <2>4, <2>5 DEF LetBe
  <2>6. CASE Advanced(h)
    BY <2>3, <2>4, <2>6 DEF Advanced
  <2>7. CASE Evented(h)
    BY <2>7 DEF Evented
  <2> QED
    BY <2>1, <2>5, <2>6, <2>7 DEF Effect
<1> QED
  BY <1>1 DEF BlankBefore, FinishedIsQuiet

-----------------------------------------------------------------------------
(* The invariant of the composition.                                       *)

IInv == ChatInv /\ RunnerInv

LEMMA InitInv == Init => IInv
BY ChatInitInv, RunnerInitInv DEF Init, IInv

LEMMA StepInv == IInv /\ [Next]_vars => IInv'
<1> SUFFICES ASSUME IInv, [Next]_vars PROVE IInv'
  OBVIOUS
<1>1. [ChatStep]_chatVars /\ [RunnerNext]_runnerVars
  BY StepSplits DEF IInv, ChatInv, RunnerInv, TypeOK
<1>2. RunnerInv'
  BY <1>1, RunnerStepInv DEF IInv
<1>3. ChatTypeOK'
  BY <1>1, ChatTypeStep DEF IInv, ChatInv
<1>4. RunsInv' /\ BlankBefore' /\ FinishedIsQuiet'
  BY <1>1, <1>3, RunsStep, MessagesStep DEF IInv
<1> QED
  BY <1>2, <1>3, <1>4 DEF IInv, ChatInv, RunsInv

LEMMA Invariance == SafeSpec => []IInv
BY InitInv, StepInv, PTL DEF SafeSpec

\* A step takes a session off `runs` only when its generation moves, or when
\* the handler that owns the generation finishes.
LEMMA ClearingStep ==
  ASSUME IInv, [Next]_vars, NEW s \in Sessions, s \in shown, s \notin shown'
  PROVE  \/ gen'[s] = gen[s] + 1
         \/ hpc[<<s, gen[s]>>] = "diff" /\ hpc'[<<s, gen[s]>>] = "done"
<1> USE DEF IInv, ChatInv, ChatTypeOK
<1>1. [ChatStep]_chatVars
  BY StepSplits DEF RunnerInv, TypeOK
<1>2. ASSUME NEW t \in Sessions, StopRun(t) PROVE gen'[s] = gen[s] + 1
  BY <1>2 DEF StopRun
<1>3. ASSUME NEW h \in Run, Finish(h)
      PROVE  hpc[<<s, gen[s]>>] = "diff" /\ hpc'[<<s, gen[s]>>] = "done"
  <2>1. gen[h[1]] = h[2] /\ s = h[1]
    BY <1>3 DEF Finish, Cleared, Current
  <2>2. <<s, gen[s]>> = h
    BY <2>1, RunPairs
  <2> QED
    BY <1>3, <2>2 DEF Finish
<1>4. ~(shown \subseteq shown')
  OBVIOUS
<1>5. \/ \E t \in Sessions : StopRun(t)
      \/ \E h \in Run : Finish(h)
  BY <1>1, <1>4
     DEF ChatStep, Submit, SubmitWithoutProject, Stop, Navigate, Restart, Delete, Answer, Signal,
         RolledBack, RollbackFails, Resubmit, Attached, Invoke, Settle, Served, Deliver,
         Claim, chatVars
<1> QED
  BY <1>2, <1>3, <1>5

\* A settled bubble of a run whose generation has passed keeps what it says.
LEMMA FrozenStep ==
  ASSUME IInv, [Next]_vars, NEW h \in Run, hpc[h] # "none", gen[h[1]] > h[2],
         msg[h].state = "settled", msg[h].body # "empty"
  PROVE  msg'[h] = msg[h] \/ h[1] \in deleted'
<1> USE DEF IInv, ChatInv, ChatTypeOK
<1>1. Effect(h) /\ msg[h] \in Message
  BY StepSplits, ChatEffect DEF RunnerInv, TypeOK
<1>2. ~Current(h)
  BY RunPairs, RunIdsAssumption DEF Current, Gens
<1>3. \A reason \in {"[stopped]", "[abandoned]"} : Finalized(msg[h], reason) = msg[h]
  BY <1>1, FinalizedQuiet DEF Bodies
<1>4. Settled(msg[h]) = msg[h]
  BY <1>1 DEF Settled, Message
<1>5. hpc[h] # "attach"
  BY DEF BlankBefore
<1> QED
  BY <1>1, <1>2, <1>3, <1>4, <1>5 DEF Effect, LetBe, Advanced, Evented

-----------------------------------------------------------------------------
\* The composition implements the backend's own specification: the chat store
\* never drives run_agent and its companions in a way the backend alone would
\* not allow.
THEOREM BackendImplemented == SafeSpec => RunnerInit /\ [][RunnerNext]_runnerVars
<1>1. Init => RunnerInit
  BY DEF Init
<1>2. IInv /\ [Next]_vars => [RunnerNext]_runnerVars
  BY StepSplits DEF IInv, ChatInv, RunnerInv, TypeOK
<1> QED
  BY Invariance, <1>1, <1>2, PTL DEF SafeSpec

\* The state of the chat store and of the backend keeps its shape.
THEOREM TypeCorrect == SafeSpec => []TypeOK
<1>1. IInv => TypeOK
  BY DEF IInv, ChatInv, RunnerInv, TypeOK
<1> QED
  BY Invariance, <1>1, PTL

\* A session that exists is shown as working exactly while the handler of its
\* current generation is under way (submit's claim, stop, clearRun).
THEOREM ShownIsActive == SafeSpec => []ShownIffCurrentActive
<1>1. IInv => ShownIffCurrentActive
  BY DEF IInv, ChatInv
<1> QED
  BY Invariance, <1>1, PTL

\* A finished handler leaves no pending or blank message and no running tool
\* row behind (finalizePlaceholder, detach, closeRunningTools).
THEOREM FinishedRunsAreQuiet == SafeSpec => []FinishedIsQuiet
<1>1. IInv => FinishedIsQuiet
  BY DEF IInv, ChatInv
<1> QED
  BY Invariance, <1>1, PTL

\* No stale handler takes a newer run off the screen (clearRun).
THEOREM StaleNeverClears == SafeSpec => OnlyOwnerClears
<1>1. IInv /\ [Next]_vars =>
        [\A s \in Sessions : s \in shown /\ s \notin shown' =>
           \/ gen'[s] = gen[s] + 1
           \/ hpc[<<s, gen[s]>>] = "diff" /\ hpc'[<<s, gen[s]>>] = "done"]_vars
  BY ClearingStep
<1> QED
  BY Invariance, <1>1, PTL DEF SafeSpec, OnlyOwnerClears

\* What a superseded run's bubble says is final (bailIfStale, setPlaceholder,
\* finalizePlaceholder).
THEOREM StaleBubblesAreFrozen == SafeSpec => StaleBubbleFrozen
<1>1. IInv /\ [Next]_vars =>
        [\A h \in Run :
           /\ hpc[h] # "none" /\ gen[h[1]] > h[2]
           /\ msg[h].state = "settled" /\ msg[h].body # "empty"
           => msg'[h] = msg[h] \/ h[1] \in deleted']_vars
  BY FrozenStep
<1> QED
  BY Invariance, <1>1, PTL DEF SafeSpec, StaleBubbleFrozen
=============================================================================
