---------------------------- MODULE AgentRunner ----------------------------
(***************************************************************************)
(* The backend that runs external agents: the `run_agent` command, the     *)
(* pseudo-terminal thread behind it, the map of live runs, and the         *)
(* commands that answer, pause, resume and stop a run                      *)
(* (src-tauri/src/commands/agent_runner.rs).                               *)
(*                                                                         *)
(* The frontend passes its session id as the run id, so one run id is used *)
(* by every invocation the session ever makes.  An invocation is therefore *)
(* a pair <<session, n>>, while the map of live runs has one slot per      *)
(* session.                                                                *)
(***************************************************************************)
EXTENDS RunIds

CONSTANTS
  MaxEvents,  \* bound: events emitted and not yet delivered to the webview
  Kinds       \* what agents do on their terminal: a subset of OutputKinds

OutputKinds == {"text", "tool", "toolend", "ask"}

ASSUME RunnerConstants ==
  /\ MaxEvents \in Nat
  /\ Kinds \subseteq OutputKinds

VARIABLES
  cmd,        \* progress of each invocation of run_agent
  proc,       \* the agent process of each invocation
  killed,     \* invocations whose process has been sent the kill signal
  suspended,  \* invocations whose process is stopped by SIGSTOP
  handle,     \* RunnerState.runs: the invocation registered per run id, or 0
  events      \* events emitted to the webview, oldest first

runnerVars == <<cmd, proc, killed, suspended, handle, events>>

\* "entered": from the call to the spawn, the prerun snapshot included.
\* "spawned": the process runs, its handle is not in the map yet.
\* "await":   registered, waiting for the exit code.
\* "postrun": handle removed, taking the postrun snapshot.
CmdStates == {"none", "entered", "spawned", "await", "postrun", "ok", "err"}
ProcStates == {"none", "alive", "asking", "exit0", "exit1"}
StateKinds == {"paused", "running"}
Event == (OutputKinds \cup StateKinds) \X Sessions \X Gens

RunnerTypeOK ==
  /\ cmd \in [Run -> CmdStates]
  /\ proc \in [Run -> ProcStates]
  /\ killed \in SUBSET Run
  /\ suspended \in SUBSET Run
  /\ handle \in [Sessions -> 0 .. MaxGen]
  /\ events \in Seq(Event)

RunnerInit ==
  /\ cmd = [r \in Run |-> "none"]
  /\ proc = [r \in Run |-> "none"]
  /\ killed = {}
  /\ suspended = {}
  /\ handle = [s \in Sessions |-> 0]
  /\ events = <<>>

Live(r) == proc[r] \in {"alive", "asking"}
Exited(r) == proc[r] \in {"exit0", "exit1"}
Returned(r) == cmd[r] \in {"ok", "err"}

-----------------------------------------------------------------------------
(* run_agent, cut at its awaits.                                           *)

\* The webview's invoke reaches the command.
EnterRun(r) ==
  /\ cmd[r] = "none"
  /\ cmd' = [cmd EXCEPT ![r] = "entered"]
  /\ UNCHANGED <<proc, killed, suspended, handle, events>>

\* Sandbox, configuration, openpty or spawn failed: no process, an error.
StartFails(r) ==
  /\ cmd[r] = "entered"
  /\ cmd' = [cmd EXCEPT ![r] = "err"]
  /\ UNCHANGED <<proc, killed, suspended, handle, events>>

\* After the prerun snapshot the PTY thread spawns the agent and hands over
\* its killer and writer.
SpawnAgent(r) ==
  /\ cmd[r] = "entered"
  /\ cmd' = [cmd EXCEPT ![r] = "spawned"]
  /\ proc' = [proc EXCEPT ![r] = "alive"]
  /\ UNCHANGED <<killed, suspended, handle, events>>

\* The agent is spawned, but the PTY's writer or reader cannot be taken: the
\* command fails, and the child is dropped without being killed.
SetupFails(r) ==
  /\ cmd[r] = "entered"
  /\ cmd' = [cmd EXCEPT ![r] = "err"]
  /\ proc' = [proc EXCEPT ![r] = "alive"]
  /\ UNCHANGED <<killed, suspended, handle, events>>

\* The handshake arrives: the handle replaces whatever the run id mapped to.
RegisterRun(r) ==
  /\ cmd[r] = "spawned"
  /\ cmd' = [cmd EXCEPT ![r] = "await"]
  /\ handle' = [handle EXCEPT ![r[1]] = r[2]]
  /\ UNCHANGED <<proc, killed, suspended, events>>

\* Slips in the teardown: the map entry is forgotten, the exit code is not
\* waited for, or only a run that is still registered is torn down.
TeardownKeepsHandle(r) ==
  /\ cmd[r] = "await" /\ Exited(r)
  /\ cmd' = [cmd EXCEPT ![r] = "postrun"]
  /\ UNCHANGED <<proc, killed, suspended, handle, events>>
TeardownEarly(r) ==
  /\ cmd[r] = "await"
  /\ cmd' = [cmd EXCEPT ![r] = "postrun"]
  /\ handle' = [handle EXCEPT ![r[1]] = 0]
  /\ UNCHANGED <<proc, killed, suspended, events>>
TeardownIfRegistered(r) == handle[r[1]] = r[2] /\ Exited(r) /\ TeardownEarly(r)

\* The exit code arrives: the run id is removed from the map, whichever
\* invocation it maps to by then.
Teardown(r) ==
  /\ cmd[r] = "await"
  /\ Exited(r)
  /\ cmd' = [cmd EXCEPT ![r] = "postrun"]
  /\ handle' = [handle EXCEPT ![r[1]] = 0]
  /\ UNCHANGED <<proc, killed, suspended, events>>

\* The postrun snapshot is taken and the command resolves or rejects.
ReturnRun(r) ==
  /\ cmd[r] = "postrun"
  /\ cmd' = [cmd EXCEPT ![r] = IF proc[r] = "exit0" THEN "ok" ELSE "err"]
  /\ UNCHANGED <<proc, killed, suspended, handle, events>>

-----------------------------------------------------------------------------
(* The agent process, seen through its terminal.                           *)

\* A line of output, or a prompt at which the agent goes quiet.  The prompt
\* is raised once: the reader remembers it until another line is printed.
\* Nobody reads the terminal of a run whose setup failed.
Emit(r, kind) ==
  /\ proc[r] = "alive" /\ ~Returned(r)
  /\ r \notin suspended
  /\ Len(events) < MaxEvents
  /\ events' = Append(events, <<kind, r[1], r[2]>>)
  /\ proc' = IF kind = "ask" THEN [proc EXCEPT ![r] = "asking"] ELSE proc
  /\ UNCHANGED <<cmd, killed, suspended, handle>>

\* The process ends, by itself or because of the signal.  A process that is
\* suspended leaves the signal pending.
ExitProc(r, code) ==
  /\ Live(r)
  /\ r \notin suspended
  /\ proc' = [proc EXCEPT ![r] = code]
  /\ UNCHANGED <<cmd, killed, suspended, handle, events>>

-----------------------------------------------------------------------------
(* The other commands.  Each takes the map's lock once and acts on the     *)
(* invocation the run id maps to at that moment.                           *)

\* A slip: the missing handle is not checked for.
StopAgentUnchecked(s) ==
  /\ handle' = [handle EXCEPT ![s] = 0]
  /\ killed' = killed \cup {<<s, handle[s]>>}
  /\ UNCHANGED <<cmd, proc, suspended, events>>

StopAgent(s) ==
  /\ handle' = [handle EXCEPT ![s] = 0]
  /\ killed' = IF handle[s] = 0 THEN killed ELSE killed \cup {<<s, handle[s]>>}
  /\ UNCHANGED <<cmd, proc, suspended, events>>

\* stop_agent without a run id drains the map.
StopAll ==
  /\ handle' = [s \in Sessions |-> 0]
  /\ killed' = killed \cup {<<s, handle[s]>> : s \in {t \in Sessions : handle[t] # 0}}
  /\ UNCHANGED <<cmd, proc, suspended, events>>

AnswerAgent(s) ==
  /\ proc' = IF handle[s] # 0 /\ proc[<<s, handle[s]>>] = "asking"
               THEN [proc EXCEPT ![<<s, handle[s]>>] = "alive"]
               ELSE proc
  /\ UNCHANGED <<cmd, killed, suspended, handle, events>>

\* SIGSTOP and SIGCONT reach only a process that still exists.
Signalled(s) == handle[s] # 0 /\ Live(<<s, handle[s]>>)

PauseAgent(s) ==
  \/ /\ Signalled(s)
     /\ Len(events) < MaxEvents
     /\ suspended' = suspended \cup {<<s, handle[s]>>}
     /\ events' = Append(events, <<"paused", s, handle[s]>>)
     /\ UNCHANGED <<cmd, proc, killed, handle>>
  \/ ~Signalled(s) /\ UNCHANGED runnerVars

ResumeAgent(s) ==
  \/ /\ Signalled(s)
     /\ Len(events) < MaxEvents
     /\ suspended' = suspended \ {<<s, handle[s]>>}
     /\ events' = Append(events, <<"running", s, handle[s]>>)
     /\ UNCHANGED <<cmd, proc, killed, handle>>
  \/ ~Signalled(s) /\ UNCHANGED runnerVars

\* The webview takes the oldest event.
TakeEvent ==
  /\ events # <<>>
  /\ events' = Tail(events)
  /\ UNCHANGED <<cmd, proc, killed, suspended, handle>>

-----------------------------------------------------------------------------
(* The backend on its own: any frontend may call it.                       *)

RunStep(r) ==
  \/ StartFails(r) \/ SpawnAgent(r) \/ SetupFails(r)
  \/ RegisterRun(r) \/ Teardown(r) \/ ReturnRun(r)

AgentStep(r) ==
  \/ \E kind \in Kinds : Emit(r, kind)
  \/ \E code \in {"exit0", "exit1"} : ExitProc(r, code)

Command(s) == StopAgent(s) \/ AnswerAgent(s) \/ PauseAgent(s) \/ ResumeAgent(s)

RunnerNext ==
  \/ \E r \in Run : EnterRun(r) \/ RunStep(r) \/ AgentStep(r)
  \/ \E s \in Sessions : Command(s)
  \/ StopAll \/ TakeEvent

RunnerSpec == RunnerInit /\ [][RunnerNext]_runnerVars

-----------------------------------------------------------------------------
(* Properties.                                                             *)

\* "An entry exists only while a run is in flight" (RunnerState): the map
\* never points at an invocation that is not registered yet or has already
\* been torn down, whatever order stops, re-registrations and teardowns of
\* the same run id come in.
HandleInFlight ==
  \A s \in Sessions : handle[s] # 0 => cmd[<<s, handle[s]>>] = "await"

\* Only an invocation that reached the map can have been killed or suspended,
\* and once one left the wait for its exit code its process is over: the
\* postrun snapshot is never taken under a running agent.
TornDownIsOver ==
  /\ \A r \in killed \cup suspended : cmd[r] \in {"await", "postrun", "ok", "err"}
  /\ \A r \in Run : cmd[r] \in {"postrun", "ok"} => Exited(r)
=============================================================================
