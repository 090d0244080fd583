----------------------------- MODULE ShellRuns ------------------------------
(***************************************************************************)
(* The console's shell: shell_run, shell_stop and the reaper of each       *)
(* command (src-tauri/src/commands/shell_run.rs), and the store behind the *)
(* input (src/stores/use-shell-runner-store.ts).                           *)
(*                                                                         *)
(* Everything in the backend goes through one lock around one child.  The  *)
(* reaper holds that lock while it awaits the child's end.                 *)
(***************************************************************************)
EXTENDS Naturals, Sequences, FiniteSets

CONSTANTS
  MaxCommands, \* bound: commands the user enters
  MaxHalts     \* bound: stops

ASSUME ShellConstants == MaxCommands \in Nat /\ MaxHalts \in Nat

VARIABLES
  entered,     \* commands entered so far
  invocation,  \* each command's shell_run
  shell,       \* each command's process
  reaper,      \* each command's reaping task
  childSlot,   \* the child in the state: whose, or 0
  holder,      \* the reaper that holds the lock while it waits, or 0
  shellEvents, \* shell://done events on their way
  prompt,      \* the store's status
  halts,       \* shell_stop calls on their way
  halted       \* stops so far

shellVars == <<entered, invocation, shell, reaper, childSlot, holder, shellEvents,
               prompt, halts, halted>>

Commands == 1 .. MaxCommands

\* "called": before the lock.  "spawning": the previous one is gone, no lock.
\* "spawned": about to put the child into the state.
InvocationPhases == {"none", "called", "spawning", "spawned", "failed", "over"}
\* "wanting": before the lock.  "waiting": holds it.  "reaped": has let go of it
\* with the exit code, and wants it again.
ReaperPhases == {"none", "wanting", "waiting", "reaped", "over"}

ShellTypeOK ==
  /\ entered \in 0 .. MaxCommands
  /\ invocation \in [Commands -> InvocationPhases]
  /\ shell \in [Commands -> {"none", "alive", "dead"}]
  /\ reaper \in [Commands -> ReaperPhases]
  /\ childSlot \in 0 .. MaxCommands
  /\ holder \in 0 .. MaxCommands
  /\ shellEvents \in Seq(Commands)
  /\ prompt \in {"idle", "running", "ended"}
  /\ halts \in 0 .. MaxHalts /\ halted \in 0 .. MaxHalts

ShellInit ==
  /\ entered = 0
  /\ invocation = [c \in Commands |-> "none"]
  /\ shell = [c \in Commands |-> "none"]
  /\ reaper = [c \in Commands |-> "none"]
  /\ childSlot = 0 /\ holder = 0
  /\ shellEvents = <<>> /\ prompt = "idle" /\ halts = 0 /\ halted = 0

LockFree == holder = 0

\* start_kill, or the drop of a child spawned with kill_on_drop.
DeadAfter(c) == IF c = 0 THEN shell ELSE [shell EXCEPT ![c] = "dead"]

\* A slip: dropping a child lets it live on.
DroppedAlive(c) == shell
Dropped(c) == DeadAfter(c)

-----------------------------------------------------------------------------
(* The store.  A command may be entered while another one runs.            *)

EnterCommand ==
  /\ entered < MaxCommands
  /\ entered' = entered + 1
  /\ invocation' = [invocation EXCEPT ![entered + 1] = "called"]
  /\ prompt' = "running"
  /\ UNCHANGED <<shell, reaper, childSlot, holder, shellEvents, halts, halted>>

PressStop ==
  /\ prompt = "running" /\ halted < MaxHalts
  /\ halts' = halts + 1 /\ halted' = halted + 1
  /\ UNCHANGED <<entered, invocation, shell, reaper, childSlot, holder,
                 shellEvents, prompt>>

OnShellDone ==
  /\ shellEvents # <<>>
  /\ shellEvents' = Tail(shellEvents)
  /\ prompt' = "ended"
  /\ UNCHANGED <<entered, invocation, shell, reaper, childSlot, holder, halts, halted>>

OnRunError(c) ==
  /\ invocation[c] = "failed"
  /\ invocation' = [invocation EXCEPT ![c] = "over"]
  /\ prompt' = "ended"
  /\ UNCHANGED <<entered, shell, reaper, childSlot, holder, shellEvents, halts, halted>>

-----------------------------------------------------------------------------
(* The backend.                                                            *)

shellStoreVars == <<entered, prompt, halts, halted>>

\* The previous child is killed and dropped, or the sandbox refuses.
KillPrevious(c) ==
  /\ invocation[c] = "called"
  /\ \/ invocation' = [invocation EXCEPT ![c] = "failed"] /\ UNCHANGED <<shell, childSlot>>
     \/ /\ LockFree
        /\ invocation' = [invocation EXCEPT ![c] = "spawning"]
        /\ shell' = DeadAfter(childSlot)
        /\ childSlot' = 0
  /\ UNCHANGED <<reaper, holder, shellEvents, shellStoreVars>>

SpawnShell(c) ==
  /\ invocation[c] = "spawning"
  /\ \/ invocation' = [invocation EXCEPT ![c] = "failed"] /\ UNCHANGED shell
     \/ /\ invocation' = [invocation EXCEPT ![c] = "spawned"]
        /\ shell' = [shell EXCEPT ![c] = "alive"]
  /\ UNCHANGED <<reaper, childSlot, holder, shellEvents, shellStoreVars>>

StoreChild(c) ==
  /\ invocation[c] = "spawned" /\ LockFree
  /\ invocation' = [invocation EXCEPT ![c] = "over"]
  /\ shell' = Dropped(childSlot)
  /\ childSlot' = c
  /\ reaper' = [reaper EXCEPT ![c] = "wanting"]
  /\ UNCHANGED <<holder, shellEvents, shellStoreVars>>

ShellEnds(c) ==
  /\ shell[c] = "alive" /\ invocation[c] = "over"
  /\ shell' = [shell EXCEPT ![c] = "dead"]
  /\ UNCHANGED <<invocation, reaper, childSlot, holder, shellEvents, shellStoreVars>>

\* It awaits whatever child is in the state by then.
Reap(c) ==
  /\ reaper[c] = "wanting" /\ LockFree
  /\ IF childSlot = 0 THEN reaper' = [reaper EXCEPT ![c] = "over"] /\ UNCHANGED holder
     ELSE reaper' = [reaper EXCEPT ![c] = "waiting"] /\ holder' = c
  /\ UNCHANGED <<invocation, shell, childSlot, shellEvents, shellStoreVars>>

\* The guard's block ends with the wait; a slip keeps the guard for the rest.
KeptLock == holder
ReleasedLock == 0

Reaped(c) ==
  /\ reaper[c] = "waiting" /\ shell[childSlot] = "dead"
  /\ reaper' = [reaper EXCEPT ![c] = "reaped"]
  /\ holder' = ReleasedLock
  /\ UNCHANGED <<invocation, shell, childSlot, shellEvents, shellStoreVars>>

\* The slips announce the end only of the child still found in the state, or of
\* whatever is found there.
AnnouncedFound(c) == Append(shellEvents, childSlot)
AnnouncedIfFound(c) == IF childSlot = c THEN Append(shellEvents, c) ELSE shellEvents
Announced(c) == Append(shellEvents, c)

\* The state is emptied, whichever child is in it.
ForgetChild(c) ==
  /\ reaper[c] = "reaped" /\ LockFree
  /\ reaper' = [reaper EXCEPT ![c] = "over"]
  /\ shell' = Dropped(childSlot)
  /\ childSlot' = 0
  /\ shellEvents' = Announced(c)
  /\ UNCHANGED <<invocation, holder, shellStoreVars>>

ShellStop ==
  /\ halts > 0 /\ LockFree
  /\ halts' = halts - 1
  /\ shell' = DeadAfter(childSlot)
  /\ UNCHANGED <<entered, invocation, reaper, childSlot, holder, shellEvents,
                 prompt, halted>>

ShellNext ==
  \/ EnterCommand \/ PressStop \/ OnShellDone \/ ShellStop
  \/ \E c \in Commands : \/ OnRunError(c) \/ KillPrevious(c) \/ SpawnShell(c) \/ StoreChild(c)
                         \/ ShellEnds(c) \/ Reap(c) \/ Reaped(c) \/ ForgetChild(c)

\* Nothing is asked of the lock's queue, or of commands: they may run forever.
ShellFairness ==
  /\ WF_shellVars(OnShellDone)
  /\ \A c \in Commands : WF_shellVars(OnRunError(c) \/ SpawnShell(c) \/ Reaped(c))

ShellSpec == ShellInit /\ [][ShellNext]_shellVars /\ ShellFairness

-----------------------------------------------------------------------------
(* What the code guarantees.                                               *)

\* "The UI can never lose a process behind a new one": what lives is the child
\* in the state, or a command still being started.
NoLostShell ==
  \A c \in Commands : shell[c] = "alive" => childSlot = c \/ invocation[c] = "spawned"

\* A command whose process has ended does not block the others for good.
LockComesBack == []<>~(holder # 0 /\ shell[childSlot] = "dead")

\* "emits `shell://done` with the exit code when the child terminates": the
\* console does not go on showing a command that has ended.
EndIsShown ==
  prompt = "running" =>
    \/ shellEvents # <<>>
    \/ \E c \in Commands : \/ invocation[c] \notin {"none", "over"}
                           \/ shell[c] = "alive" \/ reaper[c] \in {"waiting", "reaped"}
                           \/ reaper[c] = "wanting" /\ childSlot # 0

\* No command is lost, whether it lives or has ended.
ShellSafe == NoLostShell /\ EndIsShown

\* What the comments promise beyond that.

\* "Re-invoking `shell_run` kills the previous child first".
RerunKills ==
  \A c, d \in Commands :
    (c < d /\ shell[c] = "alive" /\ invocation[d] = "called")
      ~> (shell[c] = "dead" \/ invocation[d] = "over")

\* A stop ends the command that runs.
StopEndsCommand ==
  \A c \in Commands : (halts > 0 /\ childSlot = c) ~> (shell[c] = "dead")
=============================================================================
