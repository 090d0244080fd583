------------------------------ MODULE Sidecar ------------------------------
(***************************************************************************)
(* The lifecycle manager of the built-in inference runtime                 *)
(* (src-tauri/src/sidecar.rs): spawning `aka-runtime`, watching it for     *)
(* READY and for its death, restarting it within a budget, restarting it   *)
(* on the user's request, and killing it when the app exits.               *)
(*                                                                         *)
(* The state behind the mutex is touched by many tasks of a multi-threaded *)
(* executor: one watcher per process, and one task per attempt to bring a  *)
(* process up (the one of setup, the ones watchers trigger, the ones of    *)
(* restart_runtime).  A task's steps are cut where it releases the lock,   *)
(* sleeps or awaits.                                                       *)
(***************************************************************************)
EXTENDS Naturals, FiniteSets

CONSTANTS
  MaxRestarts,   \* MAX_RESTARTS
  MaxProcs,      \* bound: processes ever spawned
  MaxUser,       \* bound: calls of restart_runtime
  MaxFaults,     \* bound: crashes and hangs of the runtime
  MaxLaunches,   \* bound: launches of the app
  SpawnMayFail   \* the kinds of task whose spawn may return an error

TaskKinds == {"boot", "auto", "user"}

ASSUME SidecarConstants ==
  /\ MaxRestarts \in Nat /\ MaxProcs \in Nat /\ MaxUser \in Nat
  /\ MaxFaults \in Nat /\ MaxLaunches \in Nat
  /\ SpawnMayFail \subseteq TaskKinds

VARIABLES
  child,    \* SidecarState.child, 0 for None
  epoch,    \* SidecarState.epoch
  status,   \* SidecarState.status
  stamps,   \* how many restart_stamps there are
  proc,     \* each runtime process
  port,     \* the port it was told to bind
  lockfile, \* the process named in aka-runtime.pid, 0 without the file
  watch,    \* the watcher of each process
  wepoch,   \* the epoch that watcher captured
  tpc,      \* the progress of each task
  tproc,    \* the process a task has spawned
  phase,    \* where the app is in its own life
  launches, \* launches so far
  faults    \* crashes and hangs so far

sidecarVars == <<child, epoch, status, stamps, proc, port, lockfile, watch, wepoch,
                 tpc, tproc, phase, launches, faults>>

Procs == 1 .. MaxProcs
Ports == 0 .. MaxProcs      \* 0 is PREFERRED_PORT
Boot == <<"boot", 0>>
AutoTask(p) == <<"auto", p>>
UserTask(u) == <<"user", u>>
Tasks == {Boot} \cup {AutoTask(p) : p \in Procs} \cup {UserTask(u) : u \in 1 .. MaxUser}

\* "booting": from the spawn on.  "claiming": past the lockfile's old owner.
ProcStates == {"none", "booting", "claiming", "serving", "dead"}
\* "probing": awaiting health_ok.  "unready": READY came, the probe failed.
WatchStates == {"none", "starting", "probing", "unready", "ready", "done"}
\* "queued": triggered, not run yet.  "due": at the top of spawn_sidecar.
\* "reclaimed": past the orphan check.  "adopting": has spawned its process.
TaskStates == {"idle", "queued", "due", "reclaimed", "adopting", "gaveup", "done"}

SidecarTypeOK ==
  /\ child \in 0 .. MaxProcs
  /\ epoch \in Nat
  /\ status \in {"Stopped", "Starting", "Ready", "Restarting", "Error"}
  /\ stamps \in 0 .. MaxRestarts
  /\ proc \in [Procs -> ProcStates]
  /\ port \in [Procs -> Ports]
  /\ lockfile \in 0 .. MaxProcs
  /\ watch \in [Procs -> WatchStates]
  /\ wepoch \in [Procs -> Nat]
  /\ tpc \in [Tasks -> TaskStates]
  /\ tproc \in [Tasks -> 0 .. MaxProcs]
  /\ \A t \in Tasks : tpc[t] = "adopting" => tproc[t] # 0
  /\ phase \in {"running", "destroyed", "exiting", "exited"}
  /\ launches \in Nat
  /\ faults \in Nat

SidecarInit ==
  /\ child = 0 /\ epoch = 0 /\ status = "Stopped" /\ stamps = 0
  /\ proc = [p \in Procs |-> "none"]
  /\ port = [p \in Procs |-> 0] /\ lockfile = 0
  /\ watch = [p \in Procs |-> "none"]
  /\ wepoch = [p \in Procs |-> 0]
  /\ tpc = [t \in Tasks |-> IF t = Boot THEN "due" ELSE "idle"]
  /\ tproc = [t \in Tasks |-> 0]
  /\ phase = "running" /\ launches = 1 /\ faults = 0

Alive(p) == proc[p] \in {"booting", "claiming", "serving"}
Watching(p) == watch[p] \in {"starting", "probing", "unready", "ready"}
PortFree(n) == \A p \in Procs : ~(proc[p] = "serving" /\ port[p] = n)

\* A slip: the child is killed and not taken.
KillOnly ==
  /\ child' = child
  /\ proc' = IF child # 0 THEN [proc EXCEPT ![child] = "dead"] ELSE proc

\* child.take() followed by kill().
TakeAndKill ==
  /\ child' = 0
  /\ proc' = IF child # 0 THEN [proc EXCEPT ![child] = "dead"] ELSE proc

-----------------------------------------------------------------------------
(* spawn_sidecar.                                                          *)

\* Without a child, whatever holds the preferred port is killed; the thread
\* then sleeps before it looks for a port.
Reclaim(t) ==
  /\ tpc[t] = "due" /\ phase # "exited"
  /\ tpc' = [tpc EXCEPT ![t] = "reclaimed"]
  /\ proc' = [p \in Procs |->
                IF child = 0 /\ proc[p] = "serving" /\ port[p] = 0 THEN "dead" ELSE proc[p]]
  /\ UNCHANGED <<child, epoch, status, stamps, port, lockfile, watch, wepoch, tproc,
                 phase, launches, faults>>

\* find_available_port and the spawn; the process has not bound its port yet.
Launch(t) ==
  /\ tpc[t] = "reclaimed" /\ phase # "exited"
  /\ \E p \in Procs, n \in Ports :
       /\ proc[p] = "none" /\ \A q \in 1 .. p - 1 : proc[q] # "none"
       /\ PortFree(n) /\ \A m \in 0 .. n - 1 : ~PortFree(m)
       /\ proc' = [proc EXCEPT ![p] = "booting"]
       /\ port' = [port EXCEPT ![p] = n]
       /\ tproc' = [tproc EXCEPT ![t] = p]
  /\ tpc' = [tpc EXCEPT ![t] = "adopting"]
  /\ UNCHANGED <<child, epoch, status, stamps, lockfile, watch, wepoch, phase,
                 launches, faults>>

\* The spawn returns an error: restart_sidecar surfaces it, setup only logs
\* it, and restart_runtime returns it to its caller.
SpawnFails(t) ==
  /\ tpc[t] = "reclaimed" /\ phase # "exited" /\ t[1] \in SpawnMayFail
  /\ tpc' = [tpc EXCEPT ![t] = "done"]
  /\ status' = IF t[1] = "auto" THEN "Error" ELSE status
  /\ UNCHANGED <<child, epoch, stamps, proc, port, lockfile, watch, wepoch, tproc,
                 phase, launches, faults>>

\* The epoch a spawn gets, and a slip that gives it the old one.
SpawnEpochKept == epoch
SpawnEpoch == epoch + 1

\* The lock again: the new process becomes the child, under a new epoch, and
\* gets its watcher.
Adopt(t) ==
  /\ tpc[t] = "adopting" /\ phase # "exited"
  /\ tpc' = [tpc EXCEPT ![t] = "done"]
  /\ child' = tproc[t]
  /\ epoch' = SpawnEpoch
  /\ status' = "Starting"
  /\ watch' = [watch EXCEPT ![tproc[t]] = "starting"]
  /\ wepoch' = [wepoch EXCEPT ![tproc[t]] = SpawnEpoch]
  /\ UNCHANGED <<stamps, proc, port, lockfile, tproc, phase, launches, faults>>

-----------------------------------------------------------------------------
(* The runtime process.                                                    *)

\* It kills the process named in the lockfile, and waits.
ClaimLockfile(p) ==
  /\ proc[p] = "booting"
  /\ proc' = [q \in Procs |-> CASE q = p -> "claiming"
                                [] q = lockfile /\ q # p /\ Alive(q) -> "dead"
                                [] OTHER -> proc[q]]
  /\ UNCHANGED <<child, epoch, status, stamps, port, lockfile, watch, wepoch, tpc,
                 tproc, phase, launches, faults>>

\* It puts itself into the lockfile, binds its port and prints READY, or finds
\* the port taken and exits, which leaves the lockfile behind.
Bind(p) ==
  /\ proc[p] = "claiming"
  /\ proc' = [proc EXCEPT ![p] = IF PortFree(port[p]) THEN "serving" ELSE "dead"]
  /\ lockfile' = p
  /\ UNCHANGED <<child, epoch, status, stamps, port, watch, wepoch, tpc, tproc,
                 phase, launches, faults>>

Fault == faults < MaxFaults /\ faults' = faults + 1

Crash(p) ==
  /\ Alive(p) /\ Fault
  /\ proc' = [proc EXCEPT ![p] = "dead"]
  /\ UNCHANGED <<child, epoch, status, stamps, port, lockfile, watch, wepoch, tpc,
                 tproc, phase, launches>>

-----------------------------------------------------------------------------
(* watch_sidecar.                                                          *)

WatchTo(p, w) == watch' = [watch EXCEPT ![p] = w]

SeeReady(p) ==
  /\ watch[p] = "starting" /\ proc[p] = "serving"
  /\ WatchTo(p, "probing")
  /\ UNCHANGED <<child, epoch, status, stamps, proc, port, lockfile, wepoch, tpc,
                 tproc, phase, launches, faults>>

\* The answer may be older than a death of the process; the epoch is not
\* looked at.
ProbeOk(p) ==
  /\ watch[p] = "probing"
  /\ WatchTo(p, "ready")
  /\ status' = "Ready"
  /\ UNCHANGED <<child, epoch, stamps, proc, port, lockfile, wepoch, tpc, tproc,
                 phase, launches, faults>>

ProbeFails(p) ==
  /\ watch[p] = "probing"
  /\ WatchTo(p, "unready")
  /\ IF proc[p] = "dead" THEN UNCHANGED faults ELSE Fault
  /\ UNCHANGED <<child, epoch, status, stamps, proc, port, lockfile, wepoch, tpc,
                 tproc, phase, launches>>

\* superseded, and a slip that turns it around.
SupersededInverted(p) == wepoch[p] = epoch
Superseded(p) == wepoch[p] # epoch

\* The watcher ends, and triggers a restart unless it has been superseded.
EndWatch(p) ==
  /\ WatchTo(p, "done")
  /\ tpc' = IF Superseded(p) THEN tpc ELSE [tpc EXCEPT ![AutoTask(p)] = "queued"]
  /\ UNCHANGED <<child, epoch, status, stamps, proc, port, lockfile, wepoch, tproc,
                 phase, launches>>

\* Terminated, or the channel closed.
SeeDeath(p) ==
  /\ watch[p] \in {"starting", "unready", "ready"} /\ proc[p] = "dead"
  /\ EndWatch(p)
  /\ UNCHANGED faults

\* READY_TIMEOUT.
ReadyTimeout(p) ==
  /\ watch[p] \in {"starting", "unready"}
  /\ EndWatch(p)
  /\ IF watch[p] = "starting" THEN Fault ELSE UNCHANGED faults

-----------------------------------------------------------------------------
(* Restarts and exit.                                                      *)

\* The budget of restarts in the window, and a slip by one.
BudgetOffByOne(kept) == kept <= MaxRestarts
WithinBudget(kept) == kept < MaxRestarts

\* restart_sidecar up to its sleep.  Some of the stamps have left the window.
RestartSidecar(p) ==
  /\ tpc[AutoTask(p)] = "queued" /\ phase # "exited"
  /\ \E kept \in 0 .. stamps :
       \/ /\ ~WithinBudget(kept)
          /\ stamps' = kept
          /\ status' = "Error"
          /\ tpc' = [tpc EXCEPT ![AutoTask(p)] = "gaveup"]
          /\ UNCHANGED <<child, proc>>
       \/ /\ WithinBudget(kept)
          /\ stamps' = kept + 1
          /\ status' = "Restarting"
          /\ tpc' = [tpc EXCEPT ![AutoTask(p)] = "due"]
          /\ TakeAndKill
  /\ UNCHANGED <<epoch, port, lockfile, watch, wepoch, tproc, phase, launches,
                 faults>>

\* restart_runtime up to its sleep; enable_cuda_mode ends in the same call.
RestartRuntime(u) ==
  /\ tpc[UserTask(u)] = "idle" /\ phase = "running"
  /\ tpc' = [tpc EXCEPT ![UserTask(u)] = "due"]
  /\ stamps' = 0
  /\ epoch' = epoch + 1
  /\ status' = "Restarting"
  /\ TakeAndKill
  /\ UNCHANGED <<port, lockfile, watch, wepoch, tproc, phase, launches, faults>>

\* The window is destroyed, then the exit is requested; or only the latter.
Shutdown ==
  /\ \/ phase = "running" /\ phase' \in {"destroyed", "exiting"}
     \/ phase = "destroyed" /\ phase' = "exiting"
  /\ epoch' = epoch + 1
  /\ status' = "Stopped"
  /\ TakeAndKill
  /\ UNCHANGED <<stamps, port, lockfile, watch, wepoch, tpc, tproc, launches,
                 faults>>

\* The app's process is gone, and every task with it: after shutdown, or
\* because it died.
Gone ==
  /\ phase' = "exited"
  /\ child' = 0 /\ epoch' = 0 /\ status' = "Stopped" /\ stamps' = 0
  /\ watch' = [p \in Procs |-> IF watch[p] = "none" THEN "none" ELSE "done"]
  /\ wepoch' = [p \in Procs |-> 0]
  /\ tpc' = [t \in Tasks |-> IF tpc[t] = "idle" THEN "idle" ELSE "done"]
  /\ tproc' = [t \in Tasks |-> 0]
  /\ UNCHANGED <<proc, port, lockfile, launches, faults>>

Exit == phase = "exiting" /\ Gone
AppDies == phase \in {"running", "destroyed"} /\ Gone

Relaunch ==
  /\ phase = "exited" /\ launches < MaxLaunches
  /\ phase' = "running"
  /\ launches' = launches + 1
  /\ tpc' = [tpc EXCEPT ![Boot] = "due"]
  /\ UNCHANGED <<child, epoch, status, stamps, proc, port, lockfile, watch, wepoch,
                 tproc, faults>>

-----------------------------------------------------------------------------
TaskStep(t) == Reclaim(t) \/ Launch(t) \/ SpawnFails(t) \/ Adopt(t)
WatchStep(p) == SeeReady(p) \/ ProbeOk(p) \/ ProbeFails(p) \/ SeeDeath(p)

SidecarNext ==
  \/ \E t \in Tasks : TaskStep(t)
  \/ \E p \in Procs : \/ ClaimLockfile(p) \/ Bind(p) \/ Crash(p)
                      \/ WatchStep(p) \/ ReadyTimeout(p) \/ RestartSidecar(p)
  \/ \E u \in 1 .. MaxUser : RestartRuntime(u)
  \/ Shutdown \/ Exit \/ AppDies \/ Relaunch

\* The executor runs every task and watcher that can run, the deadline passes,
\* and a runtime that starts either binds its port or dies.
SidecarFairness ==
  /\ \A t \in Tasks : WF_sidecarVars(TaskStep(t))
  /\ \A p \in Procs : /\ WF_sidecarVars(ClaimLockfile(p) \/ Bind(p))
                      /\ WF_sidecarVars(WatchStep(p))
                      /\ WF_sidecarVars(watch[p] = "unready" /\ ReadyTimeout(p))
                      /\ WF_sidecarVars(RestartSidecar(p))

SidecarSpec == SidecarInit /\ [][SidecarNext]_sidecarVars /\ SidecarFairness

-----------------------------------------------------------------------------
(* What the code guarantees.                                               *)

\* The child is never unwatched: its watcher carries the current epoch and is
\* still running, or the restart it triggered is queued or has been refused by
\* the budget.  Restarts of the user, overlapping respawns, and watchers of
\* older processes that end in between never leave a child whose death nobody
\* would act upon.
Supervised ==
  child # 0 =>
    /\ wepoch[child] = epoch
    /\ Watching(child) \/ tpc[AutoTask(child)] \in {"queued", "gaveup"}

\* Among the watchers still running at most one carries the current epoch, so
\* of several processes that die only one death triggers a restart.
OneCurrentWatcher ==
  \A p, q \in Procs :
    Watching(p) /\ Watching(q) /\ wepoch[p] = epoch /\ wepoch[q] = epoch => p = q

\* While the app runs, a runtime that is down comes back or the failure is
\* surfaced as an error.  With a restart of the user in between this fails:
\* a superseded watcher may replace the error by Ready, and restart_runtime
\* leaves Restarting behind when its spawn fails.
Up == child # 0 /\ proc[child] = "serving"
Served == phase = "running" => Up \/ status = "Error"
Recovers == []<>Served

-----------------------------------------------------------------------------
(* What the comments claim and the code does not guarantee.                *)

\* "Kill the managed sidecar on any shutdown path so we never leave an
\* orphaned inference process behind" (lib.rs): after an exit through
\* shutdown, no runtime of this app is alive.
NoOrphanAfterExit ==
  [][Exit => \A p \in Procs : ~Alive(p)]_sidecarVars
=============================================================================
