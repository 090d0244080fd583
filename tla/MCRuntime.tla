------------------------------ MODULE MCRuntime ------------------------------
(***************************************************************************)
(* Instances for TLC of the runtimes that answer the chat: the manager     *)
(* that keeps the built-in one alive (Sidecar) and what it does while it   *)
(* serves (RuntimeServer), the launcher of external ones (RuntimeLauncher) *)
(* and the list the user keeps of them (SavedRuntimes).  They share no     *)
(* state in the models, so each is explored while the others stay as they  *)
(* begin; fairness is asked of a component, and its promises expected,     *)
(* while it is the one explored.                                           *)
(***************************************************************************)
EXTENDS Sidecar, RuntimeServer, RuntimeLauncher, SavedRuntimes, TLC

CONSTANTS ma, mb

MCFits == (ma :> 1) @@ (mb :> 2)

VARIABLE focus

runtimeVars == <<focus, sidecarVars, serverVars, launcherVars, savedVars>>

RuntimeInit ==
  /\ focus \in {"manager", "server", "launcher", "saved"}
  /\ SidecarInit /\ ServerInit /\ LauncherInit /\ SavedInit
  /\ focus # "server" => ctxSize = 1

RuntimeNext ==
  /\ \/ focus = "manager" /\ SidecarNext /\ UNCHANGED <<serverVars, launcherVars, savedVars>>
     \/ focus = "server" /\ ServerNext /\ UNCHANGED <<sidecarVars, launcherVars, savedVars>>
     \/ focus = "launcher" /\ LauncherNext /\ UNCHANGED <<sidecarVars, serverVars, savedVars>>
     \/ focus = "saved" /\ SavedNext /\ UNCHANGED <<sidecarVars, serverVars, launcherVars>>
  /\ UNCHANGED focus

Managed(A) == focus = "manager" /\ A
Launched(A) == focus = "launcher" /\ A

RuntimeSpec ==
  /\ RuntimeInit /\ [][RuntimeNext]_runtimeVars
  /\ ServerFairness
  /\ \A t \in Tasks : WF_sidecarVars(Managed(TaskStep(t)))
  /\ \A p \in Procs : /\ WF_sidecarVars(Managed(ClaimLockfile(p) \/ Bind(p)))
                      /\ WF_sidecarVars(Managed(WatchStep(p)))
                      /\ WF_sidecarVars(Managed(watch[p] = "unready" /\ ReadyTimeout(p)))
                      /\ WF_sidecarVars(Managed(RestartSidecar(p)))
  /\ \A s \in Starts : /\ WF_launcherVars(Launched(KillServer(s)))
                       /\ WF_launcherVars(Launched(Reap(s)))
  /\ WF_launcherVars(Launched(PollLooks))
  /\ \A k \in Lookers : WF_launcherVars(Launched(ReadMap(k) \/ ShowRow(k)))

RuntimesTypeOK == ServerTypeOK /\ LauncherTypeOK /\ SavedTypeOK

\* What is shown of external runtimes is theirs: the launcher's slot leads to
\* the newest server, and a runtime the user deleted stays deleted.
ExternalSafe == LauncherSafe /\ SavedSafe

\* Recovers, of the manager that is explored.
ManagerRecovers == []<>(focus = "manager" => Served)

\* The manager recovers, an aborted request ends, a server no button reaches
\* ends, and a row comes to say whether there is a server to stop.
RuntimesSettle == ManagerRecovers /\ AbortEnds /\ StrayEnds /\ RowSettles
=============================================================================
