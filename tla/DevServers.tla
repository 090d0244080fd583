----------------------------- MODULE DevServers -----------------------------
(***************************************************************************)
(* The dev-server runner: start_dev_server, stop_dev_server and the wait   *)
(* task of each child (src-tauri/src/commands/dev_server.rs), and the      *)
(* store that starts, stops, resets and heals it                           *)
(* (src/stores/use-dev-server-store.ts).                                   *)
(*                                                                         *)
(* Each launch has a number.  The backend's state is one slot with the     *)
(* kill sender of one launch.  A sender that is dropped ends the wait      *)
(* task's select exactly as one that is fired does.                        *)
(***************************************************************************)
EXTENDS Naturals, Sequences, FiniteSets

CONSTANTS
  MaxServers, \* bound: launches
  MaxUpsets   \* bound: stops, resets and manual port releases

ASSUME DevServerConstants == MaxServers \in Nat /\ MaxUpsets \in Nat

VARIABLES
  clicks,    \* starts the user asked for, reading the configuration
  starting,  \* each launch's start_dev_server
  server,    \* each launch's child and wait task
  clash,     \* launches with a port-conflict line still to be read
  told,      \* launches whose kill receiver has resolved
  killSlot,  \* kill_tx: whose sender, or 0
  devEvents, \* dev:// events on their way
  view,      \* the store
  freeing,   \* kill_port calls: "auto" and "manual"
  halting,   \* stop_dev_server calls and replies
  graces,    \* runSeq of the failures whose grace period runs
  upsets,    \* stops, resets and releases so far
  healed     \* history: automatic restarts since the user's last gesture

devVars == <<clicks, starting, server, clash, told, killSlot, devEvents, view, freeing,
             halting, graces, upsets, healed>>

Launches == 1 .. MaxServers

\* "called": up to the lock.  "replacing": the previous one has been told.
\* "failed": the error is on its way to the store.
StartPhases == {"none", "called", "replacing", "failed", "over"}
\* "exited" and "crashed": the wait task has the exit code, and has not yet
\* cleared the slot.
ServerPhases == {"none", "up", "exited", "crashed", "over"}
Statuses == {"idle", "running", "recovering", "exited", "failed"}
View == [status : Statuses, runSeq : 0 .. MaxServers, conflict : BOOLEAN, busyPort : BOOLEAN,
         attempted : BOOLEAN, stopping : BOOLEAN, project : BOOLEAN]

DevTypeOK ==
  /\ clicks \in 0 .. MaxServers
  /\ starting \in [Launches -> StartPhases]
  /\ server \in [Launches -> ServerPhases]
  /\ clash \in SUBSET Launches /\ told \in SUBSET Launches
  /\ killSlot \in 0 .. MaxServers
  /\ devEvents \in Seq({"conflict", "zero", "nonzero"} \X Launches)
  /\ view \in View
  /\ freeing \in [{"auto", "manual"} -> Nat]
  /\ halting \in [{"stop", "reset", "resetReply"} -> 0 .. MaxUpsets]
  /\ graces \in SUBSET (0 .. MaxServers)
  /\ upsets \in 0 .. MaxUpsets
  /\ healed \in Nat

Blank == [status |-> "idle", runSeq |-> 0, conflict |-> FALSE, busyPort |-> FALSE,
          attempted |-> FALSE, stopping |-> FALSE, project |-> FALSE]

DevInit ==
  /\ clicks = 0
  /\ starting = [k \in Launches |-> "none"]
  /\ server = [k \in Launches |-> "none"]
  /\ clash = {} /\ told = {} /\ killSlot = 0
  /\ devEvents = <<>>
  /\ view = Blank
  /\ freeing = [kind \in {"auto", "manual"} |-> 0]
  /\ halting = [kind \in {"stop", "reset", "resetReply"} |-> 0]
  /\ graces = {} /\ upsets = 0 /\ healed = 0

BusyView == view.status \in {"running", "recovering"}

\* A kill sender is fired or dropped.  The slips: only firing counts; an empty
\* slot is taken for a sender.
ResolvedAny(k) == told \cup {k}
FiredOnly(k) == told
Resolved(k) == told \cup ({k} \ {0})

-----------------------------------------------------------------------------
(* The store.                                                              *)

backendVars == <<server, clash, told, killSlot>>

\* startInternal.
StartInternal(fromRecovery) ==
  /\ view.runSeq < MaxServers
  /\ starting' = [starting EXCEPT ![view.runSeq + 1] = "called"]
  /\ view' = [view EXCEPT !.status = "running", !.runSeq = @ + 1, !.conflict = FALSE,
                          !.busyPort = FALSE, !.stopping = FALSE, !.project = TRUE,
                          !.attempted = fromRecovery /\ @]
  /\ healed' = IF fromRecovery THEN healed ELSE 0

\* The start button, shown unless the store is busy, first reads the
\* configuration; by then another click may have started a server.
Click ==
  /\ ~BusyView /\ clicks + view.runSeq < MaxServers
  /\ clicks' = clicks + 1
  /\ UNCHANGED <<starting, backendVars, devEvents, view, freeing, halting, graces,
                 upsets, healed>>

StartDev ==
  /\ clicks > 0
  /\ clicks' = clicks - 1
  /\ StartInternal(FALSE)
  /\ UNCHANGED <<backendVars, devEvents, freeing, halting, graces, upsets>>

\* freeAndStart, once kill_port has answered.
Freed(kind) ==
  /\ freeing[kind] > 0
  /\ freeing' = [freeing EXCEPT ![kind] = @ - 1]
  /\ StartInternal(kind = "auto")
  /\ UNCHANGED <<clicks, backendVars, devEvents, halting, graces, upsets>>

\* start_dev_server returned an error.
OnStartError(k) ==
  /\ starting[k] = "failed"
  /\ starting' = [starting EXCEPT ![k] = "over"]
  /\ view' = [view EXCEPT !.status = "failed"]
  /\ UNCHANGED <<clicks, backendVars, devEvents, freeing, halting, graces, upsets,
                 healed>>

Upset == upsets < MaxUpsets /\ upsets' = upsets + 1

\* freePortAndRestart, offered after a failure.
FreePortAndRestart ==
  /\ view.status = "failed" /\ view.project /\ Upset
  /\ view' = [view EXCEPT !.attempted = FALSE, !.status = "recovering"]
  /\ freeing' = [freeing EXCEPT !["manual"] = @ + 1]
  /\ healed' = 0
  /\ UNCHANGED <<clicks, starting, backendVars, devEvents, halting, graces>>

StopDev ==
  /\ BusyView /\ Upset
  /\ view' = [view EXCEPT !.stopping = TRUE]
  /\ halting' = [halting EXCEPT !["stop"] = @ + 1]
  /\ UNCHANGED <<clicks, starting, backendVars, devEvents, freeing, graces, healed>>

Wipe ==
  /\ view' = [Blank EXCEPT !.runSeq = view.runSeq]
  /\ healed' = 0

\* The project is switched.
ResetDev ==
  /\ Upset
  /\ IF BusyView
     THEN /\ view' = [view EXCEPT !.stopping = TRUE]
          /\ halting' = [halting EXCEPT !["reset"] = @ + 1]
          /\ UNCHANGED healed
     ELSE Wipe /\ UNCHANGED halting
  /\ UNCHANGED <<clicks, starting, backendVars, devEvents, freeing, graces>>

ResetEnds ==
  /\ halting["resetReply"] > 0
  /\ halting' = [halting EXCEPT !["resetReply"] = @ - 1]
  /\ Wipe
  /\ UNCHANGED <<clicks, starting, backendVars, devEvents, freeing, graces, upsets>>

ClearLog ==
  /\ view.busyPort
  /\ view' = [view EXCEPT !.busyPort = FALSE]
  /\ UNCHANGED <<clicks, starting, backendVars, devEvents, freeing, halting,
                 graces, upsets, healed>>

\* beginRecovery, and a slip that forgets it has been tried.
BeginRecoveryAgain ==
  /\ freeing' = [freeing EXCEPT !["auto"] = @ + 1]
  /\ view' = [view EXCEPT !.status = "recovering"]
  /\ healed' = healed + 1
BeginRecovery ==
  /\ freeing' = [freeing EXCEPT !["auto"] = @ + 1]
  /\ view' = [view EXCEPT !.status = "recovering", !.attempted = TRUE]
  /\ healed' = healed + 1

Healable == view.conflict /\ view.busyPort /\ ~view.attempted /\ view.project

OnConflict ==
  /\ devEvents # <<>> /\ Head(devEvents)[1] = "conflict"
  /\ devEvents' = Tail(devEvents)
  /\ view' = [view EXCEPT !.conflict = TRUE, !.busyPort = TRUE]
  /\ UNCHANGED <<clicks, starting, backendVars, freeing, halting, graces, upsets,
                 healed>>

\* dev://done.  It does not say which launch has ended.
OnDone ==
  /\ devEvents # <<>> /\ Head(devEvents)[1] # "conflict"
  /\ devEvents' = Tail(devEvents)
  /\ \/ /\ view.stopping
        /\ view' = [view EXCEPT !.stopping = FALSE, !.status = "exited"]
        /\ UNCHANGED <<freeing, graces, healed>>
     \/ /\ ~view.stopping /\ Head(devEvents)[1] = "zero"
        /\ view' = [view EXCEPT !.status = "exited"]
        /\ UNCHANGED <<freeing, graces, healed>>
     \/ /\ ~view.stopping /\ Head(devEvents)[1] = "nonzero" /\ Healable
        /\ BeginRecovery
        /\ UNCHANGED graces
     \/ /\ ~view.stopping /\ Head(devEvents)[1] = "nonzero" /\ ~Healable
        /\ view' = [view EXCEPT !.status = "failed"]
        /\ graces' = graces \cup {view.runSeq}
        /\ UNCHANGED <<freeing, healed>>
  /\ UNCHANGED <<clicks, starting, backendVars, halting, upsets>>

\* The grace period for a conflict line that lost the race against the exit.
GraceEnds(n) ==
  /\ n \in graces
  /\ graces' = graces \ {n}
  /\ IF view.runSeq = n /\ view.status = "failed" /\ Healable
     THEN BeginRecovery ELSE UNCHANGED <<freeing, view, healed>>
  /\ UNCHANGED <<clicks, starting, backendVars, devEvents, halting, upsets>>

-----------------------------------------------------------------------------
(* The backend.                                                            *)

devStoreVars == <<clicks, view, freeing, graces, upsets, healed>>

\* Outside the sandbox, or without a command configured; or the previous
\* server is signalled.
ReplacePrevious(k) ==
  /\ starting[k] = "called"
  /\ \/ starting' = [starting EXCEPT ![k] = "failed"] /\ UNCHANGED <<told, killSlot>>
     \/ /\ starting' = [starting EXCEPT ![k] = "replacing"]
        /\ told' = Resolved(killSlot)
        /\ killSlot' = 0
  /\ UNCHANGED <<server, clash, devEvents, halting, devStoreVars>>

\* The child is spawned and its sender takes the slot; one put there meanwhile
\* is dropped.
RegisterServer(k) ==
  /\ starting[k] = "replacing"
  /\ \/ /\ starting' = [starting EXCEPT ![k] = "failed"]
        /\ UNCHANGED <<server, told, killSlot>>
     \/ /\ starting' = [starting EXCEPT ![k] = "over"]
        /\ server' = [server EXCEPT ![k] = "up"]
        /\ told' = Resolved(killSlot)
        /\ killSlot' = k
  /\ UNCHANGED <<clash, devEvents, halting, devStoreVars>>

\* By itself, perhaps because its port was taken.
ServerExits(k) ==
  /\ server[k] = "up"
  /\ \/ server' = [server EXCEPT ![k] = "exited"] /\ UNCHANGED clash
     \/ server' = [server EXCEPT ![k] = "crashed"] /\ clash' \in {clash, clash \cup {k}}
  /\ UNCHANGED <<starting, told, killSlot, devEvents, halting, devStoreVars>>

\* The wait task kills its child; the slip stands back once a successor has
\* registered.
HeedsIfAlone(k) == k \in told /\ killSlot = 0
Heeds(k) == k \in told

ServerKilled(k) ==
  /\ server[k] = "up" /\ Heeds(k)
  /\ server' = [server EXCEPT ![k] = "crashed"]
  /\ UNCHANGED <<starting, clash, told, killSlot, devEvents, halting, devStoreVars>>

ReadConflict(k) ==
  /\ k \in clash
  /\ clash' = clash \ {k}
  /\ devEvents' = Append(devEvents, <<"conflict", k>>)
  /\ UNCHANGED <<starting, server, told, killSlot, halting, devStoreVars>>

\* A slip: no event for a server that was told to die.
DoneUnlessTold(k) ==
  IF k \in told THEN devEvents
  ELSE Append(devEvents, <<IF server[k] = "exited" THEN "zero" ELSE "nonzero", k>>)
Done(k) == Append(devEvents, <<IF server[k] = "exited" THEN "zero" ELSE "nonzero", k>>)

\* The wait task clears the slot, whoever's sender is in it.
WaitEnds(k) ==
  /\ server[k] \in {"exited", "crashed"}
  /\ server' = [server EXCEPT ![k] = "over"]
  /\ told' = Resolved(killSlot)
  /\ killSlot' = 0
  /\ devEvents' = Done(k)
  /\ UNCHANGED <<starting, clash, halting, devStoreVars>>

StopDevServer(kind) ==
  /\ kind \in {"stop", "reset"} /\ halting[kind] > 0
  /\ halting' = IF kind = "stop" THEN [halting EXCEPT !["stop"] = @ - 1]
                ELSE [halting EXCEPT !["reset"] = @ - 1, !["resetReply"] = @ + 1]
  /\ told' = Resolved(killSlot)
  /\ killSlot' = 0
  /\ UNCHANGED <<starting, server, clash, devEvents, devStoreVars>>

DevNext ==
  \/ Click \/ StartDev \/ FreePortAndRestart \/ StopDev \/ ResetDev \/ ResetEnds \/ ClearLog
  \/ OnConflict \/ OnDone
  \/ \E kind \in {"auto", "manual"} : Freed(kind)
  \/ \E kind \in {"stop", "reset"} : StopDevServer(kind)
  \/ \E n \in 0 .. MaxServers : GraceEnds(n)
  \/ \E k \in Launches : \/ OnStartError(k) \/ ReplacePrevious(k) \/ RegisterServer(k)
                         \/ ServerExits(k) \/ ServerKilled(k) \/ ReadConflict(k) \/ WaitEnds(k)

\* A killed child dies, and its wait task goes on.
DevFairness == \A k \in Launches : WF_devVars(ServerKilled(k) \/ WaitEnds(k))

DevSpec == DevInit /\ [][DevNext]_devVars /\ DevFairness

-----------------------------------------------------------------------------
(* What the code guarantees.                                               *)

\* No server is lost behind another: one that lives can be stopped, or is
\* already dying, however starts, stops and ends of others overlap.
NoLostServer == \A k \in Launches : server[k] = "up" /\ k \notin told => killSlot = k

\* The pane never shows "running" for good over a server that is gone: the last
\* launch is under way or up, or the news of its end is on its way.
RunningHasServer ==
  view.status = "running" =>
    LET k == view.runSeq
    IN  \/ starting[k] \in {"called", "replacing", "failed"}
        \/ server[k] \in {"up", "exited", "crashed"}
        \/ \E i \in 1 .. Len(devEvents) : devEvents[i] \in {<<"zero", k>>, <<"nonzero", k>>}

\* At most one automatic restart per start, release or reset of the user, so that a port that
\* cannot be freed does not loop.
NoHealingLoop == healed <= 1

\* Servers that replace, outlive and fail each other are neither lost, nor shown
\* when they are gone, nor restarted for ever.
DevSafe == NoLostServer /\ RunningHasServer /\ NoHealingLoop

\* A server that was told to die is gone in the end, and its end is shown.
ToldDies == \A k \in Launches : []<>(k \in told => server[k] = "over")

\* What the comments promise beyond that.

\* "Multiple starts replace the previous child (the old one is killed)", the
\* new one is not: without a stop or a reset, only a later start ends a server.
NewestSurvives ==
  \A k \in Launches :
    server[k] = "up" /\ k \in told /\ upsets = 0 =>
      \E j \in Launches : j > k /\ starting[j] # "none"

\* "a late `dev://done` from a superseded run can never act on the current one".
LateDoneHarmless ==
  [][\A k \in Launches :
       devEvents # <<>> /\ Head(devEvents) \in {<<"zero", k>>, <<"nonzero", k>>}
         /\ k < view.runSeq /\ devEvents' = Tail(devEvents)
         => view'.status = view.status]_devVars
=============================================================================
