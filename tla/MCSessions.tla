------------------------------ MODULE MCSessions ------------------------------
(***************************************************************************)
(* Instances for TLC of what is kept and told of a session's work: its     *)
(* checkpoints, its conversation and where that is kept, the rows of the   *)
(* agents at work in it, and the compiled agents of its project.  They     *)
(* share no state, so each is explored while the others stay as they       *)
(* begin, where none of their fair actions is enabled.                     *)
(***************************************************************************)
EXTENDS Checkpoints, ChatHistory, AgentTimeline, Compiler, TLC

VARIABLE focus

sessionsVars == <<focus, checkpointVars, historyVars, timelineVars, compilerVars>>

SessionsInit ==
  /\ focus \in {"checkpoints", "history", "timeline", "compiler"}
  /\ CheckpointsInit /\ HistoryInit /\ TimelineInit /\ CompilerInit

SessionsNext ==
  /\ \/ focus = "checkpoints" /\ CheckpointsNext
        /\ UNCHANGED <<historyVars, timelineVars, compilerVars>>
     \/ focus = "history" /\ HistoryNext
        /\ UNCHANGED <<checkpointVars, timelineVars, compilerVars>>
     \/ focus = "timeline" /\ TimelineNext
        /\ UNCHANGED <<checkpointVars, historyVars, compilerVars>>
     \/ focus = "compiler" /\ CompilerNext
        /\ UNCHANGED <<checkpointVars, historyVars, timelineVars>>
  /\ UNCHANGED focus

SessionsSpec == SessionsInit /\ [][SessionsNext]_sessionsVars /\ HistoryFairness

SessionsTypeOK == CheckpointsTypeOK /\ HistoryTypeOK /\ TimelineTypeOK /\ CompilerTypeOK

\* What a run and a compile leave behind holds: nothing pulses once the run's
\* handler has ended, a manifest stands on what is there (where compiles do not
\* overlap), and a spec was refused for a cycle only, and always.
WorkSafe == RowsSettled /\ StoreSafe /\ CycleRefused
=============================================================================
