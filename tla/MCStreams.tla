------------------------------ MODULE MCStreams ------------------------------
(***************************************************************************)
(* Instances for TLC of the components in which tasks or children report   *)
(* to a store or a caller: the choice of the runtime, the streams of the   *)
(* chat, the dev server, the shell, the loop's shell commands and the      *)
(* discovery of foreign tools.  They share no state, so each is explored   *)
(* while the others stay as they begin, where none of their fair actions   *)
(* is enabled.                                                             *)
(***************************************************************************)
EXTENDS RuntimeChoice, LlmStreams, DevServers, ShellRuns, BashCalls,
        McpDiscovery, TLC

CONSTANTS bi, ol, ma, mb, mc

MCModelsOf == (bi :> {ma}) @@ (ol :> {mb})
MCFamily == (ma :> "f") @@ (mb :> "f") @@ (mc :> "g")

VARIABLE focus

reportVars == <<focus, choiceVars, streamVars, devVars, shellVars, bashVars,
                discoveryVars>>

ReportInit ==
  /\ focus \in {"choice", "streams", "dev", "shell", "bash", "discovery"}
  /\ ChoiceInit /\ StreamsInit /\ DevInit /\ ShellInit /\ BashInit /\ DiscoveryInit

ReportNext ==
  /\ \/ focus = "choice" /\ ChoiceNext
        /\ UNCHANGED <<streamVars, devVars, shellVars, bashVars, discoveryVars>>
     \/ focus = "streams" /\ StreamsNext
        /\ UNCHANGED <<choiceVars, devVars, shellVars, bashVars, discoveryVars>>
     \/ focus = "dev" /\ DevNext
        /\ UNCHANGED <<choiceVars, streamVars, shellVars, bashVars, discoveryVars>>
     \/ focus = "shell" /\ ShellNext
        /\ UNCHANGED <<choiceVars, streamVars, devVars, bashVars, discoveryVars>>
     \/ focus = "bash" /\ BashNext
        /\ UNCHANGED <<choiceVars, streamVars, devVars, shellVars, discoveryVars>>
     \/ focus = "discovery" /\ DiscoveryNext
        /\ UNCHANGED <<choiceVars, streamVars, devVars, shellVars, bashVars>>
  /\ UNCHANGED focus

ReportSpec ==
  /\ ReportInit /\ [][ReportNext]_reportVars
  /\ ChoiceFairness /\ StreamsFairness /\ DevFairness /\ ShellFairness
  /\ BashFairness /\ DiscoveryFairness

ReportTypeOK == ChoiceTypeOK /\ StreamsTypeOK /\ DevTypeOK /\ ShellTypeOK
                /\ BashTypeOK /\ DiscoveryTypeOK

\* A child started for the user is never lost behind another, and the store
\* says of it what is so.
RunnersSafe == DevSafe /\ ShellSafe

\* What a child process prints reaches its caller whole and in order, and the
\* process does not outlive the call.
ToolsSafe == BashSafe /\ DiscoverySafe

\* What was begun comes to its end: the health shown settles, handlers of
\* streams end, servers told to die are gone, the shell's lock comes back, a
\* full pipe is drained, a discovery ends.
Settles == HealthSettles /\ HandlerEnds /\ ToldDies /\ LockComesBack
             /\ FullPipeDrains /\ DiscoveryEnds
=============================================================================
