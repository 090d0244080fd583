------------------------------ MODULE BashCalls ------------------------------
(***************************************************************************)
(* One shell command of the built-in loop: run_builtin_bash and            *)
(* read_capped of src-tauri/src/commands/builtin_tools.rs.                 *)
(*                                                                         *)
(* The command writes into two pipes of limited size, each read by a       *)
(* future of its own up to a cap; whichever ends first is taken, and one   *)
(* that was cut off at the cap has the command killed.  What the command   *)
(* started may outlive it and keep the pipes open.                         *)
(***************************************************************************)
EXTENDS Naturals

CONSTANTS
  Cap,      \* MAX_TOOL_BYTES, in blocks
  PipeSize, \* blocks a pipe holds
  MaxBlocks \* bound: blocks written into a pipe

ASSUME BashConstants == Cap \in Nat /\ PipeSize \in Nat \ {0} /\ MaxBlocks \in Nat

VARIABLES
  bash,    \* the call
  child,   \* the process of sh
  heir,    \* a process that sh started, with both pipes: "no", "lives", "over"
  open,    \* the pipes sh itself still writes into
  written, \* blocks ever written into each pipe
  inPipe,  \* of those, not yet read
  taken,   \* of those, read
  future,  \* out_fut and err_fut
  answer   \* what the loop got

bashVars == <<bash, child, heir, open, written, inPipe, taken, future, answer>>
pipeVars == <<written, inPipe, taken>>

Pipes == {"out", "err"}
Answers == {"none", "denied", "failed", "whole", "cut", "timeout"}

BashTypeOK ==
  /\ bash \in {"idle", "snapshot", "spawn", "draining", "waiting", "answered"}
  /\ child \in {"none", "runs", "exited", "killed"}
  /\ heir \in {"no", "lives", "over"} /\ open \subseteq Pipes
  /\ written \in [Pipes -> 0 .. MaxBlocks]
  /\ inPipe \in [Pipes -> 0 .. PipeSize]
  /\ taken \in [Pipes -> 0 .. Cap + 1]
  /\ future \in [Pipes -> {"reading", "whole", "cut"}]
  /\ answer \in Answers

BashInit ==
  /\ bash = "idle" /\ child = "none" /\ heir = "no" /\ open = {}
  /\ written = [p \in Pipes |-> 0] /\ inPipe = [p \in Pipes |-> 0]
  /\ taken = [p \in Pipes |-> 0]
  /\ future = [p \in Pipes |-> "reading"]
  /\ answer = "none"

Answered(a) == bash' = "answered" /\ answer' = a

-----------------------------------------------------------------------------
(* The call, up to the spawn.                                              *)

\* Empty, without a sandbox or outside it, or not approved.
Refuse ==
  /\ bash = "idle" /\ Answered("denied")
  /\ UNCHANGED <<child, heir, open, pipeVars, future>>

Approve ==
  /\ bash = "idle" /\ bash' = "snapshot"
  /\ UNCHANGED <<child, heir, open, pipeVars, future, answer>>

\* The checkpoint is awaited, and its failure ignored.
SnapshotTree ==
  /\ bash = "snapshot" /\ bash' = "spawn"
  /\ UNCHANGED <<child, heir, open, pipeVars, future, answer>>

SpawnSh ==
  /\ bash = "spawn"
  /\ \/ bash' = "draining" /\ child' = "runs" /\ open' = Pipes /\ UNCHANGED answer
     \/ Answered("failed") /\ UNCHANGED <<child, open>>
  /\ UNCHANGED <<heir, pipeVars, future>>

-----------------------------------------------------------------------------
(* The command.                                                            *)

\* Who can still write into a pipe.
Writers(p) ==
  (IF child = "runs" /\ p \in open THEN {"child"} ELSE {})
    \cup (IF heir = "lives" THEN {"heir"} ELSE {})

WriteBlock(p) ==
  /\ Writers(p) # {} /\ inPipe[p] < PipeSize /\ written[p] < MaxBlocks
  /\ future[p] = "reading" /\ bash = "draining"
  /\ written' = [written EXCEPT ![p] = @ + 1]
  /\ inPipe' = [inPipe EXCEPT ![p] = @ + 1]
  /\ UNCHANGED <<bash, child, heir, open, taken, future, answer>>

ClosePipe(p) ==
  /\ child = "runs" /\ p \in open
  /\ open' = open \ {p}
  /\ UNCHANGED <<bash, child, heir, pipeVars, future, answer>>

StartHeir ==
  /\ child = "runs" /\ open = Pipes /\ heir = "no"
  /\ heir' = "lives"
  /\ UNCHANGED <<bash, child, open, pipeVars, future, answer>>

HeirEnds ==
  /\ heir = "lives" /\ heir' = "over"
  /\ UNCHANGED <<bash, child, open, pipeVars, future, answer>>

\* By itself, or for writing into a pipe nobody reads any more.
ShellExits ==
  /\ child = "runs" /\ child' = "exited"
  /\ UNCHANGED <<bash, heir, open, pipeVars, future, answer>>

-----------------------------------------------------------------------------
(* The select loop.                                                        *)

\* Both futures are polled; a slip drains one pipe after the other.
OutFirst(p) == p = "out" \/ future["out"] # "reading"
BothPolled(p) == TRUE

ReadBlock(p) ==
  /\ bash = "draining" /\ future[p] = "reading" /\ BothPolled(p)
  /\ inPipe[p] > 0 /\ taken[p] <= Cap
  /\ inPipe' = [inPipe EXCEPT ![p] = @ - 1]
  /\ taken' = [taken EXCEPT ![p] = @ + 1]
  /\ UNCHANGED <<bash, child, heir, open, written, future, answer>>

\* A future ends at the end of its pipe, or past the cap; a slip takes the end
\* of sh for the end of the pipe.
EndsWithShell(p) == child # "runs"
EndOfPipe(p) == inPipe[p] = 0 /\ Writers(p) = {}

\* A slip kills the command as soon as one pipe has ended.
KillAtAnyEnd(end) == TRUE
KillIfCut(end) == end = "cut"

FutureEnds(p) ==
  /\ bash = "draining" /\ future[p] = "reading" /\ BothPolled(p)
  /\ \E end \in {"whole", "cut"} :
       /\ IF taken[p] = Cap + 1 THEN end = "cut" ELSE end = "whole" /\ EndOfPipe(p)
       /\ future' = [future EXCEPT ![p] = end]
       /\ child' = IF KillIfCut(end) /\ child = "runs" THEN "killed" ELSE child
  /\ bash' = IF \A q \in Pipes : future'[q] # "reading" THEN "waiting" ELSE bash
  /\ UNCHANGED <<heir, open, pipeVars, answer>>

\* bash_output cuts the two together once more.
WaitShell ==
  /\ bash = "waiting" /\ child # "runs"
  /\ Answered(IF taken["out"] + taken["err"] > Cap THEN "cut" ELSE "whole")
  /\ UNCHANGED <<child, heir, open, pipeVars, future>>

\* The budget is over: the futures are dropped, and the child with them.
BashTimesOut ==
  /\ bash \in {"draining", "waiting"}
  /\ Answered("timeout")
  /\ child' = IF child = "runs" THEN "killed" ELSE child
  /\ UNCHANGED <<heir, open, pipeVars, future>>

BashNext ==
  \/ Refuse \/ Approve \/ SnapshotTree \/ SpawnSh
  \/ StartHeir \/ HeirEnds \/ ShellExits \/ WaitShell \/ BashTimesOut
  \/ \E p \in Pipes : WriteBlock(p) \/ ClosePipe(p) \/ ReadBlock(p) \/ FutureEnds(p)

\* The task is polled; nothing is asked of the command, nor of the clock.
BashFairness ==
  /\ WF_bashVars(SnapshotTree) /\ WF_bashVars(SpawnSh) /\ WF_bashVars(WaitShell)
  /\ \A p \in Pipes : WF_bashVars(ReadBlock(p)) /\ WF_bashVars(FutureEnds(p))

BashSpec == BashInit /\ [][BashNext]_bashVars /\ BashFairness

-----------------------------------------------------------------------------
(* What the code guarantees.                                               *)

\* An answer that does not say it was cut has everything that was written into
\* either pipe, by the command or by what it left behind.
NothingLost == answer = "whole" => \A p \in Pipes : taken[p] = written[p]

\* A command within the cap and the budget runs to its end: closing one of its
\* pipes early does not get it killed.
KilledForCause ==
  child = "killed" => answer = "timeout" \/ \E p \in Pipes : taken[p] > Cap

\* What the two futures, the cap and the kill may not do to the output and to
\* the command.
BashSafe == NothingLost /\ KilledForCause

\* "Draining one pipe at a time can deadlock when the child fills the other": a
\* command that has filled a pipe gets on, or is stopped, before its time is up.
FullPipeDrains ==
  \A p \in Pipes : []<>(bash = "draining" /\ future[p] = "reading" => inPipe[p] < PipeSize)

\* What a comment promises beyond that: "if the timeout drops the future below,
\* the child dies with it"; what the child started lives on.
NothingOutlives == bash = "answered" => child # "runs" /\ heir # "lives"
=============================================================================
