--------------------------- MODULE RuntimeLauncher ---------------------------
(***************************************************************************)
(* The servers of one other runtime (Ollama, MLX) that the program starts  *)
(* and stops itself: start_runtime, stop_runtime and detect_runtimes of    *)
(* src-tauri/src/commands/llm.rs, the Play and Stop buttons of             *)
(* ConnectionPanel.tsx, and the detection of use-runtime-store.ts.         *)
(*                                                                         *)
(* A start asks the map whether a server is managed, spawns one, gives it  *)
(* 800 ms to fail and only then enters it.  A server is owned by its own   *)
(* task, which waits for its end or for the sender in the map: sent to, or *)
(* dropped with its entry, it resolves either way.                         *)
(***************************************************************************)
EXTENDS Naturals

CONSTANTS
  MaxStarts, \* bound: calls of start_runtime
  MaxTurns   \* bound: servers that end, outside ones that begin, the app's ends

ASSUME LauncherConstants == MaxStarts \in Nat /\ MaxTurns \in Nat

VARIABLES
  launch,   \* the start calls, each with the server it spawned
  lives,    \* the servers whose process lives
  slot,     \* RuntimeLauncher.map[name]: the server whose sender it holds, or 0
  answerer, \* who answers on the runtime's port: a server, Outside, or 0
  turns,
  shown,    \* the runtime's row, as the store last heard
  look,     \* detect_runtimes, of the poll and of a Play or a Stop
  asked,    \* a Play or a Stop has been answered and its detection not begun
  wanted    \* history: the server entered last and not stopped, or 0

launcherVars == <<launch, lives, slot, answerer, turns, shown, look, asked, wanted>>

Starts == 1 .. MaxStarts
Outside == MaxStarts + 1
Row == [healthy : BOOLEAN, managed : BOOLEAN]
Unseen == [healthy |-> FALSE, managed |-> FALSE]
Lookers == {"poll", "gesture"}

\* "asked": before the map is looked at.  "spawn": it had none.  "grace": within
\* the 800 ms.  "owned": the task waits.  "over": its task has cleared up.
LauncherTypeOK ==
  /\ launch \in [Starts -> {"none", "asked", "spawn", "grace", "owned", "over", "orphan"}]
  /\ lives \subseteq Starts
  /\ slot \in 0 .. MaxStarts /\ wanted \in 0 .. MaxStarts
  /\ answerer \in 0 .. Outside /\ turns \in 0 .. MaxTurns
  /\ shown \in Row /\ asked \in BOOLEAN
  /\ look \in [Lookers -> [pc : {"no", "probing", "answered"}, row : Row]]

LauncherInit ==
  /\ launch = [s \in Starts |-> "none"] /\ lives = {}
  /\ slot = 0 /\ answerer = 0 /\ turns = 0
  /\ shown = Unseen /\ asked = FALSE
  /\ look = [k \in Lookers |-> [pc |-> "no", row |-> Unseen]]
  /\ wanted = 0

Goes(s, pc) == launch' = [launch EXCEPT ![s] = pc]
Turn == turns < MaxTurns /\ turns' = turns + 1

-----------------------------------------------------------------------------
(* The servers.                                                            *)

Listen(s) ==
  /\ s \in lives /\ answerer = 0
  /\ answerer' = s
  /\ UNCHANGED <<launch, lives, slot, turns, shown, look, asked, wanted>>

\* For want of the port, of a model, or because it is killed from elsewhere.
ServerEnds(s) ==
  /\ s \in lives /\ Turn
  /\ lives' = lives \ {s}
  /\ answerer' = IF answerer = s THEN 0 ELSE answerer
  /\ UNCHANGED <<launch, slot, shown, look, asked, wanted>>

\* The user runs the runtime outside the program, or ends that one.
OutsideTurns ==
  /\ answerer \in {0, Outside} /\ Turn
  /\ answerer' = Outside - answerer
  /\ UNCHANGED <<launch, lives, slot, shown, look, asked, wanted>>

-----------------------------------------------------------------------------
(* start_runtime.                                                          *)

\* The Play button: neither answering nor managed, as far as the row says, and
\* the call goes out however many are under way.
ClickPlay ==
  /\ ~shown.healthy /\ ~shown.managed
  /\ \E s \in Starts :
       /\ launch[s] = "none" /\ \A r \in 1 .. s - 1 : launch[r] # "none"
       /\ Goes(s, "asked")
  /\ UNCHANGED <<lives, slot, answerer, turns, shown, look, asked, wanted>>

\* "Already managing a live child for this runtime": the call succeeds.
LookUp(s) ==
  /\ launch[s] = "asked"
  /\ IF slot = 0 THEN Goes(s, "spawn") /\ UNCHANGED asked
     ELSE Goes(s, "over") /\ asked' = TRUE
  /\ UNCHANGED <<lives, slot, answerer, turns, shown, look, wanted>>

\* A program that is not there fails the call.
SpawnServer(s) ==
  /\ launch[s] = "spawn"
  /\ \/ Goes(s, "grace") /\ lives' = lives \cup {s}
     \/ Goes(s, "over") /\ UNCHANGED lives
  /\ UNCHANGED <<slot, answerer, turns, shown, look, asked, wanted>>

\* After the 800 ms: a server that has ended fails the call, any other one is
\* entered, and the sender of the one that was entered is dropped.
EnterServer(s) ==
  /\ launch[s] = "grace"
  /\ IF s \in lives
     THEN Goes(s, "owned") /\ slot' = s /\ wanted' = s /\ asked' = TRUE
     ELSE Goes(s, "over") /\ UNCHANGED <<slot, wanted, asked>>
  /\ UNCHANGED <<lives, answerer, turns, shown, look>>

\* The receiver resolves; a slip hears only a sender that was used.
SentOnly(s) == slot = 0
Resolved(s) == slot # s

KillServer(s) ==
  /\ launch[s] = "owned" /\ s \in lives /\ Resolved(s)
  /\ lives' = lives \ {s}
  /\ answerer' = IF answerer = s THEN 0 ELSE answerer
  /\ UNCHANGED <<launch, slot, turns, shown, look, asked, wanted>>

\* Its own entry only; a slip clears any.
AnyCleared(s) == 0
OwnCleared(s) == IF slot = s THEN 0 ELSE slot

Reap(s) ==
  /\ launch[s] = "owned" /\ s \notin lives
  /\ slot' = OwnCleared(s)
  /\ Goes(s, "over")
  /\ UNCHANGED <<lives, answerer, turns, shown, look, asked, wanted>>

\* stop_runtime, of whichever server is entered; FALSE when none is.
ClickStop ==
  /\ shown.managed
  /\ slot' = 0 /\ wanted' = 0 /\ asked' = TRUE
  /\ UNCHANGED <<launch, lives, answerer, turns, shown, look>>

\* The app ends without its tasks being dropped, and is started again: servers
\* that lived live on, unmanaged.
AppRestarts ==
  /\ Turn /\ \E s \in Starts : launch[s] \notin {"none", "over", "orphan"}
  /\ launch' = [s \in Starts |->
                 IF launch[s] = "none" THEN "none" ELSE IF s \in lives THEN "orphan" ELSE "over"]
  /\ slot' = 0 /\ wanted' = 0
  /\ shown' = Unseen /\ asked' = FALSE
  /\ look' = [k \in Lookers |-> [pc |-> "no", row |-> Unseen]]
  /\ UNCHANGED <<lives, answerer>>

-----------------------------------------------------------------------------
(* detect_runtimes: the port is probed first, the map read when that is    *)
(* answered; the row is replaced when the answer arrives.                  *)

Probe(k) ==
  /\ look[k].pc = "no"
  /\ look' = [look EXCEPT ![k] = [pc |-> "probing",
                                  row |-> [healthy |-> answerer # 0, managed |-> FALSE]]]

PollLooks ==
  /\ Probe("poll")
  /\ UNCHANGED <<launch, lives, slot, answerer, turns, shown, asked, wanted>>

\* startRuntime and stopRuntime look again when their call has succeeded.
GestureLooks ==
  /\ asked /\ asked' = FALSE
  /\ Probe("gesture")
  /\ UNCHANGED <<launch, lives, slot, answerer, turns, shown, wanted>>

\* A slip takes what answers for what it manages.
ManagedIfAnswers(row) == row.healthy
ManagedNow(row) == slot # 0

ReadMap(k) ==
  /\ look[k].pc = "probing"
  /\ look' = [look EXCEPT ![k].pc = "answered", ![k].row.managed = ManagedNow(look[k].row)]
  /\ UNCHANGED <<launch, lives, slot, answerer, turns, shown, asked, wanted>>

ShowRow(k) ==
  /\ look[k].pc = "answered"
  /\ shown' = look[k].row
  /\ look' = [look EXCEPT ![k] = [pc |-> "no", row |-> Unseen]]
  /\ UNCHANGED <<launch, lives, slot, answerer, turns, asked, wanted>>

LauncherNext ==
  \/ OutsideTurns \/ ClickPlay \/ ClickStop \/ AppRestarts \/ PollLooks \/ GestureLooks
  \/ \E k \in Lookers : ReadMap(k) \/ ShowRow(k)
  \/ \E s \in Starts : \/ Listen(s) \/ ServerEnds(s) \/ LookUp(s) \/ SpawnServer(s)
                       \/ EnterServer(s) \/ KillServer(s) \/ Reap(s)

\* Tasks go on, the poll has its timer, and calls are answered.
LauncherFairness ==
  /\ \A s \in Starts : WF_launcherVars(KillServer(s)) /\ WF_launcherVars(Reap(s))
  /\ WF_launcherVars(PollLooks)
  /\ \A k \in Lookers : WF_launcherVars(ReadMap(k) \/ ShowRow(k))

LauncherSpec == LauncherInit /\ [][LauncherNext]_launcherVars /\ LauncherFairness

-----------------------------------------------------------------------------
(* What the code guarantees.                                               *)

\* The entry is that of a server whose task still waits: a second Play within
\* the 800 ms of the first, and a server that ends by itself, leave none behind
\* that Stop would take for a server.
SlotHasTask == slot # 0 => launch[slot] = "owned"

\* "So a quick stop->start can't have the old child's wait-task evict the new
\* child's slot": the server entered last has its entry until it ends, unless
\* it was stopped.
NewestKept == wanted \in lives => slot = wanted

\* What starts and stops that cross each other leave in the map.
LauncherSafe == SlotHasTask /\ NewestKept

\* Of several servers, all but the one entered end: none is left running that
\* no button reaches.
StrayEnds ==
  \A s \in Starts : []<>(launch[s] = "owned" /\ slot # s => s \notin lives)

\* The row comes to say whether there is a server to stop, although an older
\* answer may have replaced a newer one.
RowSettles == <>[](shown.managed <=> slot # 0)

\* What the comment promises beyond that: "a second call while it's already
\* managed is a no-op"; within the 800 ms it is not.
OneAtATime == \A r, s \in lives : launch[r] # "orphan" /\ launch[s] # "orphan" => r = s
=============================================================================
