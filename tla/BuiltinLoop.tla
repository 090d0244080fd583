---------------------------- MODULE BuiltinLoop ----------------------------
(***************************************************************************)
(* The built-in tool loop of one session: the store's handler that drives  *)
(* the model itself (submit's built-in branch in                           *)
(* src/stores/use-chat-store.ts), the loop it runs                         *)
(* (src/lib/builtin-loop.ts) and the approval wait between the two.        *)
(*                                                                         *)
(* A run is named by the generation its submit claimed.  An action is what *)
(* happens between two awaits of its handler.  A promise the handler of    *)
(* another run is waiting on, resolved in passing, resumes that handler in *)
(* the same step, as the continuation is a microtask.                      *)
(***************************************************************************)
EXTENDS Naturals, Sequences, SequencesExt

CONSTANTS
  MaxGen,      \* bound: generations of the session
  MaxSteps,    \* maxSteps: model turns of a run
  MaxRetries,  \* emptyRetries
  MaxCalls,    \* bound: tool calls in one model turn
  Modes        \* the modes the user submits in

AllModes == {"readonly", "ask", "acceptEdits", "auto"}
Tools == {"read", "edit", "bash"}

ASSUME LoopConstants ==
  /\ MaxGen \in Nat /\ MaxSteps \in Nat /\ MaxRetries \in Nat /\ MaxCalls \in Nat
  /\ Modes \subseteq AllModes

VARIABLES
  gen,         \* sessionGen of the session
  shown,       \* the session is in `runs`
  question,    \* pendingQuestion: the run and the tool it names
  resolver,    \* builtinApprovalResolvers: the run it would resume, or 0
  remembered,  \* rememberedAnswers, by prompt
  loop         \* the handler of each run

loopVars == <<gen, shown, question, resolver, remembered, loop>>

\* The last generation is left to a stop.
Runs == 1 .. MaxGen - 1
NoQuestion == <<0, "none">>

\* "attach": resolving attachments.  "setup": the awaits before the loop.
\* "step": between awaits of the loop, todo being the calls left of this turn.
\* "model": awaiting a model turn.  "asking": parked on an approval.
\* "exec": awaiting a tool.
\* mayFallBack: native tools, and no turn has succeeded yet.
\* late counts the tools the run has started after it became stale.
Handler == [pc : {"none", "attach", "setup", "step", "model", "asking", "exec", "done"},
            mode : AllModes, aborted : BOOLEAN, steps : 0 .. MaxSteps,
            tries : 0 .. MaxRetries, todo : SeqOf(Tools, MaxCalls),
            mayFallBack : BOOLEAN, late : Nat]

NoHandler == [pc |-> "none", mode |-> "ask", aborted |-> FALSE, steps |-> 0,
              tries |-> 0, todo |-> <<>>, mayFallBack |-> FALSE, late |-> 0]

LoopTypeOK ==
  /\ gen \in 0 .. MaxGen
  /\ shown \in BOOLEAN
  /\ question \in (Runs \X Tools) \cup {NoQuestion}
  /\ resolver \in Runs \cup {0}
  /\ remembered \in [Tools -> {"none", "y", "n"}]
  /\ loop \in [Runs -> Handler]
  /\ \A h \in Runs : loop[h].pc \in {"asking", "exec"} => loop[h].todo # <<>>

LoopInit ==
  /\ gen = 0
  /\ shown = FALSE
  /\ question = NoQuestion
  /\ resolver = 0
  /\ remembered = [t \in Tools |-> "none"]
  /\ loop = [h \in Runs |-> NoHandler]

Current(h) == gen = h
Active(h) == loop[h].pc \notin {"none", "done"}

\* approvalGateFor and needsApproval; the slip in between gates no edit.
GateFor(t) == CASE t = "edit" -> "edit" [] t = "bash" -> "exec" [] OTHER -> "none"
NeedsApprovalLax(mode, t) == mode \in {"ask", "acceptEdits"} /\ GateFor(t) = "exec"
NeedsApproval(mode, t) ==
  \/ mode = "ask" /\ GateFor(t) # "none"
  \/ mode = "acceptEdits" /\ GateFor(t) = "exec"

\* bailIfStale: the only place where the abort signal is raised.  The slip
\* never raises it.
BailNever(l, h) == l
Bail(l, h) == [l EXCEPT !.aborted = @ \/ ~Current(h)]

\* What the properties still tell apart of a run that is over.
Over == [NoHandler EXCEPT !.pc = "done"]

\* The parked handler resumes with an answer: cancelled, executing or declined.
Answered(l, stale, answer) ==
  IF stale \/ l.aborted
    THEN [l EXCEPT !.pc = "step", !.aborted = TRUE, !.todo = Tail(@)]
    ELSE IF answer = "y" THEN [l EXCEPT !.pc = "exec"]
                         ELSE [l EXCEPT !.pc = "step", !.todo = Tail(@)]

-----------------------------------------------------------------------------
(* The user.                                                               *)

\* With an observation that the model takes no tools, the run starts in text.
Submit(mode, startNative) ==
  /\ ~shown /\ gen + 1 < MaxGen
  /\ gen' = gen + 1
  /\ shown' = TRUE
  /\ question' = NoQuestion
  /\ loop' = [loop EXCEPT ![gen + 1] = [NoHandler EXCEPT !.pc = "attach", !.mode = mode,
                                                          !.mayFallBack = startNative]]
  /\ UNCHANGED <<resolver, remembered>>

Stop ==
  /\ shown /\ gen < MaxGen
  /\ gen' = gen + 1
  /\ shown' = FALSE
  /\ question' = NoQuestion
  /\ resolver' = 0
  /\ loop' = IF resolver = 0 THEN loop
                             ELSE [loop EXCEPT ![resolver] = Answered(@, TRUE, "n")]
  /\ UNCHANGED remembered

\* answerQuestion from the card.
AnswerQuestion(answer, remember) ==
  /\ shown /\ question # NoQuestion
  /\ question' = NoQuestion
  /\ remembered' = IF remember THEN [remembered EXCEPT ![question[2]] = answer]
                               ELSE remembered
  /\ resolver' = 0
  /\ loop' = IF resolver = 0 THEN loop
               ELSE [loop EXCEPT ![resolver] = Answered(@, ~Current(resolver), answer)]
  /\ UNCHANGED <<gen, shown>>

-----------------------------------------------------------------------------
(* The handler up to the loop.                                             *)

Attached(h) ==
  /\ loop[h].pc = "attach"
  /\ loop' = [loop EXCEPT ![h] = IF Current(h) THEN [@ EXCEPT !.pc = "setup"] ELSE Over]
  /\ UNCHANGED <<gen, shown, question, resolver, remembered>>

\* Tools, probe, prerun checkpoint and listing are there.
SetUp(h) ==
  /\ loop[h].pc = "setup"
  /\ loop' = [loop EXCEPT ![h].pc = "step"]
  /\ UNCHANGED <<gen, shown, question, resolver, remembered>>

\* The finally block: whoever waits for an approval is told no, and the run is
\* cleared unless a newer generation owns it.
End(h) ==
  /\ loop' = [g \in Runs |->
                CASE g = h -> Over
                  [] g = resolver /\ g # h -> Answered(loop[g], ~Current(g), "n")
                  [] OTHER -> loop[g]]
  /\ resolver' = 0
  /\ shown' = (shown /\ ~Current(h))
  /\ question' = IF Current(h) THEN NoQuestion ELSE question
  /\ UNCHANGED <<gen, remembered>>

SetUpFails(h) == loop[h].pc = "setup" /\ End(h)

-----------------------------------------------------------------------------
(* runNativeToolLoop and runTextToolLoop, which differ in their transport. *)

AtTop(h) == loop[h].pc = "step" /\ loop[h].todo = <<>>

\* The signal is looked at before a turn and before a call.
AbortSeen(h) == loop[h].pc = "step" /\ loop[h].aborted /\ End(h)

OutOfBudget(h) == AtTop(h) /\ ~loop[h].aborted /\ loop[h].steps = MaxSteps /\ End(h)

AskModel(h) ==
  /\ AtTop(h) /\ ~loop[h].aborted /\ loop[h].steps < MaxSteps
  /\ LET l == Bail(loop[h], h)
     IN loop' = [loop EXCEPT ![h] = [l EXCEPT !.pc = "model", !.steps = l.steps + 1]]
  /\ UNCHANGED <<gen, shown, question, resolver, remembered>>

\* A blank turn is asked again; the slip asks once too often.
MayRetryOffByOne(l) == l.tries <= MaxRetries
MayRetry(l) == l.tries < MaxRetries

RetryEmpty(h) ==
  /\ loop[h].pc = "model" /\ MayRetry(loop[h]) /\ ~loop[h].aborted
  /\ LET l == Bail(loop[h], h)
     IN loop' = [loop EXCEPT ![h] = [l EXCEPT !.tries = l.tries + 1, !.mayFallBack = FALSE]]
  /\ UNCHANGED <<gen, shown, question, resolver, remembered>>

\* A slip: the fallback keeps the transport.
FallBackNative(h) ==
  /\ loop[h].pc = "model" /\ loop[h].mayFallBack
  /\ loop' = [loop EXCEPT ![h] = [@ EXCEPT !.pc = "step", !.steps = 0]]
  /\ UNCHANGED <<gen, shown, question, resolver, remembered>>

\* The first native request is rejected for its tools: start over in text.
FallBack(h) ==
  /\ loop[h].pc = "model" /\ loop[h].mayFallBack
  /\ loop' = [loop EXCEPT ![h] = [@ EXCEPT !.pc = "step", !.steps = 0, !.mayFallBack = FALSE]]
  /\ UNCHANGED <<gen, shown, question, resolver, remembered>>

\* The phase keeps mutating tools away from a read-only run.
CallsOf(mode) == IF mode = "readonly" THEN {"read"} ELSE Tools

ToolTurn(h) ==
  /\ loop[h].pc = "model"
  /\ \E calls \in SeqOf(CallsOf(loop[h].mode), MaxCalls) \ {<<>>} :
       loop' = [loop EXCEPT ![h] = [@ EXCEPT !.pc = "step", !.todo = calls, !.tries = 0,
                                                 !.mayFallBack = FALSE]]
  /\ UNCHANGED <<gen, shown, question, resolver, remembered>>

\* A final answer, one more blank turn, or an error that is not a fallback.
LastTurn(h) == loop[h].pc = "model" /\ End(h)

\* setPendingQuestion, whatever the generation; the slip looks at it.
CardIfCurrent(h, tool) == IF shown /\ Current(h) THEN <<h, tool>> ELSE question
Card(h, tool) == IF shown THEN <<h, tool>> ELSE question

\* executeTool up to its first await.  The signal, raised here, is looked at
\* again only after an approval.
CallTool(h) ==
  /\ loop[h].pc = "step" /\ loop[h].todo # <<>> /\ ~loop[h].aborted
  /\ LET l == Bail(loop[h], h)
         tool == Head(l.todo)
         started == [l EXCEPT !.pc = "exec", !.late = IF Current(h) THEN @ ELSE @ + 1]
     IN \/ /\ ~NeedsApproval(l.mode, tool)
           /\ loop' = [loop EXCEPT ![h] = started]
           /\ UNCHANGED <<question, resolver>>
        \/ /\ NeedsApproval(l.mode, tool) /\ remembered[tool] # "none"
           /\ loop' = [loop EXCEPT ![h] = Answered(l, FALSE, remembered[tool])]
           /\ UNCHANGED <<question, resolver>>
        \/ /\ NeedsApproval(l.mode, tool) /\ remembered[tool] = "none"
           /\ loop' = [loop EXCEPT ![h] = [l EXCEPT !.pc = "asking"]]
           /\ resolver' = h
           /\ question' = Card(h, tool)
  /\ UNCHANGED <<gen, shown, remembered>>

ToolReturns(h) ==
  /\ loop[h].pc = "exec"
  /\ loop' = [loop EXCEPT ![h].pc = "step", ![h].todo = Tail(@)]
  /\ UNCHANGED <<gen, shown, question, resolver, remembered>>

-----------------------------------------------------------------------------
HandlerStep(h) ==
  \/ Attached(h) \/ SetUp(h) \/ SetUpFails(h)
  \/ AbortSeen(h) \/ OutOfBudget(h) \/ AskModel(h)
  \/ RetryEmpty(h) \/ FallBack(h) \/ ToolTurn(h) \/ LastTurn(h)
  \/ CallTool(h) \/ ToolReturns(h)

User ==
  \/ \E mode \in Modes, startNative \in BOOLEAN : Submit(mode, startNative)
  \/ Stop
  \/ \E answer \in {"y", "n"}, remember \in BOOLEAN : AnswerQuestion(answer, remember)

LoopNext == User \/ \E h \in Runs : HandlerStep(h)

\* Model turns, tools and the setup's commands come back, and microtasks run.
LoopFairness == \A h \in Runs : WF_loopVars(HandlerStep(h))

LoopSpec == LoopInit /\ [][LoopNext]_loopVars /\ LoopFairness

-----------------------------------------------------------------------------
(* What the code guarantees.                                               *)

\* What the promise speaks of: who works, what its mode makes it ask for, what
\* the user has approved for good, and what each run is executing.
Running == {h \in Runs : Active(h)}
RuleOf(l) ==
  IF l.pc \in {"none", "done"} THEN Tools
  ELSE CASE l.mode = "ask" -> {"edit", "bash"}
         [] l.mode = "acceptEdits" -> {"bash"}
         [] OTHER -> {}
Gated == [h \in Runs |-> RuleOf(loop[h])]
Approved == {t \in Tools : remembered[t] = "y"}
DoneBy(l) == IF l.pc = "exec" THEN Head(l.todo) ELSE "none"
Executing == [h \in Runs |-> DoneBy(loop[h])]

\* The approval modes' promise: every gated tool that starts was approved, for
\* this run and this tool, on the card on screen, or by a remembered yes.
Gate == INSTANCE ApprovalGate WITH
  Idle <- "none", NoCard <- NoQuestion, card <- question,
  running <- Running, gated <- Gated, always <- Approved, doing <- Executing
KeepsApprovalPromise == Gate!GateSpec

\* The card on screen and the parked promise never come apart: an answer given
\* to a card resumes the run the card is of, or nobody.
CardNamesWaiter == question # NoQuestion => resolver \in {0, question[1]}

\* After a stop, or a newer submit, a run starts at most one more tool,
\* however many calls its turn has left and whatever its mode.
OneLateTool == \A h \in Runs : loop[h].late <= 1

\* Both promises of the loop's control, as the run checks them.
LoopSafe == CardNamesWaiter /\ OneLateTool

\* A run never spins: every run ends or comes to wait for the user.
LoopEnds == \A h \in Runs : []<>(Active(h) => loop[h].pc = "asking")

-----------------------------------------------------------------------------
(* What the comments claim and the code does not guarantee.                *)

\* "Pause the loop on a gated call until the user answers (or the approval
\* mode auto-approves)": the wait of the run on screen ends by an answer or a
\* stop, and by nothing else.
OnlyUserAnswers ==
  [][\A h \in Runs :
       loop[h].pc = "asking" /\ loop'[h].pc # "asking" /\ Current(h)
         => (question # NoQuestion /\ question' = NoQuestion) \/ gen' # gen]_loopVars
=============================================================================
