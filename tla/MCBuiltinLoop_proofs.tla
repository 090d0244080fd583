------------------------- MODULE MCBuiltinLoop_proofs -------------------------
(***************************************************************************)
(* Proofs about the built-in loop, the conversation it sends and the files *)
(* read through it, for any number of generations, turns, calls, retries   *)
(* and lines, and then of the three side by side.                          *)
(***************************************************************************)
EXTENDS MCBuiltinLoop, SequenceTheorems, FiniteSetTheorems, FoldLemmas, TLAPS

\* What a parked run, the promise it waits for and the card have to do with
\* each other, and which runs there are at all.
CardShown == question # NoQuestion => shown
WaiterAsks == resolver # 0 => loop[resolver].pc = "asking"
CardTool ==
  question # NoQuestion /\ resolver # 0 => question[2] = Head(loop[resolver].todo)
FutureRunsNone == \A h \in Runs : h > gen => loop[h].pc = "none"

\* A late tool is only started by a run that raises its signal in doing so.
LateAborted == \A h \in Runs : loop[h].late = 0 \/ (loop[h].late = 1 /\ loop[h].aborted)

LoopInv == /\ LoopTypeOK /\ FutureRunsNone /\ LateAborted
           /\ CardShown /\ CardNamesWaiter /\ WaiterAsks /\ CardTool

-----------------------------------------------------------------------------
(* Calls of a turn, and the records of handlers.                           *)

CallLists == SeqOf(Tools, MaxCalls)

LEMMA CallListIsSeq == CallLists \subseteq Seq(Tools)
BY DEF CallLists, SeqOf

LEMMA EmptyCallList == <<>> \in CallLists
<1>1. <<>> \in [1 .. 0 -> Tools]
  OBVIOUS
<1>2. 0 \in 0 .. MaxCalls
  BY LoopConstants
<1> QED
  BY <1>1, <1>2 DEF CallLists, SeqOf

LEMMA TailCallList == \A s \in CallLists : s # <<>> => Tail(s) \in CallLists /\ Head(s) \in Tools
<1> SUFFICES ASSUME NEW s \in CallLists, s # <<>>
             PROVE  Tail(s) \in CallLists /\ Head(s) \in Tools
  OBVIOUS
<1>1. PICK m \in 0 .. MaxCalls : s \in [1 .. m -> Tools]
  BY DEF CallLists, SeqOf
<1>2. s \in Seq(Tools) /\ Len(s) = m /\ m # 0
  BY <1>1
<1>3. Tail(s) \in [1 .. m - 1 -> Tools]
  <2>1. Tail(s) \in Seq(Tools) /\ Len(Tail(s)) = m - 1
    BY <1>2
  <2> QED
    BY <2>1, LenProperties
<1>4. m - 1 \in 0 .. MaxCalls
  BY <1>2, LoopConstants
<1>5. Head(s) \in Tools
  BY <1>2
<1> QED
  BY <1>3, <1>4, <1>5 DEF CallLists, SeqOf

\* What is done to a handler's record leaves a handler's record.
LEMMA HandlerRecords ==
  /\ Over \in Handler /\ NoHandler \in Handler
  /\ \A l \in Handler, h \in Runs :
       /\ Bail(l, h) \in Handler
       /\ Bail(l, h) = [l EXCEPT !.aborted = Bail(l, h).aborted]
       /\ Bail(l, h).aborted <=> l.aborted \/ ~Current(h)
<1>1. "ask" \in AllModes /\ 0 \in 0 .. MaxSteps /\ 0 \in 0 .. MaxRetries
  BY LoopConstants DEF AllModes
<1>2. NoHandler \in Handler /\ Over \in Handler
  BY <1>1, EmptyCallList DEF NoHandler, Over, Handler, CallLists
<1> QED
  BY <1>2 DEF Bail, Handler, Current

LEMMA AnsweredRecord ==
  ASSUME NEW l \in Handler, l.todo # <<>>, NEW stale \in BOOLEAN, NEW answer \in {"y", "n"}
  PROVE  LET a == Answered(l, stale, answer)
         IN /\ a \in Handler /\ a.mode = l.mode /\ a.late = l.late
            /\ l.aborted => a.aborted
            /\ IF answer = "y" /\ ~stale /\ ~l.aborted THEN a.pc = "exec" /\ a.todo = l.todo
                                                     ELSE a.pc = "step"
<1>1. Tail(l.todo) \in CallLists
  BY TailCallList DEF Handler, CallLists
<1> QED
  BY <1>1 DEF Answered, Handler, CallLists

-----------------------------------------------------------------------------
(* The inductive invariant.                                                *)

LEMMA InitInv == LoopInit => LoopInv
<1> SUFFICES ASSUME LoopInit PROVE LoopInv
  OBVIOUS
<1>1. loop \in [Runs -> Handler]
  BY EmptyCallList, LoopConstants DEF LoopInit, NoHandler, Handler, AllModes, CallLists
<1>2. \A h \in Runs : loop[h] = NoHandler
  BY DEF LoopInit
<1>3. \A h \in Runs : loop[h].pc = "none" /\ loop[h].late = 0
  BY <1>2 DEF NoHandler
<1>4. LoopTypeOK
  <2>1. gen \in 0 .. MaxGen /\ resolver \in Runs \cup {0}
    BY LoopConstants DEF LoopInit
  <2>2. shown \in BOOLEAN /\ question \in (Runs \X Tools) \cup {NoQuestion}
    BY DEF LoopInit
  <2>3. remembered \in [Tools -> {"none", "y", "n"}]
    BY DEF LoopInit
  <2> QED
    BY <1>1, <1>3, <2>1, <2>2, <2>3 DEF LoopTypeOK
<1> QED
  BY <1>3, <1>4
     DEF LoopInit, LoopInv, FutureRunsNone, LateAborted, CardShown,
         CardNamesWaiter, WaiterAsks, CardTool

\* The end of a run, in whichever of its places.
LEMMA EndInv ==
  ASSUME LoopInv, NEW h \in Runs, Active(h), loop[h].pc # "asking", End(h)
  PROVE  LoopInv'
<1> USE DEF LoopInv
<1>1. /\ resolver' = 0 /\ gen' = gen /\ remembered' = remembered
      /\ shown' = (shown /\ ~Current(h))
      /\ question' = IF Current(h) THEN NoQuestion ELSE question
  BY DEF End
<1>2. \A g \in Runs : loop'[g] = IF g = h THEN Over
                                ELSE IF g = resolver THEN Answered(loop[g], ~Current(g), "n")
                                ELSE loop[g]
  BY DEF End
<1>3. \A g \in Runs : g = resolver => loop[g].pc = "asking" /\ loop[g].todo # <<>>
  BY LoopConstants DEF WaiterAsks, LoopTypeOK, Runs
<1>4. ASSUME NEW g \in Runs, g = resolver
      PROVE LET a == Answered(loop[g], ~Current(g), "n")
            IN /\ a \in Handler /\ a.pc = "step" /\ a.late = loop[g].late
               /\ loop[g].aborted => a.aborted
  <2>1. loop[g] \in Handler /\ loop[g].todo # <<>> /\ (~Current(g)) \in BOOLEAN
    BY <1>3, <1>4 DEF LoopTypeOK, Current
  <2> QED
    BY <2>1, AnsweredRecord
<1>5. loop' \in [Runs -> Handler]
  BY <1>2, <1>4, HandlerRecords DEF End, LoopTypeOK
<1>6. \A g \in Runs : loop'[g].pc \in {"asking", "exec"} => loop'[g] = loop[g]
  BY <1>2, <1>4 DEF Over, NoHandler
<1>7. LoopTypeOK'
  BY <1>1, <1>5, <1>6 DEF LoopTypeOK, Current
<1>8. FutureRunsNone'
  <2> SUFFICES ASSUME NEW g \in Runs, g > gen PROVE loop'[g].pc = "none"
    BY <1>1 DEF FutureRunsNone
  <2>1. loop[g].pc = "none"
    BY DEF FutureRunsNone
  <2> QED
    BY <2>1, <1>2, <1>3 DEF Active
<1>9. LateAborted'
  <2> SUFFICES ASSUME NEW g \in Runs
               PROVE  loop'[g].late = 0 \/ (loop'[g].late = 1 /\ loop'[g].aborted)
    BY DEF LateAborted
  <2>1. CASE g = h
    BY <2>1, <1>2 DEF Over, NoHandler
  <2>2. CASE g # h /\ g = resolver
    BY <2>2, <1>2, <1>4 DEF LateAborted
  <2>3. CASE g # h /\ g # resolver
    BY <2>3, <1>2 DEF LateAborted
  <2> QED
    BY <2>1, <2>2, <2>3
<1>10. CardShown'
  BY <1>1 DEF CardShown, Current
<1> QED
  BY <1>1, <1>7, <1>8, <1>9, <1>10 DEF CardNamesWaiter, WaiterAsks, CardTool

\* A step of one run that is not parked and does not end.
LEMMA OneHandler ==
  ASSUME LoopInv, NEW h \in Runs, Active(h), loop[h].pc # "asking",
         NEW l \in Handler, loop' = [loop EXCEPT ![h] = l],
         UNCHANGED <<gen, shown, question, resolver, remembered>>,
         l.pc \in {"asking", "exec"} => l.todo # <<>>,
         l.late = 0 \/ (l.late = 1 /\ l.aborted)
  PROVE  LoopInv'
<1> USE DEF LoopInv
<1>1. \A g \in Runs : loop'[g] = IF g = h THEN l ELSE loop[g]
  BY DEF LoopTypeOK
<1>2. LoopTypeOK'
  BY <1>1 DEF LoopTypeOK
<1>3. FutureRunsNone'
  BY <1>1 DEF FutureRunsNone, Active
<1>4. LateAborted'
  BY <1>1 DEF LateAborted
<1>5. resolver # 0 => resolver \in Runs /\ resolver # h
  BY DEF WaiterAsks, LoopTypeOK
<1>6. WaiterAsks' /\ CardTool'
  BY <1>1, <1>5 DEF WaiterAsks, CardTool
<1> QED
  BY <1>2, <1>3, <1>4, <1>6 DEF CardShown, CardNamesWaiter

\* The parked run, if any, is answered, and the card is gone.
LEMMA WaiterAnswered ==
  ASSUME LoopInv, NEW stale \in BOOLEAN, NEW answer \in {"y", "n"},
         loop' = IF resolver = 0 THEN loop
                 ELSE [loop EXCEPT ![resolver] = Answered(@, stale, answer)],
         question' = NoQuestion, resolver' = 0,
         gen' \in gen .. MaxGen, shown' \in BOOLEAN,
         remembered' \in [Tools -> {"none", "y", "n"}]
  PROVE  LoopInv'
<1> USE DEF LoopInv
<1>1. CASE resolver = 0
  BY <1>1 DEF LoopTypeOK, FutureRunsNone, LateAborted, CardShown, CardNamesWaiter,
              WaiterAsks, CardTool
<1>2. CASE resolver # 0
  <2>1. resolver \in Runs /\ loop[resolver].pc = "asking" /\ loop[resolver] \in Handler
        /\ loop[resolver].todo # <<>>
    BY <1>2 DEF LoopTypeOK, WaiterAsks
  <2> DEFINE a == Answered(loop[resolver], stale, answer)
  <2>2. /\ a \in Handler /\ a.late = loop[resolver].late
        /\ loop[resolver].aborted => a.aborted
        /\ a.pc \in {"exec", "step"} /\ (a.pc = "exec" => a.todo # <<>>)
    BY <2>1, AnsweredRecord
  <2>3. \A g \in Runs : loop'[g] = IF g = resolver THEN a ELSE loop[g]
    BY <1>2 DEF LoopTypeOK
  <2> HIDE DEF a
  <2>4. LoopTypeOK'
    <3>1. loop' \in [Runs -> Handler]
      BY <1>2, <2>2 DEF LoopTypeOK, a
    <3>2. gen' \in 0 .. MaxGen
      BY LoopConstants DEF LoopTypeOK
    <3> QED
      BY <3>1, <3>2, <2>2, <2>3 DEF LoopTypeOK
  <2>5. FutureRunsNone'
    <3>1. gen \in Nat /\ gen' \in Nat /\ gen' >= gen /\ Runs \subseteq Nat
      BY LoopConstants DEF LoopTypeOK, Runs
    <3> QED
      BY <3>1, <2>1, <2>3 DEF FutureRunsNone
  <2>6. LateAborted'
    BY <2>2, <2>3 DEF LateAborted
  <2> QED
    BY <2>4, <2>5, <2>6 DEF CardShown, CardNamesWaiter, WaiterAsks, CardTool
<1> QED
  BY <1>1, <1>2

\* The user's steps.
LEMMA UserInv == LoopInv /\ User => LoopInv'
<1> SUFFICES ASSUME LoopInv, User PROVE LoopInv'
  OBVIOUS
<1> USE DEF LoopInv
<1>1. ASSUME NEW mode \in Modes, NEW startNative \in BOOLEAN, Submit(mode, startNative)
      PROVE  LoopInv'
  <2> DEFINE l == [NoHandler EXCEPT !.pc = "attach", !.mode = mode,
                                    !.mayFallBack = startNative]
  <2>1. gen \in Nat /\ gen + 1 \in Runs /\ gen' = gen + 1 /\ gen' \in 0 .. MaxGen
    BY <1>1, LoopConstants DEF Submit, LoopTypeOK, Runs
  <2>2. l \in Handler /\ l.pc = "attach" /\ l.late = 0
    <3>1. mode \in AllModes
      BY LoopConstants
    <3> QED
      BY <3>1, HandlerRecords DEF NoHandler, Handler
  <2>3. loop[gen + 1].pc = "none"
    BY <2>1 DEF FutureRunsNone
  <2>4. loop' = [loop EXCEPT ![gen + 1] = l]
    BY <1>1 DEF Submit
  <2> HIDE DEF l
  <2>5. \A g \in Runs : loop'[g] = IF g = gen + 1 THEN l ELSE loop[g]
    BY <2>4 DEF LoopTypeOK
  <2>6. question' = NoQuestion /\ shown' = TRUE /\ resolver' = resolver
        /\ remembered' = remembered
    BY <1>1 DEF Submit
  <2>7. resolver # 0 => resolver \in Runs /\ resolver # gen + 1
    BY <2>3 DEF WaiterAsks, LoopTypeOK
  <2>8. LoopTypeOK'
    BY <2>1, <2>2, <2>4, <2>5, <2>6 DEF LoopTypeOK
  <2>9. FutureRunsNone'
    <3>1. Runs \subseteq Nat
      BY DEF Runs
    <3> QED
      BY <3>1, <2>1, <2>5 DEF FutureRunsNone
  <2>10. LateAborted'
    BY <2>2, <2>5 DEF LateAborted
  <2>11. WaiterAsks'
    BY <2>5, <2>6, <2>7 DEF WaiterAsks
  <2> QED
    BY <2>6, <2>8, <2>9, <2>10, <2>11 DEF CardShown, CardNamesWaiter, CardTool
<1>2. CASE Stop
  <2>1. gen' \in gen .. MaxGen
    BY <1>2, LoopConstants DEF Stop, LoopTypeOK
  <2> QED
    BY <1>2, <2>1, WaiterAnswered DEF Stop, LoopTypeOK
<1>3. ASSUME NEW answer \in {"y", "n"}, NEW remember \in BOOLEAN,
             AnswerQuestion(answer, remember)
      PROVE  LoopInv'
  <2>1. gen' \in gen .. MaxGen /\ shown' = shown /\ shown \in BOOLEAN
    BY <1>3, LoopConstants DEF AnswerQuestion, LoopTypeOK
  <2>2. remembered' \in [Tools -> {"none", "y", "n"}]
    BY <1>3 DEF AnswerQuestion, LoopTypeOK
  <2>3. (~Current(resolver)) \in BOOLEAN
    BY DEF Current
  <2>4. question' = NoQuestion /\ resolver' = 0
        /\ loop' = IF resolver = 0 THEN loop
                   ELSE [loop EXCEPT ![resolver] = Answered(@, ~Current(resolver), answer)]
    BY <1>3 DEF AnswerQuestion
  <2> QED
    BY <2>1, <2>2, <2>3, <2>4, WaiterAnswered
<1> QED
  BY <1>1, <1>2, <1>3 DEF User

\* A call is begun: without a gate, by a remembered answer, or by parking.
LEMMA CallInv ==
  ASSUME LoopInv, NEW h \in Runs, CallTool(h)
  PROVE  LoopInv'
<1> USE DEF LoopInv
<1> DEFINE l == Bail(loop[h], h)
           tool == Head(l.todo)
           started == [l EXCEPT !.pc = "exec", !.late = IF Current(h) THEN @ ELSE @ + 1]
<1>1. /\ loop[h] \in Handler /\ loop[h].pc = "step" /\ loop[h].todo # <<>>
      /\ ~loop[h].aborted /\ loop[h].late = 0
  BY DEF CallTool, LoopTypeOK, LateAborted
<1>2. /\ l \in Handler /\ l.pc = "step" /\ l.todo = loop[h].todo /\ l.mode = loop[h].mode
      /\ l.late = 0 /\ (l.aborted <=> ~Current(h))
  BY <1>1, HandlerRecords DEF Bail, Handler
<1>3. tool \in Tools
  BY <1>1, <1>2, TailCallList DEF Handler, CallLists
<1>4. Active(h) /\ loop[h].pc # "asking" /\ UNCHANGED <<gen, shown, remembered>>
  BY <1>1 DEF CallTool, Active
<1>5. \/ /\ ~NeedsApproval(l.mode, tool)
         /\ loop' = [loop EXCEPT ![h] = started] /\ UNCHANGED <<question, resolver>>
      \/ /\ NeedsApproval(l.mode, tool) /\ remembered[tool] # "none"
         /\ loop' = [loop EXCEPT ![h] = Answered(l, FALSE, remembered[tool])]
         /\ UNCHANGED <<question, resolver>>
      \/ /\ NeedsApproval(l.mode, tool) /\ remembered[tool] = "none"
         /\ loop' = [loop EXCEPT ![h] = [l EXCEPT !.pc = "asking"]]
         /\ resolver' = h /\ question' = Card(h, tool)
  BY DEF CallTool
<1>6. ASSUME loop' = [loop EXCEPT ![h] = started], UNCHANGED <<question, resolver>>
      PROVE  LoopInv'
  <2>1. /\ started \in Handler /\ started.pc = "exec" /\ started.todo # <<>>
        /\ (started.late = 0 \/ (started.late = 1 /\ started.aborted))
    <3> HIDE DEF l
    <3>1. CASE Current(h)
      BY <1>1, <1>2, <3>1 DEF Handler
    <3>2. CASE ~Current(h)
      <4>1. started = [l EXCEPT !.pc = "exec", !.late = 1]
        BY <1>2, <3>2
      <4> HIDE DEF started
      <4> QED
        BY <1>1, <1>2, <3>2, <4>1 DEF Handler
    <3> QED
      BY <3>1, <3>2
  <2> QED
    BY <1>4, <1>6, <2>1, OneHandler
<1>7. ASSUME loop' = [loop EXCEPT ![h] = Answered(l, FALSE, remembered[tool])],
             remembered[tool] # "none", UNCHANGED <<question, resolver>>
      PROVE  LoopInv'
  <2>1. remembered[tool] \in {"y", "n"} /\ l.todo # <<>>
    BY <1>1, <1>2, <1>3, <1>7 DEF LoopTypeOK
  <2> DEFINE a == Answered(l, FALSE, remembered[tool])
  <2>2. /\ a \in Handler /\ a.late = 0 /\ a.pc \in {"exec", "step"}
        /\ a.pc = "exec" => a.todo = l.todo
    BY <1>2, <2>1, AnsweredRecord
  <2> QED
    BY <1>4, <1>7, <2>1, <2>2, OneHandler
<1>8. ASSUME loop' = [loop EXCEPT ![h] = [l EXCEPT !.pc = "asking"]],
             resolver' = h, question' = Card(h, tool)
      PROVE  LoopInv'
  <2> DEFINE a == [l EXCEPT !.pc = "asking"]
  <2>1. a \in Handler /\ a.pc = "asking" /\ a.todo = l.todo /\ a.todo # <<>> /\ a.late = 0
    BY <1>1, <1>2 DEF Handler
  <2>2. \A g \in Runs : loop'[g] = IF g = h THEN a ELSE loop[g]
    BY <1>8 DEF LoopTypeOK
  <2>3. loop' \in [Runs -> Handler]
    BY <1>8, <2>1 DEF LoopTypeOK
  <2> HIDE DEF l, a
  <2>4. question' \in (Runs \X Tools) \cup {NoQuestion}
    BY <1>3, <1>8 DEF Card, LoopTypeOK
  <2>5. LoopTypeOK'
    BY <1>4, <1>8, <2>1, <2>2, <2>3, <2>4 DEF LoopTypeOK
  <2>6. FutureRunsNone' /\ LateAborted'
    BY <1>1, <1>4, <2>1, <2>2 DEF FutureRunsNone, LateAborted
  <2>7. WaiterAsks'
    BY <1>8, <2>1, <2>2 DEF WaiterAsks
  <2>8. CardShown' /\ CardNamesWaiter' /\ CardTool'
    BY <1>4, <1>8, <2>1, <2>2 DEF Card, CardShown, CardNamesWaiter, CardTool
  <2> QED
    BY <2>5, <2>6, <2>7, <2>8
<1> QED
  BY <1>5, <1>6, <1>7, <1>8

LEMMA HandlerInv ==
  ASSUME LoopInv, NEW h \in Runs, HandlerStep(h)
  PROVE  LoopInv'
<1> USE DEF LoopInv
<1>0. loop[h] \in Handler /\ (loop[h].late = 0 \/ (loop[h].late = 1 /\ loop[h].aborted))
  BY DEF LoopTypeOK, LateAborted
<1>z. 0 \in 0 .. MaxSteps /\ 0 \in 0 .. MaxRetries
  BY LoopConstants
<1>1. CASE Attached(h)
  <2> DEFINE l == IF Current(h) THEN [loop[h] EXCEPT !.pc = "setup"] ELSE Over
  <2>1. l \in Handler /\ l.pc \notin {"asking", "exec"}
        /\ (l.late = 0 \/ (l.late = 1 /\ l.aborted))
    BY <1>0, HandlerRecords DEF Handler, Over, NoHandler
  <2>2. loop' = [loop EXCEPT ![h] = l] /\ Active(h) /\ loop[h].pc # "asking"
    BY <1>1 DEF Attached, Active
  <2> QED
    BY <1>1, <2>1, <2>2, OneHandler DEF Attached
<1>2. CASE SetUp(h)
  <2> DEFINE l == [loop[h] EXCEPT !.pc = "step"]
  <2>1. l \in Handler /\ l.pc = "step" /\ (l.late = 0 \/ (l.late = 1 /\ l.aborted))
    BY <1>0 DEF Handler
  <2>2. loop' = [loop EXCEPT ![h] = l] /\ Active(h) /\ loop[h].pc # "asking"
    BY <1>2 DEF SetUp, Active
  <2> QED
    BY <1>2, <2>1, <2>2, OneHandler DEF SetUp
<1>3. CASE SetUpFails(h) \/ AbortSeen(h) \/ OutOfBudget(h) \/ LastTurn(h)
  <2>1. End(h) /\ Active(h) /\ loop[h].pc # "asking"
    BY <1>3 DEF SetUpFails, AbortSeen, OutOfBudget, AtTop, LastTurn, Active
  <2> QED
    BY <2>1, EndInv
<1>4. CASE AskModel(h)
  <2> DEFINE b == Bail(loop[h], h)
             l == [b EXCEPT !.pc = "model", !.steps = @ + 1]
  <2>1. b \in Handler /\ b.late = loop[h].late /\ b.steps = loop[h].steps
        /\ (loop[h].aborted => b.aborted)
    BY <1>0, HandlerRecords DEF Handler, Bail
  <2>2. loop[h].steps + 1 \in 0 .. MaxSteps
    BY <1>0, <1>4, LoopConstants DEF AskModel, Handler
  <2>3. l \in Handler /\ l.pc = "model" /\ (l.late = 0 \/ (l.late = 1 /\ l.aborted))
    <3> HIDE DEF b
    <3> QED
      BY <1>0, <2>1, <2>2 DEF Handler
  <2>4. loop' = [loop EXCEPT ![h] = l] /\ Active(h) /\ loop[h].pc # "asking"
    BY <1>4 DEF AskModel, AtTop, Active
  <2> QED
    BY <1>4, <2>3, <2>4, OneHandler DEF AskModel
<1>5. CASE RetryEmpty(h)
  <2> DEFINE b == Bail(loop[h], h)
             l == [b EXCEPT !.tries = @ + 1, !.mayFallBack = FALSE]
  <2>1. b \in Handler /\ b.late = loop[h].late /\ b.tries = loop[h].tries
        /\ (loop[h].aborted => b.aborted) /\ b.pc = "model"
    BY <1>0, <1>5, HandlerRecords DEF Handler, Bail, RetryEmpty
  <2>2. loop[h].tries + 1 \in 0 .. MaxRetries
    BY <1>0, <1>5, LoopConstants DEF RetryEmpty, MayRetry, Handler
  <2>3. l \in Handler /\ l.pc = "model" /\ (l.late = 0 \/ (l.late = 1 /\ l.aborted))
    <3> HIDE DEF b
    <3> QED
      BY <1>0, <2>1, <2>2 DEF Handler
  <2>4. loop' = [loop EXCEPT ![h] = l] /\ Active(h) /\ loop[h].pc # "asking"
    BY <1>5 DEF RetryEmpty, Active
  <2> QED
    BY <1>5, <2>3, <2>4, OneHandler DEF RetryEmpty
<1>6. CASE FallBack(h)
  <2> DEFINE l == [loop[h] EXCEPT !.pc = "step", !.steps = 0, !.mayFallBack = FALSE]
  <2>1. l \in Handler /\ l.pc = "step" /\ (l.late = 0 \/ (l.late = 1 /\ l.aborted))
    BY <1>0, <1>z DEF Handler
  <2>2. loop' = [loop EXCEPT ![h] = l] /\ Active(h) /\ loop[h].pc # "asking"
    BY <1>6 DEF FallBack, Active
  <2> QED
    BY <1>6, <2>1, <2>2, OneHandler DEF FallBack
<1>7. CASE ToolTurn(h)
  <2>1. PICK calls \in CallLists :
          loop' = [loop EXCEPT ![h] = [@ EXCEPT !.pc = "step", !.todo = calls, !.tries = 0,
                                                 !.mayFallBack = FALSE]]
    <3>1. SeqOf(CallsOf(loop[h].mode), MaxCalls) \subseteq CallLists
      BY DEF CallsOf, Tools, SeqOf, CallLists
    <3> QED
      BY <1>7, <3>1 DEF ToolTurn
  <2> DEFINE l == [loop[h] EXCEPT !.pc = "step", !.todo = calls, !.tries = 0,
                                  !.mayFallBack = FALSE]
  <2>2. l \in Handler /\ l.pc = "step" /\ (l.late = 0 \/ (l.late = 1 /\ l.aborted))
    BY <1>0, <1>z DEF Handler, CallLists
  <2>3. loop' = [loop EXCEPT ![h] = l] /\ Active(h) /\ loop[h].pc # "asking"
    BY <1>7, <2>1 DEF ToolTurn, Active
  <2> QED
    BY <1>7, <2>2, <2>3, OneHandler DEF ToolTurn
<1>8. CASE CallTool(h)
  BY <1>8, CallInv
<1>9. CASE ToolReturns(h)
  <2> DEFINE l == [loop[h] EXCEPT !.pc = "step", !.todo = Tail(@)]
  <2>1. Tail(loop[h].todo) \in CallLists
    BY <1>0, <1>9, TailCallList DEF ToolReturns, LoopTypeOK, Handler, CallLists
  <2>2. l \in Handler /\ l.pc = "step" /\ (l.late = 0 \/ (l.late = 1 /\ l.aborted))
    BY <1>0, <2>1 DEF Handler, CallLists
  <2>3. loop' = [loop EXCEPT ![h] = l] /\ Active(h) /\ loop[h].pc # "asking"
    BY <1>9 DEF ToolReturns, Active
  <2> QED
    BY <1>9, <2>2, <2>3, OneHandler DEF ToolReturns
<1> QED
  BY <1>1, <1>2, <1>3, <1>4, <1>5, <1>6, <1>7, <1>8, <1>9 DEF HandlerStep

LEMMA StepInv == LoopInv /\ [LoopNext]_loopVars => LoopInv'
<1> SUFFICES ASSUME LoopInv, [LoopNext]_loopVars PROVE LoopInv'
  OBVIOUS
<1>1. CASE LoopNext
  BY <1>1, UserInv, HandlerInv DEF LoopNext
<1>2. CASE UNCHANGED loopVars
  BY <1>2 DEF loopVars, LoopInv, LoopTypeOK, FutureRunsNone, LateAborted, CardShown,
              CardNamesWaiter, WaiterAsks, CardTool
<1> QED
  BY <1>1, <1>2

LEMMA Invariance == LoopSpec => []LoopInv
<1> QED
  BY InitInv, StepInv, PTL DEF LoopSpec

\* The handlers' records keep their types: budgets of turns and retries are
\* never exceeded, and a run that is parked or executing has a call to do.
THEOREM LoopTypeCorrect == LoopSpec => []LoopTypeOK
<1>1. LoopInv => LoopTypeOK
  BY DEF LoopInv
<1> QED
  BY <1>1, Invariance, PTL

\* An answer given to the card resumes the run the card is of, or nobody; and
\* however long its turns, a run that was stopped or replaced starts at most
\* one more tool.
THEOREM LoopIsSafe == LoopSpec => []LoopSafe
<1>1. LoopInv => LoopSafe
  BY DEF LoopInv, LateAborted, LoopSafe, OneLateTool
<1> QED
  BY <1>1, Invariance, PTL

-----------------------------------------------------------------------------
(* The loop implements the approval gate.                                  *)

\* What the gate sees of a step in which one run's record becomes l.
LEMMA OneRunSeen ==
  ASSUME LoopTypeOK, NEW h \in Runs, NEW l, loop' = [loop EXCEPT ![h] = l]
  PROVE  /\ Running' = IF l.pc \in {"none", "done"} THEN Running \ {h} ELSE Running \cup {h}
         /\ Gated' = [Gated EXCEPT ![h] = RuleOf(l)]
         /\ Executing' = [Executing EXCEPT ![h] = DoneBy(l)]
<1>1. \A g \in Runs : loop'[g] = IF g = h THEN l ELSE loop[g]
  BY DEF LoopTypeOK
<1>2. Running' = IF l.pc \in {"none", "done"} THEN Running \ {h} ELSE Running \cup {h}
  BY <1>1 DEF Running, Active
<1>3. Gated' = [Gated EXCEPT ![h] = RuleOf(l)]
  <2>1. Gated' = [g \in Runs |-> RuleOf(loop'[g])] /\ Gated = [g \in Runs |-> RuleOf(loop[g])]
    BY DEF Gated
  <2> QED
    BY <1>1, <2>1
<1>4. Executing' = [Executing EXCEPT ![h] = DoneBy(l)]
  <2>1. /\ Executing' = [g \in Runs |-> DoneBy(loop'[g])]
        /\ Executing = [g \in Runs |-> DoneBy(loop[g])]
    BY DEF Executing
  <2> QED
    BY <1>1, <2>1
<1> QED
  BY <1>2, <1>3, <1>4

\* A step of a run that goes on under its rule and neither begins nor ends a
\* tool is none of the gate's.
LEMMA Unseen ==
  ASSUME LoopTypeOK, NEW h \in Runs, NEW l, loop' = [loop EXCEPT ![h] = l],
         loop[h].pc \notin {"none", "done", "exec"}, l.pc \notin {"none", "done", "exec"},
         l.mode = loop[h].mode
  PROVE  UNCHANGED <<Running, Gated, Executing>>
<1>1. Running' = Running
  BY OneRunSeen DEF Running, Active
<1>2. RuleOf(l) = Gated[h] /\ Gated \in [Runs -> {Gated[g] : g \in Runs}]
  BY DEF RuleOf, Gated
<1>3. DoneBy(l) = Executing[h] /\ Executing \in [Runs -> {Executing[g] : g \in Runs}]
  BY DEF DoneBy, Executing
<1>4. Gated' = Gated
  <2>1. Gated' = [Gated EXCEPT ![h] = Gated[h]]
    BY <1>2, OneRunSeen
  <2> QED
    BY <1>2, <2>1
<1>5. Executing' = Executing
  <2>1. Executing' = [Executing EXCEPT ![h] = Executing[h]]
    BY <1>3, OneRunSeen
  <2> QED
    BY <1>3, <2>1
<1> QED
  BY <1>1, <1>4, <1>5

LEMMA GateInitially == LoopInit => Gate!GateInit
<1> SUFFICES ASSUME LoopInit PROVE Gate!GateInit
  OBVIOUS
<1>1. \A h \in Runs : loop[h].pc = "none"
  BY DEF LoopInit, NoHandler
<1>2. Running = {} /\ Approved = {}
  BY <1>1 DEF Running, Active, Approved, LoopInit
<1>3. Gated = [h \in Runs |-> Tools] /\ Executing = [h \in Runs |-> "none"]
  BY <1>1 DEF Gated, RuleOf, Executing, DoneBy
<1> QED
  BY <1>2, <1>3 DEF Gate!GateInit, LoopInit

\* What the gate's variables are of a run's record.
LEMMA Seen ==
  /\ \A h \in Runs : /\ h \in Running <=> Active(h)
                     /\ Executing[h] = DoneBy(loop[h]) /\ Gated[h] = RuleOf(loop[h])
  /\ \A t \in Tools : t \in Approved <=> remembered[t] = "y"
BY DEF Running, Executing, Gated, Approved

\* The user's steps are seen as a beginning, an answer or a dismissal.
LEMMA UserSeen ==
  ASSUME LoopInv, User PROVE [Gate!GateNext]_(Gate!gateVars)
<1> USE DEF LoopInv
<1>1. ASSUME NEW mode \in Modes, NEW startNative \in BOOLEAN, Submit(mode, startNative)
      PROVE  Gate!GateNext
  <2> DEFINE h == gen + 1
             l == [NoHandler EXCEPT !.pc = "attach", !.mode = mode,
                                    !.mayFallBack = startNative]
  <2>1. h \in Runs /\ loop[h].pc = "none"
    BY <1>1, LoopConstants DEF Submit, LoopTypeOK, Runs, FutureRunsNone
  <2>2. loop' = [loop EXCEPT ![h] = l] /\ l.pc = "attach" /\ question' = NoQuestion
        /\ remembered' = remembered
    BY <1>1 DEF Submit, NoHandler
  <2> HIDE DEF h, l
  <2>3. Running' = Running \cup {h} /\ h \notin Running
    BY <2>1, <2>2, OneRunSeen DEF Running, Active
  <2>4. Gated' = [Gated EXCEPT ![h] = RuleOf(l)] /\ RuleOf(l) \in SUBSET Tools
    BY <2>1, <2>2, OneRunSeen DEF RuleOf, Tools
  <2>5. Executing' = Executing
    <3>1. Executing' = [Executing EXCEPT ![h] = DoneBy(l)] /\ DoneBy(l) = "none"
      BY <2>1, <2>2, OneRunSeen DEF DoneBy
    <3>2. Executing[h] = "none" /\ Executing \in [Runs -> {Executing[g] : g \in Runs}]
      BY <2>1 DEF Executing, DoneBy
    <3> QED
      BY <3>1, <3>2
  <2>6. Approved' = Approved
    BY <2>2 DEF Approved
  <2>7. Gate!Begin(h, RuleOf(l))
    BY <2>2, <2>3, <2>4, <2>5, <2>6 DEF Gate!Begin
  <2> QED
    BY <2>1, <2>4, <2>7 DEF Gate!GateNext
<1>2. CASE Stop
  <2>1. UNCHANGED <<Running, Gated, Executing, Approved>>
    <3>1. Approved' = Approved
      BY <1>2 DEF Stop, Approved
    <3>2. CASE resolver = 0
      BY <1>2, <3>1, <3>2 DEF Stop, Running, Active, Gated, Executing
    <3>3. CASE resolver # 0
      <4>1. /\ resolver \in Runs /\ loop[resolver].pc = "asking"
            /\ loop[resolver] \in Handler /\ loop[resolver].todo # <<>>
        BY <3>3 DEF LoopTypeOK, WaiterAsks
      <4> DEFINE a == Answered(loop[resolver], TRUE, "n")
      <4>2. a.pc = "step" /\ a.mode = loop[resolver].mode
        BY <4>1, AnsweredRecord
      <4>3. loop' = [loop EXCEPT ![resolver] = a]
        BY <1>2, <3>3 DEF Stop
      <4> HIDE DEF a
      <4> QED
        BY <3>1, <4>1, <4>2, <4>3, Unseen
    <3> QED
      BY <3>2, <3>3
  <2>2. question' = NoQuestion
    BY <1>2 DEF Stop
  <2> QED
    BY <2>1, <2>2 DEF Gate!GateNext, Gate!Dismiss, Gate!gateVars
<1>3. ASSUME NEW answer \in {"y", "n"}, NEW remember \in BOOLEAN,
             AnswerQuestion(answer, remember)
      PROVE  Gate!GateNext
  <2>1. PICK r \in Runs, t \in Tools : question = <<r, t>>
    BY <1>3 DEF AnswerQuestion, LoopTypeOK
  <2>2. question' = NoQuestion
    BY <1>3 DEF AnswerQuestion
  <2>3. Approved' \in {Approved, IF answer = "y" THEN Approved \cup {t} ELSE Approved \ {t}}
    <3>1. remembered' = IF remember THEN [remembered EXCEPT ![t] = answer] ELSE remembered
      BY <1>3, <2>1 DEF AnswerQuestion
    <3>2. CASE ~remember
      BY <3>1, <3>2 DEF Approved
    <3>3. CASE remember
      <4>1. \A u \in Tools : remembered'[u] = IF u = t THEN answer ELSE remembered[u]
        BY <3>1, <3>3 DEF LoopTypeOK
      <4> QED
        BY <4>1 DEF Approved
    <3> QED
      BY <3>2, <3>3
  <2>4. /\ UNCHANGED <<Running, Gated>>
        /\ \/ UNCHANGED Executing
           \/ answer = "y" /\ Executing[r] = "none" /\ Executing' = [Executing EXCEPT ![r] = t]
    <3>1. CASE resolver = 0
      BY <1>3, <3>1 DEF AnswerQuestion, Running, Active, Gated, Executing
    <3>2. CASE resolver # 0
      <4>1. /\ resolver \in Runs /\ loop[resolver].pc = "asking"
            /\ loop[resolver] \in Handler /\ loop[resolver].todo # <<>>
        BY <3>2 DEF LoopTypeOK, WaiterAsks
      <4>2. resolver = r /\ Head(loop[r].todo) = t
        BY <1>3, <2>1, <3>2 DEF CardNamesWaiter, CardTool, AnswerQuestion
      <4>3. (~Current(r)) \in BOOLEAN
        BY DEF Current
      <4> DEFINE a == Answered(loop[r], ~Current(r), answer)
      <4>4. /\ a.mode = loop[r].mode
            /\ a.pc = "step" \/ (answer = "y" /\ a.pc = "exec" /\ a.todo = loop[r].todo)
        BY <4>1, <4>2, <4>3, AnsweredRecord
      <4>5. loop' = [loop EXCEPT ![r] = a]
        BY <1>3, <3>2, <4>2 DEF AnswerQuestion
      <4> HIDE DEF a
      <4>6. CASE a.pc = "step"
        BY <4>1, <4>2, <4>4, <4>5, <4>6, Unseen
      <4>7. CASE a.pc # "step"
        <5>1. Executing[r] = "none" /\ Executing' = [Executing EXCEPT ![r] = t]
          <6>1. Executing' = [Executing EXCEPT ![r] = DoneBy(a)]
            BY <4>2, <4>5, OneRunSeen
          <6>2. DoneBy(a) = t
            BY <4>2, <4>4, <4>7 DEF DoneBy
          <6>3. Executing[r] = "none"
            BY <4>1, <4>2, Seen DEF DoneBy
          <6> QED
            BY <6>1, <6>2, <6>3
        <5>2. Running' = Running
          BY <4>1, <4>2, <4>4, <4>5, <4>7, OneRunSeen DEF Running, Active
        <5>3. Gated' = [Gated EXCEPT ![r] = Gated[r]]
              /\ Gated \in [Runs -> {Gated[g] : g \in Runs}]
          <6>1. Gated' = [Gated EXCEPT ![r] = RuleOf(a)]
            BY <4>2, <4>5, OneRunSeen
          <6>2. RuleOf(a) = RuleOf(loop[r])
            BY <4>1, <4>2, <4>4, <4>7 DEF RuleOf
          <6> QED
            BY <6>1, <6>2 DEF Gated
        <5>4. Gated' = Gated
          BY <5>3
        <5> QED
          BY <4>4, <4>7, <5>1, <5>2, <5>4
      <4> QED
        BY <4>6, <4>7
    <3> QED
      BY <3>1, <3>2
  <2>5. CASE answer = "y"
    <3>1. Gate!Yes(r, t)
      BY <2>1, <2>2, <2>3, <2>4, <2>5 DEF Gate!Yes
    <3> QED
      BY <2>1, <3>1 DEF Gate!GateNext
  <2>6. CASE answer = "n"
    <3>1. Gate!No(r, t)
      BY <2>1, <2>2, <2>3, <2>4, <2>6 DEF Gate!No
    <3> QED
      BY <2>1, <3>1 DEF Gate!GateNext
  <2> QED
    BY <2>5, <2>6
<1> QED
  BY <1>1, <1>2, <1>3 DEF User

\* The end of a run is one for the gate, and perhaps takes the card along.
LEMMA EndSeen ==
  ASSUME LoopInv, NEW h \in Runs, Active(h), loop[h].pc \notin {"asking", "exec"}, End(h)
  PROVE  Gate!GateNext
<1> USE DEF LoopInv
<1>1. \A g \in Runs : loop'[g] = IF g = h THEN Over
                                ELSE IF g = resolver THEN Answered(loop[g], ~Current(g), "n")
                                ELSE loop[g]
  BY DEF End
<1>2. ASSUME NEW g \in Runs, g # h
      PROVE  /\ RuleOf(loop'[g]) = RuleOf(loop[g]) /\ DoneBy(loop'[g]) = DoneBy(loop[g])
             /\ loop'[g].pc \in {"none", "done"} <=> loop[g].pc \in {"none", "done"}
  <2>1. CASE g # resolver
    BY <1>1, <1>2, <2>1
  <2>2. CASE g = resolver
    <3>1. loop[g].pc = "asking" /\ loop[g].todo # <<>> /\ loop[g] \in Handler
      BY <2>2, LoopConstants DEF WaiterAsks, LoopTypeOK, Runs
    <3>2. (~Current(g)) \in BOOLEAN
      BY DEF Current
    <3> DEFINE a == Answered(loop[g], ~Current(g), "n")
    <3>3. a.pc = "step" /\ a.mode = loop[g].mode
      BY <3>1, <3>2, AnsweredRecord
    <3>4. loop'[g] = a
      BY <1>1, <1>2, <2>2
    <3> HIDE DEF a
    <3> QED
      BY <3>1, <3>3, <3>4 DEF RuleOf, DoneBy
  <2> QED
    BY <2>1, <2>2
<1>3. loop'[h] = Over /\ Over.pc = "done"
  BY <1>1 DEF Over, NoHandler
<1>4. h \in Running /\ Executing[h] = "none"
  BY Seen DEF DoneBy
<1>5. Running' = Running \ {h}
  BY <1>2, <1>3 DEF Running, Active
<1>6. Gated' = [Gated EXCEPT ![h] = Tools]
  <2>1. RuleOf(loop'[h]) = Tools
    BY <1>3 DEF RuleOf
  <2>2. Gated' = [g \in Runs |-> RuleOf(loop'[g])] /\ Gated = [g \in Runs |-> RuleOf(loop[g])]
    BY DEF Gated
  <2> QED
    BY <1>2, <2>1, <2>2
<1>7. Executing' = Executing
  <2>1. DoneBy(loop'[h]) = "none" /\ DoneBy(loop[h]) = "none"
    BY <1>3 DEF DoneBy
  <2>2. /\ Executing' = [g \in Runs |-> DoneBy(loop'[g])]
        /\ Executing = [g \in Runs |-> DoneBy(loop[g])]
    BY DEF Executing
  <2> QED
    BY <1>2, <2>1, <2>2
<1>8. Approved' = Approved /\ question' \in {question, NoQuestion}
  BY DEF End, Approved
<1>9. Gate!End(h)
  BY <1>4, <1>5, <1>6, <1>7, <1>8 DEF Gate!End
<1> QED
  BY <1>9 DEF Gate!GateNext

\* A call begun is a start or a question, or nothing of the gate's.
LEMMA CallSeen ==
  ASSUME LoopInv, NEW h \in Runs, CallTool(h)
  PROVE  [Gate!GateNext]_(Gate!gateVars)
<1> USE DEF LoopInv
<1> DEFINE l == Bail(loop[h], h)
           tool == Head(l.todo)
           started == [l EXCEPT !.pc = "exec", !.late = IF Current(h) THEN @ ELSE @ + 1]
<1>1. /\ loop[h] \in Handler /\ loop[h].pc = "step" /\ loop[h].todo # <<>>
      /\ ~loop[h].aborted /\ h \in Running /\ Executing[h] = "none"
  BY Seen DEF CallTool, LoopTypeOK, Active, DoneBy
<1>2. /\ l \in Handler /\ l.pc = "step" /\ l.todo = loop[h].todo /\ l.mode = loop[h].mode
  BY <1>1, HandlerRecords DEF Bail, Handler
<1>3. tool \in Tools /\ tool = Head(l.todo)
  BY <1>1, <1>2, TailCallList DEF Handler, CallLists
<1>4. Approved' = Approved
  BY DEF CallTool, Approved
<1>5. \/ /\ ~NeedsApproval(l.mode, tool)
         /\ loop' = [loop EXCEPT ![h] = started] /\ UNCHANGED question
      \/ /\ NeedsApproval(l.mode, tool) /\ remembered[tool] # "none"
         /\ loop' = [loop EXCEPT ![h] = Answered(l, FALSE, remembered[tool])]
         /\ UNCHANGED question
      \/ /\ NeedsApproval(l.mode, tool) /\ loop' = [loop EXCEPT ![h] = [l EXCEPT !.pc = "asking"]]
         /\ question' = Card(h, tool)
  BY DEF CallTool
<1>6. NeedsApproval(l.mode, tool) <=> tool \in Gated[h]
  BY <1>1, <1>2, <1>3, Seen DEF NeedsApproval, GateFor, RuleOf, Tools
\* Whatever record with the same mode executes the tool: the gate sees a start.
<1>7. ASSUME NEW a, loop' = [loop EXCEPT ![h] = a], a.pc = "exec", a.mode = loop[h].mode,
             Head(a.todo) = tool, UNCHANGED question,
             tool \notin Gated[h] \/ tool \in Approved
      PROVE  Gate!GateNext
  <2>1. Executing' = [Executing EXCEPT ![h] = tool]
    BY <1>7, OneRunSeen DEF DoneBy
  <2>2. Running' = Running
    <3> HIDE DEF l, tool, started
    <3>1. Running' = Running \cup {h}
      BY <1>7, OneRunSeen
    <3> QED
      BY <1>1, <3>1
  <2>3. Gated' = Gated
    <3>1. Gated' = [Gated EXCEPT ![h] = RuleOf(a)]
      BY <1>7, OneRunSeen
    <3>2. RuleOf(a) = RuleOf(loop[h])
      BY <1>1, <1>7 DEF RuleOf
    <3> QED
      BY <3>1, <3>2 DEF Gated
  <2>4. Gate!Start(h, tool)
    BY <1>1, <1>4, <1>7, <2>1, <2>2, <2>3 DEF Gate!Start
  <2> QED
    BY <1>3, <2>4 DEF Gate!GateNext
<1> HIDE DEF l, tool
<1>8. ASSUME loop' = [loop EXCEPT ![h] = started], ~NeedsApproval(l.mode, tool), UNCHANGED question
      PROVE  Gate!GateNext
  <2>1. started.pc = "exec" /\ started.mode = loop[h].mode /\ Head(started.todo) = tool
    BY <1>2, <1>3 DEF Handler
  <2> QED
    BY <1>6, <1>7, <1>8, <2>1
<1>9. ASSUME loop' = [loop EXCEPT ![h] = Answered(l, FALSE, remembered[tool])],
             remembered[tool] # "none", UNCHANGED question
      PROVE  [Gate!GateNext]_(Gate!gateVars)
  <2>1. remembered[tool] \in {"y", "n"} /\ l.todo # <<>>
    BY <1>1, <1>2, <1>3, <1>9 DEF LoopTypeOK
  <2> DEFINE a == Answered(l, FALSE, remembered[tool])
  <2>2. /\ a.mode = loop[h].mode
        /\ a.pc = "step" \/ (a.pc = "exec" /\ a.todo = l.todo /\ remembered[tool] = "y")
    BY <1>2, <2>1, AnsweredRecord
  <2>3. loop' = [loop EXCEPT ![h] = a]
    BY <1>9
  <2> HIDE DEF a
  <2>4. CASE a.pc = "step"
    <3>1. UNCHANGED <<Running, Gated, Executing>>
      BY <1>1, <2>2, <2>3, <2>4, Unseen
    <3> QED
      BY <1>4, <1>9, <3>1 DEF Gate!gateVars
  <2>5. CASE a.pc # "step"
    <3>1. tool \in Approved
      BY <1>3, <2>2, <2>5, Seen
    <3>2. Head(a.todo) = tool
      BY <1>3, <2>2, <2>5
    <3> QED
      BY <1>7, <1>9, <2>2, <2>3, <2>5, <3>1, <3>2
  <2> QED
    BY <2>4, <2>5
<1>10. ASSUME loop' = [loop EXCEPT ![h] = [l EXCEPT !.pc = "asking"]],
              question' = Card(h, tool), NeedsApproval(l.mode, tool)
       PROVE  [Gate!GateNext]_(Gate!gateVars)
  <2> DEFINE a == [l EXCEPT !.pc = "asking"]
  <2>1. a.pc = "asking" /\ a.mode = loop[h].mode
    BY <1>2 DEF Handler
  <2> HIDE DEF a
  <2>2. loop' = [loop EXCEPT ![h] = a]
    BY <1>10 DEF a
  <2>3. UNCHANGED <<Running, Gated, Executing>>
    BY <1>1, <2>1, <2>2, Unseen
  <2>4. CASE shown
    <3>1. Gate!Ask(h, tool)
      BY <1>1, <1>4, <1>6, <1>10, <2>3, <2>4 DEF Gate!Ask, Card
    <3> QED
      BY <1>3, <3>1 DEF Gate!GateNext
  <2>5. CASE ~shown
    BY <1>4, <1>10, <2>3, <2>5 DEF Card, Gate!gateVars
  <2> QED
    BY <2>4, <2>5
<1> QED
  BY <1>5, <1>8, <1>9, <1>10

LEMMA HandlerSeen ==
  ASSUME LoopInv, NEW h \in Runs, HandlerStep(h)
  PROVE  [Gate!GateNext]_(Gate!gateVars)
<1> USE DEF LoopInv
\* Most steps of a run are none of the gate's.
<1>1. ASSUME NEW l, loop' = [loop EXCEPT ![h] = l], UNCHANGED <<question, remembered>>,
             loop[h].pc \notin {"none", "done", "exec"}, l.pc \notin {"none", "done", "exec"},
             l.mode = loop[h].mode
      PROVE  UNCHANGED Gate!gateVars
  <2>1. UNCHANGED <<Running, Gated, Executing>>
    BY <1>1, Unseen
  <2> QED
    BY <1>1, <2>1 DEF Gate!gateVars, Approved
<1>2. loop[h] \in Handler
  BY DEF LoopTypeOK
<1>3. CASE Attached(h)
  <2>1. CASE Current(h)
    <3> DEFINE l == [loop[h] EXCEPT !.pc = "setup"]
    <3>1. l.pc = "setup" /\ l.mode = loop[h].mode /\ loop' = [loop EXCEPT ![h] = l]
      BY <1>2, <1>3, <2>1 DEF Handler, Attached
    <3> HIDE DEF l
    <3> QED
      BY <1>1, <1>3, <3>1 DEF Attached
  <2>2. CASE ~Current(h)
    <3>1. loop' = [loop EXCEPT ![h] = Over] /\ Over.pc = "done" /\ loop[h].pc = "attach"
          /\ UNCHANGED <<question, remembered>>
      BY <1>3, <2>2 DEF Attached, Over, NoHandler
    <3>2. Running' = Running \ {h} /\ h \in Running
      BY <3>1, OneRunSeen, Seen DEF Active
    <3>3. RuleOf(Over) = Tools /\ DoneBy(Over) = "none"
      BY <3>1 DEF RuleOf, DoneBy
    <3>4. Gated' = [Gated EXCEPT ![h] = Tools]
      BY <3>1, <3>3, OneRunSeen
    <3>5. Executing[h] = "none" /\ Executing \in [Runs -> {Executing[g] : g \in Runs}]
      BY <3>1 DEF Executing, DoneBy
    <3>6. Executing' = [Executing EXCEPT ![h] = "none"]
      <4>1. Executing' = [Executing EXCEPT ![h] = DoneBy(Over)]
        BY <3>1, OneRunSeen
      <4> QED
        BY <3>3, <4>1
    <3>7. Executing' = Executing /\ Approved' = Approved
      BY <3>1, <3>5, <3>6 DEF Approved
    <3>8. Gate!End(h)
      BY <3>1, <3>2, <3>4, <3>5, <3>7 DEF Gate!End
    <3> QED
      BY <3>8 DEF Gate!GateNext
  <2> QED
    BY <2>1, <2>2
<1>4. CASE SetUp(h)
  <2> DEFINE l == [loop[h] EXCEPT !.pc = "step"]
  <2>1. l.pc = "step" /\ l.mode = loop[h].mode /\ loop' = [loop EXCEPT ![h] = l]
    BY <1>2, <1>4 DEF Handler, SetUp
  <2> HIDE DEF l
  <2> QED
    BY <1>1, <1>4, <2>1 DEF SetUp
<1>5. CASE SetUpFails(h) \/ AbortSeen(h) \/ OutOfBudget(h) \/ LastTurn(h)
  <2>1. End(h) /\ Active(h) /\ loop[h].pc \notin {"asking", "exec"}
    BY <1>5 DEF SetUpFails, AbortSeen, OutOfBudget, AtTop, LastTurn, Active
  <2> QED
    BY <2>1, EndSeen
<1>6. CASE AskModel(h)
  <2> DEFINE b == Bail(loop[h], h)
             l == [b EXCEPT !.pc = "model", !.steps = b.steps + 1]
  <2>1. b \in Handler /\ b.mode = loop[h].mode
    BY <1>2, HandlerRecords DEF Handler, Bail
  <2>2. loop' = [loop EXCEPT ![h] = l]
    BY <1>6 DEF AskModel
  <2>3. l.pc = "model" /\ l.mode = loop[h].mode
    <3> HIDE DEF b
    <3> QED
      BY <2>1 DEF Handler
  <2> HIDE DEF l
  <2> QED
    BY <1>1, <1>6, <2>2, <2>3 DEF AskModel, AtTop
<1>7. CASE RetryEmpty(h)
  <2> DEFINE b == Bail(loop[h], h)
             l == [b EXCEPT !.tries = b.tries + 1, !.mayFallBack = FALSE]
  <2>1. b \in Handler /\ b.mode = loop[h].mode /\ b.pc = "model"
    BY <1>2, <1>7, HandlerRecords DEF Handler, Bail, RetryEmpty
  <2>2. loop' = [loop EXCEPT ![h] = l]
    BY <1>7 DEF RetryEmpty
  <2>3. l.pc = "model" /\ l.mode = loop[h].mode
    <3> HIDE DEF b
    <3> QED
      BY <2>1 DEF Handler
  <2> HIDE DEF l
  <2> QED
    BY <1>1, <1>7, <2>2, <2>3 DEF RetryEmpty
<1>8. CASE FallBack(h)
  <2> DEFINE l == [loop[h] EXCEPT !.pc = "step", !.steps = 0, !.mayFallBack = FALSE]
  <2>1. l.pc = "step" /\ l.mode = loop[h].mode /\ loop' = [loop EXCEPT ![h] = l]
    BY <1>2, <1>8 DEF Handler, FallBack
  <2> HIDE DEF l
  <2> QED
    BY <1>1, <1>8, <2>1 DEF FallBack
<1>9. CASE ToolTurn(h)
  <2>1. PICK calls :
          loop' = [loop EXCEPT ![h] = [@ EXCEPT !.pc = "step", !.todo = calls, !.tries = 0,
                                                 !.mayFallBack = FALSE]]
    BY <1>9 DEF ToolTurn
  <2> DEFINE l == [loop[h] EXCEPT !.pc = "step", !.todo = calls, !.tries = 0,
                                  !.mayFallBack = FALSE]
  <2>2. l.pc = "step" /\ l.mode = loop[h].mode /\ loop' = [loop EXCEPT ![h] = l]
    BY <1>2, <2>1 DEF Handler
  <2> HIDE DEF l
  <2> QED
    BY <1>1, <1>9, <2>2 DEF ToolTurn
<1>10. CASE CallTool(h)
  BY <1>10, CallSeen
<1>11. CASE ToolReturns(h)
  <2> DEFINE l == [loop[h] EXCEPT !.pc = "step", !.todo = Tail(@)]
  <2>1. /\ l.pc = "step" /\ l.mode = loop[h].mode /\ loop' = [loop EXCEPT ![h] = l]
        /\ loop[h].pc = "exec" /\ loop[h].todo # <<>>
    BY <1>2, <1>11 DEF Handler, ToolReturns, LoopTypeOK
  <2> HIDE DEF l
  <2>2. Executing' = [Executing EXCEPT ![h] = "none"]
    BY <2>1, OneRunSeen DEF DoneBy
  <2>3. Executing[h] # "none"
    <3>1. Executing[h] = Head(loop[h].todo)
      BY <2>1, Seen DEF DoneBy
    <3>2. Executing[h] \in Tools
      BY <1>2, <2>1, <3>1, TailCallList DEF Handler, CallLists
    <3> QED
      BY <3>2 DEF Tools
  <2>4. Running' = Running
    <3>1. Running' = Running \cup {h} /\ h \in Running
      BY <2>1, OneRunSeen, Seen DEF Active
    <3> QED
      BY <3>1
  <2>5. Gated' = Gated
    <3>1. Gated' = [Gated EXCEPT ![h] = RuleOf(l)] /\ RuleOf(l) = RuleOf(loop[h])
      BY <2>1, OneRunSeen DEF RuleOf
    <3> QED
      BY <3>1 DEF Gated
  <2>6. Gate!Finish(h)
    BY <1>11, <2>2, <2>3, <2>4, <2>5 DEF Gate!Finish, ToolReturns, Approved
  <2> QED
    BY <2>6 DEF Gate!GateNext
<1> QED
  BY <1>3, <1>4, <1>5, <1>6, <1>7, <1>8, <1>9, <1>10, <1>11 DEF HandlerStep

\* The approval modes' promise holds of every behaviour of the loop: a gated tool
\* starts only in answer to a yes on the card that names its run and itself, or
\* by a yes the user asked to be remembered.
THEOREM LoopKeepsPromise == LoopSpec => KeepsApprovalPromise
<1>1. LoopInv /\ [LoopNext]_loopVars => [Gate!GateNext]_(Gate!gateVars)
  <2> SUFFICES ASSUME LoopInv, [LoopNext]_loopVars PROVE [Gate!GateNext]_(Gate!gateVars)
    OBVIOUS
  <2>1. CASE User
    BY <2>1, UserSeen
  <2>2. ASSUME NEW h \in Runs, HandlerStep(h) PROVE [Gate!GateNext]_(Gate!gateVars)
    BY <2>2, HandlerSeen
  <2>3. CASE UNCHANGED loopVars
    BY <2>3 DEF loopVars, Gate!gateVars, Running, Active, Gated, Approved, Executing
  <2> QED
    BY <2>1, <2>2, <2>3 DEF LoopNext
<1> QED
  BY <1>1, GateInitially, Invariance, PTL DEF LoopSpec, KeepsApprovalPromise, Gate!GateSpec
-----------------------------------------------------------------------------
(* The pages of a file.                                                    *)

LEMMA FileShape ==
  ASSUME NEW f \in Files
  PROVE  /\ f \in Seq(Widths) /\ Len(f) \in 0 .. FileLines /\ DOMAIN f = 1 .. Len(f)
         /\ \A k \in 1 .. Len(f) : f[k] \in Nat
         /\ f = <<>> <=> Len(f) = 0
<1>1. PICK m \in 0 .. FileLines : f \in [1 .. m -> Widths]
  BY DEF Files, SeqOf
<1>2. f \in Seq(Widths) /\ Len(f) = m /\ m \in Nat
  BY <1>1, ReadsConstants
<1>3. \A k \in 1 .. m : f[k] \in Nat
  BY <1>1, ReadsConstants
<1>4. f = <<>> <=> Len(f) = 0
  BY <1>2
<1> QED
  BY <1>1, <1>2, <1>3, <1>4

\* A page goes from where it starts to a line of the file, or shows none.
LEMMA PageEnds ==
  ASSUME file \in Files, NEW start \in Nat \ {0}, NEW limit
  PROVE  /\ LastIncluded(start, limit) \in Nat /\ LastIncluded(start, limit) >= start - 1
         /\ LastIncluded(start, limit) <= Len(file) \/ LastIncluded(start, limit) = start - 1
         /\ \A k \in start .. Len(file) :
              (limit = 0 \/ k + 1 - start <= limit) /\ Bytes(start, k) <= MaxToolBytes
                => k <= LastIncluded(start, limit)
<1> DEFINE Fitting == {k \in start .. Len(file) : /\ limit = 0 \/ k + 1 - start <= limit
                                                  /\ Bytes(start, k) <= MaxToolBytes}
           S == {start - 1} \cup Fitting
<1>1. Len(file) \in Nat
  BY FileShape
<1>2. S \subseteq Nat /\ S # {} /\ \A x \in S : x <= start + Len(file)
  BY <1>1
<1>3. Max(S) \in S /\ \A x \in S : x <= Max(S)
  <2>1. start + Len(file) \in Nat
    BY <1>1
  <2> HIDE DEF S
  <2> QED
    BY <1>2, <2>1, GreatestThere
<1>4. LastIncluded(start, limit) = Max(S)
  BY DEF LastIncluded
<1>5. \A x \in S : x = start - 1 \/ x \in start .. Len(file)
  OBVIOUS
<1>6. \A k \in start .. Len(file) :
        (limit = 0 \/ k + 1 - start <= limit) /\ Bytes(start, k) <= MaxToolBytes => k \in S
  OBVIOUS
<1>7. start - 1 \in S
  OBVIOUS
<1> HIDE DEF S
<1>8. Max(S) \in Nat /\ Max(S) >= start - 1 /\ (Max(S) = start - 1 \/ Max(S) \in start .. Len(file))
  BY <1>2, <1>3, <1>5, <1>7
<1>9. \A k \in start .. Len(file) :
        (limit = 0 \/ k + 1 - start <= limit) /\ Bytes(start, k) <= MaxToolBytes => k <= Max(S)
  BY <1>3, <1>6
<1> QED
  BY <1>1, <1>4, <1>8, <1>9

\* The bytes of one line.
LEMMA OneLine ==
  ASSUME file \in Files, NEW k \in 1 .. Len(file) PROVE Bytes(k, k) = file[k] + 1
<1> DEFINE line == SubSeq(file, k, k)
           Step(f) == [s \in SUBSET {1} |->
                        IF s = {} THEN 0 ELSE LET x == Max(s) IN f[s \ {x}] + line[x]]
           sums == CHOOSE f : f = Step(f)
<1>1. file \in Seq(Widths) /\ k \in Nat /\ file[k] \in Nat /\ Len(file) \in Nat
  BY FileShape
<1>2. DOMAIN line = {1} /\ line[1] = file[k]
  BY <1>1
<1>3. Bytes(k, k) = sums[{1}] + (k + 1 - k)
  BY <1>2 DEF Bytes, FoldLeft, MapThenFoldSet
<1> HIDE DEF line
<1>4. Max({1}) = 1 /\ \A s \in SUBSET {1} : s = {} \/ s = {1}
  <2>1. \E x \in {1} : \A y \in {1} : x >= y
    OBVIOUS
  <2>2. Max({1}) \in {1}
    BY <2>1 DEF Max
  <2>3. \A s \in SUBSET {1} : s = {} \/ s = {1}
    OBVIOUS
  <2> QED
    BY <2>2, <2>3
<1>5. \E f : f = Step(f)
  <2> DEFINE f == [s \in SUBSET {1} |-> IF s = {} THEN 0 ELSE 0 + line[1]]
  <2>1. f[{}] = 0
    OBVIOUS
  <2>2. ASSUME NEW s \in SUBSET {1} PROVE Step(f)[s] = f[s]
    <3>1. CASE s = {}
      BY <3>1
    <3>2. CASE s = {1}
      <4>1. Max(s) = 1 /\ s \ {1} = {}
        BY <3>2, <1>4
      <4> HIDE DEF f
      <4>2. Step(f)[s] = f[{}] + line[1]
        BY <3>2, <4>1
      <4> QED
        BY <2>1, <3>2, <4>2 DEF f
    <3> QED
      BY <1>4, <3>1, <3>2
  <2>3. f = Step(f)
    BY <2>2
  <2> QED
    BY <2>3
<1>6. sums = Step(sums)
  BY <1>5
<1>7. sums[{}] = 0 /\ sums[{1}] = sums[{}] + line[1]
  <2> HIDE DEF sums
  <2>1. \A s \in SUBSET {1} :
          sums[s] = IF s = {} THEN 0 ELSE LET x == Max(s) IN sums[s \ {x}] + line[x]
    BY <1>6
  <2>2. sums[{}] = 0
    BY <2>1
  <2>3. sums[{1}] = sums[{1} \ {1}] + line[1]
    BY <1>4, <2>1
  <2>4. {1} \ {1} = {}
    OBVIOUS
  <2> QED
    BY <2>2, <2>3, <2>4
<1> QED
  BY <1>1, <1>2, <1>3, <1>7
\* Of a file nobody edits: what is shown is its beginning, the next page starts behind
\* it, and there is one while a page is due.
UpTo(n) == [k \in 1 .. n |-> k]
Reached ==
  edits = 0 =>
    /\ linesShown = UpTo(Len(linesShown))
    /\ Len(linesShown) <= Len(file)
    /\ reading # "refused"
    /\ reading = "on" =>
         /\ Max({1, offset}) = Len(linesShown) + 1
         /\ file # <<>> => Len(linesShown) < Len(file)
    /\ reading = "whole" => Len(linesShown) = Len(file)
    /\ Fits /\ file # <<>> => Len(linesShown) >= pages

ReadsInv == ReadsTypeOK /\ Reached

LEMMA StartOfPage ==
  \A n \in Nat : Max({1, n}) \in Nat \ {0} /\ Max({1, n}) = IF n = 0 THEN 1 ELSE n
<1> SUFFICES ASSUME NEW n \in Nat PROVE Max({1, n}) = IF n = 0 THEN 1 ELSE n
  OBVIOUS
<1> DEFINE S == {1, n}
<1>1. Max(S) \in S /\ \A x \in S : x <= Max(S)
  <2>1. S \in SUBSET Nat /\ S # {} /\ n + 1 \in Nat /\ \A x \in S : x <= n + 1
    OBVIOUS
  <2> HIDE DEF S
  <2> QED
    BY <2>1, GreatestThere
<1> QED
  BY <1>1

LEMMA ReadsBegin == ReadsInit => ReadsInv
<1> SUFFICES ASSUME ReadsInit PROVE ReadsInv
  OBVIOUS
<1>1. file \in Files /\ Len(file) \in Nat /\ (file = <<>> <=> Len(file) = 0)
  BY FileShape DEF ReadsInit
<1>2. Max({1, offset}) = 1
  BY StartOfPage DEF ReadsInit
<1>3. linesShown = <<>> /\ Len(linesShown) = 0 /\ linesShown = UpTo(Len(linesShown))
  BY DEF ReadsInit, UpTo
<1>4. offset \in 0 .. FileLines + 1 /\ 0 \in 0 .. MaxPages /\ 0 \in 0 .. MaxEdits
  BY ReadsConstants DEF ReadsInit
<1>5. ReadsTypeOK
  BY <1>1, <1>3, <1>4 DEF ReadsInit, ReadsTypeOK
<1>6. Reached
  BY <1>1, <1>2, <1>3 DEF ReadsInit, Reached
<1> QED
  BY <1>5, <1>6 DEF ReadsInv

\* A page behind what was shown.
PageOf(start, last) == [k \in 1 .. last + 1 - start |-> start + k - 1]

LEMMA PageShown ==
  ASSUME NEW m \in Nat, NEW s \in Seq(1 .. m), NEW start \in Nat \ {0}, NEW last \in Nat,
         last >= start - 1, last <= m \/ last = start - 1
  PROVE  /\ s \o PageOf(start, last) \in Seq(1 .. m)
         /\ s = UpTo(Len(s)) /\ start = Len(s) + 1
              => /\ s \o PageOf(start, last) = UpTo(last)
                 /\ Len(s \o PageOf(start, last)) = last
<1> DEFINE n == last + 1 - start
           page == PageOf(start, last)
<1>1. n \in Nat
  OBVIOUS
<1>2. \A k \in 1 .. n : start + k - 1 \in 1 .. m
  OBVIOUS
<1>l. Len(s) \in Nat
  OBVIOUS
<1>d. last = start - 1 + n
  OBVIOUS
<1> HIDE DEF n
<1>p. page = [k \in 1 .. n |-> start + k - 1]
  BY DEF PageOf, n
<1> HIDE DEF page
<1>3. page \in Seq(1 .. m) /\ Len(page) = n
  BY <1>1, <1>2, <1>p
<1>4. s \o page \in Seq(1 .. m) /\ Len(s \o page) = Len(s) + n
  BY <1>1, <1>3, <1>l
<1>5. ASSUME \A k \in 1 .. Len(s) : s[k] = k, start = Len(s) + 1
      PROVE  s \o page = UpTo(last) /\ Len(s \o page) = last
  <2> DEFINE m0 == Len(s)
  <2>a. start = m0 + 1 /\ m0 \in Nat
    BY <1>5, <1>l
  <2> HIDE DEF m0
  <2>1. last = m0 + n
    BY <2>a, <1>d, <1>1
  <2>b. \A k \in 1 .. m0 : s[k] = k
    BY <1>5 DEF m0
  <2>2. Len(s \o page) = last
    BY <1>4, <2>1 DEF m0
  <2>3. ASSUME NEW k \in 1 .. last PROVE (s \o page)[k] = k
    <3>1. CASE k <= m0
      <4>1. (s \o page)[k] = s[k]
        BY <3>1, <1>3, <1>l, <2>1, <1>1 DEF m0
      <4>2. k \in 1 .. m0
        BY <3>1, <2>a
      <4> QED
        BY <4>1, <4>2, <2>b
    <3>2. CASE k > m0
      <4>1. k - m0 \in 1 .. n
        BY <3>2, <2>1, <1>1, <2>a
      <4>2. page[k - m0] = start + (k - m0) - 1
        BY <4>1, <1>p
      <4>3. (s \o page)[k] = page[k - m0]
        BY <3>2, <1>3, <2>1, <1>l, <1>1 DEF m0
      <4> QED
        BY <4>2, <4>3, <2>a
    <3>3. k \in Nat
      OBVIOUS
    <3>4. k <= m0 \/ k > m0
      BY <3>3, <2>a
    <3> QED
      BY <3>1, <3>2, <3>4
  <2> DEFINE w == s \o page
  <2>4. w \in Seq(1 .. m) /\ Len(w) = last
    BY <1>4, <2>2
  <2> HIDE DEF w
  <2>5. w = [k \in 1 .. last |-> w[k]]
    BY <2>4
  <2>6. \A k \in 1 .. last : w[k] = k
    BY <2>3 DEF w
  <2> QED
    BY <2>2, <2>5, <2>6 DEF w, UpTo
<1>6. s = UpTo(Len(s)) => \A k \in 1 .. Len(s) : s[k] = k
  BY DEF UpTo
<1> QED
  BY <1>4, <1>5, <1>6 DEF page

LEMMA ReadsStep ==
  ASSUME ReadsInv, [ReadsNext]_readVars PROVE ReadsInv'
<1>t. /\ file \in Files /\ offset \in 0 .. FileLines + 1 /\ linesShown \in Seq(1 .. FileLines)
      /\ pages \in 0 .. MaxPages /\ edits \in 0 .. MaxEdits
      /\ reading \in {"on", "whole", "refused"} /\ FileLines \in Nat
      /\ MaxPages \in Nat /\ MaxEdits \in Nat
  BY ReadsConstants DEF ReadsInv, ReadsTypeOK
<1>f. /\ file \in Seq(Widths) /\ Len(file) \in 0 .. FileLines /\ Len(file) \in Nat
      /\ \A k \in 1 .. Len(file) : file[k] \in Nat
      /\ file = <<>> <=> Len(file) = 0
  BY <1>t, FileShape
<1>1. ASSUME NEW limit \in Limits, ReadPage(limit) PROVE ReadsInv'
  <2> DEFINE start == Max({1, offset})
             last == LastIncluded(start, limit)
             page == PageOf(start, last)
  <2>1. start \in Nat \ {0} /\ start = IF offset = 0 THEN 1 ELSE offset
    BY <1>t, StartOfPage
  <2>2. /\ reading = "on" /\ pages < MaxPages /\ pages' = pages + 1 /\ file' = file /\ edits' = edits
        /\ IF Len(file) > 0 /\ start > Len(file)
             THEN reading' = "refused" /\ offset' = offset /\ linesShown' = linesShown
             ELSE /\ linesShown' = linesShown \o page
                  /\ IF last < Len(file) THEN offset' = last + 1 /\ reading' = reading
                                         ELSE reading' = "whole" /\ offset' = offset
    BY <1>1 DEF ReadPage, NextOffset, PageOf
  <2>3. /\ last \in Nat /\ last >= start - 1 /\ (last <= Len(file) \/ last = start - 1)
        /\ \A k \in start .. Len(file) :
             (limit = 0 \/ k + 1 - start <= limit) /\ Bytes(start, k) <= MaxToolBytes => k <= last
    BY <1>t, <2>1, PageEnds
  <2>n. limit \in Nat
    BY ReadsConstants
  <2>l. offset \in 0 .. FileLines + 1 /\ linesShown \in Seq(1 .. FileLines) /\ Len(linesShown) \in Nat
    BY <1>t
  <2> HIDE DEF start, last
  <2>4. CASE Len(file) > 0 /\ start > Len(file)
    <3>1. ReadsTypeOK'
      BY <1>t, <2>2, <2>4 DEF ReadsTypeOK
    <3>2. edits # 0
      <4> SUFFICES ASSUME edits = 0 PROVE FALSE
        BY <1>t
      <4>1. start = Len(linesShown) + 1 /\ Len(linesShown) < Len(file)
        BY <1>f, <2>2, <2>4 DEF ReadsInv, Reached, start
      <4> QED
        BY <4>1, <2>4, <2>l, <1>f
    <3> QED
      BY <3>1, <3>2, <2>2 DEF ReadsInv, Reached
  <2>5. CASE ~(Len(file) > 0 /\ start > Len(file))
    <3>1. Len(file) = 0 \/ start <= Len(file)
      BY <2>5, <2>1, <1>f
    <3>2. last + 1 - start \in Nat /\ (last <= Len(file) \/ last + 1 - start = 0)
      BY <2>1, <2>3
    <3>3. \/ last <= FileLines
          \/ last = start - 1
      BY <1>f, <1>t, <2>3
    <3>4. /\ linesShown' \in Seq(1 .. FileLines)
          /\ linesShown = UpTo(Len(linesShown)) /\ start = Len(linesShown) + 1
               => linesShown' = UpTo(last) /\ Len(linesShown') = last
      <4>1. linesShown' = linesShown \o page
        BY <2>2, <2>5
      <4>2. /\ linesShown \o page \in Seq(1 .. FileLines)
            /\ linesShown = UpTo(Len(linesShown)) /\ start = Len(linesShown) + 1
                 => linesShown \o page = UpTo(last) /\ Len(linesShown \o page) = last
        <5>1. /\ FileLines \in Nat /\ linesShown \in Seq(1 .. FileLines)
              /\ start \in Nat \ {0} /\ last \in Nat /\ last >= start - 1
              /\ last <= FileLines \/ last = start - 1
          BY <1>t, <2>1, <2>3, <3>3
        <5> QED
          BY <5>1, PageShown
      <4> QED
        BY <4>1, <4>2
    <3>5. offset' \in 0 .. FileLines + 1 /\ reading' \in {"on", "whole"}
      BY <1>t, <1>f, <2>2, <2>3, <2>5
    <3>6. ReadsTypeOK'
      <4>1. pages' \in 0 .. MaxPages
        BY <1>t, <2>2
      <4> QED
        BY <1>t, <2>2, <3>4, <3>5, <4>1 DEF ReadsTypeOK
    <3>7. Reached'
      <4> SUFFICES ASSUME edits = 0 PROVE Reached'
        BY <2>2 DEF Reached
      <4>1. /\ linesShown = UpTo(Len(linesShown)) /\ Len(linesShown) <= Len(file)
            /\ start = Len(linesShown) + 1
            /\ file # <<>> => Len(linesShown) < Len(file)
            /\ Fits /\ file # <<>> => Len(linesShown) >= pages
        BY <2>2 DEF ReadsInv, Reached, start
      <4>2. linesShown' = UpTo(Len(linesShown')) /\ Len(linesShown') = last
        BY <4>1, <3>4
      <4>3. last <= Len(file)
        <5>1. last = start - 1 => last = Len(linesShown)
          BY <4>1, <2>l
        <5> QED
          BY <5>1, <4>1, <2>3
      <4>5. reading' # "refused" /\ (reading' = "whole" => Len(linesShown') = Len(file))
        BY <2>2, <2>3, <2>5, <3>5, <4>2, <4>3, <1>f
      <4>6. reading' = "on" => /\ Max({1, offset'}) = Len(linesShown') + 1
                               /\ Len(linesShown') < Len(file)
        <5> SUFFICES ASSUME reading' = "on" PROVE Max({1, offset'}) = last + 1 /\ last < Len(file)
          BY <4>2
        <5>1. last < Len(file) /\ offset' = last + 1
          BY <2>2, <2>5
        <5> QED
          BY <5>1, <2>3, StartOfPage
      <4>7. ASSUME Fits', file # <<>> PROVE Len(linesShown') >= pages'
        <5>1. Len(linesShown) >= pages /\ start \in 1 .. Len(file)
          BY <4>1, <4>7, <2>2, <2>l, <1>f DEF Fits
        <5>2. Bytes(start, start) <= MaxToolBytes
          BY <5>1, <4>7, <2>2, <1>t, <1>f, OneLine DEF Fits
        <5>3. start <= last
          <6>1. start \in start .. Len(file) /\ (limit = 0 \/ start + 1 - start <= limit)
            BY <5>1, <2>n
          <6> QED
            BY <6>1, <5>2, <2>3
        <5>4. last >= Len(linesShown) + 1
          BY <4>1, <5>3
        <5>5. pages' = pages + 1 /\ pages \in Nat
          BY <2>2, <1>t
        <5> QED
          BY <5>1, <5>4, <5>5, <4>2, <2>l, <2>3
      <4> QED
        BY <2>2, <4>2, <4>3, <4>5, <4>6, <4>7, <1>f DEF Reached
    <3> QED
      BY <3>6, <3>7 DEF ReadsInv
  <2> QED
    BY <2>4, <2>5
<1>2. CASE EditFile
  <2>1. /\ edits' = edits + 1 /\ edits < MaxEdits /\ file' \in Files /\ offset' = offset
        /\ linesShown' = linesShown /\ pages' = pages /\ reading' = reading
    BY <1>2 DEF EditFile
  <2>2. edits' \in 0 .. MaxEdits /\ edits' # 0
    BY <2>1, <1>t
  <2> QED
    BY <1>t, <2>1, <2>2 DEF ReadsInv, ReadsTypeOK, Reached
<1>3. CASE UNCHANGED readVars
  BY <1>3 DEF readVars, ReadsInv, ReadsTypeOK, Reached, Fits
<1> QED
  BY <1>1, <1>2, <1>3 DEF ReadsNext

LEMMA PagesDoTile == ReadsInv => PagesTile
BY DEF ReadsInv, Reached, PagesTile, UpTo

-----------------------------------------------------------------------------
(* The conversation.                                                       *)

TurnOfCalls == SeqOf(ToolCalls, MaxTurnCalls)
TalkInv == ConversationTypeOK /\ messages \in Seq(Messages)

LEMMA TurnBounds == MaxTurnCalls \in Nat /\ MaxTurns \in Nat
BY ConversationConstants

LEMMA TurnOfCallsShape ==
  /\ <<>> \in TurnOfCalls
  /\ \A s \in TurnOfCalls : s # <<>> => Tail(s) \in TurnOfCalls /\ Head(s) \in ToolCalls
  /\ \A n \in 1 .. MaxTurnCalls : [1 .. n -> ToolCalls] \subseteq TurnOfCalls
<1>1. <<>> \in TurnOfCalls
  <2>1. <<>> \in [1 .. 0 -> ToolCalls]
    OBVIOUS
  <2>2. 0 \in 0 .. MaxTurnCalls
    BY TurnBounds
  <2> QED
    BY <2>1, <2>2 DEF TurnOfCalls, SeqOf
<1>2. ASSUME NEW s \in TurnOfCalls, s # <<>>
      PROVE  Tail(s) \in TurnOfCalls /\ Head(s) \in ToolCalls
  <2>1. PICK n \in 0 .. MaxTurnCalls : s \in [1 .. n -> ToolCalls]
    BY DEF TurnOfCalls, SeqOf
  <2>2. s \in Seq(ToolCalls) /\ Len(s) = n /\ n # 0
    BY <1>2, <2>1
  <2>3. Tail(s) \in [1 .. n - 1 -> ToolCalls]
    <3>1. Tail(s) \in Seq(ToolCalls) /\ Len(Tail(s)) = n - 1
      BY <1>2, <2>2
    <3> QED
      BY <3>1, LenProperties
  <2>4. n - 1 \in 0 .. MaxTurnCalls
    BY <2>2, TurnBounds
  <2>5. Head(s) \in ToolCalls
    BY <1>2, <2>2
  <2> QED
    BY <2>3, <2>4, <2>5 DEF TurnOfCalls, SeqOf
<1>3. ASSUME NEW n \in 1 .. MaxTurnCalls PROVE [1 .. n -> ToolCalls] \subseteq TurnOfCalls
  <2>1. n \in 0 .. MaxTurnCalls
    BY TurnBounds
  <2> QED
    BY <2>1 DEF TurnOfCalls, SeqOf
<1> QED
  BY <1>1, <1>2, <1>3

\* The ids of a turn's calls are ids, those that are counted from the first too.
LEMMA IdsAreIds ==
  ASSUME ConversationTypeOK, NEW n \in 1 .. MaxTurnCalls, NEW ids \in IdsOf(n)
  PROVE  ids \in [1 .. n -> CallIds \cup {""}]
<1> DEFINE c == Cardinality(CallIds)
           Lists == [1 .. c -> CallIds]
<1>1. IsFiniteSet(CallIds) /\ c \in Nat /\ MaxTurnCalls <= c /\ MaxTurnCalls \in Nat
  BY ConversationConstants, FS_CardinalityType
<1>2. SetToSeq(CallIds) \in Lists
  BY <1>1, SetListed
<1>3. \A k \in 1 .. n : GoogleId(k) \in CallIds
  <2>1. \A k \in 1 .. n : k \in 1 .. c
    BY <1>1
  <2> QED
    BY <1>2, <2>1 DEF GoogleId
<1>4. CASE provider = "google"
  BY <1>3, <1>4 DEF IdsOf
<1>5. CASE provider = "anthropic"
  BY <1>5 DEF IdsOf
<1>6. CASE provider = "openai"
  BY <1>6 DEF IdsOf
<1> QED
  BY <1>4, <1>5, <1>6 DEF ConversationTypeOK, Providers

LEMMA MessagesMade ==
  /\ \A role \in {"system", "user"} : Says(role) \in Messages
  /\ \A text \in BOOLEAN :
       /\ \A calls \in TurnOfCalls : assistantToolCallMessage(text, calls) \in Messages
       /\ \A c \in ToolCalls : toolResultMessage(text, c) \in Messages
BY TurnOfCallsShape DEF MessageOf, Says, assistantToolCallMessage, toolResultMessage, Messages, TurnOfCalls, ToolCalls

LEMMA TalkBegins == ConversationInit => TalkInv
<1> SUFFICES ASSUME ConversationInit PROVE TalkInv
  OBVIOUS
<1>1. messages \in Seq(Messages)
  <2> DEFINE first == Says("system")
             second == Says("user")
  <2>1. first \in Messages /\ second \in Messages /\ messages = <<first, second>>
    BY MessagesMade DEF ConversationInit
  <2> HIDE DEF first, second
  <2> QED
    BY <2>1
<1>2. todo \in TurnOfCalls /\ turns \in 0 .. MaxTurns
  BY TurnOfCallsShape, TurnBounds DEF ConversationInit
<1>3. provider \in Providers /\ at = "step"
  BY DEF ConversationInit
<1>4. \A i \in DOMAIN messages : messages[i] \in Messages
  BY <1>1
<1> QED
  BY <1>1, <1>2, <1>3, <1>4 DEF TalkInv, ConversationTypeOK, TurnOfCalls

LEMMA TalkStep ==
  ASSUME TalkInv, [ConversationNext]_conversationVars PROVE TalkInv'
<1>t. /\ provider \in Providers /\ messages \in Seq(Messages) /\ todo \in TurnOfCalls
      /\ turns \in 0 .. MaxTurns /\ at \in {"step", "model", "calls", "done"}
  BY DEF TalkInv, ConversationTypeOK, TurnOfCalls
<1>q. ASSUME provider' \in Providers, messages' \in Seq(Messages), todo' \in TurnOfCalls,
             turns' \in 0 .. MaxTurns, at' \in {"step", "model", "calls", "done"}
      PROVE  TalkInv'
  BY <1>q DEF TalkInv, ConversationTypeOK, TurnOfCalls
<1>1. CASE RequestTurn
  <2>1. turns' \in 0 .. MaxTurns
    BY <1>1, <1>t, TurnBounds DEF RequestTurn
  <2> QED
    BY <1>1, <1>t, <1>q, <2>1 DEF RequestTurn
<1>2. ASSUME NEW text \in BOOLEAN, NEW n \in 1 .. MaxTurnCalls, TurnCalls(text, n) PROVE TalkInv'
  <2>1. PICK ids \in IdsOf(n), names \in [1 .. n -> ToolNames \cup {""}] :
          LET calls == [k \in 1 .. n |-> [id |-> ids[k], name |-> names[k]]]
          IN /\ messages' = Append(messages, assistantToolCallMessage(text, calls))
             /\ todo' = calls
    BY <1>2 DEF TurnCalls
  <2> DEFINE calls == [k \in 1 .. n |-> [id |-> ids[k], name |-> names[k]]]
  <2>2. calls \in TurnOfCalls
    <3>1. ids \in [1 .. n -> CallIds \cup {""}]
      BY IdsAreIds DEF TalkInv
    <3>2. \A k \in 1 .. n : [id |-> ids[k], name |-> names[k]] \in ToolCalls
      BY <3>1 DEF ToolCalls
    <3>3. calls \in [1 .. n -> ToolCalls]
      BY <3>2
    <3> QED
      BY <3>3, TurnOfCallsShape
  <2>3. assistantToolCallMessage(text, calls) \in Messages
    <3> HIDE DEF calls
    <3> QED
      BY <2>2, MessagesMade
  <2> DEFINE turn == assistantToolCallMessage(text, calls)
  <2>5. messages' = Append(messages, turn) /\ todo' = calls /\ turn \in Messages
    BY <2>1, <2>3
  <2> HIDE DEF turn, calls
  <2>6. Append(messages, turn) \in Seq(Messages)
    BY <1>t, <2>5, AppendProperties
  <2>4. messages' \in Seq(Messages) /\ todo' \in TurnOfCalls
    BY <2>2, <2>5, <2>6
  <2> QED
    BY <1>2, <1>t, <1>q, <2>4 DEF TurnCalls
<1>3. ASSUME NEW text \in BOOLEAN, CallEnds(text) PROVE TalkInv'
  <2>1. Head(todo) \in ToolCalls /\ Tail(todo) \in TurnOfCalls
    BY <1>3, <1>t, TurnOfCallsShape DEF CallEnds
  <2>2. toolResultMessage(text, Head(todo)) \in Messages
    BY <2>1, MessagesMade
  <2>3. messages' \in Seq(Messages)
    BY <1>3, <1>t, <2>2 DEF CallEnds
  <2> QED
    BY <1>3, <1>t, <1>q, <2>1, <2>3 DEF CallEnds
<1>4. CASE TalkEnds
  BY <1>4, <1>t, <1>q DEF TalkEnds
<1>5. CASE UNCHANGED conversationVars
  BY <1>5, <1>t, <1>q DEF conversationVars
<1> QED
  BY <1>1, <1>2, <1>3, <1>4, <1>5 DEF ConversationNext
-----------------------------------------------------------------------------
(* What the conversation sends.                                            *)

AMessage == [role : {"system", "user", "assistant", "tool"}, text : BOOLEAN,
             calls : Seq(ToolCalls), id : CallIds \cup {""}, ran : ToolNames \cup {""}]
ATie == [ref : CallIds \cup ToolNames \cup {""}, name : ToolNames \cup {""}]
ATurn == [by : {"system", "user", "assistant"}, text : BOOLEAN, calls : Seq(ATie), result : Seq(ATie)]
AnAnswering == [ok : BOOLEAN, open : Seq(ATie)]

NamedBy == [x \in Seq(ToolCalls) \X ToolCalls |-> KeepNamed(x[1], x[2])]
KeptBy == [x \in Seq(AMessage) \X AMessage |-> Keep(x[1], x[2])]
AnsweredBy == [x \in AnAnswering \X ATurn |-> Answering(x[1], x[2])]

LEMMA NamedByTyped ==
  /\ NamedBy \in [Seq(ToolCalls) \X ToolCalls -> Seq(ToolCalls)]
  /\ \A a \in Seq(ToolCalls), c \in ToolCalls : NamedBy[<<a, c>>] = KeepNamed(a, c)
<1>1. \A a \in Seq(ToolCalls), c \in ToolCalls : KeepNamed(a, c) \in Seq(ToolCalls)
  <2>1. \A a \in Seq(ToolCalls), c \in ToolCalls : Append(a, c) \in Seq(ToolCalls)
    OBVIOUS
  <2> QED
    BY <2>1, Zenon DEF KeepNamed
<1> QED
  BY <1>1 DEF NamedBy

\* The calls with a name, as a fold.
LEMMA NamedFolds ==
  ASSUME NEW base \in Seq(ToolCalls), NEW seq \in Seq(ToolCalls)
  PROVE  FoldsTo(Seq(ToolCalls), NamedBy, base, seq, FoldLeft(KeepNamed, base, seq))
<1> DEFINE n == Len(seq)
           Round(f) == [s \in SUBSET DOMAIN seq |->
                          IF s = {} THEN base ELSE LET x == Max(s) IN KeepNamed(f[s \ {x}], seq[x])]
           iter == CHOOSE f : f = Round(f)
<1>1. FoldLeft(KeepNamed, base, seq) = iter[DOMAIN seq]
  BY DEF FoldLeft, MapThenFoldSet
<1>d. DOMAIN seq = 1 .. n /\ n \in Nat /\ \A k \in 1 .. n : seq[k] \in ToolCalls
  OBVIOUS
<1>2. NamedBy \in [Seq(ToolCalls) \X ToolCalls -> Seq(ToolCalls)] /\ \A a \in Seq(ToolCalls), b \in ToolCalls : NamedBy[<<a, b>>] = KeepNamed(a, b)
  BY NamedByTyped
<1>f. NamedBy \in [Seq(ToolCalls) \X ToolCalls -> Seq(ToolCalls)]
  BY <1>2
<1>3. PICK g : IsFold(g, Seq(ToolCalls), NamedBy, base, seq)
  BY <1>f, FoldExists, Zenon
<1>4. g \in [SUBSET (1 .. n) -> Seq(ToolCalls)]
      /\ \A s \in SUBSET (1 .. n) : g[s] = IF s = {} THEN base ELSE NamedBy[<<g[s \ {Max(s)}], seq[Max(s)]>>]
  BY <1>3 DEF IsFold
<1>5. g = Round(g)
  <2>1. ASSUME NEW s \in SUBSET (1 .. n), s # {}
        PROVE  NamedBy[<<g[s \ {Max(s)}], seq[Max(s)]>>] = KeepNamed(g[s \ {Max(s)}], seq[Max(s)])
    <3>1. Max(s) \in 1 .. n
      BY <2>1, <1>d, GreatestPlace, Zenon
    <3>2. seq[Max(s)] \in ToolCalls /\ g[s \ {Max(s)}] \in Seq(ToolCalls)
      BY <3>1, <1>4, <1>d
    <3> QED
      BY <3>2, <1>2
  <2> HIDE DEF n
  <2>2. g = [s \in SUBSET (1 .. n) |-> g[s]]
    BY <1>4
  <2>3. \A s \in SUBSET (1 .. n) :
          g[s] = IF s = {} THEN base ELSE LET x == Max(s) IN KeepNamed(g[s \ {x}], seq[x])
    BY <1>4, <2>1
  <2> QED
    BY <1>d, <2>2, <2>3
<1>6. iter = Round(iter)
  BY <1>5
<1> HIDE DEF iter
<1>7. \A s \in SUBSET (1 .. n) :
        iter[s] = IF s = {} THEN base ELSE LET x == Max(s) IN KeepNamed(iter[s \ {x}], seq[x])
  BY <1>6, <1>d
<1>8. iter[{}] = base
  BY <1>7
<1>9. ASSUME NEW k \in 1 .. n, iter[(1 .. k) \ {k}] \in Seq(ToolCalls)
      PROVE  iter[1 .. k] = NamedBy[<<iter[(1 .. k) \ {k}], seq[k]>>]
  <2>1. 1 .. k \in SUBSET (1 .. n) /\ 1 .. k # {} /\ Max(1 .. k) = k
    BY <1>d, PlacesUpTo, Zenon
  <2>2. iter[1 .. k] = KeepNamed(iter[(1 .. k) \ {k}], seq[k])
    BY <1>7, <2>1
  <2> QED
    BY <1>2, <1>9, <1>d, <2>2
<1>10. FoldsTo(Seq(ToolCalls), NamedBy, base, seq, iter[1 .. n])
  BY <1>f, <1>8, <1>9, FoldTaken
<1> QED
  BY <1>1, <1>10, <1>d

NamesTo(base, s, end) == FoldsTo(Seq(ToolCalls), NamedBy, base, s, end)

LEMMA NamedIs ==
  ASSUME NEW s \in Seq(ToolCalls)
  PROVE  /\ NamedCalls(s) \in Seq(ToolCalls)
         /\ \A end : NamesTo(<<>>, s, end) <=> end = NamedCalls(s)
<1>0. <<>> \in Seq(ToolCalls) /\ NamedBy \in [Seq(ToolCalls) \X ToolCalls -> Seq(ToolCalls)]
  BY NamedByTyped
<1>1. NamesTo(<<>>, s, NamedCalls(s))
  BY <1>0, NamedFolds DEF NamedCalls, NamesTo
<1>2. PICK end \in Seq(ToolCalls) : NamesTo(<<>>, s, end)
  BY <1>0, FoldsSomewhere, Zenon DEF NamesTo
<1>3. \A x, y : NamesTo(<<>>, s, x) /\ NamesTo(<<>>, s, y) => x = y
  BY FoldsOnce, Zenon DEF NamesTo
<1> QED
  BY <1>1, <1>2, <1>3, Zenon

LEMMA NamedNone == NamedCalls(<<>>) = <<>>
<1>1. <<>> \in Seq(ToolCalls)
  OBVIOUS
<1>2. NamesTo(<<>>, <<>>, <<>>)
  BY <1>1, FoldsNothing, Zenon DEF NamesTo
<1> QED
  BY <1>1, <1>2, NamedIs

\* They are calls of the turn and have a name, and none is dropped again.
LEMMA NamedOnes ==
  ASSUME NEW s \in Seq(ToolCalls)
  PROVE  /\ \A c \in ToSet(NamedCalls(s)) : c \in ToSet(s) /\ c.name # ""
         /\ NamedCalls(NamedCalls(s)) = NamedCalls(s)
<1> DEFINE A == Seq(ToolCalls)
           E == ToSet(s)
           Good == {a \in A : (\A c \in ToSet(a) : c \in E /\ c.name # "") /\ NamesTo(<<>>, a, a)}
           R == {x \in A \X A : x[1] = x[2] /\ x[1] \in Good}
           n == NamedCalls(s)
<1>0. <<>> \in A /\ NamedBy \in [A \X ToolCalls -> A] /\ E \subseteq ToolCalls
  BY NamedByTyped DEF ToSet
<1>1. NamesTo(<<>>, s, n) /\ n \in A
  BY NamedIs
<1>2. <<<<>>, <<>>>> \in R
  <2>1. NamesTo(<<>>, <<>>, <<>>)
    BY <1>0, FoldsNothing, Zenon DEF NamesTo
  <2>2. ToSet(<<>>) = {}
    BY DEF ToSet
  <2> QED
    BY <1>0, <2>1, <2>2
<1>3. ASSUME NEW a \in A, NEW c \in E, a \in Good PROVE NamedBy[<<a, c>>] \in Good
  <2>c. c \in ToolCalls
    BY <1>0
  <2>1. NamedBy[<<a, c>>] = KeepNamed(a, c)
    BY <2>c, NamedByTyped
  <2>2. CASE c.name = ""
    BY <1>3, <2>1, <2>2 DEF KeepNamed
  <2>3. CASE c.name # ""
    <3>1. NamedBy[<<a, c>>] = Append(a, c) /\ Append(a, c) \in A
      <4>1. Append(a, c) \in A
        BY <2>c
      <4> QED
        BY <2>1, <2>3, <4>1, Zenon DEF KeepNamed
    <3>2. NamesTo(<<>>, Append(a, c), Append(a, c))
      <4>1. NamesTo(<<>>, a, a)
        BY <1>3
      <4>2. FoldsTo(A, NamedBy, <<>>, Append(a, c), NamedBy[<<a, c>>])
        BY <1>0, <2>c, <4>1, FoldsOn DEF NamesTo
      <4> QED
        BY <3>1, <4>2 DEF NamesTo
    <3>3. \A d \in ToSet(Append(a, c)) : d \in ToSet(a) \/ d = c
      BY <2>c DEF ToSet
    <3> QED
      BY <1>3, <2>3, <3>1, <3>2, <3>3
  <2> QED
    BY <2>2, <2>3
<1>4. s \in Seq(E)
  BY DEF ToSet
<1> HIDE DEF Good, E
<1>5. \A v \in A, w \in A, e \in E : <<v, w>> \in R => <<NamedBy[<<v, e>>], NamedBy[<<w, e>>]>> \in R
  <2>1. \A v \in A, e \in E : NamedBy[<<v, e>>] \in A
    BY <1>0
  <2> QED
    BY <1>3, <2>1
<1> HIDE DEF R, n, A
<1>6. <<n, n>> \in R
  BY <1>1, <1>2, <1>4, <1>5, FoldsTogether DEF NamesTo, A
<1>7. n \in Good
  BY <1>6 DEF R
<1> QED
  BY <1>1, <1>7, NamedIs DEF Good, E, n, A

\* The first call comes first, if it has a name.
LEMMA NamedFirst ==
  ASSUME NEW s \in Seq(ToolCalls), s # <<>>
  PROVE  NamedCalls(s) = IF Head(s).name = "" THEN NamedCalls(Tail(s))
                                              ELSE <<Head(s)>> \o NamedCalls(Tail(s))
<1> DEFINE A == Seq(ToolCalls)
           c == Head(s)
           r == Tail(s)
           m == NamedCalls(r)
<1>0. <<>> \in A /\ c \in ToolCalls /\ r \in A /\ s = <<c>> \o r /\ <<c>> \in A
      /\ NamedBy \in [A \X ToolCalls -> A]
  BY NamedByTyped
<1> HIDE DEF c, r
<1>1. NamesTo(<<>>, r, m) /\ m \in A
  BY <1>0, NamedIs
<1>2. NamesTo(<<>>, <<c>>, KeepNamed(<<>>, c))
  <2>1. NamesTo(<<>>, <<c>>, NamedBy[<<<<>>, c>>])
    BY <1>0, FoldsOne DEF NamesTo
  <2> QED
    BY <1>0, <2>1, NamedByTyped
<1>3. ASSUME NEW end, NamesTo(KeepNamed(<<>>, c), r, end) PROVE NamedCalls(s) = end
  <2>1. NamesTo(<<>>, <<c>> \o r, end)
    BY <1>0, <1>2, <1>3, FoldsJoin, Zenon DEF NamesTo
  <2> QED
    BY <1>0, <2>1, NamedIs
<1>4. CASE c.name = ""
  <2>1. KeepNamed(<<>>, c) = <<>>
    BY <1>4 DEF KeepNamed
  <2> QED
    BY <1>1, <1>3, <1>4, <2>1 DEF c, r
<1>5. CASE c.name # ""
  <2>1. KeepNamed(<<>>, c) = <<c>>
    <3>1. Append(<<>>, c) = <<c>>
      OBVIOUS
    <3> QED
      BY <1>5, <3>1, Zenon DEF KeepNamed
  <2> DEFINE R == {x \in A \X A : x[2] = <<c>> \o x[1]}
  <2>2. PICK end \in A : NamesTo(<<c>>, r, end)
    BY <1>0, FoldsSomewhere, Zenon DEF NamesTo
  <2>3. <<<<>>, <<c>>>> \in R
    <3>1. <<c>> = <<c>> \o <<>>
      BY <1>0
    <3> QED
      BY <1>0, <3>1
  <2>4. ASSUME NEW v \in A, NEW w \in A, NEW e \in ToolCalls, <<v, w>> \in R
        PROVE  <<NamedBy[<<v, e>>], NamedBy[<<w, e>>]>> \in R
    <3>1. NamedBy[<<v, e>>] = KeepNamed(v, e) /\ NamedBy[<<w, e>>] = KeepNamed(w, e) /\ w = <<c>> \o v
      BY <2>4, NamedByTyped
    <3>2. Append(<<c>> \o v, e) = <<c>> \o Append(v, e)
      BY <1>0
    <3>3. KeepNamed(v, e) \in A /\ KeepNamed(w, e) \in A
      <4>1. NamedBy[<<v, e>>] \in A /\ NamedBy[<<w, e>>] \in A
        BY <1>0
      <4> QED
        BY <3>1, <4>1
    <3> QED
      BY <3>1, <3>2, <3>3 DEF KeepNamed
  <2> HIDE DEF R, m
  <2>5. <<m, end>> \in R
    <3>1. FoldsTo(A, NamedBy, <<>>, r, m) /\ FoldsTo(A, NamedBy, <<c>>, r, end)
      BY <1>1, <2>2 DEF NamesTo
    <3>2. r \in Seq(ToolCalls)
      BY <1>0
    <3> HIDE DEF A
    <3> QED
      BY <2>3, <2>4, <3>1, <3>2, FoldsTogether
  <2>6. end = <<c>> \o m
    BY <2>5 DEF R
  <2> QED
    BY <1>3, <1>5, <2>1, <2>2, <2>6 DEF c, r, m
<1> QED
  BY <1>4, <1>5

LEMMA KeptByTyped ==
  /\ KeptBy \in [Seq(AMessage) \X AMessage -> Seq(AMessage)]
  /\ \A ms \in Seq(AMessage), m \in AMessage : KeptBy[<<ms, m>>] = Keep(ms, m)
<1>1. ASSUME NEW ms \in Seq(AMessage), NEW m \in AMessage PROVE Keep(ms, m) \in Seq(AMessage)
  <2>1. NamedCalls(m.calls) \in Seq(ToolCalls)
    BY NamedIs DEF AMessage
  <2>2. [m EXCEPT !.calls = NamedCalls(m.calls)] \in AMessage /\ [m EXCEPT !.text = TRUE] \in AMessage
    BY <2>1 DEF AMessage
  <2> QED
    BY <2>2 DEF Keep, KeepResult
<1> QED
  BY <1>1 DEF KeptBy

\* The messages kept, as a fold.
LEMMA KeptFolds ==
  ASSUME NEW base \in Seq(AMessage), NEW seq \in Seq(AMessage)
  PROVE  FoldsTo(Seq(AMessage), KeptBy, base, seq, FoldLeft(Keep, base, seq))
<1> DEFINE n == Len(seq)
           Round(f) == [s \in SUBSET DOMAIN seq |->
                          IF s = {} THEN base ELSE LET x == Max(s) IN Keep(f[s \ {x}], seq[x])]
           iter == CHOOSE f : f = Round(f)
<1>1. FoldLeft(Keep, base, seq) = iter[DOMAIN seq]
  BY DEF FoldLeft, MapThenFoldSet
<1>d. DOMAIN seq = 1 .. n /\ n \in Nat /\ \A k \in 1 .. n : seq[k] \in AMessage
  OBVIOUS
<1>2. KeptBy \in [Seq(AMessage) \X AMessage -> Seq(AMessage)] /\ \A a \in Seq(AMessage), b \in AMessage : KeptBy[<<a, b>>] = Keep(a, b)
  BY KeptByTyped
<1>f. KeptBy \in [Seq(AMessage) \X AMessage -> Seq(AMessage)]
  BY <1>2
<1>3. PICK g : IsFold(g, Seq(AMessage), KeptBy, base, seq)
  BY <1>f, FoldExists, Zenon
<1>4. g \in [SUBSET (1 .. n) -> Seq(AMessage)]
      /\ \A s \in SUBSET (1 .. n) : g[s] = IF s = {} THEN base ELSE KeptBy[<<g[s \ {Max(s)}], seq[Max(s)]>>]
  BY <1>3 DEF IsFold
<1>5. g = Round(g)
  <2>1. ASSUME NEW s \in SUBSET (1 .. n), s # {}
        PROVE  KeptBy[<<g[s \ {Max(s)}], seq[Max(s)]>>] = Keep(g[s \ {Max(s)}], seq[Max(s)])
    <3>1. Max(s) \in 1 .. n
      BY <2>1, <1>d, GreatestPlace, Zenon
    <3>2. seq[Max(s)] \in AMessage /\ g[s \ {Max(s)}] \in Seq(AMessage)
      BY <3>1, <1>4, <1>d
    <3> QED
      BY <3>2, <1>2
  <2> HIDE DEF n
  <2>2. g = [s \in SUBSET (1 .. n) |-> g[s]]
    BY <1>4
  <2>3. \A s \in SUBSET (1 .. n) :
          g[s] = IF s = {} THEN base ELSE LET x == Max(s) IN Keep(g[s \ {x}], seq[x])
    BY <1>4, <2>1
  <2> QED
    BY <1>d, <2>2, <2>3
<1>6. iter = Round(iter)
  BY <1>5
<1> HIDE DEF iter
<1>7. \A s \in SUBSET (1 .. n) :
        iter[s] = IF s = {} THEN base ELSE LET x == Max(s) IN Keep(iter[s \ {x}], seq[x])
  BY <1>6, <1>d
<1>8. iter[{}] = base
  BY <1>7
<1>9. ASSUME NEW k \in 1 .. n, iter[(1 .. k) \ {k}] \in Seq(AMessage)
      PROVE  iter[1 .. k] = KeptBy[<<iter[(1 .. k) \ {k}], seq[k]>>]
  <2>1. 1 .. k \in SUBSET (1 .. n) /\ 1 .. k # {} /\ Max(1 .. k) = k
    BY <1>d, PlacesUpTo, Zenon
  <2>2. iter[1 .. k] = Keep(iter[(1 .. k) \ {k}], seq[k])
    BY <1>7, <2>1
  <2> QED
    BY <1>2, <1>9, <1>d, <2>2
<1>10. FoldsTo(Seq(AMessage), KeptBy, base, seq, iter[1 .. n])
  BY <1>f, <1>8, <1>9, FoldTaken
<1> QED
  BY <1>1, <1>10, <1>d

\* The validator takes a message after the others.
LEMMA SanitizeOn ==
  /\ Sanitize(<<>>) = <<>>
  /\ \A ms \in Seq(AMessage) :
       /\ Sanitize(ms) \in Seq(AMessage)
       /\ \A m \in AMessage : Sanitize(Append(ms, m)) = Keep(Sanitize(ms), m)
<1> DEFINE A == Seq(AMessage)
           To(ms, end) == FoldsTo(A, KeptBy, <<>>, ms, end)
<1>0. <<>> \in A /\ KeptBy \in [A \X AMessage -> A]
  BY KeptByTyped
<1>1. ASSUME NEW ms \in A PROVE Sanitize(ms) \in A /\ To(ms, Sanitize(ms)) /\ \A end : To(ms, end) => end = Sanitize(ms)
  <2>1. To(ms, Sanitize(ms))
    BY <1>0, KeptFolds DEF Sanitize
  <2>2. PICK end \in A : To(ms, end)
    BY <1>0, FoldsSomewhere, Zenon
  <2>3. \A x, y : To(ms, x) /\ To(ms, y) => x = y
    BY FoldsOnce, Zenon
  <2> QED
    BY <2>1, <2>2, <2>3, Zenon
<1>2. Sanitize(<<>>) = <<>>
  <2>1. To(<<>>, <<>>)
    BY <1>0, FoldsNothing, Zenon
  <2> QED
    BY <1>0, <1>1, <2>1
<1>3. ASSUME NEW ms \in A, NEW m \in AMessage PROVE Sanitize(Append(ms, m)) = Keep(Sanitize(ms), m)
  <2>1. Append(ms, m) \in A /\ Sanitize(ms) \in A
    BY <1>1
  <2>2. To(Append(ms, m), KeptBy[<<Sanitize(ms), m>>])
    BY <1>0, <1>1, FoldsOn
  <2>3. Sanitize(Append(ms, m)) = KeptBy[<<Sanitize(ms), m>>]
    <3> HIDE DEF To, A
    <3> QED
      BY <1>1, <2>1, <2>2
  <2> QED
    BY <2>1, <2>3, KeptByTyped
<1> QED
  BY <1>1, <1>2, <1>3

LEMMA AnsweredByTyped ==
  /\ AnsweredBy \in [AnAnswering \X ATurn -> AnAnswering]
  /\ \A a \in AnAnswering, t \in ATurn : AnsweredBy[<<a, t>>] = Answering(a, t)
<1>1. ASSUME NEW a \in AnAnswering, NEW t \in ATurn PROVE Answering(a, t) \in AnAnswering
  <2>1. a.ok \in BOOLEAN /\ a.open \in Seq(ATie) /\ t.calls \in Seq(ATie)
    BY DEF AnAnswering, ATurn
  <2>2. [ok |-> a.ok /\ a.open = <<>>, open |-> t.calls] \in AnAnswering
    BY <2>1 DEF AnAnswering
  <2>3. [a EXCEPT !.ok = FALSE] \in AnAnswering
    BY DEF AnAnswering
  <2>4. a.open # <<>> => [ok |-> a.ok /\ Head(a.open) = Head(t.result), open |-> Tail(a.open)] \in AnAnswering
    BY <2>1 DEF AnAnswering
  <2> QED
    BY <2>2, <2>3, <2>4 DEF Answering
<1> QED
  BY <1>1 DEF AnsweredBy

\* The calls answered, as a fold.
LEMMA AnsweredFolds ==
  ASSUME NEW base \in AnAnswering, NEW seq \in Seq(ATurn)
  PROVE  FoldsTo(AnAnswering, AnsweredBy, base, seq, FoldLeft(Answering, base, seq))
<1> DEFINE n == Len(seq)
           Round(f) == [s \in SUBSET DOMAIN seq |->
                          IF s = {} THEN base ELSE LET x == Max(s) IN Answering(f[s \ {x}], seq[x])]
           iter == CHOOSE f : f = Round(f)
<1>1. FoldLeft(Answering, base, seq) = iter[DOMAIN seq]
  BY DEF FoldLeft, MapThenFoldSet
<1>d. DOMAIN seq = 1 .. n /\ n \in Nat /\ \A k \in 1 .. n : seq[k] \in ATurn
  OBVIOUS
<1>2. AnsweredBy \in [AnAnswering \X ATurn -> AnAnswering] /\ \A a \in AnAnswering, b \in ATurn : AnsweredBy[<<a, b>>] = Answering(a, b)
  BY AnsweredByTyped
<1>f. AnsweredBy \in [AnAnswering \X ATurn -> AnAnswering]
  BY <1>2
<1>3. PICK g : IsFold(g, AnAnswering, AnsweredBy, base, seq)
  BY <1>f, FoldExists, Zenon
<1>4. g \in [SUBSET (1 .. n) -> AnAnswering]
      /\ \A s \in SUBSET (1 .. n) : g[s] = IF s = {} THEN base ELSE AnsweredBy[<<g[s \ {Max(s)}], seq[Max(s)]>>]
  BY <1>3 DEF IsFold
<1>5. g = Round(g)
  <2>1. ASSUME NEW s \in SUBSET (1 .. n), s # {}
        PROVE  AnsweredBy[<<g[s \ {Max(s)}], seq[Max(s)]>>] = Answering(g[s \ {Max(s)}], seq[Max(s)])
    <3>1. Max(s) \in 1 .. n
      BY <2>1, <1>d, GreatestPlace, Zenon
    <3>2. seq[Max(s)] \in ATurn /\ g[s \ {Max(s)}] \in AnAnswering
      BY <3>1, <1>4, <1>d
    <3> QED
      BY <3>2, <1>2
  <2> HIDE DEF n
  <2>2. g = [s \in SUBSET (1 .. n) |-> g[s]]
    BY <1>4
  <2>3. \A s \in SUBSET (1 .. n) :
          g[s] = IF s = {} THEN base ELSE LET x == Max(s) IN Answering(g[s \ {x}], seq[x])
    BY <1>4, <2>1
  <2> QED
    BY <1>d, <2>2, <2>3
<1>6. iter = Round(iter)
  BY <1>5
<1> HIDE DEF iter
<1>7. \A s \in SUBSET (1 .. n) :
        iter[s] = IF s = {} THEN base ELSE LET x == Max(s) IN Answering(iter[s \ {x}], seq[x])
  BY <1>6, <1>d
<1>8. iter[{}] = base
  BY <1>7
<1>9. ASSUME NEW k \in 1 .. n, iter[(1 .. k) \ {k}] \in AnAnswering
      PROVE  iter[1 .. k] = AnsweredBy[<<iter[(1 .. k) \ {k}], seq[k]>>]
  <2>1. 1 .. k \in SUBSET (1 .. n) /\ 1 .. k # {} /\ Max(1 .. k) = k
    BY <1>d, PlacesUpTo, Zenon
  <2>2. iter[1 .. k] = Answering(iter[(1 .. k) \ {k}], seq[k])
    BY <1>7, <2>1
  <2> QED
    BY <1>2, <1>9, <1>d, <2>2
<1>10. FoldsTo(AnAnswering, AnsweredBy, base, seq, iter[1 .. n])
  BY <1>f, <1>8, <1>9, FoldTaken
<1> QED
  BY <1>1, <1>10, <1>d

LEMMA AnswersOn ==
  /\ Answers(<<>>) = [ok |-> TRUE, open |-> <<>>]
  /\ \A req \in Seq(ATurn) :
       /\ Answers(req) \in AnAnswering
       /\ \A t \in ATurn : Answers(Append(req, t)) = Answering(Answers(req), t)
<1> DEFINE A == AnAnswering
           base == [ok |-> TRUE, open |-> <<>>]
           To(req, end) == FoldsTo(A, AnsweredBy, base, req, end)
<1>0. base \in A /\ AnsweredBy \in [A \X ATurn -> A]
  BY AnsweredByTyped DEF AnAnswering
<1>1. ASSUME NEW req \in Seq(ATurn)
      PROVE  Answers(req) \in A /\ To(req, Answers(req)) /\ \A end : To(req, end) => end = Answers(req)
  <2>1. To(req, Answers(req))
    BY <1>0, AnsweredFolds DEF Answers
  <2> HIDE DEF base
  <2>2. PICK end \in A : To(req, end)
    BY <1>0, FoldsSomewhere, Zenon
  <2>3. \A x, y : To(req, x) /\ To(req, y) => x = y
    BY FoldsOnce, Zenon
  <2> QED
    BY <2>1, <2>2, <2>3, Zenon
<1> HIDE DEF base
<1>2. Answers(<<>>) = base
  <2>1. To(<<>>, base)
    BY <1>0, FoldsNothing, Zenon
  <2>2. <<>> \in Seq(ATurn)
    OBVIOUS
  <2> QED
    BY <1>1, <2>1, <2>2
<1>3. ASSUME NEW req \in Seq(ATurn), NEW t \in ATurn PROVE Answers(Append(req, t)) = Answering(Answers(req), t)
  <2>1. Append(req, t) \in Seq(ATurn) /\ Answers(req) \in A
    BY <1>1
  <2>2. To(Append(req, t), AnsweredBy[<<Answers(req), t>>])
    BY <1>0, <1>1, FoldsOn
  <2>3. Answers(Append(req, t)) = AnsweredBy[<<Answers(req), t>>]
    <3> HIDE DEF To, A
    <3> QED
      BY <1>1, <2>1, <2>2
  <2> QED
    BY <2>1, <2>3, AnsweredByTyped
<1> QED
  BY <1>1, <1>2, <1>3 DEF base

TieOf(p, c) == IF p = "google" THEN Tie(c.name, c.name) ELSE Tie(c.id, c.name)
TiesOf(p, calls) == [k \in DOMAIN calls |-> TieOf(p, calls[k])]
RequestOf(p, ms) == IF p = "google" THEN RequestByName(ms) ELSE RequestById(ms)
TurnOf(p, ms, m) == IF p = "google" THEN ByName(Append(ms, m), Len(ms) + 1) ELSE ById(m)
Texts(req) == {i \in DOMAIN req : req[i].text}

\* What holds of the messages ms while the named calls due are still to answer.
Told(p, ms, due) ==
  /\ Answers(RequestOf(p, Sanitize(ms))) = [ok |-> TRUE, open |-> TiesOf(p, due)]
  /\ Sanitize(Sanitize(ms)) = Sanitize(ms)
  /\ Cardinality(Texts(RequestOf(p, Sanitize(ms)))) = Cardinality(Said(ms))
  /\ \A c \in ToSet(due) :
       /\ Paired(Sanitize(ms), c)
       /\ p = "google" => NameUpTo(Sanitize(ms), Len(Sanitize(ms)), c.id) = c.name

\* The messages up to n whose calls have the id, and its name among calls.
Met(ms, n, id) == {j \in 1 .. n : \E c \in ToSet(ms[j].calls) : c.id = id}
NameIn(calls, id) == calls[Max({k \in DOMAIN calls : calls[k].id = id})].name

LEMMA NameIs ==
  \A ms, n, id : NameAmong(ms, n, id) = IF Met(ms, n, id) = {} THEN id
                                        ELSE NameIn(ms[Max(Met(ms, n, id))].calls, id)
BY DEF NameAmong, Met, NameIn

LEMMA NameInFound ==
  ASSUME NEW calls \in Seq(ToolCalls), NEW id, \E c \in ToSet(calls) : c.id = id
  PROVE  \E c \in ToSet(calls) : c.id = id /\ NameIn(calls, id) = c.name
<1> DEFINE places == {k \in DOMAIN calls : calls[k].id = id}
<1>1. PICK c \in ToSet(calls) : c.id = id
  OBVIOUS
<1>2. places # {} /\ places \in SUBSET Nat /\ Len(calls) \in Nat /\ \A x \in places : x <= Len(calls)
  BY <1>1 DEF ToSet
<1>3. Max(places) \in places
  <2> HIDE DEF places
  <2> QED
    BY <1>2, GreatestThere
<1>4. calls[Max(places)] \in ToSet(calls) /\ calls[Max(places)].id = id
  BY <1>3 DEF ToSet
<1> QED
  BY <1>4 DEF NameIn

\* The name an id stands for is that of its last call, if it has one.
LEMMA NameFound ==
  ASSUME NEW ms \in Seq(AMessage), NEW n \in 0 .. Len(ms), NEW id, Met(ms, n, id) # {}
  PROVE  LET last == Max(Met(ms, n, id))
         IN /\ last \in 1 .. n /\ last \in Met(ms, n, id) /\ \A j \in Met(ms, n, id) : j <= last
            /\ ms[last].calls \in Seq(ToolCalls)
            /\ \E c \in ToSet(ms[last].calls) : c.id = id /\ NameAmong(ms, n, id) = c.name
<1> DEFINE met == Met(ms, n, id)
           last == Max(met)
<1>1. met # {} /\ met \in SUBSET Nat /\ n \in Nat /\ (\A x \in met : x <= n) /\ \A x \in met : x \in 1 .. n
  BY DEF Met
<1>2. last \in met /\ \A x \in met : x <= last
  <2> HIDE DEF met
  <2> QED
    BY <1>1, GreatestThere
<1>3. last \in 1 .. n
  BY <1>1, <1>2
<1>4. \E c \in ToSet(ms[last].calls) : c.id = id
  <2> HIDE DEF last
  <2> QED
    BY <1>2 DEF Met
<1> HIDE DEF met, last
<1>5. ms[last].calls \in Seq(ToolCalls)
  <2>1. ms[last] \in AMessage
    BY <1>3
  <2> QED
    BY <2>1 DEF AMessage
<1>6. NameAmong(ms, n, id) = NameIn(ms[last].calls, id)
  BY NameIs DEF met, last
<1>7. \E c \in ToSet(ms[last].calls) : c.id = id /\ NameAmong(ms, n, id) = c.name
  BY <1>4, <1>5, <1>6, NameInFound
<1> QED
  BY <1>2, <1>3, <1>5, <1>7 DEF met, last

LEMMA CallsOfTurn == \A s \in Seq(ToolCalls) : \A c \in ToSet(s) : c \in ToolCalls
BY DEF ToSet

LEMMA NameTyped ==
  ASSUME NEW ms \in Seq(AMessage), NEW n \in 0 .. Len(ms), NEW id \in CallIds \cup {""}
  PROVE  NameAmong(ms, n, id) \in CallIds \cup ToolNames \cup {""}
<1>1. CASE Met(ms, n, id) = {}
  BY <1>1, NameIs
<1>2. CASE Met(ms, n, id) # {}
  <2> DEFINE last == Max(Met(ms, n, id))
  <2>1. /\ ms[last].calls \in Seq(ToolCalls)
        /\ \E c \in ToSet(ms[last].calls) : c.id = id /\ NameAmong(ms, n, id) = c.name
    BY <1>2, NameFound
  <2> HIDE DEF last
  <2>3. \A c \in ToolCalls : c.name \in ToolNames \cup {""}
    BY DEF ToolCalls
  <2> QED
    BY <2>1, <2>3, CallsOfTurn
<1> QED
  BY <1>1, <1>2

\* Messages that agree up to n give the same names.
LEMMA NameAgrees ==
  ASSUME NEW ms \in Seq(AMessage), NEW n \in 0 .. Len(ms), NEW other, \A j \in 1 .. n : other[j] = ms[j], NEW id
  PROVE  NameAmong(other, n, id) = NameAmong(ms, n, id)
<1>1. Met(other, n, id) = Met(ms, n, id)
  BY DEF Met
<1>2. Met(ms, n, id) # {} => other[Max(Met(ms, n, id))] = ms[Max(Met(ms, n, id))]
  <2>1. Met(ms, n, id) # {} => Max(Met(ms, n, id)) \in 1 .. n
    BY NameFound
  <2> QED
    BY <2>1
<1> QED
  BY <1>1, <1>2, NameIs

\* A message without calls does not change them.
LEMMA NameStays ==
  ASSUME NEW ms \in Seq(AMessage), NEW m \in AMessage, m.calls = <<>>, NEW id
  PROVE  NameAmong(Append(ms, m), Len(ms) + 1, id) = NameAmong(ms, Len(ms), id)
<1> DEFINE more == Append(ms, m)
           n == Len(ms)
<1>1. n \in Nat /\ more[n + 1] = m /\ \A j \in 1 .. n : more[j] = ms[j]
  OBVIOUS
<1> HIDE DEF more
<1>2. \A c \in ToSet(more[n + 1].calls) : FALSE
  BY <1>1 DEF ToSet
<1>3. Met(more, n + 1, id) = Met(ms, n, id)
  <2>1. ASSUME NEW j \in 1 .. n + 1, \E c \in ToSet(more[j].calls) : c.id = id PROVE j \in 1 .. n
    <3>1. j # n + 1
      BY <1>2, <2>1
    <3> QED
      BY <3>1, <1>1
  <2>2. \A j \in 1 .. n : j \in 1 .. n + 1 /\ more[j] = ms[j]
    BY <1>1
  <2> QED
    BY <2>1, <2>2 DEF Met
<1>4. Met(ms, n, id) # {} => more[Max(Met(ms, n, id))] = ms[Max(Met(ms, n, id))]
  <2>1. Met(ms, n, id) # {} => Max(Met(ms, n, id)) \in 1 .. n
    <3>1. n \in 0 .. n
      BY <1>1
    <3> QED
      BY <3>1, NameFound
  <2> QED
    BY <2>1, <1>1
<1> HIDE DEF n
<1> QED
  BY <1>3, <1>4, NameIs DEF more, n

LEMMA TiesTyped ==
  ASSUME NEW p, NEW calls \in Seq(ToolCalls)
  PROVE  /\ TiesOf(p, calls) \in Seq(ATie)
         /\ TiesOf("google", calls) = [k \in DOMAIN calls |-> Tie(calls[k].name, calls[k].name)]
         /\ p # "google" => TiesOf(p, calls) = [k \in DOMAIN calls |-> Tie(calls[k].id, calls[k].name)]
<1>1. \A k \in DOMAIN calls : TieOf(p, calls[k]) \in ATie
  <2>1. \A k \in DOMAIN calls : calls[k] \in ToolCalls
    OBVIOUS
  <2> QED
    BY <2>1 DEF TieOf, Tie, ATie, ToolCalls
<1>2. TiesOf(p, calls) \in Seq(ATie)
  BY <1>1 DEF TiesOf
<1> QED
  BY <1>2 DEF TiesOf, TieOf

\* The turn a further message becomes.
LEMMA TurnMade ==
  ASSUME NEW p \in Providers, NEW ms \in Seq(AMessage), NEW m \in AMessage
  PROVE  /\ TurnOf(p, ms, m) \in ATurn
         /\ m.role = "system" => TurnOf(p, ms, m) = SystemTurn
         /\ m.role = "tool" =>
              TurnOf(p, ms, m)
                = Turn("user", FALSE, <<>>,
                       <<Tie(IF p = "google" THEN NameUpTo(Append(ms, m), Len(ms) + 1, m.id) ELSE m.id, m.ran)>>)
         /\ m.role \in {"user", "assistant"} => TurnOf(p, ms, m) = Turn(m.role, m.text, TiesOf(p, m.calls), <<>>)
<1> DEFINE more == Append(ms, m)
           ref == IF p = "google" THEN NameUpTo(more, Len(ms) + 1, m.id) ELSE m.id
<1>1. more \in Seq(AMessage) /\ more[Len(ms) + 1] = m /\ Len(ms) + 1 \in 0 .. Len(more)
  OBVIOUS
<1>m. m.calls \in Seq(ToolCalls) /\ m.text \in BOOLEAN /\ m.id \in CallIds \cup {""} /\ m.ran \in ToolNames \cup {""}
      /\ m.role \in {"system", "user", "assistant", "tool"}
  BY DEF AMessage
<1>2. ref \in CallIds \cup ToolNames \cup {""}
  <2> HIDE DEF more
  <2> QED
    BY <1>1, <1>m, NameTyped DEF NameUpTo
<1>3. TiesOf(p, m.calls) \in Seq(ATie)
  BY <1>m, TiesTyped
<1> DEFINE ties == TiesOf(p, m.calls)
<1>4. p = "google" => ties = [k \in DOMAIN m.calls |-> Tie(m.calls[k].name, m.calls[k].name)]
  BY DEF TiesOf, TieOf
<1>5. p # "google" => ties = [k \in DOMAIN m.calls |-> Tie(m.calls[k].id, m.calls[k].name)]
  BY DEF TiesOf, TieOf
<1>6. TurnOf(p, ms, m) = CASE m.role = "system" -> SystemTurn
                           [] m.role = "tool" -> Turn("user", FALSE, <<>>, <<Tie(ref, m.ran)>>)
                           [] OTHER -> Turn(m.role, m.text, ties, <<>>)
  <2>1. CASE p = "google"
    <3> HIDE DEF more, ties
    <3> QED
      BY <2>1, <1>1, <1>4 DEF TurnOf, ByName, more
  <2>2. CASE p # "google"
    <3> HIDE DEF more, ties
    <3> QED
      BY <2>2, <1>5 DEF TurnOf, ById
  <2> QED
    BY <2>1, <2>2
<1> HIDE DEF more, ref, ties
<1>7. SystemTurn \in ATurn
  <2>1. <<>> \in Seq(ATie)
    OBVIOUS
  <2> QED
    BY <2>1 DEF SystemTurn, Turn, ATurn
<1>8. Turn("user", FALSE, <<>>, <<Tie(ref, m.ran)>>) \in ATurn
  <2>1. Tie(ref, m.ran) \in ATie
    BY <1>2, <1>m DEF Tie, ATie
  <2>2. <<>> \in Seq(ATie) /\ <<Tie(ref, m.ran)>> \in Seq(ATie)
    BY <2>1
  <2> QED
    BY <2>2 DEF Turn, ATurn
<1>9. m.role \in {"user", "assistant"} => Turn(m.role, m.text, ties, <<>>) \in ATurn
  <2>1. <<>> \in Seq(ATie)
    OBVIOUS
  <2> QED
    BY <1>3, <1>m, <2>1 DEF Turn, ATurn, ties
<1>10. CASE m.role = "system"
  BY <1>6, <1>7, <1>10
<1>11. CASE m.role = "tool"
  BY <1>6, <1>8, <1>11 DEF ref, more
<1>12. CASE m.role \in {"user", "assistant"}
  BY <1>6, <1>9, <1>12 DEF ties
<1> QED
  BY <1>m, <1>10, <1>11, <1>12

\* A request grows with what is kept.
LEMMA RequestOn ==
  ASSUME NEW p \in Providers, NEW ms \in Seq(AMessage)
  PROVE  /\ RequestOf(p, ms) \in Seq(ATurn) /\ Len(RequestOf(p, ms)) = Len(ms)
         /\ \A m \in AMessage : RequestOf(p, Append(ms, m)) = Append(RequestOf(p, ms), TurnOf(p, ms, m))
<1> DEFINE at1(s, i) == IF p = "google" THEN ByName(s, i) ELSE ById(s[i])
<1>1. \A s : RequestOf(p, s) = [i \in DOMAIN s |-> at1(s, i)]
  BY DEF RequestOf, RequestByName, RequestById
<1>2. ASSUME NEW s \in Seq(AMessage), NEW m \in AMessage
      PROVE  /\ at1(Append(s, m), Len(s) + 1) = TurnOf(p, s, m)
             /\ \A i \in 1 .. Len(s) : at1(Append(s, m), i) = at1(s, i)
  <2>1. Append(s, m)[Len(s) + 1] = m /\ Len(s) \in Nat /\ \A i \in 1 .. Len(s) : Append(s, m)[i] = s[i]
    OBVIOUS
  <2>2. \A i \in 1 .. Len(s) : \A id : NameUpTo(Append(s, m), i, id) = NameUpTo(s, i, id)
    <3> SUFFICES ASSUME NEW i \in 1 .. Len(s), NEW id
                 PROVE  NameAmong(Append(s, m), i, id) = NameAmong(s, i, id)
      BY DEF NameUpTo
    <3>1. i \in 0 .. Len(s) /\ \A j \in 1 .. i : Append(s, m)[j] = s[j]
      BY <2>1
    <3> DEFINE more == Append(s, m)
    <3>2. \A j \in 1 .. i : more[j] = s[j]
      BY <3>1
    <3> HIDE DEF more, at1
    <3>3. NameAmong(more, i, id) = NameAmong(s, i, id)
      BY <3>1, <3>2, NameAgrees
    <3> QED
      BY <3>3 DEF more
  <2> DEFINE more == Append(s, m)
  <2> HIDE DEF more
  <2>3. \A i \in 1 .. Len(s) : ByName(more, i) = ByName(s, i)
    BY <2>1, <2>2 DEF ByName, more
  <2> QED
    BY <2>1, <2>3 DEF TurnOf, more
<1>3. ASSUME NEW i \in 1 .. Len(ms) PROVE at1(ms, i) \in ATurn
  <2> DEFINE s == SubSeq(ms, 1, i - 1)
  <2>n. Len(ms) \in Nat /\ i \in Nat /\ i - 1 \in 0 .. Len(ms) /\ ms[i] \in AMessage
    OBVIOUS
  <2>1. s \in Seq(AMessage) /\ Len(s) = i - 1 /\ \A j \in 1 .. i - 1 : s[j] = ms[j]
    BY <2>n
  <2> HIDE DEF s
  <2> DEFINE u == Append(s, ms[i])
  <2>2. u \in Seq(AMessage) /\ Len(u) = i /\ \A j \in 1 .. i : u[j] = ms[j]
    BY <2>1, <2>n
  <2>3. at1(u, i) \in ATurn
    <3>1. at1(u, Len(s) + 1) = TurnOf(p, s, ms[i])
      BY <1>2, <2>1, <2>n
    <3>2. TurnOf(p, s, ms[i]) \in ATurn
      BY <2>1, <2>n, TurnMade
    <3>3. Len(s) + 1 = i
      BY <2>1, <2>n
    <3> HIDE DEF at1, u
    <3> QED
      BY <3>1, <3>2, <3>3
  <2> HIDE DEF u
  <2>4. \A id : NameUpTo(u, i, id) = NameUpTo(ms, i, id)
    <3>1. i \in 0 .. Len(ms)
      BY <2>n
    <3> QED
      BY <2>2, <3>1, NameAgrees DEF NameUpTo
  <2>5. u[i] = ms[i]
    BY <2>2, <2>n
  <2>6. ByName(u, i) = ByName(ms, i)
    BY <2>4, <2>5 DEF ByName
  <2> QED
    BY <2>3, <2>5, <2>6
<1> HIDE DEF at1
<1>4. DOMAIN ms = 1 .. Len(ms) /\ Len(ms) \in Nat
  OBVIOUS
<1>5. RequestOf(p, ms) \in Seq(ATurn) /\ Len(RequestOf(p, ms)) = Len(ms)
  <2>1. [i \in 1 .. Len(ms) |-> at1(ms, i)] \in [1 .. Len(ms) -> ATurn]
    BY <1>3
  <2> QED
    BY <1>1, <1>4, <2>1
<1>6. ASSUME NEW m \in AMessage PROVE RequestOf(p, Append(ms, m)) = Append(RequestOf(p, ms), TurnOf(p, ms, m))
  <2> DEFINE l == RequestOf(p, Append(ms, m))
             r == Append(RequestOf(p, ms), TurnOf(p, ms, m))
  <2>1. l = [i \in 1 .. Len(ms) + 1 |-> at1(Append(ms, m), i)]
    <3>1. DOMAIN Append(ms, m) = 1 .. Len(ms) + 1
      BY <1>4
    <3> QED
      BY <1>1, <3>1
  <2>t. TurnOf(p, ms, m) \in ATurn
    BY TurnMade
  <2>2. r \in Seq(ATurn) /\ Len(r) = Len(ms) + 1 /\ r[Len(ms) + 1] = TurnOf(p, ms, m)
        /\ \A i \in 1 .. Len(ms) : r[i] = RequestOf(p, ms)[i]
    BY <1>5, <2>t
  <2>3. \A i \in 1 .. Len(ms) : r[i] = at1(ms, i)
    BY <1>1, <1>4, <2>2
  <2> HIDE DEF l, r
  <2>4. \A i \in 1 .. Len(ms) + 1 : l[i] = r[i]
    <3> SUFFICES ASSUME NEW i \in 1 .. Len(ms) + 1 PROVE l[i] = r[i]
      OBVIOUS
    <3>1. l[i] = at1(Append(ms, m), i)
      BY <2>1
    <3>2. CASE i = Len(ms) + 1
      BY <3>1, <3>2, <2>2, <1>2
    <3>3. CASE i # Len(ms) + 1
      <4>1. i \in 1 .. Len(ms)
        BY <3>3, <1>4
      <4> QED
        BY <3>1, <4>1, <2>3, <1>2
    <3> QED
      BY <3>2, <3>3
  <2>5. DOMAIN l = DOMAIN r /\ l = [i \in DOMAIN l |-> l[i]] /\ r = [i \in DOMAIN r |-> r[i]]
    BY <2>1, <2>2
  <2>6. DOMAIN l = 1 .. Len(ms) + 1
    BY <2>1
  <2> QED
    BY <2>4, <2>5, <2>6 DEF l, r
<1> QED
  BY <1>5, <1>6

-----------------------------------------------------------------------------
(* One message more.                                                       *)

LEMMA OneMarked ==
  ASSUME NEW n \in Nat, NEW X \in SUBSET (1 .. n)
  PROVE  Cardinality(X \cup {n + 1}) = Cardinality(X) + 1 /\ Cardinality(X) \in Nat
<1>1. IsFiniteSet(1 .. n)
  BY FS_Interval
<1>2. IsFiniteSet(X)
  BY <1>1, FS_Subset
<1>3. n + 1 \notin X
  OBVIOUS
<1> QED
  BY <1>2, <1>3, FS_AddElement, FS_CardinalityType

\* What a further turn, and a further message, adds to what is said.
LEMMA TextOn ==
  ASSUME NEW req \in Seq(ATurn), NEW t \in ATurn
  PROVE  Cardinality(Texts(Append(req, t))) = Cardinality(Texts(req)) + (IF t.text THEN 1 ELSE 0)
         /\ Cardinality(Texts(req)) \in Nat
<1> DEFINE n == Len(req)
           more == Append(req, t)
<1>1. n \in Nat /\ DOMAIN req = 1 .. n /\ DOMAIN more = 1 .. n + 1 /\ more[n + 1] = t
      /\ \A i \in 1 .. n : more[i] = req[i] /\ i \in 1 .. n + 1
  OBVIOUS
<1> HIDE DEF more
<1>2. ASSUME NEW i \in 1 .. n + 1, i # n + 1 PROVE i \in 1 .. n
  BY <1>1, <1>2
<1>3. Texts(req) \in SUBSET (1 .. n) /\ n + 1 \in 1 .. n + 1
  BY <1>1 DEF Texts
<1>4. CASE t.text
  <2>1. Texts(more) = Texts(req) \cup {n + 1}
    BY <1>1, <1>2, <1>3, <1>4 DEF Texts
  <2> QED
    BY <1>1, <1>3, <1>4, <2>1, OneMarked DEF more
<1>5. CASE ~t.text
  <2>1. Texts(more) = Texts(req)
    BY <1>1, <1>2, <1>3, <1>5 DEF Texts
  <2>2. Cardinality(Texts(req)) \in Nat
    BY <1>1, <1>3, OneMarked
  <2> QED
    BY <1>5, <2>1, <2>2 DEF more
<1> QED
  BY <1>4, <1>5

LEMMA SaidOn ==
  ASSUME NEW ms \in Seq(AMessage), NEW m \in AMessage
  PROVE  Cardinality(Said(Append(ms, m)))
           = Cardinality(Said(ms)) + (IF m.role \in {"user", "assistant"} /\ m.text THEN 1 ELSE 0)
         /\ Cardinality(Said(ms)) \in Nat
<1> DEFINE n == Len(ms)
           more == Append(ms, m)
<1>1. n \in Nat /\ DOMAIN ms = 1 .. n /\ DOMAIN more = 1 .. n + 1 /\ more[n + 1] = m
      /\ \A i \in 1 .. n : more[i] = ms[i] /\ i \in 1 .. n + 1
  OBVIOUS
<1> HIDE DEF more
<1>2. ASSUME NEW i \in 1 .. n + 1, i # n + 1 PROVE i \in 1 .. n
  BY <1>1, <1>2
<1>3. Said(ms) \in SUBSET (1 .. n) /\ n + 1 \in 1 .. n + 1
  BY <1>1 DEF Said
<1>4. CASE m.role \in {"user", "assistant"} /\ m.text
  <2>1. Said(more) = Said(ms) \cup {n + 1}
    BY <1>1, <1>2, <1>3, <1>4 DEF Said
  <2> QED
    BY <1>1, <1>3, <1>4, <2>1, OneMarked DEF more
<1>5. CASE ~(m.role \in {"user", "assistant"} /\ m.text)
  <2>1. Said(more) = Said(ms)
    BY <1>1, <1>2, <1>3, <1>5 DEF Said
  <2>2. Cardinality(Said(ms)) \in Nat
    BY <1>1, <1>3, OneMarked
  <2> QED
    BY <1>5, <2>1, <2>2 DEF more
<1> QED
  BY <1>4, <1>5

\* A result paired with its call stays so.
LEMMA PairedStays ==
  ASSUME NEW kept \in Seq(AMessage), NEW m \in AMessage, NEW c, Paired(kept, c)
  PROVE  Paired(Append(kept, m), c)
<1>1. \A i \in DOMAIN kept : i \in DOMAIN Append(kept, m) /\ Append(kept, m)[i] = kept[i]
  OBVIOUS
<1>2. OpenIds(kept) \subseteq OpenIds(Append(kept, m))
  BY <1>1 DEF OpenIds
<1>3. Anonymous(kept) => Anonymous(Append(kept, m))
  BY <1>1 DEF Anonymous
<1> QED
  BY <1>2, <1>3 DEF Paired

\* A call kept with its message is there for its result.
LEMMA PairedNow ==
  ASSUME NEW kept \in Seq(AMessage), NEW m \in AMessage, NEW c \in ToSet(m.calls)
  PROVE  Paired(Append(kept, m), c)
<1> DEFINE more == Append(kept, m)
           n == Len(kept) + 1
<1>1. n \in DOMAIN more /\ more[n] = m
  OBVIOUS
<1> HIDE DEF more, n
<1>2. c.id # "" => c.id \in OpenIds(more)
  <2>1. c.id \in {d.id : d \in ToSet(more[n].calls)}
    BY <1>1
  <2>2. c.id \in UNION {{d.id : d \in ToSet(more[i].calls)} : i \in DOMAIN more}
    BY <1>1, <2>1, Zenon
  <2> QED
    BY <2>2 DEF OpenIds
<1>3. c.id = "" => Anonymous(more)
  BY <1>1 DEF Anonymous
<1> QED
  BY <1>2, <1>3 DEF Paired, more

LEMMA NoTies == \A p : TiesOf(p, <<>>) = <<>>
<1> SUFFICES ASSUME NEW p PROVE TiesOf(p, <<>>) = <<>>
  OBVIOUS
<1>1. <<>> \in Seq(ToolCalls) /\ DOMAIN <<>> = {}
  OBVIOUS
<1>2. TiesOf(p, <<>>) \in Seq(ATie) /\ DOMAIN TiesOf(p, <<>>) = {}
  BY <1>1, TiesTyped DEF TiesOf
<1> QED
  BY <1>2

LEMMA FirstTie ==
  ASSUME NEW p, NEW c \in ToolCalls, NEW rest \in Seq(ToolCalls)
  PROVE  LET ties == TiesOf(p, <<c>> \o rest)
         IN ties \in Seq(ATie) /\ ties # <<>> /\ Head(ties) = TieOf(p, c) /\ Tail(ties) = TiesOf(p, rest)
<1> DEFINE all == <<c>> \o rest
           ties == TiesOf(p, all)
           n == Len(rest)
<1>1. all \in Seq(ToolCalls) /\ Len(all) = n + 1 /\ n \in Nat /\ all[1] = c /\ DOMAIN all = 1 .. n + 1
      /\ \A i \in 1 .. n : all[i + 1] = rest[i]
  OBVIOUS
<1> HIDE DEF all
<1>2. ties \in Seq(ATie) /\ TiesOf(p, rest) \in Seq(ATie)
  BY <1>1, TiesTyped
<1>3. Len(ties) = n + 1 /\ Len(TiesOf(p, rest)) = n
  <2>1. DOMAIN ties = 1 .. n + 1 /\ DOMAIN TiesOf(p, rest) = 1 .. n
    BY <1>1 DEF TiesOf
  <2> HIDE DEF ties
  <2> QED
    BY <1>1, <1>2, <2>1
<1>4. ties[1] = TieOf(p, c) /\ \A i \in 1 .. n : ties[i + 1] = TiesOf(p, rest)[i]
  <2>1. 1 \in 1 .. n + 1 /\ \A i \in 1 .. n : i + 1 \in 1 .. n + 1
    BY <1>1
  <2> QED
    BY <1>1, <2>1 DEF TiesOf
<1> HIDE DEF ties
<1>5. ties # <<>> /\ Head(ties) = TieOf(p, c)
  BY <1>1, <1>2, <1>3, <1>4
<1>6. Tail(ties) \in Seq(ATie) /\ Len(Tail(ties)) = n /\ \A i \in 1 .. n : Tail(ties)[i] = ties[i + 1]
  BY <1>1, <1>2, <1>3, <1>5
<1>7. Tail(ties) = TiesOf(p, rest)
  <2>1. \A i \in 1 .. n : Tail(ties)[i] = TiesOf(p, rest)[i]
    BY <1>4, <1>6
  <2> QED
    BY <1>2, <1>3, <1>6, <2>1, SeqEqual
<1> QED
  BY <1>2, <1>5, <1>7 DEF ties, all

LEMMA PutFirst ==
  ASSUME NEW S, NEW c \in S, NEW rest \in Seq(S)
  PROVE  /\ 1 \in DOMAIN (<<c>> \o rest) /\ (<<c>> \o rest)[1] = c
         /\ \A k \in DOMAIN rest : k + 1 \in DOMAIN (<<c>> \o rest) /\ (<<c>> \o rest)[k + 1] = rest[k]
OBVIOUS

\* What a message is made of, and made of it.
WithCalls(m, x) == [m EXCEPT !.calls = x]
WithText(m, x) == [m EXCEPT !.text = x]

LEMMA MessageWith ==
  \A a, b, c, d, e, x : /\ WithCalls(MessageOf(a, b, c, d, e), x) = MessageOf(a, b, x, d, e)
                        /\ WithText(MessageOf(a, b, c, d, e), x) = MessageOf(a, x, c, d, e)
<1> SUFFICES ASSUME NEW a, NEW b, NEW c, NEW d, NEW e, NEW x
             PROVE  /\ WithCalls(MessageOf(a, b, c, d, e), x) = MessageOf(a, b, x, d, e)
                    /\ WithText(MessageOf(a, b, c, d, e), x) = MessageOf(a, x, c, d, e)
  OBVIOUS
<1>1. WithCalls(MessageOf(a, b, c, d, e), x) = MessageOf(a, b, x, d, e)
  BY SMT DEF MessageOf, WithCalls
<1>2. WithText(MessageOf(a, b, c, d, e), x) = MessageOf(a, x, c, d, e)
  BY SMT DEF MessageOf, WithText
<1> QED
  BY <1>1, <1>2

LEMMA TurnParts ==
  \A text, calls, due :
    LET m == assistantToolCallMessage(text, calls)
    IN /\ WithCalls(m, due) = assistantToolCallMessage(text, due)
       /\ m.role = "assistant" /\ m.text = text /\ m.calls = calls
<1> SUFFICES ASSUME NEW text, NEW calls, NEW due
             PROVE  LET m == assistantToolCallMessage(text, calls)
                    IN /\ WithCalls(m, due) = assistantToolCallMessage(text, due)
                       /\ m.role = "assistant" /\ m.text = text /\ m.calls = calls
  OBVIOUS
<1>1. PICK z : z = ""
  OBVIOUS
<1> DEFINE m == MessageOf("assistant", text, calls, z, z)
<1>2. WithCalls(m, due) = MessageOf("assistant", text, due, z, z)
  BY MessageWith, SMT
<1>3. m.role = "assistant" /\ m.text = text /\ m.calls = calls
  BY Zenon DEF MessageOf
<1> QED
  BY <1>1, <1>2, <1>3, Zenon DEF assistantToolCallMessage

LEMMA ResultParts ==
  \A text, c, yes :
    LET m == toolResultMessage(text, c)
    IN /\ WithText(m, yes) = toolResultMessage(yes, c)
       /\ m.role = "tool" /\ m.text = text /\ m.calls = <<>> /\ m.id = c.id /\ m.ran = c.name
<1> SUFFICES ASSUME NEW text, NEW c, NEW yes
             PROVE  LET m == toolResultMessage(text, c)
                    IN /\ WithText(m, yes) = toolResultMessage(yes, c)
                       /\ m.role = "tool" /\ m.text = text /\ m.calls = <<>> /\ m.id = c.id /\ m.ran = c.name
  OBVIOUS
<1> DEFINE m == MessageOf("tool", text, <<>>, c.id, c.name)
<1>1. WithText(m, yes) = MessageOf("tool", yes, <<>>, c.id, c.name)
  BY MessageWith, SMT
<1>2. m.role = "tool" /\ m.text = text /\ m.calls = <<>> /\ m.id = c.id /\ m.ran = c.name
  BY Zenon DEF MessageOf
<1> QED
  BY <1>1, <1>2, Zenon DEF toolResultMessage

LEMMA SaysParts ==
  ASSUME NEW role
  PROVE  LET m == Says(role)
         IN WithCalls(m, <<>>) = m /\ m.role = role /\ m.text = TRUE /\ m.calls = <<>>
<1>1. PICK yes, z : yes = TRUE /\ z = ""
  OBVIOUS
<1> DEFINE m == MessageOf(role, yes, <<>>, z, z)
<1>2. WithCalls(m, <<>>) = m
  BY MessageWith, SMT
<1>3. m.role = role /\ m.text = yes /\ m.calls = <<>>
  BY Zenon DEF MessageOf
<1> QED
  BY <1>1, <1>2, <1>3, Zenon DEF Says
LEMMA MessagesTyped ==
  /\ \A text \in BOOLEAN, calls \in Seq(ToolCalls) : assistantToolCallMessage(text, calls) \in AMessage
  /\ \A text \in BOOLEAN, c \in ToolCalls : toolResultMessage(text, c) \in AMessage
  /\ \A role \in {"system", "user"} : Says(role) \in AMessage
<1>1. <<>> \in Seq(ToolCalls)
  OBVIOUS
<1>2. ASSUME NEW text \in BOOLEAN, NEW calls \in Seq(ToolCalls) PROVE assistantToolCallMessage(text, calls) \in AMessage
  BY DEF assistantToolCallMessage, MessageOf, AMessage
<1>3. ASSUME NEW text \in BOOLEAN, NEW c \in ToolCalls PROVE toolResultMessage(text, c) \in AMessage
  <2>1. c.id \in CallIds \cup {""} /\ c.name \in ToolNames \cup {""}
    BY DEF ToolCalls
  <2> QED
    BY <1>1, <2>1 DEF toolResultMessage, MessageOf, AMessage
<1>4. ASSUME NEW role \in {"system", "user"} PROVE Says(role) \in AMessage
  BY <1>1 DEF Says, MessageOf, AMessage
<1> QED
  BY <1>2, <1>3, <1>4

\* A turn of the model with its calls, when none was left to answer.
LEMMA TurnTold ==
  ASSUME NEW p \in Providers, NEW ms \in Seq(AMessage), Told(p, ms, <<>>),
         NEW calls \in Seq(ToolCalls), NEW text \in BOOLEAN,
         p = "google" => \A x, y \in ToSet(calls) : x.id = y.id => x = y
  PROVE  LET m == assistantToolCallMessage(text, calls)
         IN m \in AMessage /\ Told(p, Append(ms, m), NamedCalls(calls))
<1> DEFINE m == assistantToolCallMessage(text, calls)
           due == NamedCalls(calls)
           n == WithCalls(m, due)
           kept == Sanitize(ms)
           req == RequestOf(p, kept)
<1>2. due \in Seq(ToolCalls) /\ NamedCalls(due) = due /\ \A c \in ToSet(due) : c \in ToSet(calls)
  BY NamedIs, NamedOnes
<1>3. n = assistantToolCallMessage(text, due) /\ WithCalls(n, due) = n
  BY TurnParts
<1>p. m.role = "assistant" /\ m.text = text /\ m.calls = calls /\ n.role = "assistant" /\ n.text = text /\ n.calls = due
  BY <1>3, TurnParts
<1>4. m \in AMessage /\ n \in AMessage
  BY <1>2, <1>3, MessagesTyped, Zenon
<1> HIDE DEF due, m, n
<1>5. kept \in Seq(AMessage)
  BY SanitizeOn
<1>6. /\ Answers(req) = [ok |-> TRUE, open |-> <<>>] /\ Sanitize(kept) = kept
      /\ Cardinality(Texts(req)) = Cardinality(Said(ms))
  BY NoTies DEF Told
<1>7. req \in Seq(ATurn)
  BY <1>5, RequestOn
<1>8. Cardinality(Said(Append(ms, m))) = Cardinality(Said(ms)) + (IF text THEN 1 ELSE 0)
      /\ Cardinality(Said(ms)) \in Nat
  BY <1>p, <1>4, SaidOn
<1>9. Sanitize(Append(ms, m)) = IF text \/ due # <<>> THEN Append(kept, n) ELSE kept
  <2>1. Sanitize(Append(ms, m)) = Keep(kept, m)
    BY <1>4, SanitizeOn
  <2>2. m.role = "assistant" /\ NamedCalls(m.calls) = due /\ n.text = text /\ n.calls = due
    BY <1>p DEF due
  <2> QED
    BY <2>1, <2>2 DEF Keep, n, WithCalls
<1>10. CASE ~(text \/ due # <<>>)
  <2>1. \A c \in ToSet(due) : FALSE
    BY <1>10 DEF ToSet
  <2>2. Sanitize(Append(ms, m)) = kept /\ Cardinality(Said(Append(ms, m))) = Cardinality(Said(ms))
    BY <1>8, <1>9, <1>10
  <2>3. Told(p, Append(ms, m), due)
    BY <1>6, <1>10, <2>1, <2>2, NoTies DEF Told
  <2> QED
    BY <1>4, <2>3 DEF m, due
<1>11. CASE text \/ due # <<>>
  <2> DEFINE t == TurnOf(p, kept, n)
             more == Append(kept, n)
  <2>1. Sanitize(Append(ms, m)) = more
    BY <1>9, <1>11
  <2>2. t = [by |-> "assistant", text |-> text, calls |-> TiesOf(p, due), result |-> <<>>] /\ t \in ATurn
    <3>1. n.role = "assistant" /\ n.text = text /\ n.calls = due
      BY <1>p
    <3>2. t \in ATurn /\ t = Turn("assistant", text, TiesOf(p, due), <<>>)
      BY <1>4, <1>5, <3>1, TurnMade
    <3> QED
      BY <3>2 DEF Turn
  <2>3. RequestOf(p, more) = Append(req, t)
    BY <1>4, <1>5, RequestOn
  <2> HIDE DEF t
  <2>4. Answers(RequestOf(p, more)) = [ok |-> TRUE, open |-> TiesOf(p, due)]
    <3>1. Answers(Append(req, t)) = Answering(Answers(req), t)
      BY <1>7, <2>2, AnswersOn
    <3>2. Answering([ok |-> TRUE, open |-> <<>>], t) = [ok |-> TRUE, open |-> TiesOf(p, due)]
      BY <2>2 DEF Answering
    <3> QED
      BY <1>6, <2>3, <3>1, <3>2
  <2>5. Sanitize(more) = more
    <3>1. Sanitize(more) = Keep(Sanitize(kept), n)
      BY <1>4, <1>5, SanitizeOn
    <3>2. n.role = "assistant" /\ WithCalls(n, NamedCalls(n.calls)) = n /\ n.text = text /\ n.calls = due
      BY <1>2, <1>3, <1>p, Zenon
    <3>3. Keep(kept, n) = IF n.text \/ n.calls # <<>> THEN Append(kept, n) ELSE kept
      BY <3>2 DEF Keep, WithCalls
    <3> QED
      BY <1>6, <1>11, <3>1, <3>2, <3>3
  <2>6. Cardinality(Texts(RequestOf(p, more))) = Cardinality(Said(Append(ms, m)))
    <3>1. Cardinality(Texts(Append(req, t))) = Cardinality(Texts(req)) + (IF text THEN 1 ELSE 0)
      BY <1>7, <2>2, TextOn
    <3> QED
      BY <1>6, <1>8, <2>3, <3>1
  <2>7. ASSUME NEW c \in ToSet(due) PROVE Paired(more, c)
    BY <1>p, <1>4, <1>5, PairedNow
  <2>8. ASSUME NEW c \in ToSet(due), p = "google" PROVE NameUpTo(more, Len(more), c.id) = c.name
    <3> DEFINE l == Len(more)
    <3>1. more \in Seq(AMessage) /\ l \in Nat /\ l \in 1 .. l /\ l \in 0 .. l /\ more[l] = n
      BY <1>4, <1>5
    <3> HIDE DEF more, l
    <3>2. l \in Met(more, l, c.id)
      BY <1>p, <3>1 DEF Met
    <3>3. Max(Met(more, l, c.id)) \in 1 .. l /\ l <= Max(Met(more, l, c.id))
          /\ \E d \in ToSet(more[Max(Met(more, l, c.id))].calls) : d.id = c.id /\ NameAmong(more, l, c.id) = d.name
      BY <3>1, <3>2, NameFound DEF l
    <3>4. Max(Met(more, l, c.id)) = l
      BY <3>1, <3>3
    <3>5. PICK d \in ToSet(due) : d.id = c.id /\ NameAmong(more, l, c.id) = d.name
      BY <1>p, <3>1, <3>3, <3>4
    <3>6. d = c
      BY <1>2, <2>8, <3>5
    <3> QED
      BY <3>5, <3>6 DEF NameUpTo, l
  <2> HIDE DEF more
  <2>9. Told(p, Append(ms, m), due)
    BY <2>1, <2>4, <2>5, <2>6, <2>7, <2>8 DEF Told
  <2> QED
    BY <1>4, <2>9 DEF m, due
<1> QED
  BY <1>10, <1>11

\* The result of the first call that is left.
LEMMA ResultTold ==
  ASSUME NEW p \in Providers, NEW ms \in Seq(AMessage), NEW calls \in Seq(ToolCalls), calls # <<>>,
         Told(p, ms, NamedCalls(calls)), NEW text \in BOOLEAN
  PROVE  LET m == toolResultMessage(text, Head(calls))
         IN m \in AMessage /\ Told(p, Append(ms, m), NamedCalls(Tail(calls)))
<1> DEFINE c == Head(calls)
           m == toolResultMessage(text, c)
           rest == NamedCalls(Tail(calls))
           due == NamedCalls(calls)
           n == WithText(m, TRUE)
           kept == Sanitize(ms)
           req == RequestOf(p, kept)
<1>c. c \in ToolCalls /\ Tail(calls) \in Seq(ToolCalls)
  OBVIOUS
<1>d. due = (IF c.name = "" THEN rest ELSE <<c>> \o rest) /\ rest \in Seq(ToolCalls)
  BY <1>c, NamedFirst, NamedIs
<1>e. kept \in Seq(AMessage)
  BY SanitizeOn
<1>t. /\ Answers(req) = [ok |-> TRUE, open |-> TiesOf(p, due)] /\ Sanitize(kept) = kept
      /\ Cardinality(Texts(req)) = Cardinality(Said(ms))
      /\ \A d \in ToSet(due) : Paired(kept, d) /\ (p = "google" => NameUpTo(kept, Len(kept), d.id) = d.name)
  BY DEF Told
<1> HIDE DEF c, rest, due, kept
<1>y. PICK yes : yes = TRUE
  OBVIOUS
<1>n. n = toolResultMessage(yes, c) /\ WithText(n, yes) = n
  <2>1. n = WithText(m, yes)
    BY <1>y
  <2>2. WithText(m, yes) = toolResultMessage(yes, c) /\ WithText(toolResultMessage(yes, c), yes) = toolResultMessage(yes, c)
    BY ResultParts
  <2> QED
    BY <2>1, <2>2
<1>1. m.role = "tool" /\ m.text = text /\ m.calls = <<>> /\ m.id = c.id /\ m.ran = c.name
      /\ n.role = "tool" /\ n.text = yes /\ n.calls = <<>> /\ n.id = c.id /\ n.ran = c.name
  <2>1. m.role = "tool" /\ m.text = text /\ m.calls = <<>> /\ m.id = c.id /\ m.ran = c.name
    BY ResultParts
  <2> DEFINE r == toolResultMessage(yes, c)
  <2>2. r.role = "tool" /\ r.text = yes /\ r.calls = <<>> /\ r.id = c.id /\ r.ran = c.name
    BY ResultParts
  <2> HIDE DEF r, m, n
  <2> QED
    BY <1>n, <2>1, <2>2, Zenon DEF r
<1>4. m \in AMessage /\ n \in AMessage
  BY <1>c, <1>n, <1>y, MessagesTyped, Zenon
<1> HIDE DEF m, n
<1>8. Cardinality(Said(Append(ms, m))) = Cardinality(Said(ms))
  <2>1. m.role = "tool"
    BY <1>1
  <2>2. Cardinality(Said(Append(ms, m))) = Cardinality(Said(ms)) + 0 /\ Cardinality(Said(ms)) \in Nat
    BY <1>4, <2>1, SaidOn
  <2> QED
    BY <2>2
<1>9. Sanitize(Append(ms, m)) = IF Paired(kept, c) THEN Append(kept, n) ELSE kept
  <2>1. Sanitize(Append(ms, m)) = Keep(kept, m)
    BY <1>4, SanitizeOn DEF kept
  <2>2. m.role = "tool" /\ m.id = c.id
    BY <1>1
  <2>3. Paired(kept, m) <=> Paired(kept, c)
    BY <2>2 DEF Paired
  <2> QED
    BY <2>1, <2>2, <2>3 DEF Keep, KeepResult, n, WithText
<1>i. rest # <<>> => \A d \in ToSet(rest) : d \in ToSet(due)
  <2>1. \A d \in ToSet(rest) : d \in ToSet(<<c>> \o rest)
    <3> SUFFICES ASSUME NEW d \in ToSet(rest) PROVE d \in ToSet(<<c>> \o rest)
      OBVIOUS
    <3>1. PICK k \in DOMAIN rest : d = rest[k]
      BY DEF ToSet
    <3>2. \A j \in DOMAIN rest : j + 1 \in DOMAIN (<<c>> \o rest) /\ (<<c>> \o rest)[j + 1] = rest[j]
      <4>1. c \in ToolCalls /\ rest \in Seq(ToolCalls)
        BY <1>c, <1>d
      <4> QED
        BY <4>1, PutFirst
    <3> QED
      BY <3>1, <3>2 DEF ToSet
  <2> QED
    BY <1>d, <2>1
<1>j. c.name # "" => c \in ToSet(due)
  <2>1. 1 \in DOMAIN (<<c>> \o rest) /\ (<<c>> \o rest)[1] = c
    BY <1>c, <1>d, PutFirst
  <2>2. c \in ToSet(<<c>> \o rest)
    BY <2>1 DEF ToSet
  <2> QED
    BY <1>d, <2>2
<1>k. \A d \in ToSet(rest) : d \in ToSet(due)
  <2>1. rest = <<>> => ToSet(rest) = {}
    BY DEF ToSet
  <2> QED
    BY <1>i, <2>1
<1> HIDE DEF req
<1>10. CASE ~Paired(kept, c)
  <2>1. due = rest
    BY <1>d, <1>j, <1>t, <1>10
  <2>2. Sanitize(Append(ms, m)) = kept
    BY <1>9, <1>10
  <2>3. Told(p, Append(ms, m), rest)
    BY <1>8, <1>t, <2>1, <2>2 DEF Told, req
  <2> QED
    BY <1>4, <2>3 DEF m, rest, c
<1>11. CASE Paired(kept, c)
  <2> DEFINE t == TurnOf(p, kept, n)
             more == Append(kept, n)
             ref == IF p = "google" THEN NameUpTo(more, Len(kept) + 1, c.id) ELSE c.id
  <2>1. Sanitize(Append(ms, m)) = more
    BY <1>9, <1>11
  <2>l. more \in Seq(AMessage) /\ Len(more) = Len(kept) + 1
    BY <1>4, <1>e
  <2>2. t = [by |-> "user", text |-> FALSE, calls |-> <<>>, result |-> <<Tie(ref, c.name)>>] /\ t \in ATurn
    <3>1. n.role = "tool" /\ n.id = c.id /\ n.ran = c.name
      BY <1>1
    <3>2. t \in ATurn /\ t = Turn("user", FALSE, <<>>, <<Tie(IF p = "google" THEN NameUpTo(Append(kept, n), Len(kept) + 1, n.id) ELSE n.id, n.ran)>>)
      BY <1>4, <1>e, <3>1, TurnMade
    <3> QED
      BY <3>1, <3>2 DEF Turn
  <2>3. RequestOf(p, more) = Append(req, t) /\ req \in Seq(ATurn)
    BY <1>4, <1>e, RequestOn DEF req
  <2>n. \A id : NameUpTo(more, Len(kept) + 1, id) = NameUpTo(kept, Len(kept), id)
    <3>1. n.calls = <<>>
      BY <1>1
    <3> QED
      BY <1>4, <1>e, <3>1, NameStays DEF NameUpTo
  <2>r. c.name # "" => Tie(ref, c.name) = TieOf(p, c)
    BY <1>j, <1>t, <2>n DEF TieOf
  <2> HIDE DEF t, more, ref
  <2>4. Answers(RequestOf(p, more)) = [ok |-> TRUE, open |-> TiesOf(p, rest)]
    <3>1. Answers(Append(req, t)) = Answering(Answers(req), t)
      BY <2>2, <2>3, AnswersOn
    <3>2. t.by = "user" /\ t.result # <<>> /\ Head(t.result) = Tie(ref, c.name) /\ Head(t.result).name = c.name
      BY <2>2 DEF Tie
    <3>3. CASE c.name = ""
      <4>1. Answering(Answers(req), t) = Answers(req)
        BY <3>2, <3>3 DEF Answering
      <4> QED
        BY <1>d, <1>t, <2>3, <3>1, <3>3, <4>1
    <3>4. CASE c.name # ""
      <4> DEFINE open == TiesOf(p, due)
      <4>1. open # <<>> /\ Head(open) = TieOf(p, c) /\ Tail(open) = TiesOf(p, rest)
        BY <1>c, <1>d, <3>4, FirstTie
      <4> HIDE DEF open
      <4>2. Answers(req).ok = TRUE /\ Answers(req).open = open
        BY <1>t DEF open
      <4>3. Answering(Answers(req), t) = [ok |-> TRUE /\ Head(open) = Head(t.result), open |-> Tail(open)]
        BY <3>2, <3>4, <4>1, <4>2 DEF Answering
      <4>4. Head(open) = Head(t.result)
        BY <2>r, <3>2, <3>4, <4>1
      <4> QED
        BY <2>3, <3>1, <4>1, <4>3, <4>4
    <3> QED
      BY <3>3, <3>4
  <2>5. Sanitize(more) = more
    <3>1. Sanitize(more) = Keep(Sanitize(kept), n)
      BY <1>4, <1>e, SanitizeOn DEF more
    <3>2. n.role = "tool" /\ n.id = c.id /\ WithText(n, TRUE) = n
      BY <1>1, <1>n, <1>y, Zenon
    <3>3. Paired(kept, n)
      BY <1>11, <3>2 DEF Paired
    <3> QED
      BY <1>t, <3>1, <3>2, <3>3 DEF Keep, KeepResult, more, WithText
  <2>6. Cardinality(Texts(RequestOf(p, more))) = Cardinality(Said(Append(ms, m)))
    <3>1. Cardinality(Texts(Append(req, t))) = Cardinality(Texts(req)) + 0 /\ Cardinality(Texts(req)) \in Nat
      BY <2>2, <2>3, TextOn
    <3> QED
      BY <1>8, <1>t, <2>3, <3>1
  <2>7. ASSUME NEW d \in ToSet(rest) PROVE Paired(more, d)
    BY <1>4, <1>e, <1>k, <1>t, PairedStays DEF more
  <2>8. ASSUME NEW d \in ToSet(rest), p = "google" PROVE NameUpTo(more, Len(more), d.id) = d.name
    BY <1>k, <1>t, <2>8, <2>l, <2>n
  <2>9. Told(p, Append(ms, m), rest)
    BY <2>1, <2>4, <2>5, <2>6, <2>7, <2>8 DEF Told
  <2> QED
    BY <1>4, <2>9 DEF m, rest, c
<1> QED
  BY <1>10, <1>11

LEMMA OneTwo ==
  \A S : \A a, b \in S : /\ Append(<<>>, a) = <<a>> /\ Append(<<a>>, b) = <<a, b>>
                       /\ <<a>> \in Seq(S) /\ <<a, b>> \in Seq(S)
<1> SUFFICES ASSUME NEW S, NEW a \in S, NEW b \in S
             PROVE  /\ Append(<<>>, a) = <<a>> /\ Append(<<a>>, b) = <<a, b>>
                    /\ <<a>> \in Seq(S) /\ <<a, b>> \in Seq(S)
  OBVIOUS
<1>1. <<a>> \in Seq(S) /\ <<a, b>> \in Seq(S) /\ <<>> \in Seq(S)
  OBVIOUS
<1>2. Append(<<>>, a) = <<a>>
  OBVIOUS
<1>3. Append(<<a>>, b) = <<a, b>>
  <2>1. Append(<<a>>, b) \in Seq(S) /\ Len(Append(<<a>>, b)) = 2 /\ Append(<<a>>, b)[1] = a /\ Append(<<a>>, b)[2] = b
    OBVIOUS
  <2>2. Len(<<a, b>>) = 2 /\ <<a, b>>[1] = a /\ <<a, b>>[2] = b
    OBVIOUS
  <2>3. \A i \in 1 .. 2 : i = 1 \/ i = 2
    OBVIOUS
  <2> QED
    BY <1>1, <2>1, <2>2, <2>3, SeqEqual
<1> QED
  BY <1>1, <1>2, <1>3

\* The two messages a conversation begins with.
LEMMA BeginTold ==
  ASSUME NEW p \in Providers
  PROVE  LET ms == <<Says("system"), Says("user")>>
         IN ms \in Seq(AMessage) /\ Told(p, ms, <<>>)
<1> DEFINE a == Says("system")
           b == Says("user")
<1>n. <<>> \in Seq(ToolCalls) /\ <<>> \in Seq(AMessage) /\ <<>> \in Seq(ATurn)
  OBVIOUS
<1>b. a \in AMessage /\ b \in AMessage
  <2>1. "system" \in {"system", "user"} /\ "user" \in {"system", "user"}
    OBVIOUS
  <2> QED
    BY <2>1, MessagesTyped, Zenon
<1>1. a \in AMessage /\ b \in AMessage /\ a.role = "system" /\ b.role = "user" /\ a.text = TRUE /\ b.text = TRUE
      /\ a.calls = <<>> /\ b.calls = <<>> /\ WithCalls(a, <<>>) = a /\ WithCalls(b, <<>>) = b
  BY <1>b, SaysParts, Zenon
<1> HIDE DEF a, b
<1>2. Append(<<>>, a) = <<a>> /\ Append(<<a>>, b) = <<a, b>> /\ <<a>> \in Seq(AMessage) /\ <<a, b>> \in Seq(AMessage)
  BY <1>b, OneTwo, Zenon
<1>3. \A ms : Keep(ms, a) = Append(ms, a) /\ Keep(ms, b) = Append(ms, b)
  BY <1>1, NamedNone DEF Keep, WithCalls
<1>4. Sanitize(<<a>>) = <<a>> /\ Sanitize(<<a, b>>) = <<a, b>>
  <2>1. Sanitize(<<a>>) = <<a>>
    BY <1>1, <1>2, <1>3, <1>n, SanitizeOn
  <2> QED
    BY <1>1, <1>2, <1>3, <2>1, SanitizeOn
<1> DEFINE s == SystemTurn
           u == Turn("user", TRUE, <<>>, <<>>)
<1>5. RequestOf(p, <<a, b>>) = Append(Append(<<>>, s), u) /\ s \in ATurn /\ u \in ATurn
  <2>1. RequestOf(p, <<>>) = <<>>
    <3>1. RequestOf(p, <<>>) \in Seq(ATurn) /\ Len(RequestOf(p, <<>>)) = 0
      BY <1>n, RequestOn
    <3> QED
      BY <3>1
  <2>2. RequestOf(p, <<a>>) = Append(<<>>, s) /\ s \in ATurn
    <3>1. RequestOf(p, Append(<<>>, a)) = Append(RequestOf(p, <<>>), TurnOf(p, <<>>, a))
      BY <1>1, <1>n, RequestOn
    <3>2. TurnOf(p, <<>>, a) = s /\ TurnOf(p, <<>>, a) \in ATurn
      BY <1>1, <1>n, TurnMade
    <3> QED
      BY <1>2, <2>1, <3>1, <3>2
  <2>3. RequestOf(p, Append(<<a>>, b)) = Append(RequestOf(p, <<a>>), TurnOf(p, <<a>>, b))
    BY <1>1, <1>2, RequestOn
  <2>4. TurnOf(p, <<a>>, b) = u /\ TurnOf(p, <<a>>, b) \in ATurn
    <3>1. TurnOf(p, <<a>>, b) \in ATurn /\ TurnOf(p, <<a>>, b) = Turn(b.role, b.text, TiesOf(p, b.calls), <<>>)
      BY <1>1, <1>2, TurnMade
    <3> QED
      BY <1>1, <3>1, NoTies
  <2> QED
    BY <1>2, <2>2, <2>3, <2>4
<1>6. s.by = "system" /\ s.result = <<>> /\ s.text = FALSE /\ u.by = "user" /\ u.result = <<>> /\ u.text = TRUE
  BY DEF SystemTurn, Turn
<1> HIDE DEF s, u
<1>7. Append(<<>>, s) \in Seq(ATurn)
  BY <1>5, <1>n
<1>8. Answers(RequestOf(p, <<a, b>>)) = [ok |-> TRUE, open |-> <<>>]
  <2>1. Answers(Append(<<>>, s)) = Answering(Answers(<<>>), s)
    BY <1>5, <1>n, AnswersOn
  <2>2. Answers(Append(Append(<<>>, s), u)) = Answering(Answers(Append(<<>>, s)), u)
    BY <1>5, <1>7, AnswersOn
  <2>3. \A acc : Answering(acc, s) = acc /\ Answering(acc, u) = acc
    BY <1>6 DEF Answering
  <2> QED
    BY <1>5, <2>1, <2>2, <2>3, AnswersOn
<1>9. Cardinality(Texts(RequestOf(p, <<a, b>>))) = 1
  <2>1. Cardinality(Texts(<<>>)) = 0
    BY FS_EmptySet DEF Texts
  <2>2. Cardinality(Texts(Append(<<>>, s))) = 0
    <3>1. Cardinality(Texts(Append(<<>>, s))) = Cardinality(Texts(<<>>)) + (IF s.text THEN 1 ELSE 0)
      BY <1>5, <1>n, TextOn
    <3> QED
      BY <1>6, <2>1, <3>1
  <2>3. Cardinality(Texts(Append(Append(<<>>, s), u))) = 1
    BY <1>5, <1>6, <1>7, <2>2, TextOn
  <2> QED
    BY <1>5, <2>3
<1>10. Cardinality(Said(<<a, b>>)) = 1
  <2>1. Cardinality(Said(<<>>)) = 0
    BY FS_EmptySet DEF Said
  <2>2. Cardinality(Said(<<a>>)) = 0
    <3>1. Cardinality(Said(Append(<<>>, a)))
            = Cardinality(Said(<<>>)) + (IF a.role \in {"user", "assistant"} /\ a.text THEN 1 ELSE 0)
      BY <1>1, <1>n, SaidOn
    <3> QED
      BY <1>1, <1>2, <2>1, <3>1
  <2>3. Cardinality(Said(Append(<<a>>, b)))
          = Cardinality(Said(<<a>>)) + (IF b.role \in {"user", "assistant"} /\ b.text THEN 1 ELSE 0)
    BY <1>1, <1>2, SaidOn
  <2>4. Cardinality(Said(Append(<<a>>, b))) = 1
    BY <1>1, <2>2, <2>3
  <2> QED
    BY <1>2, <2>4, Zenon
<1>11. \A c \in ToSet(<<>>) : FALSE
  BY DEF ToSet
<1> QED
  BY <1>2, <1>4, <1>8, <1>9, <1>10, <1>11, NoTies DEF Told, a, b


-----------------------------------------------------------------------------
(* What is sent answers every call.                                        *)

\* Between two turns of the model no call is left to run, and what is kept of
\* the conversation answers every call but those.
TalkTold ==
  /\ Told(provider, messages, NamedCalls(todo))
  /\ at \in {"step", "model"} => todo = <<>>

LEMMA TurnOfCallsListed == \A s \in TurnOfCalls : s \in Seq(ToolCalls)
<1> SUFFICES ASSUME NEW s \in TurnOfCalls PROVE s \in Seq(ToolCalls)
  OBVIOUS
<1>1. PICK n \in 0 .. MaxTurnCalls : s \in [1 .. n -> ToolCalls]
  BY DEF TurnOfCalls, SeqOf
<1> QED
  BY <1>1

LEMMA TalkShapes ==
  ASSUME TalkInv
  PROVE  messages \in Seq(AMessage) /\ todo \in Seq(ToolCalls) /\ provider \in Providers
<1>1. Messages \subseteq AMessage
  BY TurnOfCallsListed DEF Messages, AMessage, TurnOfCalls
<1>2. messages \in Seq(AMessage)
  BY <1>1 DEF TalkInv
<1> QED
  BY TurnOfCallsListed, <1>2 DEF TalkInv, ConversationTypeOK, TurnOfCalls

\* Gemini's calls are numbered: no two of a turn have the same id.
LEMMA IdsCounted ==
  ASSUME TalkInv, provider = "google", NEW n \in 1 .. MaxTurnCalls, NEW ids \in IdsOf(n),
         NEW j \in 1 .. n, NEW k \in 1 .. n, ids[j] = ids[k]
  PROVE  j = k
<1> DEFINE c == Cardinality(CallIds)
           list == SetToSeq(CallIds)
<1>1. MaxTurnCalls <= c /\ MaxTurnCalls \in Nat
  BY ConversationConstants
<1>2. list \in [1 .. c -> CallIds] /\ c \in Nat /\ IsInjective(list)
  BY ConversationConstants, SetListed
<1> HIDE DEF list, c
<1>3. \A x, y \in 1 .. c : list[x] = list[y] => x = y
  BY <1>2 DEF IsInjective
<1>4. ids = [x \in 1 .. n |-> list[x]]
  BY DEF IdsOf, GoogleId, list
<1>5. ids[j] = list[j] /\ ids[k] = list[k]
  BY <1>4
<1>6. j \in 1 .. c /\ k \in 1 .. c
  BY <1>1, <1>2
<1> QED
  BY <1>3, <1>5, <1>6

LEMMA ToldBegins == ConversationInit => TalkTold
<1> SUFFICES ASSUME ConversationInit PROVE TalkTold
  OBVIOUS
<1>1. provider \in Providers /\ messages = <<Says("system"), Says("user")>> /\ todo = <<>>
  BY DEF ConversationInit
<1>2. Told(provider, messages, <<>>)
  BY <1>1, BeginTold
<1> QED
  BY <1>1, <1>2, NamedNone DEF TalkTold

LEMMA ToldOn ==
  ASSUME TalkInv, TalkTold, [ConversationNext]_conversationVars PROVE TalkTold'
<1>t. messages \in Seq(AMessage) /\ todo \in Seq(ToolCalls) /\ provider \in Providers
  BY TalkShapes
<1>s. ASSUME UNCHANGED <<provider, messages, todo>>, at' = at \/ at' = "done" \/ at = "step" PROVE TalkTold'
  BY <1>s DEF TalkTold
<1>1. CASE RequestTurn
  BY <1>1, <1>s DEF RequestTurn
<1>2. ASSUME NEW text \in BOOLEAN, NEW n \in 1 .. MaxTurnCalls, TurnCalls(text, n) PROVE TalkTold'
  <2>1. PICK ids \in IdsOf(n), names \in [1 .. n -> ToolNames \cup {""}] :
          LET calls == [k \in 1 .. n |-> [id |-> ids[k], name |-> names[k]]]
          IN /\ messages' = Append(messages, assistantToolCallMessage(text, calls))
             /\ todo' = calls
    BY <1>2 DEF TurnCalls
  <2> DEFINE calls == [k \in 1 .. n |-> [id |-> ids[k], name |-> names[k]]]
             turn == assistantToolCallMessage(text, calls)
  <2>2. ids \in [1 .. n -> CallIds \cup {""}]
    BY IdsAreIds DEF TalkInv
  <2>3. calls \in Seq(ToolCalls)
    <3>1. \A k \in 1 .. n : [id |-> ids[k], name |-> names[k]] \in ToolCalls
      BY <2>2 DEF ToolCalls
    <3>2. calls \in [1 .. n -> ToolCalls]
      BY <3>1
    <3> HIDE DEF calls
    <3> QED
      BY <3>2, TurnOfCallsShape, TurnOfCallsListed
  <2>4. provider = "google" => \A x, y \in ToSet(calls) : x.id = y.id => x = y
    <3> SUFFICES ASSUME provider = "google", NEW x \in ToSet(calls), NEW y \in ToSet(calls), x.id = y.id
                 PROVE  x = y
      OBVIOUS
    <3>1. DOMAIN calls = 1 .. n
      OBVIOUS
    <3>2. PICK j \in 1 .. n, k \in 1 .. n : x = calls[j] /\ y = calls[k]
      BY <3>1 DEF ToSet
    <3>3. x.id = ids[j] /\ y.id = ids[k]
      BY <3>2
    <3>4. j = k
      BY <3>3, IdsCounted
    <3> QED
      BY <3>2, <3>4
  <2>5. messages' = Append(messages, turn) /\ todo' = calls
    BY <2>1
  <2> HIDE DEF calls
  <2>6. todo = <<>> /\ UNCHANGED provider /\ at' = "calls"
    BY <1>2 DEF TurnCalls, TalkTold
  <2>7. Told(provider, messages, <<>>)
    BY <2>6, NamedNone DEF TalkTold
  <2>8. Told(provider, Append(messages, turn), NamedCalls(calls))
    BY <1>t, <2>3, <2>4, <2>7, TurnTold
  <2> HIDE DEF turn
  <2> QED
    BY <2>5, <2>6, <2>8 DEF TalkTold
<1>3. ASSUME NEW text \in BOOLEAN, CallEnds(text) PROVE TalkTold'
  <2> DEFINE result == toolResultMessage(text, Head(todo))
  <2>1. todo # <<>> /\ messages' = Append(messages, result) /\ todo' = Tail(todo) /\ UNCHANGED provider
        /\ at' = IF Len(todo) = 1 THEN "step" ELSE "calls"
    BY <1>3 DEF CallEnds
  <2>2. Told(provider, messages, NamedCalls(todo))
    BY DEF TalkTold
  <2>3. Told(provider, Append(messages, result), NamedCalls(Tail(todo)))
    BY <1>t, <2>1, <2>2, ResultTold
  <2>4. Len(todo) = 1 => Tail(todo) = <<>>
    BY <1>t, <2>1
  <2>5. at' \in {"step", "model"} => todo' = <<>>
    BY <2>1, <2>4
  <2> HIDE DEF result
  <2> QED
    BY <2>1, <2>3, <2>5 DEF TalkTold
<1>4. CASE TalkEnds
  BY <1>4, <1>s DEF TalkEnds
<1>5. CASE UNCHANGED conversationVars
  BY <1>5, <1>s DEF conversationVars
<1> QED
  BY <1>1, <1>2, <1>3, <1>4, <1>5 DEF ConversationNext

\* When the model is asked nothing is left to run, and so nothing to answer.
LEMMA ToldSafe ==
  ASSUME TalkTold PROVE ConversationSafe
<1> SUFFICES ASSUME at = "model"
             PROVE  /\ Answers(Request) = [ok |-> TRUE, open |-> <<>>]
                    /\ Cardinality({i \in DOMAIN Request : Request[i].text}) = Cardinality(Said(messages))
                    /\ Sanitize(Sanitize(messages)) = Sanitize(messages)
  BY DEF ConversationSafe, NoDanglingCall, ProseArrives, SanitizedStays
<1>1. Told(provider, messages, <<>>)
  BY NamedNone DEF TalkTold
<1>2. Request = RequestOf(provider, Sanitize(messages))
  BY DEF Request, RequestOf
<1>3. Texts(Request) = {i \in DOMAIN Request : Request[i].text}
  BY DEF Texts
<1> QED
  BY <1>1, <1>2, <1>3, NoTies DEF Told
-----------------------------------------------------------------------------
(* The three side by side.                                                 *)

BuiltinInv == LoopInv /\ TalkInv /\ TalkTold /\ ReadsInv

LEMMA BuiltinBegins == BuiltinInit => BuiltinInv
BY InitInv, TalkBegins, ToldBegins, ReadsBegin DEF BuiltinInit, BuiltinInv

\* They share no state: a step of one is a stutter of the others.
LEMMA BuiltinStep == BuiltinInv /\ [BuiltinNext]_builtinVars => BuiltinInv'
<1> SUFFICES ASSUME BuiltinInv, [BuiltinNext]_builtinVars PROVE BuiltinInv'
  OBVIOUS
<1>1. /\ [LoopNext]_loopVars /\ [ConversationNext]_conversationVars
      /\ [ReadsNext]_readVars
  <2>1. CASE UNCHANGED builtinVars
    BY <2>1 DEF builtinVars
  <2>2. CASE BuiltinNext
    BY <2>2 DEF BuiltinNext
  <2> QED
    BY <2>1, <2>2
<1> QED
  BY <1>1, StepInv, TalkStep, ToldOn, ReadsStep DEF BuiltinInv

LEMMA BuiltinAlways == BuiltinSpec => []BuiltinInv
BY BuiltinBegins, BuiltinStep, PTL DEF BuiltinSpec

\* Every variable of the loop, of the conversation it sends and of the reading
\* of a file stays within its type, for any modes, tools, ids and bounds: the
\* ids a provider counts from the first in every turn are ids it has, and no
\* page starts behind a file's last line by more than one.
THEOREM BuiltinTypeCorrect == BuiltinSpec => []BuiltinTypeOK
<1>1. BuiltinInv => BuiltinTypeOK
  BY DEF BuiltinInv, BuiltinTypeOK, LoopInv, TalkInv, ReadsInv
<1> QED
  BY <1>1, BuiltinAlways, PTL

\* For files of any length, lines of any width, any cap and any limits the model
\* chooses: of a file nobody edits, the pages a model is sent through show each
\* line once and in order, none is refused, and a page without a marker comes
\* when the whole file has been shown (paged_read).
THEOREM PagesTileFiles == BuiltinSpec => []PagesTile
<1>1. BuiltinInv => PagesTile
  BY PagesDoTile DEF BuiltinInv
<1> QED
  BY <1>1, BuiltinAlways, PTL

\* Whichever way a provider ties results to calls, by the call's id or by the
\* tool's name, however its ids repeat from turn to turn or are missing, and
\* whatever came back blank or was called without a name: in every request each
\* call stands with its own result and in its place, all the prose of the user
\* and of the model is there, and the validator has nothing left to change
\* (sanitize, google_request's call_names).
THEOREM ConversationIsSafe == BuiltinSpec => []ConversationSafe
<1>1. BuiltinInv => ConversationSafe
  BY ToldSafe DEF BuiltinInv
<1> QED
  BY <1>1, BuiltinAlways, PTL
=============================================================================
