------------------------- MODULE AgentTimeline_proofs -------------------------
(***************************************************************************)
(* What the lines of an agent's output make of the rows it is shown with,  *)
(* for any runs, dialects, calls and lines.                                *)
(***************************************************************************)
EXTENDS AgentTimeline, SequenceTheorems, FiniteSetTheorems, FoldLemmas, TLAPS

-----------------------------------------------------------------------------
(* The rows of agents at work: what lines, events and rows are made of.    *)

Fates == {"open", "input", "ok", "fail", "cut", "shell"}
Stages == {"free", "observed", "answer", "diff"}
SegKinds == {"plain", "thought", "action", "input", "observation", "answer", "bad", "error",
             "start", "end ok", "end failed", "done", "failed", "tool_call", "hunk",
             "diff open", "diff close", "summary", "gear", "tick", "edited", "cross", "shell"}
EventTypes == {"tool_start", "tool_end", "text", "reasoning_start", "reasoning_delta",
               "reasoning_end"}
Sections == {"none", "thought", "action", "input", "observation", "answer"}
ASegment == [k : SegKinds, n : Names]
AnEvent == [type : EventTypes, name : Names, ok : BOOLEAN, path : Names, preview : Names]
AParser == [section : Sections, reasoning : BOOLEAN, tool : Names, emitted : BOOLEAN,
            observed : Names, pending : Names, diff : BOOLEAN]
Fed == [p : AParser, ev : Seq(AnEvent)]
ARow == [role : {"tool", "reasoning"}, name : Names, path : Names,
         status : {"running", "done", "failed"}, preview : Names]
AView == {v \in [rows : Seq(ARow), tool : Nat, thought : Nat] :
            v.tool <= Len(v.rows) /\ v.thought <= Len(v.rows)}

Tellings == {t \in Seq(Fates) : Len(t) <= Calls}
ASaying == [line : Seq(ASegment) \ {<<>>}, told : Tellings, stage : Stages]

LEMMA NamesAre ==
  /\ Calls \in Nat /\ 0 \in Names /\ Anon \in Names
  /\ \A n \in 0 .. Calls : n \in Names /\ n \in Nat
BY TimelineConstants DEF Names, Anon

LEMMA TellingsGoOn ==
  ASSUME NEW t \in Tellings
  PROVE  /\ Len(t) \in 0 .. Calls /\ Len(t) \in Names
         /\ \A x \in Fates : Len(t) + 1 <= Calls => Append(t, x) \in Tellings
         /\ \A x \in Fates : Open(t) => Came(t, x) \in Tellings
         /\ Cut(t) \in Tellings /\ Len(Cut(t)) = Len(t)
<1>1. t \in Seq(Fates) /\ Len(t) \in Nat /\ Len(t) <= Calls
  BY DEF Tellings
<1>2. ASSUME NEW x \in Fates, Len(t) + 1 <= Calls PROVE Append(t, x) \in Tellings
  <2>1. Append(t, x) \in Seq(Fates) /\ Len(Append(t, x)) = Len(t) + 1
    BY <1>1, AppendProperties
  <2> QED
    BY <1>2, <2>1 DEF Tellings
<1>3. ASSUME NEW x \in Fates, Open(t)
      PROVE  Came(t, x) \in Tellings /\ Len(Came(t, x)) = Len(t)
  <2>1. t # <<>>
    BY <1>3 DEF Open
  <2>2. Came(t, x) = [t EXCEPT ![Len(t)] = x]
    BY DEF Came, ReplaceAt
  <2>3. Came(t, x) \in Seq(Fates) /\ Len(Came(t, x)) = Len(t)
    BY <1>1, <2>1, <2>2
  <2> QED
    BY <1>1, <2>3 DEF Tellings
<1>4. Cut(t) \in Tellings /\ Len(Cut(t)) = Len(t)
  <2>1. CASE Open(t)
    BY <2>1, <1>3 DEF Cut, Came, Fates
  <2>2. CASE ~Open(t)
    BY <2>2 DEF Cut
  <2> QED
    BY <2>1, <2>2
<1> QED
  BY <1>1, <1>2, <1>3, <1>4, NamesAre

LEMMA KindsAre ==
  /\ "plain" \in SegKinds /\ "thought" \in SegKinds /\ "action" \in SegKinds /\ "input" \in SegKinds
  /\ "observation" \in SegKinds /\ "answer" \in SegKinds /\ "bad" \in SegKinds /\ "error" \in SegKinds
  /\ "start" \in SegKinds /\ "end ok" \in SegKinds /\ "end failed" \in SegKinds /\ "done" \in SegKinds
  /\ "failed" \in SegKinds /\ "tool_call" \in SegKinds /\ "hunk" \in SegKinds /\ "diff open" \in SegKinds
  /\ "diff close" \in SegKinds /\ "summary" \in SegKinds /\ "gear" \in SegKinds /\ "tick" \in SegKinds
  /\ "edited" \in SegKinds /\ "cross" \in SegKinds /\ "shell" \in SegKinds
BY DEF SegKinds

LEMMA OneSegment ==
  \A k \in SegKinds, n \in Names, t \in Tellings, s \in Stages : Says(<<Seg(k, n)>>, t, s) \in ASaying
<1> SUFFICES ASSUME NEW k \in SegKinds, NEW n \in Names, NEW t \in Tellings, NEW s \in Stages
             PROVE  Says(<<Seg(k, n)>>, t, s) \in ASaying
  OBVIOUS
<1>1. Seg(k, n) \in ASegment
  BY DEF Seg, ASegment
<1> DEFINE line == <<Seg(k, n)>>
<1>2. line \in Seq(ASegment) /\ line # <<>>
  BY <1>1
<1> HIDE DEF line
<1> QED
  BY <1>2 DEF Says, ASaying, line

LEMMA TwoSegments ==
  \A k, l \in SegKinds, n, m \in Names, t \in Tellings, s \in Stages :
    Says(<<Seg(k, n), Seg(l, m)>>, t, s) \in ASaying
<1> SUFFICES ASSUME NEW k \in SegKinds, NEW l \in SegKinds, NEW n \in Names, NEW m \in Names,
                    NEW t \in Tellings, NEW s \in Stages
             PROVE  Says(<<Seg(k, n), Seg(l, m)>>, t, s) \in ASaying
  OBVIOUS
<1>1. Seg(k, n) \in ASegment /\ Seg(l, m) \in ASegment
  BY DEF Seg, ASegment
<1> DEFINE line == <<Seg(k, n), Seg(l, m)>>
<1>2. line \in Seq(ASegment) /\ line # <<>>
  BY <1>1
<1> HIDE DEF line
<1> QED
  BY <1>2 DEF Says, ASaying, line

LEMMA ThreeSegments ==
  \A k, l, o \in SegKinds, n \in Names, t \in Tellings, s \in Stages :
    Says(<<Seg(k, n), Seg(l, n), Seg(o, n)>>, t, s) \in ASaying
<1> SUFFICES ASSUME NEW k \in SegKinds, NEW l \in SegKinds, NEW o \in SegKinds, NEW n \in Names,
                    NEW t \in Tellings, NEW s \in Stages
             PROVE  Says(<<Seg(k, n), Seg(l, n), Seg(o, n)>>, t, s) \in ASaying
  OBVIOUS
<1>1. Seg(k, n) \in ASegment /\ Seg(l, n) \in ASegment /\ Seg(o, n) \in ASegment
  BY DEF Seg, ASegment
<1> DEFINE line == <<Seg(k, n), Seg(l, n), Seg(o, n)>>
<1>2. line \in Seq(ASegment) /\ line # <<>>
  BY <1>1
<1> HIDE DEF line
<1> QED
  BY <1>2 DEF Says, ASaying, line

\* What an agent prints next, in each of the dialects.
LEMMA ReActSays ==
  ASSUME NEW t \in Tellings, NEW s \in Stages, NEW y \in SaysReAct(t, s) PROVE y \in ASaying
<1> DEFINE n == Len(t) + 1
<1>t. /\ Len(t) \in Names /\ 0 \in Names /\ Cut(t) \in Tellings
      /\ (n <= Calls => n \in Names)
      /\ \A x \in Fates : n <= Calls => Append(Cut(t), x) \in Tellings
      /\ \A x \in Fates : Open(t) => Came(t, x) \in Tellings
  BY TellingsGoOn, NamesAre DEF Names
<1>f. "open" \in Fates /\ "ok" \in Fates /\ "input" \in Fates
  BY DEF Fates
<1>g. "free" \in Stages /\ "answer" \in Stages /\ "observed" \in Stages
  BY DEF Stages
<1>1. CASE y = Says(<<Seg("plain", 0)>>, t, s)
  BY <1>1, <1>t, KindsAre, OneSegment, TwoSegments, ThreeSegments, Zenon
<1>2. CASE y = Says(<<Seg("plain", 0), Seg("action", 1)>>, t, s)
  <2>1. 1 \in Names
    BY NamesAre DEF Names
  <2> QED
    BY <1>2, <1>t, <2>1, KindsAre, OneSegment, TwoSegments, ThreeSegments, Zenon
<1>3. /\ Says(<<Seg("thought", 0)>>, Cut(t), "free") \in ASaying
      /\ Says(<<Seg("answer", 0)>>, Cut(t), "answer") \in ASaying
  BY <1>t, <1>g, KindsAre, OneSegment, TwoSegments, ThreeSegments, Zenon
<1>4. CASE n <= Calls /\ y = Says(<<Seg("action", n)>>, Append(Cut(t), "open"), "free")
  BY <1>4, <1>t, <1>f, <1>g, KindsAre, OneSegment, TwoSegments, ThreeSegments, Zenon
<1>5. CASE n <= Calls /\ y = Says(<<Seg("thought", 0), Seg("action", n)>>, Append(Cut(t), "open"), "free")
  BY <1>5, <1>t, <1>f, <1>g, KindsAre, OneSegment, TwoSegments, ThreeSegments, Zenon
<1>6. CASE n <= Calls /\ y = Says(<<Seg("action", n), Seg("input", n), Seg("observation", n)>>,
                                  Append(Cut(t), "ok"), "observed")
  BY <1>6, <1>t, <1>f, <1>g, KindsAre, OneSegment, TwoSegments, ThreeSegments, Zenon
<1>7. CASE Open(t) /\ y = Says(<<Seg("input", Len(t))>>, Came(t, "input"), s)
  BY <1>7, <1>t, <1>f, <1>g, KindsAre, OneSegment, TwoSegments, ThreeSegments, Zenon
<1>8. CASE Open(t) /\ y = Says(<<Seg("observation", Len(t))>>, Came(t, "ok"), "observed")
  BY <1>8, <1>t, <1>f, <1>g, KindsAre, OneSegment, TwoSegments, ThreeSegments, Zenon
<1>9. CASE Open(t) /\ y = Says(<<Seg("observation", Len(t)), Seg("action", 1)>>, Came(t, "ok"), "observed")
  <2>1. 1 \in Names
    BY NamesAre DEF Names
  <2> QED
    BY <1>9, <1>t, <1>f, <1>g, <2>1, KindsAre, OneSegment, TwoSegments, ThreeSegments, Zenon
<1> QED
  BY <1>1, <1>2, <1>3, <1>4, <1>5, <1>6, <1>7, <1>8, <1>9, TellingsGoOn, NamesAre DEF SaysReAct

LEMMA ProtocolSays ==
  ASSUME NEW t \in Tellings, NEW s \in Stages, NEW y \in SaysProtocol(t, s) PROVE y \in ASaying
<1> DEFINE n == Len(t) + 1
<1>t. /\ Len(t) \in Names /\ 0 \in Names
      /\ (n <= Calls => n \in Names)
      /\ \A x \in Fates : n <= Calls => Append(t, x) \in Tellings
      /\ \A x \in Fates : Open(t) => Came(t, x) \in Tellings
  BY TellingsGoOn, NamesAre DEF Names
<1>f. "open" \in Fates /\ "ok" \in Fates /\ "fail" \in Fates
  BY DEF Fates
<1>1. /\ Says(<<Seg("plain", 0)>>, t, s) \in ASaying /\ Says(<<Seg("bad", 0)>>, t, s) \in ASaying
      /\ Says(<<Seg("error", 0)>>, t, s) \in ASaying
  BY <1>t, KindsAre, OneSegment, TwoSegments, ThreeSegments, Zenon
<1>2. Open(t) => /\ Says(<<Seg("end ok", Len(t))>>, Came(t, "ok"), s) \in ASaying
                 /\ Says(<<Seg("end failed", Len(t))>>, Came(t, "fail"), s) \in ASaying
  BY <1>t, <1>f, KindsAre, OneSegment, TwoSegments, ThreeSegments, Zenon
<1>3. n <= Calls => /\ Says(<<Seg("start", n)>>, Append(t, "open"), s) \in ASaying
                    /\ Says(<<Seg("done", n)>>, Append(t, "ok"), s) \in ASaying
                    /\ Says(<<Seg("failed", n)>>, Append(t, "fail"), s) \in ASaying
                    /\ Says(<<Seg("tool_call", n)>>, Append(t, "ok"), s) \in ASaying
  BY <1>t, <1>f, KindsAre, OneSegment, TwoSegments, ThreeSegments, Zenon
<1>4. n > Calls \/ n <= Calls
  BY TellingsGoOn, NamesAre
<1> QED
  BY <1>1, <1>2, <1>3, <1>4, Zenon DEF SaysProtocol

LEMMA SmallCodeSays ==
  ASSUME NEW t \in Tellings, NEW s \in Stages, NEW y \in SaysSmallCode(t, s) PROVE y \in ASaying
<1> DEFINE n == Len(t) + 1
<1>t. /\ Len(t) \in Names /\ 0 \in Names
      /\ (n <= Calls => n \in Names)
      /\ \A x \in Fates : n <= Calls => Append(Cut(t), x) \in Tellings
      /\ \A x \in Fates : Open(t) => Came(t, x) \in Tellings
  BY TellingsGoOn, NamesAre DEF Names
<1>f. "open" \in Fates /\ "ok" \in Fates /\ "fail" \in Fates /\ "shell" \in Fates
  BY DEF Fates
<1>g. "free" \in Stages /\ "diff" \in Stages
  BY DEF Stages
<1>1. /\ Says(<<Seg("hunk", 0)>>, t, s) \in ASaying /\ Says(<<Seg("diff close", 0)>>, t, "free") \in ASaying
      /\ Says(<<Seg("plain", 0)>>, t, s) \in ASaying /\ Says(<<Seg("summary", 0)>>, t, s) \in ASaying
      /\ Says(<<Seg("diff open", 0)>>, t, "diff") \in ASaying
  BY <1>t, <1>g, KindsAre, OneSegment, TwoSegments, ThreeSegments, Zenon
<1>2. CASE n <= Calls /\ y = Says(<<Seg("gear", n)>>, Append(Cut(t), "open"), s)
  BY <1>2, <1>t, <1>f, KindsAre, OneSegment, TwoSegments, ThreeSegments, Zenon
<1>3. Open(t) => /\ Says(<<Seg("tick", Len(t))>>, Came(t, "ok"), s) \in ASaying
                 /\ Says(<<Seg("edited", Len(t))>>, Came(t, "ok"), s) \in ASaying
                 /\ Says(<<Seg("cross", Len(t))>>, Came(t, "fail"), s) \in ASaying
                 /\ Says(<<Seg("shell", Len(t))>>, Came(t, "shell"), s) \in ASaying
  BY <1>t, <1>f, KindsAre, OneSegment, TwoSegments, ThreeSegments, Zenon
<1>4. n > Calls \/ n <= Calls
  BY TellingsGoOn, NamesAre
<1> QED
  BY <1>1, <1>2, <1>3, <1>4, Zenon DEF SaysSmallCode

LEMMA SpeechIsSaid ==
  ASSUME NEW r \in Runs, told[r] \in Tellings, stage[r] \in Stages, NEW y \in Speech(r)
  PROVE  y \in ASaying
BY ReActSays, ProtocolSays, SmallCodeSays DEF Speech

-----------------------------------------------------------------------------
(* The parsers.                                                            *)

LEMMA EventsMade ==
  /\ \A n, m \in Names : ToolStart(n, m) \in AnEvent
  /\ \A ok \in BOOLEAN, n, m \in Names : ToolEnd(ok, n, m) \in AnEvent
  /\ Event("reasoning_end") \in AnEvent /\ Event("reasoning_start") \in AnEvent
  /\ Event("reasoning_delta") \in AnEvent /\ Event("text") \in AnEvent
BY NamesAre DEF ToolStart, ToolEnd, Event, AnEvent, EventTypes

LEMMA EventLists ==
  /\ <<>> \in Seq(AnEvent)
  /\ \A a \in AnEvent : <<a>> \in Seq(AnEvent)
  /\ \A a, b \in AnEvent : <<a, b>> \in Seq(AnEvent)
  /\ \A s, t \in Seq(AnEvent) : s \o t \in Seq(AnEvent)
  /\ \A s \in Seq(AnEvent), a \in AnEvent : Append(s, a) \in Seq(AnEvent)
OBVIOUS

LEMMA StepMade == \A p \in AParser, ev \in Seq(AnEvent) : Step(p, ev) \in Fed
BY DEF Step, Fed

\* What a parser keeps, field by field.
LEMMA ParserFields ==
  \A p \in AParser : /\ p.tool \in Names /\ p.observed \in Names /\ p.pending \in Names
                     /\ p.reasoning \in BOOLEAN /\ p.emitted \in BOOLEAN
BY DEF AParser

LEMMA ParserMoves ==
  ASSUME NEW p \in AParser, NEW n \in Names, NEW s \in Sections, NEW b \in BOOLEAN, NEW e \in BOOLEAN
  PROVE  /\ Enter(p, s) \in AParser
         /\ [Enter(p, s) EXCEPT !.reasoning = b] \in AParser
         /\ [Enter(p, s) EXCEPT !.tool = n] \in AParser
         /\ [p EXCEPT !.section = s, !.reasoning = b, !.emitted = e] \in AParser
         /\ [p EXCEPT !.section = s, !.reasoning = b, !.emitted = e, !.observed = n] \in AParser
         /\ [p EXCEPT !.pending = n] \in AParser
         /\ [p EXCEPT !.diff = b] \in AParser
BY NamesAre DEF Enter, AParser

LEMMA OwedEvents ==
  ASSUME NEW p \in AParser
  PROVE  /\ EndReasoning(p) \in Seq(AnEvent) /\ DeferredStart(p) \in Seq(AnEvent)
         /\ EndTool(p) \in Seq(AnEvent) /\ Prose(p) \in Seq(AnEvent)
<1>1. EndReasoning(p) \in Seq(AnEvent)
  BY EventsMade, EventLists DEF EndReasoning
<1>2. DeferredStart(p) \in Seq(AnEvent)
  <2>1. ToolStart(p.tool, 0) \in AnEvent
    BY ParserFields, EventsMade, NamesAre
  <2> QED
    BY <2>1, EventLists DEF DeferredStart
<1>3. EndTool(p) \in Seq(AnEvent)
  <2> DEFINE seen == IF p.section = "observation" THEN p.observed ELSE 0
  <2>1. ToolEnd(TRUE, 0, seen) \in AnEvent
    <3>1. seen \in Names
      BY ParserFields, NamesAre
    <3> HIDE DEF seen
    <3> QED
      BY <3>1, EventsMade, NamesAre
  <2>2. <<ToolEnd(TRUE, 0, seen)>> \in Seq(AnEvent)
    BY <2>1, EventLists, Zenon
  <2>3. DeferredStart(p) \o <<ToolEnd(TRUE, 0, seen)>> \in Seq(AnEvent)
    BY <1>2, <2>2, EventLists, Zenon
  <2> QED
    BY <2>3, EventLists, Zenon DEF EndTool
<1>4. Prose(p) \in Seq(AnEvent)
  <2>1. <<Event("reasoning_delta")>> \in Seq(AnEvent) /\ <<Event("text")>> \in Seq(AnEvent)
    BY EventsMade, EventLists, Zenon
  <2> HIDE DEF Event
  <2> QED
    BY <2>1, EventLists DEF Prose
<1> QED
  BY <1>1, <1>2, <1>3, <1>4

LEMMA SectionsAre ==
  /\ "thought" \in Sections /\ "input" \in Sections /\ "action" \in Sections
  /\ "observation" \in Sections /\ "answer" \in Sections
BY DEF Sections

LEMMA ReActFed ==
  ASSUME NEW p \in AParser, NEW s \in ASegment PROVE ReAct(p, s) \in Fed
<1> DEFINE settled == EndTool(p) \o EndReasoning(p)
<1>s. s.n \in Names
  BY DEF ASegment
<1>1. settled \in Seq(AnEvent)
  BY OwedEvents, EventLists, Zenon
<1>2. s.k = "thought" => ReAct(p, s) \in Fed
  <2>1. [Enter(p, "thought") EXCEPT !.reasoning = TRUE] \in AParser
    BY ParserMoves, SectionsAre, NamesAre
  <2>2. settled \o <<Event("reasoning_start"), Event("reasoning_delta")>> \in Seq(AnEvent)
    BY <1>1, EventsMade, EventLists, Zenon
  <2> QED
    BY <2>1, <2>2, StepMade, Zenon DEF ReAct
<1>3. s.k = "input" => ReAct(p, s) \in Fed
  <2> DEFINE name == IF p.tool = 0 THEN Anon ELSE p.tool
  <2>1. [p EXCEPT !.section = "input", !.reasoning = FALSE, !.emitted = TRUE] \in AParser
    BY ParserMoves, SectionsAre, NamesAre
  <2>2. name \in Names
    BY ParserFields, NamesAre
  <2> HIDE DEF name
  <2>3. EndReasoning(p) \o <<ToolStart(name, s.n)>> \in Seq(AnEvent)
    BY <1>s, <2>2, OwedEvents, EventsMade, EventLists, Zenon
  <2>4. Step([p EXCEPT !.section = "input", !.reasoning = FALSE, !.emitted = TRUE],
             EndReasoning(p) \o <<ToolStart(name, s.n)>>) \in Fed
    BY <2>1, <2>3, StepMade, Zenon
  <2>5. s.k = "input" => s.k # "thought"
    OBVIOUS
  <2> QED
    BY <2>4, <2>5, Zenon DEF ReAct, name
<1>4. s.k = "action" => ReAct(p, s) \in Fed
  <2>1. [Enter(p, "action") EXCEPT !.tool = s.n] \in AParser
    BY <1>s, ParserMoves, SectionsAre
  <2>2. Step([Enter(p, "action") EXCEPT !.tool = s.n], settled) \in Fed
    BY <1>1, <2>1, StepMade, Zenon
  <2>3. s.k = "action" => s.k # "thought" /\ s.k # "input"
    OBVIOUS
  <2> QED
    BY <2>2, <2>3, Zenon DEF ReAct
<1>5. s.k = "observation" => ReAct(p, s) \in Fed
  <2> DEFINE e == p.emitted \/ p.tool # 0
             q == [p EXCEPT !.section = "observation", !.reasoning = FALSE, !.emitted = e,
                            !.observed = s.n]
  <2>1. q \in AParser
    <3>1. e \in BOOLEAN
      OBVIOUS
    <3> HIDE DEF e
    <3> QED
      BY <1>s, <3>1, ParserMoves, SectionsAre
  <2>2. Step(q, EndReasoning(p) \o DeferredStart(p)) \in Fed
    BY <2>1, OwedEvents, EventLists, StepMade, Zenon
  <2>3. s.k = "observation" => s.k # "thought" /\ s.k # "input" /\ s.k # "action"
    OBVIOUS
  <2> QED
    BY <2>2, <2>3, Zenon DEF ReAct
<1>6. s.k = "answer" => ReAct(p, s) \in Fed
  <2>1. Step(Enter(p, "answer"), settled \o <<Event("text")>>) \in Fed
    BY <1>1, ParserMoves, SectionsAre, NamesAre, EventsMade, EventLists, StepMade
  <2>2. s.k = "answer" => s.k # "thought" /\ s.k # "input" /\ s.k # "action" /\ s.k # "observation"
    OBVIOUS
  <2> QED
    BY <2>1, <2>2, Zenon DEF ReAct
<1>7. s.k \notin {"thought", "input", "action", "observation", "answer"} => ReAct(p, s) \in Fed
  <2>1. Step(p, Prose(p)) \in Fed
    BY OwedEvents, StepMade, Zenon
  <2>2. s.k \notin {"thought", "input", "action", "observation", "answer"} =>
          s.k # "thought" /\ s.k # "input" /\ s.k # "action" /\ s.k # "observation" /\ s.k # "answer"
    OBVIOUS
  <2> QED
    BY <2>1, <2>2, Zenon DEF ReAct
<1> QED
  BY <1>2, <1>3, <1>4, <1>5, <1>6, <1>7

\* A line that is split is fed part by part.
SplitBy == [x \in Fed \X ASegment |-> SplitNext(x[1], x[2])]
LEMMA SplitByTyped ==
  /\ SplitBy \in [Fed \X ASegment -> Fed]
  /\ \A a \in Fed, b \in ASegment : SplitBy[<<a, b>>] = SplitNext(a, b)
<1>1. ASSUME NEW acc \in Fed, NEW s \in ASegment PROVE SplitNext(acc, s) \in Fed
  <2>1. acc.p \in AParser /\ acc.ev \in Seq(AnEvent)
    BY DEF Fed
  <2>2. Step(acc.p, Append(acc.ev, Event("text"))) \in Fed
    BY <2>1, EventsMade, EventLists, StepMade, Zenon
  <2>3. PICK one \in Fed : one = ReAct(acc.p, s)
    BY <2>1, ReActFed
  <2>4. one.p \in AParser /\ one.ev \in Seq(AnEvent)
    BY DEF Fed
  <2>5. Step(one.p, acc.ev \o one.ev) \in Fed
    BY <2>1, <2>4, EventLists, StepMade, Zenon
  <2> QED
    BY <2>2, <2>3, <2>5 DEF SplitNext
<1> QED
  BY <1>1 DEF SplitBy

LEMMA SplitFolds ==
  ASSUME NEW base \in Fed, NEW seq \in Seq(ASegment)
  PROVE  FoldsTo(Fed, SplitBy, base, seq, FoldLeft(SplitNext, base, seq)) /\ FoldLeft(SplitNext, base, seq) \in Fed
<1> DEFINE n == Len(seq)
           Round(f) == [s \in SUBSET DOMAIN seq |->
                          IF s = {} THEN base ELSE LET x == Max(s) IN SplitNext(f[s \ {x}], seq[x])]
           iter == CHOOSE f : f = Round(f)
<1>1. FoldLeft(SplitNext, base, seq) = iter[DOMAIN seq]
  BY DEF FoldLeft, MapThenFoldSet
<1>d. DOMAIN seq = 1 .. n /\ n \in Nat /\ \A k \in 1 .. n : seq[k] \in ASegment
  OBVIOUS
<1>2. SplitBy \in [Fed \X ASegment -> Fed] /\ \A a \in Fed, b \in ASegment : SplitBy[<<a, b>>] = SplitNext(a, b)
  BY SplitByTyped
<1>f. SplitBy \in [Fed \X ASegment -> Fed]
  BY <1>2
<1>3. PICK g : IsFold(g, Fed, SplitBy, base, seq)
  BY <1>f, FoldExists, Zenon
<1>4. /\ g \in [SUBSET (1 .. n) -> Fed]
      /\ \A s \in SUBSET (1 .. n) : g[s] = IF s = {} THEN base ELSE SplitBy[<<g[s \ {Max(s)}], seq[Max(s)]>>]
  BY <1>3 DEF IsFold
<1>5. g = Round(g)
  <2>1. ASSUME NEW s \in SUBSET (1 .. n), s # {}
        PROVE  SplitBy[<<g[s \ {Max(s)}], seq[Max(s)]>>] = SplitNext(g[s \ {Max(s)}], seq[Max(s)])
    <3>1. Max(s) \in 1 .. n
      BY <2>1, <1>d, GreatestPlace, Zenon
    <3>2. seq[Max(s)] \in ASegment /\ g[s \ {Max(s)}] \in Fed
      BY <3>1, <1>4, <1>d
    <3> QED
      BY <3>2, <1>2
  <2> HIDE DEF n
  <2>2. g = [s \in SUBSET (1 .. n) |-> g[s]]
    BY <1>4
  <2>3. \A s \in SUBSET (1 .. n) :
          g[s] = IF s = {} THEN base ELSE LET x == Max(s) IN SplitNext(g[s \ {x}], seq[x])
    BY <1>4, <2>1
  <2> QED
    BY <1>d, <2>2, <2>3
<1>6. iter = Round(iter)
  BY <1>5
<1> HIDE DEF iter
<1>7. \A s \in SUBSET (1 .. n) :
        iter[s] = IF s = {} THEN base ELSE LET x == Max(s) IN SplitNext(iter[s \ {x}], seq[x])
  BY <1>6, <1>d
<1>8. iter[{}] = base
  BY <1>7
<1>9. ASSUME NEW k \in 1 .. n, iter[(1 .. k) \ {k}] \in Fed
      PROVE  iter[1 .. k] = SplitBy[<<iter[(1 .. k) \ {k}], seq[k]>>]
  <2>1. 1 .. k \in SUBSET (1 .. n) /\ 1 .. k # {} /\ Max(1 .. k) = k
    BY <1>d, PlacesUpTo, Zenon
  <2>2. iter[1 .. k] = SplitNext(iter[(1 .. k) \ {k}], seq[k])
    BY <1>7, <2>1
  <2> QED
    BY <1>2, <1>9, <1>d, <2>2
<1>10. FoldsTo(Fed, SplitBy, base, seq, iter[1 .. n])
  BY <1>f, <1>8, <1>9, FoldTaken
<1>11. FoldsTo(Fed, SplitBy, base, seq, FoldLeft(SplitNext, base, seq))
  BY <1>1, <1>10, <1>d
<1> QED
  BY <1>11, FoldEnds

LEMMA SplitFed ==
  ASSUME NEW p \in AParser, NEW line \in Seq(ASegment)
  PROVE  SplitFeed(p, line) \in Fed /\ FoldsTo(Fed, SplitBy, Step(p, <<>>), line, SplitFeed(p, line))
<1>1. Step(p, <<>>) \in Fed
  BY EventLists, StepMade, Zenon
<1> QED
  BY <1>1, SplitFolds DEF SplitFeed

LEMMA SmallCodeFed ==
  ASSUME NEW p \in AParser, NEW s \in ASegment PROVE SmallCode(p, s) \in Fed
<1>n. s.n \in Names /\ 0 \in Names /\ TRUE \in BOOLEAN /\ FALSE \in BOOLEAN
  BY NamesAre DEF ASegment
<1> DEFINE idle == [p EXCEPT !.pending = 0]
           closing == s.k # "diff close"
           ticked == s.k = "tick"
           touched == IF ticked THEN s.n ELSE 0
           cut == IF p.pending # 0 THEN <<ToolEnd(FALSE, 0, 0)>> ELSE <<>>
<1>b. closing \in BOOLEAN /\ ticked \in BOOLEAN /\ touched \in Names
  BY <1>n
<1>1. /\ idle \in AParser /\ [p EXCEPT !.pending = s.n] \in AParser
      /\ [p EXCEPT !.diff = TRUE] \in AParser /\ [p EXCEPT !.diff = closing] \in AParser
  <2> HIDE DEF closing
  <2> QED
    BY <1>n, <1>b, ParserMoves, SectionsAre
<1>2. cut \in Seq(AnEvent)
  <2>1. <<ToolEnd(FALSE, 0, 0)>> \in Seq(AnEvent)
    BY <1>n, EventsMade, EventLists, Zenon
  <2> HIDE DEF ToolEnd
  <2> QED
    BY <2>1, EventLists
<1> HIDE DEF idle, closing, ticked, touched, cut
<1>3. Step(p, <<>>) \in Fed
  BY EventLists, StepMade, Zenon
<1>4. Step([p EXCEPT !.diff = TRUE], <<>>) \in Fed
  BY <1>1, EventLists, StepMade, Zenon
<1>5. Step([p EXCEPT !.diff = closing], <<>>) \in Fed
  BY <1>1, EventLists, StepMade, Zenon
<1>6. Step(idle, <<ToolEnd(TRUE, s.n, s.n)>>) \in Fed
  BY <1>1, <1>n, EventsMade, EventLists, StepMade, Zenon
<1>7. Step(idle, <<ToolStart(Anon, 0), ToolEnd(TRUE, 0, s.n)>>) \in Fed
  <2>1. ToolStart(Anon, 0) \in AnEvent /\ ToolEnd(TRUE, 0, s.n) \in AnEvent
    BY <1>n, NamesAre, EventsMade, Zenon
  <2> QED
    BY <1>1, <2>1, EventLists, StepMade, Zenon
<1>8. Step([p EXCEPT !.pending = s.n], cut \o <<ToolStart(s.n, 0)>>) \in Fed
  <2>1. <<ToolStart(s.n, 0)>> \in Seq(AnEvent)
    BY <1>n, EventsMade, EventLists, Zenon
  <2> QED
    BY <1>1, <1>2, <2>1, EventLists, StepMade, Zenon
<1>9. Step(idle, <<ToolEnd(ticked, touched, s.n)>>) \in Fed
  BY <1>1, <1>n, <1>b, EventsMade, EventLists, StepMade, Zenon
<1>10. Step(p, <<Event("text")>>) \in Fed
  BY EventsMade, EventLists, StepMade, Zenon
<1>11. CASE s.k = "summary"
  BY <1>3, <1>5, <1>11, Zenon DEF SmallCode, closing
<1>12. CASE s.k = "diff open"
  BY <1>4, <1>12, Zenon DEF SmallCode
<1>13. CASE s.k # "summary" /\ s.k # "diff open" /\ p.diff
  <2>1. CASE s.k = "edited"
    BY <1>5, <1>6, <1>13, <2>1, Zenon DEF SmallCode, closing, idle
  <2>2. CASE s.k = "shell"
    BY <1>5, <1>7, <1>13, <2>2, Zenon DEF SmallCode, closing, idle
  <2>3. CASE s.k = "gear"
    BY <1>5, <1>8, <1>13, <2>3, Zenon DEF SmallCode, closing, cut
  <2>4. CASE s.k \in {"tick", "cross"}
    BY <1>5, <1>9, <1>13, <2>4, Zenon DEF SmallCode, closing, idle, ticked, touched
  <2>5. CASE s.k \notin {"edited", "shell", "gear", "tick", "cross"}
    BY <1>5, <1>13, <2>5, Zenon DEF SmallCode, closing
  <2> QED
    BY <2>1, <2>2, <2>3, <2>4, <2>5
<1>14. CASE s.k = "edited" /\ ~p.diff
  BY <1>6, <1>14, Zenon DEF SmallCode, idle
<1>15. CASE s.k = "shell" /\ ~p.diff
  BY <1>7, <1>15, Zenon DEF SmallCode, idle
<1>16. CASE s.k = "gear" /\ ~p.diff
  BY <1>8, <1>16, Zenon DEF SmallCode, cut
<1>17. CASE s.k \in {"tick", "cross"} /\ p.pending # 0 /\ ~p.diff
  BY <1>9, <1>17, Zenon DEF SmallCode, idle, ticked, touched
<1>18. CASE /\ s.k \notin {"summary", "diff open", "edited", "shell", "gear"} /\ ~p.diff
            /\ ~(s.k \in {"tick", "cross"} /\ p.pending # 0)
  BY <1>10, <1>18, Zenon DEF SmallCode
<1> QED
  BY <1>11, <1>12, <1>13, <1>14, <1>15, <1>16, <1>17, <1>18

LEMMA MarkersFed ==
  ASSUME NEW s \in ASegment PROVE Protocol(s) \in Seq(AnEvent) /\ ReActExtras(s) \in Seq(AnEvent)
<1>n. s.n \in Names /\ 0 \in Names /\ TRUE \in BOOLEAN /\ FALSE \in BOOLEAN
  BY NamesAre DEF ASegment
<1>1. /\ ToolStart(s.n, s.n) \in AnEvent /\ ToolEnd(TRUE, s.n, s.n) \in AnEvent
      /\ ToolEnd(FALSE, s.n, s.n) \in AnEvent /\ ToolEnd(TRUE, s.n, 0) \in AnEvent
  BY <1>n, EventsMade, Zenon
<1>2. /\ <<ToolStart(s.n, s.n)>> \in Seq(AnEvent) /\ <<ToolEnd(TRUE, s.n, s.n)>> \in Seq(AnEvent)
      /\ <<ToolEnd(FALSE, s.n, s.n)>> \in Seq(AnEvent)
      /\ <<ToolStart(s.n, s.n), ToolEnd(TRUE, s.n, s.n)>> \in Seq(AnEvent)
      /\ <<ToolStart(s.n, s.n), ToolEnd(FALSE, s.n, s.n)>> \in Seq(AnEvent)
      /\ <<ToolStart(s.n, s.n), ToolEnd(TRUE, s.n, 0)>> \in Seq(AnEvent)
      /\ <<Event("text")>> \in Seq(AnEvent)
  BY <1>1, EventsMade, EventLists, Zenon
<1> HIDE DEF ToolStart, ToolEnd, Event
<1>3. Protocol(s) \in Seq(AnEvent)
  BY <1>2, EventLists, Zenon DEF Protocol
<1>4. ReActExtras(s) \in Seq(AnEvent)
  BY <1>2, Zenon DEF ReActExtras
<1> QED
  BY <1>3, <1>4

\* Whatever an agent prints, its parser stays one and makes events.
LEMMA LinesFed ==
  ASSUME NEW d, NEW p \in AParser, NEW line \in Seq(ASegment) \ {<<>>} PROVE Feed(d, p, line) \in Fed
<1>h. Head(line) \in ASegment /\ line \in Seq(ASegment)
  OBVIOUS
<1>1. Step(p, Protocol(Head(line))) \in Fed /\ Step(p, ReActExtras(Head(line))) \in Fed
  BY <1>h, MarkersFed, StepMade, Zenon
<1>2. SmallCode(p, Head(line)) \in Fed
  BY <1>h, SmallCodeFed, Zenon
<1>3. ReActFeed(p, line) \in Fed
  <2>1. ReAct(p, Head(line)) \in Fed /\ SplitFeed(p, line) \in Fed
    BY <1>h, ReActFed, SplitFed, Zenon
  <2> QED
    BY <2>1, Zenon DEF ReActFeed
<1> QED
  BY <1>1, <1>2, <1>3, Zenon DEF Feed

LEMMA FlushFed == ASSUME NEW d, NEW p \in AParser PROVE Flush(d, p) \in Seq(AnEvent)
<1>1. EndTool(p) \o EndReasoning(p) \in Seq(AnEvent)
  BY OwedEvents, EventLists, Zenon
<1>2. <<ToolEnd(FALSE, 0, 0)>> \in Seq(AnEvent)
  BY NamesAre, EventsMade, EventLists
<1> QED
  BY <1>1, <1>2, EventLists, Zenon DEF Flush

-----------------------------------------------------------------------------
(* The rows.                                                               *)

ViewOf(rs, tool, thought) == [rows |-> rs, tool |-> tool, thought |-> thought]

LEMMA ViewFields ==
  \A v \in AView : /\ v.rows \in Seq(ARow) /\ v.tool \in 0 .. Len(v.rows)
                   /\ v.thought \in 0 .. Len(v.rows) /\ Len(v.rows) \in Nat
                   /\ v = ViewOf(v.rows, v.tool, v.thought)
BY DEF AView, ViewOf

LEMMA ViewMade ==
  ASSUME NEW rs \in Seq(ARow), NEW tool \in 0 .. Len(rs), NEW thought \in 0 .. Len(rs)
  PROVE  ViewOf(rs, tool, thought) \in AView
BY DEF AView, ViewOf

LEMMA RowsMade ==
  /\ \A n, m \in Names : /\ Row("tool", n, m, "running") \in ARow /\ Row("tool", n, m, "done") \in ARow
                         /\ Row("reasoning", n, m, "running") \in ARow
  /\ \A w \in ARow : /\ w.path \in Names /\ w.preview \in Names
                     /\ [w EXCEPT !.status = "done"] \in ARow /\ [w EXCEPT !.status = "failed"] \in ARow
                     /\ \A n, m \in Names : /\ [w EXCEPT !.preview = n] \in ARow
                                            /\ [w EXCEPT !.path = n] \in ARow
BY NamesAre DEF Row, ARow

LEMMA RowReplaced ==
  ASSUME NEW rs \in Seq(ARow), NEW i \in 1 .. Len(rs), NEW w \in ARow
  PROVE  [rs EXCEPT ![i] = w] \in Seq(ARow) /\ Len([rs EXCEPT ![i] = w]) = Len(rs)
OBVIOUS

LEMMA RowAdded ==
  ASSUME NEW rs \in Seq(ARow), NEW w \in ARow
  PROVE  Append(rs, w) \in Seq(ARow) /\ Len(Append(rs, w)) = Len(rs) + 1
OBVIOUS

LEMMA ReasoningClosed == \A v \in AView : CloseReasoning(v) \in AView
<1> SUFFICES ASSUME NEW v \in AView PROVE CloseReasoning(v) \in AView
  OBVIOUS
<1> DEFINE rs == v.rows
           i == v.thought
           w == [rs[i] EXCEPT !.status = "done"]
<1>1. /\ rs \in Seq(ARow) /\ v.tool \in 0 .. Len(rs) /\ i \in 0 .. Len(rs) /\ Len(rs) \in Nat
      /\ v = ViewOf(rs, v.tool, i)
  BY ViewFields
<1>2. CASE i # 0
  <2>1. i \in 1 .. Len(rs)
    BY <1>1, <1>2
  <2>2. w \in ARow
    <3>1. rs[i] \in ARow
      BY <1>1, <2>1
    <3> QED
      BY <3>1, RowsMade
  <2>3. CloseReasoning(v) = ViewOf([rs EXCEPT ![i] = w], v.tool, 0)
    BY <1>1, <1>2, <2>1 DEF CloseReasoning, ViewOf
  <2> HIDE DEF w, rs, i
  <2>4. [rs EXCEPT ![i] = w] \in Seq(ARow) /\ Len([rs EXCEPT ![i] = w]) = Len(rs)
    BY <1>1, <2>1, <2>2, RowReplaced
  <2>5. v.tool \in 0 .. Len([rs EXCEPT ![i] = w]) /\ 0 \in 0 .. Len([rs EXCEPT ![i] = w])
    BY <1>1, <2>4
  <2> QED
    BY <2>3, <2>4, <2>5, ViewMade
<1>3. CASE i = 0
  BY <1>3 DEF CloseReasoning
<1> QED
  BY <1>2, <1>3

LEMMA ReasoningOpened == \A v \in AView : OpenReasoning(v) \in AView
<1> SUFFICES ASSUME NEW v \in AView PROVE OpenReasoning(v) \in AView
  OBVIOUS
<1> DEFINE rs == v.rows
           more == Append(rs, Row("reasoning", 0, 0, "running"))
<1>1. /\ rs \in Seq(ARow) /\ v.tool \in 0 .. Len(rs) /\ Len(rs) \in Nat
      /\ v = ViewOf(rs, v.tool, v.thought)
  BY ViewFields
<1>2. more \in Seq(ARow) /\ Len(more) = Len(rs) + 1
  <2> HIDE DEF rs
  <2> QED
    BY <1>1, RowsMade, RowAdded, NamesAre
<1>3. CASE v.thought = 0
  <2>1. OpenReasoning(v) = ViewOf(more, v.tool, Len(rs) + 1)
    BY <1>1, <1>3 DEF OpenReasoning, ViewOf
  <2> HIDE DEF more, rs
  <2>2. v.tool \in 0 .. Len(more) /\ Len(rs) + 1 \in 0 .. Len(more)
    BY <1>1, <1>2
  <2> QED
    BY <2>1, <2>2, <1>2, ViewMade
<1>4. CASE v.thought # 0
  BY <1>4 DEF OpenReasoning
<1> QED
  BY <1>3, <1>4

LEMMA ToolAdded == \A v \in AView, e \in AnEvent : AddTool(v, e) \in AView
<1> SUFFICES ASSUME NEW v \in AView, NEW e \in AnEvent PROVE AddTool(v, e) \in AView
  OBVIOUS
<1> DEFINE rs == v.rows
           w == Row("tool", e.name, e.path, "running")
           more == Append(rs, w)
<1>1. /\ rs \in Seq(ARow) /\ v.thought \in 0 .. Len(rs) /\ Len(rs) \in Nat
      /\ v = ViewOf(rs, v.tool, v.thought)
  BY ViewFields
<1>2. more \in Seq(ARow) /\ Len(more) = Len(rs) + 1
  <2>1. e.name \in Names /\ e.path \in Names
    BY DEF AnEvent
  <2> HIDE DEF rs
  <2> QED
    BY <1>1, <2>1, RowsMade, RowAdded
<1>3. AddTool(v, e) = ViewOf(more, Len(rs) + 1, v.thought)
  <2>1. AddTool(v, e) = [v EXCEPT !.rows = more, !.tool = Len(rs) + 1]
    BY DEF AddTool
  <2> HIDE DEF w
  <2> QED
    BY <1>1, <2>1 DEF ViewOf
<1> HIDE DEF more, rs
<1>4. v.thought \in 0 .. Len(more) /\ Len(rs) + 1 \in 0 .. Len(more)
  BY <1>1, <1>2
<1> QED
  BY <1>2, <1>3, <1>4, ViewMade

LEMMA ToolEnded == \A v \in AView, e \in AnEvent : ApplyToolEnd(v, e) \in AView
<1> SUFFICES ASSUME NEW v \in AView, NEW e \in AnEvent PROVE ApplyToolEnd(v, e) \in AView
  OBVIOUS
<1> DEFINE rs == v.rows
           i == v.tool
           w == rs[i]
           w1 == [w EXCEPT !.status = IF e.ok THEN "done" ELSE "failed"]
           w2 == [w1 EXCEPT !.preview = IF e.preview # 0 THEN e.preview ELSE @]
           w3 == [w2 EXCEPT !.path = IF e.path # 0 THEN e.path ELSE @]
<1>1. /\ rs \in Seq(ARow) /\ v.thought \in 0 .. Len(rs) /\ i \in 0 .. Len(rs) /\ Len(rs) \in Nat
      /\ v = ViewOf(rs, i, v.thought)
  BY ViewFields
<1>2. CASE i # 0
  <2>1. i \in 1 .. Len(rs)
    BY <1>1, <1>2
  <2>2. w \in ARow /\ e.preview \in Names /\ e.path \in Names
    BY <1>1, <2>1 DEF AnEvent
  <2>3. w3 \in ARow
    <3>1. w1 \in ARow
      BY <2>2, RowsMade
    <3> HIDE DEF w1
    <3>2. w2 \in ARow
      BY <2>2, <3>1, RowsMade
    <3> HIDE DEF w2
    <3> QED
      BY <2>2, <3>2, RowsMade
  <2>4. ApplyToolEnd(v, e) = ViewOf([rs EXCEPT ![i] = w3], 0, v.thought)
    BY <1>1, <1>2, <2>1, <2>2 DEF ApplyToolEnd, ViewOf, ARow
  <2> HIDE DEF w3, rs, i
  <2>5. [rs EXCEPT ![i] = w3] \in Seq(ARow) /\ Len([rs EXCEPT ![i] = w3]) = Len(rs)
    BY <1>1, <2>1, <2>3, RowReplaced
  <2>6. v.thought \in 0 .. Len([rs EXCEPT ![i] = w3]) /\ 0 \in 0 .. Len([rs EXCEPT ![i] = w3])
    BY <1>1, <2>5
  <2> QED
    BY <2>4, <2>5, <2>6, ViewMade
<1>3. CASE i = 0
  BY <1>3 DEF ApplyToolEnd
<1> QED
  BY <1>2, <1>3

LEMMA EventApplied ==
  ASSUME NEW v \in AView, NEW e \in AnEvent PROVE Apply(v, e) \in AView /\ Drained(v, e) \in AView
<1>1. CloseReasoning(v) \in AView
  BY ReasoningClosed
<1>2. /\ AddTool(CloseReasoning(v), e) \in AView /\ ApplyToolEnd(v, e) \in AView
      /\ OpenReasoning(CloseReasoning(v)) \in AView /\ OpenReasoning(v) \in AView
  BY <1>1, ToolAdded, ToolEnded, ReasoningOpened, Zenon
<1>3. e.type = "tool_start" => Apply(v, e) \in AView
  BY <1>2, Zenon DEF Apply
<1>4. e.type = "tool_end" => Apply(v, e) \in AView
  BY <1>2, Zenon DEF Apply
<1>5. e.type = "reasoning_start" => Apply(v, e) \in AView
  BY <1>2, Zenon DEF Apply
<1>6. e.type = "reasoning_delta" => Apply(v, e) \in AView
  BY <1>2, Zenon DEF Apply
<1>7. e.type \notin {"tool_start", "tool_end", "reasoning_start", "reasoning_delta"} =>
        Apply(v, e) \in AView
  BY <1>1, Zenon DEF Apply
<1>8. Apply(v, e) \in AView
  BY <1>3, <1>4, <1>5, <1>6, <1>7
<1> QED
  BY <1>8 DEF Drained

\* What a sequence of events makes of the rows.
AppliedBy == [x \in AView \X AnEvent |-> Apply(x[1], x[2])]
LEMMA AppliedByTyped ==
  /\ AppliedBy \in [AView \X AnEvent -> AView]
  /\ \A a \in AView, b \in AnEvent : AppliedBy[<<a, b>>] = Apply(a, b)
<1>1. \A v \in AView, e \in AnEvent : Apply(v, e) \in AView
  BY EventApplied
<1> QED
  BY <1>1 DEF AppliedBy

LEMMA EventsApplied ==
  ASSUME NEW base \in AView, NEW seq \in Seq(AnEvent)
  PROVE  FoldsTo(AView, AppliedBy, base, seq, FoldLeft(Apply, base, seq)) /\ FoldLeft(Apply, base, seq) \in AView
<1> DEFINE n == Len(seq)
           Round(f) == [s \in SUBSET DOMAIN seq |->
                          IF s = {} THEN base ELSE LET x == Max(s) IN Apply(f[s \ {x}], seq[x])]
           iter == CHOOSE f : f = Round(f)
<1>1. FoldLeft(Apply, base, seq) = iter[DOMAIN seq]
  BY DEF FoldLeft, MapThenFoldSet
<1>d. DOMAIN seq = 1 .. n /\ n \in Nat /\ \A k \in 1 .. n : seq[k] \in AnEvent
  OBVIOUS
<1>2. AppliedBy \in [AView \X AnEvent -> AView] /\ \A a \in AView, b \in AnEvent : AppliedBy[<<a, b>>] = Apply(a, b)
  BY AppliedByTyped
<1>f. AppliedBy \in [AView \X AnEvent -> AView]
  BY <1>2
<1>3. PICK g : IsFold(g, AView, AppliedBy, base, seq)
  BY <1>f, FoldExists, Zenon
<1>4. /\ g \in [SUBSET (1 .. n) -> AView]
      /\ \A s \in SUBSET (1 .. n) : g[s] = IF s = {} THEN base ELSE AppliedBy[<<g[s \ {Max(s)}], seq[Max(s)]>>]
  BY <1>3 DEF IsFold
<1>5. g = Round(g)
  <2>1. ASSUME NEW s \in SUBSET (1 .. n), s # {}
        PROVE  AppliedBy[<<g[s \ {Max(s)}], seq[Max(s)]>>] = Apply(g[s \ {Max(s)}], seq[Max(s)])
    <3>1. Max(s) \in 1 .. n
      BY <2>1, <1>d, GreatestPlace, Zenon
    <3>2. seq[Max(s)] \in AnEvent /\ g[s \ {Max(s)}] \in AView
      BY <3>1, <1>4, <1>d
    <3> QED
      BY <3>2, <1>2
  <2> HIDE DEF n
  <2>2. g = [s \in SUBSET (1 .. n) |-> g[s]]
    BY <1>4
  <2>3. \A s \in SUBSET (1 .. n) :
          g[s] = IF s = {} THEN base ELSE LET x == Max(s) IN Apply(g[s \ {x}], seq[x])
    BY <1>4, <2>1
  <2> QED
    BY <1>d, <2>2, <2>3
<1>6. iter = Round(iter)
  BY <1>5
<1> HIDE DEF iter
<1>7. \A s \in SUBSET (1 .. n) :
        iter[s] = IF s = {} THEN base ELSE LET x == Max(s) IN Apply(iter[s \ {x}], seq[x])
  BY <1>6, <1>d
<1>8. iter[{}] = base
  BY <1>7
<1>9. ASSUME NEW k \in 1 .. n, iter[(1 .. k) \ {k}] \in AView
      PROVE  iter[1 .. k] = AppliedBy[<<iter[(1 .. k) \ {k}], seq[k]>>]
  <2>1. 1 .. k \in SUBSET (1 .. n) /\ 1 .. k # {} /\ Max(1 .. k) = k
    BY <1>d, PlacesUpTo, Zenon
  <2>2. iter[1 .. k] = Apply(iter[(1 .. k) \ {k}], seq[k])
    BY <1>7, <2>1
  <2> QED
    BY <1>2, <1>9, <1>d, <2>2
<1>10. FoldsTo(AView, AppliedBy, base, seq, iter[1 .. n])
  BY <1>f, <1>8, <1>9, FoldTaken
<1>11. FoldsTo(AView, AppliedBy, base, seq, FoldLeft(Apply, base, seq))
  BY <1>1, <1>10, <1>d
<1> QED
  BY <1>11, FoldEnds

DrainedBy == [x \in AView \X AnEvent |-> Drained(x[1], x[2])]
LEMMA DrainedByTyped ==
  /\ DrainedBy \in [AView \X AnEvent -> AView]
  /\ \A a \in AView, b \in AnEvent : DrainedBy[<<a, b>>] = Drained(a, b)
<1>1. \A v \in AView, e \in AnEvent : Drained(v, e) \in AView
  BY EventApplied
<1> QED
  BY <1>1 DEF DrainedBy

LEMMA EventsDrained ==
  ASSUME NEW base \in AView, NEW seq \in Seq(AnEvent)
  PROVE  FoldsTo(AView, DrainedBy, base, seq, FoldLeft(Drained, base, seq)) /\ FoldLeft(Drained, base, seq) \in AView
<1> DEFINE n == Len(seq)
           Round(f) == [s \in SUBSET DOMAIN seq |->
                          IF s = {} THEN base ELSE LET x == Max(s) IN Drained(f[s \ {x}], seq[x])]
           iter == CHOOSE f : f = Round(f)
<1>1. FoldLeft(Drained, base, seq) = iter[DOMAIN seq]
  BY DEF FoldLeft, MapThenFoldSet
<1>d. DOMAIN seq = 1 .. n /\ n \in Nat /\ \A k \in 1 .. n : seq[k] \in AnEvent
  OBVIOUS
<1>2. DrainedBy \in [AView \X AnEvent -> AView] /\ \A a \in AView, b \in AnEvent : DrainedBy[<<a, b>>] = Drained(a, b)
  BY DrainedByTyped
<1>f. DrainedBy \in [AView \X AnEvent -> AView]
  BY <1>2
<1>3. PICK g : IsFold(g, AView, DrainedBy, base, seq)
  BY <1>f, FoldExists, Zenon
<1>4. /\ g \in [SUBSET (1 .. n) -> AView]
      /\ \A s \in SUBSET (1 .. n) : g[s] = IF s = {} THEN base ELSE DrainedBy[<<g[s \ {Max(s)}], seq[Max(s)]>>]
  BY <1>3 DEF IsFold
<1>5. g = Round(g)
  <2>1. ASSUME NEW s \in SUBSET (1 .. n), s # {}
        PROVE  DrainedBy[<<g[s \ {Max(s)}], seq[Max(s)]>>] = Drained(g[s \ {Max(s)}], seq[Max(s)])
    <3>1. Max(s) \in 1 .. n
      BY <2>1, <1>d, GreatestPlace, Zenon
    <3>2. seq[Max(s)] \in AnEvent /\ g[s \ {Max(s)}] \in AView
      BY <3>1, <1>4, <1>d
    <3> QED
      BY <3>2, <1>2
  <2> HIDE DEF n
  <2>2. g = [s \in SUBSET (1 .. n) |-> g[s]]
    BY <1>4
  <2>3. \A s \in SUBSET (1 .. n) :
          g[s] = IF s = {} THEN base ELSE LET x == Max(s) IN Drained(g[s \ {x}], seq[x])
    BY <1>4, <2>1
  <2> QED
    BY <1>d, <2>2, <2>3
<1>6. iter = Round(iter)
  BY <1>5
<1> HIDE DEF iter
<1>7. \A s \in SUBSET (1 .. n) :
        iter[s] = IF s = {} THEN base ELSE LET x == Max(s) IN Drained(iter[s \ {x}], seq[x])
  BY <1>6, <1>d
<1>8. iter[{}] = base
  BY <1>7
<1>9. ASSUME NEW k \in 1 .. n, iter[(1 .. k) \ {k}] \in AView
      PROVE  iter[1 .. k] = DrainedBy[<<iter[(1 .. k) \ {k}], seq[k]>>]
  <2>1. 1 .. k \in SUBSET (1 .. n) /\ 1 .. k # {} /\ Max(1 .. k) = k
    BY <1>d, PlacesUpTo, Zenon
  <2>2. iter[1 .. k] = Drained(iter[(1 .. k) \ {k}], seq[k])
    BY <1>7, <2>1
  <2> QED
    BY <1>2, <1>9, <1>d, <2>2
<1>10. FoldsTo(AView, DrainedBy, base, seq, iter[1 .. n])
  BY <1>f, <1>8, <1>9, FoldTaken
<1>11. FoldsTo(AView, DrainedBy, base, seq, FoldLeft(Drained, base, seq))
  BY <1>1, <1>10, <1>d
<1> QED
  BY <1>11, FoldEnds

LEMMA RowClosed ==
  \A w \in ARow : ClosedRow(w) \in ARow /\ ClosedRow(w).status # "running"
BY DEF ClosedRow, ARow

\* Closing leaves as many rows, and none that runs.
LEMMA RowsClosed ==
  ASSUME NEW rs \in Seq(ARow)
  PROVE  /\ Closed(rs) \in Seq(ARow) /\ Len(Closed(rs)) = Len(rs)
         /\ \A i \in DOMAIN Closed(rs) : Closed(rs)[i].status # "running"
<1>1. DOMAIN rs = 1 .. Len(rs) /\ Len(rs) \in Nat /\ \A i \in 1 .. Len(rs) : rs[i] \in ARow
  OBVIOUS
<1>2. \A i \in 1 .. Len(rs) : /\ Closed(rs)[i] = IF IsRunning(rs[i]) THEN ClosedRow(rs[i]) ELSE rs[i]
                              /\ Closed(rs)[i] \in ARow /\ Closed(rs)[i].status # "running"
  BY <1>1, RowClosed DEF Closed, IsRunning
<1>3. Closed(rs) \in [1 .. Len(rs) -> ARow]
  BY <1>1, <1>2 DEF Closed
<1> HIDE DEF Closed
<1> QED
  BY <1>1, <1>2, <1>3

LEMMA FileRowsMade ==
  ASSUME NEW rs \in Seq(ARow), NEW n \in 0 .. Calls, NEW changed \in SUBSET (1 .. n)
  PROVE  /\ FileRows(rs, changed) \in Seq(ARow) /\ Len(FileRows(rs, changed)) >= Len(rs)
         /\ \E more \in Seq(ARow) : /\ FileRows(rs, changed) = rs \o more
                                   /\ \A i \in 1 .. Len(more) : more[i].name = 0
<1> DEFINE S == changed \ ToldAbove(rs)
           c == Cardinality(S)
           missing == SetToSeq(S)
           more == [i \in DOMAIN missing |-> Row("tool", 0, missing[i], "done")]
<1>1. S \subseteq 1 .. n /\ n \in Nat /\ \A k \in 1 .. n : k \in Names
  <2>1. Calls \in Nat /\ n \in Nat /\ n <= Calls
    BY NamesAre
  <2>2. \A k \in 1 .. n : k \in 0 .. Calls
    BY <2>1
  <2>3. \A k \in 1 .. n : k \in Names
    BY <2>2, NamesAre
  <2> QED
    BY <2>1, <2>3
<1>2. IsFiniteSet(S)
  BY <1>1, FS_Interval, FS_Subset
<1> HIDE DEF S
<1>3. missing \in [1 .. c -> S] /\ c \in Nat
  BY <1>2, SetListed
<1> HIDE DEF c, missing
<1>4. \A i \in 1 .. c : Row("tool", 0, missing[i], "done") \in ARow
  <2>1. \A i \in 1 .. c : missing[i] \in Names
    BY <1>1, <1>3
  <2> QED
    BY <2>1, RowsMade, NamesAre
<1>5. more \in [1 .. c -> ARow] /\ \A i \in 1 .. c : more[i].name = 0
  BY <1>3, <1>4 DEF Row
<1> HIDE DEF more
<1>6. more \in Seq(ARow) /\ Len(more) = c
  BY <1>3, <1>5
<1>7. rs \o more \in Seq(ARow) /\ Len(rs \o more) = Len(rs) + Len(more) /\ Len(more) \in Nat /\ Len(rs) \in Nat
  BY <1>6
<1>8. FileRows(rs, changed) = rs \o more
  BY DEF FileRows, more, missing, S
<1> QED
  BY <1>5, <1>6, <1>7, <1>8

-----------------------------------------------------------------------------
(* The rows of runs.                                                       *)

Showings == {"none", "live", "stopped", "flushed", "draining", "over"}
Currents == [tool : Nat, thought : Nat]
TimelineShape ==
  /\ speaks \in [Runs -> Dialects \cup {"nothing"}] /\ lines \in 0 .. MaxLines
  /\ shown \in [Runs -> Showings] /\ stage \in [Runs -> Stages]
  /\ told \in [Runs -> Tellings] /\ parser \in [Runs -> AParser]
  /\ rows \in [Runs -> Seq(ARow)] /\ current \in [Runs -> Currents]
  /\ \A r \in Runs : current[r].tool <= Len(rows[r]) /\ current[r].thought <= Len(rows[r])
TimelineInv == TimelineShape /\ RowsSettled

LEMMA TimelineShapeIsType == TimelineShape => TimelineTypeOK
<1> SUFFICES ASSUME TimelineShape PROVE TimelineTypeOK
  OBVIOUS
<1>1. ASSUME NEW r \in Runs
      PROVE  /\ shown[r] \in {"none", "live", "stopped", "flushed", "draining", "over"}
             /\ stage[r] \in {"free", "observed", "answer", "diff"}
             /\ \A i \in DOMAIN told[r] : told[r][i] \in {"open", "input", "ok", "fail", "cut", "shell"}
             /\ current[r].tool \in 0 .. Len(rows[r]) /\ current[r].thought \in 0 .. Len(rows[r])
             /\ \A i \in DOMAIN rows[r] :
                  /\ rows[r][i].role \in {"tool", "reasoning"}
                  /\ rows[r][i].status \in {"running", "done", "failed"}
                  /\ {rows[r][i].name, rows[r][i].path, rows[r][i].preview} \subseteq Names
  <2>1. shown[r] \in Showings /\ stage[r] \in Stages
    BY DEF TimelineShape
  <2>2. told[r] \in Seq(Fates)
    BY DEF TimelineShape, Tellings
  <2>3. rows[r] \in Seq(ARow) /\ Len(rows[r]) \in Nat
    BY DEF TimelineShape
  <2>4. /\ current[r].tool \in Nat /\ current[r].thought \in Nat
        /\ current[r].tool <= Len(rows[r]) /\ current[r].thought <= Len(rows[r])
    BY DEF TimelineShape, Currents
  <2>5. \A i \in DOMAIN told[r] : told[r][i] \in Fates
    BY <2>2
  <2>6. \A i \in DOMAIN rows[r] : rows[r][i] \in ARow
    BY <2>3
  <2>7. \A w \in ARow : /\ w.role \in {"tool", "reasoning"}
                        /\ w.status \in {"running", "done", "failed"}
                        /\ {w.name, w.path, w.preview} \subseteq Names
    BY DEF ARow
  <2>8. current[r].tool \in 0 .. Len(rows[r]) /\ current[r].thought \in 0 .. Len(rows[r])
    BY <2>3, <2>4
  <2> QED
    BY <2>1, <2>5, <2>6, <2>7, <2>8 DEF Showings, Stages, Fates
<1> QED
  BY <1>1 DEF TimelineShape, TimelineTypeOK

LEMMA TimelineBegins == TimelineInit => TimelineInv
<1> SUFFICES ASSUME TimelineInit PROVE TimelineInv
  OBVIOUS
<1>1. Fresh \in AParser
  BY NamesAre DEF Fresh, AParser, Sections
<1>2. <<>> \in Tellings /\ <<>> \in Seq(ARow) /\ Len(<<>>) = 0
  BY NamesAre DEF Tellings
<1>3. Idle \in Currents /\ Idle.tool = 0 /\ Idle.thought = 0
  BY DEF Idle, Currents
<1>4. "free" \in Stages /\ "none" \in Showings /\ MaxLines \in Nat /\ "none" # "over"
  BY TimelineConstants DEF Stages, Showings
<1>5. speaks \in [Runs -> Dialects \cup {"nothing"}] /\ lines \in 0 .. MaxLines
  BY <1>4 DEF TimelineInit
<1>6. /\ shown \in [Runs -> Showings] /\ stage \in [Runs -> Stages] /\ told \in [Runs -> Tellings]
      /\ parser \in [Runs -> AParser] /\ rows \in [Runs -> Seq(ARow)] /\ current \in [Runs -> Currents]
  BY <1>1, <1>2, <1>3, <1>4, Zenon DEF TimelineInit
<1>7. \A r \in Runs : current[r].tool = 0 /\ current[r].thought = 0 /\ Len(rows[r]) = 0 /\ shown[r] # "over"
  BY <1>2, <1>3, <1>4, Zenon DEF TimelineInit
<1>8. \A r \in Runs : current[r].tool <= Len(rows[r]) /\ current[r].thought <= Len(rows[r])
  BY <1>7
<1> QED
  BY <1>5, <1>6, <1>7, <1>8 DEF TimelineInv, TimelineShape, RowsSettled

\* Closing what runs of every run.
LEMMA AllClosed ==
  ASSUME NEW all \in [Runs -> Seq(ARow)]
  PROVE  /\ CloseRunningTools(all) \in [Runs -> Seq(ARow)]
         /\ \A r \in Runs : /\ Len(CloseRunningTools(all)[r]) = Len(all[r])
                            /\ \A i \in DOMAIN CloseRunningTools(all)[r] :
                                 CloseRunningTools(all)[r][i].status # "running"
<1>1. \A r \in Runs : CloseRunningTools(all)[r] = Closed(all[r]) /\ all[r] \in Seq(ARow)
  BY DEF CloseRunningTools
<1>2. \A r \in Runs : /\ Closed(all[r]) \in Seq(ARow) /\ Len(Closed(all[r])) = Len(all[r])
                      /\ \A i \in DOMAIN Closed(all[r]) : Closed(all[r])[i].status # "running"
  BY <1>1, RowsClosed
<1>3. CloseRunningTools(all) \in [Runs -> Seq(ARow)]
  BY <1>2 DEF CloseRunningTools
<1> HIDE DEF CloseRunningTools
<1> QED
  BY <1>1, <1>2, <1>3

LEMMA CurrentView ==
  ASSUME TimelineShape, NEW r \in Runs, NEW rs \in Seq(ARow), Len(rs) = Len(rows[r])
  PROVE  View(rs, current[r]) \in AView
BY DEF TimelineShape, Currents, View, AView

LEMMA OutputKeeps == ASSUME TimelineInv, NEW r \in Runs, OnOutput(r) PROVE TimelineInv'
<1> USE DEF TimelineInv
<1>1. PICK say \in Speech(r) :
        LET fed == Feed(speaks[r], parser[r], say.line)
            view == FoldLeft(Apply, View(rows[r], current[r]), fed.ev)
        IN /\ told' = [told EXCEPT ![r] = say.told]
           /\ stage' = [stage EXCEPT ![r] = say.stage]
           /\ parser' = [parser EXCEPT ![r] = fed.p]
           /\ rows' = [rows EXCEPT ![r] = view.rows]
           /\ current' = [current EXCEPT ![r] = [tool |-> view.tool, thought |-> view.thought]]
  BY DEF OnOutput
<1> DEFINE fed == Feed(speaks[r], parser[r], say.line)
           view == FoldLeft(Apply, View(rows[r], current[r]), fed.ev)
           cur == [tool |-> view.tool, thought |-> view.thought]
<1>2. /\ told' = [told EXCEPT ![r] = say.told] /\ stage' = [stage EXCEPT ![r] = say.stage]
      /\ parser' = [parser EXCEPT ![r] = fed.p] /\ rows' = [rows EXCEPT ![r] = view.rows]
      /\ current' = [current EXCEPT ![r] = cur]
  BY <1>1
<1>s. /\ speaks' = speaks /\ shown' = shown /\ lines' = lines + 1 /\ shown[r] = "live" /\ lines < MaxLines
  BY DEF OnOutput
<1>3. say \in ASaying
  BY SpeechIsSaid DEF TimelineShape
<1>4. say.line \in Seq(ASegment) \ {<<>>} /\ say.told \in Tellings /\ say.stage \in Stages
  BY <1>3 DEF ASaying
<1>5. fed \in Fed
  <2>1. parser[r] \in AParser
    BY DEF TimelineShape
  <2> QED
    BY <2>1, <1>4, LinesFed
<1> HIDE DEF fed
<1>6. fed.p \in AParser /\ fed.ev \in Seq(AnEvent)
  BY <1>5 DEF Fed
<1>7. view \in AView
  <2>1. View(rows[r], current[r]) \in AView
    BY CurrentView DEF TimelineShape
  <2> QED
    BY <1>6, <2>1, EventsApplied
<1> HIDE DEF view
<1>8. view.rows \in Seq(ARow) /\ cur \in Currents /\ cur.tool <= Len(view.rows) /\ cur.thought <= Len(view.rows)
  BY <1>7 DEF AView, Currents
<1> HIDE DEF cur
<1>9. lines' \in 0 .. MaxLines
  BY <1>s, TimelineConstants DEF TimelineShape
<1>10. \A o \in Runs : current'[o].tool <= Len(rows'[o]) /\ current'[o].thought <= Len(rows'[o])
  <2> SUFFICES ASSUME NEW o \in Runs
               PROVE  current'[o].tool <= Len(rows'[o]) /\ current'[o].thought <= Len(rows'[o])
    OBVIOUS
  <2>1. CASE o = r
    <3>1. current'[o] = cur /\ rows'[o] = view.rows
      BY <1>2, <2>1 DEF TimelineShape
    <3> QED
      BY <1>8, <3>1
  <2>2. CASE o # r
    <3>1. current'[o] = current[o] /\ rows'[o] = rows[o]
      BY <1>2, <2>2 DEF TimelineShape
    <3> QED
      BY <3>1 DEF TimelineShape
  <2> QED
    BY <2>1, <2>2
<1>11. /\ told' \in [Runs -> Tellings] /\ stage' \in [Runs -> Stages] /\ parser' \in [Runs -> AParser]
       /\ rows' \in [Runs -> Seq(ARow)] /\ current' \in [Runs -> Currents]
  BY <1>2, <1>4, <1>6, <1>8 DEF TimelineShape
<1>12. speaks' \in [Runs -> Dialects \cup {"nothing"}] /\ shown' \in [Runs -> Showings]
  BY <1>s DEF TimelineShape
<1>13. RowsSettled'
  <2> SUFFICES ASSUME NEW o \in Runs, shown'[o] = "over"
               PROVE  \A i \in DOMAIN rows'[o] : rows'[o][i].status # "running"
    BY DEF RowsSettled
  <2>1. o # r /\ shown[o] = "over"
    BY <1>s
  <2>2. rows'[o] = rows[o]
    BY <1>2, <2>1 DEF TimelineShape
  <2> QED
    BY <2>1, <2>2 DEF RowsSettled
<1> QED
  BY <1>9, <1>10, <1>11, <1>12, <1>13 DEF TimelineShape

LEMMA LaunchKeeps == ASSUME TimelineInv, NEW r \in Runs, Launch(r) PROVE TimelineInv'
<1> USE DEF TimelineInv
<1>1. PICK d \in Dialects : speaks' = [speaks EXCEPT ![r] = d]
  BY DEF Launch
<1>2. speaks' \in [Runs -> Dialects \cup {"nothing"}]
  BY <1>1 DEF TimelineShape
<1>3. shown' = [shown EXCEPT ![r] = "live"] /\ shown' \in [Runs -> Showings]
  BY DEF Launch, TimelineShape, Showings
<1>4. UNCHANGED <<lines, told, stage, parser, rows, current>>
  BY DEF Launch
<1>5. \A o \in Runs : shown'[o] = "over" => shown[o] = "over"
  BY <1>3 DEF TimelineShape
<1>6. RowsSettled'
  BY <1>4, <1>5 DEF RowsSettled
<1> QED
  BY <1>2, <1>3, <1>4, <1>6 DEF TimelineShape

\* After a step that closed every row.
LEMMA ClosedKeeps ==
  ASSUME TimelineInv, NEW all \in [Runs -> Seq(ARow)], \A r \in Runs : Len(all[r]) >= Len(rows[r]),
         rows' = CloseRunningTools(all), shown' \in [Runs -> Showings],
         UNCHANGED <<speaks, told, stage, lines, parser, current>>
  PROVE  TimelineInv'
<1>1. /\ rows' \in [Runs -> Seq(ARow)]
      /\ \A r \in Runs : /\ Len(rows'[r]) = Len(all[r])
                         /\ \A i \in DOMAIN rows'[r] : rows'[r][i].status # "running"
  BY AllClosed
<1>2. \A r \in Runs : /\ Len(rows[r]) \in Nat /\ Len(all[r]) \in Nat
                      /\ current[r].tool \in Nat /\ current[r].thought \in Nat
                      /\ current[r].tool <= Len(rows[r]) /\ current[r].thought <= Len(rows[r])
  BY DEF TimelineInv, TimelineShape, Currents
<1>3. \A r \in Runs : current'[r].tool <= Len(rows'[r]) /\ current'[r].thought <= Len(rows'[r])
  BY <1>1, <1>2
<1>4. RowsSettled'
  BY <1>1 DEF RowsSettled
<1> QED
  BY <1>1, <1>3, <1>4 DEF TimelineInv, TimelineShape

LEMMA StopKeeps == ASSUME TimelineInv, NEW r \in Runs, StopShown(r) PROVE TimelineInv'
<1>1. shown' \in [Runs -> Showings]
  BY DEF StopShown, TimelineInv, TimelineShape, Showings
<1>2. /\ rows' = CloseRunningTools(rows) /\ UNCHANGED <<speaks, told, stage, lines, parser, current>>
      /\ rows \in [Runs -> Seq(ARow)] /\ \A o \in Runs : Len(rows[o]) >= Len(rows[o])
  BY DEF StopShown, TimelineInv, TimelineShape
<1> QED
  BY <1>1, <1>2, ClosedKeeps

LEMMA TearDownKeeps == ASSUME TimelineInv, NEW r \in Runs, TearDown(r) PROVE TimelineInv'
<1>1. PICK changed \in SUBSET (1 .. Len(told[r])) :
        rows' = CloseRunningTools([rows EXCEPT ![r] = FileRows(@, changed)])
  BY DEF TearDown
<1> DEFINE all == [rows EXCEPT ![r] = FileRows(@, changed)]
<1>2. Len(told[r]) \in 0 .. Calls /\ rows \in [Runs -> Seq(ARow)] /\ rows[r] \in Seq(ARow)
  BY TellingsGoOn DEF TimelineInv, TimelineShape
<1>3. FileRows(rows[r], changed) \in Seq(ARow) /\ Len(FileRows(rows[r], changed)) >= Len(rows[r])
  BY <1>2, FileRowsMade
<1>4. all \in [Runs -> Seq(ARow)] /\ \A o \in Runs : all[o] = IF o = r THEN FileRows(rows[r], changed) ELSE rows[o]
  BY <1>2, <1>3
<1>5. rows' = CloseRunningTools(all)
  BY <1>1
<1> HIDE DEF all
<1>6. ASSUME NEW o \in Runs PROVE Len(all[o]) >= Len(rows[o])
  <2>1. CASE o = r
    BY <1>3, <1>4, <2>1
  <2>2. CASE o # r
    <3>1. all[o] = rows[o] /\ rows[o] \in Seq(ARow)
      BY <1>2, <1>4, <2>2
    <3> QED
      BY <3>1
  <2> QED
    BY <2>1, <2>2
<1>7. shown' \in [Runs -> Showings] /\ UNCHANGED <<speaks, told, stage, lines, parser, current>>
  BY DEF TearDown, TimelineInv, TimelineShape, Showings
<1> QED
  BY <1>4, <1>5, <1>6, <1>7, ClosedKeeps

LEMMA DrainKeeps == ASSUME TimelineInv, NEW r \in Runs, Drain(r) PROVE TimelineInv'
<1> USE DEF TimelineInv
<1> DEFINE before == IF shown[r] = "stopped" THEN CloseRunningTools(rows) ELSE rows
           ev == Flush(speaks[r], parser[r])
           view == CloseReasoning(FoldLeft(Drained, View(before[r], current[r]), ev))
<1>1. /\ rows' = [before EXCEPT ![r] = view.rows] /\ current' = [current EXCEPT ![r] = Idle]
      /\ shown' = [shown EXCEPT ![r] = IF @ = "live" THEN "flushed" ELSE "draining"]
      /\ UNCHANGED <<speaks, told, stage, lines, parser>>
  BY DEF Drain
<1>2. /\ before \in [Runs -> Seq(ARow)] /\ \A o \in Runs : Len(before[o]) = Len(rows[o])
      /\ \A o \in Runs : shown[o] = "over" =>
           \A i \in DOMAIN before[o] : before[o][i].status # "running"
  <2>1. CASE shown[r] = "stopped"
    <3>1. before = CloseRunningTools(rows) /\ rows \in [Runs -> Seq(ARow)]
      BY <2>1 DEF TimelineShape
    <3> HIDE DEF before
    <3> QED
      BY <3>1, AllClosed
  <2>2. CASE shown[r] # "stopped"
    BY <2>2 DEF TimelineShape, RowsSettled
  <2> QED
    BY <2>1, <2>2
<1> HIDE DEF before
<1>3. ev \in Seq(AnEvent)
  <2>1. parser[r] \in AParser
    BY DEF TimelineShape
  <2> QED
    BY <2>1, FlushFed
<1> HIDE DEF ev
<1>4. view \in AView
  <2>1. View(before[r], current[r]) \in AView
    BY <1>2, CurrentView
  <2>2. FoldLeft(Drained, View(before[r], current[r]), ev) \in AView
    BY <1>3, <2>1, EventsDrained
  <2> QED
    BY <2>2, ReasoningClosed
<1> HIDE DEF view
<1>5. view.rows \in Seq(ARow) /\ Len(view.rows) \in Nat /\ Idle \in Currents /\ Idle.tool = 0 /\ Idle.thought = 0
  BY <1>4 DEF AView, Currents, Idle
<1>6. rows' \in [Runs -> Seq(ARow)] /\ current' \in [Runs -> Currents]
  BY <1>1, <1>2, <1>5 DEF TimelineShape
<1>7. shown' \in [Runs -> Showings] /\ shown'[r] # "over" /\ \A o \in Runs : o # r => shown'[o] = shown[o]
  BY <1>1 DEF TimelineShape, Showings
<1>8. \A o \in Runs : current'[o].tool <= Len(rows'[o]) /\ current'[o].thought <= Len(rows'[o])
  <2> SUFFICES ASSUME NEW o \in Runs
               PROVE  current'[o].tool <= Len(rows'[o]) /\ current'[o].thought <= Len(rows'[o])
    OBVIOUS
  <2>1. CASE o = r
    <3>1. current'[o] = Idle /\ rows'[o] = view.rows
      BY <1>1, <1>2, <2>1 DEF TimelineShape
    <3> QED
      BY <1>5, <3>1
  <2>2. CASE o # r
    <3>1. current'[o] = current[o] /\ rows'[o] = before[o] /\ Len(before[o]) = Len(rows[o])
      BY <1>1, <1>2, <2>2 DEF TimelineShape
    <3> QED
      BY <3>1 DEF TimelineShape
  <2> QED
    BY <2>1, <2>2
<1>9. RowsSettled'
  <2> SUFFICES ASSUME NEW o \in Runs, shown'[o] = "over"
               PROVE  \A i \in DOMAIN rows'[o] : rows'[o][i].status # "running"
    BY DEF RowsSettled
  <2>1. o # r /\ shown[o] = "over"
    BY <1>7
  <2>2. rows'[o] = before[o]
    BY <1>1, <1>2, <2>1
  <2> QED
    BY <1>2, <2>1, <2>2
<1> QED
  BY <1>1, <1>6, <1>7, <1>8, <1>9 DEF TimelineShape

LEMMA TimelineStep ==
  ASSUME TimelineInv, [TimelineNext]_timelineVars PROVE TimelineInv'
<1>1. ASSUME NEW r \in Runs, Launch(r) PROVE TimelineInv'
  BY <1>1, LaunchKeeps
<1>2. ASSUME NEW r \in Runs, OnOutput(r) PROVE TimelineInv'
  BY <1>2, OutputKeeps
<1>3. ASSUME NEW r \in Runs, StopShown(r) PROVE TimelineInv'
  BY <1>3, StopKeeps
<1>4. ASSUME NEW r \in Runs, Drain(r) PROVE TimelineInv'
  BY <1>4, DrainKeeps
<1>5. ASSUME NEW r \in Runs, TearDown(r) PROVE TimelineInv'
  BY <1>5, TearDownKeeps
<1>6. CASE UNCHANGED timelineVars
  BY <1>6 DEF timelineVars, TimelineInv, TimelineShape, RowsSettled
<1> QED
  BY <1>1, <1>2, <1>3, <1>4, <1>5, <1>6 DEF TimelineNext

\* Once the handler of a run has ended, none of the run's rows is shown as
\* running, whatever the agents printed, whenever they were stopped and however
\* many runs share the session (closeRunningTools in detach).
THEOREM RowsSettleDown == TimelineSpec => []RowsSettled
<1>1. TimelineInv => RowsSettled
  BY DEF TimelineInv
<1> QED
  BY <1>1, TimelineBegins, TimelineStep, PTL DEF TimelineSpec

-----------------------------------------------------------------------------
(* The rows that tell calls, one by one.                                   *)

LEMMA NumbersAre ==
  ASSUME NEW S \in SUBSET Nat, IsFiniteSet(S)
  PROVE  /\ Cardinality(S) \in Nat
         /\ \A i \in S : Number(S, i) \in 1 .. Cardinality(S)
         /\ \A i, j \in S : i < j => Number(S, i) < Number(S, j)
<1> DEFINE Up(i) == {j \in S : j <= i}
<1>1. ASSUME NEW i \in S
      PROVE  IsFiniteSet(Up(i)) /\ Cardinality(Up(i)) \in Nat /\ Cardinality(Up(i)) <= Cardinality(S)
  <2>1. Up(i) \in SUBSET S
    OBVIOUS
  <2> HIDE DEF Up
  <2> QED
    BY <2>1, FS_Subset, FS_CardinalityType
<1>2. ASSUME NEW i \in S PROVE Cardinality(Up(i)) # 0
  <2>1. i \in Up(i)
    OBVIOUS
  <2> HIDE DEF Up
  <2> QED
    BY <1>1, <2>1, FS_EmptySet
<1>3. ASSUME NEW i \in S, NEW j \in S, i < j PROVE Cardinality(Up(i)) < Cardinality(Up(j))
  <2>1. Up(i) \in SUBSET Up(j) /\ j \in Up(j) /\ j \notin Up(i)
    <3>1. i \in Nat /\ j \in Nat
      OBVIOUS
    <3>2. \A x \in S : x <= i => x <= j
      <4>1. \A x \in S : x \in Nat
        OBVIOUS
      <4> QED
        BY <1>3, <3>1, <4>1
    <3>3. \A x \in Up(i) : x \in Up(j)
      BY <3>2, Zenon
    <3>4. j <= j /\ ~(j <= i)
      BY <1>3, <3>1
    <3>5. j \in Up(j) /\ j \notin Up(i)
      BY <3>4, Zenon
    <3> HIDE DEF Up
    <3> QED
      BY <3>3, <3>5
  <2> HIDE DEF Up
  <2>2. Cardinality(Up(i)) <= Cardinality(Up(j)) /\ Cardinality(Up(i)) # Cardinality(Up(j))
    BY <1>1, <2>1, FS_Subset
  <2> QED
    BY <1>1, <2>2
<1>4. Cardinality(S) \in Nat
  BY FS_CardinalityType
<1>5. \A i \in S : Number(S, i) = Cardinality(Up(i))
  BY DEF Number
<1> HIDE DEF Up
<1>6. \A i \in S : Number(S, i) \in 1 .. Cardinality(S)
  BY <1>1, <1>2, <1>4, <1>5
<1> QED
  BY <1>3, <1>4, <1>5, <1>6

\* Every number up to how many there are is that of one of them, which Nth finds.
LEMMA NthIs ==
  ASSUME NEW S \in SUBSET Nat, IsFiniteSet(S)
  PROVE  /\ \A k \in 1 .. Cardinality(S) : Nth(S, k) \in S /\ Number(S, Nth(S, k)) = k
         /\ \A i \in S : Nth(S, Number(S, i)) = i
<1> DEFINE n == Cardinality(S)
           f == [i \in S |-> Number(S, i)]
<1>1. /\ n \in Nat /\ \A i \in S : Number(S, i) \in 1 .. n
      /\ \A i, j \in S : i < j => Number(S, i) < Number(S, j)
  BY NumbersAre
<1>2. ASSUME NEW i \in S, NEW j \in S, Number(S, i) = Number(S, j) PROVE i = j
  <2>1. i \in Nat /\ j \in Nat
    OBVIOUS
  <2>2. CASE i < j
    BY <1>1, <1>2, <2>2
  <2>3. CASE j < i
    BY <1>1, <1>2, <2>3
  <2> QED
    BY <2>1, <2>2, <2>3
<1>3. f \in Injection(S, 1 .. n)
  BY <1>1, <1>2 DEF Injection, IsInjective
<1>4. IsFiniteSet(1 .. n) /\ Cardinality(1 .. n) = n
  BY <1>1, FS_Interval
<1>5. f \in Surjection(S, 1 .. n)
  <2> HIDE DEF f, n
  <2> QED
    BY <1>3, <1>4, FS_Injection DEF n
<1>6. \A k \in 1 .. n : \E i \in S : Number(S, i) = k
  BY <1>5 DEF Surjection
<1>7. \A k \in 1 .. n : Nth(S, k) \in S /\ Number(S, Nth(S, k)) = k
  BY <1>6 DEF Nth
<1>8. \A i \in S : Nth(S, Number(S, i)) = i
  BY <1>1, <1>2, <1>7
<1> QED
  BY <1>7, <1>8

\* One more, beyond all of them.
LEMMA OneMorePlace ==
  ASSUME NEW S \in SUBSET Nat, IsFiniteSet(S), NEW m \in Nat, \A i \in S : i < m
  PROVE  /\ Cardinality(S \cup {m}) = Cardinality(S) + 1
         /\ Nth(S \cup {m}, Cardinality(S) + 1) = m
         /\ \A k \in 1 .. Cardinality(S) : Nth(S \cup {m}, k) = Nth(S, k)
<1> DEFINE T == S \cup {m}
           n == Cardinality(S)
<1>1. m \notin S /\ n \in Nat /\ T \in SUBSET Nat
  BY FS_CardinalityType
<1>2. IsFiniteSet(T) /\ Cardinality(T) = n + 1
  BY <1>1, FS_AddElement
<1>3. \A i \in S : Number(T, i) = Number(S, i)
  <2>1. \A i \in S : {j \in T : j <= i} = {j \in S : j <= i}
    OBVIOUS
  <2> QED
    BY <2>1 DEF Number
<1>4. Number(T, m) = n + 1
  <2>1. {j \in T : j <= m} = T
    <3>1. \A j \in S : j \in Nat /\ j < m
      OBVIOUS
    <3>2. \A j \in T : j <= m
      BY <3>1
    <3> HIDE DEF T
    <3> QED
      BY <3>2
  <2> QED
    BY <1>2, <2>1 DEF Number
<1>5. \A i \in T : Nth(T, Number(T, i)) = i
  <2> HIDE DEF T
  <2> QED
    BY <1>1, <1>2, NthIs
<1>6. Nth(T, n + 1) = m
  BY <1>4, <1>5
<1>7. ASSUME NEW k \in 1 .. n PROVE Nth(T, k) = Nth(S, k)
  <2>1. Nth(S, k) \in S /\ Number(S, Nth(S, k)) = k
    BY NthIs
  <2>2. Nth(T, Number(T, Nth(S, k))) = Nth(S, k)
    BY <1>5, <2>1
  <2> QED
    BY <1>3, <2>1, <2>2
<1> QED
  BY <1>2, <1>6, <1>7

\* What a row tells of its call once nothing runs any more.
CallIs(name, status, preview) == [name |-> name, preview |-> preview, status |-> status]
Gist(w) == CallIs(w.name, IF w.status = "running" THEN "failed" ELSE w.status, w.preview)
ACall == [name : Names, preview : Names, status : {"done", "failed"}]
CallsOf(rs) ==
  [k \in 1 .. Cardinality(CallPlaces(rs)) |-> Gist(rs[Nth(CallPlaces(rs), k)])]
TellsCall(w) == w.role = "tool" /\ w.name # 0

LEMMA CallMade ==
  \A n, m \in Names, s \in {"done", "failed"} :
    /\ CallIs(n, s, m) \in ACall
    /\ CallIs(n, s, m).name = n /\ CallIs(n, s, m).status = s /\ CallIs(n, s, m).preview = m
BY DEF CallIs, ACall

LEMMA PlacesAre ==
  ASSUME NEW rs \in Seq(ARow)
  PROVE  /\ CallPlaces(rs) \in SUBSET Nat /\ IsFiniteSet(CallPlaces(rs))
         /\ Cardinality(CallPlaces(rs)) \in Nat
         /\ \A i : i \in CallPlaces(rs) <=> i \in 1 .. Len(rs) /\ TellsCall(rs[i])
         /\ \A k \in 1 .. Cardinality(CallPlaces(rs)) : Nth(CallPlaces(rs), k) \in CallPlaces(rs)
<1>1. \A i : i \in CallPlaces(rs) <=> i \in 1 .. Len(rs) /\ TellsCall(rs[i])
  BY DEF CallPlaces, TellsCall
<1>2. Len(rs) \in Nat /\ CallPlaces(rs) \in SUBSET (1 .. Len(rs)) /\ CallPlaces(rs) \in SUBSET Nat
  BY <1>1
<1>3. IsFiniteSet(CallPlaces(rs))
  <2>1. IsFiniteSet(1 .. Len(rs))
    BY <1>2, FS_Interval
  <2> QED
    BY <1>2, <2>1, FS_Subset, Zenon
<1> QED
  BY <1>1, <1>2, <1>3, NthIs, FS_CardinalityType

LEMMA GistIs == \A w \in ARow : Gist(w) \in ACall
BY DEF Gist, CallIs, ARow, ACall

LEMMA CallsTyped ==
  ASSUME NEW rs \in Seq(ARow)
  PROVE  CallsOf(rs) \in Seq(ACall) /\ Len(CallsOf(rs)) = Cardinality(CallPlaces(rs))
<1> DEFINE n == Cardinality(CallPlaces(rs))
<1>1. n \in Nat /\ \A k \in 1 .. n : Nth(CallPlaces(rs), k) \in 1 .. Len(rs)
  BY PlacesAre
<1>2. \A k \in 1 .. n : Gist(rs[Nth(CallPlaces(rs), k)]) \in ACall
  BY <1>1, GistIs
<1>3. CallsOf(rs) = [k \in 1 .. n |-> Gist(rs[Nth(CallPlaces(rs), k)])]
  BY DEF CallsOf
<1> HIDE DEF n
<1>4. CallsOf(rs) \in [1 .. n -> ACall]
  BY <1>2, <1>3
<1> QED
  BY <1>1, <1>4 DEF n

\* A row that tells a call as it did changes nothing.
LEMMA CallsSame ==
  ASSUME NEW rs \in Seq(ARow), NEW more \in Seq(ARow), Len(rs) <= Len(more),
         \A i \in 1 .. Len(rs) : /\ TellsCall(more[i]) <=> TellsCall(rs[i])
                                 /\ TellsCall(rs[i]) => Gist(more[i]) = Gist(rs[i]),
         \A i \in 1 .. Len(more) : i > Len(rs) => ~TellsCall(more[i])
  PROVE  CallPlaces(more) = CallPlaces(rs) /\ CallsOf(more) = CallsOf(rs)
<1>1. Len(rs) \in Nat /\ Len(more) \in Nat
  OBVIOUS
<1>2. \A i : i \in CallPlaces(more) <=> i \in CallPlaces(rs)
  <2> SUFFICES ASSUME NEW i PROVE i \in CallPlaces(more) <=> i \in CallPlaces(rs)
    OBVIOUS
  <2>1. i \in CallPlaces(more) <=> i \in 1 .. Len(more) /\ TellsCall(more[i])
    BY PlacesAre
  <2>2. i \in CallPlaces(rs) <=> i \in 1 .. Len(rs) /\ TellsCall(rs[i])
    BY PlacesAre
  <2> QED
    BY <1>1, <2>1, <2>2
<1>3. CallPlaces(more) = CallPlaces(rs)
  BY <1>2
<1> DEFINE S == CallPlaces(rs)
<1>4. \A k \in 1 .. Cardinality(S) : Nth(S, k) \in 1 .. Len(rs) /\ TellsCall(rs[Nth(S, k)])
  BY PlacesAre
<1>5. \A k \in 1 .. Cardinality(S) : Gist(more[Nth(S, k)]) = Gist(rs[Nth(S, k)])
  BY <1>4
<1>6. /\ CallsOf(rs) = [k \in 1 .. Cardinality(S) |-> Gist(rs[Nth(S, k)])]
      /\ CallsOf(more) = [k \in 1 .. Cardinality(S) |-> Gist(more[Nth(S, k)])]
  BY <1>3 DEF CallsOf
<1> HIDE DEF S
<1> QED
  BY <1>3, <1>5, <1>6

LEMMA CallAdded ==
  ASSUME NEW rs \in Seq(ARow), NEW w \in ARow, TellsCall(w)
  PROVE  /\ CallPlaces(Append(rs, w)) = CallPlaces(rs) \cup {Len(rs) + 1}
         /\ CallsOf(Append(rs, w)) = Append(CallsOf(rs), Gist(w))
<1> DEFINE more == Append(rs, w)
           m == Len(rs) + 1
           S == CallPlaces(rs)
           n == Cardinality(S)
<1>1. /\ Len(rs) \in Nat /\ m \in Nat /\ more \in Seq(ARow) /\ Len(more) = m /\ more[m] = w
      /\ \A i \in 1 .. Len(rs) : more[i] = rs[i]
  OBVIOUS
<1>p. /\ S \in SUBSET Nat /\ IsFiniteSet(S) /\ n \in Nat
      /\ \A i : i \in S <=> i \in 1 .. Len(rs) /\ TellsCall(rs[i])
      /\ \A k \in 1 .. n : Nth(S, k) \in S
  BY PlacesAre
<1> HIDE DEF more
<1>2. CallPlaces(more) = S \cup {m}
  <2>1. \A i : i \in CallPlaces(more) <=> i \in 1 .. m /\ TellsCall(more[i])
    BY <1>1, PlacesAre
  <2>2. \A i : i \in CallPlaces(more) <=> i \in S \/ i = m
    BY <1>1, <1>p, <2>1
  <2> QED
    BY <2>2
<1>3. \A i \in S : i < m
  BY <1>1, <1>p
<1>4. /\ Cardinality(S \cup {m}) = n + 1 /\ Nth(S \cup {m}, n + 1) = m
      /\ \A k \in 1 .. n : Nth(S \cup {m}, k) = Nth(S, k)
  <2> HIDE DEF S, m
  <2> QED
    BY <1>1, <1>p, <1>3, OneMorePlace DEF n
<1>5. CallsOf(rs) = [k \in 1 .. n |-> Gist(rs[Nth(S, k)])]
  BY DEF CallsOf
<1>6. CallsOf(more) = [k \in 1 .. n + 1 |-> Gist(more[Nth(S \cup {m}, k)])]
  BY <1>2, <1>4 DEF CallsOf
<1> HIDE DEF S, n, m
<1>7. /\ \A k \in 1 .. n : CallsOf(more)[k] = CallsOf(rs)[k]
      /\ CallsOf(more)[n + 1] = Gist(w)
  <2>1. ASSUME NEW k \in 1 .. n PROVE CallsOf(more)[k] = CallsOf(rs)[k]
    <3>1. k \in 1 .. n + 1
      BY <1>p
    <3>2. Nth(S \cup {m}, k) = Nth(S, k) /\ Nth(S, k) \in S
      BY <1>p, <1>4
    <3>3. Nth(S, k) \in 1 .. Len(rs)
      BY <1>p, <3>2
    <3> QED
      BY <1>1, <1>5, <1>6, <3>1, <3>2, <3>3
  <2>2. n + 1 \in 1 .. n + 1
    BY <1>p
  <2> QED
    BY <1>1, <1>4, <1>6, <2>1, <2>2
<1>8. CallsOf(rs) \in Seq(ACall) /\ Len(CallsOf(rs)) = n /\ Gist(w) \in ACall
  BY CallsTyped, GistIs DEF n, S
<1>9. CallsOf(more) \in Seq(ACall) /\ Len(CallsOf(more)) = n + 1
  BY <1>1, <1>2, <1>4, CallsTyped
<1>10. CallsOf(more) = Append(CallsOf(rs), Gist(w))
  <2> DEFINE c == CallsOf(more)
             d == Append(CallsOf(rs), Gist(w))
  <2>1. d \in Seq(ACall) /\ Len(d) = n + 1 /\ d[n + 1] = Gist(w) /\ \A k \in 1 .. n : d[k] = CallsOf(rs)[k]
    BY <1>8
  <2>2. c \in Seq(ACall) /\ Len(c) = n + 1
    BY <1>9
  <2>3. \A k \in 1 .. n + 1 : c[k] = d[k]
    BY <1>7, <1>p, <2>1
  <2> HIDE DEF c, d
  <2> QED
    BY <2>1, <2>2, <2>3 DEF c, d
<1> QED
  BY <1>2, <1>10 DEF more, S, m

\* The call told last, told anew.
LEMMA LastCallTold ==
  ASSUME NEW rs \in Seq(ARow), NEW i \in CallPlaces(rs), \A j \in CallPlaces(rs) : j <= i,
         NEW w \in ARow, TellsCall(w)
  PROVE  /\ CallPlaces([rs EXCEPT ![i] = w]) = CallPlaces(rs)
         /\ Len(CallsOf(rs)) \in Nat \ {0} /\ CallsOf(rs)[Len(CallsOf(rs))] = Gist(rs[i])
         /\ CallsOf([rs EXCEPT ![i] = w]) = [CallsOf(rs) EXCEPT ![Len(CallsOf(rs))] = Gist(w)]
<1> DEFINE more == [rs EXCEPT ![i] = w]
           S == CallPlaces(rs)
           n == Cardinality(S)
<1>p. /\ S \in SUBSET Nat /\ IsFiniteSet(S) /\ n \in Nat
      /\ \A j : j \in S <=> j \in 1 .. Len(rs) /\ TellsCall(rs[j])
      /\ \A k \in 1 .. n : Nth(S, k) \in S
  BY PlacesAre
<1>1. i \in 1 .. Len(rs)
  BY <1>p
<1>2. /\ more \in Seq(ARow) /\ Len(more) = Len(rs) /\ more[i] = w
      /\ \A j \in 1 .. Len(rs) : j # i => more[j] = rs[j]
  BY <1>1
<1> HIDE DEF more
<1>3. CallPlaces(more) = S
  <2>1. \A j : j \in CallPlaces(more) <=> j \in 1 .. Len(rs) /\ TellsCall(more[j])
    BY <1>2, PlacesAre
  <2>2. \A j : j \in CallPlaces(more) <=> j \in S
    BY <1>2, <1>p, <2>1
  <2> QED
    BY <2>2
<1>4. Number(S, i) = n /\ n # 0 /\ Nth(S, n) = i
  <2>1. {j \in S : j <= i} = S
    OBVIOUS
  <2>2. Number(S, i) = n
    BY <2>1 DEF Number
  <2>3. Number(S, i) \in 1 .. n /\ Nth(S, Number(S, i)) = i
    <3> HIDE DEF S
    <3> QED
      BY <1>p, NumbersAre, NthIs DEF S
  <2> QED
    BY <1>p, <2>2, <2>3
<1>5. ASSUME NEW k \in 1 .. n, k # n PROVE Nth(S, k) # i
  <2>1. Number(S, Nth(S, k)) = k
    <3> HIDE DEF S
    <3> QED
      BY <1>p, NthIs
  <2> QED
    BY <1>4, <1>5, <2>1
<1>6. /\ CallsOf(rs) = [k \in 1 .. n |-> Gist(rs[Nth(S, k)])]
      /\ CallsOf(more) = [k \in 1 .. n |-> Gist(more[Nth(S, k)])]
  BY <1>3 DEF CallsOf
<1>7. Len(CallsOf(rs)) = n
  BY CallsTyped
<1> HIDE DEF S, n
<1>8. CallsOf(rs)[n] = Gist(rs[i])
  BY <1>4, <1>6, <1>p
<1>9. CallsOf(more) = [CallsOf(rs) EXCEPT ![n] = Gist(w)]
  <2>1. \A k \in 1 .. n : Gist(more[Nth(S, k)]) = IF k = n THEN Gist(w) ELSE Gist(rs[Nth(S, k)])
    <3> SUFFICES ASSUME NEW k \in 1 .. n
                 PROVE  Gist(more[Nth(S, k)]) = IF k = n THEN Gist(w) ELSE Gist(rs[Nth(S, k)])
      OBVIOUS
    <3>1. CASE k = n
      BY <1>2, <1>4, <3>1
    <3>2. CASE k # n
      <4>1. Nth(S, k) \in 1 .. Len(rs) /\ Nth(S, k) # i
        BY <1>p, <1>5, <3>2
      <4> QED
        BY <1>2, <3>2, <4>1
    <3> QED
      BY <3>1, <3>2
  <2>2. n \in 1 .. n
    BY <1>4, <1>p
  <2> HIDE DEF Gist
  <2> QED
    BY <1>6, <2>1, <2>2
<1> QED
  BY <1>3, <1>4, <1>7, <1>8, <1>9, <1>p DEF more, S

-----------------------------------------------------------------------------
(* What events make of the calls that rows tell, whatever else the rows    *)
(* hold: the calls, and whether the last of them is open.                  *)

\* A start is of a call that has a name.
GEvent == {e \in AnEvent : e.type = "tool_start" => e.name # 0}
Account(calls, on) == [calls |-> calls, on |-> on]
AnAccount == {a \in [calls : Seq(ACall), on : BOOLEAN] : a.on => a.calls # <<>>}
WithLast(calls, c) == [calls EXCEPT ![Len(calls)] = c]
Answered(c, e) ==
  CallIs(c.name, IF e.ok THEN "done" ELSE "failed", IF e.preview # 0 THEN e.preview ELSE c.preview)
Ending(a, e) ==
  IF ~a.on THEN a ELSE Account(WithLast(a.calls, Answered(a.calls[Len(a.calls)], e)), FALSE)
Starting(a, e) == Account(Append(a.calls, CallIs(e.name, "failed", 0)), TRUE)
Moved(a, e) ==
  IF e.type = "tool_start" THEN Starting(a, e) ELSE IF e.type = "tool_end" THEN Ending(a, e) ELSE a
Drawn(a, e) == IF e.type = "tool_end" THEN Ending(a, e) ELSE a

LEMMA EventFields ==
  \A e \in AnEvent : /\ e.type \in EventTypes /\ e.name \in Names /\ e.ok \in BOOLEAN
                     /\ e.path \in Names /\ e.preview \in Names
BY DEF AnEvent

LEMMA AccountMade ==
  /\ \A calls \in Seq(ACall), on \in BOOLEAN :
       /\ Account(calls, on).calls = calls /\ Account(calls, on).on = on
       /\ (on => calls # <<>>) => Account(calls, on) \in AnAccount
  /\ \A a \in AnAccount : /\ a.calls \in Seq(ACall) /\ a.on \in BOOLEAN /\ (a.on => a.calls # <<>>)
                          /\ Len(a.calls) \in Nat /\ (a.on => Len(a.calls) # 0)
<1>1. ASSUME NEW calls \in Seq(ACall), NEW on \in BOOLEAN
      PROVE  /\ Account(calls, on).calls = calls /\ Account(calls, on).on = on
             /\ (on => calls # <<>>) => Account(calls, on) \in AnAccount
  BY DEF Account, AnAccount
<1>2. ASSUME NEW a \in AnAccount
      PROVE  /\ a.calls \in Seq(ACall) /\ a.on \in BOOLEAN /\ (a.on => a.calls # <<>>)
             /\ Len(a.calls) \in Nat /\ (a.on => Len(a.calls) # 0)
  <2>1. a.calls \in Seq(ACall) /\ a.on \in BOOLEAN /\ (a.on => a.calls # <<>>)
    BY DEF AnAccount
  <2>2. \A s \in Seq(ACall) : Len(s) \in Nat /\ (s # <<>> => Len(s) # 0)
    OBVIOUS
  <2> QED
    BY <2>1, <2>2
<1> QED
  BY <1>1, <1>2

LEMMA LastMade ==
  ASSUME NEW calls \in Seq(ACall), Len(calls) # 0, NEW c \in ACall
  PROVE  /\ WithLast(calls, c) \in Seq(ACall) /\ Len(WithLast(calls, c)) = Len(calls)
         /\ calls[Len(calls)] \in ACall /\ WithLast(calls, c)[Len(calls)] = c
         /\ WithLast(calls, c) # <<>>
         /\ \A k \in 1 .. Len(calls) : k # Len(calls) => WithLast(calls, c)[k] = calls[k]
BY DEF WithLast

LEMMA CallFields ==
  \A c \in ACall : c.name \in Names /\ c.preview \in Names /\ c.status \in {"done", "failed"}
BY DEF ACall

LEMMA AnsweredMade == \A c \in ACall, e \in AnEvent : Answered(c, e) \in ACall
BY CallFields, EventFields, CallMade DEF Answered

\* What a start makes of an account, and an end.
LEMMA StartMakes ==
  ASSUME NEW a \in AnAccount, NEW e \in AnEvent
  PROVE  /\ Starting(a, e) \in AnAccount /\ Starting(a, e).on
         /\ Starting(a, e).calls = Append(a.calls, CallIs(e.name, "failed", 0))
<1>1. a.calls \in Seq(ACall) /\ CallIs(e.name, "failed", 0) \in ACall
  BY AccountMade, EventFields, NamesAre, CallMade
<1> DEFINE more == Append(a.calls, CallIs(e.name, "failed", 0))
<1>2. more \in Seq(ACall) /\ more # <<>>
  BY <1>1
<1> HIDE DEF more
<1>3. Starting(a, e) = Account(more, TRUE)
  BY DEF Starting, more
<1> QED
  BY <1>2, <1>3, AccountMade DEF more

LEMMA EndMakes ==
  ASSUME NEW a \in AnAccount, NEW e \in AnEvent
  PROVE  /\ Ending(a, e) \in AnAccount /\ ~Ending(a, e).on
         /\ Len(Ending(a, e).calls) = Len(a.calls)
         /\ ~a.on => Ending(a, e) = a
         /\ a.on => /\ Ending(a, e).calls = WithLast(a.calls, Answered(a.calls[Len(a.calls)], e))
                    /\ Ending(a, e).calls[Len(a.calls)] = Answered(a.calls[Len(a.calls)], e)
                    /\ \A k \in 1 .. Len(a.calls) : k # Len(a.calls) => Ending(a, e).calls[k] = a.calls[k]
<1>1. CASE ~a.on
  BY <1>1 DEF Ending
<1>2. CASE a.on
  <2>1. a.calls \in Seq(ACall) /\ Len(a.calls) # 0
    BY <1>2, AccountMade
  <2> DEFINE c == Answered(a.calls[Len(a.calls)], e)
             less == WithLast(a.calls, c)
  <2>2. a.calls[Len(a.calls)] \in ACall
    BY <2>1
  <2>3. c \in ACall
    BY <2>2, AnsweredMade
  <2> HIDE DEF c
  <2>4. /\ less \in Seq(ACall) /\ Len(less) = Len(a.calls) /\ less[Len(a.calls)] = c /\ less # <<>>
        /\ \A k \in 1 .. Len(a.calls) : k # Len(a.calls) => less[k] = a.calls[k]
    BY <2>1, <2>3, LastMade
  <2> HIDE DEF less
  <2>5. Ending(a, e) = Account(less, FALSE)
    BY <1>2 DEF Ending, less, c
  <2>6. Account(less, FALSE) \in AnAccount /\ Account(less, FALSE).calls = less /\ Account(less, FALSE).on = FALSE
    BY <2>4, AccountMade
  <2> QED
    BY <1>2, <2>4, <2>5, <2>6 DEF less, c
<1> QED
  BY <1>1, <1>2

-----------------------------------------------------------------------------
(* The rows being filled are those they should be: what events make of the *)
(* rows is then what they make of the account of the calls.                *)

LastCall(rs, i) == i \in CallPlaces(rs) /\ \A j \in CallPlaces(rs) : j <= i
GoodRows(rs, tool, thought) ==
  /\ tool # 0 => LastCall(rs, tool)
  /\ thought # 0 => rs[thought].role = "reasoning"
Good(v) == GoodRows(v.rows, v.tool, v.thought)
AbsOf(v) == Account(CallsOf(v.rows), v.tool # 0)

LEMMA ViewIs ==
  \A rs, tool, thought :
    /\ ViewOf(rs, tool, thought).rows = rs /\ ViewOf(rs, tool, thought).tool = tool
    /\ ViewOf(rs, tool, thought).thought = thought
    /\ (Good(ViewOf(rs, tool, thought)) <=> GoodRows(rs, tool, thought))
    /\ AbsOf(ViewOf(rs, tool, thought)) = Account(CallsOf(rs), tool # 0)
BY DEF ViewOf, Good, AbsOf

LEMMA AbsMade == \A v \in AView : Good(v) => AbsOf(v) \in AnAccount
<1> SUFFICES ASSUME NEW v \in AView, Good(v) PROVE AbsOf(v) \in AnAccount
  OBVIOUS
<1>1. v.rows \in Seq(ARow)
  BY ViewFields
<1>2. CallsOf(v.rows) \in Seq(ACall) /\ Len(CallsOf(v.rows)) = Cardinality(CallPlaces(v.rows))
  BY <1>1, CallsTyped
<1>3. v.tool # 0 => CallsOf(v.rows) # <<>>
  <2> SUFFICES ASSUME v.tool # 0 PROVE CallsOf(v.rows) # <<>>
    OBVIOUS
  <2>1. v.tool \in CallPlaces(v.rows)
    BY DEF Good, GoodRows, LastCall
  <2>2. IsFiniteSet(CallPlaces(v.rows))
    BY <1>1, PlacesAre
  <2>3. Cardinality(CallPlaces(v.rows)) # 0
    BY <2>1, <2>2, FS_EmptySet
  <2> QED
    BY <1>2, <2>3
<1> QED
  BY <1>2, <1>3, AccountMade DEF AbsOf

LEMMA GoodClosed ==
  \A v \in AView : Good(v) => /\ Good(CloseReasoning(v)) /\ AbsOf(CloseReasoning(v)) = AbsOf(v)
                              /\ CloseReasoning(v).tool = v.tool /\ CloseReasoning(v).thought = 0
<1> SUFFICES ASSUME NEW v \in AView, Good(v)
             PROVE  /\ Good(CloseReasoning(v)) /\ AbsOf(CloseReasoning(v)) = AbsOf(v)
                    /\ CloseReasoning(v).tool = v.tool /\ CloseReasoning(v).thought = 0
  OBVIOUS
<1> DEFINE rs == v.rows
           i == v.thought
           w == [rs[i] EXCEPT !.status = "done"]
           less == [rs EXCEPT ![i] = w]
<1>1. /\ rs \in Seq(ARow) /\ v.tool \in 0 .. Len(rs) /\ i \in 0 .. Len(rs) /\ Len(rs) \in Nat
      /\ v = ViewOf(rs, v.tool, i)
  BY ViewFields
<1>2. CASE i # 0
  <2>1. i \in 1 .. Len(rs)
    BY <1>1, <1>2
  <2>2. rs[i] \in ARow /\ rs[i].role = "reasoning"
    BY <1>1, <1>2, <2>1 DEF Good, GoodRows
  <2>3. w \in ARow /\ w.role = "reasoning"
    BY <2>2, RowsMade DEF ARow
  <2>4. CloseReasoning(v) = ViewOf(less, v.tool, 0)
    BY <1>1, <1>2, <2>1 DEF CloseReasoning, ViewOf
  <2>5. ~TellsCall(rs[i]) /\ ~TellsCall(w)
    BY <2>2, <2>3 DEF TellsCall
  <2> HIDE DEF w
  <2>6. /\ less \in Seq(ARow) /\ Len(less) = Len(rs) /\ less[i] = w
        /\ \A k \in 1 .. Len(rs) : k # i => less[k] = rs[k]
    BY <1>1, <2>1, <2>3
  <2> HIDE DEF less
  <2>7. /\ \A k \in 1 .. Len(rs) : /\ TellsCall(less[k]) <=> TellsCall(rs[k])
                                   /\ TellsCall(rs[k]) => Gist(less[k]) = Gist(rs[k])
        /\ \A k \in 1 .. Len(less) : k > Len(rs) => ~TellsCall(less[k])
    BY <1>1, <2>5, <2>6
  <2> HIDE DEF rs
  <2>8. CallPlaces(less) = CallPlaces(rs) /\ CallsOf(less) = CallsOf(rs)
    BY <1>1, <2>6, <2>7, CallsSame
  <2>9. v.tool # 0 => LastCall(rs, v.tool)
    BY DEF Good, GoodRows, rs
  <2>10. GoodRows(less, v.tool, 0)
    BY <2>8, <2>9 DEF GoodRows, LastCall
  <2> QED
    BY <2>4, <2>8, <2>10, ViewIs DEF AbsOf, rs
<1>3. CASE i = 0
  BY <1>3 DEF CloseReasoning
<1> QED
  BY <1>2, <1>3

\* A row of reasoning or of a file tells no call.
LEMMA NoCallAdded ==
  ASSUME NEW rs \in Seq(ARow), NEW w \in ARow, ~TellsCall(w)
  PROVE  /\ CallPlaces(Append(rs, w)) = CallPlaces(rs) /\ CallsOf(Append(rs, w)) = CallsOf(rs)
<1> DEFINE more == Append(rs, w)
<1>1. /\ Len(rs) \in Nat /\ more \in Seq(ARow) /\ Len(more) = Len(rs) + 1 /\ more[Len(rs) + 1] = w
      /\ \A k \in 1 .. Len(rs) : more[k] = rs[k]
  OBVIOUS
<1> HIDE DEF more
<1>2. /\ \A k \in 1 .. Len(rs) : /\ TellsCall(more[k]) <=> TellsCall(rs[k])
                                 /\ TellsCall(rs[k]) => Gist(more[k]) = Gist(rs[k])
      /\ \A k \in 1 .. Len(more) : k > Len(rs) => ~TellsCall(more[k])
  <2>1. \A k \in 1 .. Len(more) : k > Len(rs) => k = Len(rs) + 1
    BY <1>1
  <2> QED
    BY <1>1, <2>1
<1>3. Len(rs) <= Len(more)
  BY <1>1
<1>4. CallPlaces(more) = CallPlaces(rs) /\ CallsOf(more) = CallsOf(rs)
  BY <1>1, <1>2, <1>3, CallsSame
<1> QED
  BY <1>4 DEF more

LEMMA GoodOpened ==
  \A v \in AView : Good(v) => Good(OpenReasoning(v)) /\ AbsOf(OpenReasoning(v)) = AbsOf(v)
<1> SUFFICES ASSUME NEW v \in AView, Good(v)
             PROVE  Good(OpenReasoning(v)) /\ AbsOf(OpenReasoning(v)) = AbsOf(v)
  OBVIOUS
<1> DEFINE rs == v.rows
           w == Row("reasoning", 0, 0, "running")
           more == Append(rs, w)
<1>1. /\ rs \in Seq(ARow) /\ v.tool \in 0 .. Len(rs) /\ Len(rs) \in Nat
      /\ v = ViewOf(rs, v.tool, v.thought)
  BY ViewFields
<1>2. CASE v.thought = 0
  <2>1. OpenReasoning(v) = ViewOf(more, v.tool, Len(rs) + 1)
    BY <1>1, <1>2 DEF OpenReasoning, ViewOf
  <2>2. w \in ARow /\ w.role = "reasoning" /\ ~TellsCall(w)
    <3>1. w \in ARow
      BY RowsMade, NamesAre
    <3>2. w.role = "reasoning"
      BY DEF Row
    <3> QED
      BY <3>1, <3>2 DEF TellsCall
  <2>3. v.tool # 0 => LastCall(rs, v.tool)
    BY DEF Good, GoodRows
  <2> HIDE DEF rs, w
  <2>4. CallPlaces(more) = CallPlaces(rs) /\ CallsOf(more) = CallsOf(rs) /\ more[Len(rs) + 1] = w
    BY <1>1, <2>2, NoCallAdded
  <2> HIDE DEF more
  <2>5. GoodRows(more, v.tool, Len(rs) + 1)
    BY <2>2, <2>3, <2>4 DEF GoodRows, LastCall
  <2> QED
    BY <2>1, <2>4, <2>5, ViewIs DEF AbsOf, rs
<1>3. CASE v.thought # 0
  BY <1>3 DEF OpenReasoning
<1> QED
  BY <1>2, <1>3

LEMMA GoodAdded ==
  \A v \in AView, e \in GEvent :
    Good(v) /\ v.thought = 0 /\ e.type = "tool_start"
      => Good(AddTool(v, e)) /\ AbsOf(AddTool(v, e)) = Starting(AbsOf(v), e)
<1> SUFFICES ASSUME NEW v \in AView, NEW e \in GEvent, Good(v), v.thought = 0, e.type = "tool_start"
             PROVE  Good(AddTool(v, e)) /\ AbsOf(AddTool(v, e)) = Starting(AbsOf(v), e)
  OBVIOUS
<1> DEFINE rs == v.rows
           w == Row("tool", e.name, e.path, "running")
           more == Append(rs, w)
<1>1. rs \in Seq(ARow) /\ Len(rs) \in Nat /\ v = ViewOf(rs, v.tool, v.thought)
  BY ViewFields
<1>e. e \in AnEvent /\ e.name # 0 /\ e.name \in Names /\ e.path \in Names
  BY EventFields DEF GEvent
<1>2. AddTool(v, e) = ViewOf(more, Len(rs) + 1, 0)
  <2>1. AddTool(v, e) = [v EXCEPT !.rows = more, !.tool = Len(rs) + 1]
    BY DEF AddTool
  <2> HIDE DEF w
  <2> QED
    BY <1>1, <2>1 DEF ViewOf
<1>3. w \in ARow /\ TellsCall(w) /\ Gist(w) = CallIs(e.name, "failed", 0)
  <2>1. w \in ARow
    BY <1>e, RowsMade
  <2>2. w.role = "tool" /\ w.name = e.name /\ w.status = "running" /\ w.preview = 0
    BY DEF Row
  <2> HIDE DEF w
  <2> QED
    BY <1>e, <2>1, <2>2 DEF TellsCall, Gist
<1>4. AbsOf(v).calls = CallsOf(rs)
  BY DEF AbsOf, Account
<1> HIDE DEF rs, w
<1>5. CallPlaces(more) = CallPlaces(rs) \cup {Len(rs) + 1} /\ CallsOf(more) = Append(CallsOf(rs), Gist(w))
  BY <1>1, <1>3, CallAdded
<1> HIDE DEF more
<1>6. \A j \in CallPlaces(rs) : j <= Len(rs) + 1
  <2>1. \A j \in CallPlaces(rs) : j \in 1 .. Len(rs)
    BY <1>1, PlacesAre
  <2> QED
    BY <1>1, <2>1
<1>7. LastCall(more, Len(rs) + 1)
  BY <1>1, <1>5, <1>6 DEF LastCall
<1>8. GoodRows(more, Len(rs) + 1, 0)
  BY <1>7 DEF GoodRows
<1>9. (Len(rs) + 1 # 0) = TRUE
  BY <1>1
<1>10. AbsOf(AddTool(v, e)) = Account(CallsOf(more), Len(rs) + 1 # 0) /\ Good(AddTool(v, e))
  BY <1>2, <1>8, ViewIs
<1>11. AbsOf(AddTool(v, e)) = Account(Append(CallsOf(rs), CallIs(e.name, "failed", 0)), TRUE)
  BY <1>3, <1>5, <1>9, <1>10
<1> QED
  BY <1>4, <1>10, <1>11 DEF Starting

LEMMA GoodEnded ==
  \A v \in AView, e \in AnEvent :
    Good(v) => Good(ApplyToolEnd(v, e)) /\ AbsOf(ApplyToolEnd(v, e)) = Ending(AbsOf(v), e)
<1> SUFFICES ASSUME NEW v \in AView, NEW e \in AnEvent, Good(v)
             PROVE  Good(ApplyToolEnd(v, e)) /\ AbsOf(ApplyToolEnd(v, e)) = Ending(AbsOf(v), e)
  OBVIOUS
<1> DEFINE rs == v.rows
           i == v.tool
           w == rs[i]
           w1 == [w EXCEPT !.status = IF e.ok THEN "done" ELSE "failed"]
           w2 == [w1 EXCEPT !.preview = IF e.preview # 0 THEN e.preview ELSE @]
           w3 == [w2 EXCEPT !.path = IF e.path # 0 THEN e.path ELSE @]
           more == [rs EXCEPT ![i] = w3]
<1>1. /\ rs \in Seq(ARow) /\ v.thought \in 0 .. Len(rs) /\ i \in 0 .. Len(rs) /\ Len(rs) \in Nat
      /\ v = ViewOf(rs, i, v.thought)
  BY ViewFields
<1>a. AbsOf(v).calls = CallsOf(rs) /\ AbsOf(v).on = (i # 0)
  BY DEF AbsOf, Account
<1>2. CASE i # 0
  <2>1. i \in 1 .. Len(rs) /\ LastCall(rs, i)
    BY <1>1, <1>2 DEF Good, GoodRows
  <2>2. w \in ARow /\ e.preview \in Names /\ e.path \in Names /\ e.ok \in BOOLEAN
    BY <1>1, <2>1 DEF AnEvent
  <2>3. w3 \in ARow /\ w3.role = w.role /\ w3.name = w.name
        /\ w3.status = (IF e.ok THEN "done" ELSE "failed")
        /\ w3.preview = (IF e.preview # 0 THEN e.preview ELSE w.preview)
    <3> HIDE DEF w
    <3>1. w1 \in ARow /\ w1.role = w.role /\ w1.name = w.name /\ w1.preview = w.preview
          /\ w1.status = IF e.ok THEN "done" ELSE "failed"
      BY <2>2, RowsMade DEF ARow
    <3> HIDE DEF w1
    <3>2. w2 \in ARow /\ w2.role = w1.role /\ w2.name = w1.name /\ w2.status = w1.status
          /\ w2.preview = IF e.preview # 0 THEN e.preview ELSE w1.preview
      BY <2>2, <3>1, RowsMade DEF ARow
    <3> HIDE DEF w2
    <3>3. w3 \in ARow /\ w3.role = w2.role /\ w3.name = w2.name /\ w3.status = w2.status
          /\ w3.preview = w2.preview
      BY <2>2, <3>2, RowsMade DEF ARow
    <3> HIDE DEF w3
    <3> QED
      BY <3>1, <3>2, <3>3
  <2>4. ApplyToolEnd(v, e) = ViewOf(more, 0, v.thought)
    BY <1>1, <1>2, <2>1, <2>2 DEF ApplyToolEnd, ViewOf, ARow
  <2>5. i \in CallPlaces(rs) /\ (\A j \in CallPlaces(rs) : j <= i) /\ TellsCall(w)
    BY <1>1, <2>1, PlacesAre DEF LastCall
  <2>6. TellsCall(w3)
    BY <2>3, <2>5 DEF TellsCall
  <2>7. Gist(w3) = Answered(Gist(w), e)
    <3>1. w3.status # "running"
      BY <2>3
    <3>2. Gist(w3) = CallIs(w.name, w3.status, w3.preview)
      BY <2>3, <3>1 DEF Gist
    <3>3. Gist(w).name = w.name /\ Gist(w).preview = w.preview
      BY DEF Gist, CallIs
    <3> QED
      BY <2>3, <3>2, <3>3 DEF Answered
  <2>t. v.thought # 0 => rs[v.thought].role = "reasoning"
    BY DEF Good, GoodRows
  <2>n. v.thought # 0 => v.thought # i
    BY <2>5, <2>t DEF TellsCall
  <2> HIDE DEF w3, rs, i
  <2>8. /\ CallPlaces(more) = CallPlaces(rs)
        /\ Len(CallsOf(rs)) \in Nat \ {0} /\ CallsOf(rs)[Len(CallsOf(rs))] = Gist(rs[i])
        /\ CallsOf(more) = [CallsOf(rs) EXCEPT ![Len(CallsOf(rs))] = Gist(w3)]
    BY <1>1, <2>3, <2>5, <2>6, LastCallTold
  <2>9. \A k \in 1 .. Len(rs) : k # i => more[k] = rs[k]
    BY <1>1, <2>1
  <2> HIDE DEF more
  <2>10. v.thought # 0 => more[v.thought].role = "reasoning"
    BY <1>1, <2>9, <2>t, <2>n
  <2>11. GoodRows(more, 0, v.thought)
    BY <2>10 DEF GoodRows
  <2>12. Good(ApplyToolEnd(v, e)) /\ AbsOf(ApplyToolEnd(v, e)) = Account(CallsOf(more), 0 # 0)
    BY <2>4, <2>11, ViewIs
  <2>13. CallsOf(more) = WithLast(CallsOf(rs), Answered(CallsOf(rs)[Len(CallsOf(rs))], e))
    BY <2>7, <2>8 DEF WithLast
  <2>14. (0 # 0) = FALSE
    OBVIOUS
  <2>15. Ending(AbsOf(v), e) = Account(CallsOf(more), FALSE)
    BY <1>2, <1>a, <2>13 DEF Ending, rs, i
  <2> QED
    BY <2>12, <2>14, <2>15
<1>3. CASE i = 0
  <2>1. ApplyToolEnd(v, e) = v
    BY <1>3 DEF ApplyToolEnd
  <2>2. ~AbsOf(v).on
    BY <1>3, <1>a
  <2> QED
    BY <2>1, <2>2 DEF Ending
<1> QED
  BY <1>2, <1>3

LEMMA GoodApplied ==
  \A v \in AView, e \in GEvent :
    Good(v) => /\ Good(Apply(v, e)) /\ AbsOf(Apply(v, e)) = Moved(AbsOf(v), e)
               /\ Good(Drained(v, e)) /\ AbsOf(Drained(v, e)) = Drawn(AbsOf(v), e)
<1> SUFFICES ASSUME NEW v \in AView, NEW e \in GEvent, Good(v)
             PROVE  /\ Good(Apply(v, e)) /\ AbsOf(Apply(v, e)) = Moved(AbsOf(v), e)
                    /\ Good(Drained(v, e)) /\ AbsOf(Drained(v, e)) = Drawn(AbsOf(v), e)
  OBVIOUS
<1> DEFINE c == CloseReasoning(v)
<1>e. e \in AnEvent
  BY DEF GEvent
<1>1. c \in AView /\ Good(c) /\ AbsOf(c) = AbsOf(v) /\ c.thought = 0
  BY ReasoningClosed, GoodClosed
<1>2. Good(OpenReasoning(v)) /\ AbsOf(OpenReasoning(v)) = AbsOf(v)
  BY GoodOpened
<1>3. Good(ApplyToolEnd(v, e)) /\ AbsOf(ApplyToolEnd(v, e)) = Ending(AbsOf(v), e)
  BY <1>e, GoodEnded
<1> HIDE DEF c
<1>4. Good(OpenReasoning(c)) /\ AbsOf(OpenReasoning(c)) = AbsOf(v)
  BY <1>1, GoodOpened
<1>5. CASE e.type = "tool_start"
  <2>1. Good(AddTool(c, e)) /\ AbsOf(AddTool(c, e)) = Starting(AbsOf(c), e)
    BY <1>1, <1>5, GoodAdded
  <2>2. Apply(v, e) = AddTool(c, e) /\ Drained(v, e) = v
    BY <1>5, Zenon DEF Apply, Drained, c
  <2>3. Moved(AbsOf(v), e) = Starting(AbsOf(v), e) /\ Drawn(AbsOf(v), e) = AbsOf(v)
    BY <1>5 DEF Moved, Drawn
  <2> QED
    BY <1>1, <2>1, <2>2, <2>3
<1>6. CASE e.type = "tool_end"
  <2>1. Apply(v, e) = ApplyToolEnd(v, e) /\ Drained(v, e) = ApplyToolEnd(v, e)
    <3>1. e.type # "tool_start"
      BY <1>6
    <3>2. Apply(v, e) = ApplyToolEnd(v, e)
      BY <1>6, <3>1, Zenon DEF Apply
    <3> QED
      BY <3>1, <3>2, Zenon DEF Drained
  <2>2. Moved(AbsOf(v), e) = Ending(AbsOf(v), e) /\ Drawn(AbsOf(v), e) = Ending(AbsOf(v), e)
    BY <1>6 DEF Moved, Drawn
  <2> QED
    BY <1>3, <2>1, <2>2
<1>7. CASE e.type \notin {"tool_start", "tool_end"}
  <2>1. Drained(v, e) = Apply(v, e) /\ Moved(AbsOf(v), e) = AbsOf(v) /\ Drawn(AbsOf(v), e) = AbsOf(v)
    BY <1>7, Zenon DEF Drained, Moved, Drawn
  <2>2. Apply(v, e) \in {OpenReasoning(c), OpenReasoning(v), c}
    <3>1. e.type # "tool_start" /\ e.type # "tool_end"
      BY <1>7
    <3>2. e.type = "reasoning_start" => Apply(v, e) = OpenReasoning(c)
      BY <3>1, Zenon DEF Apply, c
    <3>3. e.type = "reasoning_delta" => Apply(v, e) = OpenReasoning(v)
      BY <3>1, Zenon DEF Apply
    <3>4. e.type # "reasoning_start" /\ e.type # "reasoning_delta" => Apply(v, e) = c
      BY <3>1, Zenon DEF Apply, c
    <3> QED
      BY <3>2, <3>3, <3>4
  <2> QED
    BY <1>1, <1>2, <1>4, <2>1, <2>2
<1> QED
  BY <1>5, <1>6, <1>7

\* What events come to, and what is drained of them.
MovedBy == [x \in AnAccount \X GEvent |-> Moved(x[1], x[2])]
DrawnBy == [x \in AnAccount \X GEvent |-> Drawn(x[1], x[2])]
Comes(a, ev, b) == FoldsTo(AnAccount, MovedBy, a, ev, b)
Draws(a, ev, b) == FoldsTo(AnAccount, DrawnBy, a, ev, b)

LEMMA MovedTyped ==
  /\ MovedBy \in [AnAccount \X GEvent -> AnAccount] /\ DrawnBy \in [AnAccount \X GEvent -> AnAccount]
  /\ \A a \in AnAccount, e \in GEvent :
       MovedBy[<<a, e>>] = Moved(a, e) /\ DrawnBy[<<a, e>>] = Drawn(a, e)
<1>1. ASSUME NEW a \in AnAccount, NEW e \in GEvent
      PROVE  Moved(a, e) \in AnAccount /\ Drawn(a, e) \in AnAccount
  <2>1. e \in AnEvent
    BY DEF GEvent
  <2>2. Starting(a, e) \in AnAccount /\ Ending(a, e) \in AnAccount
    BY <2>1, StartMakes, EndMakes
  <2> QED
    BY <2>2 DEF Moved, Drawn
<1> QED
  BY <1>1 DEF MovedBy, DrawnBy

LEMMA EventsListed ==
  /\ <<>> \in Seq(GEvent)
  /\ \A a \in GEvent : <<a>> \in Seq(GEvent)
  /\ \A a, b \in GEvent : <<a, b>> \in Seq(GEvent) /\ <<a, b>> = <<a>> \o <<b>>
  /\ \A s, t \in Seq(GEvent) : s \o t \in Seq(GEvent)
  /\ \A s \in Seq(GEvent) : <<>> \o s = s
  /\ \A s \in Seq(GEvent) : s \in Seq(AnEvent)
<1>1. GEvent \subseteq AnEvent
  BY DEF GEvent
<1>2. \A s \in Seq(GEvent) : s \in Seq(AnEvent)
  BY <1>1
<1>3. <<>> \in Seq(GEvent) /\ (\A a \in GEvent : <<a>> \in Seq(GEvent))
  OBVIOUS
<1>4. ASSUME NEW a \in GEvent, NEW b \in GEvent
      PROVE  <<a, b>> \in Seq(GEvent) /\ <<a, b>> = <<a>> \o <<b>>
  <2> DEFINE s == <<a>> \o <<b>>
             t == <<a, b>>
  <2>1. s \in Seq(GEvent) /\ Len(s) = 2 /\ s[1] = a /\ s[2] = b
    OBVIOUS
  <2>2. t \in Seq(GEvent) /\ Len(t) = 2 /\ t[1] = a /\ t[2] = b
    OBVIOUS
  <2>3. \A k \in 1 .. 2 : k = 1 \/ k = 2
    OBVIOUS
  <2> HIDE DEF s, t
  <2>4. s = t
    BY <2>1, <2>2, <2>3
  <2> QED
    BY <2>2, <2>4 DEF s, t
<1>5. \A s, t \in Seq(GEvent) : s \o t \in Seq(GEvent)
  OBVIOUS
<1>6. \A s \in Seq(GEvent) : <<>> \o s = s
  OBVIOUS
<1> QED
  BY <1>2, <1>3, <1>4, <1>5, <1>6

\* The rows that events make tell what the events come to.
LEMMA Simulated ==
  ASSUME NEW v \in AView, Good(v), NEW ev \in Seq(GEvent)
  PROVE  /\ FoldLeft(Apply, v, ev) \in AView /\ Good(FoldLeft(Apply, v, ev))
         /\ Comes(AbsOf(v), ev, AbsOf(FoldLeft(Apply, v, ev)))
<1> DEFINE w == FoldLeft(Apply, v, ev)
           R == {x \in AView \X AnAccount : Good(x[1]) /\ x[2] = AbsOf(x[1])}
<1>1. AbsOf(v) \in AnAccount /\ ev \in Seq(AnEvent)
  BY AbsMade, EventsListed
<1>2. w \in AView /\ FoldsTo(AView, AppliedBy, v, ev, w)
  BY <1>1, EventsApplied
<1>m. MovedBy \in [AnAccount \X GEvent -> AnAccount]
  BY MovedTyped
<1>3. PICK b \in AnAccount : FoldsTo(AnAccount, MovedBy, AbsOf(v), ev, b)
  BY <1>1, <1>m, FoldsSomewhere
<1> HIDE DEF w
<1>4. <<v, AbsOf(v)>> \in R
  BY <1>1
<1>5. ASSUME NEW x \in AView, NEW a \in AnAccount, NEW e \in GEvent, <<x, a>> \in R
      PROVE  <<AppliedBy[<<x, e>>], MovedBy[<<a, e>>]>> \in R
  <2>1. Good(x) /\ a = AbsOf(x) /\ e \in AnEvent
    BY <1>5 DEF GEvent
  <2>2. AppliedBy[<<x, e>>] = Apply(x, e) /\ MovedBy[<<a, e>>] = Moved(a, e)
    BY <2>1, AppliedByTyped, MovedTyped
  <2>3. Apply(x, e) \in AView /\ Good(Apply(x, e)) /\ AbsOf(Apply(x, e)) = Moved(a, e)
    BY <2>1, EventApplied, GoodApplied
  <2>4. Moved(a, e) \in AnAccount
    BY <2>3, AbsMade
  <2> QED
    BY <2>2, <2>3, <2>4
<1> HIDE DEF R
<1>6. <<w, b>> \in R
  BY <1>2, <1>3, <1>4, <1>5, FoldsTogether
<1>7. Good(w) /\ b = AbsOf(w)
  BY <1>6 DEF R
<1> QED
  BY <1>2, <1>3, <1>7 DEF w, Comes

LEMMA DrainSimulated ==
  ASSUME NEW v \in AView, Good(v), NEW ev \in Seq(GEvent)
  PROVE  /\ FoldLeft(Drained, v, ev) \in AView /\ Good(FoldLeft(Drained, v, ev))
         /\ Draws(AbsOf(v), ev, AbsOf(FoldLeft(Drained, v, ev)))
<1> DEFINE w == FoldLeft(Drained, v, ev)
           R == {x \in AView \X AnAccount : Good(x[1]) /\ x[2] = AbsOf(x[1])}
<1>1. AbsOf(v) \in AnAccount /\ ev \in Seq(AnEvent)
  BY AbsMade, EventsListed
<1>2. w \in AView /\ FoldsTo(AView, DrainedBy, v, ev, w)
  BY <1>1, EventsDrained
<1>m. DrawnBy \in [AnAccount \X GEvent -> AnAccount]
  BY MovedTyped
<1>3. PICK b \in AnAccount : FoldsTo(AnAccount, DrawnBy, AbsOf(v), ev, b)
  BY <1>1, <1>m, FoldsSomewhere
<1> HIDE DEF w
<1>4. <<v, AbsOf(v)>> \in R
  BY <1>1
<1>5. ASSUME NEW x \in AView, NEW a \in AnAccount, NEW e \in GEvent, <<x, a>> \in R
      PROVE  <<DrainedBy[<<x, e>>], DrawnBy[<<a, e>>]>> \in R
  <2>1. Good(x) /\ a = AbsOf(x) /\ e \in AnEvent
    BY <1>5 DEF GEvent
  <2>2. DrainedBy[<<x, e>>] = Drained(x, e) /\ DrawnBy[<<a, e>>] = Drawn(a, e)
    BY <2>1, DrainedByTyped, MovedTyped
  <2>3. Drained(x, e) \in AView /\ Good(Drained(x, e)) /\ AbsOf(Drained(x, e)) = Drawn(a, e)
    BY <2>1, EventApplied, GoodApplied
  <2>4. Drawn(a, e) \in AnAccount
    BY <2>3, AbsMade
  <2> QED
    BY <2>2, <2>3, <2>4
<1> HIDE DEF R
<1>6. <<w, b>> \in R
  BY <1>2, <1>3, <1>4, <1>5, FoldsTogether
<1>7. Good(w) /\ b = AbsOf(w)
  BY <1>6 DEF R
<1> QED
  BY <1>2, <1>3, <1>7 DEF w, Draws

-----------------------------------------------------------------------------
(* What the events of the parsers come to.                                 *)

LEMMA ComesNothing == \A a \in AnAccount : Comes(a, <<>>, a) /\ Draws(a, <<>>, a)
BY FoldsNothing DEF Comes, Draws

LEMMA ComesOne ==
  \A a \in AnAccount, e \in GEvent : Comes(a, <<e>>, Moved(a, e)) /\ Draws(a, <<e>>, Drawn(a, e))
<1> SUFFICES ASSUME NEW a \in AnAccount, NEW e \in GEvent
             PROVE  Comes(a, <<e>>, Moved(a, e)) /\ Draws(a, <<e>>, Drawn(a, e))
  OBVIOUS
<1>1. MovedBy \in [AnAccount \X GEvent -> AnAccount] /\ DrawnBy \in [AnAccount \X GEvent -> AnAccount]
      /\ MovedBy[<<a, e>>] = Moved(a, e) /\ DrawnBy[<<a, e>>] = Drawn(a, e)
  BY MovedTyped
<1>2. FoldsTo(AnAccount, MovedBy, a, <<e>>, MovedBy[<<a, e>>])
  BY <1>1, FoldsOne
<1>3. FoldsTo(AnAccount, DrawnBy, a, <<e>>, DrawnBy[<<a, e>>])
  BY <1>1, FoldsOne
<1> QED
  BY <1>1, <1>2, <1>3 DEF Comes, Draws

LEMMA ComesJoin ==
  \A a, b, c, s, t : s \in Seq(GEvent) /\ t \in Seq(GEvent) =>
    /\ Comes(a, s, b) /\ Comes(b, t, c) => Comes(a, s \o t, c)
    /\ Draws(a, s, b) /\ Draws(b, t, c) => Draws(a, s \o t, c)
BY FoldsJoin DEF Comes, Draws

LEMMA ComesOnce ==
  \A a, b, c, s : s \in Seq(GEvent) =>
    /\ Comes(a, s, b) /\ Comes(a, s, c) => b = c
    /\ Draws(a, s, b) /\ Draws(a, s, c) => b = c
BY FoldsOnce DEF Comes, Draws

\* Events that tell of no call.
QuietTypes == {"text", "reasoning_start", "reasoning_delta", "reasoning_end"}
LEMMA QuietComes ==
  /\ \A t \in QuietTypes : Event(t) \in GEvent
  /\ \A a \in AnAccount, t \in QuietTypes : Comes(a, <<Event(t)>>, a) /\ Draws(a, <<Event(t)>>, a)
<1>1. ASSUME NEW t \in QuietTypes
      PROVE  Event(t) \in GEvent /\ Event(t).type # "tool_start" /\ Event(t).type # "tool_end"
  <2>1. Event(t).type = t /\ t \in EventTypes
    BY DEF Event, QuietTypes, EventTypes
  <2>2. t # "tool_start" /\ t # "tool_end"
    BY DEF QuietTypes
  <2>3. Event(t) \in AnEvent
    BY <2>1, NamesAre DEF Event, AnEvent
  <2> QED
    BY <2>1, <2>2, <2>3 DEF GEvent
<1>2. ASSUME NEW a \in AnAccount, NEW t \in QuietTypes
      PROVE  Comes(a, <<Event(t)>>, a) /\ Draws(a, <<Event(t)>>, a)
  <2>1. Moved(a, Event(t)) = a /\ Drawn(a, Event(t)) = a
    BY <1>1 DEF Moved, Drawn
  <2> QED
    BY <1>1, <2>1, ComesOne
<1> QED
  BY <1>1, <1>2

\* A call is named; the last one ends.
Named(a, n) == Account(Append(a.calls, CallIs(n, "failed", 0)), TRUE)
EndOf(c, ok, preview) ==
  CallIs(c.name, IF ok THEN "done" ELSE "failed", IF preview # 0 THEN preview ELSE c.preview)
EndedWith(a, ok, preview) ==
  IF ~a.on THEN a ELSE Account(WithLast(a.calls, EndOf(a.calls[Len(a.calls)], ok, preview)), FALSE)

LEMMA StartEvents ==
  ASSUME NEW n \in Names \ {0}, NEW m \in Names
  PROVE  /\ ToolStart(n, m) \in GEvent
         /\ \A a : Moved(a, ToolStart(n, m)) = Named(a, n) /\ Drawn(a, ToolStart(n, m)) = a
<1>1. ToolStart(n, m) \in AnEvent
  BY EventsMade
<1>2. ToolStart(n, m).type = "tool_start" /\ ToolStart(n, m).name = n
  BY DEF ToolStart
<1> QED
  BY <1>1, <1>2 DEF GEvent, Moved, Drawn, Starting, Named

LEMMA EndEvents ==
  ASSUME NEW ok \in BOOLEAN, NEW n \in Names, NEW m \in Names
  PROVE  /\ ToolEnd(ok, n, m) \in GEvent
         /\ \A a : /\ Moved(a, ToolEnd(ok, n, m)) = EndedWith(a, ok, m)
                   /\ Drawn(a, ToolEnd(ok, n, m)) = EndedWith(a, ok, m)
<1>1. ToolEnd(ok, n, m) \in AnEvent
  BY EventsMade
<1>2. ToolEnd(ok, n, m).type = "tool_end" /\ ToolEnd(ok, n, m).ok = ok /\ ToolEnd(ok, n, m).preview = m
  BY DEF ToolEnd
<1>3. \A c : Answered(c, ToolEnd(ok, n, m)) = EndOf(c, ok, m)
  BY <1>2 DEF Answered, EndOf
<1>4. \A a : Ending(a, ToolEnd(ok, n, m)) = EndedWith(a, ok, m)
  BY <1>3 DEF Ending, EndedWith
<1>5. ToolEnd(ok, n, m) \in GEvent
  BY <1>1, <1>2 DEF GEvent
<1> QED
  BY <1>2, <1>4, <1>5 DEF Moved, Drawn

LEMMA NamedMakes ==
  ASSUME NEW a \in AnAccount, NEW n \in Names \ {0}
  PROVE  /\ Named(a, n) \in AnAccount /\ Named(a, n).on
         /\ Len(Named(a, n).calls) = Len(a.calls) + 1
         /\ Named(a, n).calls[Len(a.calls) + 1] = CallIs(n, "failed", 0)
         /\ \A k \in 1 .. Len(a.calls) : Named(a, n).calls[k] = a.calls[k]
<1>1. 0 \in Names
  BY NamesAre
<1>2. ToolStart(n, 0) \in AnEvent /\ ToolStart(n, 0).name = n
  BY <1>1, EventsMade DEF ToolStart
<1>3. Named(a, n) = Starting(a, ToolStart(n, 0))
  BY <1>2 DEF Starting, Named
<1>4. a.calls \in Seq(ACall) /\ CallIs(n, "failed", 0) \in ACall
  BY <1>1, AccountMade, CallMade
<1>5. Named(a, n).calls = Append(a.calls, CallIs(n, "failed", 0))
  BY <1>2, <1>3, StartMakes
<1>6. Named(a, n) \in AnAccount /\ Named(a, n).on
  BY <1>2, <1>3, StartMakes
<1> QED
  BY <1>4, <1>5, <1>6

LEMMA EndedMakes ==
  ASSUME NEW a \in AnAccount, NEW ok \in BOOLEAN, NEW m \in Names
  PROVE  /\ EndedWith(a, ok, m) \in AnAccount /\ ~EndedWith(a, ok, m).on
         /\ Len(EndedWith(a, ok, m).calls) = Len(a.calls)
         /\ ~a.on => EndedWith(a, ok, m) = a
         /\ a.on => /\ EndedWith(a, ok, m).calls[Len(a.calls)] = EndOf(a.calls[Len(a.calls)], ok, m)
                    /\ \A k \in 1 .. Len(a.calls) :
                         k # Len(a.calls) => EndedWith(a, ok, m).calls[k] = a.calls[k]
<1> DEFINE e == ToolEnd(ok, 0, m)
<1>1. 0 \in Names
  BY NamesAre
<1>2. e \in AnEvent /\ e.ok = ok /\ e.preview = m
  BY <1>1, EventsMade DEF ToolEnd
<1> HIDE DEF e
<1>3. \A c : Answered(c, e) = EndOf(c, ok, m)
  BY <1>2 DEF Answered, EndOf
<1>4. EndedWith(a, ok, m) = Ending(a, e)
  BY <1>3 DEF Ending, EndedWith
<1> QED
  BY <1>2, <1>3, <1>4, EndMakes

LEMMA EndIs ==
  \A c, ok, m : /\ EndOf(c, ok, m).name = c.name
                /\ EndOf(c, ok, m).status = IF ok THEN "done" ELSE "failed"
                /\ EndOf(c, ok, m).preview = IF m # 0 THEN m ELSE c.preview
BY DEF EndOf, CallIs

\* What the parser of ReAct owes.
Owed(p) == p.tool # 0 /\ ~p.emitted
ObservedOf(p) == IF p.section = "observation" THEN p.observed ELSE 0
Started(p, a) == IF Owed(p) THEN Named(a, p.tool) ELSE a
CallSettled(p, a) == IF p.tool = 0 /\ ~p.emitted THEN a ELSE EndedWith(Started(p, a), TRUE, ObservedOf(p))
Abandoned(p, a) == IF p.tool = 0 /\ ~p.emitted THEN a ELSE EndedWith(a, TRUE, ObservedOf(p))

LEMMA OwedComes ==
  ASSUME NEW p \in AParser, NEW a \in AnAccount
  PROVE  /\ EndReasoning(p) \in Seq(GEvent) /\ Comes(a, EndReasoning(p), a) /\ Draws(a, EndReasoning(p), a)
         /\ DeferredStart(p) \in Seq(GEvent) /\ Comes(a, DeferredStart(p), Started(p, a))
         /\ Started(p, a) \in AnAccount
         /\ EndTool(p) \in Seq(GEvent) /\ Comes(a, EndTool(p), CallSettled(p, a))
         /\ Draws(a, EndTool(p), Abandoned(p, a)) /\ CallSettled(p, a) \in AnAccount
<1>p. p.tool \in Names /\ p.observed \in Names /\ 0 \in Names /\ p.emitted \in BOOLEAN
  BY ParserFields, NamesAre
<1>1. EndReasoning(p) \in Seq(GEvent) /\ Comes(a, EndReasoning(p), a) /\ Draws(a, EndReasoning(p), a)
  <2>1. "reasoning_end" \in QuietTypes
    BY DEF QuietTypes
  <2> QED
    BY <2>1, QuietComes, ComesNothing, EventsListed DEF EndReasoning
<1>2. /\ DeferredStart(p) \in Seq(GEvent) /\ Comes(a, DeferredStart(p), Started(p, a))
      /\ Draws(a, DeferredStart(p), a) /\ Started(p, a) \in AnAccount
  <2>1. CASE Owed(p)
    <3>1. p.tool \in Names \ {0}
      BY <1>p, <2>1 DEF Owed
    <3>2. DeferredStart(p) = <<ToolStart(p.tool, 0)>> /\ Started(p, a) = Named(a, p.tool)
      BY <2>1 DEF DeferredStart, Started, Owed
    <3>3. /\ ToolStart(p.tool, 0) \in GEvent /\ Moved(a, ToolStart(p.tool, 0)) = Named(a, p.tool)
          /\ Drawn(a, ToolStart(p.tool, 0)) = a
      BY <1>p, <3>1, StartEvents
    <3>4. Named(a, p.tool) \in AnAccount
      BY <3>1, NamedMakes
    <3> QED
      BY <3>2, <3>3, <3>4, ComesOne, EventsListed
  <2>2. CASE ~Owed(p)
    <3>1. DeferredStart(p) = <<>> /\ Started(p, a) = a
      BY <2>2 DEF DeferredStart, Started, Owed
    <3> QED
      BY <3>1, ComesNothing, EventsListed
  <2> QED
    BY <2>1, <2>2
<1>3. /\ EndTool(p) \in Seq(GEvent) /\ Comes(a, EndTool(p), CallSettled(p, a))
      /\ Draws(a, EndTool(p), Abandoned(p, a)) /\ CallSettled(p, a) \in AnAccount
  <2>1. CASE p.tool = 0 /\ ~p.emitted
    <3>1. EndTool(p) = <<>> /\ CallSettled(p, a) = a /\ Abandoned(p, a) = a
      BY <2>1 DEF EndTool, CallSettled, Abandoned
    <3> QED
      BY <3>1, ComesNothing, EventsListed
  <2>2. CASE ~(p.tool = 0 /\ ~p.emitted)
    <3> DEFINE e == ToolEnd(TRUE, 0, ObservedOf(p))
    <3>1. EndTool(p) = DeferredStart(p) \o <<e>>
      BY <2>2 DEF EndTool, ObservedOf
    <3>2. ObservedOf(p) \in Names /\ TRUE \in BOOLEAN
      BY <1>p DEF ObservedOf
    <3>3. /\ e \in GEvent /\ Moved(Started(p, a), e) = EndedWith(Started(p, a), TRUE, ObservedOf(p))
          /\ Drawn(a, e) = EndedWith(a, TRUE, ObservedOf(p))
      BY <1>p, <3>2, EndEvents
    <3> HIDE DEF e
    <3>4. CallSettled(p, a) = EndedWith(Started(p, a), TRUE, ObservedOf(p)) /\ Abandoned(p, a) = EndedWith(a, TRUE, ObservedOf(p))
      BY <2>2 DEF CallSettled, Abandoned
    <3>5. <<e>> \in Seq(GEvent) /\ EndTool(p) \in Seq(GEvent)
      BY <1>2, <3>1, <3>3, EventsListed
    <3>6. Comes(Started(p, a), <<e>>, CallSettled(p, a)) /\ Draws(a, <<e>>, Abandoned(p, a))
      BY <1>2, <3>3, <3>4, ComesOne
    <3>7. Comes(a, EndTool(p), CallSettled(p, a)) /\ Draws(a, EndTool(p), Abandoned(p, a))
      BY <1>2, <3>1, <3>5, <3>6, ComesJoin
    <3>8. CallSettled(p, a) \in AnAccount
      <4>1. PICK b \in AnAccount, yes \in BOOLEAN, m \in Names :
              b = Started(p, a) /\ yes = TRUE /\ m = ObservedOf(p)
        BY <1>2, <3>2
      <4>2. EndedWith(b, yes, m) \in AnAccount
        BY EndedMakes
      <4> QED
        BY <3>4, <4>1, <4>2
    <3> QED
      BY <3>5, <3>7, <3>8
  <2> QED
    BY <2>1, <2>2
<1> QED
  BY <1>1, <1>2, <1>3

-----------------------------------------------------------------------------
(* An agent that speaks ReAct.                                             *)

EndsIn(t, x) == t # <<>> /\ t[Len(t)] = x

LEMMA FatesAre ==
  /\ "open" \in Fates /\ "input" \in Fates /\ "ok" \in Fates /\ "fail" \in Fates /\ "cut" \in Fates
  /\ "shell" \in Fates
BY DEF Fates

LEMMA TellingIs ==
  ASSUME NEW t \in Tellings
  PROVE  /\ t \in Seq(Fates) /\ Len(t) \in Nat /\ Len(t) <= Calls /\ DOMAIN t = 1 .. Len(t)
         /\ (t # <<>> <=> Len(t) # 0)
         /\ (Open(t) <=> EndsIn(t, "open") \/ EndsIn(t, "input"))
         /\ (t # <<>> => Last(t) = t[Len(t)])
<1>1. t \in Seq(Fates) /\ Len(t) <= Calls
  BY DEF Tellings
<1>2. Len(t) \in Nat /\ DOMAIN t = 1 .. Len(t) /\ (t # <<>> <=> Len(t) # 0)
  BY <1>1
<1> QED
  BY <1>1, <1>2 DEF Open, EndsIn, Last

\* The last call's fate is told.
LEMMA CameIs ==
  ASSUME NEW t \in Tellings, t # <<>>, NEW x \in Fates
  PROVE  /\ Came(t, x) \in Tellings /\ Len(Came(t, x)) = Len(t) /\ Came(t, x)[Len(t)] = x
         /\ \A k \in 1 .. Len(t) : k # Len(t) => Came(t, x)[k] = t[k]
         /\ \A y \in Fates : EndsIn(Came(t, x), y) <=> x = y
         /\ \A y \in Fates : Came(Came(t, x), y) = Came(t, y)
<1>1. t \in Seq(Fates) /\ Len(t) \in Nat /\ Len(t) # 0 /\ Len(t) <= Calls
  BY TellingIs
<1>2. \A u, y : Came(u, y) = [u EXCEPT ![Len(u)] = y]
  BY DEF Came, ReplaceAt
<1>3. ASSUME NEW u \in Seq(Fates), Len(u) # 0, NEW y \in Fates
      PROVE  /\ Came(u, y) \in Seq(Fates) /\ Len(Came(u, y)) = Len(u) /\ Came(u, y)[Len(u)] = y
             /\ \A k \in 1 .. Len(u) : k # Len(u) => Came(u, y)[k] = u[k]
             /\ DOMAIN Came(u, y) = 1 .. Len(u)
  BY <1>2, <1>3
<1>4. /\ Came(t, x) \in Tellings /\ Len(Came(t, x)) = Len(t) /\ Came(t, x)[Len(t)] = x
      /\ \A k \in 1 .. Len(t) : k # Len(t) => Came(t, x)[k] = t[k]
  BY <1>1, <1>3 DEF Tellings
<1>5. Came(t, x) # <<>>
  BY <1>1, <1>4
<1>6. ASSUME NEW y \in Fates PROVE Came(Came(t, x), y) = Came(t, y)
  <2>1. Came(t, x) \in Seq(Fates) /\ Len(Came(t, x)) = Len(t) /\ Len(t) # 0
    BY <1>1, <1>3
  <2>2. /\ Came(Came(t, x), y) \in Seq(Fates) /\ Len(Came(Came(t, x), y)) = Len(t)
        /\ Came(Came(t, x), y)[Len(t)] = y
        /\ \A k \in 1 .. Len(t) : k # Len(t) => Came(Came(t, x), y)[k] = t[k]
    <3>1. PICK u \in Seq(Fates) : u = Came(t, x)
      BY <2>1
    <3>2. /\ Came(u, y) \in Seq(Fates) /\ Len(Came(u, y)) = Len(u) /\ Came(u, y)[Len(u)] = y
          /\ \A k \in 1 .. Len(u) : k # Len(u) => Came(u, y)[k] = u[k]
      BY <2>1, <3>1, <1>3
    <3> HIDE DEF Came
    <3> QED
      BY <1>4, <2>1, <3>1, <3>2
  <2>3. /\ Came(t, y) \in Seq(Fates) /\ Len(Came(t, y)) = Len(t)
        /\ Came(t, y)[Len(t)] = y
        /\ \A k \in 1 .. Len(t) : k # Len(t) => Came(t, y)[k] = t[k]
    BY <1>1, <1>3
  <2> HIDE DEF Came
  <2> QED
    BY <1>1, <2>2, <2>3
<1> QED
  BY <1>4, <1>5, <1>6 DEF EndsIn

LEMMA CutIs ==
  ASSUME NEW t \in Tellings
  PROVE  /\ Cut(t) \in Tellings /\ Len(Cut(t)) = Len(t)
         /\ ~Open(t) => Cut(t) = t
         /\ Open(t) => Cut(t)[Len(t)] = "cut" /\ t # <<>>
         /\ \A k \in 1 .. Len(t) : k # Len(t) => Cut(t)[k] = t[k]
         /\ ~Open(Cut(t)) /\ Cut(Cut(t)) = Cut(t)
<1>1. CASE ~Open(t)
  BY <1>1 DEF Cut
<1>2. CASE Open(t)
  <2>1. t # <<>> /\ Cut(t) = Came(t, "cut")
    BY <1>2 DEF Open, Cut, Came
  <2>2. ~Open(Cut(t)) /\ Cut(t) \in Tellings
    BY <2>1, CameIs, FatesAre, TellingIs
  <2> QED
    BY <1>2, <2>1, <2>2, CameIs, FatesAre DEF Cut
<1> QED
  BY <1>1, <1>2

\* One more call is told.
LEMMA AddedIs ==
  ASSUME NEW t \in Tellings, Len(t) + 1 <= Calls, NEW x \in Fates
  PROVE  /\ Append(t, x) \in Tellings /\ Len(Append(t, x)) = Len(t) + 1
         /\ Append(t, x)[Len(t) + 1] = x /\ Append(t, x) # <<>>
         /\ \A k \in 1 .. Len(t) : Append(t, x)[k] = t[k]
         /\ \A y \in Fates : EndsIn(Append(t, x), y) <=> x = y
         /\ \A y \in Fates : Came(Append(t, x), y) = Append(t, y)
<1>1. t \in Seq(Fates) /\ Len(t) \in Nat
  BY TellingIs
<1>2. \A y \in Fates : /\ Append(t, y) \in Seq(Fates) /\ Len(Append(t, y)) = Len(t) + 1
                       /\ Append(t, y)[Len(t) + 1] = y /\ Append(t, y) # <<>>
                       /\ \A k \in 1 .. Len(t) : Append(t, y)[k] = t[k]
  BY <1>1
<1>3. Append(t, x) \in Tellings
  BY <1>2 DEF Tellings
<1>4. ASSUME NEW y \in Fates PROVE Came(Append(t, x), y) = Append(t, y)
  <2> DEFINE u == Came(Append(t, x), y)
  <2>1. /\ u \in Tellings /\ Len(u) = Len(t) + 1 /\ u[Len(t) + 1] = y
        /\ \A k \in 1 .. Len(t) + 1 : k # Len(t) + 1 => u[k] = Append(t, x)[k]
    <3>1. PICK v \in Tellings : v = Append(t, x)
      BY <1>3
    <3>2. v # <<>> /\ Len(v) = Len(t) + 1
      BY <1>2, <3>1
    <3>3. /\ Came(v, y) \in Tellings /\ Len(Came(v, y)) = Len(v) /\ Came(v, y)[Len(v)] = y
          /\ \A k \in 1 .. Len(v) : k # Len(v) => Came(v, y)[k] = v[k]
      BY <3>2, CameIs
    <3> QED
      BY <3>1, <3>2, <3>3
  <2>2. u \in Seq(Fates)
    BY <2>1 DEF Tellings
  <2> HIDE DEF u
  <2>3. \A k \in 1 .. Len(t) : u[k] = t[k]
    BY <1>1, <1>2, <2>1
  <2> QED
    BY <1>1, <1>2, <2>1, <2>2, <2>3 DEF u
<1> QED
  BY <1>2, <1>3, <1>4 DEF EndsIn

\* What the parser's steps leave of the call it holds.
Holds(p, section, tool, emitted) == p.section = section /\ p.tool = tool /\ p.emitted = emitted

LEMMA SectionsMove ==
  ASSUME NEW p \in AParser, NEW s \in Sections, NEW n \in Names, NEW b \in BOOLEAN, NEW e \in BOOLEAN,
         NEW no, no = FALSE
  PROVE  /\ Holds(Enter(p, s), s, 0, no)
         /\ Holds([Enter(p, s) EXCEPT !.reasoning = b], s, 0, no)
         /\ Holds([Enter(p, s) EXCEPT !.tool = n], s, n, no)
         /\ Holds([p EXCEPT !.section = s, !.reasoning = b, !.emitted = e], s, p.tool, e)
         /\ Holds([p EXCEPT !.section = s, !.reasoning = b, !.emitted = e, !.observed = n], s, p.tool, e)
         /\ [p EXCEPT !.section = s, !.reasoning = b, !.emitted = e, !.observed = n].observed = n
BY DEF AParser, Enter, Holds

LEMMA StepIs == \A p, ev : Step(p, ev).p = p /\ Step(p, ev).ev = ev
BY DEF Step

LEMMA JoinedComes ==
  ASSUME NEW s \in Seq(GEvent), NEW t \in Seq(GEvent), NEW a, NEW b, NEW c, Comes(a, s, b), Comes(b, t, c)
  PROVE  s \o t \in Seq(GEvent) /\ Comes(a, s \o t, c)
BY ComesJoin, EventsListed, Zenon

LEMMA ReActSettles ==
  ASSUME NEW p \in AParser, NEW s \in ASegment, NEW a \in AnAccount, s.k \in {"thought", "answer", "action"}
  PROVE  /\ ReAct(p, s).p.section = s.k /\ ~ReAct(p, s).p.emitted
         /\ ReAct(p, s).p.tool = IF s.k = "action" THEN s.n ELSE 0
         /\ ReAct(p, s).ev \in Seq(GEvent) /\ Comes(a, ReAct(p, s).ev, CallSettled(p, a))
<1> DEFINE settled == EndTool(p) \o EndReasoning(p)
           b == CallSettled(p, a)
<1>n. s.n \in Names
  BY DEF ASegment
<1>b. b \in AnAccount
  BY OwedComes
<1>1. settled \in Seq(GEvent) /\ Comes(a, settled, b)
  BY <1>b, OwedComes, JoinedComes
<1> HIDE DEF settled, b
<1>2. ASSUME NEW x \in QuietTypes
      PROVE  settled \o <<Event(x)>> \in Seq(GEvent) /\ Comes(a, settled \o <<Event(x)>>, b)
  BY <1>1, <1>b, QuietComes, EventsListed, JoinedComes
<1>3. CASE s.k = "thought"
  <2>1. PICK no \in BOOLEAN, yes \in BOOLEAN : no = FALSE /\ yes = TRUE
    OBVIOUS
  <2> DEFINE q == [Enter(p, "thought") EXCEPT !.reasoning = TRUE]
             ev == <<Event("reasoning_start"), Event("reasoning_delta")>>
  <2>2. Holds(q, "thought", 0, no)
    BY <2>1, SectionsMove, SectionsAre, NamesAre
  <2>3. ev \in Seq(GEvent) /\ Comes(b, ev, b)
    <3>1. "reasoning_start" \in QuietTypes /\ "reasoning_delta" \in QuietTypes
      BY DEF QuietTypes
    <3>2. ev = <<Event("reasoning_start")>> \o <<Event("reasoning_delta")>>
      BY <3>1, QuietComes, EventsListed
    <3> HIDE DEF ev
    <3> QED
      BY <3>1, <3>2, <1>b, QuietComes, EventsListed, JoinedComes
  <2>4. ReAct(p, s) = Step(q, settled \o ev)
    BY <1>3, Zenon DEF ReAct, settled
  <2> HIDE DEF q, ev
  <2>5. settled \o ev \in Seq(GEvent) /\ Comes(a, settled \o ev, b)
    BY <1>1, <2>3, JoinedComes
  <2> QED
    BY <1>3, <2>1, <2>2, <2>4, <2>5, StepIs DEF Holds, b
<1>4. CASE s.k = "answer"
  <2>1. PICK no \in BOOLEAN : no = FALSE
    OBVIOUS
  <2>2. Holds(Enter(p, "answer"), "answer", 0, no)
    BY <2>1, SectionsMove, SectionsAre, NamesAre
  <2>3. s.k # "thought" /\ s.k # "input" /\ s.k # "action" /\ s.k # "observation"
    BY <1>4
  <2>4. ReAct(p, s) = Step(Enter(p, "answer"), settled \o <<Event("text")>>)
    BY <1>4, <2>3, Zenon DEF ReAct, settled
  <2>5. "text" \in QuietTypes
    BY DEF QuietTypes
  <2> QED
    <3>1. /\ Enter(p, "answer").section = s.k /\ Enter(p, "answer").tool = 0
          /\ ~Enter(p, "answer").emitted
      BY <1>4, <2>1, <2>2, Zenon DEF Holds
    <3>2. /\ settled \o <<Event("text")>> \in Seq(GEvent)
          /\ Comes(a, settled \o <<Event("text")>>, b)
      BY <1>2, <2>5
    <3>3. s.k # "action"
      BY <1>4
    <3>4. ReAct(p, s).p = Enter(p, "answer") /\ ReAct(p, s).ev = settled \o <<Event("text")>>
      BY <2>4, StepIs
    <3>5. ~ReAct(p, s).p.emitted
      BY <3>1, <3>4, Zenon
    <3>6. ReAct(p, s).p.section = s.k /\ ReAct(p, s).p.tool = 0
      BY <3>1, <3>4
    <3> QED
      BY <3>2, <3>3, <3>4, <3>5, <3>6 DEF b
<1>5. CASE s.k = "action"
  <2>1. PICK no \in BOOLEAN : no = FALSE
    OBVIOUS
  <2> DEFINE q == [Enter(p, "action") EXCEPT !.tool = s.n]
  <2>2. Holds(q, "action", s.n, no)
    BY <1>n, <2>1, SectionsMove, SectionsAre
  <2>3. s.k # "thought" /\ s.k # "input"
    BY <1>5
  <2>4. ReAct(p, s) = Step(q, settled)
    BY <1>5, <2>3, Zenon DEF ReAct, settled
  <2> HIDE DEF q
  <2> QED
    BY <1>1, <1>5, <2>1, <2>2, <2>4, StepIs DEF Holds, b
<1> QED
  BY <1>3, <1>4, <1>5

LEMMA ReActStarts ==
  ASSUME NEW p \in AParser, NEW s \in ASegment, NEW a \in AnAccount, p.tool # 0
  PROVE  /\ s.k = "input" =>
              /\ ReAct(p, s).p.section = "input" /\ ReAct(p, s).p.emitted /\ ReAct(p, s).p.tool = p.tool
              /\ ReAct(p, s).ev \in Seq(GEvent) /\ Comes(a, ReAct(p, s).ev, Named(a, p.tool))
         /\ s.k = "observation" =>
              /\ ReAct(p, s).p.section = "observation" /\ ReAct(p, s).p.emitted
              /\ ReAct(p, s).p.tool = p.tool /\ ReAct(p, s).p.observed = s.n
              /\ ReAct(p, s).ev \in Seq(GEvent) /\ Comes(a, ReAct(p, s).ev, Started(p, a))
<1>n. s.n \in Names /\ p.tool \in Names \ {0} /\ p.emitted \in BOOLEAN
  BY ParserFields DEF ASegment
<1>1. PICK no \in BOOLEAN, yes \in BOOLEAN : no = FALSE /\ yes = TRUE
  OBVIOUS
<1>2. EndReasoning(p) \in Seq(GEvent) /\ Comes(a, EndReasoning(p), a)
  BY OwedComes
<1>3. CASE s.k = "input"
  <2> DEFINE q == [p EXCEPT !.section = "input", !.reasoning = FALSE, !.emitted = TRUE]
             ev == EndReasoning(p) \o <<ToolStart(p.tool, s.n)>>
  <2>1. Holds(q, "input", p.tool, yes)
    BY <1>n, <1>1, SectionsMove, SectionsAre
  <2>2. ToolStart(p.tool, s.n) \in GEvent /\ Moved(a, ToolStart(p.tool, s.n)) = Named(a, p.tool)
    BY <1>n, StartEvents
  <2>3. /\ <<ToolStart(p.tool, s.n)>> \in Seq(GEvent)
        /\ Comes(a, <<ToolStart(p.tool, s.n)>>, Named(a, p.tool))
    BY <2>2, ComesOne, EventsListed
  <2>4. ev \in Seq(GEvent) /\ Comes(a, ev, Named(a, p.tool))
    BY <1>2, <2>3, JoinedComes
  <2>5. s.k # "thought"
    BY <1>3
  <2>6. (IF p.tool = 0 THEN Anon ELSE p.tool) = p.tool
    OBVIOUS
  <2>7. ReAct(p, s) = Step(q, ev)
    BY <1>3, <2>5, <2>6, Zenon DEF ReAct
  <2> HIDE DEF q, ev
  <2> QED
    <3>1. q.section = "input" /\ q.tool = p.tool /\ q.emitted
      BY <1>1, <2>1, Zenon DEF Holds
    <3>2. s.k # "observation"
      BY <1>3
    <3>3. ReAct(p, s).p = q /\ ReAct(p, s).ev = ev
      BY <2>7, StepIs
    <3>4. ReAct(p, s).p.emitted
      BY <3>1, <3>3, Zenon
    <3>5. ReAct(p, s).p.section = "input" /\ ReAct(p, s).p.tool = p.tool
      BY <3>1, <3>3
    <3> QED
      BY <2>4, <3>2, <3>3, <3>4, <3>5
<1>4. CASE s.k = "observation"
  <2>1. PICK e \in BOOLEAN : e /\ e = (p.emitted \/ p.tool # 0)
    OBVIOUS
  <2> DEFINE q == [p EXCEPT !.section = "observation", !.reasoning = no, !.emitted = e,
                            !.observed = s.n]
             ev == EndReasoning(p) \o DeferredStart(p)
  <2>2. Holds(q, "observation", p.tool, e) /\ q.observed = s.n
    <3>1. PICK x \in Sections, m \in Names : x = "observation" /\ m = s.n
      BY <1>n, SectionsAre
    <3> DEFINE o == [p EXCEPT !.section = x, !.reasoning = no, !.emitted = e, !.observed = m]
    <3>2. Holds(o, x, p.tool, e) /\ o.observed = m
      BY <1>1 DEF AParser, Holds
    <3>3. o = q
      BY <3>1
    <3> HIDE DEF o, q
    <3> QED
      BY <3>1, <3>2, <3>3
  <2>3. ev \in Seq(GEvent) /\ Comes(a, ev, Started(p, a))
    BY <1>2, OwedComes, JoinedComes
  <2>4. s.k # "thought" /\ s.k # "input" /\ s.k # "action"
    BY <1>4
  <2>5. ReAct(p, s) = Step(q, ev)
    BY <1>1, <1>4, <2>1, <2>4, Zenon DEF ReAct
  <2> HIDE DEF q, ev
  <2>6. q.section = "observation" /\ q.tool = p.tool /\ q.emitted
    BY <2>1, <2>2, Zenon DEF Holds
  <2>7. ReAct(p, s).p = q /\ ReAct(p, s).ev = ev
    BY <2>5, StepIs
  <2>8. ReAct(p, s).p.emitted
    BY <2>6, <2>7, Zenon
  <2>9. /\ ReAct(p, s).p.section = "observation" /\ ReAct(p, s).p.tool = p.tool
        /\ ReAct(p, s).p.observed = s.n
    BY <2>2, <2>6, <2>7
  <2> QED
    BY <2>3, <2>4, <2>7, <2>8, <2>9
<1> QED
  BY <1>3, <1>4

LEMMA ReActKeepsOn ==
  ASSUME NEW p \in AParser, NEW s, NEW a \in AnAccount, s.k = "plain"
  PROVE  ReAct(p, s).p = p /\ ReAct(p, s).ev \in Seq(GEvent) /\ Comes(a, ReAct(p, s).ev, a)
<1>1. ReAct(p, s) = Step(p, Prose(p))
  <2>1. s.k # "thought" /\ s.k # "input" /\ s.k # "action" /\ s.k # "observation" /\ s.k # "answer"
    OBVIOUS
  <2> QED
    BY <2>1, Zenon DEF ReAct
<1>2. Prose(p) \in Seq(GEvent) /\ Comes(a, Prose(p), a)
  <2>1. "text" \in QuietTypes /\ "reasoning_delta" \in QuietTypes
    BY DEF QuietTypes
  <2>2. /\ <<Event("text")>> \in Seq(GEvent) /\ <<Event("reasoning_delta")>> \in Seq(GEvent)
        /\ Comes(a, <<Event("text")>>, a) /\ Comes(a, <<Event("reasoning_delta")>>, a)
    BY <2>1, QuietComes, EventsListed
  <2>3. Prose(p) \in {<<Event("text")>>, <<Event("reasoning_delta")>>, <<>>}
    BY DEF Prose
  <2> QED
    BY <2>2, <2>3, ComesNothing, EventsListed
<1> QED
  BY <1>1, <1>2, StepIs

\* The calls are those that were told, and the last line of each says what the
\* rows show: the calls of an agent between two of them, and at any time.
OwnCalls(c) == \A k \in 1 .. Len(c) : c[k].name = k /\ c[k].preview \in {0, k}
ShownRight(c, k) == c[k].status = "done" /\ c[k].preview = k
ReActFates == {"open", "input", "ok", "cut"}
Rested(t, a) ==
  /\ ~a.on /\ Len(a.calls) = Len(t) /\ OwnCalls(a.calls) /\ ~Open(t)
  /\ \A k \in 1 .. Len(t) : t[k] \in ReActFates /\ (t[k] = "ok" => ShownRight(a.calls, k))

\* A section without a call, one with a call that has no row yet, and one with
\* a call whose row is being filled.
Resting(t, p, a) == /\ p.tool = 0 /\ ~p.emitted /\ p.section # "observation" /\ Rested(t, a)
OnlyNamed(t, p, a) ==
  /\ p.tool = Len(t) /\ ~p.emitted /\ EndsIn(t, "open") /\ p.section \notin Data
  /\ ~a.on /\ Len(a.calls) = Len(t) - 1
BeingFilled(t, p, a) ==
  /\ t # <<>> /\ p.tool = Len(t) /\ p.emitted /\ a.on /\ Len(a.calls) = Len(t)
  /\ \/ EndsIn(t, "input") /\ p.section \notin Data
     \/ EndsIn(t, "ok") /\ p.section = "observation" /\ p.observed = Len(t)
ReActTie(t, s, p, a) ==
  /\ Resting(t, p, a) \/ OnlyNamed(t, p, a) \/ BeingFilled(t, p, a)
  /\ (s = "observed" <=> p.section = "observation") /\ (s = "answer" <=> p.section = "answer")
  /\ OwnCalls(a.calls)
  /\ \A k \in 1 .. Len(t) : /\ t[k] \in ReActFates
                            /\ t[k] = "ok" /\ k # Len(t) => ShownRight(a.calls, k)

LEMMA AccountIs ==
  \A a \in AnAccount : /\ a.calls \in Seq(ACall) /\ a.on \in BOOLEAN /\ Len(a.calls) \in Nat
                       /\ DOMAIN a.calls = 1 .. Len(a.calls)
                       /\ \A k \in 1 .. Len(a.calls) : a.calls[k] \in ACall
<1>1. \A c \in Seq(ACall) : DOMAIN c = 1 .. Len(c) /\ \A k \in 1 .. Len(c) : c[k] \in ACall
  OBVIOUS
<1> QED
  BY <1>1, AccountMade

\* The end of a call that was named only, and of one whose row is being filled.
LEMMA NamedCallEnds ==
  ASSUME NEW a \in AnAccount, NEW n \in Names \ {0}, n = Len(a.calls) + 1, OwnCalls(a.calls)
  PROVE  /\ Named(a, n) \in AnAccount /\ Named(a, n).on /\ Len(Named(a, n).calls) = n
         /\ OwnCalls(Named(a, n).calls)
         /\ \A k \in 1 .. n : k # n => Named(a, n).calls[k] = a.calls[k]
<1>1. /\ Named(a, n) \in AnAccount /\ Named(a, n).on /\ Len(Named(a, n).calls) = n
      /\ Named(a, n).calls[n] = CallIs(n, "failed", 0)
      /\ \A k \in 1 .. Len(a.calls) : Named(a, n).calls[k] = a.calls[k]
  BY NamedMakes
<1>2. CallIs(n, "failed", 0).name = n /\ CallIs(n, "failed", 0).preview = 0
  BY DEF CallIs
<1>3. Len(a.calls) \in Nat
  BY AccountIs
<1> QED
  BY <1>1, <1>2, <1>3 DEF OwnCalls

LEMMA FilledCallEnds ==
  ASSUME NEW a \in AnAccount, a.on, OwnCalls(a.calls), NEW m \in Names, m \in {0, Len(a.calls)},
         NEW ok \in BOOLEAN
  PROVE  /\ EndedWith(a, ok, m) \in AnAccount /\ ~EndedWith(a, ok, m).on
         /\ Len(EndedWith(a, ok, m).calls) = Len(a.calls) /\ OwnCalls(EndedWith(a, ok, m).calls)
         /\ EndedWith(a, ok, m).calls[Len(a.calls)].status = IF ok THEN "done" ELSE "failed"
         /\ m # 0 => EndedWith(a, ok, m).calls[Len(a.calls)].preview = m
         /\ \A k \in 1 .. Len(a.calls) : k # Len(a.calls) => EndedWith(a, ok, m).calls[k] = a.calls[k]
<1>1. /\ EndedWith(a, ok, m) \in AnAccount /\ ~EndedWith(a, ok, m).on
      /\ Len(EndedWith(a, ok, m).calls) = Len(a.calls)
      /\ EndedWith(a, ok, m).calls[Len(a.calls)] = EndOf(a.calls[Len(a.calls)], ok, m)
      /\ \A k \in 1 .. Len(a.calls) : k # Len(a.calls) => EndedWith(a, ok, m).calls[k] = a.calls[k]
  BY EndedMakes
<1>2. Len(a.calls) \in Nat /\ Len(a.calls) # 0
  BY AccountMade
<1>3. Len(a.calls) \in 1 .. Len(a.calls)
  BY <1>2
<1> DEFINE c == a.calls[Len(a.calls)]
<1>4. c.name = Len(a.calls) /\ c.preview \in {0, Len(a.calls)}
  BY <1>3 DEF OwnCalls
<1>5. /\ EndOf(c, ok, m).name = Len(a.calls)
      /\ EndOf(c, ok, m).status = IF ok THEN "done" ELSE "failed"
      /\ EndOf(c, ok, m).preview = IF m # 0 THEN m ELSE c.preview
  BY <1>4, EndIs
<1> HIDE DEF c
<1> DEFINE b == EndedWith(a, ok, m)
<1>6. b.calls[Len(a.calls)] = EndOf(c, ok, m) /\ Len(b.calls) = Len(a.calls)
  BY <1>1 DEF c
<1>7. \A k \in 1 .. Len(a.calls) : k # Len(a.calls) => b.calls[k] = a.calls[k]
  BY <1>1
<1> HIDE DEF b
<1>8. OwnCalls(b.calls)
  <2> SUFFICES ASSUME NEW k \in 1 .. Len(a.calls) PROVE b.calls[k].name = k /\ b.calls[k].preview \in {0, k}
    BY <1>6 DEF OwnCalls
  <2>1. CASE k = Len(a.calls)
    BY <1>4, <1>5, <1>6, <2>1
  <2>2. CASE k # Len(a.calls)
    BY <1>7, <2>2 DEF OwnCalls
  <2> QED
    BY <2>1, <2>2
<1> QED
  BY <1>1, <1>5, <1>6, <1>8 DEF b, c

\* endTool and endReasoning leave the calls at rest.
LEMMA CallsRest ==
  ASSUME NEW t \in Tellings, NEW s, NEW p \in AParser, NEW a \in AnAccount, ReActTie(t, s, p, a)
  PROVE  CallSettled(p, a) \in AnAccount /\ Rested(Cut(t), CallSettled(p, a))
<1>t. /\ t \in Seq(Fates) /\ Len(t) \in Nat /\ DOMAIN t = 1 .. Len(t) /\ (t # <<>> <=> Len(t) # 0)
      /\ (Open(t) <=> EndsIn(t, "open") \/ EndsIn(t, "input"))
  BY TellingIs
<1>c. /\ Cut(t) \in Tellings /\ Len(Cut(t)) = Len(t)
      /\ ~Open(t) => Cut(t) = t
      /\ Open(t) => Cut(t)[Len(t)] = "cut" /\ t # <<>>
      /\ \A k \in 1 .. Len(t) : k # Len(t) => Cut(t)[k] = t[k]
      /\ ~Open(Cut(t)) /\ Cut(Cut(t)) = Cut(t)
  BY CutIs
<1>n. p.tool \in Names /\ p.observed \in Names /\ 0 \in Names /\ p.emitted \in BOOLEAN
  BY ParserFields, NamesAre
<1>y. PICK yes \in BOOLEAN : yes = TRUE
  OBVIOUS
<1>o. /\ OwnCalls(a.calls)
      /\ \A k \in 1 .. Len(t) : /\ t[k] \in ReActFates
                                /\ t[k] = "ok" /\ k # Len(t) => ShownRight(a.calls, k)
  BY DEF ReActTie
<1>0. ASSUME NEW b \in AnAccount, ~b.on, Len(b.calls) = Len(t), OwnCalls(b.calls), Len(t) # 0,
             \A k \in 1 .. Len(t) : k # Len(t) => b.calls[k] = a.calls[k],
             t[Len(t)] = "ok" => ShownRight(b.calls, Len(t))
      PROVE  Rested(Cut(t), b)
  <2>1. \A k \in 1 .. Len(t) : k # Len(t) => Cut(t)[k] \in ReActFates
                                             /\ (Cut(t)[k] = "ok" => ShownRight(b.calls, k))
    BY <1>0, <1>c, <1>o DEF ShownRight
  <2>2. Len(t) \in 1 .. Len(t)
    <3>1. Len(t) # 0 /\ Len(t) \in Nat
      BY <1>t, <1>0, Zenon
    <3> QED
      BY <3>1
  <2>3. Cut(t)[Len(t)] \in ReActFates /\ (Cut(t)[Len(t)] = "ok" => ShownRight(b.calls, Len(t)))
    <3>1. CASE Open(t)
      BY <1>c, <3>1 DEF ReActFates
    <3>2. CASE ~Open(t)
      BY <1>0, <1>c, <1>o, <2>2, <3>2
    <3> QED
      BY <3>1, <3>2
  <2>4. \A k \in 1 .. Len(t) : Cut(t)[k] \in ReActFates /\ (Cut(t)[k] = "ok" => ShownRight(b.calls, k))
    BY <2>1, <2>3
  <2> QED
    BY <1>0, <1>c, <2>4 DEF Rested
<1>1. CASE Resting(t, p, a)
  <2>1. CallSettled(p, a) = a /\ ~Open(t)
    BY <1>1 DEF Resting, Rested, CallSettled
  <2> QED
    BY <1>1, <1>c, <2>1 DEF Resting
<1>2. CASE OnlyNamed(t, p, a)
  <2>1. /\ Len(t) # 0 /\ p.tool = Len(t) /\ ~p.emitted /\ Len(a.calls) = Len(t) - 1
        /\ p.section # "observation" /\ t[Len(t)] = "open"
    BY <1>2, <1>t DEF OnlyNamed, EndsIn, Data
  <2>2. PICK n \in Names \ {0} : n = p.tool /\ n = Len(a.calls) + 1
    <3>1. Len(t) \in Nat /\ Len(t) # 0 /\ p.tool = Len(t) /\ Len(a.calls) = Len(t) - 1 /\ p.tool \in Names
      BY <1>t, <1>n, <2>1, Zenon
    <3>2. p.tool = Len(a.calls) + 1 /\ p.tool # 0
      BY <3>1
    <3> QED
      BY <3>1, <3>2, Zenon
  <2>3. CallSettled(p, a) = EndedWith(Named(a, n), yes, 0)
    BY <1>y, <2>1, <2>2 DEF CallSettled, Started, Owed, ObservedOf
  <2> DEFINE d == Named(a, n)
             b == EndedWith(d, yes, 0)
  <2>4. /\ d \in AnAccount /\ d.on /\ Len(d.calls) = n /\ OwnCalls(d.calls)
        /\ \A k \in 1 .. n : k # n => d.calls[k] = a.calls[k]
    BY <1>o, <2>2, NamedCallEnds
  <2> HIDE DEF d
  <2>5. /\ b \in AnAccount /\ ~b.on /\ Len(b.calls) = Len(d.calls) /\ OwnCalls(b.calls)
        /\ \A k \in 1 .. Len(d.calls) : k # Len(d.calls) => b.calls[k] = d.calls[k]
    BY <1>n, <2>4, FilledCallEnds
  <2> HIDE DEF b
  <2>6. Rested(Cut(t), b)
    BY <1>0, <2>1, <2>2, <2>4, <2>5
  <2> QED
    BY <2>3, <2>5, <2>6 DEF b, d
<1>3. CASE BeingFilled(t, p, a)
  <2>1. /\ Len(t) # 0 /\ p.tool = Len(t) /\ p.emitted /\ a.on /\ Len(a.calls) = Len(t)
        /\ ObservedOf(p) \in {0, Len(t)} /\ (t[Len(t)] = "ok" => ObservedOf(p) = Len(t))
    BY <1>3, <1>t DEF BeingFilled, EndsIn, Data, ObservedOf
  <2>2. PICK m \in Names : m = ObservedOf(p)
    BY <1>n DEF ObservedOf
  <2>3. CallSettled(p, a) = EndedWith(a, yes, m)
    BY <1>y, <2>1, <2>2 DEF CallSettled, Started, Owed
  <2> DEFINE b == EndedWith(a, yes, m)
  <2>4. /\ b \in AnAccount /\ ~b.on /\ Len(b.calls) = Len(a.calls) /\ OwnCalls(b.calls)
        /\ b.calls[Len(a.calls)].status = IF yes THEN "done" ELSE "failed"
        /\ m # 0 => b.calls[Len(a.calls)].preview = m
        /\ \A k \in 1 .. Len(a.calls) : k # Len(a.calls) => b.calls[k] = a.calls[k]
    BY <1>o, <2>1, <2>2, FilledCallEnds
  <2> HIDE DEF b
  <2>5. t[Len(t)] = "ok" => ShownRight(b.calls, Len(t))
    BY <1>y, <2>1, <2>2, <2>4 DEF ShownRight
  <2>6. Rested(Cut(t), b)
    BY <1>0, <2>1, <2>4, <2>5
  <2> QED
    BY <2>3, <2>4, <2>6 DEF b
<1> QED
  BY <1>1, <1>2, <1>3 DEF ReActTie

\* What a parser made of some input follows what the agent told.
Follows(one, t, s, a) ==
  /\ one \in Fed /\ one.ev \in Seq(GEvent)
  /\ \E b \in AnAccount : Comes(a, one.ev, b) /\ ReActTie(t, s, one.p, b)

LEMMA FedFields == \A one \in Fed : one.p \in AParser /\ one.ev \in Seq(AnEvent)
BY DEF Fed

\* A section that is entered: the call before it has ended.
LEMMA SectionEntered ==
  ASSUME NEW t \in Tellings, NEW s, NEW p \in AParser, NEW a \in AnAccount, ReActTie(t, s, p, a),
         NEW g \in ASegment
  PROVE  /\ g.k = "thought" => Follows(ReAct(p, g), Cut(t), "free", a)
         /\ g.k = "answer" => Follows(ReAct(p, g), Cut(t), "answer", a)
         /\ g.k = "action" /\ g.n = Len(t) + 1 /\ g.n <= Calls
              => Follows(ReAct(p, g), Append(Cut(t), "open"), "free", a)
<1> DEFINE b == CallSettled(p, a)
           q == ReAct(p, g).p
           u == Cut(t)
<1>1. b \in AnAccount /\ Rested(u, b)
  BY CallsRest
<1>2. u \in Tellings /\ Len(u) = Len(t) /\ Len(t) \in Nat
  BY CutIs, TellingIs
<1>3. ReAct(p, g) \in Fed
  BY ReActFed
<1>4. g.k \in {"thought", "answer", "action"} =>
        /\ q.section = g.k /\ ~q.emitted /\ q.tool = IF g.k = "action" THEN g.n ELSE 0
        /\ ReAct(p, g).ev \in Seq(GEvent) /\ Comes(a, ReAct(p, g).ev, b)
  BY ReActSettles
<1> HIDE DEF b, q, u
<1>5. ASSUME g.k \in {"thought", "answer"}, NEW st, st = IF g.k = "answer" THEN "answer" ELSE "free"
      PROVE  ReActTie(u, st, q, b)
  <2>1. q.section = g.k /\ ~q.emitted /\ q.tool = 0
    BY <1>4, <1>5
  <2>2. Resting(u, q, b)
    BY <1>1, <1>5, <2>1 DEF Resting
  <2>3. (st = "observed" <=> q.section = "observation") /\ (st = "answer" <=> q.section = "answer")
    BY <1>5, <2>1
  <2>4. /\ OwnCalls(b.calls)
        /\ \A k \in 1 .. Len(u) : u[k] \in ReActFates /\ (u[k] = "ok" => ShownRight(b.calls, k))
    BY <1>1 DEF Rested
  <2> QED
    BY <2>2, <2>3, <2>4 DEF ReActTie
<1>6. ASSUME g.k = "action", g.n = Len(t) + 1, g.n <= Calls PROVE ReActTie(Append(u, "open"), "free", q, b)
  <2> DEFINE w == Append(u, "open")
  <2>1. q.section = "action" /\ ~q.emitted /\ q.tool = g.n
    BY <1>4, <1>6
  <2>2. /\ w \in Tellings /\ Len(w) = Len(t) + 1 /\ w[Len(t) + 1] = "open" /\ EndsIn(w, "open")
        /\ \A k \in 1 .. Len(t) : w[k] = u[k]
    BY <1>2, <1>6, AddedIs, FatesAre
  <2> HIDE DEF w
  <2>3. /\ OwnCalls(b.calls) /\ ~b.on /\ Len(b.calls) = Len(t)
        /\ \A k \in 1 .. Len(t) : u[k] \in ReActFates /\ (u[k] = "ok" => ShownRight(b.calls, k))
    BY <1>1, <1>2 DEF Rested
  <2>4. OnlyNamed(w, q, b)
    BY <1>2, <1>6, <2>1, <2>2, <2>3 DEF OnlyNamed, Data
  <2>5. \A k \in 1 .. Len(w) : /\ w[k] \in ReActFates
                               /\ w[k] = "ok" /\ k # Len(w) => ShownRight(b.calls, k)
    <3> SUFFICES ASSUME NEW k \in 1 .. Len(w)
                 PROVE /\ w[k] \in ReActFates
                       /\ w[k] = "ok" /\ k # Len(w) => ShownRight(b.calls, k)
      OBVIOUS
    <3>1. CASE k = Len(w)
      BY <2>2, <3>1 DEF ReActFates
    <3>2. CASE k # Len(w)
      <4>1. k \in 1 .. Len(t)
        BY <1>2, <2>2, <3>2
      <4> QED
        BY <2>2, <2>3, <4>1
    <3> QED
      BY <3>1, <3>2
  <2> QED
    BY <2>1, <2>3, <2>4, <2>5 DEF ReActTie, w
<1> QED
  BY <1>1, <1>3, <1>4, <1>5, <1>6 DEF Follows, b, q, u

\* A call that is given its input, and one whose result is printed.
LEMMA InputGiven ==
  ASSUME NEW t \in Tellings, NEW s, NEW p \in AParser, NEW a \in AnAccount, ReActTie(t, s, p, a),
         NEW g \in ASegment, g.k = "input", EndsIn(t, "open")
  PROVE  Follows(ReAct(p, g), Came(t, "input"), s, a)
<1>t. /\ t \in Seq(Fates) /\ Len(t) \in Nat /\ t # <<>> /\ Len(t) # 0
  BY TellingIs DEF EndsIn
<1>1. /\ OnlyNamed(t, p, a) /\ OwnCalls(a.calls)
      /\ \A k \in 1 .. Len(t) : t[k] \in ReActFates /\ (t[k] = "ok" /\ k # Len(t) => ShownRight(a.calls, k))
  <2>1. Open(t) /\ t[Len(t)] = "open"
    BY TellingIs DEF EndsIn
  <2>2. ~Resting(t, p, a)
    BY <2>1 DEF Resting, Rested
  <2>3. ~BeingFilled(t, p, a)
    BY <2>1 DEF BeingFilled, EndsIn
  <2> QED
    BY <2>2, <2>3 DEF ReActTie
<1>n. p.tool \in Names
  BY ParserFields
<1>2. PICK n \in Names \ {0} : n = p.tool /\ n = Len(a.calls) + 1 /\ n = Len(t)
  <2>1. p.tool = Len(t) /\ Len(a.calls) = Len(t) - 1
    BY <1>1 DEF OnlyNamed
  <2>2. p.tool # 0 /\ p.tool = Len(a.calls) + 1
    BY <1>t, <2>1
  <2> QED
    BY <1>n, <2>1, <2>2
<1> DEFINE b == Named(a, n)
           q == ReAct(p, g).p
           w == Came(t, "input")
<1>3. /\ b \in AnAccount /\ b.on /\ Len(b.calls) = n /\ OwnCalls(b.calls)
      /\ \A k \in 1 .. n : k # n => b.calls[k] = a.calls[k]
  BY <1>1, <1>2, NamedCallEnds
<1>4. /\ q.section = "input" /\ q.emitted /\ q.tool = n
      /\ ReAct(p, g).ev \in Seq(GEvent) /\ Comes(a, ReAct(p, g).ev, b)
  BY <1>2, ReActStarts
<1>5. /\ w \in Tellings /\ Len(w) = Len(t) /\ w[Len(t)] = "input" /\ EndsIn(w, "input")
      /\ \A k \in 1 .. Len(t) : k # Len(t) => w[k] = t[k]
  BY <1>t, CameIs, FatesAre
<1> HIDE DEF b, q, w
<1>6. BeingFilled(w, q, b)
  BY <1>2, <1>3, <1>4, <1>5 DEF BeingFilled, EndsIn, Data
<1>7. (s = "observed" <=> q.section = "observation") /\ (s = "answer" <=> q.section = "answer")
  <2>1. p.section # "observation" /\ p.section # "answer"
    BY <1>1 DEF OnlyNamed, Data
  <2> QED
    BY <1>4, <2>1 DEF ReActTie
<1>8. \A k \in 1 .. Len(w) : w[k] \in ReActFates /\ (w[k] = "ok" /\ k # Len(w) => ShownRight(b.calls, k))
  <2> SUFFICES ASSUME NEW k \in 1 .. Len(t)
               PROVE  w[k] \in ReActFates /\ (w[k] = "ok" /\ k # Len(t) => ShownRight(b.calls, k))
    BY <1>5
  <2>1. CASE k = Len(t)
    BY <1>5, <2>1 DEF ReActFates
  <2>2. CASE k # Len(t)
    BY <1>1, <1>2, <1>3, <1>5, <2>2 DEF ShownRight
  <2> QED
    BY <2>1, <2>2
<1>9. ReActTie(w, s, q, b)
  BY <1>3, <1>6, <1>7, <1>8 DEF ReActTie
<1> QED
  BY <1>3, <1>4, <1>9, ReActFed DEF Follows, b, q, w

LEMMA ResultPrinted ==
  ASSUME NEW t \in Tellings, NEW s, NEW p \in AParser, NEW a \in AnAccount, ReActTie(t, s, p, a),
         NEW g \in ASegment, g.k = "observation", g.n = Len(t), Open(t)
  PROVE  Follows(ReAct(p, g), Came(t, "ok"), "observed", a)
<1>t. /\ t \in Seq(Fates) /\ Len(t) \in Nat /\ t # <<>> /\ Len(t) # 0
      /\ EndsIn(t, "open") \/ EndsIn(t, "input")
  BY TellingIs DEF EndsIn
<1>1. /\ OnlyNamed(t, p, a) \/ BeingFilled(t, p, a)
      /\ OwnCalls(a.calls)
      /\ \A k \in 1 .. Len(t) : t[k] \in ReActFates /\ (t[k] = "ok" /\ k # Len(t) => ShownRight(a.calls, k))
  <2>1. ~Resting(t, p, a)
    BY DEF Resting, Rested
  <2> QED
    BY <2>1 DEF ReActTie
<1>n. p.tool \in Names
  BY ParserFields
<1>2. p.tool = Len(t) /\ p.tool # 0
  BY <1>t, <1>1 DEF OnlyNamed, BeingFilled
<1> DEFINE b == Started(p, a)
           q == ReAct(p, g).p
           w == Came(t, "ok")
<1>3. /\ b \in AnAccount /\ b.on /\ Len(b.calls) = Len(t) /\ OwnCalls(b.calls)
      /\ \A k \in 1 .. Len(t) : k # Len(t) => b.calls[k] = a.calls[k]
  <2>1. CASE OnlyNamed(t, p, a)
    <3>1. Len(a.calls) = Len(t) - 1 /\ ~p.emitted
      BY <2>1 DEF OnlyNamed
    <3>2. PICK n \in Names \ {0} : n = p.tool
      BY <1>n, <1>2
    <3>3. n = Len(a.calls) + 1 /\ n = Len(t)
      BY <1>t, <1>2, <3>1, <3>2
    <3>4. b = Named(a, n)
      BY <1>2, <3>1, <3>2 DEF Started, Owed
    <3> QED
      BY <1>1, <3>3, <3>4, NamedCallEnds
  <2>2. CASE BeingFilled(t, p, a)
    BY <1>1, <2>2 DEF BeingFilled, Started, Owed
  <2> QED
    BY <1>1, <2>1, <2>2
<1>4. /\ q.section = "observation" /\ q.emitted /\ q.tool = Len(t) /\ q.observed = Len(t)
      /\ ReAct(p, g).ev \in Seq(GEvent) /\ Comes(a, ReAct(p, g).ev, b)
  BY <1>2, ReActStarts
<1>5. /\ w \in Tellings /\ Len(w) = Len(t) /\ w[Len(t)] = "ok" /\ EndsIn(w, "ok") /\ w # <<>>
      /\ \A k \in 1 .. Len(t) : k # Len(t) => w[k] = t[k]
  BY <1>t, CameIs, FatesAre DEF EndsIn
<1> HIDE DEF b, q, w
<1>6. BeingFilled(w, q, b)
  BY <1>3, <1>4, <1>5 DEF BeingFilled
<1>7. \A k \in 1 .. Len(w) : w[k] \in ReActFates /\ (w[k] = "ok" /\ k # Len(w) => ShownRight(b.calls, k))
  <2> SUFFICES ASSUME NEW k \in 1 .. Len(t)
               PROVE  w[k] \in ReActFates /\ (w[k] = "ok" /\ k # Len(t) => ShownRight(b.calls, k))
    BY <1>5
  <2>1. CASE k = Len(t)
    BY <1>5, <2>1 DEF ReActFates
  <2>2. CASE k # Len(t)
    BY <1>1, <1>3, <1>5, <2>2 DEF ShownRight
  <2> QED
    BY <2>1, <2>2
<1>8. ReActTie(w, "observed", q, b)
  BY <1>3, <1>4, <1>6, <1>7 DEF ReActTie
<1> QED
  BY <1>3, <1>4, <1>8, ReActFed DEF Follows, b, q, w

LEMMA ProseRead ==
  ASSUME NEW t, NEW s, NEW p \in AParser, NEW a \in AnAccount, ReActTie(t, s, p, a),
         NEW g \in ASegment, g.k = "plain"
  PROVE  Follows(ReAct(p, g), t, s, a)
<1>1. ReAct(p, g).p = p /\ ReAct(p, g).ev \in Seq(GEvent) /\ Comes(a, ReAct(p, g).ev, a)
  BY ReActKeepsOn
<1> QED
  BY <1>1, ReActFed DEF Follows

\* Segment after segment of a line.
LineLeads(g, t, s, t2, s2) ==
  \A p \in AParser, a \in AnAccount : ReActTie(t, s, p, a) => Follows(ReAct(p, g), t2, s2, a)

LEMMA ListsGrow ==
  ASSUME NEW S
  PROVE  /\ \A g, h \in S : Append(<<g>>, h) = <<g, h>> /\ <<g, h>> \in Seq(S)
         /\ \A g, h, i \in S : Append(<<g, h>>, i) = <<g, h, i>> /\ <<g, h, i>> \in Seq(S)
<1>1. ASSUME NEW u \in Seq(S), NEW v \in Seq(S), Len(u) = Len(v), \A k \in 1 .. Len(v) : u[k] = v[k]
      PROVE  u = v
  BY <1>1
<1>2. ASSUME NEW g \in S, NEW h \in S PROVE Append(<<g>>, h) = <<g, h>> /\ <<g, h>> \in Seq(S)
  <2> DEFINE u == Append(<<g>>, h)
             v == <<g, h>>
  <2>1. u \in Seq(S) /\ Len(u) = 2 /\ u[1] = g /\ u[2] = h
    OBVIOUS
  <2>2. v \in Seq(S) /\ Len(v) = 2 /\ v[1] = g /\ v[2] = h
    OBVIOUS
  <2> HIDE DEF u, v
  <2>3. \A k \in 1 .. Len(v) : u[k] = v[k]
    BY <2>1, <2>2
  <2> QED
    BY <1>1, <2>1, <2>2, <2>3 DEF u, v
<1>3. ASSUME NEW g \in S, NEW h \in S, NEW i \in S
      PROVE  Append(<<g, h>>, i) = <<g, h, i>> /\ <<g, h, i>> \in Seq(S)
  <2> DEFINE u == Append(<<g, h>>, i)
             v == <<g, h, i>>
  <2>1. u \in Seq(S) /\ Len(u) = 3 /\ u[1] = g /\ u[2] = h /\ u[3] = i
    OBVIOUS
  <2>2. v \in Seq(S) /\ Len(v) = 3 /\ v[1] = g /\ v[2] = h /\ v[3] = i
    OBVIOUS
  <2> HIDE DEF u, v
  <2>3. \A k \in 1 .. Len(v) : u[k] = v[k]
    BY <2>1, <2>2
  <2> QED
    BY <1>1, <2>1, <2>2, <2>3 DEF u, v
<1> QED
  BY <1>2, <1>3

LEMMA SplitSteps ==
  ASSUME NEW p \in AParser
  PROVE  /\ Step(p, <<>>) \in Fed
         /\ \A g \in ASegment : SplitFeed(p, <<g>>) = SplitNext(Step(p, <<>>), g)
         /\ \A g, h \in ASegment :
              SplitFeed(p, <<g, h>>) = SplitNext(SplitNext(Step(p, <<>>), g), h)
         /\ \A g, h, i \in ASegment :
              SplitFeed(p, <<g, h, i>>) = SplitNext(SplitNext(SplitNext(Step(p, <<>>), g), h), i)
<1> DEFINE none == Step(p, <<>>)
<1>1. none \in Fed
  BY EventLists, StepMade
<1> HIDE DEF none
<1>2. ASSUME NEW g \in ASegment
      PROVE  /\ FoldsTo(Fed, SplitBy, none, <<g>>, SplitNext(none, g)) /\ SplitNext(none, g) \in Fed
             /\ <<g>> \in Seq(ASegment)
  <2>1. FoldsTo(Fed, SplitBy, none, <<g>>, SplitBy[<<none, g>>])
    BY <1>1, SplitByTyped, FoldsOne
  <2>2. SplitBy[<<none, g>>] = SplitNext(none, g) /\ SplitBy[<<none, g>>] \in Fed
    BY <1>1, SplitByTyped
  <2>3. <<g>> \in Seq(ASegment)
    OBVIOUS
  <2> QED
    BY <2>1, <2>2, <2>3
<1>3. ASSUME NEW l \in Seq(ASegment), NEW x \in Fed, NEW g \in ASegment,
             FoldsTo(Fed, SplitBy, none, l, x)
      PROVE  FoldsTo(Fed, SplitBy, none, Append(l, g), SplitNext(x, g)) /\ SplitNext(x, g) \in Fed
  <2>1. FoldsTo(Fed, SplitBy, none, Append(l, g), SplitBy[<<x, g>>])
    BY <1>3, SplitByTyped, FoldsOn
  <2>2. SplitBy[<<x, g>>] = SplitNext(x, g) /\ SplitBy[<<x, g>>] \in Fed
    BY SplitByTyped
  <2> QED
    BY <2>1, <2>2
<1>4. ASSUME NEW l \in Seq(ASegment), NEW x, FoldsTo(Fed, SplitBy, none, l, x) PROVE SplitFeed(p, l) = x
  <2>1. FoldsTo(Fed, SplitBy, none, l, SplitFeed(p, l))
    BY SplitFed DEF none
  <2> QED
    BY <1>4, <2>1, FoldsOnce
<1>5. \A g \in ASegment : SplitFeed(p, <<g>>) = SplitNext(none, g)
  BY <1>2, <1>4
<1>6. ASSUME NEW g \in ASegment, NEW h \in ASegment
      PROVE  /\ FoldsTo(Fed, SplitBy, none, <<g, h>>, SplitNext(SplitNext(none, g), h))
             /\ SplitNext(SplitNext(none, g), h) \in Fed /\ <<g, h>> \in Seq(ASegment)
  <2>1. Append(<<g>>, h) = <<g, h>> /\ <<g, h>> \in Seq(ASegment)
    BY ListsGrow
  <2>2. /\ FoldsTo(Fed, SplitBy, none, Append(<<g>>, h), SplitNext(SplitNext(none, g), h))
        /\ SplitNext(SplitNext(none, g), h) \in Fed
    BY <1>2, <1>3
  <2> QED
    BY <2>1, <2>2
<1>7. \A g, h \in ASegment : SplitFeed(p, <<g, h>>) = SplitNext(SplitNext(none, g), h)
  BY <1>6, <1>4
<1>8. ASSUME NEW g \in ASegment, NEW h \in ASegment, NEW i \in ASegment
      PROVE  SplitFeed(p, <<g, h, i>>) = SplitNext(SplitNext(SplitNext(none, g), h), i)
  <2>1. Append(<<g, h>>, i) = <<g, h, i>> /\ <<g, h, i>> \in Seq(ASegment)
    BY ListsGrow
  <2>2. FoldsTo(Fed, SplitBy, none, Append(<<g, h>>, i), SplitNext(SplitNext(SplitNext(none, g), h), i))
    BY <1>6, <1>3
  <2> QED
    BY <1>4, <2>1, <2>2
<1> QED
  BY <1>1, <1>5, <1>7, <1>8 DEF none

LEMMA NothingFollows ==
  ASSUME NEW t, NEW s, NEW p \in AParser, NEW a \in AnAccount, ReActTie(t, s, p, a)
  PROVE  Follows(Step(p, <<>>), t, s, a)
<1>1. Step(p, <<>>) \in Fed /\ Step(p, <<>>).p = p /\ Step(p, <<>>).ev = <<>>
  BY SplitSteps, StepIs
<1>2. <<>> \in Seq(GEvent) /\ Comes(a, <<>>, a)
  BY ComesNothing, EventsListed
<1> QED
  BY <1>1, <1>2 DEF Follows

LEMMA ComesSomewhere == \A a, b, ev : ev \in Seq(GEvent) /\ Comes(a, ev, b) => b \in AnAccount
BY FoldEnds DEF Comes

LEMMA SplitGoesOn ==
  ASSUME NEW acc, NEW t, NEW s, NEW a, Follows(acc, t, s, a), s \notin {"observed", "answer"},
         NEW g \in ASegment, NEW t2, NEW s2, LineLeads(g, t, s, t2, s2)
  PROVE  Follows(SplitNext(acc, g), t2, s2, a)
<1>1. PICK b : Comes(a, acc.ev, b) /\ ReActTie(t, s, acc.p, b)
  BY DEF Follows
<1>2. acc \in Fed /\ acc.ev \in Seq(GEvent) /\ acc.p \in AParser /\ b \in AnAccount
  BY <1>1, FedFields, ComesSomewhere DEF Follows
<1>3. acc.p.section # "observation" /\ acc.p.section # "answer"
  BY <1>1 DEF ReActTie
<1> DEFINE one == ReAct(acc.p, g)
<1>4. Follows(one, t2, s2, b)
  BY <1>1, <1>2 DEF LineLeads
<1>5. SplitNext(acc, g) = Step(one.p, acc.ev \o one.ev)
  BY <1>3 DEF SplitNext
<1> HIDE DEF one
<1>6. PICK c \in AnAccount : Comes(b, one.ev, c) /\ ReActTie(t2, s2, one.p, c)
  BY <1>4 DEF Follows
<1>7. one \in Fed /\ one.ev \in Seq(GEvent) /\ one.p \in AParser
  BY <1>4, FedFields DEF Follows
<1>8. acc.ev \o one.ev \in Seq(GEvent) /\ Comes(a, acc.ev \o one.ev, c)
  BY <1>1, <1>2, <1>6, <1>7, JoinedComes
<1>9. Step(one.p, acc.ev \o one.ev) \in Fed
  BY <1>7, <1>8, EventsListed, StepMade
<1> QED
  BY <1>5, <1>6, <1>8, <1>9, StepIs DEF Follows

LEMMA DataKept == \A acc, g : acc.p.section = "observation" => SplitNext(acc, g) = acc
BY DEF SplitNext

\* A line of one, two or three segments.
LEMMA LineOfOne ==
  ASSUME NEW t, NEW s, NEW p \in AParser, NEW a \in AnAccount, ReActTie(t, s, p, a),
         NEW g \in ASegment, NEW t2, NEW s2, LineLeads(g, t, s, t2, s2)
  PROVE  Follows(ReActFeed(p, <<g>>), t2, s2, a)
<1>1. CASE p.section \in Data
  <2>1. ReActFeed(p, <<g>>) = ReAct(p, g)
    <3>1. Head(<<g>>) = g
      OBVIOUS
    <3> QED
      BY <1>1, <3>1 DEF ReActFeed
  <2> QED
    BY <2>1 DEF LineLeads
<1>2. CASE p.section \notin Data
  <2>1. ReActFeed(p, <<g>>) = SplitNext(Step(p, <<>>), g)
    BY <1>2, SplitSteps DEF ReActFeed
  <2>2. s \notin {"observed", "answer"}
    BY <1>2 DEF ReActTie, Data
  <2>3. Follows(Step(p, <<>>), t, s, a)
    BY NothingFollows
  <2> QED
    BY <2>1, <2>2, <2>3, SplitGoesOn
<1> QED
  BY <1>1, <1>2

LEMMA LineOfTwo ==
  ASSUME NEW t, NEW s, NEW p \in AParser, NEW a \in AnAccount, ReActTie(t, s, p, a),
         s \notin {"observed", "answer"},
         NEW g \in ASegment, NEW t2, NEW s2, LineLeads(g, t, s, t2, s2), NEW h \in ASegment
  PROVE  /\ s2 = "observed" => Follows(ReActFeed(p, <<g, h>>), t2, s2, a)
         /\ \A t3, s3 : s2 \notin {"observed", "answer"} /\ LineLeads(h, t2, s2, t3, s3) =>
              /\ Follows(ReActFeed(p, <<g, h>>), t3, s3, a)
              /\ \A i \in ASegment : \A t4, s4 : s3 \notin {"observed", "answer"} /\ LineLeads(i, t3, s3, t4, s4)
                   => Follows(ReActFeed(p, <<g, h, i>>), t4, s4, a)
<1> DEFINE one == SplitNext(Step(p, <<>>), g)
           two == SplitNext(one, h)
<1>1. p.section \notin Data
  BY DEF ReActTie, Data
<1>2. /\ ReActFeed(p, <<g, h>>) = two
      /\ \A i \in ASegment : ReActFeed(p, <<g, h, i>>) = SplitNext(two, i)
  BY <1>1, SplitSteps DEF ReActFeed
<1>3. Follows(one, t2, s2, a)
  BY NothingFollows, SplitGoesOn
<1> HIDE DEF one, two
<1>4. s2 = "observed" => two = one
  <2> SUFFICES ASSUME s2 = "observed" PROVE two = one
    OBVIOUS
  <2>1. one.p.section = "observation"
    BY <1>3 DEF Follows, ReActTie
  <2> QED
    BY <2>1, DataKept DEF two
<1>5. ASSUME NEW t3, NEW s3, s2 \notin {"observed", "answer"}, LineLeads(h, t2, s2, t3, s3)
      PROVE  Follows(two, t3, s3, a)
  BY <1>3, <1>5, SplitGoesOn DEF two
<1>6. ASSUME NEW t3, NEW s3, s2 \notin {"observed", "answer"}, LineLeads(h, t2, s2, t3, s3),
             NEW i \in ASegment, NEW t4, NEW s4, s3 \notin {"observed", "answer"}, LineLeads(i, t3, s3, t4, s4)
      PROVE  Follows(SplitNext(two, i), t4, s4, a)
  <2>1. Follows(two, t3, s3, a)
    BY <1>5, <1>6
  <2> QED
    BY <1>6, <2>1, SplitGoesOn
<1> QED
  BY <1>2, <1>3, <1>4, <1>5, <1>6

LEMMA SaysIs == \A l, t, s : Says(l, t, s).line = l /\ Says(l, t, s).told = t /\ Says(l, t, s).stage = s
BY DEF Says

LEMMA SegIs ==
  /\ \A k, n : Seg(k, n).k = k /\ Seg(k, n).n = n
  /\ \A k \in SegKinds, n \in Names : Seg(k, n) \in ASegment
BY DEF Seg, ASegment

LEMMA ReActLines ==
  \A d, p, line : d # "smallcode" /\ Head(line).k \notin Markers \cup Extras => Feed(d, p, line) = ReActFeed(p, line)
BY DEF Feed

\* Whatever an agent that speaks ReAct prints next, its rows follow.
LEMMA ReActFollows ==
  ASSUME NEW t \in Tellings, NEW s \in Stages, NEW p \in AParser, NEW a \in AnAccount,
         ReActTie(t, s, p, a), NEW y \in SaysReAct(t, s)
  PROVE  Follows(Feed("react", p, y.line), y.told, y.stage, a)
<1> DEFINE n == Len(t) + 1
           LineGoes(l, t2, s2) == y = Says(l, t2, s2) /\ Follows(ReActFeed(p, l), t2, s2, a)
                              /\ Head(l).k \in {"plain", "thought", "answer", "action", "input", "observation"}
<1>0. ASSUME NEW l, NEW t2, NEW s2, LineGoes(l, t2, s2) PROVE Follows(Feed("react", p, y.line), y.told, y.stage, a)
  <2>1. Head(l).k \notin Markers \cup Extras
    BY <1>0 DEF Markers, Extras
  <2>2. Feed("react", p, l) = ReActFeed(p, l)
    BY <2>1, ReActLines
  <2> QED
    BY <1>0, <2>2, SaysIs
<1>t. /\ Len(t) \in Names /\ Len(t) \in Nat /\ 0 \in Names /\ (n <= Calls => n \in Names)
      /\ Cut(t) \in Tellings /\ Len(Cut(t)) = Len(t) /\ Cut(Cut(t)) = Cut(t)
      /\ (Open(t) => t # <<>>)
  BY TellingsGoOn, NamesAre, CutIs DEF Names
<1>h. \A g, h, i : Head(<<g>>) = g /\ Head(<<g, h>>) = g /\ Head(<<g, h, i>>) = g
  OBVIOUS
<1>p. LineLeads(Seg("plain", 0), t, s, t, s)
  BY <1>t, SegIs, KindsAre, ProseRead DEF LineLeads
<1>c. ASSUME NEW u \in Tellings, NEW st, Len(u) = Len(t), Cut(u) = Cut(t)
      PROVE  /\ LineLeads(Seg("thought", 0), u, st, Cut(t), "free")
             /\ LineLeads(Seg("answer", 0), u, st, Cut(t), "answer")
             /\ n <= Calls => LineLeads(Seg("action", n), u, st, Append(Cut(t), "open"), "free")
  BY <1>c, <1>t, SegIs, KindsAre, SectionEntered DEF LineLeads
<1>i. ASSUME NEW u \in Tellings, NEW st, EndsIn(u, "open"), NEW m \in Names
      PROVE  LineLeads(Seg("input", m), u, st, Came(u, "input"), st)
  BY <1>i, SegIs, KindsAre, InputGiven DEF LineLeads
<1>o. ASSUME NEW u \in Tellings, NEW st, Open(u), NEW m \in Names, m = Len(u)
      PROVE  LineLeads(Seg("observation", m), u, st, Came(u, "ok"), "observed")
  BY <1>o, SegIs, KindsAre, ResultPrinted DEF LineLeads
<1>s. \A k \in SegKinds, m \in Names : Seg(k, m) \in ASegment
  BY SegIs
<1>1. CASE y = Says(<<Seg("plain", 0)>>, t, s)
  <2>1. Follows(ReActFeed(p, <<Seg("plain", 0)>>), t, s, a)
    BY <1>p, <1>s, <1>t, KindsAre, LineOfOne
  <2> QED
    BY <1>0, <1>1, <1>h, <2>1, SegIs
<1>2. CASE s \in {"observed", "answer"} /\ y = Says(<<Seg("plain", 0), Seg("action", 1)>>, t, s)
  <2>1. p.section \in Data
    BY <1>2 DEF ReActTie, Data
  <2>2. ReActFeed(p, <<Seg("plain", 0), Seg("action", 1)>>) = ReAct(p, Seg("plain", 0))
    BY <1>h, <2>1 DEF ReActFeed
  <2>3. Follows(ReAct(p, Seg("plain", 0)), t, s, a)
    BY <1>p DEF LineLeads
  <2> QED
    BY <1>0, <1>2, <1>h, <2>2, <2>3, SegIs
<1>3. CASE y = Says(<<Seg("thought", 0)>>, Cut(t), "free")
  <2>1. Follows(ReActFeed(p, <<Seg("thought", 0)>>), Cut(t), "free", a)
    BY <1>c, <1>s, <1>t, KindsAre, LineOfOne
  <2> QED
    BY <1>0, <1>3, <1>h, <2>1, SegIs
<1>4. CASE y = Says(<<Seg("answer", 0)>>, Cut(t), "answer")
  <2>1. Follows(ReActFeed(p, <<Seg("answer", 0)>>), Cut(t), "answer", a)
    BY <1>c, <1>s, <1>t, KindsAre, LineOfOne
  <2> QED
    BY <1>0, <1>4, <1>h, <2>1, SegIs
<1>5. CASE n <= Calls /\ y = Says(<<Seg("action", n)>>, Append(Cut(t), "open"), "free")
  <2>1. Follows(ReActFeed(p, <<Seg("action", n)>>), Append(Cut(t), "open"), "free", a)
    BY <1>5, <1>c, <1>s, <1>t, KindsAre, LineOfOne
  <2> QED
    BY <1>0, <1>5, <1>h, <2>1, SegIs
<1>6. CASE /\ s \notin {"observed", "answer"} /\ n <= Calls
           /\ y = Says(<<Seg("thought", 0), Seg("action", n)>>, Append(Cut(t), "open"), "free")
  <2>1. LineLeads(Seg("thought", 0), t, s, Cut(t), "free")
    BY <1>c, <1>t
  <2>2. LineLeads(Seg("action", n), Cut(t), "free", Append(Cut(t), "open"), "free")
    BY <1>6, <1>c, <1>t
  <2>3. Follows(ReActFeed(p, <<Seg("thought", 0), Seg("action", n)>>), Append(Cut(t), "open"), "free", a)
    <3>1. PICK g \in ASegment, h \in ASegment, f \in {"free"} : g = Seg("thought", 0) /\ h = Seg("action", n) /\ f = "free"
      BY <1>6, <1>s, <1>t, KindsAre
    <3>2. LineLeads(g, t, s, Cut(t), f) /\ LineLeads(h, Cut(t), f, Append(Cut(t), "open"), f) /\ f \notin {"observed", "answer"}
      BY <2>1, <2>2, <3>1
    <3>3. Follows(ReActFeed(p, <<g, h>>), Append(Cut(t), "open"), f, a)
      BY <1>6, <3>2, LineOfTwo
    <3> QED
      BY <3>1, <3>3
  <2> QED
    BY <1>0, <1>6, <1>h, <2>3, SegIs
<1>7. CASE /\ s \notin {"observed", "answer"} /\ n <= Calls
           /\ y = Says(<<Seg("action", n), Seg("input", n), Seg("observation", n)>>,
                       Append(Cut(t), "ok"), "observed")
  <2> DEFINE u == Append(Cut(t), "open")
             w == Came(u, "input")
  <2>1. /\ u \in Tellings /\ EndsIn(u, "open") /\ u # <<>> /\ Len(u) = n
        /\ \A x \in Fates : Came(u, x) = Append(Cut(t), x)
    BY <1>7, <1>t, AddedIs, FatesAre
  <2>2. w \in Tellings /\ EndsIn(w, "input") /\ Len(w) = n /\ Came(w, "ok") = Append(Cut(t), "ok")
    <3> HIDE DEF u
    <3> QED
      BY <2>1, CameIs, FatesAre
  <2>3. Open(w)
    BY <2>2, TellingIs
  <2>4. LineLeads(Seg("action", n), t, s, u, "free")
    BY <1>7, <1>c, <1>t
  <2>5. LineLeads(Seg("input", n), u, "free", w, "free")
    BY <1>7, <1>i, <1>t, <2>1
  <2> HIDE DEF u, w
  <2>6. LineLeads(Seg("observation", n), w, "free", Append(Cut(t), "ok"), "observed")
    BY <1>7, <1>o, <1>t, <2>2, <2>3
  <2>7. Follows(ReActFeed(p, <<Seg("action", n), Seg("input", n), Seg("observation", n)>>),
                Append(Cut(t), "ok"), "observed", a)
    <3>1. PICK g \in ASegment, h \in ASegment, i \in ASegment, f \in {"free"} :
            g = Seg("action", n) /\ h = Seg("input", n) /\ i = Seg("observation", n) /\ f = "free"
      BY <1>7, <1>s, <1>t, KindsAre
    <3>2. /\ LineLeads(g, t, s, u, f) /\ LineLeads(h, u, f, w, f) /\ f \notin {"observed", "answer"}
          /\ LineLeads(i, w, f, Append(Cut(t), "ok"), "observed")
      BY <2>4, <2>5, <2>6, <3>1
    <3>3. Follows(ReActFeed(p, <<g, h, i>>), Append(Cut(t), "ok"), "observed", a)
      BY <1>7, <3>2, LineOfTwo
    <3> QED
      BY <3>1, <3>3
  <2> QED
    BY <1>0, <1>7, <1>h, <2>7, SegIs
<1>8. CASE Open(t) /\ Last(t) = "open" /\ y = Says(<<Seg("input", Len(t))>>, Came(t, "input"), s)
  <2>1. EndsIn(t, "open")
    BY <1>8, <1>t, TellingIs DEF EndsIn
  <2>2. Follows(ReActFeed(p, <<Seg("input", Len(t))>>), Came(t, "input"), s, a)
    BY <1>i, <1>s, <1>t, <2>1, KindsAre, LineOfOne
  <2> QED
    BY <1>0, <1>8, <1>h, <2>2, SegIs
<1>9. CASE Open(t) /\ y = Says(<<Seg("observation", Len(t))>>, Came(t, "ok"), "observed")
  <2>1. Follows(ReActFeed(p, <<Seg("observation", Len(t))>>), Came(t, "ok"), "observed", a)
    BY <1>9, <1>o, <1>s, <1>t, KindsAre, LineOfOne
  <2> QED
    BY <1>0, <1>9, <1>h, <2>1, SegIs
<1>10. CASE /\ s # "answer" /\ Open(t)
            /\ y = Says(<<Seg("observation", Len(t)), Seg("action", 1)>>, Came(t, "ok"), "observed")
  <2>1. EndsIn(t, "open") \/ EndsIn(t, "input")
    BY <1>10, TellingIs
  <2>2. p.section # "observation"
    BY <1>10, <2>1 DEF ReActTie, Resting, Rested, OnlyNamed, BeingFilled, EndsIn, Data
  <2>3. s \notin {"observed", "answer"}
    BY <1>10, <2>2 DEF ReActTie
  <2>4. 1 \in Names
    BY NamesAre DEF Names
  <2>5. LineLeads(Seg("observation", Len(t)), t, s, Came(t, "ok"), "observed")
    BY <1>10, <1>o, <1>t
  <2>6. Follows(ReActFeed(p, <<Seg("observation", Len(t)), Seg("action", 1)>>), Came(t, "ok"), "observed", a)
    BY <1>s, <1>t, <2>3, <2>4, <2>5, KindsAre, LineOfTwo
  <2> QED
    BY <1>0, <1>10, <1>h, <2>6, SegIs
<1> QED
  BY <1>1, <1>2, <1>3, <1>4, <1>5, <1>6, <1>7, <1>8, <1>9, <1>10, TellingsGoOn, NamesAre DEF SaysReAct

\* What the rows of a run that has ended tell of the agent's calls.
OnlyNamedLast(d, t) == d = "react" /\ t # <<>> /\ Last(t) = "open"
RunTells(d, t, c) ==
  /\ Len(c) = Len(t) - (IF OnlyNamedLast(d, t) THEN 1 ELSE 0) /\ OwnCalls(c)
  /\ \A k \in 1 .. Len(c) : /\ t[k] = "ok" => c[k].status = "done"
                            /\ t[k] = "fail" => c[k].status = "failed"
                            /\ t[k] = "ok" /\ d = "react" => c[k].preview = k

LEMMA DrawsSomewhere == \A a, b, ev : ev \in Seq(GEvent) /\ Draws(a, ev, b) => b \in AnAccount
BY FoldEnds DEF Draws

LEMMA JoinedDraws ==
  ASSUME NEW s \in Seq(GEvent), NEW t \in Seq(GEvent), NEW a, NEW b, NEW c, Draws(a, s, b), Draws(b, t, c)
  PROVE  s \o t \in Seq(GEvent) /\ Draws(a, s \o t, c)
BY ComesJoin, EventsListed, Zenon

LEMMA ReActEnds ==
  ASSUME NEW t \in Tellings, NEW s, NEW p \in AParser, NEW a \in AnAccount, ReActTie(t, s, p, a)
  PROVE  /\ Flush("react", p) \in Seq(GEvent) /\ Draws(a, Flush("react", p), Abandoned(p, a))
         /\ RunTells("react", t, Abandoned(p, a).calls)
<1> DEFINE b == Abandoned(p, a)
<1>1. /\ EndTool(p) \in Seq(GEvent) /\ EndReasoning(p) \in Seq(GEvent) /\ Draws(a, EndTool(p), b)
      /\ b \in AnAccount
  BY OwedComes, DrawsSomewhere
<1>2. Draws(b, EndReasoning(p), b)
  BY <1>1, OwedComes
<1>3. Flush("react", p) = EndTool(p) \o EndReasoning(p)
  BY DEF Flush
<1>4. Flush("react", p) \in Seq(GEvent) /\ Draws(a, Flush("react", p), b)
  <2>1. PICK u \in Seq(GEvent), v \in Seq(GEvent), c \in AnAccount :
          u = EndTool(p) /\ v = EndReasoning(p) /\ c = b
    BY <1>1
  <2> HIDE DEF b
  <2>2. u \o v \in Seq(GEvent) /\ Draws(a, u \o v, c)
    BY <1>1, <1>2, <2>1, JoinedDraws
  <2> QED
    BY <1>3, <2>1, <2>2
<1>t. /\ Len(t) \in Nat /\ (t # <<>> <=> Len(t) # 0) /\ (t # <<>> => Last(t) = t[Len(t)])
      /\ (Open(t) <=> EndsIn(t, "open") \/ EndsIn(t, "input"))
  BY TellingIs
<1>o. /\ OwnCalls(a.calls)
      /\ \A k \in 1 .. Len(t) : /\ t[k] \in ReActFates
                                /\ t[k] = "ok" /\ k # Len(t) => ShownRight(a.calls, k)
  BY DEF ReActTie
<1>n. p.observed \in Names /\ 0 \in Names
  BY ParserFields, NamesAre
<1>y. PICK yes \in BOOLEAN : yes = TRUE
  OBVIOUS
<1>5. RunTells("react", t, b.calls)
  <2>1. CASE Resting(t, p, a)
    <3>1. b = a /\ Len(a.calls) = Len(t) /\ ~EndsIn(t, "open")
      BY <1>t, <2>1 DEF Resting, Rested, Abandoned
    <3>2. \A k \in 1 .. Len(t) : t[k] \in ReActFates /\ (t[k] = "ok" => ShownRight(a.calls, k))
      BY <2>1 DEF Resting, Rested
    <3>3. ~OnlyNamedLast("react", t)
      BY <1>t, <3>1 DEF OnlyNamedLast, EndsIn
    <3> QED
      BY <1>t, <1>o, <3>1, <3>2, <3>3 DEF RunTells, ShownRight, ReActFates
  <2>2. CASE OnlyNamed(t, p, a)
    <3>1. ~a.on /\ Len(a.calls) = Len(t) - 1 /\ OnlyNamedLast("react", t)
      BY <1>t, <2>2 DEF OnlyNamed, OnlyNamedLast, EndsIn
    <3>2. b = a
      BY <3>1 DEF Abandoned, EndedWith
    <3>3. \A k \in 1 .. Len(t) - 1 : t[k] \in ReActFates /\ (t[k] = "ok" => ShownRight(a.calls, k))
      BY <1>t, <1>o
    <3> QED
      BY <1>t, <1>o, <3>1, <3>2, <3>3 DEF RunTells, ShownRight, ReActFates
  <2>3. CASE BeingFilled(t, p, a)
    <3>1. /\ Len(t) # 0 /\ p.tool = Len(t) /\ p.emitted /\ a.on /\ Len(a.calls) = Len(t)
          /\ ObservedOf(p) \in {0, Len(t)} /\ (t[Len(t)] = "ok" => ObservedOf(p) = Len(t)) /\ t[Len(t)] # "open"
      BY <1>t, <2>3 DEF BeingFilled, EndsIn, Data, ObservedOf
    <3>2. PICK m \in Names : m = ObservedOf(p)
      BY <1>n DEF ObservedOf
    <3>3. b = EndedWith(a, yes, m)
      BY <1>y, <3>1, <3>2 DEF Abandoned
    <3>4. /\ Len(b.calls) = Len(a.calls) /\ OwnCalls(b.calls)
          /\ b.calls[Len(a.calls)].status = IF yes THEN "done" ELSE "failed"
          /\ m # 0 => b.calls[Len(a.calls)].preview = m
          /\ \A k \in 1 .. Len(a.calls) : k # Len(a.calls) => b.calls[k] = a.calls[k]
      BY <1>o, <3>1, <3>2, <3>3, FilledCallEnds
    <3> HIDE DEF b
    <3>5. ~OnlyNamedLast("react", t)
      BY <1>t, <3>1 DEF OnlyNamedLast
    <3>6. \A k \in 1 .. Len(t) : t[k] \in ReActFates /\ (t[k] = "ok" => ShownRight(b.calls, k))
      <4> SUFFICES ASSUME NEW k \in 1 .. Len(t)
                   PROVE  t[k] \in ReActFates /\ (t[k] = "ok" => ShownRight(b.calls, k))
        OBVIOUS
      <4>1. CASE k = Len(t)
        BY <1>o, <1>y, <3>1, <3>2, <3>4, <4>1 DEF ShownRight
      <4>2. CASE k # Len(t)
        BY <1>o, <3>1, <3>4, <4>2 DEF ShownRight
      <4> QED
        BY <4>1, <4>2
    <3> QED
      BY <1>t, <3>1, <3>4, <3>5, <3>6 DEF RunTells, ShownRight, ReActFates
  <2> QED
    BY <2>1, <2>2, <2>3 DEF ReActTie
<1> QED
  BY <1>4, <1>5

-----------------------------------------------------------------------------
(* An agent that speaks the protocol.                                      *)

Shows(t, c) ==
  /\ Len(c) = Len(t) /\ OwnCalls(c)
  /\ \A k \in 1 .. Len(t) : (t[k] = "ok" => c[k].status = "done") /\ (t[k] = "fail" => c[k].status = "failed")

\* A call that is announced, and one whose result is told.
LEMMA CallAnnounced ==
  ASSUME NEW t \in Tellings, Len(t) + 1 <= Calls, NEW a \in AnAccount, Shows(t, a.calls)
  PROVE  /\ Len(t) + 1 \in Names \ {0} /\ Named(a, Len(t) + 1) \in AnAccount
         /\ Named(a, Len(t) + 1).on /\ Shows(Append(t, "open"), Named(a, Len(t) + 1).calls)
<1>1. Len(t) \in Nat /\ Len(a.calls) = Len(t) /\ OwnCalls(a.calls)
  BY TellingIs DEF Shows
<1>2. PICK n \in Names \ {0} : n = Len(t) + 1
  BY <1>1, NamesAre DEF Names
<1> DEFINE b == Named(a, n)
           w == Append(t, "open")
<1>3. /\ b \in AnAccount /\ b.on /\ Len(b.calls) = n /\ OwnCalls(b.calls)
      /\ \A k \in 1 .. n : k # n => b.calls[k] = a.calls[k]
  BY <1>1, <1>2, NamedCallEnds
<1>4. Len(w) = n /\ w[n] = "open" /\ \A k \in 1 .. Len(t) : w[k] = t[k]
  BY <1>2, AddedIs, FatesAre
<1> HIDE DEF b, w
<1>5. ASSUME NEW k \in 1 .. n
      PROVE  (w[k] = "ok" => b.calls[k].status = "done") /\ (w[k] = "fail" => b.calls[k].status = "failed")
  <2>1. CASE k = n
    BY <1>4, <2>1
  <2>2. CASE k # n
    <3>1. k \in 1 .. Len(t)
      BY <1>1, <1>2, <2>2
    <3> QED
      BY <1>3, <1>4, <2>2, <3>1 DEF Shows
  <2> QED
    BY <2>1, <2>2
<1>6. Shows(w, b.calls)
  BY <1>3, <1>4, <1>5 DEF Shows
<1> QED
  BY <1>2, <1>3, <1>6 DEF b, w

LEMMA CallAnsweredFor ==
  ASSUME NEW t \in Tellings, NEW a \in AnAccount, Shows(t, a.calls), a.on,
         NEW ok \in BOOLEAN, NEW m \in Names, m \in {0, Len(t)},
         NEW x \in Fates, x = "ok" => ok, x = "fail" => ~ok
  PROVE  /\ EndedWith(a, ok, m) \in AnAccount /\ ~EndedWith(a, ok, m).on
         /\ Shows(Came(t, x), EndedWith(a, ok, m).calls) /\ t # <<>>
<1>1. Len(t) \in Nat /\ Len(a.calls) = Len(t) /\ OwnCalls(a.calls) /\ Len(t) # 0 /\ t # <<>>
  BY TellingIs, AccountMade DEF Shows
<1> DEFINE b == EndedWith(a, ok, m)
           w == Came(t, x)
<1>2. /\ b \in AnAccount /\ ~b.on /\ Len(b.calls) = Len(t) /\ OwnCalls(b.calls)
      /\ b.calls[Len(t)].status = IF ok THEN "done" ELSE "failed"
      /\ \A k \in 1 .. Len(t) : k # Len(t) => b.calls[k] = a.calls[k]
  BY <1>1, FilledCallEnds
<1>3. Len(w) = Len(t) /\ w[Len(t)] = x /\ \A k \in 1 .. Len(t) : k # Len(t) => w[k] = t[k]
  BY <1>1, CameIs
<1> HIDE DEF b, w
<1>4. ASSUME NEW k \in 1 .. Len(t)
      PROVE  (w[k] = "ok" => b.calls[k].status = "done") /\ (w[k] = "fail" => b.calls[k].status = "failed")
  <2>1. CASE k = Len(t)
    <3>1. CASE ok
      BY <1>2, <1>3, <2>1, <3>1
    <3>2. CASE ~ok
      BY <1>2, <1>3, <2>1, <3>2
    <3> QED
      BY <3>1, <3>2
  <2>2. CASE k # Len(t)
    BY <1>2, <1>3, <2>2 DEF Shows
  <2> QED
    BY <2>1, <2>2
<1>5. Shows(w, b.calls)
  BY <1>2, <1>3, <1>4 DEF Shows
<1> QED
  BY <1>1, <1>2, <1>5 DEF b, w

ProtocolTie(t, p, a) == p = Fresh /\ Shows(t, a.calls) /\ (a.on <=> Open(t))

\* What a parser made of some input.
Yields(one, q, a, b) == one \in Fed /\ one.ev \in Seq(GEvent) /\ one.p = q /\ Comes(a, one.ev, b)

LEMMA YieldsStep ==
  ASSUME NEW q \in AParser, NEW ev \in Seq(GEvent), NEW a, NEW b, Comes(a, ev, b)
  PROVE  Yields(Step(q, ev), q, a, b)
<1>1. Step(q, ev) \in Fed
  BY EventsListed, StepMade
<1> QED
  BY <1>1, StepIs DEF Yields

LEMMA FreshIs ==
  Fresh \in AParser /\ Fresh.section = "none" /\ Fresh.tool = 0 /\ ~Fresh.emitted /\ Fresh.pending = 0 /\ ~Fresh.diff
<1>1. Fresh \in AParser
  BY NamesAre DEF Fresh, AParser, Sections
<1> QED
  BY <1>1, Zenon DEF Fresh

\* A call is told, answered, or both at once.
LEMMA TellingEvents ==
  ASSUME NEW a \in AnAccount, NEW n \in Names \ {0}, NEW l \in Names, NEW ok \in BOOLEAN,
         NEW j \in Names, NEW m \in Names
  PROVE  /\ <<ToolStart(n, l)>> \in Seq(GEvent) /\ Comes(a, <<ToolStart(n, l)>>, Named(a, n))
         /\ <<ToolEnd(ok, j, m)>> \in Seq(GEvent) /\ Comes(a, <<ToolEnd(ok, j, m)>>, EndedWith(a, ok, m))
         /\ <<ToolStart(n, l), ToolEnd(ok, j, m)>> \in Seq(GEvent)
         /\ Comes(a, <<ToolStart(n, l), ToolEnd(ok, j, m)>>, EndedWith(Named(a, n), ok, m))
         /\ Draws(a, <<ToolEnd(ok, j, m)>>, EndedWith(a, ok, m))
<1> DEFINE e == ToolStart(n, l)
           f == ToolEnd(ok, j, m)
<1>1. e \in GEvent /\ Moved(a, e) = Named(a, n)
  BY StartEvents
<1>2. f \in GEvent /\ \A b : Moved(b, f) = EndedWith(b, ok, m) /\ Drawn(b, f) = EndedWith(b, ok, m)
  BY EndEvents
<1>3. Named(a, n) \in AnAccount
  BY NamedMakes
<1> HIDE DEF e, f
<1>4. /\ <<e>> \in Seq(GEvent) /\ <<f>> \in Seq(GEvent) /\ <<e, f>> \in Seq(GEvent) /\ <<e, f>> = <<e>> \o <<f>>
  BY <1>1, <1>2, EventsListed
<1>5. /\ Comes(a, <<e>>, Named(a, n)) /\ Comes(a, <<f>>, EndedWith(a, ok, m))
      /\ Comes(Named(a, n), <<f>>, EndedWith(Named(a, n), ok, m)) /\ Draws(a, <<f>>, EndedWith(a, ok, m))
  BY <1>1, <1>2, <1>3, ComesOne
<1>6. Comes(a, <<e, f>>, EndedWith(Named(a, n), ok, m))
  <2>1. PICK u \in Seq(GEvent), v \in Seq(GEvent), b \in AnAccount : u = <<e>> /\ v = <<f>> /\ b = Named(a, n)
    BY <1>3, <1>4
  <2>2. Comes(a, u \o v, EndedWith(b, ok, m))
    BY <1>5, <2>1, JoinedComes
  <2> QED
    BY <1>4, <2>1, <2>2
<1> QED
  BY <1>4, <1>5, <1>6 DEF e, f

\* What the parsers make of a line of the protocol.
LEMMA MarkersYield ==
  ASSUME NEW a \in AnAccount, NEW g \in ASegment, NEW d, NEW one, one = Feed(d, Fresh, <<g>>)
  PROVE  /\ g.k = "bad" => Yields(one, Fresh, a, a)
         /\ g.k = "error" => Yields(one, Fresh, a, a)
         /\ g.k = "plain" /\ d = "protocol" => Yields(one, Fresh, a, a)
         /\ g.k = "start" /\ g.n # 0 => Yields(one, Fresh, a, Named(a, g.n))
         /\ g.k = "end ok" => \A yes \in BOOLEAN : yes => Yields(one, Fresh, a, EndedWith(a, yes, g.n))
         /\ g.k = "end failed" => \A no \in BOOLEAN : ~no => Yields(one, Fresh, a, EndedWith(a, no, g.n))
         /\ g.k = "done" /\ g.n # 0 =>
              \A yes \in BOOLEAN : yes => Yields(one, Fresh, a, EndedWith(Named(a, g.n), yes, g.n))
         /\ g.k = "failed" /\ g.n # 0 =>
              \A no \in BOOLEAN : ~no => Yields(one, Fresh, a, EndedWith(Named(a, g.n), no, g.n))
         /\ g.k = "tool_call" /\ g.n # 0 =>
              \A yes \in BOOLEAN : yes => Yields(one, Fresh, a, EndedWith(Named(a, g.n), yes, 0))
<1>n. g.n \in Names /\ 0 \in Names
  BY NamesAre DEF ASegment
<1>h. Head(<<g>>) = g
  OBVIOUS
<1>f. Fresh \in AParser
  BY FreshIs
<1>m. /\ g.k \in Markers => one = Step(Fresh, Protocol(g))
      /\ g.k \notin Markers /\ g.k \in Extras => one = Step(Fresh, ReActExtras(g))
      /\ g.k \notin Markers /\ g.k \notin Extras /\ d # "smallcode" => one = ReActFeed(Fresh, <<g>>)
  BY <1>h DEF Feed
<1>t. "text" \in QuietTypes
  BY DEF QuietTypes
<1>y. PICK yes \in BOOLEAN, no \in BOOLEAN : yes = TRUE /\ no = FALSE
  OBVIOUS
<1>1. CASE g.k = "bad"
  <2>1. g.k \in Markers
    BY <1>1 DEF Markers
  <2>2. g.k # "start" /\ g.k # "end ok" /\ g.k # "end failed" /\ g.k # "done" /\ g.k # "failed"
    BY <1>1
  <2>3. Protocol(g) = <<>>
    BY <2>2, Zenon DEF Protocol
  <2>4. Yields(one, Fresh, a, a)
    <3>1. one = Step(Fresh, <<>>)
      BY <1>m, <2>1, <2>3
    <3>2. <<>> \in Seq(GEvent) /\ Comes(a, <<>>, a)
      BY ComesNothing, EventsListed
    <3> QED
      BY <1>f, <3>1, <3>2, YieldsStep
  <2> QED
    BY <1>1, <2>4
<1>2. CASE g.k = "error"
  <2>1. g.k \notin Markers /\ g.k \in Extras
    BY <1>2 DEF Markers, Extras
  <2>2. ReActExtras(g) = <<Event("text")>>
    BY <1>2 DEF ReActExtras
  <2>3. Yields(one, Fresh, a, a)
    <3>1. one = Step(Fresh, <<Event("text")>>)
      BY <1>m, <2>1, <2>2
    <3>2. <<Event("text")>> \in Seq(GEvent) /\ Comes(a, <<Event("text")>>, a)
      BY <1>t, QuietComes, EventsListed
    <3> QED
      BY <1>f, <3>1, <3>2, YieldsStep
  <2> QED
    BY <1>2, <2>3
<1>3. CASE g.k = "plain"
  <2>1. g.k \notin Markers /\ g.k \notin Extras
    BY <1>3 DEF Markers, Extras
  <2> DEFINE r == ReAct(Fresh, g)
  <2>2. r.p = Fresh /\ r.ev \in Seq(GEvent) /\ Comes(a, r.ev, a)
    BY <1>3, <1>f, ReActKeepsOn
  <2>3. ReActFeed(Fresh, <<g>>) = SplitNext(Step(Fresh, <<>>), g)
    BY <1>f, FreshIs, SplitSteps DEF ReActFeed, Data
  <2>4. SplitNext(Step(Fresh, <<>>), g) = Step(Fresh, <<>> \o r.ev)
    BY <2>2, FreshIs, StepIs DEF SplitNext
  <2>5. <<>> \o r.ev = r.ev
    BY <2>2, EventsListed
  <2> HIDE DEF r
  <2>6. d = "protocol" => Yields(one, Fresh, a, a)
    BY <1>f, <1>m, <2>1, <2>2, <2>3, <2>4, <2>5, YieldsStep
  <2> QED
    BY <1>3, <2>6
<1>4. CASE g.k = "start" /\ g.n # 0
  <2>1. g.k \in Markers
    BY <1>4 DEF Markers
  <2>2. Protocol(g) = <<ToolStart(g.n, g.n)>>
    BY <1>4, Zenon DEF Protocol
  <2>3. Yields(one, Fresh, a, Named(a, g.n))
    BY <1>f, <1>m, <1>n, <1>4, <1>y, <2>1, <2>2, TellingEvents, YieldsStep
  <2> QED
    BY <1>4, <2>3
<1>5. CASE g.k = "end ok"
  <2>1. g.k \in Markers
    BY <1>5 DEF Markers
  <2>2. g.k # "start"
    BY <1>5
  <2>3. Protocol(g) = <<ToolEnd(yes, g.n, g.n)>>
    BY <1>5, <1>y, <2>2, Zenon DEF Protocol
  <2>4. Yields(one, Fresh, a, EndedWith(a, yes, g.n))
    <3>1. Anon \in Names \ {0}
      BY NamesAre DEF Anon
    <3> DEFINE ev == <<ToolEnd(yes, g.n, g.n)>>
    <3>2. one = Step(Fresh, ev)
      BY <1>m, <2>1, <2>3
    <3>3. ev \in Seq(GEvent) /\ Comes(a, ev, EndedWith(a, yes, g.n))
      BY <1>n, <3>1, TellingEvents
    <3> HIDE DEF ev
    <3> QED
      BY <1>f, <3>2, <3>3, YieldsStep
  <2> QED
    BY <1>5, <1>y, <2>4
<1>6. CASE g.k = "end failed"
  <2>1. g.k \in Markers
    BY <1>6 DEF Markers
  <2>2. g.k # "start" /\ g.k # "end ok"
    BY <1>6
  <2>3. Protocol(g) = <<ToolEnd(no, g.n, g.n)>>
    BY <1>6, <1>y, <2>2, Zenon DEF Protocol
  <2>4. Yields(one, Fresh, a, EndedWith(a, no, g.n))
    <3>1. Anon \in Names \ {0}
      BY NamesAre DEF Anon
    <3> DEFINE ev == <<ToolEnd(no, g.n, g.n)>>
    <3>2. one = Step(Fresh, ev)
      BY <1>m, <2>1, <2>3
    <3>3. ev \in Seq(GEvent) /\ Comes(a, ev, EndedWith(a, no, g.n))
      BY <1>n, <3>1, TellingEvents
    <3> HIDE DEF ev
    <3> QED
      BY <1>f, <3>2, <3>3, YieldsStep
  <2> QED
    BY <1>6, <1>y, <2>4
<1>7. CASE g.k = "done" /\ g.n # 0
  <2>1. g.k \in Markers
    BY <1>7 DEF Markers
  <2>2. g.k # "start" /\ g.k # "end ok" /\ g.k # "end failed"
    BY <1>7
  <2>3. Protocol(g) = <<ToolStart(g.n, g.n), ToolEnd(yes, g.n, g.n)>>
    BY <1>7, <1>y, <2>2, Zenon DEF Protocol
  <2>4. Yields(one, Fresh, a, EndedWith(Named(a, g.n), yes, g.n))
    BY <1>f, <1>m, <1>n, <1>7, <2>1, <2>3, TellingEvents, YieldsStep
  <2> QED
    BY <1>7, <1>y, <2>4
<1>8. CASE g.k = "failed" /\ g.n # 0
  <2>1. g.k \in Markers
    BY <1>8 DEF Markers
  <2>2. g.k # "start" /\ g.k # "end ok" /\ g.k # "end failed" /\ g.k # "done"
    BY <1>8
  <2>3. Protocol(g) = <<ToolStart(g.n, g.n), ToolEnd(no, g.n, g.n)>>
    BY <1>8, <1>y, <2>2, Zenon DEF Protocol
  <2>4. Yields(one, Fresh, a, EndedWith(Named(a, g.n), no, g.n))
    BY <1>f, <1>m, <1>n, <1>8, <2>1, <2>3, TellingEvents, YieldsStep
  <2> QED
    BY <1>8, <1>y, <2>4
<1>9. CASE g.k = "tool_call" /\ g.n # 0
  <2>1. g.k \notin Markers /\ g.k \in Extras /\ g.k # "error"
    BY <1>9 DEF Markers, Extras
  <2>2. ReActExtras(g) = <<ToolStart(g.n, g.n), ToolEnd(yes, g.n, 0)>>
    BY <1>9, <1>y, <2>1, Zenon DEF ReActExtras
  <2>3. Yields(one, Fresh, a, EndedWith(Named(a, g.n), yes, 0))
    BY <1>f, <1>m, <1>n, <1>9, <2>1, <2>2, TellingEvents, YieldsStep
  <2> QED
    BY <1>9, <1>y, <2>3
<1> QED
  BY <1>1, <1>2, <1>3, <1>4, <1>5, <1>6, <1>7, <1>8, <1>9

ProtocolGoes(one, t, a) ==
  one \in Fed /\ one.ev \in Seq(GEvent) /\ \E b : Comes(a, one.ev, b) /\ ProtocolTie(t, one.p, b)

LEMMA ProtocolFollows ==
  ASSUME NEW t \in Tellings, NEW s \in Stages, NEW p \in AParser, NEW a \in AnAccount,
         ProtocolTie(t, p, a), NEW y \in SaysProtocol(t, s)
  PROVE  ProtocolGoes(Feed("protocol", p, y.line), y.told, a)
<1> DEFINE n == Len(t) + 1
<1>1. p = Fresh /\ Shows(t, a.calls) /\ (a.on <=> Open(t))
  BY DEF ProtocolTie
<1>t. /\ Len(t) \in Names /\ Len(t) \in Nat /\ 0 \in Names /\ (Open(t) => t # <<>>)
      /\ (Open(t) <=> EndsIn(t, "open") \/ EndsIn(t, "input")) /\ Len(t) \in {0, Len(t)}
  BY TellingsGoOn, NamesAre, TellingIs DEF EndsIn
<1>s. \A k \in SegKinds, m \in Names : Seg(k, m) \in ASegment /\ Seg(k, m).k = k /\ Seg(k, m).n = m
  BY SegIs
<1>y. PICK yes \in BOOLEAN, no \in BOOLEAN : yes /\ ~no
  <2>1. TRUE \in BOOLEAN /\ FALSE \in BOOLEAN
    OBVIOUS
  <2> QED
    BY <2>1, Zenon
<1>0. ASSUME NEW g \in ASegment, NEW t2, NEW b, y = Says(<<g>>, t2, s),
             Yields(Feed("protocol", Fresh, <<g>>), Fresh, a, b), Shows(t2, b.calls), b.on <=> Open(t2)
      PROVE  ProtocolGoes(Feed("protocol", p, y.line), y.told, a)
  <2>1. y.line = <<g>> /\ y.told = t2
    BY <1>0, SaysIs
  <2> QED
    BY <1>0, <1>1, <2>1 DEF ProtocolGoes, Yields, ProtocolTie
<1>2. ASSUME NEW k \in {"plain", "bad", "error"}, y = Says(<<Seg(k, 0)>>, t, s)
      PROVE  ProtocolGoes(Feed("protocol", p, y.line), y.told, a)
  <2>1. k \in SegKinds
    BY DEF SegKinds
  <2>2. PICK g \in ASegment : g = Seg(k, 0) /\ g.k = k
    BY <1>s, <1>t, <2>1
  <2>3. Yields(Feed("protocol", Fresh, <<g>>), Fresh, a, a)
    BY <2>2, MarkersYield
  <2> QED
    BY <1>0, <1>1, <1>2, <2>2, <2>3
<1>3. ASSUME Open(t), NEW k, NEW x, NEW ok \in BOOLEAN, y = Says(<<Seg(k, Len(t))>>, Came(t, x), s),
             \/ k = "end ok" /\ x = "ok" /\ ok
             \/ k = "end failed" /\ x = "fail" /\ ~ok
      PROVE  ProtocolGoes(Feed("protocol", p, y.line), y.told, a)
  <2>1. k \in SegKinds
    BY <1>3 DEF SegKinds
  <2>2. PICK g \in ASegment, m \in Names : g = Seg(k, Len(t)) /\ g.k = k /\ g.n = m /\ m = Len(t)
    BY <1>s, <1>t, <2>1
  <2> DEFINE b == EndedWith(a, ok, m)
  <2>3. x \in Fates /\ (x = "ok" => ok) /\ (x = "fail" => ~ok)
    BY <1>3 DEF Fates
  <2>4. b \in AnAccount /\ ~b.on /\ Shows(Came(t, x), b.calls) /\ t # <<>>
    BY <1>1, <1>3, <2>2, <2>3, CallAnsweredFor
  <2>5. Yields(Feed("protocol", Fresh, <<g>>), Fresh, a, b)
    <3>1. CASE k = "end ok"
      BY <1>3, <2>2, <3>1, MarkersYield
    <3>2. CASE k = "end failed"
      BY <1>3, <2>2, <3>2, MarkersYield
    <3> QED
      BY <1>3, <3>1, <3>2
  <2>6. ~Open(Came(t, x))
    BY <1>3, <2>3, <2>4, CameIs, TellingIs, FatesAre
  <2> HIDE DEF b
  <2> QED
    BY <1>0, <1>3, <2>2, <2>4, <2>5, <2>6
<1>4. ASSUME ~Open(t), n <= Calls, NEW k, NEW x, NEW ok \in BOOLEAN, NEW m \in Names, m \in {0, n},
             y = Says(<<Seg(k, n)>>, Append(t, x), s),
             \/ k = "start" /\ x = "open"
             \/ k = "done" /\ x = "ok" /\ ok /\ m = n
             \/ k = "failed" /\ x = "fail" /\ ~ok /\ m = n
             \/ k = "tool_call" /\ x = "ok" /\ ok /\ m = 0
      PROVE  ProtocolGoes(Feed("protocol", p, y.line), y.told, a)
  <2>1. k \in SegKinds /\ x \in Fates
    BY <1>4 DEF SegKinds, Fates
  <2> DEFINE u == Append(t, "open")
  <2>2. /\ n \in Names \ {0} /\ Named(a, n) \in AnAccount /\ Named(a, n).on /\ Shows(u, Named(a, n).calls)
    BY <1>1, <1>4, CallAnnounced
  <2>3. /\ u \in Tellings /\ Len(u) = n /\ u # <<>> /\ EndsIn(u, "open")
        /\ \A z \in Fates : Came(u, z) = Append(t, z)
    BY <1>4, AddedIs, FatesAre
  <2> HIDE DEF u
  <2>4. PICK g \in ASegment : g = Seg(k, n) /\ g.k = k /\ g.n = n
    BY <1>s, <2>1, <2>2
  <2>5. CASE k = "start"
    <3>1. Yields(Feed("protocol", Fresh, <<g>>), Fresh, a, Named(a, n))
      BY <2>2, <2>4, <2>5, MarkersYield
    <3>2. x = "open" /\ Open(u)
      BY <1>4, <2>3, <2>5, TellingIs
    <3> QED
      BY <1>0, <1>4, <2>2, <2>4, <3>1, <3>2 DEF u
  <2>6. CASE k # "start"
    <3>1. PICK c \in AnAccount, j \in Names \ {0} : c = Named(a, n) /\ j = n
      BY <2>2
    <3> DEFINE b == EndedWith(c, ok, m)
    <3>2. (x = "ok" => ok) /\ (x = "fail" => ~ok) /\ x \in {"ok", "fail"}
      BY <1>4, <2>6
    <3>3. ~b.on /\ Shows(Came(u, x), b.calls)
      BY <1>4, <2>1, <2>2, <2>3, <3>1, <3>2, CallAnsweredFor
    <3>4. Came(u, x) = Append(t, x) /\ ~Open(Append(t, x))
      <4>1. Came(u, x) = Append(t, x)
        BY <2>1, <2>3
      <4>2. Came(u, x) \in Tellings /\ ~EndsIn(Came(u, x), "open") /\ ~EndsIn(Came(u, x), "input")
        BY <2>1, <2>3, <3>2, CameIs, FatesAre
      <4> QED
        BY <4>1, <4>2, TellingIs
    <3>5. Yields(Feed("protocol", Fresh, <<g>>), Fresh, a, b)
      <4>1. g.n = j /\ g.n # 0
        BY <2>4, <3>1
      <4>2. CASE k = "done"
        BY <1>4, <2>4, <3>1, <4>1, <4>2, MarkersYield
      <4>3. CASE k = "failed"
        BY <1>4, <2>4, <3>1, <4>1, <4>3, MarkersYield
      <4>4. CASE k = "tool_call"
        BY <1>4, <2>4, <3>1, <4>1, <4>4, MarkersYield
      <4> QED
        BY <1>4, <2>6, <4>2, <4>3, <4>4
    <3> HIDE DEF b
    <3> QED
      BY <1>0, <1>4, <2>4, <3>3, <3>4, <3>5
  <2> QED
    BY <2>5, <2>6
<1>5. CASE Open(t)
  <2>1. y = Says(<<Seg("end ok", Len(t))>>, Came(t, "ok"), s) => ProtocolGoes(Feed("protocol", p, y.line), y.told, a)
    BY <1>3, <1>5, <1>y
  <2>2. y = Says(<<Seg("end failed", Len(t))>>, Came(t, "fail"), s)
          => ProtocolGoes(Feed("protocol", p, y.line), y.told, a)
    BY <1>3, <1>5, <1>y
  <2> QED
    BY <1>2, <1>5, <2>1, <2>2 DEF SaysProtocol
<1>6. CASE ~Open(t) /\ n <= Calls
  <2>1. n \in Names /\ n \in {0, n} /\ 0 \in {0, n}
    BY <1>6, <1>t, NamesAre DEF Names
  <2>2. y = Says(<<Seg("start", n)>>, Append(t, "open"), s) => ProtocolGoes(Feed("protocol", p, y.line), y.told, a)
    BY <1>4, <1>6, <1>y, <2>1
  <2>3. y = Says(<<Seg("done", n)>>, Append(t, "ok"), s) => ProtocolGoes(Feed("protocol", p, y.line), y.told, a)
    BY <1>4, <1>6, <1>y, <2>1
  <2>4. y = Says(<<Seg("failed", n)>>, Append(t, "fail"), s) => ProtocolGoes(Feed("protocol", p, y.line), y.told, a)
    BY <1>4, <1>6, <1>y, <2>1
  <2>5. y = Says(<<Seg("tool_call", n)>>, Append(t, "ok"), s) => ProtocolGoes(Feed("protocol", p, y.line), y.told, a)
    BY <1>4, <1>6, <1>y, <1>t, <2>1
  <2> QED
    BY <1>2, <1>6, <1>t, <2>2, <2>3, <2>4, <2>5, NamesAre DEF SaysProtocol
<1>7. CASE ~Open(t) /\ ~(n <= Calls)
  BY <1>2, <1>7, <1>t, NamesAre DEF SaysProtocol
<1> QED
  BY <1>5, <1>6, <1>7

LEMMA ProtocolEnds ==
  ASSUME NEW t \in Tellings, NEW p \in AParser, NEW a \in AnAccount, ProtocolTie(t, p, a)
  PROVE  /\ Flush("protocol", p) \in Seq(GEvent) /\ Draws(a, Flush("protocol", p), a)
         /\ RunTells("protocol", t, a.calls)
<1>1. p = Fresh /\ Shows(t, a.calls)
  BY DEF ProtocolTie
<1>2. Abandoned(p, a) = a
  BY <1>1, FreshIs DEF Abandoned
<1>3. /\ EndTool(p) \in Seq(GEvent) /\ EndReasoning(p) \in Seq(GEvent) /\ Draws(a, EndTool(p), a)
      /\ Draws(a, EndReasoning(p), a)
  BY <1>2, OwedComes
<1>4. Flush("protocol", p) = EndTool(p) \o EndReasoning(p)
  BY DEF Flush
<1>5. Flush("protocol", p) \in Seq(GEvent) /\ Draws(a, Flush("protocol", p), a)
  <2>1. PICK u \in Seq(GEvent), v \in Seq(GEvent) : u = EndTool(p) /\ v = EndReasoning(p)
    BY <1>3
  <2>2. u \o v \in Seq(GEvent) /\ Draws(a, u \o v, a)
    BY <1>3, <2>1, JoinedDraws
  <2> QED
    BY <1>4, <2>1, <2>2
<1>6. RunTells("protocol", t, a.calls)
  BY <1>1, TellingIs DEF RunTells, Shows, OnlyNamedLast
<1> QED
  BY <1>5, <1>6

-----------------------------------------------------------------------------
(* An agent that is SmallCode.                                             *)

LEMMA PendingMoves ==
  ASSUME NEW p \in AParser, NEW n \in Names, NEW b \in BOOLEAN
  PROVE  /\ [p EXCEPT !.pending = n].pending = n /\ [p EXCEPT !.pending = n].diff = p.diff
         /\ [p EXCEPT !.diff = b].pending = p.pending /\ [p EXCEPT !.diff = b].diff = b
         /\ [p EXCEPT !.pending = n] \in AParser /\ [p EXCEPT !.diff = b] \in AParser
         /\ p.diff \in BOOLEAN
BY DEF AParser

\* Its lines: what each does to the parser and to the calls.
Quiet(one, p, a) == one.p = p /\ one.ev \in Seq(GEvent) /\ Comes(a, one.ev, a)
Marked(one, p, diff, a) ==
  one.p.pending = p.pending /\ (one.p.diff <=> diff) /\ one.ev \in Seq(GEvent) /\ Comes(a, one.ev, a)
Moves(one, n, a, b) ==
  one.p.pending = n /\ ~one.p.diff /\ one.ev \in Seq(GEvent) /\ Comes(a, one.ev, b)
CutShort(p, a, no) == IF p.pending # 0 THEN EndedWith(a, no, 0) ELSE a

LEMMA DiffRead ==
  ASSUME NEW p \in AParser, NEW a \in AnAccount, NEW g \in ASegment
  PROVE  /\ p.diff /\ g.k = "hunk" => Marked(SmallCode(p, g), p, TRUE, a)
         /\ p.diff /\ g.k = "diff close" => Marked(SmallCode(p, g), p, FALSE, a)
         /\ g.k = "diff open" => Marked(SmallCode(p, g), p, TRUE, a)
<1>y. PICK yes \in BOOLEAN, no \in BOOLEAN : yes = TRUE /\ no = FALSE
  OBVIOUS
<1>1. ASSUME NEW b \in BOOLEAN, SmallCode(p, g) = Step([p EXCEPT !.diff = b], <<>>)
      PROVE  Marked(SmallCode(p, g), p, b, a)
  <2>1. PICK q \in AParser : q = [p EXCEPT !.diff = b] /\ q.pending = p.pending /\ q.diff = b
    <3>1. /\ [p EXCEPT !.diff = b] \in AParser /\ [p EXCEPT !.diff = b].pending = p.pending
          /\ [p EXCEPT !.diff = b].diff = b
      BY DEF AParser
    <3> QED
      BY <3>1, Zenon
  <2>2. SmallCode(p, g).p = q /\ SmallCode(p, g).ev = <<>>
    BY <1>1, <2>1, StepIs
  <2> QED
    BY <2>1, <2>2, ComesNothing, EventsListed DEF Marked
<1>2. CASE p.diff /\ g.k = "hunk"
  <2>1. g.k # "summary" /\ g.k # "diff open" /\ (g.k # "diff close") = yes
    BY <1>2, <1>y
  <2>2. g.k # "edited" /\ g.k # "shell" /\ g.k # "gear" /\ g.k \notin {"tick", "cross"}
    BY <1>2
  <2>3. SmallCode(p, g) = Step([p EXCEPT !.diff = yes], <<>>)
    BY <1>2, <2>1, <2>2, Zenon DEF SmallCode
  <2>4. Marked(SmallCode(p, g), p, yes, a)
    BY <1>1, <2>3
  <2> QED
    BY <1>2, <1>y, <2>4
<1>3. CASE p.diff /\ g.k = "diff close"
  <2>1. g.k # "summary" /\ g.k # "diff open" /\ (g.k # "diff close") = no
    BY <1>3, <1>y
  <2>2. g.k # "edited" /\ g.k # "shell" /\ g.k # "gear" /\ g.k \notin {"tick", "cross"}
    BY <1>3
  <2>3. SmallCode(p, g) = Step([p EXCEPT !.diff = no], <<>>)
    BY <1>3, <2>1, <2>2, Zenon DEF SmallCode
  <2>4. Marked(SmallCode(p, g), p, no, a)
    BY <1>1, <2>3
  <2> QED
    BY <1>3, <1>y, <2>4
<1>4. CASE g.k = "diff open"
  <2>1. g.k # "summary"
    BY <1>4
  <2>2. SmallCode(p, g) = Step([p EXCEPT !.diff = yes], <<>>)
    BY <1>4, <1>y, <2>1, Zenon DEF SmallCode
  <2>3. Marked(SmallCode(p, g), p, yes, a)
    BY <1>1, <2>2
  <2> QED
    BY <1>4, <1>y, <2>3
<1> QED
  BY <1>2, <1>3, <1>4

LEMMA QuietRead ==
  ASSUME NEW p \in AParser, NEW a \in AnAccount, NEW g \in ASegment, ~p.diff, g.k \in {"plain", "summary"}
  PROVE  Quiet(SmallCode(p, g), p, a)
<1>1. "text" \in QuietTypes
  BY DEF QuietTypes
<1>2. CASE g.k = "summary"
  <2>1. SmallCode(p, g) = Step(p, <<>>)
    BY <1>2, Zenon DEF SmallCode
  <2> QED
    <3>1. SmallCode(p, g).p = p /\ SmallCode(p, g).ev = <<>>
      BY <2>1, StepIs
    <3>2. <<>> \in Seq(GEvent) /\ Comes(a, <<>>, a)
      BY ComesNothing, EventsListed
    <3> QED
      BY <3>1, <3>2, Zenon DEF Quiet
<1>3. CASE g.k = "plain"
  <2>1. /\ g.k # "summary" /\ g.k # "diff open" /\ g.k # "edited" /\ g.k # "shell" /\ g.k # "gear"
        /\ g.k \notin {"tick", "cross"}
    BY <1>3
  <2>2. SmallCode(p, g) = Step(p, <<Event("text")>>)
    BY <2>1, Zenon DEF SmallCode
  <2>3. <<Event("text")>> \in Seq(GEvent) /\ Comes(a, <<Event("text")>>, a)
    BY <1>1, QuietComes, EventsListed
  <2> QED
    <3>1. SmallCode(p, g).p = p /\ SmallCode(p, g).ev = <<Event("text")>>
      BY <2>2, StepIs
    <3> QED
      BY <2>3, <3>1, Zenon DEF Quiet
<1> QED
  BY <1>2, <1>3

LEMMA CallsRead ==
  ASSUME NEW p \in AParser, NEW a \in AnAccount, NEW g \in ASegment, ~p.diff,
         NEW yes \in BOOLEAN, yes, NEW no \in BOOLEAN, ~no
  PROVE  /\ g.k = "edited" => Moves(SmallCode(p, g), 0, a, EndedWith(a, yes, g.n))
         /\ g.k = "tick" /\ p.pending # 0 => Moves(SmallCode(p, g), 0, a, EndedWith(a, yes, g.n))
         /\ g.k = "cross" /\ p.pending # 0 => Moves(SmallCode(p, g), 0, a, EndedWith(a, no, g.n))
         /\ g.k = "gear" /\ g.n # 0 => Moves(SmallCode(p, g), g.n, a, Named(CutShort(p, a, no), g.n))
<1>n. g.n \in Names /\ 0 \in Names /\ Anon \in Names \ {0}
  BY NamesAre DEF ASegment, Anon
<1>y. yes = TRUE /\ no = FALSE
  BY Zenon
<1>1. ASSUME NEW n \in Names, NEW ev \in Seq(GEvent), NEW b, Comes(a, ev, b),
             SmallCode(p, g) = Step([p EXCEPT !.pending = n], ev)
      PROVE  Moves(SmallCode(p, g), n, a, b)
  <2>1. PICK q \in AParser : q = [p EXCEPT !.pending = n] /\ q.pending = n /\ q.diff = p.diff
    <3>1. [p EXCEPT !.pending = n] \in AParser
      BY DEF AParser
    <3>2. [p EXCEPT !.pending = n].pending = n /\ [p EXCEPT !.pending = n].diff = p.diff
      BY DEF AParser
    <3> QED
      BY <3>1, <3>2, Zenon
  <2>2. SmallCode(p, g).p = q /\ SmallCode(p, g).ev = ev
    BY <1>1, <2>1, StepIs
  <2> QED
    BY <1>1, <2>1, <2>2 DEF Moves
<1>2. ASSUME NEW ok \in BOOLEAN, NEW m \in Names, SmallCode(p, g) = Step([p EXCEPT !.pending = 0], <<ToolEnd(ok, m, g.n)>>)
      PROVE  Moves(SmallCode(p, g), 0, a, EndedWith(a, ok, g.n))
  <2> DEFINE ev == <<ToolEnd(ok, m, g.n)>>
  <2>1. ev \in Seq(GEvent) /\ Comes(a, ev, EndedWith(a, ok, g.n))
    BY <1>n, TellingEvents
  <2>2. SmallCode(p, g) = Step([p EXCEPT !.pending = 0], ev)
    BY <1>2
  <2> HIDE DEF ev
  <2> QED
    BY <1>n, <1>1, <2>1, <2>2
<1>3. CASE g.k = "edited"
  <2>1. g.k # "summary" /\ g.k # "diff open"
    BY <1>3
  <2>2. SmallCode(p, g) = Step([p EXCEPT !.pending = 0], <<ToolEnd(yes, g.n, g.n)>>)
    BY <1>3, <1>y, <2>1, Zenon DEF SmallCode
  <2> QED
    BY <1>2, <1>3, <1>n, <2>2
<1>4. CASE g.k = "tick" /\ p.pending # 0
  <2>1. g.k # "summary" /\ g.k # "diff open" /\ g.k # "edited" /\ g.k # "shell" /\ g.k # "gear" /\ g.k \in {"tick", "cross"}
    BY <1>4
  <2>2. (g.k = "tick") = yes /\ (IF g.k = "tick" THEN g.n ELSE 0) = g.n
    BY <1>4, <1>y
  <2>3. SmallCode(p, g) = Step([p EXCEPT !.pending = 0], <<ToolEnd(g.k = "tick", IF g.k = "tick" THEN g.n ELSE 0, g.n)>>)
    BY <1>4, <2>1, Zenon DEF SmallCode
  <2>4. SmallCode(p, g) = Step([p EXCEPT !.pending = 0], <<ToolEnd(yes, g.n, g.n)>>)
    BY <2>2, <2>3, Zenon
  <2> QED
    BY <1>2, <1>4, <1>n, <2>4
<1>5. CASE g.k = "cross" /\ p.pending # 0
  <2>1. g.k # "summary" /\ g.k # "diff open" /\ g.k # "edited" /\ g.k # "shell" /\ g.k # "gear" /\ g.k \in {"tick", "cross"}
    BY <1>5
  <2>2. (g.k = "tick") = no /\ (IF g.k = "tick" THEN g.n ELSE 0) = 0
    BY <1>5, <1>y
  <2>3. SmallCode(p, g) = Step([p EXCEPT !.pending = 0], <<ToolEnd(g.k = "tick", IF g.k = "tick" THEN g.n ELSE 0, g.n)>>)
    BY <1>5, <2>1, Zenon DEF SmallCode
  <2>4. SmallCode(p, g) = Step([p EXCEPT !.pending = 0], <<ToolEnd(no, 0, g.n)>>)
    BY <2>2, <2>3, Zenon
  <2> QED
    BY <1>2, <1>5, <1>n, <2>4
<1>6. CASE g.k = "gear" /\ g.n # 0
  <2> DEFINE cut == IF p.pending # 0 THEN <<ToolEnd(FALSE, 0, 0)>> ELSE <<>>
             b == CutShort(p, a, no)
             start == <<ToolStart(g.n, 0)>>
  <2>1. g.k # "summary" /\ g.k # "diff open" /\ g.k # "edited" /\ g.k # "shell"
    BY <1>6
  <2>2. SmallCode(p, g) = Step([p EXCEPT !.pending = g.n], cut \o start)
    BY <1>6, <2>1, Zenon DEF SmallCode
  <2>3. cut \in Seq(GEvent) /\ Comes(a, cut, b) /\ b \in AnAccount
    <3>1. CASE p.pending # 0
      <4>1. <<ToolEnd(no, 0, 0)>> \in Seq(GEvent) /\ Comes(a, <<ToolEnd(no, 0, 0)>>, EndedWith(a, no, 0))
        BY <1>n, TellingEvents
      <4>2. EndedWith(a, no, 0) \in AnAccount
        BY <1>n, EndedMakes
      <4>3. cut = <<ToolEnd(no, 0, 0)>> /\ b = EndedWith(a, no, 0)
        BY <1>y, <3>1, Zenon DEF CutShort
      <4> QED
        BY <4>1, <4>2, <4>3, Zenon
    <3>2. CASE p.pending = 0
      <4>1. cut = <<>> /\ b = a
        BY <3>2 DEF CutShort
      <4>2. <<>> \in Seq(GEvent) /\ Comes(a, <<>>, a)
        BY ComesNothing, EventsListed
      <4> QED
        BY <4>1, <4>2, Zenon
    <3> QED
      BY <3>1, <3>2
  <2> HIDE DEF cut, b
  <2>4. start \in Seq(GEvent) /\ Comes(b, start, Named(b, g.n))
    BY <1>6, <1>n, <2>3, TellingEvents
  <2> HIDE DEF start
  <2>5. cut \o start \in Seq(GEvent) /\ Comes(a, cut \o start, Named(b, g.n))
    BY <2>3, <2>4, JoinedComes
  <2>6. Moves(SmallCode(p, g), g.n, a, Named(b, g.n))
    BY <1>n, <1>1, <2>2, <2>5
  <2> QED
    BY <1>6, <2>6 DEF b
<1> QED
  BY <1>3, <1>4, <1>5, <1>6


\* What is told of calls that have names.
Told == {one \in Fed : one.ev \in Seq(GEvent)}

LEMMA ToldMade == \A q \in AParser, ev \in Seq(GEvent) : Step(q, ev) \in Told
BY EventsListed, StepMade, StepIs DEF Told

LEMMA SmallCodeEvents ==
  ASSUME NEW p \in AParser, NEW g \in ASegment, g.k = "gear" => g.n # 0
  PROVE  SmallCode(p, g) \in Told
<1>n. g.n \in Names /\ 0 \in Names /\ TRUE \in BOOLEAN /\ FALSE \in BOOLEAN /\ Anon \in Names \ {0}
  BY NamesAre DEF ASegment, Anon
<1> DEFINE idle == [p EXCEPT !.pending = 0]
           closing == g.k # "diff close"
           ticked == g.k = "tick"
           touched == IF ticked THEN g.n ELSE 0
           cut == IF p.pending # 0 THEN <<ToolEnd(FALSE, 0, 0)>> ELSE <<>>
<1>b. closing \in BOOLEAN /\ ticked \in BOOLEAN /\ touched \in Names
  BY <1>n
<1>1. /\ idle \in AParser /\ [p EXCEPT !.pending = g.n] \in AParser
      /\ [p EXCEPT !.diff = TRUE] \in AParser /\ [p EXCEPT !.diff = closing] \in AParser
  <2> HIDE DEF closing
  <2> QED
    BY <1>n, <1>b, ParserMoves, SectionsAre
<1>e. /\ \A ok \in BOOLEAN, j, m \in Names : ToolEnd(ok, j, m) \in GEvent
      /\ \A m \in Names \ {0} : ToolStart(m, 0) \in GEvent
      /\ <<Event("text")>> \in Seq(GEvent)
  BY <1>n, StartEvents, EndEvents, EventsListed, QuietComes DEF QuietTypes
<1>2. cut \in Seq(GEvent)
  <2>1. <<ToolEnd(FALSE, 0, 0)>> \in Seq(GEvent)
    BY <1>n, <1>e, EventsListed, Zenon
  <2> HIDE DEF ToolEnd
  <2> QED
    BY <2>1, EventsListed
<1> HIDE DEF idle, closing, ticked, touched, cut
<1>3. Step(p, <<>>) \in Told
  BY EventsListed, ToldMade, Zenon
<1>4. Step([p EXCEPT !.diff = TRUE], <<>>) \in Told
  BY <1>1, EventsListed, ToldMade, Zenon
<1>5. Step([p EXCEPT !.diff = closing], <<>>) \in Told
  BY <1>1, EventsListed, ToldMade, Zenon
<1>6. Step(idle, <<ToolEnd(TRUE, g.n, g.n)>>) \in Told
  BY <1>1, <1>n, <1>e, EventsListed, ToldMade, Zenon
<1>7. Step(idle, <<ToolStart(Anon, 0), ToolEnd(TRUE, 0, g.n)>>) \in Told
  <2>1. ToolStart(Anon, 0) \in GEvent /\ ToolEnd(TRUE, 0, g.n) \in GEvent
    BY <1>n, <1>e, Zenon
  <2>2. <<ToolStart(Anon, 0), ToolEnd(TRUE, 0, g.n)>> \in Seq(GEvent)
    BY <2>1, EventsListed, Zenon
  <2> QED
    BY <1>1, <2>2, ToldMade, Zenon
<1>8. g.k = "gear" => Step([p EXCEPT !.pending = g.n], cut \o <<ToolStart(g.n, 0)>>) \in Told
  <2> SUFFICES ASSUME g.k = "gear" PROVE Step([p EXCEPT !.pending = g.n], cut \o <<ToolStart(g.n, 0)>>) \in Told
    OBVIOUS
  <2>1. g.n \in Names \ {0}
    BY <1>n
  <2>2. <<ToolStart(g.n, 0)>> \in Seq(GEvent)
    BY <1>e, <2>1, EventsListed, Zenon
  <2> QED
    BY <1>1, <1>2, <2>2, EventsListed, ToldMade, Zenon
<1>9. Step(idle, <<ToolEnd(ticked, touched, g.n)>>) \in Told
  BY <1>1, <1>n, <1>b, <1>e, EventsListed, ToldMade, Zenon
<1>10. Step(p, <<Event("text")>>) \in Told
  BY <1>e, EventsListed, ToldMade, Zenon
<1>11. CASE g.k = "summary"
  BY <1>3, <1>5, <1>11, Zenon DEF SmallCode, closing
<1>12. CASE g.k = "diff open"
  BY <1>4, <1>12, Zenon DEF SmallCode
<1>13. CASE g.k # "summary" /\ g.k # "diff open" /\ p.diff
  <2>1. CASE g.k = "edited"
    BY <1>5, <1>6, <1>13, <2>1, Zenon DEF SmallCode, closing, idle
  <2>2. CASE g.k = "shell"
    BY <1>5, <1>7, <1>13, <2>2, Zenon DEF SmallCode, closing, idle
  <2>3. CASE g.k = "gear"
    BY <1>5, <1>8, <1>13, <2>3, Zenon DEF SmallCode, closing, cut
  <2>4. CASE g.k \in {"tick", "cross"}
    BY <1>5, <1>9, <1>13, <2>4, Zenon DEF SmallCode, closing, idle, ticked, touched
  <2>5. CASE g.k \notin {"edited", "shell", "gear", "tick", "cross"}
    BY <1>5, <1>13, <2>5, Zenon DEF SmallCode, closing
  <2> QED
    BY <2>1, <2>2, <2>3, <2>4, <2>5
<1>14. CASE g.k = "edited" /\ ~p.diff
  BY <1>6, <1>14, Zenon DEF SmallCode, idle
<1>15. CASE g.k = "shell" /\ ~p.diff
  BY <1>7, <1>15, Zenon DEF SmallCode, idle
<1>16. CASE g.k = "gear" /\ ~p.diff
  BY <1>8, <1>16, Zenon DEF SmallCode, cut
<1>17. CASE g.k \in {"tick", "cross"} /\ p.pending # 0 /\ ~p.diff
  BY <1>9, <1>17, Zenon DEF SmallCode, idle, ticked, touched
<1>18. CASE /\ g.k \notin {"summary", "diff open", "edited", "shell", "gear"} /\ ~p.diff
            /\ ~(g.k \in {"tick", "cross"} /\ p.pending # 0)
  BY <1>10, <1>18, Zenon DEF SmallCode
<1> QED
  BY <1>11, <1>12, <1>13, <1>14, <1>15, <1>16, <1>17, <1>18

\* No line but the first of a diff opens one.
LEMMA DiffStaysShut ==
  ASSUME NEW p \in AParser, NEW g \in ASegment, ~p.diff, g.k \in {"gear", "tick", "cross", "edited", "shell", "plain", "summary"}
  PROVE  ~SmallCode(p, g).p.diff
<1>1. ASSUME NEW n, NEW ev, SmallCode(p, g) = Step([p EXCEPT !.pending = n], ev)
      PROVE  ~SmallCode(p, g).p.diff
  <2>1. [p EXCEPT !.pending = n].diff = p.diff
    BY DEF AParser
  <2>2. SmallCode(p, g).p = [p EXCEPT !.pending = n]
    BY <1>1, StepIs
  <2> QED
    BY <2>1, <2>2
<1>2. ASSUME NEW ev, SmallCode(p, g) = Step(p, ev) PROVE ~SmallCode(p, g).p.diff
  BY <1>2, StepIs
<1>3. g.k # "diff open"
  OBVIOUS
<1>4. CASE g.k = "gear"
  <2>1. g.k # "summary" /\ g.k # "edited" /\ g.k # "shell"
    BY <1>4
  <2> QED
    BY <1>1, <1>3, <1>4, <2>1, Zenon DEF SmallCode
<1>5. CASE g.k = "edited"
  <2>1. g.k # "summary"
    BY <1>5
  <2> QED
    BY <1>1, <1>3, <1>5, <2>1, Zenon DEF SmallCode
<1>6. CASE g.k = "shell"
  <2>1. g.k # "summary" /\ g.k # "edited"
    BY <1>6
  <2> QED
    BY <1>1, <1>3, <1>6, <2>1, Zenon DEF SmallCode
<1>7. CASE g.k \in {"tick", "cross"}
  <2>1. g.k # "summary" /\ g.k # "edited" /\ g.k # "shell" /\ g.k # "gear"
    BY <1>7
  <2>2. CASE p.pending # 0
    BY <1>1, <1>3, <1>7, <2>1, <2>2, Zenon DEF SmallCode
  <2>3. CASE p.pending = 0
    BY <1>2, <1>3, <1>7, <2>1, <2>3, Zenon DEF SmallCode
  <2> QED
    BY <2>2, <2>3
<1>8. CASE g.k = "plain"
  <2>1. g.k # "summary" /\ g.k # "edited" /\ g.k # "shell" /\ g.k # "gear" /\ g.k \notin {"tick", "cross"}
    BY <1>8
  <2> QED
    BY <1>2, <1>3, <2>1, Zenon DEF SmallCode
<1>9. CASE g.k = "summary"
  BY <1>2, <1>9, Zenon DEF SmallCode
<1> QED
  BY <1>4, <1>5, <1>6, <1>7, <1>8, <1>9

NoShell(t) == \A k \in 1 .. Len(t) : t[k] # "shell"
SmallCodeTie(t, s, p, a) ==
  /\ s = "diff" <=> p.diff
  /\ NoShell(t) => Shows(t, a.calls) /\ (p.pending # 0 <=> Open(t)) /\ (a.on <=> Open(t))

\* A line that is SmallCode's to read, and what it must do.
GearLines == {line \in Seq(ASegment) \ {<<>>} : Head(line).k = "gear" => Head(line).n # 0}
SmallCodeGoes(one, t, s, a) ==
  one \in Told /\ \A b \in AnAccount : Comes(a, one.ev, b) => SmallCodeTie(t, s, one.p, b)

LEMMA NoShellBefore ==
  ASSUME NEW t \in Tellings
  PROVE  /\ \A x \in Fates : Open(t) /\ NoShell(Came(t, x)) => NoShell(t)
         /\ NoShell(Cut(t)) => NoShell(t)
         /\ \A x \in Fates : Len(t) + 1 <= Calls /\ NoShell(Append(t, x)) => NoShell(t)
<1>1. Open(t) => t # <<>> /\ t[Len(t)] # "shell"
  BY TellingIs DEF EndsIn
<1>2. ASSUME NEW x \in Fates, Open(t), NoShell(Came(t, x)) PROVE NoShell(t)
  BY <1>1, <1>2, CameIs DEF NoShell
<1>3. ASSUME NoShell(Cut(t)) PROVE NoShell(t)
  BY <1>1, <1>3, CutIs DEF NoShell
<1>4. ASSUME NEW x \in Fates, Len(t) + 1 <= Calls, NoShell(Append(t, x)) PROVE NoShell(t)
  BY <1>4, AddedIs, TellingIs DEF NoShell
<1> QED
  BY <1>2, <1>3, <1>4

\* A call that is announced cuts the one before it short.
LEMMA CallCutShort ==
  ASSUME NEW t \in Tellings, NEW s, NEW p \in AParser, NEW a \in AnAccount, SmallCodeTie(t, s, p, a),
         NoShell(t), NEW no \in BOOLEAN, ~no
  PROVE  CutShort(p, a, no) \in AnAccount /\ Shows(Cut(t), CutShort(p, a, no).calls)
<1>1. Shows(t, a.calls) /\ (p.pending # 0 <=> Open(t)) /\ (a.on <=> Open(t))
  BY DEF SmallCodeTie
<1>2. CASE ~Open(t)
  BY <1>1, <1>2, CutIs DEF CutShort
<1>3. CASE Open(t)
  <2>1. CutShort(p, a, no) = EndedWith(a, no, 0) /\ Cut(t) = Came(t, "cut")
    BY <1>1, <1>3 DEF CutShort, Cut, Came
  <2>2. 0 \in Names /\ 0 \in {0, Len(t)} /\ "cut" \in Fates
    BY NamesAre, FatesAre
  <2>3. /\ EndedWith(a, no, 0) \in AnAccount /\ Shows(Came(t, "cut"), EndedWith(a, no, 0).calls)
    BY <1>1, <1>3, <2>2, CallAnsweredFor
  <2> QED
    BY <2>1, <2>3
<1> QED
  BY <1>2, <1>3

LEMMA SmallCodeLines ==
  \A p, g : g.k \notin Markers \cup Extras => Feed("smallcode", p, <<g>>) = SmallCode(p, g)
<1> SUFFICES ASSUME NEW p, NEW g, g.k \notin Markers \cup Extras PROVE Feed("smallcode", p, <<g>>) = SmallCode(p, g)
  OBVIOUS
<1>1. Head(<<g>>) = g
  OBVIOUS
<1> QED
  BY <1>1, Zenon DEF Feed

\* What a line of it says, the parser and the calls follow.
SmallKinds == {"hunk", "diff close", "diff open", "plain", "summary", "gear", "tick", "edited", "cross", "shell"}
LEMMA SmallCodeFollows ==
  ASSUME NEW t \in Tellings, NEW s \in Stages, NEW p \in AParser, NEW a \in AnAccount,
         SmallCodeTie(t, s, p, a), NEW y \in SaysSmallCode(t, s)
  PROVE  /\ y.line \in GearLines /\ Feed("smallcode", p, y.line) = SmallCode(p, Head(y.line))
         /\ SmallCodeGoes(SmallCode(p, Head(y.line)), y.told, y.stage, a)
<1> DEFINE n == Len(t) + 1
           Right == /\ y.line \in GearLines /\ Feed("smallcode", p, y.line) = SmallCode(p, Head(y.line))
                    /\ SmallCodeGoes(SmallCode(p, Head(y.line)), y.told, y.stage, a)
<1>1. s = "diff" <=> p.diff
  BY DEF SmallCodeTie
<1>t. /\ Len(t) \in Names /\ Len(t) \in Nat /\ 0 \in Names /\ (Open(t) => t # <<>>)
      /\ Len(t) \in {0, Len(t)} /\ (t # <<>> => Len(t) # 0)
  BY TellingsGoOn, NamesAre, TellingIs DEF EndsIn
<1>s. \A k \in SegKinds, m \in Names : Seg(k, m) \in ASegment /\ Seg(k, m).k = k /\ Seg(k, m).n = m
  BY SegIs
<1>y. PICK yes \in BOOLEAN, no \in BOOLEAN : yes /\ ~no
  <2>1. TRUE \in BOOLEAN /\ FALSE \in BOOLEAN
    OBVIOUS
  <2> QED
    BY <2>1, Zenon
<1>k. \A k \in SmallKinds : k \in SegKinds /\ k \notin Markers \cup Extras
  BY DEF SmallKinds, SegKinds, Markers, Extras
<1>0. ASSUME NEW g \in ASegment, g.k \in SmallKinds, g.k = "gear" => g.n # 0, NEW t2, NEW s2,
             y = Says(<<g>>, t2, s2), s2 = "diff" <=> SmallCode(p, g).p.diff,
             NoShell(t2) => \E b : /\ Comes(a, SmallCode(p, g).ev, b) /\ Shows(t2, b.calls)
                                   /\ SmallCode(p, g).p.pending # 0 <=> Open(t2)
                                   /\ b.on <=> Open(t2)
      PROVE  Right
  <2>1. y.line = <<g>> /\ y.told = t2 /\ y.stage = s2
    BY <1>0, SaysIs
  <2>2. Head(<<g>>) = g /\ <<g>> \in Seq(ASegment) \ {<<>>}
    OBVIOUS
  <2>3. SmallCode(p, g) \in Told
    BY <1>0, SmallCodeEvents
  <2>4. SmallCode(p, g).ev \in Seq(GEvent)
    BY <2>3 DEF Told
  <2>5. ASSUME NEW b \in AnAccount, Comes(a, SmallCode(p, g).ev, b) PROVE SmallCodeTie(t2, s2, SmallCode(p, g).p, b)
    <3>1. ASSUME NoShell(t2)
          PROVE  Shows(t2, b.calls) /\ (SmallCode(p, g).p.pending # 0 <=> Open(t2)) /\ (b.on <=> Open(t2))
      <4>1. PICK c : /\ Comes(a, SmallCode(p, g).ev, c) /\ Shows(t2, c.calls)
                     /\ SmallCode(p, g).p.pending # 0 <=> Open(t2)
                     /\ c.on <=> Open(t2)
        BY <1>0, <3>1, Zenon
      <4>2. b = c
        BY <2>4, <2>5, <4>1, ComesOnce, Zenon
      <4> QED
        BY <4>1, <4>2
    <3> QED
      BY <1>0, <3>1 DEF SmallCodeTie
  <2>6. SmallCodeGoes(SmallCode(p, g), t2, s2, a)
    BY <2>3, <2>5 DEF SmallCodeGoes
  <2>7. <<g>> \in GearLines
    BY <1>0, <2>2 DEF GearLines
  <2>8. Feed("smallcode", p, <<g>>) = SmallCode(p, g)
    BY <1>0, <1>k, SmallCodeLines
  <2> QED
    BY <2>1, <2>2, <2>6, <2>7, <2>8
<1>g. ASSUME NEW k \in SmallKinds, NEW m \in Names, NEW l, l = Seg(k, m)
      PROVE  l \in ASegment /\ l.k = k /\ l.n = m
  BY <1>g, <1>s, <1>k
<1> HIDE DEF Right
\* Lines that tell nothing of a call.
<1>2. ASSUME NEW k \in SmallKinds, NEW s2, y = Says(<<Seg(k, 0)>>, t, s2),
             \/ p.diff /\ k = "hunk" /\ s2 = s
             \/ p.diff /\ k = "diff close" /\ s2 = "free"
             \/ k = "diff open" /\ s2 = "diff"
             \/ ~p.diff /\ k \in {"plain", "summary"} /\ s2 = s
      PROVE  Right
  <2>1. PICK g \in ASegment : g = Seg(k, 0) /\ g.k = k
    BY <1>g, <1>t
  <2>2. /\ s2 = "diff" <=> SmallCode(p, g).p.diff
        /\ SmallCode(p, g).p.pending = p.pending /\ Comes(a, SmallCode(p, g).ev, a)
    <3>1. CASE p.diff /\ k = "hunk" /\ s2 = s
      BY <1>1, <2>1, <3>1, DiffRead DEF Marked
    <3>2. CASE p.diff /\ k = "diff close" /\ s2 = "free"
      <4>1. Marked(SmallCode(p, g), p, FALSE, a)
        BY <2>1, <3>2, DiffRead, Zenon
      <4>2. ~SmallCode(p, g).p.diff
        BY <4>1, Zenon DEF Marked
      <4> QED
        BY <3>2, <4>1, <4>2 DEF Marked
    <3>3. CASE k = "diff open" /\ s2 = "diff"
      BY <1>1, <2>1, <3>3, DiffRead DEF Marked
    <3>4. CASE ~p.diff /\ k \in {"plain", "summary"} /\ s2 = s
      BY <1>1, <2>1, <3>4, QuietRead DEF Quiet
    <3> QED
      BY <1>2, <3>1, <3>2, <3>3, <3>4
  <2>3. k # "gear"
    BY <1>2
  <2>4. NoShell(t) => Shows(t, a.calls) /\ (p.pending # 0 <=> Open(t)) /\ (a.on <=> Open(t))
    BY DEF SmallCodeTie
  <2>5. NoShell(t) => \E b : /\ Comes(a, SmallCode(p, g).ev, b) /\ Shows(t, b.calls)
                             /\ SmallCode(p, g).p.pending # 0 <=> Open(t)
                             /\ b.on <=> Open(t)
    BY <2>2, <2>4
  <2> QED
    BY <1>0, <1>2, <2>1, <2>2, <2>3, <2>5
\* A result, and a line of the shell.
<1>3. ASSUME ~p.diff, Open(t), NEW k \in {"tick", "edited", "cross", "shell"}, NEW x \in Fates,
             NEW ok \in BOOLEAN, x = "ok" => ok, x = "fail" => ~ok, y = Says(<<Seg(k, Len(t))>>, Came(t, x), s),
             \/ k \in {"tick", "edited"} /\ x = "ok"
             \/ k = "cross" /\ x = "fail"
             \/ k = "shell" /\ x = "shell"
      PROVE  Right
  <2>0. k \in SmallKinds /\ k # "gear"
    BY DEF SmallKinds
  <2>1. PICK g \in ASegment : g = Seg(k, Len(t)) /\ g.k = k /\ g.n = Len(t)
    BY <1>g, <1>t, <2>0
  <2> DEFINE u == Came(t, x)
  <2>2. u \in Tellings /\ Len(u) = Len(t) /\ u[Len(t)] = x /\ (NoShell(u) => NoShell(t)) /\ (\A z \in Fates : EndsIn(u, z) <=> x = z)
    BY <1>3, <1>t, CameIs, NoShellBefore
  <2>3. ~SmallCode(p, g).p.diff
    BY <1>3, <2>1, DiffStaysShut
  <2>4. ~Open(u)
    <3>1. x \notin {"open", "input"}
      BY <1>3
    <3> QED
      BY <2>2, <3>1, TellingIs, FatesAre
  <2>5. NoShell(u) => \E b : /\ Comes(a, SmallCode(p, g).ev, b) /\ Shows(u, b.calls)
                             /\ SmallCode(p, g).p.pending # 0 <=> Open(u)
                             /\ b.on <=> Open(u)
    <3> SUFFICES ASSUME NoShell(u)
                 PROVE  \E b : /\ Comes(a, SmallCode(p, g).ev, b) /\ Shows(u, b.calls)
                               /\ SmallCode(p, g).p.pending # 0 <=> Open(u)
                               /\ b.on <=> Open(u)
      OBVIOUS
    <3>1. Shows(t, a.calls) /\ p.pending # 0 /\ a.on
      BY <1>3, <2>2 DEF SmallCodeTie
    <3>2. x # "shell"
      BY <1>t, <1>3, <2>2 DEF NoShell
    <3> DEFINE b == EndedWith(a, ok, Len(t))
    <3>3. ~b.on /\ Shows(u, b.calls)
      BY <1>t, <1>3, <3>1, CallAnsweredFor
    <3>4. Moves(SmallCode(p, g), 0, a, b)
      <4>1. CASE k = "tick"
        BY <1>3, <1>y, <2>1, <3>1, <4>1, CallsRead
      <4>2. CASE k = "edited"
        BY <1>3, <1>y, <2>1, <3>1, <4>2, CallsRead
      <4>3. CASE k = "cross"
        BY <1>3, <1>y, <2>1, <3>1, <4>3, CallsRead
      <4> QED
        BY <1>3, <3>2, <4>1, <4>2, <4>3
    <3> HIDE DEF b, u
    <3> QED
      BY <2>4, <3>3, <3>4 DEF Moves
  <2> HIDE DEF u
  <2> QED
    BY <1>0, <1>1, <1>3, <2>0, <2>1, <2>3, <2>5 DEF u
<1>4. ASSUME ~p.diff, n <= Calls, y = Says(<<Seg("gear", n)>>, Append(Cut(t), "open"), s)
      PROVE  Right
  <2>0. n \in Names \ {0} /\ "gear" \in SmallKinds
    BY <1>4, <1>t, NamesAre DEF SmallKinds
  <2>1. PICK g \in ASegment : g = Seg("gear", n) /\ g.k = "gear" /\ g.n = n
    BY <1>g, <2>0
  <2>2. Cut(t) \in Tellings /\ Len(Cut(t)) = Len(t)
    BY CutIs
  <2> DEFINE u == Append(Cut(t), "open")
  <2>3. u \in Tellings /\ EndsIn(u, "open") /\ (NoShell(u) => NoShell(Cut(t)))
    BY <1>4, <2>2, AddedIs, FatesAre, NoShellBefore
  <2>4. Open(u) /\ (NoShell(u) => NoShell(t))
    BY <2>3, TellingIs, NoShellBefore
  <2>5. ~SmallCode(p, g).p.diff
    BY <1>4, <2>1, DiffStaysShut
  <2>6. NoShell(u) => \E b : /\ Comes(a, SmallCode(p, g).ev, b) /\ Shows(u, b.calls)
                             /\ SmallCode(p, g).p.pending # 0 <=> Open(u)
                             /\ b.on <=> Open(u)
    <3> SUFFICES ASSUME NoShell(u)
                 PROVE  \E b : /\ Comes(a, SmallCode(p, g).ev, b) /\ Shows(u, b.calls)
                               /\ SmallCode(p, g).p.pending # 0 <=> Open(u)
                               /\ b.on <=> Open(u)
      OBVIOUS
    <3>1. PICK c \in AnAccount : c = CutShort(p, a, no) /\ Shows(Cut(t), c.calls)
      BY <1>y, <2>4, CallCutShort
    <3> DEFINE b == Named(c, n)
    <3>2. b.on /\ Shows(u, b.calls)
      BY <1>4, <2>2, <3>1, CallAnnounced
    <3>3. Moves(SmallCode(p, g), n, a, b)
      BY <1>4, <1>y, <2>0, <2>1, <3>1, CallsRead
    <3> HIDE DEF b, u
    <3> QED
      BY <2>0, <2>4, <3>2, <3>3 DEF Moves
  <2> HIDE DEF u
  <2> QED
    BY <1>0, <1>1, <1>4, <2>0, <2>1, <2>5, <2>6 DEF u
<1>5. CASE s = "diff"
  <2>1. "hunk" \in SmallKinds /\ "diff close" \in SmallKinds
    BY DEF SmallKinds
  <2>2. y = Says(<<Seg("hunk", 0)>>, t, s) => Right
    BY <1>1, <1>2, <1>5, <2>1, Zenon
  <2>3. y = Says(<<Seg("diff close", 0)>>, t, "free") => Right
    BY <1>1, <1>2, <1>5, <2>1, Zenon
  <2> QED
    BY <1>5, <2>2, <2>3 DEF SaysSmallCode, Right
<1>6. CASE s # "diff"
  <2>1. "plain" \in SmallKinds /\ "summary" \in SmallKinds /\ "diff open" \in SmallKinds
    BY DEF SmallKinds
  <2>2. y = Says(<<Seg("plain", 0)>>, t, s) => Right
    BY <1>1, <1>2, <1>6, <2>1, Zenon
  <2>3. y = Says(<<Seg("summary", 0)>>, t, s) => Right
    BY <1>1, <1>2, <1>6, <2>1, Zenon
  <2>4. y = Says(<<Seg("diff open", 0)>>, t, "diff") => Right
    BY <1>1, <1>2, <1>6, <2>1, Zenon
  <2>5. n <= Calls /\ y = Says(<<Seg("gear", n)>>, Append(Cut(t), "open"), s) => Right
    BY <1>1, <1>4, <1>6
  <2>6. Open(t) /\ y = Says(<<Seg("tick", Len(t))>>, Came(t, "ok"), s) => Right
    BY <1>1, <1>3, <1>6, <1>y, FatesAre, Zenon
  <2>7. Open(t) /\ y = Says(<<Seg("edited", Len(t))>>, Came(t, "ok"), s) => Right
    BY <1>1, <1>3, <1>6, <1>y, FatesAre, Zenon
  <2>8. Open(t) /\ y = Says(<<Seg("cross", Len(t))>>, Came(t, "fail"), s) => Right
    BY <1>1, <1>3, <1>6, <1>y, FatesAre, Zenon
  <2>9. Open(t) /\ y = Says(<<Seg("shell", Len(t))>>, Came(t, "shell"), s) => Right
    BY <1>1, <1>3, <1>6, <1>y, FatesAre, Zenon
  <2>10. \/ y = Says(<<Seg("plain", 0)>>, t, s) \/ y = Says(<<Seg("summary", 0)>>, t, s)
         \/ ~(n > Calls) /\ y = Says(<<Seg("gear", n)>>, Append(Cut(t), "open"), s)
         \/ Open(t) /\ \/ y = Says(<<Seg("diff open", 0)>>, t, "diff")
                       \/ y = Says(<<Seg("tick", Len(t))>>, Came(t, "ok"), s)
                       \/ y = Says(<<Seg("edited", Len(t))>>, Came(t, "ok"), s)
                       \/ y = Says(<<Seg("cross", Len(t))>>, Came(t, "fail"), s)
                       \/ y = Says(<<Seg("shell", Len(t))>>, Came(t, "shell"), s)
    BY <1>6, Zenon DEF SaysSmallCode
  <2>11. ~(n > Calls) => n <= Calls
    BY <1>t, NamesAre
  <2> HIDE DEF n
  <2> QED
    BY <2>2, <2>3, <2>4, <2>5, <2>6, <2>7, <2>8, <2>9, <2>10, <2>11 DEF Right
<1> QED
  BY <1>5, <1>6 DEF Right

LEMMA SmallCodeEnds ==
  ASSUME NEW t \in Tellings, NEW s, NEW p \in AParser, NEW a \in AnAccount, SmallCodeTie(t, s, p, a),
         NEW no \in BOOLEAN, ~no
  PROVE  /\ Flush("smallcode", p) \in Seq(GEvent) /\ CutShort(p, a, no) \in AnAccount
         /\ Draws(a, Flush("smallcode", p), CutShort(p, a, no)) /\ Comes(a, Flush("smallcode", p), CutShort(p, a, no))
         /\ NoShell(t) => RunTells("smallcode", t, CutShort(p, a, no).calls)
<1>n. 0 \in Names /\ Anon \in Names \ {0} /\ no = FALSE
  BY NamesAre DEF Anon
<1>1. /\ <<ToolEnd(no, 0, 0)>> \in Seq(GEvent) /\ Comes(a, <<ToolEnd(no, 0, 0)>>, EndedWith(a, no, 0))
      /\ Draws(a, <<ToolEnd(no, 0, 0)>>, EndedWith(a, no, 0)) /\ EndedWith(a, no, 0) \in AnAccount
  BY <1>n, TellingEvents, EndedMakes
<1>2. Flush("smallcode", p) = IF p.pending # 0 THEN <<ToolEnd(no, 0, 0)>> ELSE <<>>
  BY <1>n, Zenon DEF Flush
<1> HIDE DEF ToolEnd
<1>3. /\ Flush("smallcode", p) \in Seq(GEvent) /\ CutShort(p, a, no) \in AnAccount
      /\ Draws(a, Flush("smallcode", p), CutShort(p, a, no)) /\ Comes(a, Flush("smallcode", p), CutShort(p, a, no))
  <2>1. CASE p.pending # 0
    BY <1>1, <1>2, <2>1 DEF CutShort
  <2>2. CASE p.pending = 0
    BY <1>2, <2>2, ComesNothing, EventsListed DEF CutShort
  <2> QED
    BY <2>1, <2>2
<1>4. ASSUME NoShell(t) PROVE RunTells("smallcode", t, CutShort(p, a, no).calls)
  <2> DEFINE c == CutShort(p, a, no).calls
  <2>1. Shows(Cut(t), c) /\ Len(Cut(t)) = Len(t) /\ Len(t) \in Nat
    BY <1>4, CallCutShort, CutIs, TellingIs
  <2>2. \A k \in 1 .. Len(t) : t[k] \in {"ok", "fail"} => Cut(t)[k] = t[k]
    <3>1. Open(t) => t[Len(t)] \notin {"ok", "fail"}
      BY TellingIs DEF EndsIn
    <3> QED
      BY <3>1, CutIs
  <2>3. ~OnlyNamedLast("smallcode", t)
    BY DEF OnlyNamedLast
  <2> HIDE DEF c
  <2> QED
    BY <2>1, <2>2, <2>3 DEF Shows, RunTells, c
<1> QED
  BY <1>3, <1>4

-----------------------------------------------------------------------------
(* The rows of an old session, made from the lines SmallCode printed.      *)

AnOutcome == [name : Names, status : {"done", "failed"}]
Walker == [start : Names, out : Seq(AnOutcome)]
Walking(n, out) == [start |-> n, out |-> out]
Outcomes(c) == [k \in 1 .. Len(c) |-> Outcome(c[k].name, c[k].status)]
Tells(a, w) == Outcomes(a.calls) = Ended(w) /\ (a.on <=> w.start # 0)

LEMMA OutcomeMade ==
  \A n \in Names, s \in {"done", "failed"} :
    Outcome(n, s) \in AnOutcome /\ Outcome(n, s).name = n /\ Outcome(n, s).status = s
BY DEF Outcome, AnOutcome

LEMMA WalkMade ==
  ASSUME NEW w \in Walker, NEW e \in AnEvent
  PROVE  /\ Ended(w) \in Seq(AnOutcome) /\ w.out \in Seq(AnOutcome) /\ w.start \in Names
         /\ e.type = "tool_start" => Walk(w, e) = Walking(e.name, Ended(w))
         /\ e.type = "tool_end" /\ w.start # 0
              => Walk(w, e) = Walking(0, Append(w.out, Outcome(w.start, IF e.ok THEN "done" ELSE "failed")))
         /\ e.type # "tool_start" /\ ~(e.type = "tool_end" /\ w.start # 0) => Walk(w, e) = w
         /\ Walk(w, e) \in Walker
<1>1. w.out \in Seq(AnOutcome) /\ w.start \in Names
  BY DEF Walker
<1>2. Ended(w) \in Seq(AnOutcome)
  <2>1. Outcome(w.start, "failed") \in AnOutcome
    BY <1>1, OutcomeMade
  <2> HIDE DEF Outcome
  <2> QED
    BY <1>1, <2>1 DEF Ended
<1>3. e.type = "tool_start" => Walk(w, e) = Walking(e.name, Ended(w))
  BY Zenon DEF Walk, Walking
<1>4. e.type = "tool_end" /\ w.start # 0
        => Walk(w, e) = Walking(0, Append(w.out, Outcome(w.start, IF e.ok THEN "done" ELSE "failed")))
  <2>1. e.type = "tool_end" => e.type # "tool_start"
    OBVIOUS
  <2> QED
    BY <2>1, Zenon DEF Walk, Walking
<1>5. e.type # "tool_start" /\ ~(e.type = "tool_end" /\ w.start # 0) => Walk(w, e) = w
  BY Zenon DEF Walk
<1>6. \A n \in Names, out \in Seq(AnOutcome) : Walking(n, out) \in Walker
  BY DEF Walking, Walker
<1>7. e.name \in Names /\ 0 \in Names
  BY EventFields, NamesAre
<1>8. Append(w.out, Outcome(w.start, IF e.ok THEN "done" ELSE "failed")) \in Seq(AnOutcome)
  <2>1. PICK o \in AnOutcome : o = Outcome(w.start, IF e.ok THEN "done" ELSE "failed")
    BY <1>1, OutcomeMade
  <2> QED
    BY <1>1, <2>1
<1>9. Walk(w, e) \in Walker
  <2>1. CASE e.type = "tool_start"
    BY <1>2, <1>3, <1>6, <1>7, <2>1, Zenon
  <2>2. CASE e.type = "tool_end" /\ w.start # 0
    BY <1>4, <1>6, <1>7, <1>8, <2>2, Zenon
  <2>3. CASE e.type # "tool_start" /\ ~(e.type = "tool_end" /\ w.start # 0)
    BY <1>5, <2>3
  <2> QED
    BY <2>1, <2>2, <2>3
<1> QED
  BY <1>1, <1>2, <1>3, <1>4, <1>5, <1>9

LEMMA OutcomesAre ==
  ASSUME NEW c \in Seq(ACall), NEW d \in ACall
  PROVE  /\ Outcomes(c) \in Seq(AnOutcome) /\ Len(Outcomes(c)) = Len(c)
         /\ \A k \in 1 .. Len(c) : Outcomes(c)[k] = Outcome(c[k].name, c[k].status)
         /\ Outcomes(Append(c, d)) = Append(Outcomes(c), Outcome(d.name, d.status))
<1>1. \A k \in 1 .. Len(c) : Outcome(c[k].name, c[k].status) \in AnOutcome
  BY CallFields, OutcomeMade
<1>2. Outcome(d.name, d.status) \in AnOutcome
  BY CallFields, OutcomeMade
<1> HIDE DEF Outcome
<1>3. Outcomes(c) \in Seq(AnOutcome) /\ Len(Outcomes(c)) = Len(c)
  BY <1>1 DEF Outcomes
<1>4. \A k \in 1 .. Len(c) : Outcomes(c)[k] = Outcome(c[k].name, c[k].status)
  BY DEF Outcomes
<1>5. Append(c, d) \in Seq(ACall) /\ Len(Append(c, d)) = Len(c) + 1 /\ Append(c, d)[Len(c) + 1] = d
      /\ \A k \in 1 .. Len(c) : Append(c, d)[k] = c[k]
  OBVIOUS
<1>6. Outcomes(Append(c, d)) = [k \in 1 .. Len(c) + 1 |-> Outcome(Append(c, d)[k].name, Append(c, d)[k].status)]
  BY <1>5 DEF Outcomes
<1>7. Append(Outcomes(c), Outcome(d.name, d.status)) \in Seq(AnOutcome)
      /\ Len(Append(Outcomes(c), Outcome(d.name, d.status))) = Len(c) + 1
  BY <1>2, <1>3
<1>8. ASSUME NEW k \in 1 .. Len(c) + 1
      PROVE  Append(Outcomes(c), Outcome(d.name, d.status))[k] = Outcome(Append(c, d)[k].name, Append(c, d)[k].status)
  <2>1. CASE k = Len(c) + 1
    BY <1>2, <1>3, <1>5, <2>1
  <2>2. CASE k # Len(c) + 1
    <3>1. k \in 1 .. Len(c)
      BY <2>2
    <3> QED
      BY <1>2, <1>3, <1>4, <1>5, <3>1
  <2> QED
    BY <2>1, <2>2
<1>9. Outcomes(Append(c, d)) = Append(Outcomes(c), Outcome(d.name, d.status))
  BY <1>6, <1>7, <1>8
<1> QED
  BY <1>3, <1>4, <1>9

\* The walk tells of the calls what the rows do, event after event.
LEMMA WalkKeepsUp ==
  ASSUME NEW a \in AnAccount, NEW w \in Walker, NEW e \in GEvent, Tells(a, w)
  PROVE  Tells(Moved(a, e), Walk(w, e))
<1>0. e \in AnEvent /\ (e.type = "tool_start" => e.name # 0) /\ e.name \in Names
  BY EventFields DEF GEvent
<1>a. a.calls \in Seq(ACall) /\ Len(a.calls) \in Nat /\ (a.on => Len(a.calls) # 0)
  BY AccountMade
<1>w. w.out \in Seq(AnOutcome) /\ w.start \in Names /\ Ended(w) \in Seq(AnOutcome)
  BY <1>0, WalkMade
<1>1. Outcomes(a.calls) = Ended(w) /\ (a.on <=> w.start # 0)
  BY DEF Tells
<1>i. \A n, out : Walking(n, out).start = n /\ Walking(n, out).out = out
  BY DEF Walking
<1>e. \A v : (v.start = 0 => Ended(v) = v.out) /\ (v.start # 0 => Ended(v) = Append(v.out, Outcome(v.start, "failed")))
  BY Zenon DEF Ended
<1>2. CASE e.type = "tool_start"
  <2>1. Moved(a, e) = Starting(a, e) /\ Walk(w, e) = Walking(e.name, Ended(w))
    BY <1>0, <1>2, WalkMade DEF Moved
  <2>2. Starting(a, e).on /\ Starting(a, e).calls = Append(a.calls, CallIs(e.name, "failed", 0))
    BY <1>0, StartMakes
  <2>3. PICK d \in ACall : d = CallIs(e.name, "failed", 0) /\ d.name = e.name /\ d.status = "failed"
    BY <1>0, CallMade, NamesAre
  <2>4. Outcomes(Append(a.calls, d)) = Append(Outcomes(a.calls), Outcome(e.name, "failed"))
    <3>1. Outcomes(Append(a.calls, d)) = Append(Outcomes(a.calls), Outcome(d.name, d.status))
      BY <1>a, OutcomesAre
    <3> QED
      BY <2>3, <3>1, Zenon
  <2>5. Walk(w, e).start = e.name /\ Walk(w, e).out = Ended(w)
    BY <1>i, <2>1
  <2>6. Ended(Walk(w, e)) = Append(Ended(w), Outcome(e.name, "failed"))
    BY <1>0, <1>2, <1>e, <2>5, Zenon
  <2> QED
    BY <1>0, <1>1, <1>2, <2>1, <2>2, <2>3, <2>4, <2>5, <2>6, Zenon DEF Tells
<1>3. CASE e.type = "tool_end" /\ a.on
  <2> DEFINE n == Len(a.calls)
             status == IF e.ok THEN "done" ELSE "failed"
  <2>1. Moved(a, e) = Ending(a, e) /\ Walk(w, e) = Walking(0, Append(w.out, Outcome(w.start, status)))
    <3>1. e.type # "tool_start"
      BY <1>3
    <3>2. Moved(a, e) = Ending(a, e)
      BY <1>3, <3>1, Zenon DEF Moved
    <3> QED
      BY <1>0, <1>1, <1>3, <3>2, WalkMade
  <2>2. PICK d \in ACall : d = Answered(a.calls[n], e) /\ d.name = a.calls[n].name /\ d.status = status
    <3>1. a.calls[n] \in ACall
      BY <1>3, <1>a
    <3>2. e.preview \in Names /\ a.calls[n].preview \in Names /\ a.calls[n].name \in Names /\ status \in {"done", "failed"}
      BY <1>0, <3>1, EventFields, CallFields
    <3>3. (IF e.preview # 0 THEN e.preview ELSE a.calls[n].preview) \in Names
      BY <3>2
    <3> HIDE DEF n
    <3>4. Answered(a.calls[n], e) = CallIs(a.calls[n].name, status, IF e.preview # 0 THEN e.preview ELSE a.calls[n].preview)
      BY DEF Answered
    <3> HIDE DEF status
    <3> QED
      BY <3>2, <3>3, <3>4, CallMade
  <2>3. /\ ~Ending(a, e).on /\ Len(Ending(a, e).calls) = n /\ Ending(a, e).calls[n] = d
        /\ \A k \in 1 .. n : k # n => Ending(a, e).calls[k] = a.calls[k]
        /\ Ending(a, e).calls \in Seq(ACall)
    BY <1>0, <1>3, <2>2, EndMakes, AccountMade
  <2>4. Ended(w) = Append(w.out, Outcome(w.start, "failed"))
    BY <1>1, <1>3, <1>e
  <2>5. Walk(w, e).start = 0 /\ Ended(Walk(w, e)) = Append(w.out, Outcome(w.start, status))
    <3>1. Walk(w, e).start = 0 /\ Walk(w, e).out = Append(w.out, Outcome(w.start, status))
      <4>1. ASSUME NEW u, Walk(w, e) = Walking(0, u) PROVE Walk(w, e).start = 0 /\ Walk(w, e).out = u
        BY <1>i, <4>1
      <4> QED
        BY <2>1, <4>1, Zenon
    <3> QED
      BY <1>e, <3>1, Zenon
  <2>6. Outcome(w.start, "failed") \in AnOutcome /\ Outcome(w.start, status) \in AnOutcome
        /\ Outcome(w.start, "failed").name = w.start
    BY <1>w, OutcomeMade
  <2>7. Len(Outcomes(a.calls)) = n /\ \A k \in 1 .. n : Outcomes(a.calls)[k] = Outcome(a.calls[k].name, a.calls[k].status)
    BY <1>a, <2>2, OutcomesAre
  <2>8. Len(Outcomes(Ending(a, e).calls)) = n /\ Outcomes(Ending(a, e).calls) \in Seq(AnOutcome)
        /\ \A k \in 1 .. n : Outcomes(Ending(a, e).calls)[k] = Outcome(Ending(a, e).calls[k].name, Ending(a, e).calls[k].status)
    BY <1>a, <2>2, <2>3, OutcomesAre
  <2> HIDE DEF status, Outcome, Outcomes, Ended
  <2>9. Len(w.out) + 1 = n /\ Ended(w)[n] = Outcome(w.start, "failed") /\ \A k \in 1 .. n : k # n => Ended(w)[k] = w.out[k]
    BY <1>1, <1>w, <2>4, <2>6, <2>7
  <2>10. a.calls[n].name = w.start
    <3>1. n \in 1 .. n /\ a.calls[n] \in ACall
      BY <1>3, <1>a
    <3>2. Outcome(a.calls[n].name, a.calls[n].status) = Outcome(w.start, "failed")
      BY <1>1, <2>7, <2>9, <3>1
    <3>3. Outcome(a.calls[n].name, a.calls[n].status).name = a.calls[n].name
      BY <3>1, CallFields, OutcomeMade
    <3> QED
      BY <2>6, <3>2, <3>3
  <2> DEFINE u == Append(w.out, Outcome(w.start, status))
  <2>11. u \in Seq(AnOutcome) /\ Len(u) = n /\ u[n] = Outcome(w.start, status) /\ \A k \in 1 .. n : k # n => u[k] = w.out[k]
    BY <1>a, <1>w, <2>6, <2>9
  <2> HIDE DEF u
  <2>12. \A k \in 1 .. n : Outcomes(Ending(a, e).calls)[k] = u[k]
    <3>1. Outcomes(Ending(a, e).calls)[n] = u[n]
      <4>1. n \in 1 .. n
        BY <1>3, <1>a
      <4> QED
        BY <2>2, <2>3, <2>8, <2>10, <2>11, <4>1
    <3>2. ASSUME NEW k \in 1 .. n, k # n PROVE Outcomes(Ending(a, e).calls)[k] = u[k]
      <4>1. Outcomes(Ending(a, e).calls)[k] = Outcome(a.calls[k].name, a.calls[k].status)
        BY <2>3, <2>8, <3>2
      <4>2. u[k] = Outcomes(a.calls)[k]
        BY <1>1, <2>9, <2>11, <3>2
      <4> QED
        BY <2>7, <4>1, <4>2
    <3> QED
      BY <3>1, <3>2
  <2>13. Outcomes(Ending(a, e).calls) = u
    BY <2>8, <2>11, <2>12
  <2> QED
    BY <2>1, <2>3, <2>5, <2>13, Zenon DEF Tells, u
<1>4. CASE e.type # "tool_start" /\ ~(e.type = "tool_end" /\ a.on)
  <2>1. Moved(a, e) = a
    <3>1. ~a.on => Ending(a, e) = a
      BY <1>0, EndMakes
    <3> QED
      BY <1>4, <3>1, Zenon DEF Moved
  <2>2. Walk(w, e) = w
    BY <1>0, <1>1, <1>4, WalkMade
  <2> QED
    BY <1>1, <2>1, <2>2 DEF Tells
<1> QED
  BY <1>2, <1>3, <1>4

WalkedBy == [x \in Walker \X GEvent |-> Walk(x[1], x[2])]
LEMMA WalkedByTyped ==
  /\ WalkedBy \in [Walker \X GEvent -> Walker]
  /\ \A a \in Walker, b \in GEvent : WalkedBy[<<a, b>>] = Walk(a, b)
<1>1. \A w \in Walker, e \in GEvent : Walk(w, e) \in Walker
  BY WalkMade DEF GEvent
<1> QED
  BY <1>1 DEF WalkedBy

LEMMA EventsWalked ==
  ASSUME NEW base \in Walker, NEW seq \in Seq(GEvent)
  PROVE  FoldsTo(Walker, WalkedBy, base, seq, FoldLeft(Walk, base, seq)) /\ FoldLeft(Walk, base, seq) \in Walker
<1> DEFINE n == Len(seq)
           Round(f) == [s \in SUBSET DOMAIN seq |->
                          IF s = {} THEN base ELSE LET x == Max(s) IN Walk(f[s \ {x}], seq[x])]
           iter == CHOOSE f : f = Round(f)
<1>1. FoldLeft(Walk, base, seq) = iter[DOMAIN seq]
  BY DEF FoldLeft, MapThenFoldSet
<1>d. DOMAIN seq = 1 .. n /\ n \in Nat /\ \A k \in 1 .. n : seq[k] \in GEvent
  OBVIOUS
<1>2. WalkedBy \in [Walker \X GEvent -> Walker] /\ \A a \in Walker, b \in GEvent : WalkedBy[<<a, b>>] = Walk(a, b)
  BY WalkedByTyped
<1>f. WalkedBy \in [Walker \X GEvent -> Walker]
  BY <1>2
<1>3. PICK g : IsFold(g, Walker, WalkedBy, base, seq)
  BY <1>f, FoldExists, Zenon
<1>4. /\ g \in [SUBSET (1 .. n) -> Walker]
      /\ \A s \in SUBSET (1 .. n) : g[s] = IF s = {} THEN base ELSE WalkedBy[<<g[s \ {Max(s)}], seq[Max(s)]>>]
  BY <1>3 DEF IsFold
<1>5. g = Round(g)
  <2>1. ASSUME NEW s \in SUBSET (1 .. n), s # {}
        PROVE  WalkedBy[<<g[s \ {Max(s)}], seq[Max(s)]>>] = Walk(g[s \ {Max(s)}], seq[Max(s)])
    <3>1. Max(s) \in 1 .. n
      BY <2>1, <1>d, GreatestPlace, Zenon
    <3>2. seq[Max(s)] \in GEvent /\ g[s \ {Max(s)}] \in Walker
      BY <3>1, <1>4, <1>d
    <3> QED
      BY <3>2, <1>2
  <2> HIDE DEF n
  <2>2. g = [s \in SUBSET (1 .. n) |-> g[s]]
    BY <1>4
  <2>3. \A s \in SUBSET (1 .. n) :
          g[s] = IF s = {} THEN base ELSE LET x == Max(s) IN Walk(g[s \ {x}], seq[x])
    BY <1>4, <2>1
  <2> QED
    BY <1>d, <2>2, <2>3
<1>6. iter = Round(iter)
  BY <1>5
<1> HIDE DEF iter
<1>7. \A s \in SUBSET (1 .. n) :
        iter[s] = IF s = {} THEN base ELSE LET x == Max(s) IN Walk(iter[s \ {x}], seq[x])
  BY <1>6, <1>d
<1>8. iter[{}] = base
  BY <1>7
<1>9. ASSUME NEW k \in 1 .. n, iter[(1 .. k) \ {k}] \in Walker
      PROVE  iter[1 .. k] = WalkedBy[<<iter[(1 .. k) \ {k}], seq[k]>>]
  <2>1. 1 .. k \in SUBSET (1 .. n) /\ 1 .. k # {} /\ Max(1 .. k) = k
    BY <1>d, PlacesUpTo, Zenon
  <2>2. iter[1 .. k] = Walk(iter[(1 .. k) \ {k}], seq[k])
    BY <1>7, <2>1
  <2> QED
    BY <1>2, <1>9, <1>d, <2>2
<1>10. FoldsTo(Walker, WalkedBy, base, seq, iter[1 .. n])
  BY <1>f, <1>8, <1>9, FoldTaken
<1>11. FoldsTo(Walker, WalkedBy, base, seq, FoldLeft(Walk, base, seq))
  BY <1>1, <1>10, <1>d
<1> QED
  BY <1>11, FoldEnds

NoCalls == Account(<<>>, FALSE)
Unwalked == [start |-> 0, out |-> <<>>]

\* What the walk makes of events is what the rows tell that come of them.
LEMMA WalkTells ==
  ASSUME NEW ev \in Seq(GEvent), NEW b, Comes(NoCalls, ev, b)
  PROVE  Outcomes(b.calls) = Ended(FoldLeft(Walk, Unwalked, ev))
<1> DEFINE R == {x \in AnAccount \X Walker : Tells(x[1], x[2])}
<1>1. PICK a \in AnAccount : a = NoCalls /\ a.calls = <<>> /\ ~a.on
  <2>1. <<>> \in Seq(ACall) /\ FALSE \in BOOLEAN
    OBVIOUS
  <2>2. PICK no \in BOOLEAN : no = FALSE
    BY <2>1, Zenon
  <2>3. Account(<<>>, no) \in AnAccount /\ Account(<<>>, no).calls = <<>> /\ Account(<<>>, no).on = no
    BY <2>1, <2>2, AccountMade
  <2> QED
    BY <2>2, <2>3, Zenon DEF NoCalls
<1>2. Unwalked \in Walker /\ Unwalked.start = 0 /\ Unwalked.out = <<>>
  BY NamesAre DEF Unwalked, Walker
<1>3. Tells(a, Unwalked)
  <2>1. Ended(Unwalked) = <<>>
    BY <1>2, Zenon DEF Ended
  <2>2. Outcomes(<<>>) = <<>>
    BY DEF Outcomes
  <2> QED
    BY <1>1, <1>2, <2>1, <2>2, Zenon DEF Tells
<1> DEFINE w == FoldLeft(Walk, Unwalked, ev)
<1>4. FoldsTo(Walker, WalkedBy, Unwalked, ev, w) /\ w \in Walker
  BY <1>2, EventsWalked
<1> HIDE DEF w
<1>5. FoldsTo(AnAccount, MovedBy, a, ev, b)
  BY <1>1 DEF Comes
<1>6. <<a, Unwalked>> \in R
  BY <1>2, <1>3
<1>7. ASSUME NEW x \in AnAccount, NEW y \in Walker, NEW e \in GEvent, <<x, y>> \in R
      PROVE  <<MovedBy[<<x, e>>], WalkedBy[<<y, e>>]>> \in R
  <2>1. MovedBy[<<x, e>>] = Moved(x, e) /\ WalkedBy[<<y, e>>] = Walk(y, e)
    BY MovedTyped, WalkedByTyped
  <2>2. MovedBy[<<x, e>>] \in AnAccount /\ WalkedBy[<<y, e>>] \in Walker
    BY MovedTyped, WalkedByTyped
  <2>3. Tells(Moved(x, e), Walk(y, e))
    BY <1>7, WalkKeepsUp
  <2> QED
    BY <2>1, <2>2, <2>3
<1> HIDE DEF R
<1>8. <<b, w>> \in R
  BY <1>4, <1>5, <1>6, <1>7, FoldsTogether
<1>9. Tells(b, w)
  BY <1>8 DEF R
<1> QED
  BY <1>9 DEF Tells, w

\* The lines that were printed are read again.
AgainBy == [x \in Told \X GearLines |-> FedAgain(x[1], x[2])]
LEMMA AgainByTyped ==
  /\ AgainBy \in [Told \X GearLines -> Told]
  /\ \A a \in Told, b \in GearLines : AgainBy[<<a, b>>] = FedAgain(a, b)
<1>1. ASSUME NEW acc \in Told, NEW line \in GearLines PROVE FedAgain(acc, line) \in Told
  <2>1. acc.p \in AParser /\ acc.ev \in Seq(GEvent)
    BY FedFields DEF Told
  <2>2. PICK g \in ASegment : g = Head(line) /\ (g.k = "gear" => g.n # 0)
    BY DEF GearLines
  <2>3. PICK one \in Told : one = SmallCode(acc.p, g)
    BY <2>1, <2>2, SmallCodeEvents
  <2>4. one.p \in AParser /\ one.ev \in Seq(GEvent)
    BY FedFields DEF Told
  <2>5. Step(one.p, acc.ev \o one.ev) \in Told
    BY <2>1, <2>4, EventsListed, ToldMade
  <2> QED
    BY <2>2, <2>3, <2>5 DEF FedAgain
<1> QED
  BY <1>1 DEF AgainBy

LEMMA LinesFedAgain ==
  ASSUME NEW base \in Told, NEW seq \in Seq(GearLines)
  PROVE  FoldsTo(Told, AgainBy, base, seq, FoldLeft(FedAgain, base, seq)) /\ FoldLeft(FedAgain, base, seq) \in Told
<1> DEFINE n == Len(seq)
           Round(f) == [s \in SUBSET DOMAIN seq |->
                          IF s = {} THEN base ELSE LET x == Max(s) IN FedAgain(f[s \ {x}], seq[x])]
           iter == CHOOSE f : f = Round(f)
<1>1. FoldLeft(FedAgain, base, seq) = iter[DOMAIN seq]
  BY DEF FoldLeft, MapThenFoldSet
<1>d. DOMAIN seq = 1 .. n /\ n \in Nat /\ \A k \in 1 .. n : seq[k] \in GearLines
  OBVIOUS
<1>2. AgainBy \in [Told \X GearLines -> Told] /\ \A a \in Told, b \in GearLines : AgainBy[<<a, b>>] = FedAgain(a, b)
  BY AgainByTyped
<1>f. AgainBy \in [Told \X GearLines -> Told]
  BY <1>2
<1>3. PICK g : IsFold(g, Told, AgainBy, base, seq)
  BY <1>f, FoldExists, Zenon
<1>4. /\ g \in [SUBSET (1 .. n) -> Told]
      /\ \A s \in SUBSET (1 .. n) : g[s] = IF s = {} THEN base ELSE AgainBy[<<g[s \ {Max(s)}], seq[Max(s)]>>]
  BY <1>3 DEF IsFold
<1>5. g = Round(g)
  <2>1. ASSUME NEW s \in SUBSET (1 .. n), s # {}
        PROVE  AgainBy[<<g[s \ {Max(s)}], seq[Max(s)]>>] = FedAgain(g[s \ {Max(s)}], seq[Max(s)])
    <3>1. Max(s) \in 1 .. n
      BY <2>1, <1>d, GreatestPlace, Zenon
    <3>2. seq[Max(s)] \in GearLines /\ g[s \ {Max(s)}] \in Told
      BY <3>1, <1>4, <1>d
    <3> QED
      BY <3>2, <1>2
  <2> HIDE DEF n
  <2>2. g = [s \in SUBSET (1 .. n) |-> g[s]]
    BY <1>4
  <2>3. \A s \in SUBSET (1 .. n) :
          g[s] = IF s = {} THEN base ELSE LET x == Max(s) IN FedAgain(g[s \ {x}], seq[x])
    BY <1>4, <2>1
  <2> QED
    BY <1>d, <2>2, <2>3
<1>6. iter = Round(iter)
  BY <1>5
<1> HIDE DEF iter
<1>7. \A s \in SUBSET (1 .. n) :
        iter[s] = IF s = {} THEN base ELSE LET x == Max(s) IN FedAgain(iter[s \ {x}], seq[x])
  BY <1>6, <1>d
<1>8. iter[{}] = base
  BY <1>7
<1>9. ASSUME NEW k \in 1 .. n, iter[(1 .. k) \ {k}] \in Told
      PROVE  iter[1 .. k] = AgainBy[<<iter[(1 .. k) \ {k}], seq[k]>>]
  <2>1. 1 .. k \in SUBSET (1 .. n) /\ 1 .. k # {} /\ Max(1 .. k) = k
    BY <1>d, PlacesUpTo, Zenon
  <2>2. iter[1 .. k] = FedAgain(iter[(1 .. k) \ {k}], seq[k])
    BY <1>7, <2>1
  <2> QED
    BY <1>2, <1>9, <1>d, <2>2
<1>10. FoldsTo(Told, AgainBy, base, seq, iter[1 .. n])
  BY <1>f, <1>8, <1>9, FoldTaken
<1>11. FoldsTo(Told, AgainBy, base, seq, FoldLeft(FedAgain, base, seq))
  BY <1>1, <1>10, <1>d
<1> QED
  BY <1>11, FoldEnds

FedOf(raw) == FoldLeft(FedAgain, Step(Fresh, <<>>), raw)
LEMMA FedOfIs ==
  /\ FedOf(<<>>) = Step(Fresh, <<>>)
  /\ \A raw \in Seq(GearLines) :
       /\ FedOf(raw) \in Told
       /\ \A line \in GearLines : FedOf(Append(raw, line)) = FedAgain(FedOf(raw), line)
<1>1. Step(Fresh, <<>>) \in Told /\ <<>> \in Seq(GearLines)
  BY ToldMade, FreshIs, EventsListed, EmptySeq
<1>2. \A raw \in Seq(GearLines) : FoldsTo(Told, AgainBy, Step(Fresh, <<>>), raw, FedOf(raw)) /\ FedOf(raw) \in Told
  BY <1>1, LinesFedAgain DEF FedOf
<1>3. FedOf(<<>>) = Step(Fresh, <<>>)
  <2>1. FoldsTo(Told, AgainBy, Step(Fresh, <<>>), <<>>, Step(Fresh, <<>>))
    BY <1>1, FoldsNothing
  <2> QED
    BY <1>1, <1>2, <2>1, FoldsOnce
<1>4. ASSUME NEW raw \in Seq(GearLines), NEW line \in GearLines
      PROVE  FedOf(Append(raw, line)) = FedAgain(FedOf(raw), line)
  <2>1. Append(raw, line) \in Seq(GearLines)
    OBVIOUS
  <2>2. PICK acc \in Told : acc = FedOf(raw) /\ FoldsTo(Told, AgainBy, Step(Fresh, <<>>), raw, acc)
    BY <1>2
  <2>3. FoldsTo(Told, AgainBy, Step(Fresh, <<>>), Append(raw, line), AgainBy[<<acc, line>>])
    BY <2>2, AgainByTyped, FoldsOn
  <2>4. FedOf(Append(raw, line)) = AgainBy[<<acc, line>>]
    BY <1>2, <2>1, <2>3, FoldsOnce
  <2> QED
    BY <2>2, <2>4, AgainByTyped
<1> QED
  BY <1>2, <1>3, <1>4

-----------------------------------------------------------------------------
(* Closing rows and adding those of files leaves the calls as they are.    *)

LEMMA GistClosed ==
  \A w \in ARow : /\ TellsCall(ClosedRow(w)) <=> TellsCall(w)
                  /\ ClosedRow(w).role = w.role
                  /\ TellsCall(w) /\ IsRunning(w) => Gist(ClosedRow(w)) = Gist(w)
<1> SUFFICES ASSUME NEW w \in ARow
             PROVE  /\ TellsCall(ClosedRow(w)) <=> TellsCall(w)
                    /\ ClosedRow(w).role = w.role
                    /\ TellsCall(w) /\ IsRunning(w) => Gist(ClosedRow(w)) = Gist(w)
  OBVIOUS
<1>1. ClosedRow(w).role = w.role /\ ClosedRow(w).name = w.name /\ ClosedRow(w).preview = w.preview
      /\ (w.role = "tool" => ClosedRow(w).status = "failed")
  BY DEF ClosedRow, ARow
<1>2. TellsCall(w) /\ IsRunning(w) => Gist(ClosedRow(w)) = Gist(w)
  BY <1>1 DEF TellsCall, Gist, IsRunning
<1> QED
  BY <1>1, <1>2 DEF TellsCall

LEMMA CallsClosed ==
  ASSUME NEW rs \in Seq(ARow)
  PROVE  /\ CallPlaces(Closed(rs)) = CallPlaces(rs) /\ CallsOf(Closed(rs)) = CallsOf(rs)
         /\ \A i \in 1 .. Len(rs) : Closed(rs)[i].role = rs[i].role
<1>1. Closed(rs) \in Seq(ARow) /\ Len(Closed(rs)) = Len(rs) /\ Len(rs) \in Nat
  BY RowsClosed
<1>2. \A i \in 1 .. Len(rs) : /\ rs[i] \in ARow
                              /\ Closed(rs)[i] = IF IsRunning(rs[i]) THEN ClosedRow(rs[i]) ELSE rs[i]
  BY DEF Closed
<1> HIDE DEF Closed
<1>3. \A i \in 1 .. Len(rs) : /\ TellsCall(Closed(rs)[i]) <=> TellsCall(rs[i])
                              /\ TellsCall(rs[i]) => Gist(Closed(rs)[i]) = Gist(rs[i])
                              /\ Closed(rs)[i].role = rs[i].role
  BY <1>2, GistClosed
<1>4. \A i \in 1 .. Len(Closed(rs)) : i > Len(rs) => ~TellsCall(Closed(rs)[i])
  BY <1>1
<1>5. CallPlaces(Closed(rs)) = CallPlaces(rs) /\ CallsOf(Closed(rs)) = CallsOf(rs)
  BY <1>1, <1>3, <1>4, CallsSame
<1> QED
  BY <1>3, <1>5

LEMMA GoodRowsClosed ==
  ASSUME NEW rs \in Seq(ARow), NEW tool, NEW thought \in 0 .. Len(rs), GoodRows(rs, tool, thought)
  PROVE  GoodRows(Closed(rs), tool, thought)
<1>1. CallPlaces(Closed(rs)) = CallPlaces(rs) /\ \A i \in 1 .. Len(rs) : Closed(rs)[i].role = rs[i].role
  BY CallsClosed
<1>2. thought # 0 => thought \in 1 .. Len(rs)
  OBVIOUS
<1> QED
  BY <1>1, <1>2 DEF GoodRows, LastCall

LEMMA FilesAdded ==
  ASSUME NEW rs \in Seq(ARow), NEW n \in 0 .. Calls, NEW changed \in SUBSET (1 .. n)
  PROVE  CallsOf(FileRows(rs, changed)) = CallsOf(rs)
<1>1. PICK more \in Seq(ARow) :
        FileRows(rs, changed) = rs \o more /\ \A i \in 1 .. Len(more) : more[i].name = 0
  BY FileRowsMade
<1>2. Len(rs) \in Nat /\ Len(more) \in Nat
  OBVIOUS
<1>3. /\ rs \o more \in Seq(ARow) /\ Len(rs \o more) = Len(rs) + Len(more)
      /\ \A i \in 1 .. Len(rs) : (rs \o more)[i] = rs[i]
      /\ \A i \in 1 .. Len(rs) + Len(more) :
           i > Len(rs) => (rs \o more)[i] = more[i - Len(rs)] /\ i - Len(rs) \in 1 .. Len(more)
  BY <1>2
<1>4. PICK all \in Seq(ARow) : all = rs \o more
  BY <1>3
<1>5. \A i \in 1 .. Len(all) : i > Len(rs) => ~TellsCall(all[i])
  BY <1>1, <1>3, <1>4 DEF TellsCall
<1>6. Len(rs) <= Len(all) /\ \A i \in 1 .. Len(rs) : all[i] = rs[i]
  BY <1>2, <1>3, <1>4
<1>7. \A i \in 1 .. Len(rs) : /\ TellsCall(all[i]) <=> TellsCall(rs[i])
                              /\ TellsCall(rs[i]) => Gist(all[i]) = Gist(rs[i])
  BY <1>6
<1>8. CallsOf(all) = CallsOf(rs)
  BY <1>5, <1>6, <1>7, CallsSame
<1> QED
  BY <1>1, <1>4, <1>8

\* Once nothing runs, the rows tell what their gist is.
LEMMA SettledRows ==
  ASSUME TimelineShape, NEW r \in Runs, \A i \in DOMAIN rows[r] : rows[r][i].status # "running"
  PROVE  /\ Len(CallRows(r)) = Len(CallsOf(rows[r])) /\ DOMAIN CallRows(r) = 1 .. Len(CallsOf(rows[r]))
         /\ CallsOf(rows[r]) \in Seq(ACall)
         /\ \A k \in 1 .. Len(CallsOf(rows[r])) :
              /\ CallRows(r)[k].name = CallsOf(rows[r])[k].name
              /\ CallRows(r)[k].status = CallsOf(rows[r])[k].status
              /\ CallRows(r)[k].preview = CallsOf(rows[r])[k].preview
<1> DEFINE places == CallPlaces(rows[r])
           n == Cardinality(places)
<1>1. rows[r] \in Seq(ARow) /\ DOMAIN rows[r] = 1 .. Len(rows[r])
  BY DEF TimelineShape
<1>2. /\ n \in Nat /\ \A k \in 1 .. n : Nth(places, k) \in 1 .. Len(rows[r])
      /\ CallsOf(rows[r]) \in Seq(ACall) /\ Len(CallsOf(rows[r])) = n
  BY <1>1, PlacesAre, CallsTyped
<1>3. \A k \in 1 .. n : CallsOf(rows[r])[k] = Gist(rows[r][Nth(places, k)]) /\ CallRows(r)[k] = rows[r][Nth(places, k)]
  BY DEF CallsOf, CallRows
<1>4. Len(CallRows(r)) = n /\ DOMAIN CallRows(r) = 1 .. n
  BY <1>2 DEF CallRows
<1> HIDE DEF places, n
<1>5. \A w \in ARow : w.status # "running" =>
        Gist(w).name = w.name /\ Gist(w).status = w.status /\ Gist(w).preview = w.preview
  BY DEF Gist, CallIs
<1>6. \A k \in 1 .. n : rows[r][Nth(places, k)] \in ARow /\ rows[r][Nth(places, k)].status # "running"
  BY <1>1, <1>2
<1> QED
  BY <1>2, <1>3, <1>4, <1>5, <1>6

-----------------------------------------------------------------------------
(* A run, from its launch to the end of its handler.                       *)

Live(d, t, s, raw, p, a) ==
  /\ d = "react" => ReActTie(t, s, p, a)
  /\ d = "protocol" => ProtocolTie(t, p, a)
  /\ d = "smallcode" => SmallCodeTie(t, s, p, a) /\ FedOf(raw).p = p /\ Comes(NoCalls, FedOf(raw).ev, a)
Final(d, t, raw, c) ==
  d # "mixed" => /\ NoShell(t) => RunTells(d, t, c)
                 /\ d = "smallcode" => Outcomes(c) = Backfill(raw)

\* What the run is at: its dialect, what it has told, its parser and its rows.
Blank(t, s, raw, p, rs, cur) ==
  t = <<>> /\ s = "free" /\ raw = <<>> /\ p = Fresh /\ rs = <<>> /\ cur = Idle
LiveRows(d, t, s, raw, p, rs, cur) ==
  d # "mixed" => Good(View(rs, cur)) /\ Live(d, t, s, raw, p, AbsOf(View(rs, cur)))
Tied(sh, d, t, s, raw, p, rs, cur) ==
  /\ sh = "none" => Blank(t, s, raw, p, rs, cur)
  /\ sh \in {"live", "stopped"} => d \in Dialects /\ LiveRows(d, t, s, raw, p, rs, cur)
  /\ sh \in {"flushed", "draining", "over"} => d \in Dialects /\ Final(d, t, raw, CallsOf(rs))

LEMMA ViewsAre ==
  \A rs, cur : /\ View(rs, cur) = ViewOf(rs, cur.tool, cur.thought)
               /\ Good(View(rs, cur)) <=> GoodRows(rs, cur.tool, cur.thought)
               /\ AbsOf(View(rs, cur)) = Account(CallsOf(rs), cur.tool # 0)
<1>1. \A rs, cur : View(rs, cur) = ViewOf(rs, cur.tool, cur.thought)
  BY DEF View, ViewOf
<1> QED
  BY <1>1, ViewIs

\* At the start nothing has been said.
LEMMA LiveAtFirst ==
  ASSUME NEW d, NEW t, NEW s, NEW raw, NEW p, NEW rs, NEW cur, Blank(t, s, raw, p, rs, cur)
  PROVE  LiveRows(d, t, s, raw, p, rs, cur)
<1>1. t = <<>> /\ s = "free" /\ raw = <<>> /\ p = Fresh /\ rs = <<>> /\ cur = Idle
  BY DEF Blank
<1>2. cur.tool = 0 /\ cur.thought = 0
  BY <1>1 DEF Idle
<1>3. Good(View(rs, cur))
  BY <1>2, ViewsAre DEF GoodRows
<1>4. CallsOf(rs) = <<>>
  <2>1. CallPlaces(rs) = {}
    BY <1>1 DEF CallPlaces
  <2>2. rs \in Seq(ARow)
    BY <1>1
  <2>3. CallsOf(rs) \in Seq(ACall) /\ Len(CallsOf(rs)) = 0
    BY <2>1, <2>2, CallsTyped, FS_EmptySet
  <2> QED
    BY <2>3
<1>5. PICK no \in BOOLEAN : no = FALSE
  OBVIOUS
<1>6. <<>> \in Seq(ACall)
  OBVIOUS
<1>7. PICK a \in AnAccount : a = Account(<<>>, no) /\ a.calls = <<>> /\ ~a.on
  BY <1>5, <1>6, AccountMade
<1>8. AbsOf(View(rs, cur)) = a /\ NoCalls = a
  <2>1. (cur.tool # 0) = no
    BY <1>2, <1>5
  <2> QED
    BY <1>4, <1>5, <1>7, <2>1, ViewsAre DEF NoCalls
<1>9. OwnCalls(a.calls) /\ Shows(<<>>, a.calls) /\ ~Open(<<>>) /\ Len(<<>>) = 0
  BY <1>7 DEF OwnCalls, Shows, Open
<1>10. ReActTie(t, s, p, a)
  <2>1. Resting(<<>>, Fresh, a)
    BY <1>7, <1>9, FreshIs DEF Resting, Rested
  <2>2. Fresh.section # "observation" /\ Fresh.section # "answer"
    BY FreshIs
  <2> QED
    BY <1>1, <1>9, <2>1, <2>2 DEF ReActTie
<1>11. ProtocolTie(t, p, a)
  BY <1>1, <1>7, <1>9 DEF ProtocolTie
<1>12. SmallCodeTie(t, s, p, a)
  BY <1>1, <1>7, <1>9, FreshIs DEF SmallCodeTie
<1>13. FedOf(raw).p = p /\ Comes(NoCalls, FedOf(raw).ev, a)
  <2>1. FedOf(raw).p = Fresh /\ FedOf(raw).ev = <<>>
    BY <1>1, FedOfIs, StepIs
  <2> QED
    BY <1>1, <1>8, <2>1, ComesNothing
<1> QED
  BY <1>3, <1>8, <1>10, <1>11, <1>12, <1>13 DEF LiveRows, Live

\* Rows are closed, of this run or when another is stopped.
LEMMA TiedClosed ==
  ASSUME NEW sh, NEW sh2, NEW d, NEW t, NEW s, NEW raw, NEW p, NEW rs \in Seq(ARow),
         NEW cur, cur.thought \in 0 .. Len(rs), Tied(sh, d, t, s, raw, p, rs, cur),
         \/ sh2 = sh
         \/ sh = "live" /\ sh2 = "stopped"
         \/ sh = "flushed" /\ sh2 = "draining"
  PROVE  Tied(sh2, d, t, s, raw, p, rs, cur) /\ Tied(sh2, d, t, s, raw, p, Closed(rs), cur)
<1>1. Tied(sh2, d, t, s, raw, p, rs, cur)
  BY DEF Tied
<1>2. CallsOf(Closed(rs)) = CallsOf(rs)
  BY CallsClosed
<1>3. rs = <<>> => Closed(rs) = <<>>
  <2>1. Closed(rs) \in Seq(ARow) /\ Len(Closed(rs)) = Len(rs)
    BY RowsClosed
  <2> QED
    BY <2>1
<1>4. Blank(t, s, raw, p, rs, cur) => Blank(t, s, raw, p, Closed(rs), cur)
  BY <1>3 DEF Blank
<1>5. LiveRows(d, t, s, raw, p, rs, cur) => LiveRows(d, t, s, raw, p, Closed(rs), cur)
  <2>1. Good(View(rs, cur)) => Good(View(Closed(rs), cur))
    BY GoodRowsClosed, ViewsAre
  <2>2. AbsOf(View(Closed(rs), cur)) = AbsOf(View(rs, cur))
    BY <1>2, ViewsAre
  <2> QED
    BY <2>1, <2>2 DEF LiveRows
<1> QED
  BY <1>1, <1>2, <1>4, <1>5 DEF Tied

LEMMA DialectsAre == \A d \in Dialects : d \in {"react", "protocol", "smallcode", "mixed"}
BY TimelineConstants

\* A line is printed and shown.
LEMMA LineShown ==
  ASSUME NEW d \in Dialects, NEW t \in Tellings, NEW s \in Stages, NEW raw \in Seq(GearLines),
         NEW p \in AParser, NEW rs, NEW cur, View(rs, cur) \in AView,
         LiveRows(d, t, s, raw, p, rs, cur), NEW y, y \in ASaying,
         d = "react" => y \in SaysReAct(t, s), d = "protocol" => y \in SaysProtocol(t, s),
         d = "smallcode" => y \in SaysSmallCode(t, s),
         NEW v, v = FoldLeft(Apply, View(rs, cur), Feed(d, p, y.line).ev),
         NEW cur2, cur2.tool = v.tool, cur2.thought = v.thought
  PROVE  /\ d # "smallcode" => LiveRows(d, y.told, y.stage, raw, Feed(d, p, y.line).p, v.rows, cur2)
         /\ d = "smallcode" => /\ Append(raw, y.line) \in Seq(GearLines)
                               /\ LiveRows(d, y.told, y.stage, Append(raw, y.line), Feed(d, p, y.line).p, v.rows, cur2)
<1> DEFINE one == Feed(d, p, y.line)
           a == AbsOf(View(rs, cur))
<1>1. CASE d = "mixed"
  BY <1>1 DEF LiveRows
<1>2. ASSUME d # "mixed"
      PROVE  Good(View(rs, cur)) /\ Live(d, t, s, raw, p, a) /\ a \in AnAccount
  BY <1>2, AbsMade DEF LiveRows
<1>3. v \in AView /\ one \in Fed
  <2>1. y.line \in Seq(ASegment) \ {<<>>}
    BY DEF ASaying
  <2>2. one \in Fed
    BY <2>1, LinesFed
  <2>3. one.ev \in Seq(AnEvent)
    BY <2>2, FedFields
  <2> QED
    BY <2>2, <2>3, EventsApplied
<1>4. View(v.rows, cur2) = v
  <2>1. View(v.rows, cur2) = ViewOf(v.rows, v.tool, v.thought)
    BY ViewsAre
  <2> QED
    BY <1>3, <2>1, ViewFields
<1> HIDE DEF a, one
\* The rows come to what the events come to.
<1>5. ASSUME d # "mixed", one.ev \in Seq(GEvent)
      PROVE  /\ Good(v) /\ Comes(a, one.ev, AbsOf(v)) /\ AbsOf(v) \in AnAccount
             /\ \A b : Comes(a, one.ev, b) => b = AbsOf(v)
  <2>1. Good(v) /\ Comes(a, one.ev, AbsOf(v))
    BY <1>2, <1>5, Simulated DEF a, one
  <2>2. AbsOf(v) \in AnAccount
    BY <1>3, <2>1, AbsMade
  <2>3. \A b : Comes(a, one.ev, b) => b = AbsOf(v)
    BY <1>5, <2>1, ComesOnce
  <2> QED
    BY <2>1, <2>2, <2>3
<1>6. CASE d = "react"
  <2>1. Follows(one, y.told, y.stage, a)
    <3>1. ReActTie(t, s, p, a)
      BY <1>2, <1>6 DEF Live
    <3> QED
      BY <1>2, <1>6, <3>1, ReActFollows DEF one
  <2>2. ReActTie(y.told, y.stage, one.p, AbsOf(v))
    BY <1>5, <1>6, <2>1 DEF Follows
  <2> QED
    BY <1>4, <1>5, <1>6, <2>1, <2>2 DEF LiveRows, Live, Follows, one
<1>7. CASE d = "protocol"
  <2>1. ProtocolGoes(one, y.told, a)
    <3>1. ProtocolTie(t, p, a)
      BY <1>2, <1>7 DEF Live
    <3> QED
      BY <1>2, <1>7, <3>1, ProtocolFollows DEF one
  <2>2. ProtocolTie(y.told, one.p, AbsOf(v))
    BY <1>5, <1>7, <2>1 DEF ProtocolGoes
  <2> QED
    BY <1>4, <1>5, <1>7, <2>1, <2>2 DEF LiveRows, Live, ProtocolGoes, one
<1>8. CASE d = "smallcode"
  <2>1. SmallCodeTie(t, s, p, a) /\ FedOf(raw).p = p /\ Comes(NoCalls, FedOf(raw).ev, a)
    BY <1>2, <1>8 DEF Live
  <2>2. /\ y.line \in GearLines /\ one = SmallCode(p, Head(y.line)) /\ SmallCodeGoes(one, y.told, y.stage, a)
    BY <1>2, <1>8, <2>1, SmallCodeFollows DEF one
  <2>3. one.ev \in Seq(GEvent)
    BY <2>2 DEF SmallCodeGoes, Told
  <2>4. SmallCodeTie(y.told, y.stage, one.p, AbsOf(v))
    BY <1>5, <1>8, <2>2, <2>3 DEF SmallCodeGoes
  <2>5. FedOf(raw) \in Told /\ FedOf(Append(raw, y.line)) = FedAgain(FedOf(raw), y.line)
    BY <2>2, FedOfIs
  <2>6. FedOf(Append(raw, y.line)) = Step(one.p, FedOf(raw).ev \o one.ev)
    BY <2>1, <2>2, <2>5 DEF FedAgain
  <2>7. FedOf(Append(raw, y.line)).p = one.p /\ FedOf(Append(raw, y.line)).ev = FedOf(raw).ev \o one.ev
    <3>1. ASSUME NEW u, FedOf(Append(raw, y.line)) = Step(one.p, u)
          PROVE  FedOf(Append(raw, y.line)).p = one.p /\ FedOf(Append(raw, y.line)).ev = u
      BY <3>1, StepIs
    <3> QED
      BY <2>6, <3>1, Zenon
  <2>8. Comes(NoCalls, FedOf(raw).ev \o one.ev, AbsOf(v))
    <3>1. FedOf(raw).ev \in Seq(GEvent)
      BY <2>5 DEF Told
    <3>2. Comes(a, one.ev, AbsOf(v))
      BY <1>5, <1>8, <2>3
    <3> QED
      BY <2>1, <2>3, <3>1, <3>2, ComesJoin, Zenon
  <2>9. Append(raw, y.line) \in Seq(GearLines)
    BY <2>2
  <2>10. Good(v)
    BY <1>5, <1>8, <2>3
  <2> QED
    BY <1>4, <1>8, <2>4, <2>7, <2>8, <2>9, <2>10 DEF LiveRows, Live, one
<1> QED
  BY <1>1, <1>6, <1>7, <1>8, DialectsAre

\* What the parser held is drained: the rows tell the run.
LEMMA RowsDrained ==
  ASSUME NEW d \in Dialects, NEW t \in Tellings, NEW s \in Stages, NEW raw \in Seq(GearLines),
         NEW p \in AParser, NEW rs, NEW cur, View(rs, cur) \in AView,
         LiveRows(d, t, s, raw, p, rs, cur),
         NEW v, v = CloseReasoning(FoldLeft(Drained, View(rs, cur), Flush(d, p)))
  PROVE  Final(d, t, raw, CallsOf(v.rows))
<1> DEFINE a == AbsOf(View(rs, cur))
           w == FoldLeft(Drained, View(rs, cur), Flush(d, p))
<1>1. SUFFICES ASSUME d # "mixed" PROVE Final(d, t, raw, CallsOf(v.rows))
  BY DEF Final
<1>2. Good(View(rs, cur)) /\ Live(d, t, s, raw, p, a) /\ a \in AnAccount
  BY <1>1, AbsMade DEF LiveRows
<1> HIDE DEF a
<1>3. ASSUME Flush(d, p) \in Seq(GEvent), NEW b, Draws(a, Flush(d, p), b)
      PROVE  CallsOf(v.rows) = b.calls
  <2>1. w \in AView /\ Good(w) /\ Draws(a, Flush(d, p), AbsOf(w))
    BY <1>2, <1>3, DrainSimulated DEF a
  <2> HIDE DEF w
  <2>2. b = AbsOf(w)
    BY <1>3, <2>1, ComesOnce
  <2>3. AbsOf(v) = AbsOf(w) /\ v \in AView
    BY <2>1, GoodClosed, ReasoningClosed DEF w
  <2>4. AbsOf(v) = Account(CallsOf(v.rows), v.tool # 0)
    BY DEF AbsOf
  <2>5. \A calls, on : Account(calls, on).calls = calls
    BY DEF Account
  <2> QED
    BY <2>2, <2>3, <2>4, <2>5
<1> HIDE DEF w
<1>4. CASE d = "react"
  <2>1. ReActTie(t, s, p, a)
    BY <1>2, <1>4 DEF Live
  <2>2. /\ Flush("react", p) \in Seq(GEvent) /\ Draws(a, Flush("react", p), Abandoned(p, a))
        /\ RunTells("react", t, Abandoned(p, a).calls)
    BY <1>2, <2>1, ReActEnds
  <2> QED
    BY <1>3, <1>4, <2>2 DEF Final
<1>5. CASE d = "protocol"
  <2>1. ProtocolTie(t, p, a)
    BY <1>2, <1>5 DEF Live
  <2>2. /\ Flush("protocol", p) \in Seq(GEvent) /\ Draws(a, Flush("protocol", p), a) /\ RunTells("protocol", t, a.calls)
    BY <1>2, <2>1, ProtocolEnds
  <2> QED
    BY <1>3, <1>5, <2>2 DEF Final
<1>6. CASE d = "smallcode"
  <2>1. SmallCodeTie(t, s, p, a) /\ FedOf(raw).p = p /\ Comes(NoCalls, FedOf(raw).ev, a)
    BY <1>2, <1>6 DEF Live
  <2>2. PICK no \in BOOLEAN : ~no
    OBVIOUS
  <2> DEFINE b == CutShort(p, a, no)
             ev == Flush("smallcode", p)
  <2>3. ev \in Seq(GEvent) /\ Draws(a, ev, b) /\ Comes(a, ev, b) /\ (NoShell(t) => RunTells("smallcode", t, b.calls))
    BY <1>2, <2>1, <2>2, SmallCodeEnds
  <2> HIDE DEF b
  <2>4. CallsOf(v.rows) = b.calls
    BY <1>3, <1>6, <2>3
  <2> HIDE DEF ev
  <2>5. FedOf(raw).ev \in Seq(GEvent)
    <3>1. FedOf(raw) \in Told
      BY FedOfIs
    <3> QED
      BY <3>1 DEF Told
  <2>6. PICK u \in Seq(GEvent) : u = FedOf(raw).ev \o ev
    BY <2>3, <2>5, EventsListed
  <2>7. Comes(NoCalls, u, b)
    BY <2>1, <2>3, <2>5, <2>6, ComesJoin, Zenon
  <2>8. Outcomes(b.calls) = Ended(FoldLeft(Walk, Unwalked, u))
    BY <2>7, WalkTells
  <2>9. Backfill(raw) = Ended(FoldLeft(Walk, Unwalked, u))
    BY <2>1, <2>6, Zenon DEF Backfill, FedOf, Unwalked, ev
  <2> QED
    BY <1>6, <2>3, <2>4, <2>8, <2>9 DEF Final
<1> QED
  BY <1>1, <1>4, <1>5, <1>6, DialectsAre

TiedRun(r) ==
  Tied(shown[r], speaks[r], told[r], stage[r], printed[r], parser[r], rows[r], current[r])
TimelineTie == printed \in [Runs -> Seq(GearLines)] /\ \A r \in Runs : TiedRun(r)

LEMMA TieBegins == TimelineInit => TimelineTie
<1> SUFFICES ASSUME TimelineInit PROVE TimelineTie
  OBVIOUS
<1>1. <<>> \in Seq(GearLines)
  OBVIOUS
<1>2. printed \in [Runs -> Seq(GearLines)]
  BY <1>1 DEF TimelineInit
<1>3. ASSUME NEW r \in Runs PROVE TiedRun(r)
  <2>1. /\ shown[r] = "none" /\ told[r] = <<>> /\ stage[r] = "free" /\ printed[r] = <<>> /\ parser[r] = Fresh
        /\ rows[r] = <<>> /\ current[r] = Idle
    BY Zenon DEF TimelineInit
  <2>2. Blank(told[r], stage[r], printed[r], parser[r], rows[r], current[r])
    BY <2>1 DEF Blank
  <2> QED
    BY <2>1, <2>2 DEF TiedRun, Tied
<1> QED
  BY <1>2, <1>3 DEF TimelineTie

\* A run whose rows are at most closed.
LEMMA RestTied ==
  ASSUME TimelineShape, TimelineTie, NEW o \in Runs, rows'[o] = rows[o] \/ rows'[o] = Closed(rows[o]),
         speaks'[o] = speaks[o], told'[o] = told[o], stage'[o] = stage[o], printed'[o] = printed[o],
         parser'[o] = parser[o], current'[o] = current[o],
         \/ shown'[o] = shown[o]
         \/ shown[o] = "live" /\ shown'[o] = "stopped"
         \/ shown[o] = "flushed" /\ shown'[o] = "draining"
  PROVE  TiedRun(o)'
<1>1. rows[o] \in Seq(ARow) /\ current[o].thought \in 0 .. Len(rows[o])
  BY DEF TimelineShape, Currents
<1>2. Tied(shown[o], speaks[o], told[o], stage[o], printed[o], parser[o], rows[o], current[o])
  BY DEF TimelineTie, TiedRun
<1>3. /\ Tied(shown'[o], speaks[o], told[o], stage[o], printed[o], parser[o], rows[o], current[o])
      /\ Tied(shown'[o], speaks[o], told[o], stage[o], printed[o], parser[o], Closed(rows[o]), current[o])
  BY <1>1, <1>2, TiedClosed
<1> QED
  BY <1>3 DEF TiedRun

LEMMA LaunchTied == ASSUME TimelineShape, TimelineTie, NEW r \in Runs, Launch(r) PROVE TimelineTie'
<1>1. PICK d \in Dialects : speaks' = [speaks EXCEPT ![r] = d]
  BY DEF Launch
<1>2. /\ shown[r] = "none" /\ shown' = [shown EXCEPT ![r] = "live"]
      /\ UNCHANGED <<lines, told, stage, printed, parser, rows, current>>
  BY DEF Launch
<1>3. ASSUME NEW o \in Runs, o # r PROVE TiedRun(o)'
  <2>1. speaks'[o] = speaks[o] /\ shown'[o] = shown[o]
    BY <1>1, <1>2, <1>3 DEF TimelineShape
  <2> QED
    BY <1>2, <2>1, RestTied
<1>4. TiedRun(r)'
  <2>1. speaks'[r] = d /\ shown'[r] = "live"
    BY <1>1, <1>2 DEF TimelineShape
  <2>2. Blank(told[r], stage[r], printed[r], parser[r], rows[r], current[r])
    BY <1>2 DEF TimelineTie, TiedRun, Tied
  <2>3. LiveRows(d, told[r], stage[r], printed[r], parser[r], rows[r], current[r])
    BY <2>2, LiveAtFirst
  <2>4. Tied("live", d, told[r], stage[r], printed[r], parser[r], rows[r], current[r])
    BY <2>3 DEF Tied
  <2> QED
    BY <1>2, <2>1, <2>4 DEF TiedRun
<1> QED
  BY <1>2, <1>3, <1>4 DEF TimelineTie

LEMMA OutputTied == ASSUME TimelineShape, TimelineTie, NEW r \in Runs, OnOutput(r) PROVE TimelineTie'
<1>1. PICK say \in Speech(r) :
        LET fed == Feed(speaks[r], parser[r], say.line)
            view == FoldLeft(Apply, View(rows[r], current[r]), fed.ev)
        IN /\ told' = [told EXCEPT ![r] = say.told]
           /\ stage' = [stage EXCEPT ![r] = say.stage]
           /\ printed' = IF speaks[r] # "smallcode" THEN printed
                         ELSE [printed EXCEPT ![r] = Append(@, say.line)]
           /\ parser' = [parser EXCEPT ![r] = fed.p]
           /\ rows' = [rows EXCEPT ![r] = view.rows]
           /\ current' = [current EXCEPT ![r] = [tool |-> view.tool, thought |-> view.thought]]
  BY DEF OnOutput
<1> DEFINE one == Feed(speaks[r], parser[r], say.line)
           view == FoldLeft(Apply, View(rows[r], current[r]), one.ev)
           cur == [tool |-> view.tool, thought |-> view.thought]
<1>2. /\ told' = [told EXCEPT ![r] = say.told] /\ stage' = [stage EXCEPT ![r] = say.stage]
      /\ printed' = IF speaks[r] # "smallcode" THEN printed
                    ELSE [printed EXCEPT ![r] = Append(@, say.line)]
      /\ parser' = [parser EXCEPT ![r] = one.p] /\ rows' = [rows EXCEPT ![r] = view.rows]
      /\ current' = [current EXCEPT ![r] = cur]
  BY <1>1
<1>3. speaks' = speaks /\ shown' = shown /\ shown[r] = "live"
  BY DEF OnOutput
<1>4. /\ told[r] \in Tellings /\ stage[r] \in Stages /\ parser[r] \in AParser /\ printed[r] \in Seq(GearLines)
      /\ View(rows[r], current[r]) \in AView
  BY CurrentView DEF TimelineShape, TimelineTie
<1>5. /\ speaks[r] \in Dialects
      /\ LiveRows(speaks[r], told[r], stage[r], printed[r], parser[r], rows[r], current[r])
  BY <1>3 DEF TimelineTie, TiedRun, Tied
<1>6. say \in ASaying
  BY <1>4, SpeechIsSaid
<1>7. /\ speaks[r] = "react" => say \in SaysReAct(told[r], stage[r])
      /\ speaks[r] = "protocol" => say \in SaysProtocol(told[r], stage[r])
      /\ speaks[r] = "smallcode" => say \in SaysSmallCode(told[r], stage[r])
  BY DEF Speech
<1>8. cur.tool = view.tool /\ cur.thought = view.thought
  OBVIOUS
<1>9. /\ speaks[r] # "smallcode"
           => LiveRows(speaks[r], say.told, say.stage, printed[r], one.p, view.rows, cur)
      /\ speaks[r] = "smallcode"
           => /\ Append(printed[r], say.line) \in Seq(GearLines)
              /\ LiveRows(speaks[r], say.told, say.stage, Append(printed[r], say.line), one.p, view.rows, cur)
  BY <1>4, <1>5, <1>6, <1>7, <1>8, LineShown
<1> HIDE DEF one, view, cur
<1>10. /\ told'[r] = say.told /\ stage'[r] = say.stage /\ parser'[r] = one.p /\ rows'[r] = view.rows
       /\ current'[r] = cur /\ speaks'[r] = speaks[r] /\ shown'[r] = "live"
  BY <1>2, <1>3 DEF TimelineShape
<1>11. printed' \in [Runs -> Seq(GearLines)] /\ printed'[r] = IF speaks[r] # "smallcode" THEN printed[r] ELSE Append(printed[r], say.line)
  <2>1. printed \in [Runs -> Seq(GearLines)]
    BY DEF TimelineTie
  <2>2. CASE speaks[r] # "smallcode"
    BY <1>2, <2>1, <2>2
  <2>3. CASE speaks[r] = "smallcode"
    BY <1>2, <1>9, <2>1, <2>3
  <2> QED
    BY <2>2, <2>3
<1>12. TiedRun(r)'
  <2>1. LiveRows(speaks[r], say.told, say.stage, printed'[r], one.p, view.rows, cur)
    BY <1>9, <1>11
  <2>2. Tied("live", speaks[r], say.told, say.stage, printed'[r], one.p, view.rows, cur)
    BY <1>5, <2>1 DEF Tied
  <2> QED
    BY <1>10, <2>2 DEF TiedRun
<1>13. ASSUME NEW o \in Runs, o # r PROVE TiedRun(o)'
  <2>1. /\ told'[o] = told[o] /\ stage'[o] = stage[o] /\ parser'[o] = parser[o] /\ rows'[o] = rows[o]
        /\ current'[o] = current[o] /\ speaks'[o] = speaks[o] /\ shown'[o] = shown[o]
    BY <1>2, <1>3, <1>13 DEF TimelineShape
  <2>2. printed'[o] = printed[o]
    <3>1. printed \in [Runs -> Seq(GearLines)]
      BY DEF TimelineTie
    <3> QED
      BY <1>2, <1>13, <3>1
  <2> QED
    BY <2>1, <2>2, RestTied
<1> QED
  BY <1>11, <1>12, <1>13 DEF TimelineTie

LEMMA StopTied == ASSUME TimelineShape, TimelineTie, NEW r \in Runs, StopShown(r) PROVE TimelineTie'
<1>1. /\ shown[r] \in {"live", "flushed"}
      /\ shown' = [shown EXCEPT ![r] = IF @ = "live" THEN "stopped" ELSE "draining"]
      /\ rows' = CloseRunningTools(rows)
      /\ UNCHANGED <<speaks, told, stage, printed, parser, current>>
  BY DEF StopShown
<1>2. ASSUME NEW o \in Runs PROVE TiedRun(o)'
  <2>1. rows'[o] = Closed(rows[o])
    BY <1>1 DEF CloseRunningTools
  <2>2. \/ shown'[o] = shown[o]
        \/ shown[o] = "live" /\ shown'[o] = "stopped"
        \/ shown[o] = "flushed" /\ shown'[o] = "draining"
    BY <1>1 DEF TimelineShape
  <2> QED
    BY <1>1, <2>1, <2>2, RestTied
<1> QED
  BY <1>1, <1>2 DEF TimelineTie

LEMMA DrainTied == ASSUME TimelineShape, TimelineTie, NEW r \in Runs, Drain(r) PROVE TimelineTie'
<1> DEFINE before == IF shown[r] = "stopped" THEN CloseRunningTools(rows) ELSE rows
           view == CloseReasoning(FoldLeft(Drained, View(before[r], current[r]), Flush(speaks[r], parser[r])))
<1>1. /\ shown[r] \in {"live", "stopped"}
      /\ rows' = [before EXCEPT ![r] = view.rows] /\ current' = [current EXCEPT ![r] = Idle]
      /\ shown' = [shown EXCEPT ![r] = IF @ = "live" THEN "flushed" ELSE "draining"]
      /\ UNCHANGED <<speaks, told, stage, printed, parser>>
  BY DEF Drain
<1>2. /\ before \in [Runs -> Seq(ARow)]
      /\ \A o \in Runs : Len(before[o]) = Len(rows[o]) /\ (before[o] = rows[o] \/ before[o] = Closed(rows[o]))
  <2>1. rows \in [Runs -> Seq(ARow)]
    BY DEF TimelineShape
  <2>2. \A o \in Runs : CloseRunningTools(rows)[o] = Closed(rows[o])
    BY DEF CloseRunningTools
  <2>3. CloseRunningTools(rows) \in [Runs -> Seq(ARow)] /\ \A o \in Runs : Len(CloseRunningTools(rows)[o]) = Len(rows[o])
    BY <2>1, AllClosed
  <2> QED
    BY <2>1, <2>2, <2>3
<1> HIDE DEF before
<1>3. /\ told[r] \in Tellings /\ stage[r] \in Stages /\ parser[r] \in AParser /\ printed[r] \in Seq(GearLines)
      /\ View(before[r], current[r]) \in AView /\ rows[r] \in Seq(ARow)
      /\ current[r].thought \in 0 .. Len(rows[r])
  <2>1. View(before[r], current[r]) \in AView
    BY <1>2, CurrentView
  <2> QED
    BY <2>1 DEF TimelineShape, TimelineTie, Currents
<1>4. Tied("live", speaks[r], told[r], stage[r], printed[r], parser[r], before[r], current[r])
  <2>1. Tied(shown[r], speaks[r], told[r], stage[r], printed[r], parser[r], rows[r], current[r])
    BY DEF TimelineTie, TiedRun
  <2>2. Tied("live", speaks[r], told[r], stage[r], printed[r], parser[r], rows[r], current[r])
    BY <1>1, <2>1 DEF Tied
  <2>3. Tied("live", speaks[r], told[r], stage[r], printed[r], parser[r], Closed(rows[r]), current[r])
    BY <1>3, <2>2, TiedClosed
  <2> QED
    BY <1>2, <2>2, <2>3
<1>5. speaks[r] \in Dialects /\ LiveRows(speaks[r], told[r], stage[r], printed[r], parser[r], before[r], current[r])
  BY <1>4 DEF Tied
<1>6. Final(speaks[r], told[r], printed[r], CallsOf(view.rows))
  BY <1>3, <1>5, RowsDrained
<1> HIDE DEF view
<1>7. rows'[r] = view.rows /\ shown'[r] \in {"flushed", "draining"}
  BY <1>1, <1>2 DEF TimelineShape
<1>8. TiedRun(r)'
  <2>1. Tied(shown'[r], speaks[r], told[r], stage[r], printed[r], parser[r], view.rows, current'[r])
    BY <1>5, <1>6, <1>7 DEF Tied
  <2> QED
    BY <1>1, <1>7, <2>1 DEF TiedRun
<1>9. ASSUME NEW o \in Runs, o # r PROVE TiedRun(o)'
  <2>1. rows'[o] = before[o] /\ current'[o] = current[o] /\ shown'[o] = shown[o]
    BY <1>1, <1>2, <1>9 DEF TimelineShape
  <2> QED
    BY <1>1, <1>2, <2>1, RestTied
<1> QED
  BY <1>1, <1>8, <1>9 DEF TimelineTie

LEMMA TearDownTied == ASSUME TimelineShape, TimelineTie, NEW r \in Runs, TearDown(r) PROVE TimelineTie'
<1>1. PICK changed \in SUBSET (1 .. Len(told[r])) :
        rows' = CloseRunningTools([rows EXCEPT ![r] = FileRows(@, changed)])
  BY DEF TearDown
<1>2. /\ shown[r] \in {"flushed", "draining"} /\ shown' = [shown EXCEPT ![r] = "over"]
      /\ UNCHANGED <<speaks, told, stage, printed, parser, current>>
  BY DEF TearDown
<1>3. Len(told[r]) \in 0 .. Calls /\ rows \in [Runs -> Seq(ARow)] /\ rows[r] \in Seq(ARow)
  BY TellingsGoOn DEF TimelineShape
<1>4. rows'[r] = Closed(FileRows(rows[r], changed)) /\ \A o \in Runs : o # r => rows'[o] = Closed(rows[o])
  BY <1>1, <1>3, Zenon DEF CloseRunningTools
<1>5. CallsOf(rows'[r]) = CallsOf(rows[r])
  <2>1. FileRows(rows[r], changed) \in Seq(ARow)
    BY <1>3, FileRowsMade
  <2>2. CallsOf(FileRows(rows[r], changed)) = CallsOf(rows[r])
    BY <1>3, FilesAdded
  <2> QED
    BY <1>4, <2>1, <2>2, CallsClosed
<1>6. TiedRun(r)'
  <2>1. speaks[r] \in Dialects /\ Final(speaks[r], told[r], printed[r], CallsOf(rows[r]))
    BY <1>2 DEF TimelineTie, TiedRun, Tied
  <2>2. shown'[r] = "over"
    BY <1>2 DEF TimelineShape
  <2>3. Tied("over", speaks[r], told[r], stage[r], printed[r], parser[r], rows'[r], current[r])
    BY <1>5, <2>1 DEF Tied
  <2> QED
    BY <1>2, <2>2, <2>3 DEF TiedRun
<1>7. ASSUME NEW o \in Runs, o # r PROVE TiedRun(o)'
  <2>1. shown'[o] = shown[o]
    BY <1>2, <1>7 DEF TimelineShape
  <2> QED
    BY <1>2, <1>4, <1>7, <2>1, RestTied
<1> QED
  BY <1>2, <1>6, <1>7 DEF TimelineTie

LEMMA TieStep == ASSUME TimelineShape, TimelineTie, [TimelineNext]_timelineVars PROVE TimelineTie'
<1>1. ASSUME NEW r \in Runs, Launch(r) PROVE TimelineTie'
  BY <1>1, LaunchTied
<1>2. ASSUME NEW r \in Runs, OnOutput(r) PROVE TimelineTie'
  BY <1>2, OutputTied
<1>3. ASSUME NEW r \in Runs, StopShown(r) PROVE TimelineTie'
  BY <1>3, StopTied
<1>4. ASSUME NEW r \in Runs, Drain(r) PROVE TimelineTie'
  BY <1>4, DrainTied
<1>5. ASSUME NEW r \in Runs, TearDown(r) PROVE TimelineTie'
  BY <1>5, TearDownTied
<1>6. CASE UNCHANGED timelineVars
  BY <1>6 DEF timelineVars, TimelineTie, TiedRun
<1> QED
  BY <1>1, <1>2, <1>3, <1>4, <1>5, <1>6 DEF TimelineNext

LEMMA TieIsSafe == TimelineInv /\ TimelineTie => TimelineSafe
<1> SUFFICES ASSUME TimelineInv, TimelineTie PROVE TimelineSafe
  OBVIOUS
<1>1. ASSUME NEW r \in Runs, shown[r] = "over"
      PROVE  /\ Final(speaks[r], told[r], printed[r], CallsOf(rows[r]))
             /\ Len(CallRows(r)) = Len(CallsOf(rows[r])) /\ DOMAIN CallRows(r) = 1 .. Len(CallsOf(rows[r]))
             /\ \A k \in 1 .. Len(CallsOf(rows[r])) :
                  /\ CallRows(r)[k].name = CallsOf(rows[r])[k].name
                  /\ CallRows(r)[k].status = CallsOf(rows[r])[k].status
                  /\ CallRows(r)[k].preview = CallsOf(rows[r])[k].preview
  <2>1. Final(speaks[r], told[r], printed[r], CallsOf(rows[r]))
    BY <1>1 DEF TimelineTie, TiedRun, Tied
  <2>2. TimelineShape /\ \A i \in DOMAIN rows[r] : rows[r][i].status # "running"
    BY <1>1 DEF TimelineInv, RowsSettled
  <2> QED
    BY <2>1, <2>2, SettledRows
<1>2. ASSUME NEW r \in Runs, shown[r] = "over", speaks[r] # "mixed",
             \A i \in DOMAIN told[r] : told[r][i] # "shell"
      PROVE  LET calls == CallRows(r)
                 named == speaks[r] = "react" /\ told[r] # <<>> /\ Last(told[r]) = "open"
             IN /\ Len(calls) = Len(told[r]) - (IF named THEN 1 ELSE 0)
                /\ \A i \in DOMAIN calls :
                     /\ calls[i].name = i /\ calls[i].preview \in {0, i}
                     /\ told[r][i] = "ok" => calls[i].status = "done"
                     /\ told[r][i] = "fail" => calls[i].status = "failed"
                     /\ told[r][i] = "ok" /\ speaks[r] = "react" => calls[i].preview = i
  <2>1. NoShell(told[r])
    <3>1. told[r] \in Tellings
      BY DEF TimelineInv, TimelineShape
    <3> QED
      BY <1>2, <3>1, TellingIs DEF NoShell
  <2>2. RunTells(speaks[r], told[r], CallsOf(rows[r]))
    BY <1>1, <1>2, <2>1 DEF Final
  <2> QED
    BY <1>1, <1>2, <2>2 DEF RunTells, OwnCalls, OnlyNamedLast
<1>3. ASSUME NEW r \in Runs, shown[r] = "over", speaks[r] = "smallcode"
      PROVE  LET calls == CallRows(r)
             IN [i \in DOMAIN calls |-> Outcome(calls[i].name, calls[i].status)] = Backfill(printed[r])
  <2>1. Outcomes(CallsOf(rows[r])) = Backfill(printed[r])
    BY <1>1, <1>3 DEF Final
  <2>2. [i \in DOMAIN CallRows(r) |-> Outcome(CallRows(r)[i].name, CallRows(r)[i].status)] = Outcomes(CallsOf(rows[r]))
    BY <1>1, <1>3 DEF Outcomes
  <2> QED
    BY <2>1, <2>2
<1> QED
  BY <1>2, <1>3 DEF TimelineSafe, RowsTellTheRun, BackfillAgrees

=============================================================================
