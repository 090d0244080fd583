---------------------------- MODULE AgentTimeline ----------------------------
(***************************************************************************)
(* What the chat shows of an agent at work: the parsers of an agent's      *)
(* output (src/lib/agent-parsers) and the part of the chat store that      *)
(* turns their events into rows before the run's answer.                   *)
(*                                                                         *)
(* An agent prints lines in one of the dialects the parsers know.  A call  *)
(* of a tool and what it came to may be told in several lines, or several  *)
(* calls in one, and the process may be killed between any two.  Runs of   *)
(* one session share its rows: the handler of a stopped one is still to    *)
(* end when the next one prints.                                           *)
(***************************************************************************)
EXTENDS Naturals, Sequences, SequencesExt

CONSTANTS
  Runs,     \* runs of one session, 1 .. n, in the order they are started
  Dialects, \* what the agents may speak: "react", "protocol", "smallcode", "mixed"
  Calls,    \* bound: calls of tools in a run
  MaxLines  \* bound: lines printed in all

ASSUME TimelineConstants ==
  /\ Runs \subseteq Nat \ {0} /\ Calls \in Nat /\ MaxLines \in Nat
  /\ Dialects \subseteq {"react", "protocol", "smallcode", "mixed"}

VARIABLES
  speaks,  \* the dialect of each run's agent
  shown,   \* where each run is: "none", "live", "stopped",
           \* "flushed", "draining", "over"
  told,    \* what became of each call the agent of a run announced
  stage,   \* where the agent is in its own output
  printed, \* the raw lines of an agent that is SmallCode
  lines,   \* lines printed in all
  parser,  \* the state of a run's base parser
  rows,    \* the rows before a run's answer
  current  \* the rows being filled: currentToolMessageId, currentReasoningId

timelineVars == <<speaks, shown, told, stage, printed, lines, parser, rows, current>>

Anon == Calls + 1  \* the name "tool" or "bash"; 0 stands for none
Names == 0 .. Calls + 1

-----------------------------------------------------------------------------
(* Lines: sequences of segments, each about a call, and what an agent that *)
(* speaks a dialect may print next.                                        *)

Seg(k, n) == [k |-> k, n |-> n]
Markers == {"start", "end ok", "end failed", "done", "failed", "bad"}
Extras == {"tool_call", "error"}

Open(t) == t # <<>> /\ Last(t) \in {"open", "input"}
Cut(t) == IF Open(t) THEN ReplaceAt(t, Len(t), "cut") ELSE t
Came(t, to) == ReplaceAt(t, Len(t), to)
Says(line, t, s) == [line |-> line, told |-> t, stage |-> s]

SaysReAct(t, s) ==
  LET n == Len(t) + 1
      free == s \notin {"observed", "answer"}
  IN {Says(<<Seg("plain", 0)>>, t, s)}
     \cup {Says(<<Seg("plain", 0), Seg("action", 1)>>, t, s) : x \in {y \in {s} : ~free}}
     \cup (IF s = "answer" THEN {} ELSE
            {Says(<<Seg("thought", 0)>>, Cut(t), "free"),
             Says(<<Seg("answer", 0)>>, Cut(t), "answer")}
            \cup (IF n > Calls THEN {} ELSE
                   {Says(<<Seg("action", n)>>, Append(Cut(t), "open"), "free")}
                   \cup (IF ~free THEN {} ELSE
                     {Says(<<Seg("thought", 0), Seg("action", n)>>,
                           Append(Cut(t), "open"), "free"),
                      Says(<<Seg("action", n), Seg("input", n), Seg("observation", n)>>,
                           Append(Cut(t), "ok"), "observed")}))
            \cup (IF Open(t) /\ Last(t) = "open"
                  THEN {Says(<<Seg("input", Len(t))>>, Came(t, "input"), s)} ELSE {})
            \cup (IF Open(t)
                  THEN {Says(<<Seg("observation", Len(t))>>, Came(t, "ok"), "observed"),
                        Says(<<Seg("observation", Len(t)), Seg("action", 1)>>,
                             Came(t, "ok"), "observed")}
                  ELSE {}))

SaysProtocol(t, s) ==
  LET n == Len(t) + 1
  IN {Says(<<Seg("plain", 0)>>, t, s), Says(<<Seg("bad", 0)>>, t, s),
      Says(<<Seg("error", 0)>>, t, s)}
     \cup (IF Open(t)
           THEN {Says(<<Seg("end ok", Len(t))>>, Came(t, "ok"), s),
                 Says(<<Seg("end failed", Len(t))>>, Came(t, "fail"), s)}
           ELSE IF n > Calls THEN {}
           ELSE {Says(<<Seg("start", n)>>, Append(t, "open"), s),
                 Says(<<Seg("done", n)>>, Append(t, "ok"), s),
                 Says(<<Seg("failed", n)>>, Append(t, "fail"), s),
                 Says(<<Seg("tool_call", n)>>, Append(t, "ok"), s)})

SaysSmallCode(t, s) ==
  LET n == Len(t) + 1
  IN IF s = "diff"
     THEN {Says(<<Seg("hunk", 0)>>, t, s), Says(<<Seg("diff close", 0)>>, t, "free")}
     ELSE {Says(<<Seg("plain", 0)>>, t, s), Says(<<Seg("summary", 0)>>, t, s)}
          \cup (IF n > Calls THEN {} ELSE
                 {Says(<<Seg("gear", n)>>, Append(Cut(t), "open"), s)})
          \cup (IF ~Open(t) THEN {} ELSE
                 {Says(<<Seg("diff open", 0)>>, t, "diff"),
                  Says(<<Seg("tick", Len(t))>>, Came(t, "ok"), s),
                  Says(<<Seg("edited", Len(t))>>, Came(t, "ok"), s),
                  Says(<<Seg("cross", Len(t))>>, Came(t, "fail"), s),
                  Says(<<Seg("shell", Len(t))>>, Came(t, "shell"), s)})

Speech(r) ==
  CASE speaks[r] = "react" -> SaysReAct(told[r], stage[r])
    [] speaks[r] = "protocol" -> SaysProtocol(told[r], stage[r])
    [] speaks[r] = "smallcode" -> SaysSmallCode(told[r], stage[r])
    [] OTHER -> SaysReAct(told[r], stage[r]) \cup SaysProtocol(told[r], stage[r])

-----------------------------------------------------------------------------
(* The parsers.  Each step is the new state and the events.                *)

ToolStart(n, path) == [type |-> "tool_start", name |-> n, ok |-> TRUE, path |-> path, preview |-> 0]
ToolEnd(ok, path, preview) ==
  [type |-> "tool_end", name |-> 0, ok |-> ok, path |-> path, preview |-> preview]
Event(t) == [type |-> t, name |-> 0, ok |-> TRUE, path |-> 0, preview |-> 0]
Step(p, ev) == [p |-> p, ev |-> ev]

Fresh == [section |-> "none", reasoning |-> FALSE, tool |-> 0, emitted |-> FALSE,
          observed |-> 0, pending |-> 0, diff |-> FALSE]

EndReasoning(p) == IF p.reasoning THEN <<Event("reasoning_end")>> ELSE <<>>

DeferredStart(p) == IF p.tool # 0 /\ ~p.emitted THEN <<ToolStart(p.tool, 0)>> ELSE <<>>

\* The slip forgets that the start may still be owed.
EndToolStarted(p) ==
  IF p.tool = 0 /\ ~p.emitted THEN <<>>
  ELSE <<ToolEnd(TRUE, 0, IF p.section = "observation" THEN p.observed ELSE 0)>>
EndTool(p) ==
  IF p.tool = 0 /\ ~p.emitted THEN <<>>
  ELSE DeferredStart(p)
       \o <<ToolEnd(TRUE, 0, IF p.section = "observation" THEN p.observed ELSE 0)>>

\* endTool and endReasoning have run and a section is entered.
Enter(p, s) == [p EXCEPT !.section = s, !.reasoning = FALSE, !.tool = 0,
                         !.emitted = FALSE, !.observed = 0]

Prose(p) ==
  CASE p.section = "thought" -> <<Event("reasoning_delta")>>
    [] p.section \in {"observation", "action", "input"} -> <<>>
    [] OTHER -> <<Event("text")>>

\* handle of the ReAct parser.
ReAct(p, s) ==
  LET settled == EndTool(p) \o EndReasoning(p) IN
  CASE s.k = "thought" ->
         Step([Enter(p, "thought") EXCEPT !.reasoning = TRUE],
              settled \o <<Event("reasoning_start"), Event("reasoning_delta")>>)
    [] s.k = "input" ->
         Step([p EXCEPT !.section = "input", !.reasoning = FALSE, !.emitted = TRUE],
              EndReasoning(p) \o <<ToolStart(IF p.tool = 0 THEN Anon ELSE p.tool, s.n)>>)
    [] s.k = "action" -> Step([Enter(p, "action") EXCEPT !.tool = s.n], settled)
    [] s.k = "observation" ->
         Step([p EXCEPT !.section = "observation", !.reasoning = FALSE,
                        !.emitted = p.emitted \/ p.tool # 0, !.observed = s.n],
              EndReasoning(p) \o DeferredStart(p))
    [] s.k = "answer" -> Step(Enter(p, "answer"), settled \o <<Event("text")>>)
    [] OTHER -> Step(p, Prose(p))

Data == {"observation", "answer"}

\* A line is split before its keywords, but what follows one that opens a
\* section of data, or is in one, is that section's content.
SplitNext(acc, s) ==
  IF acc.p.section = "observation" THEN acc
  ELSE IF acc.p.section = "answer" THEN Step(acc.p, Append(acc.ev, Event("text")))
  ELSE LET one == ReAct(acc.p, s) IN Step(one.p, acc.ev \o one.ev)
SplitFeed(p, line) == FoldLeft(SplitNext, Step(p, <<>>), line)

ReActFeed(p, line) ==
  IF p.section \in Data THEN ReAct(p, Head(line)) ELSE SplitFeed(p, line)

\* handle of the SmallCode parser.
SmallCode(p, s) ==
  LET idle == [p EXCEPT !.pending = 0] IN
  CASE s.k = "summary" -> Step(p, <<>>)
    [] s.k = "diff open" -> Step([p EXCEPT !.diff = TRUE], <<>>)
    [] s.k # "diff open" /\ p.diff ->
         Step([p EXCEPT !.diff = s.k # "diff close"], <<>>)
    [] s.k = "edited" -> Step(idle, <<ToolEnd(TRUE, s.n, s.n)>>)
    [] s.k = "shell" -> Step(idle, <<ToolStart(Anon, 0), ToolEnd(TRUE, 0, s.n)>>)
    [] s.k = "gear" ->
         Step([p EXCEPT !.pending = s.n],
              (IF p.pending # 0 THEN <<ToolEnd(FALSE, 0, 0)>> ELSE <<>>)
                \o <<ToolStart(s.n, 0)>>)
    [] s.k \in {"tick", "cross"} /\ p.pending # 0 ->
         Step(idle, <<ToolEnd(s.k = "tick", IF s.k = "tick" THEN s.n ELSE 0, s.n)>>)
    [] OTHER -> Step(p, <<Event("text")>>)

\* The markers of the protocol.
Protocol(s) ==
  LET end(ok) == ToolEnd(ok, s.n, s.n) IN
  CASE s.k = "start" -> <<ToolStart(s.n, s.n)>>
    [] s.k = "end ok" -> <<end(TRUE)>>
    [] s.k = "end failed" -> <<end(FALSE)>>
    [] s.k = "done" -> <<ToolStart(s.n, s.n), end(TRUE)>>
    [] s.k = "failed" -> <<ToolStart(s.n, s.n), end(FALSE)>>
    [] OTHER -> <<>>

ReActExtras(s) ==
  IF s.k = "error" THEN <<Event("text")>>
  ELSE <<ToolStart(s.n, s.n), ToolEnd(TRUE, s.n, 0)>>

\* feed of parserForAgent.
Feed(d, p, line) ==
  LET s == Head(line) IN
  IF s.k \in Markers THEN Step(p, Protocol(s))
  ELSE IF s.k \in Extras THEN Step(p, ReActExtras(s))
  ELSE IF d = "smallcode" THEN SmallCode(p, s)
  ELSE ReActFeed(p, line)

Flush(d, p) ==
  IF d # "smallcode" THEN EndTool(p) \o EndReasoning(p)
  ELSE IF p.pending # 0 THEN <<ToolEnd(FALSE, 0, 0)>> ELSE <<>>

-----------------------------------------------------------------------------
(* The chat store: rows from events.                                       *)

Row(role, n, path, status) ==
  [role |-> role, name |-> n, path |-> path, status |-> status, preview |-> 0]
View(rs, cur) == [rows |-> rs, tool |-> cur.tool, thought |-> cur.thought]

CloseReasoning(v) ==
  IF v.thought = 0 THEN v
  ELSE [v EXCEPT !.rows[v.thought].status = "done", !.thought = 0]

OpenReasoning(v) ==
  IF v.thought # 0 THEN v
  ELSE [v EXCEPT !.rows = Append(v.rows, Row("reasoning", 0, 0, "running")),
                 !.thought = Len(v.rows) + 1]

AddTool(v, e) ==
  [v EXCEPT !.rows = Append(v.rows, Row("tool", e.name, e.path, "running")),
            !.tool = Len(v.rows) + 1]

ApplyToolEnd(v, e) ==
  IF v.tool = 0 THEN v
  ELSE [v EXCEPT !.rows[v.tool].status = IF e.ok THEN "done" ELSE "failed",
                 !.rows[v.tool].preview = IF e.preview # 0 THEN e.preview ELSE @,
                 !.rows[v.tool].path = IF e.path # 0 THEN e.path ELSE @,
                 !.tool = 0]

Apply(v, e) ==
  CASE e.type = "tool_start" -> AddTool(CloseReasoning(v), e)
    [] e.type = "tool_end" -> ApplyToolEnd(v, e)
    [] e.type = "reasoning_start" -> OpenReasoning(CloseReasoning(v))
    [] e.type = "reasoning_delta" -> OpenReasoning(v)
    [] OTHER -> CloseReasoning(v)  \* reasoning_end, and text of the answer

\* The drain at a run's end opens no row any more.
Drained(v, e) == IF e.type = "tool_start" THEN v ELSE Apply(v, e)

\* closeRunningTools: every row of the session that still runs.  The slip
\* closes the newest of a run only.
IsRunning(w) == w.status = "running"
ClosedRow(w) == [w EXCEPT !.status = IF w.role = "tool" THEN "failed" ELSE "done"]
Closed(rs) == [i \in DOMAIN rs |-> IF IsRunning(rs[i]) THEN ClosedRow(rs[i]) ELSE rs[i]]
ClosedNewest(rs) ==
  [i \in DOMAIN rs |-> IF /\ IsRunning(rs[i])
                          /\ \A k \in i + 1 .. Len(rs) : ~IsRunning(rs[k])
                       THEN ClosedRow(rs[i]) ELSE rs[i]]
CloseNewestOnly(all) == [r \in Runs |-> ClosedNewest(all[r])]
CloseRunningTools(all) == [r \in Runs |-> Closed(all[r])]

\* What the run changed and no row tells yet: the rows above the answer are
\* read upward, as long as they are of tools.
ToldAbove(rs) ==
  {rs[i].path : i \in {j \in DOMAIN rs : \A k \in j .. Len(rs) : rs[k].role = "tool"}}
FileRows(rs, changed) ==
  LET missing == SetToSeq(changed \ ToldAbove(rs))
  IN rs \o [i \in DOMAIN missing |-> Row("tool", 0, missing[i], "done")]

-----------------------------------------------------------------------------
Idle == [tool |-> 0, thought |-> 0]

TimelineTypeOK ==
  /\ speaks \in [Runs -> Dialects \cup {"nothing"}] /\ lines \in 0 .. MaxLines
  /\ \A r \in Runs :
       /\ shown[r] \in {"none", "live", "stopped", "flushed", "draining", "over"}
       /\ stage[r] \in {"free", "observed", "answer", "diff"}
       /\ \A i \in DOMAIN told[r] : told[r][i] \in {"open", "input", "ok", "fail", "cut", "shell"}
       /\ current[r].tool \in 0 .. Len(rows[r]) /\ current[r].thought \in 0 .. Len(rows[r])
       /\ \A i \in DOMAIN rows[r] :
            /\ rows[r][i].role \in {"tool", "reasoning"}
            /\ rows[r][i].status \in {"running", "done", "failed"}
            /\ {rows[r][i].name, rows[r][i].path, rows[r][i].preview} \subseteq Names

TimelineInit ==
  /\ speaks = [r \in Runs |-> "nothing"] /\ lines = 0
  /\ shown = [r \in Runs |-> "none"] /\ told = [r \in Runs |-> <<>>]
  /\ stage = [r \in Runs |-> "free"] /\ printed = [r \in Runs |-> <<>>]
  /\ parser = [r \in Runs |-> Fresh]
  /\ rows = [r \in Runs |-> <<>>] /\ current = [r \in Runs |-> Idle]

\* A session has one run at a time; the one before it may have been stopped
\* and its handler not have ended yet.
Launch(r) ==
  /\ shown[r] = "none"
  /\ \A o \in Runs : o < r => shown[o] \notin {"none", "live", "flushed"}
  /\ shown' = [shown EXCEPT ![r] = "live"]
  /\ \E d \in Dialects : speaks' = [speaks EXCEPT ![r] = d]
  /\ UNCHANGED <<lines, told, stage, printed, parser, rows, current>>

\* agent://output of a live run.
OnOutput(r) ==
  /\ shown[r] = "live" /\ lines < MaxLines
  /\ \E say \in Speech(r) :
       LET fed == Feed(speaks[r], parser[r], say.line)
           view == FoldLeft(Apply, View(rows[r], current[r]), fed.ev)
       IN /\ told' = [told EXCEPT ![r] = say.told]
          /\ stage' = [stage EXCEPT ![r] = say.stage]
          /\ printed' = IF speaks[r] # "smallcode" THEN printed
                        ELSE [printed EXCEPT ![r] = Append(@, say.line)]
          /\ parser' = [parser EXCEPT ![r] = fed.p]
          /\ rows' = [rows EXCEPT ![r] = view.rows]
          /\ current' = [current EXCEPT ![r] = [tool |-> view.tool, thought |-> view.thought]]
  /\ lines' = lines + 1
  /\ UNCHANGED <<speaks, shown>>

\* The user stops the run; its handler ends later.
StopShown(r) ==
  /\ shown[r] \in {"live", "flushed"}
  /\ shown' = [shown EXCEPT ![r] = IF @ = "live" THEN "stopped" ELSE "draining"]
  /\ rows' = CloseRunningTools(rows)
  /\ UNCHANGED <<speaks, told, stage, printed, lines, parser, current>>

\* run_agent has ended: what the parser holds is drained.  The handler of a
\* stopped run has detached before that.
Drain(r) ==
  /\ shown[r] \in {"live", "stopped"}
  /\ LET before == IF shown[r] = "stopped" THEN CloseRunningTools(rows) ELSE rows
         view == CloseReasoning(FoldLeft(Drained, View(before[r], current[r]),
                                         Flush(speaks[r], parser[r])))
     IN rows' = [before EXCEPT ![r] = view.rows]
  /\ current' = [current EXCEPT ![r] = Idle]
  /\ shown' = [shown EXCEPT ![r] = IF @ = "live" THEN "flushed" ELSE "draining"]
  /\ UNCHANGED <<speaks, told, stage, printed, lines, parser>>

\* The files the run changed have been asked for; then detach.
TearDown(r) ==
  /\ shown[r] \in {"flushed", "draining"}
  /\ \E changed \in SUBSET (1 .. Len(told[r])) :
       rows' = CloseRunningTools([rows EXCEPT ![r] = FileRows(@, changed)])
  /\ shown' = [shown EXCEPT ![r] = "over"]
  /\ UNCHANGED <<speaks, told, stage, printed, lines, parser, current>>

TimelineNext ==
  \E r \in Runs : Launch(r) \/ OnOutput(r) \/ StopShown(r) \/ Drain(r) \/ TearDown(r)

TimelineSpec == TimelineInit /\ [][TimelineNext]_timelineVars

-----------------------------------------------------------------------------
(* cleanup.ts: the rows an old session is given, whose messages hold the   *)
(* raw lines of SmallCode.                                                 *)

FedAgain(acc, line) ==
  LET one == SmallCode(acc.p, Head(line)) IN Step(one.p, acc.ev \o one.ev)

Outcome(name, status) == [name |-> name, status |-> status]
Ended(acc) == IF acc.start = 0 THEN acc.out ELSE Append(acc.out, Outcome(acc.start, "failed"))
Walk(acc, e) ==
  CASE e.type = "tool_start" -> [start |-> e.name, out |-> Ended(acc)]
    [] e.type = "tool_end" /\ acc.start # 0 ->
         [start |-> 0,
          out |-> Append(acc.out, Outcome(acc.start, IF e.ok THEN "done" ELSE "failed"))]
    [] OTHER -> acc

Backfill(raw) ==
  LET fed == FoldLeft(FedAgain, Step(Fresh, <<>>), raw)
      events == fed.ev \o Flush("smallcode", fed.p)
  IN Ended(FoldLeft(Walk, [start |-> 0, out |-> <<>>], events))

-----------------------------------------------------------------------------
(* Properties.                                                             *)

\* The rows that tell calls, in their order.
CallPlaces(rs) == {i \in DOMAIN rs : rs[i].role = "tool" /\ rs[i].name # 0}
Number(S, i) == Cardinality({j \in S : j <= i})
Nth(S, k) == CHOOSE i \in S : Number(S, i) = k
CallRows(r) ==
  LET places == CallPlaces(rows[r])
  IN [k \in 1 .. Cardinality(places) |-> rows[r][Nth(places, k)]]

\* Once the handler of a run has ended, nothing of the run pulses: no call is
\* shown running and no thought as still thought (detach's promise that the
\* agent's work cannot spin forever after the run).
RowsSettled ==
  \A r \in Runs : shown[r] = "over" =>
    \A i \in DOMAIN rows[r] : rows[r][i].status # "running"

\* The rows of a run are the calls its agent announced, each once and in that
\* order; a call whose result was printed shows that result, and never the
\* output of another (AgentEvent's pairing).  Only a call that was named by
\* "Action:" and nothing else when the run ended has no row.  Of agents that mix
\* two ways to tell their calls, and of SmallCode's "$" lines, this is not said.
RowsTellTheRun ==
  \A r \in Runs :
    shown[r] = "over" /\ speaks[r] # "mixed" /\ (\A i \in DOMAIN told[r] : told[r][i] # "shell")
    => LET calls == CallRows(r)
           named == speaks[r] = "react" /\ told[r] # <<>> /\ Last(told[r]) = "open"
       IN /\ Len(calls) = Len(told[r]) - (IF named THEN 1 ELSE 0)
          /\ \A i \in DOMAIN calls :
               /\ calls[i].name = i /\ calls[i].preview \in {0, i}
               /\ told[r][i] = "ok" => calls[i].status = "done"
               /\ told[r][i] = "fail" => calls[i].status = "failed"
               /\ told[r][i] = "ok" /\ speaks[r] = "react" => calls[i].preview = i

\* The rows made from the raw lines of an old session are those a run that
\* printed these lines was shown with (the promise of cleanup.ts).
BackfillAgrees ==
  \A r \in Runs : shown[r] = "over" /\ speaks[r] = "smallcode" =>
    LET calls == CallRows(r)
    IN [i \in DOMAIN calls |-> Outcome(calls[i].name, calls[i].status)] = Backfill(printed[r])

\* A file the run changed gets a row of its own only if no call above the
\* answer has told it ("deduped against tool rows the parser already emitted").
NoDoubleCount ==
  \A r \in Runs : \A i, j \in DOMAIN rows[r] :
    i # j /\ rows[r][i].role = "tool" /\ rows[r][i].name = 0 /\ rows[r][j].role = "tool"
    => rows[r][i].path # rows[r][j].path

TimelineSafe == RowsTellTheRun /\ BackfillAgrees
=============================================================================
