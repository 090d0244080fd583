---------------------------- MODULE McpDiscovery ----------------------------
(***************************************************************************)
(* One discovery of the tools of a foreign MCP server: StdioTransport of   *)
(* src-tauri/src/tools/mcp.rs.                                             *)
(*                                                                         *)
(* A short-lived process is asked to initialize and then, page by page,    *)
(* for its tools.  On its stdout come responses, perhaps twice, requests   *)
(* of its own under the same numbers, and noise.                           *)
(***************************************************************************)
EXTENDS Naturals, Sequences

CONSTANTS
  MaxSkipped, \* MAX_SKIPPED_LINES
  MaxPages,   \* MAX_TOOL_PAGES
  MaxLines    \* bound: lines in the pipe

ASSUME DiscoveryConstants ==
  MaxSkipped \in Nat \ {0} /\ MaxPages \in Nat \ {0} /\ MaxLines \in Nat \ {0}

\* The numbers of the requests: initialize is 1, the pages are 2 and up.
Ids == 1 .. MaxPages + 1

VARIABLES
  step,    \* of discover()
  awaited, \* the number of the request whose response is read for
  skipped, \* lines skipped for it
  found,   \* the pages whose tools were collected
  more,    \* the last page had a cursor
  proc,    \* the process
  replied, \* the last request it has answered
  stdout   \* lines on their way

discoveryVars == <<step, awaited, skipped, found, more, proc, replied, stdout>>

\* A page's content is the number of the request it answers; "more" is its cursor.
Line == [kind : {"response", "failure", "request"}, id : Ids, more : BOOLEAN]
          \cup {[kind |-> "noise", id |-> 0, more |-> FALSE]}
Over == {"ok", "error", "timeout"}

DiscoveryTypeOK ==
  /\ step \in {"idle", "ask", "read"} \cup Over
  /\ awaited \in 0 .. MaxPages + 1 /\ skipped \in 0 .. MaxSkipped
  /\ found \in Seq(Ids) /\ more \in BOOLEAN
  /\ proc \in {"none", "runs", "silent", "gone"}
  /\ replied \in 0 .. MaxPages + 1
  /\ stdout \in Seq(Line)

DiscoveryInit ==
  /\ step = "idle" /\ awaited = 0 /\ skipped = 0 /\ found = <<>> /\ more = TRUE
  /\ proc = "none" /\ replied = 0 /\ stdout = <<>>

-----------------------------------------------------------------------------
(* The server.                                                             *)

Prints(line) == Len(stdout) < MaxLines /\ stdout' = Append(stdout, line)

\* Its answer to the request it was sent, possibly an error; a page has a cursor
\* or is the last one.
Responds ==
  /\ proc = "runs" /\ replied < awaited /\ step = "read"
  /\ \E kind \in {"response", "failure"}, hasMore \in BOOLEAN :
       Prints([kind |-> kind, id |-> awaited, more |-> hasMore])
  /\ replied' = awaited
  /\ UNCHANGED <<step, awaited, skipped, found, more, proc>>

\* What it need not print: an answer again, a request of its own, noise.
PrintsMore ==
  /\ proc = "runs"
  /\ \/ replied > 0 /\ Prints([kind |-> "response", id |-> replied, more |-> FALSE])
     \/ awaited > 0 /\ Prints([kind |-> "request", id |-> awaited, more |-> FALSE])
     \/ Prints([kind |-> "noise", id |-> 0, more |-> FALSE])
  /\ UNCHANGED <<step, awaited, skipped, found, more, proc, replied>>

\* It hangs, or ends.
ServerFalters ==
  /\ proc = "runs" /\ proc' \in {"silent", "gone"}
  /\ UNCHANGED <<step, awaited, skipped, found, more, replied, stdout>>

-----------------------------------------------------------------------------
(* discover(); the child dies with the future, however that ends.          *)

Killed == IF proc = "none" THEN "none" ELSE "gone"
EndsAs(outcome) == step' = outcome /\ proc' = Killed

SpawnServer ==
  /\ step = "idle"
  /\ \/ step' = "ask" /\ proc' = "runs"
     \/ EndsAs("error")
  /\ UNCHANGED <<awaited, skipped, found, more, replied, stdout>>

\* initialize, then tools/list with the cursor of the page before; writing to a
\* server that has ended fails.
Ask ==
  /\ step = "ask"
  /\ IF proc = "gone" THEN EndsAs("error") /\ UNCHANGED <<awaited, skipped>>
     ELSE step' = "read" /\ awaited' = awaited + 1 /\ skipped' = 0 /\ UNCHANGED proc
  /\ UNCHANGED <<found, more, replied, stdout>>

\* parse_response_line and the comparison of numbers; the slip takes
\* the response to another request.
AnyResponse(line) == line.kind \in {"response", "failure"}
IsForUs(line) == line.kind \in {"response", "failure"} /\ line.id = awaited

\* MAX_SKIPPED_LINES and MAX_TOOL_PAGES; the slip has no limit.
SkipsForever == FALSE
GivesUp == skipped + 1 = MaxSkipped
EnoughPages(pages) == pages = MaxPages

ReadLine ==
  /\ step = "read" /\ stdout # <<>>
  /\ stdout' = Tail(stdout)
  /\ LET line == Head(stdout) IN
     IF ~IsForUs(line)
     THEN /\ IF GivesUp THEN EndsAs("error") /\ UNCHANGED skipped
             ELSE skipped' = (IF skipped < MaxSkipped THEN skipped + 1 ELSE skipped)
                  /\ UNCHANGED <<step, proc>>
          /\ UNCHANGED <<found, more, awaited>>
     ELSE IF line.kind = "failure" THEN EndsAs("error") /\ UNCHANGED <<skipped, found, more, awaited>>
     ELSE IF awaited = 1 THEN step' = "ask" /\ UNCHANGED <<skipped, found, more, proc, awaited>>
     ELSE /\ found' = Append(found, line.id)
          /\ more' = line.more
          /\ IF ~line.more \/ EnoughPages(Len(found) + 1) THEN EndsAs("ok")
             ELSE step' = "ask" /\ UNCHANGED proc
          /\ UNCHANGED <<skipped, awaited>>
  /\ UNCHANGED replied

\* A list that is malformed, or has a nameless tool.
Malformed ==
  /\ step = "read" /\ awaited > 1 /\ stdout # <<>>
  /\ Head(stdout).kind = "response" /\ IsForUs(Head(stdout))
  /\ stdout' = Tail(stdout) /\ EndsAs("error")
  /\ UNCHANGED <<awaited, skipped, found, more, replied>>

\* stdout is at its end.
ServerClosed ==
  /\ step = "read" /\ stdout = <<>> /\ proc = "gone"
  /\ EndsAs("error")
  /\ UNCHANGED <<awaited, skipped, found, more, replied, stdout>>

DiscoveryTimesOut ==
  /\ step \in {"ask", "read"}
  /\ EndsAs("timeout")
  /\ UNCHANGED <<awaited, skipped, found, more, replied, stdout>>

DiscoveryNext ==
  \/ Responds \/ PrintsMore \/ ServerFalters
  \/ SpawnServer \/ Ask \/ ReadLine \/ Malformed \/ ServerClosed \/ DiscoveryTimesOut

\* The task is polled, and a server that neither hangs nor ends answers; the
\* clock is not needed.
DiscoveryFairness ==
  /\ WF_discoveryVars(Ask) /\ WF_discoveryVars(ReadLine) /\ WF_discoveryVars(ServerClosed)
  /\ WF_discoveryVars(Responds)

DiscoverySpec == DiscoveryInit /\ [][DiscoveryNext]_discoveryVars /\ DiscoveryFairness

-----------------------------------------------------------------------------
(* What the code guarantees.                                               *)

\* What is collected is page after page, each once and each the answer to the
\* request made for it, whatever else the server prints; a success has them all,
\* or as many as the cap allows.
PagesInOrder ==
  /\ found = [i \in 1 .. Len(found) |-> i + 1]
  /\ step = "ok" => ~more \/ Len(found) = MaxPages

\* "A hung server dies with the future -- it can never outlive us."
ServerDiesWithUs == step \in Over => proc \in {"none", "gone"}

DiscoverySafe == PagesInOrder /\ ServerDiesWithUs

\* A server that goes on talking cannot keep a discovery going, neither with
\* cursors that never end nor with noise; the clock is left for one that hangs.
DiscoveryEnds == []<>(step \in {"ask", "read"} => proc = "silent")
=============================================================================
