----------------------------- MODULE LlmStreams -----------------------------
(***************************************************************************)
(* Chat streams: the branch of submit that streams a reply, its watchdog   *)
(* and stop (src/stores/use-chat-store.ts), and call_llm_stream with its   *)
(* map of cancellation flags (src-tauri/src/commands/llm.rs).              *)
(*                                                                         *)
(* As in ChatRuns a handler is named <<session, generation>>, and so is    *)
(* the stream it opens.  The backend tags events with the session alone,   *)
(* and its map has one slot per session.                                   *)
(***************************************************************************)
EXTENDS Naturals, Sequences, FiniteSets

CONSTANTS
  StreamSessions, \* sessions
  MaxTurn,        \* bound: generations of one session
  MaxQueue        \* bound: events of one session on their way

ASSUME StreamConstants == MaxTurn \in Nat /\ MaxQueue \in Nat \ {0}

VARIABLES
  turn,      \* sessionGen
  running,   \* the keys of `runs`
  pointer,   \* runs[s].placeholderId: whose message, or 0
  handler,   \* where each handler is suspended
  bubble,    \* each handler's message
  stream,    \* each handler's call_llm_stream
  slot,      \* LlmStreamState.streams: whose flag, or 0
  channel,   \* llm:// events of a session on their way
  stopCall,  \* sessions whose stop_llm_stream is on its way
  abortCall, \* stop's abort of the shared runtime is on its way
  watchdog   \* each handler's watchdog

storeStreamVars == <<turn, running, pointer, handler, bubble, watchdog>>
streamVars == <<turn, running, pointer, handler, bubble, stream, slot,
                channel, stopCall, abortCall, watchdog>>

Turns == 1 .. MaxTurn
Handlers == StreamSessions \X Turns

\* "attach": materializing attachments and building the history.  "listen":
\* attaching the listeners.  "open": its listeners take events.
HandlerPhases == {"none", "attach", "listen", "open", "over"}

\* "called": before it has registered.  "connect": up to the response.
\* "finish": run_stream has returned.  reject: the call's error is on its way.
\* cut: the runtime was told to abort the generation, or was restarted.
Stream == [pc : {"none", "called", "connect", "open", "finish", "over"},
           cancelled : BOOLEAN, ok : BOOLEAN, reject : BOOLEAN,
           cut : {"no", "abort", "restart"}]
NoStream == [pc |-> "none", cancelled |-> FALSE, ok |-> TRUE, reject |-> FALSE, cut |-> "no"]

Bubble == [pending : BOOLEAN, body : {"none", "empty", "text", "note", "error"}]
NoBubble == [pending |-> FALSE, body |-> "none"]

StreamsTypeOK ==
  /\ turn \in [StreamSessions -> 0 .. MaxTurn]
  /\ running \in SUBSET StreamSessions
  /\ pointer \in [StreamSessions -> 0 .. MaxTurn]
  /\ handler \in [Handlers -> HandlerPhases]
  /\ bubble \in [Handlers -> Bubble]
  /\ stream \in [Handlers -> Stream]
  /\ slot \in [StreamSessions -> 0 .. MaxTurn]
  /\ channel \in [StreamSessions -> Seq({"chunk", "done", "error"} \X Turns)]
  /\ stopCall \in SUBSET StreamSessions
  /\ abortCall \in BOOLEAN
  /\ watchdog \in [Handlers -> {"idle", "grace", "restart"}]

StreamsInit ==
  /\ turn = [s \in StreamSessions |-> 0]
  /\ running = {}
  /\ pointer = [s \in StreamSessions |-> 0]
  /\ handler = [h \in Handlers |-> "none"]
  /\ bubble = [h \in Handlers |-> NoBubble]
  /\ stream = [h \in Handlers |-> NoStream]
  /\ slot = [s \in StreamSessions |-> 0]
  /\ channel = [s \in StreamSessions |-> <<>>]
  /\ stopCall = {} /\ abortCall = FALSE
  /\ watchdog = [h \in Handlers |-> "idle"]

IsCurrent(h) == turn[h[1]] = h[2]
InTheWorks(h) == handler[h] \notin {"none", "over"}
StreamInFlight(h) == stream[h].pc \in {"connect", "open", "finish"}
Serving(h) == stream[h].pc = "open"

\* finalizePlaceholder; the slip leaves a blank message blank.
SettledBlank(m, note) == [pending |-> FALSE, body |-> m.body]
Settled(m, note) ==
  IF m.body = "none" THEN m
  ELSE [pending |-> FALSE, body |-> IF m.body = "empty" THEN note ELSE m.body]

\* Text reaches the message.
Shown(m) == IF m.body = "none" THEN m
            ELSE [pending |-> FALSE, body |-> IF m.body = "error" THEN "error" ELSE "text"]

\* clearRun by each of the handlers hs; the slip does not look at the generation.
LeftRunningAny(hs) == running \ {h[1] : h \in hs}
LeftRunning(hs) == running \ {h[1] : h \in {g \in hs : IsCurrent(g)}}

\* cleanup of the handlers hs: listeners gone, the rest of the text shown, the
\* pointer dropped if it is theirs, the message settled.
CleanUp(hs, settled) ==
  /\ handler' = [h \in Handlers |-> IF h \in hs THEN "over" ELSE handler[h]]
  /\ bubble' = [h \in Handlers |-> IF h \in hs THEN Settled(settled[h], "note") ELSE bubble[h]]
  /\ pointer' = [s \in StreamSessions |-> IF <<s, pointer[s]>> \in hs THEN 0 ELSE pointer[s]]

-----------------------------------------------------------------------------
(* submit and stop.                                                        *)

SubmitTurn(s) ==
  /\ s \notin running /\ turn[s] < MaxTurn
  /\ turn' = [turn EXCEPT ![s] = @ + 1]
  /\ running' = running \cup {s}
  /\ pointer' = [pointer EXCEPT ![s] = 0]
  /\ handler' = [handler EXCEPT ![<<s, turn[s] + 1>>] = "attach"]
  /\ UNCHANGED <<bubble, stream, slot, channel, stopCall, abortCall, watchdog>>

\* No generation is looked at: a handler that was stopped goes on, and points
\* the entry of a newer run at its own message.
AttachedTurn(h) ==
  /\ handler[h] = "attach"
  /\ handler' = [handler EXCEPT ![h] = "listen"]
  /\ bubble' = [bubble EXCEPT ![h] = [pending |-> TRUE, body |-> "empty"]]
  /\ pointer' = IF h[1] \in running THEN [pointer EXCEPT ![h[1]] = h[2]] ELSE pointer
  /\ UNCHANGED <<turn, running, stream, slot, channel, stopCall, abortCall, watchdog>>

CallStream(h) ==
  /\ handler[h] = "listen"
  /\ handler' = [handler EXCEPT ![h] = "open"]
  /\ stream' = [stream EXCEPT ![h].pc = "called"]
  /\ UNCHANGED <<turn, running, pointer, bubble, slot, channel, stopCall,
                 abortCall, watchdog>>

\* The shared runtime is aborted only when nothing else runs.
StopTurn(s) ==
  /\ s \in running /\ turn[s] < MaxTurn
  /\ turn' = [turn EXCEPT ![s] = @ + 1]
  /\ running' = running \ {s}
  /\ bubble' = [h \in Handlers |-> IF h = <<s, pointer[s]>> THEN Settled(bubble[h], "note")
                                                            ELSE bubble[h]]
  /\ pointer' = [pointer EXCEPT ![s] = 0]
  /\ stopCall' = stopCall \cup {s}
  /\ abortCall' = (abortCall \/ running = {s})
  /\ UNCHANGED <<handler, stream, slot, channel, watchdog>>

-----------------------------------------------------------------------------
(* call_llm_stream and stop_llm_stream.                                    *)

CancelIn(st, s, g) == IF g = 0 THEN st ELSE [st EXCEPT ![<<s, g>>].cancelled = TRUE]

\* A new stream supersedes the session's previous one.
RegisterStream(h) ==
  /\ stream[h].pc = "called"
  /\ stream' = [CancelIn(stream, h[1], slot[h[1]]) EXCEPT ![h].pc = "connect"]
  /\ slot' = [slot EXCEPT ![h[1]] = h[2]]
  /\ UNCHANGED <<storeStreamVars, channel, stopCall, abortCall>>

FinishStream(h, ok) == stream' = [stream EXCEPT ![h].pc = "finish", ![h].ok = ok]

\* No project, an empty conversation, no model, egress denied, a bad response.
Connect(h) ==
  /\ stream[h].pc = "connect"
  /\ FinishStream(h, FALSE) \/ stream' = [stream EXCEPT ![h].pc = "open"]
  /\ UNCHANGED <<storeStreamVars, slot, channel, stopCall, abortCall>>

\* The flag is looked at when something arrives.
Chunk(h) ==
  /\ Serving(h) /\ stream[h].cut = "no"
  /\ IF stream[h].cancelled THEN FinishStream(h, TRUE) /\ UNCHANGED channel
     ELSE /\ Len(channel[h[1]]) < MaxQueue
          /\ channel' = [channel EXCEPT ![h[1]] = Append(@, <<"chunk", h[2]>>)]
          /\ UNCHANGED stream
  /\ UNCHANGED <<storeStreamVars, slot, stopCall, abortCall>>

\* The reply is complete, was aborted, broke off, or took too long.
EndStream(h) ==
  /\ Serving(h)
  /\ \/ stream[h].cut # "restart" /\ FinishStream(h, TRUE)
     \/ FinishStream(h, stream[h].cancelled)
  /\ UNCHANGED <<storeStreamVars, slot, channel, stopCall, abortCall>>

\* A call clears the slot only while it is still its own; the slip always does.
ClearedAlways(h) == [slot EXCEPT ![h[1]] = 0]
ClearedOwn(h) == IF slot[h[1]] = h[2] THEN [slot EXCEPT ![h[1]] = 0] ELSE slot

\* The slips: a cancelled stream has an event of its own; a stream that is not
\* in the slot any more says nothing.
ReportedCancelled(h) ==
  Append(channel[h[1]], <<IF stream[h].cancelled THEN "cancelled" ELSE "done", h[2]>>)
ReportedIfOwn(h) == IF slot[h[1]] = h[2] THEN Append(channel[h[1]], <<"done", h[2]>>)
                                         ELSE channel[h[1]]
Reported(h) == Append(channel[h[1]], <<IF stream[h].ok THEN "done" ELSE "error", h[2]>>)

Report(h) ==
  /\ stream[h].pc = "finish"
  /\ Len(channel[h[1]]) < MaxQueue
  /\ slot' = ClearedOwn(h)
  /\ channel' = [channel EXCEPT ![h[1]] = Reported(h)]
  /\ stream' = [stream EXCEPT ![h] = [NoStream EXCEPT !.pc = "over", !.reject = ~stream[h].ok]]
  /\ UNCHANGED <<storeStreamVars, stopCall, abortCall>>

ServeStop(s) ==
  /\ s \in stopCall
  /\ stopCall' = stopCall \ {s}
  /\ stream' = CancelIn(stream, s, slot[s])
  /\ slot' = [slot EXCEPT ![s] = 0]
  /\ UNCHANGED <<storeStreamVars, channel, abortCall>>

CutServing(how) ==
  stream' = [h \in Handlers |-> IF Serving(h) THEN [stream[h] EXCEPT !.cut = how]
                                ELSE stream[h]]

\* Whatever the runtime generates by then.
ServeAbort ==
  /\ abortCall
  /\ abortCall' = FALSE
  /\ CutServing("abort")
  /\ UNCHANGED <<storeStreamVars, slot, channel, stopCall>>

-----------------------------------------------------------------------------
(* Events and timers of the store.                                         *)

Listening(s) == {h \in {s} \X Turns : handler[h] = "open"}
Taken(s) == channel' = [channel EXCEPT ![s] = Tail(@)]

\* Whoever sent it, the current handler shows it (the typewriter's delay is
\* left out: every way of ending drains it).
OnChunk(s) ==
  /\ channel[s] # <<>> /\ Head(channel[s])[1] = "chunk"
  /\ Taken(s)
  /\ LET mine == {h \in Listening(s) : IsCurrent(h)}
     IN  /\ bubble' = [h \in Handlers |-> IF h \in mine THEN Shown(bubble[h]) ELSE bubble[h]]
         /\ watchdog' = [h \in Handlers |-> IF h \in mine THEN "idle" ELSE watchdog[h]]
  /\ UNCHANGED <<turn, running, pointer, handler, stream, slot, stopCall, abortCall>>

\* Every handler of the session that listens ends, the stale ones with it.
OnEnd(s) ==
  /\ channel[s] # <<>> /\ Head(channel[s])[1] # "chunk"
  /\ Taken(s)
  /\ LET hs == Listening(s)
         Failed(h) == IsCurrent(h) /\ Head(channel[s])[1] = "error"
     IN  /\ CleanUp(hs, [h \in Handlers |-> IF Failed(h) THEN [bubble[h] EXCEPT !.body = "error"]
                                                         ELSE bubble[h]])
         /\ running' = LeftRunning(hs)
  /\ UNCHANGED <<turn, stream, slot, stopCall, abortCall, watchdog>>

\* The rejected call: the same once more, for this handler.
OnReject(h) ==
  /\ stream[h].reject
  /\ stream' = [stream EXCEPT ![h].reject = FALSE]
  /\ CleanUp({h}, [bubble EXCEPT ![h].body = IF IsCurrent(h) THEN "error" ELSE @])
  /\ running' = LeftRunning({h})
  /\ UNCHANGED <<turn, slot, channel, stopCall, abortCall, watchdog>>

\* The runtime has been silent for too long: it is aborted, and restarted if no
\* chunk comes within the grace period.  A chunk ends the wait; the end of the
\* run does not, and a stale watchdog stands down.
WatchdogBites(h) ==
  /\ handler[h] = "open" /\ IsCurrent(h) /\ watchdog[h] = "idle"
  /\ channel[h[1]] = <<>>
  /\ watchdog' = [watchdog EXCEPT ![h] = "grace"]
  /\ CutServing("abort")
  /\ UNCHANGED <<turn, running, pointer, handler, bubble, slot, channel, stopCall,
                 abortCall>>

WatchdogWaits(h) ==
  /\ watchdog[h] = "grace"
  /\ watchdog' = [watchdog EXCEPT ![h] = IF IsCurrent(h) THEN "restart" ELSE "idle"]
  /\ UNCHANGED <<turn, running, pointer, handler, bubble, stream, slot, channel,
                 stopCall, abortCall>>

WatchdogRestarts(h) ==
  /\ watchdog[h] = "restart"
  /\ watchdog' = [watchdog EXCEPT ![h] = "idle"]
  /\ CutServing("restart")
  /\ UNCHANGED <<turn, running, pointer, handler, bubble, slot, channel, stopCall,
                 abortCall>>

StoreTurn(h) == AttachedTurn(h) \/ CallStream(h) \/ OnReject(h)
Backend(h) == RegisterStream(h) \/ Connect(h) \/ EndStream(h) \/ Report(h)
Watch(h) == WatchdogBites(h) \/ WatchdogWaits(h) \/ WatchdogRestarts(h)

StreamsNext ==
  \/ \E s \in StreamSessions : SubmitTurn(s) \/ StopTurn(s) \/ ServeStop(s) \/ OnChunk(s) \/ OnEnd(s)
  \/ \E h \in Handlers : StoreTurn(h) \/ Backend(h) \/ Chunk(h) \/ Watch(h)
  \/ ServeAbort

\* The event loop and the tasks go on; a request ends by its own timeout of five
\* minutes if by nothing else.
StreamsFairness ==
  /\ \A h \in Handlers : WF_streamVars(AttachedTurn(h) \/ CallStream(h))
  /\ \A h \in Handlers :
       WF_streamVars(RegisterStream(h) \/ Connect(h) \/ EndStream(h) \/ Report(h))
  /\ \A s \in StreamSessions : WF_streamVars(OnChunk(s) \/ OnEnd(s))

StreamsSpec == StreamsInit /\ [][StreamsNext]_streamVars /\ StreamsFairness

-----------------------------------------------------------------------------
(* What the code guarantees.                                               *)

\* A session has at most one stream that nobody has cancelled, and its flag is
\* the one in the slot, so that a stop always reaches it, whatever streams of
\* earlier turns end late.
OneLiveStream ==
  \A h \in Handlers :
    StreamInFlight(h) /\ ~stream[h].cancelled => slot[h[1]] = h[2]

\* A session is shown as running exactly while the handler of its current turn
\* is under way.
RunningIffHandled ==
  \A s \in StreamSessions :
    s \in running <=> turn[s] # 0 /\ InTheWorks(<<s, turn[s]>>)

\* No message is left pending or blank by a handler that has ended.
SettledWhenOver ==
  \A h \in Handlers :
    handler[h] = "over" => ~bubble[h].pending /\ bubble[h].body \notin {"none", "empty"}

\* Streams of earlier turns leave the session's slot, its entry in `runs` and its
\* messages as the turn on screen needs them.
StreamsSafe == OneLiveStream /\ RunningIffHandled /\ SettledWhenOver

\* Every handler ends, also one that was stopped, superseded, or hit by the
\* abort or restart another session asked for.
HandlerEnds == \A h \in Handlers : []<>~InTheWorks(h)

\* What the comments promise beyond that.

\* "Still nothing after the grace period": the runtime is restarted for a run
\* that is stuck, not for one the abort has ended.
RestartOnlyIfStuck ==
  \A h \in Handlers : watchdog[h] = "restart" => InTheWorks(h)

\* "Stopping one session never kills another's generation".
StopSparesOthers ==
  [][ServeAbort =>
       \A h \in Handlers : Serving(h) => stream[h].cancelled \/ ~IsCurrent(h)]_streamVars

\* Events "route back to exactly this session", and to this run of it: a run is
\* ended by its own stream.
EndsByOwnStream ==
  \A s \in StreamSessions :
    s \in running /\ Listening(s) # {} /\ channel[s] # <<>> /\ Head(channel[s])[1] = "done"
      => Head(channel[s])[2] = turn[s] \/ <<s, turn[s]>> \notin Listening(s)
=============================================================================
