-------------------------- MODULE MCStreams_proofs --------------------------
(***************************************************************************)
(* Proofs about the components in which tasks or children report to a      *)
(* store or a caller, for any runtimes, launches, commands, outputs and    *)
(* pages.  Each has an inductive invariant of its own, proved by itself;   *)
(* the last section puts them together with that of the streams.           *)
(***************************************************************************)
EXTENDS MCStreams, SequenceTheorems, TLAPS

-----------------------------------------------------------------------------
(* The streams of the chat, for any number of sessions, turns and events   *)
(* on their way.                                                           *)

\* A turn that has not been claimed has no handler.
FutureTurnsNone == \A s \in StreamSessions, g \in Turns : g > turn[s] => handler[<<s, g>>] = "none"

\* A handler that has got as far as its listeners has a message.
Placed == \A h \in Handlers : handler[h] \in {"listen", "open", "over"} => bubble[h].body # "none"

\* A stream belongs to a handler that listens, or did.
Opened ==
  \A h \in Handlers : stream[h].pc # "none" \/ stream[h].reject => handler[h] \in {"open", "over"}

StreamsInv == /\ StreamsTypeOK /\ FutureTurnsNone /\ Placed /\ Opened
              /\ OneLiveStream /\ RunningIffHandled /\ SettledWhenOver

Tag == {"chunk", "done", "error"} \X Turns

LEMMA Pairs ==
  /\ \A h \in Handlers : h[1] \in StreamSessions /\ h[2] \in Turns /\ h = <<h[1], h[2]>>
  /\ \A s \in StreamSessions, g \in Turns : <<s, g>> \in Handlers
  /\ \A s, t, g, k : <<s, g>> = <<t, k>> => s = t /\ g = k
  /\ \A g \in Turns : g # 0
BY StreamConstants DEF Handlers, Turns

LEMMA StreamsBegin == StreamsInit => StreamsInv
<1> SUFFICES ASSUME StreamsInit PROVE StreamsInv
  OBVIOUS
<1>1. 0 \in 0 .. MaxTurn
  BY StreamConstants
<1>2. StreamsTypeOK
  <2>1. NoStream \in Stream /\ NoBubble \in Bubble
    BY DEF NoBubble, Bubble, NoStream, Stream
  <2>2. channel \in [StreamSessions -> Seq({"chunk", "done", "error"} \X Turns)]
    BY DEF StreamsInit
  <2> QED
    BY <1>1, <2>1, <2>2 DEF StreamsInit, StreamsTypeOK, HandlerPhases
<1>3. \A h \in Handlers : /\ handler[h] = "none" /\ stream[h] = NoStream
  BY DEF StreamsInit
<1>4. /\ NoStream.pc = "none" /\ NoStream.reject = FALSE
  BY DEF NoStream
<1>5. FutureTurnsNone /\ Placed /\ Opened /\ OneLiveStream /\ SettledWhenOver
  BY <1>3, <1>4, Pairs DEF FutureTurnsNone, Placed, Opened, OneLiveStream, StreamInFlight,
                           SettledWhenOver
<1>6. RunningIffHandled
  BY DEF StreamsInit, RunningIffHandled
<1> QED
  BY <1>2, <1>5, <1>6 DEF StreamsInv

-----------------------------------------------------------------------------
(* Types.                                                                  *)

LEMMA BubbleRecords ==
  /\ \A m \in Bubble, b \in {"none", "empty", "text", "note", "error"} :
       /\ [m EXCEPT !.body = b] \in Bubble /\ [m EXCEPT !.body = b].body = b
  /\ \A p \in BOOLEAN, b \in {"none", "empty", "text", "note", "error"} :
       [pending |-> p, body |-> b] \in Bubble
BY DEF Bubble

\* The operators that make messages make messages.
LEMMA Messages ==
  \A m \in Bubble :
    /\ Settled(m, "note") \in Bubble /\ Shown(m) \in Bubble
    /\ m.body # "none" => /\ ~Settled(m, "note").pending
                          /\ Settled(m, "note").body \notin {"none", "empty"}
                          /\ Shown(m).body # "none"
    /\ ~m.pending /\ m.body \notin {"none", "empty"} => /\ Settled(m, "note") = m
                                                        /\ ~Shown(m).pending
                                                        /\ Shown(m).body \notin {"none", "empty"}
<1> SUFFICES ASSUME NEW m \in Bubble PROVE
      /\ Settled(m, "note") \in Bubble /\ Shown(m) \in Bubble
      /\ m.body # "none" => /\ ~Settled(m, "note").pending
                            /\ Settled(m, "note").body \notin {"none", "empty"}
                            /\ Shown(m).body # "none"
      /\ ~m.pending /\ m.body \notin {"none", "empty"} => /\ Settled(m, "note") = m
                                                          /\ ~Shown(m).pending
                                                          /\ Shown(m).body \notin {"none", "empty"}
  OBVIOUS
<1>1. m.body \in {"none", "empty", "text", "note", "error"} /\ m.pending \in BOOLEAN
      /\ m = [pending |-> m.pending, body |-> m.body]
  BY DEF Bubble
<1>2. CASE m.body = "none"
  BY <1>1, <1>2 DEF Settled, Shown
<1>3. CASE m.body # "none"
  <2>1. Settled(m, "note") = [pending |-> FALSE,
                              body |-> IF m.body = "empty" THEN "note" ELSE m.body]
    BY <1>3 DEF Settled
  <2>2. Shown(m) = [pending |-> FALSE, body |-> IF m.body = "error" THEN "error" ELSE "text"]
    BY <1>3 DEF Shown
  <2>3. Settled(m, "note") \in Bubble /\ Shown(m) \in Bubble
    <3>1. \A b \in {"none", "empty", "text", "note", "error"} :
            [pending |-> FALSE, body |-> b] \in Bubble
      BY DEF Bubble
    <3>2. /\ (IF m.body = "empty" THEN "note" ELSE m.body) \in {"none", "empty", "text", "note", "error"}
          /\ (IF m.body = "error" THEN "error" ELSE "text") \in {"none", "empty", "text", "note", "error"}
      BY <1>1
    <3>3. Settled(m, "note") \in Bubble
      BY <2>1, <3>1, <3>2
    <3>4. Shown(m) \in Bubble
      BY <2>2, <3>1, <3>2
    <3> QED
      BY <3>3, <3>4
  <2>4. /\ ~Settled(m, "note").pending /\ Settled(m, "note").body \notin {"none", "empty"}
        /\ ~Shown(m).pending /\ Shown(m).body \notin {"none", "empty"}
    BY <1>1, <1>3, <2>1, <2>2
  <2>5. ~m.pending /\ m.body # "empty" => Settled(m, "note") = m
    BY <1>1, <2>1
  <2> QED
    BY <2>3, <2>4, <2>5
<1> QED
  BY <1>2, <1>3

\* What is done to a stream's record leaves a stream's record, and only changes
\* the field it names.
StreamPcs == {"none", "called", "connect", "open", "finish", "over"}

LEMMA StreamRecords ==
  \A r \in Stream :
    /\ \A p \in StreamPcs : [r EXCEPT !.pc = p] \in Stream
    /\ \A b \in BOOLEAN : [r EXCEPT !.pc = "finish", !.ok = b] \in Stream
    /\ \A b \in BOOLEAN : [NoStream EXCEPT !.pc = "over", !.reject = b] \in Stream
    /\ [r EXCEPT !.cancelled = TRUE] \in Stream
    /\ [r EXCEPT !.reject = FALSE] \in Stream
    /\ \A how \in {"no", "abort", "restart"} : [r EXCEPT !.cut = how] \in Stream
    /\ r.ok \in BOOLEAN /\ r.cancelled \in BOOLEAN /\ r.reject \in BOOLEAN
BY DEF Stream, NoStream, StreamPcs

\* Each way a stream's record is replaced.
LEMMA StreamUpdates ==
  ASSUME StreamsTypeOK, NEW h \in Handlers
  PROVE  /\ \A p \in StreamPcs : [stream EXCEPT ![h].pc = p] \in [Handlers -> Stream]
         /\ \A b \in BOOLEAN : FinishStream(h, b) => stream' \in [Handlers -> Stream]
         /\ [stream EXCEPT ![h].reject = FALSE] \in [Handlers -> Stream]
         /\ \A s, g : CancelIn(stream, s, g) \in [Handlers -> Stream]
         /\ \A how \in {"no", "abort", "restart"} :
              CutServing(how) => stream' \in [Handlers -> Stream]
         /\ stream[h].ok \in BOOLEAN /\ stream[h].cancelled \in BOOLEAN
<1>1. stream \in [Handlers -> Stream]
  BY DEF StreamsTypeOK
<1>2. \A p \in StreamPcs : [stream EXCEPT ![h].pc = p] \in [Handlers -> Stream]
  BY <1>1, StreamRecords
<1>3. ASSUME NEW b \in BOOLEAN, FinishStream(h, b) PROVE stream' \in [Handlers -> Stream]
  <2>1. stream' = [stream EXCEPT ![h] = [stream[h] EXCEPT !.pc = "finish", !.ok = b]]
    BY <1>1, <1>3 DEF FinishStream, Stream
  <2>2. [stream[h] EXCEPT !.pc = "finish", !.ok = b] \in Stream
    BY <1>1, StreamRecords
  <2> HIDE DEF Stream
  <2> QED
    BY <1>1, <2>1, <2>2
<1>4. [stream EXCEPT ![h].reject = FALSE] \in [Handlers -> Stream]
  BY <1>1, StreamRecords
<1>5. \A s, g : CancelIn(stream, s, g) \in [Handlers -> Stream]
  BY <1>1, StreamRecords DEF CancelIn
<1>6. ASSUME NEW how \in {"no", "abort", "restart"}, CutServing(how)
      PROVE  stream' \in [Handlers -> Stream]
  BY <1>1, <1>6, StreamRecords DEF CutServing
<1>7. stream[h].ok \in BOOLEAN /\ stream[h].cancelled \in BOOLEAN
  BY <1>1, StreamRecords
<1> QED
  BY <1>2, <1>3, <1>4, <1>5, <1>6, <1>7

\* A cleanup is of handlers, messages and the pointer.
LEMMA CleanUpType ==
  ASSUME StreamsTypeOK, NEW hs, NEW settled \in [Handlers -> Bubble], CleanUp(hs, settled)
  PROVE  /\ handler' \in [Handlers -> HandlerPhases] /\ bubble' \in [Handlers -> Bubble]
         /\ pointer' \in [StreamSessions -> 0 .. MaxTurn]
<1>1. 0 \in 0 .. MaxTurn
  BY StreamConstants
<1>2. \A h \in Handlers : Settled(settled[h], "note") \in Bubble
  BY Messages
<1> QED
  BY <1>1, <1>2 DEF CleanUp, StreamsTypeOK, HandlerPhases

LEMMA TypeStep == StreamsTypeOK /\ [StreamsNext]_streamVars => StreamsTypeOK'
<1> SUFFICES ASSUME StreamsTypeOK, [StreamsNext]_streamVars PROVE StreamsTypeOK'
  OBVIOUS
<1> USE DEF StreamsTypeOK
<1>z. 0 \in 0 .. MaxTurn /\ Turns \subseteq 0 .. MaxTurn
  BY StreamConstants DEF Turns
<1>1. ASSUME NEW s \in StreamSessions, SubmitTurn(s) PROVE StreamsTypeOK'
  <2>1. turn[s] + 1 \in 0 .. MaxTurn
    BY <1>1, StreamConstants DEF SubmitTurn
  <2> QED
    BY <1>1, <1>z, <2>1 DEF SubmitTurn, HandlerPhases
<1>2. ASSUME NEW s \in StreamSessions, StopTurn(s) PROVE StreamsTypeOK'
  <2>1. turn[s] + 1 \in 0 .. MaxTurn
    BY <1>2, StreamConstants DEF StopTurn
  <2>2. bubble' \in [Handlers -> Bubble]
    BY <1>2, Messages DEF StopTurn
  <2> QED
    BY <1>2, <1>z, <2>1, <2>2 DEF StopTurn
<1>3. ASSUME NEW h \in Handlers, AttachedTurn(h) PROVE StreamsTypeOK'
  <2>1. [pending |-> TRUE, body |-> "empty"] \in Bubble
    BY DEF Bubble
  <2> QED
    BY <1>3, <1>z, <2>1, Pairs DEF AttachedTurn, HandlerPhases
<1>4. ASSUME NEW h \in Handlers, CallStream(h) PROVE StreamsTypeOK'
  BY <1>4, StreamUpdates DEF CallStream, HandlerPhases, StreamPcs
<1>5. ASSUME NEW h \in Handlers, Backend(h) PROVE StreamsTypeOK'
  <2>2. CASE RegisterStream(h)
    <3>1. stream' \in [Handlers -> Stream]
      <4> DEFINE c == CancelIn(stream, h[1], slot[h[1]])
      <4>1. c \in [Handlers -> Stream] /\ stream' = [c EXCEPT ![h].pc = "connect"]
        BY <2>2, StreamUpdates DEF RegisterStream
      <4> HIDE DEF c
      <4> QED
        BY <4>1, StreamRecords DEF StreamPcs
    <3> QED
      BY <1>z, <2>2, <3>1, Pairs DEF RegisterStream, storeStreamVars
  <2>3. CASE Connect(h)
    <3>1. stream' \in [Handlers -> Stream]
      BY <2>3, StreamUpdates DEF Connect, StreamPcs
    <3> QED
      BY <2>3, <3>1 DEF Connect, storeStreamVars
  <2>4. CASE EndStream(h)
    <3>1. stream' \in [Handlers -> Stream]
      BY <2>4, StreamUpdates DEF EndStream
    <3> QED
      BY <2>4, <3>1 DEF EndStream, storeStreamVars
  <2>5. CASE Report(h)
    <3>1. Reported(h) \in Seq(Tag)
      BY Pairs DEF Reported, Tag
    <3>2. ClearedOwn(h) \in [StreamSessions -> 0 .. MaxTurn]
      BY <1>z DEF ClearedOwn
    <3>3. stream' \in [Handlers -> Stream]
      BY <2>5, StreamUpdates, StreamRecords DEF Report
    <3> QED
      BY <2>5, <3>1, <3>2, <3>3 DEF Report, storeStreamVars, Tag
  <2> QED
    BY <1>5, <2>2, <2>3, <2>4, <2>5 DEF Backend
<1>6. ASSUME NEW h \in Handlers, Chunk(h) PROVE StreamsTypeOK'
  <2>1. stream' \in [Handlers -> Stream]
    BY <1>6, StreamUpdates DEF Chunk
  <2>2. channel' \in [StreamSessions -> Seq({"chunk", "done", "error"} \X Turns)]
    <3>1. <<"chunk", h[2]>> \in {"chunk", "done", "error"} \X Turns /\ h[1] \in StreamSessions
      BY Pairs
    <3>2. Append(channel[h[1]], <<"chunk", h[2]>>) \in Seq({"chunk", "done", "error"} \X Turns)
      BY <3>1
    <3>3. channel' = channel \/ channel' = [channel EXCEPT ![h[1]] =
                                              Append(channel[h[1]], <<"chunk", h[2]>>)]
      BY <1>6 DEF Chunk
    <3> QED
      BY <3>1, <3>2, <3>3
  <2> QED
    BY <1>6, <2>1, <2>2 DEF Chunk, storeStreamVars
<1>7. ASSUME NEW s \in StreamSessions, ServeStop(s) PROVE StreamsTypeOK'
  <2>1. stream' \in [Handlers -> Stream]
    BY <1>7, StreamRecords DEF ServeStop, CancelIn
  <2> QED
    BY <1>7, <1>z, <2>1 DEF ServeStop, storeStreamVars
<1>8. \A how \in {"abort", "restart"} : CutServing(how) => stream' \in [Handlers -> Stream]
  <2> SUFFICES ASSUME NEW how \in {"abort", "restart"}, CutServing(how)
               PROVE  stream' \in [Handlers -> Stream]
    OBVIOUS
  <2>1. \A h \in Handlers : [stream[h] EXCEPT !.cut = how] \in Stream
    BY StreamRecords
  <2> QED
    BY <2>1 DEF CutServing
<1>9. CASE ServeAbort
  BY <1>8, <1>9 DEF ServeAbort, storeStreamVars
<1>10. ASSUME NEW s \in StreamSessions, OnChunk(s) PROVE StreamsTypeOK'
  <2>1. bubble' \in [Handlers -> Bubble]
    BY <1>10, Messages DEF OnChunk
  <2>2. channel' \in [StreamSessions -> Seq({"chunk", "done", "error"} \X Turns)]
    BY <1>10 DEF OnChunk, Taken
  <2> QED
    BY <1>10, <2>1, <2>2 DEF OnChunk
<1>11. ASSUME NEW s \in StreamSessions, OnEnd(s) PROVE StreamsTypeOK'
  <2>1. channel' \in [StreamSessions -> Seq({"chunk", "done", "error"} \X Turns)]
    BY <1>11 DEF OnEnd, Taken
  <2> DEFINE b == [h \in Handlers |->
                     IF IsCurrent(h) /\ Head(channel[s])[1] = "error"
                       THEN [bubble[h] EXCEPT !.body = "error"] ELSE bubble[h]]
  <2>2. b \in [Handlers -> Bubble]
    BY BubbleRecords
  <2>3. CleanUp(Listening(s), b) /\ running' = LeftRunning(Listening(s))
    BY <1>11 DEF OnEnd
  <2> HIDE DEF b
  <2> QED
    BY <1>11, <2>1, <2>2, <2>3, CleanUpType DEF OnEnd, LeftRunning
<1>12. ASSUME NEW h \in Handlers, OnReject(h) PROVE StreamsTypeOK'
  <2> DEFINE b == [bubble EXCEPT ![h].body = IF IsCurrent(h) THEN "error" ELSE @]
  <2>1. b \in [Handlers -> Bubble]
    <3>1. [bubble[h] EXCEPT !.body = "error"] \in Bubble
      BY BubbleRecords
    <3>2. bubble[h] \in Bubble /\ bubble[h] = [bubble[h] EXCEPT !.body = bubble[h].body]
      BY DEF Bubble
    <3>3. b = [bubble EXCEPT ![h] = [bubble[h] EXCEPT !.body =
                                       IF IsCurrent(h) THEN "error" ELSE bubble[h].body]]
      BY DEF Bubble
    <3> QED
      BY <3>1, <3>2, <3>3
  <2>2. CleanUp({h}, b) /\ running' = LeftRunning({h})
    BY <1>12 DEF OnReject
  <2>3. stream' \in [Handlers -> Stream]
    BY <1>12, StreamUpdates DEF OnReject
  <2> HIDE DEF b
  <2> QED
    BY <1>12, <2>1, <2>2, <2>3, CleanUpType DEF OnReject, LeftRunning
<1>13. ASSUME NEW h \in Handlers, Watch(h) PROVE StreamsTypeOK'
  BY <1>8, <1>13 DEF Watch, WatchdogBites, WatchdogWaits, WatchdogRestarts
<1>14. CASE UNCHANGED streamVars
  BY <1>14 DEF streamVars
<1> QED
  BY <1>1, <1>2, <1>3, <1>4, <1>5, <1>6, <1>7, <1>9, <1>10, <1>11, <1>12, <1>13, <1>14
     DEF StreamsNext, StoreTurn
-----------------------------------------------------------------------------
(* The backend's steps and the watchdog's leave the store alone.           *)

LEMMA StoreUntouched ==
  ASSUME StreamsInv, UNCHANGED <<turn, running, handler, bubble>>
  PROVE  FutureTurnsNone' /\ Placed' /\ RunningIffHandled' /\ SettledWhenOver'
BY DEF StreamsInv, FutureTurnsNone, Placed, RunningIffHandled, SettledWhenOver, InTheWorks

\* No stream comes to life.
LEMMA NothingStarts ==
  ASSUME StreamsInv, UNCHANGED <<handler, slot>>,
         \A h \in Handlers :
           /\ stream'[h].pc # "none" \/ stream'[h].reject => stream[h].pc # "none" \/ stream[h].reject
           /\ StreamInFlight(h)' /\ ~stream'[h].cancelled => StreamInFlight(h) /\ ~stream[h].cancelled
  PROVE  Opened' /\ OneLiveStream'
BY DEF StreamsInv, Opened, OneLiveStream

\* A stream takes the session's slot: who held it is cancelled.
LEMMA RegisterStep ==
  ASSUME StreamsInv, NEW h \in Handlers, RegisterStream(h) PROVE Opened' /\ OneLiveStream'
<1>1. StreamsTypeOK /\ stream \in [Handlers -> Stream] /\ h[1] \in StreamSessions
  BY Pairs DEF StreamsInv, StreamsTypeOK
<1> DEFINE c == CancelIn(stream, h[1], slot[h[1]])
<1>2. c \in [Handlers -> Stream] /\ stream' = [c EXCEPT ![h].pc = "connect"]
  BY <1>1, StreamUpdates DEF RegisterStream
<1>3. \A g \in Handlers : c[g].pc = stream[g].pc /\ c[g].reject = stream[g].reject
  BY <1>1 DEF CancelIn, Stream
<1>4. \A g \in Handlers :
        ~c[g].cancelled => ~stream[g].cancelled /\ (g[1] = h[1] => slot[h[1]] = 0 \/ slot[h[1]] # g[2])
  BY <1>1, Pairs DEF CancelIn, Stream
<1> HIDE DEF c
<1>5. \A g \in Handlers :
        /\ stream'[g].cancelled = c[g].cancelled /\ stream'[g].reject = c[g].reject
        /\ g # h => stream'[g].pc = c[g].pc
  BY <1>2 DEF Stream
<1>6. UNCHANGED handler /\ stream[h].pc = "called" /\ slot' = [slot EXCEPT ![h[1]] = h[2]]
  BY DEF RegisterStream, storeStreamVars
<1>7. Opened'
  BY <1>3, <1>5, <1>6 DEF StreamsInv, Opened
<1>8. ASSUME NEW g \in Handlers, StreamInFlight(g)', ~stream'[g].cancelled
      PROVE  slot'[g[1]] = g[2]
  <2>1. g[1] \in StreamSessions /\ g[2] \in Turns /\ g[2] # 0 /\ slot \in [StreamSessions -> 0 .. MaxTurn]
    BY <1>1, Pairs DEF StreamsTypeOK
  <2>2. CASE g = h
    BY <1>1, <1>6, <2>1, <2>2
  <2>3. CASE g # h
    <3>1. StreamInFlight(g) /\ ~c[g].cancelled /\ ~stream[g].cancelled
      BY <1>3, <1>4, <1>5, <1>8, <2>3 DEF StreamInFlight
    <3>2. slot[g[1]] = g[2]
      BY <3>1 DEF StreamsInv, OneLiveStream
    <3>3. g[1] # h[1]
      BY <1>4, <2>1, <3>1, <3>2
    <3> QED
      BY <1>1, <1>6, <2>1, <3>2, <3>3
  <2> QED
    BY <2>2, <2>3
<1> QED
  BY <1>7, <1>8 DEF OneLiveStream

\* A stream that has ended gives up the slot only while it is its own.
LEMMA ReportStep ==
  ASSUME StreamsInv, NEW h \in Handlers, Report(h) PROVE Opened' /\ OneLiveStream'
<1>1. /\ stream \in [Handlers -> Stream] /\ slot \in [StreamSessions -> 0 .. MaxTurn]
      /\ h[1] \in StreamSessions /\ h[2] # 0
  BY Pairs DEF StreamsInv, StreamsTypeOK
<1>2. /\ UNCHANGED handler /\ stream[h].pc = "finish" /\ slot' = ClearedOwn(h)
      /\ \A g \in Handlers : g # h => stream'[g] = stream[g]
      /\ stream'[h].pc = "over"
  BY <1>1 DEF Report, storeStreamVars, NoStream
<1>3. Opened'
  BY <1>2 DEF StreamsInv, Opened
<1>4. ASSUME NEW g \in Handlers, StreamInFlight(g)', ~stream'[g].cancelled
      PROVE  slot'[g[1]] = g[2]
  <2>1. g # h /\ StreamInFlight(g) /\ ~stream[g].cancelled
    BY <1>2, <1>4 DEF StreamInFlight
  <2>2. slot[g[1]] = g[2]
    BY <2>1 DEF StreamsInv, OneLiveStream
  <2>3. g[1] # h[1] \/ g[2] # h[2]
    BY <2>1, Pairs
  <2> QED
    BY <1>1, <1>2, <2>2, <2>3, Pairs DEF ClearedOwn
<1> QED
  BY <1>3, <1>4 DEF OneLiveStream

\* A stop cancels whoever holds the slot, and empties it.
LEMMA ServeStopStep ==
  ASSUME StreamsInv, NEW s \in StreamSessions, ServeStop(s) PROVE Opened' /\ OneLiveStream'
<1>1. /\ stream \in [Handlers -> Stream] /\ slot \in [StreamSessions -> 0 .. MaxTurn]
      /\ UNCHANGED handler /\ slot' = [slot EXCEPT ![s] = 0]
      /\ stream' = CancelIn(stream, s, slot[s])
  BY DEF StreamsInv, StreamsTypeOK, ServeStop, storeStreamVars
<1>2. \A g \in Handlers :
        /\ stream'[g].pc = stream[g].pc /\ stream'[g].reject = stream[g].reject
        /\ ~stream'[g].cancelled =>
             ~stream[g].cancelled /\ (g[1] = s => slot[s] = 0 \/ slot[s] # g[2])
  <2>1. CASE slot[s] = 0
    BY <1>1, <2>1 DEF CancelIn
  <2>2. CASE slot[s] # 0
    <3>1. stream' = [stream EXCEPT ![<<s, slot[s]>>] = [stream[<<s, slot[s]>>] EXCEPT !.cancelled = TRUE]]
      BY <1>1, <2>2 DEF CancelIn
    <3>2. \A g \in Handlers : stream[g] \in Stream
      BY <1>1
    <3>3. \A g \in Handlers : g # <<s, slot[s]>> => stream'[g] = stream[g]
      BY <1>1, <3>1
    <3>4. \A g \in Handlers : g[1] = s /\ slot[s] = g[2] => g = <<s, slot[s]>>
      BY Pairs
    <3>5. <<s, slot[s]>> \in Handlers =>
            /\ stream'[<<s, slot[s]>>].pc = stream[<<s, slot[s]>>].pc
            /\ stream'[<<s, slot[s]>>].reject = stream[<<s, slot[s]>>].reject
            /\ stream'[<<s, slot[s]>>].cancelled = TRUE
      BY <1>1, <3>1, <3>2 DEF Stream
    <3> QED
      BY <3>3, <3>4, <3>5
  <2> QED
    BY <2>1, <2>2
<1>3. Opened'
  BY <1>1, <1>2 DEF StreamsInv, Opened
<1>4. ASSUME NEW g \in Handlers, StreamInFlight(g)', ~stream'[g].cancelled
      PROVE  slot'[g[1]] = g[2]
  <2>1. StreamInFlight(g) /\ ~stream[g].cancelled
    BY <1>2, <1>4 DEF StreamInFlight
  <2>2. slot[g[1]] = g[2] /\ g[1] \in StreamSessions /\ g[2] # 0
    BY <2>1, Pairs DEF StreamsInv, OneLiveStream
  <2>3. g[1] # s
    BY <1>2, <1>4, <2>2
  <2> QED
    BY <1>1, <2>2, <2>3
<1> QED
  BY <1>3, <1>4 DEF OneLiveStream

LEMMA ServeStopInv ==
  ASSUME StreamsInv, NEW s \in StreamSessions, ServeStop(s) PROVE StreamsInv'
<1>1. StreamsTypeOK'
  BY TypeStep DEF StreamsInv, StreamsNext
<1>2. UNCHANGED <<turn, running, handler, bubble>>
  BY DEF ServeStop, storeStreamVars
<1> QED
  BY <1>1, <1>2, ServeStopStep, StoreUntouched DEF StreamsInv

LEMMA BackendStep ==
  ASSUME StreamsInv, NEW h \in Handlers, Backend(h) \/ Chunk(h) PROVE StreamsInv'
<1>1. StreamsTypeOK'
  BY TypeStep DEF StreamsInv, StreamsNext
<1>2. UNCHANGED <<turn, running, handler, bubble>>
  BY DEF Backend, RegisterStream, Connect, EndStream, Report, Chunk, storeStreamVars
<1>3. stream \in [Handlers -> Stream]
  BY DEF StreamsInv, StreamsTypeOK
<1>4. ASSUME NEW b \in BOOLEAN, FinishStream(h, b), StreamInFlight(h), UNCHANGED slot
      PROVE  Opened' /\ OneLiveStream'
  <2>1. \A g \in Handlers :
          /\ stream'[g].reject = stream[g].reject /\ stream'[g].cancelled = stream[g].cancelled
          /\ g # h => stream'[g].pc = stream[g].pc
    BY <1>3, <1>4 DEF FinishStream, Stream
  <2>2. stream[h].pc \notin {"none"} /\ StreamInFlight(h)
    BY <1>4 DEF StreamInFlight
  <2> QED
    BY <1>2, <1>4, <2>1, <2>2, NothingStarts DEF StreamInFlight
<1>5. CASE RegisterStream(h)
  BY <1>1, <1>2, <1>5, RegisterStep, StoreUntouched DEF StreamsInv
<1>6. CASE Connect(h)
  <2>1. UNCHANGED slot /\ StreamInFlight(h)
    BY <1>6 DEF Connect, StreamInFlight
  <2>2. CASE stream' = [stream EXCEPT ![h].pc = "open"]
    <3>1. \A g \in Handlers :
            /\ stream'[g].reject = stream[g].reject /\ stream'[g].cancelled = stream[g].cancelled
            /\ g # h => stream'[g].pc = stream[g].pc
      BY <1>3, <2>2 DEF Stream
    <3>2. stream[h].pc # "none"
      BY <1>6 DEF Connect
    <3>3. Opened' /\ OneLiveStream'
      BY <1>2, <2>1, <3>1, <3>2, NothingStarts DEF StreamInFlight
    <3> QED
      BY <1>1, <1>2, <3>3, StoreUntouched DEF StreamsInv
  <2> QED
    BY <1>1, <1>2, <1>4, <1>6, <2>1, <2>2, StoreUntouched DEF StreamsInv, Connect
<1>7. CASE EndStream(h)
  <2>1. UNCHANGED slot /\ StreamInFlight(h) /\ stream[h].cancelled \in BOOLEAN
    BY <1>3, <1>7 DEF EndStream, Serving, StreamInFlight, Stream
  <2>2. Opened' /\ OneLiveStream'
    BY <1>4, <1>7, <2>1 DEF EndStream
  <2> QED
    BY <1>1, <1>2, <2>2, StoreUntouched DEF StreamsInv
<1>8. CASE Report(h)
  BY <1>1, <1>2, <1>8, ReportStep, StoreUntouched DEF StreamsInv
<1>9. CASE Chunk(h)
  <2>1. UNCHANGED slot /\ StreamInFlight(h)
    BY <1>9 DEF Chunk, Serving, StreamInFlight
  <2>2. CASE UNCHANGED stream
    <3>1. Opened' /\ OneLiveStream'
      BY <1>2, <2>1, <2>2, NothingStarts DEF StreamInFlight
    <3> QED
      BY <1>1, <1>2, <3>1, StoreUntouched DEF StreamsInv
  <2>3. CASE FinishStream(h, TRUE)
    BY <1>1, <1>2, <1>4, <2>1, <2>3, StoreUntouched DEF StreamsInv
  <2> QED
    BY <1>9, <2>2, <2>3 DEF Chunk
<1> QED
  BY <1>5, <1>6, <1>7, <1>8, <1>9 DEF Backend

\* The runtime is aborted or restarted: streams find out later.
LEMMA CutStep ==
  ASSUME StreamsInv, ServeAbort \/ \E h \in Handlers : Watch(h) PROVE StreamsInv'
<1>1. StreamsTypeOK'
  BY TypeStep DEF StreamsInv, StreamsNext
<1>2. UNCHANGED <<turn, running, handler, bubble, slot>>
  BY DEF Watch, WatchdogBites, WatchdogWaits, WatchdogRestarts, ServeAbort, storeStreamVars
<1>3. UNCHANGED stream \/ CutServing("abort") \/ CutServing("restart")
  BY DEF Watch, WatchdogBites, WatchdogWaits, WatchdogRestarts, ServeAbort
<1>4. stream \in [Handlers -> Stream]
  BY DEF StreamsInv, StreamsTypeOK
<1>5. \A g \in Handlers :
        /\ stream'[g].reject = stream[g].reject /\ stream'[g].cancelled = stream[g].cancelled
        /\ stream'[g].pc = stream[g].pc
  BY <1>3, <1>4 DEF CutServing, Stream
<1>6. Opened' /\ OneLiveStream'
  BY <1>2, <1>5, NothingStarts DEF StreamInFlight
<1> QED
  BY <1>1, <1>2, <1>6, StoreUntouched DEF StreamsInv

-----------------------------------------------------------------------------
(* The store's steps.                                                      *)

\* The streams are as they were, or one's rejection has been dealt with.
LEMMA StreamsUntouched ==
  ASSUME StreamsInv, UNCHANGED slot,
         \A h \in Handlers :
           /\ stream'[h].pc = stream[h].pc /\ stream'[h].cancelled = stream[h].cancelled
           /\ stream'[h].reject => stream[h].reject
           /\ handler[h] \in {"open", "over"} => handler'[h] \in {"open", "over"}
  PROVE  Opened' /\ OneLiveStream'
BY DEF StreamsInv, Opened, OneLiveStream, StreamInFlight

LEMMA SubmitStep ==
  ASSUME StreamsInv, NEW s \in StreamSessions, SubmitTurn(s) PROVE StreamsInv'
<1>1. StreamsTypeOK' /\ StreamsTypeOK
  BY TypeStep DEF StreamsInv, StreamsNext
<1>2. turn[s] \in Nat /\ turn[s] + 1 \in Turns /\ <<s, turn[s] + 1>> \in Handlers
  BY <1>1, StreamConstants, Pairs DEF StreamsTypeOK, SubmitTurn, Turns
<1>3. /\ \A h \in Handlers : h # <<s, turn[s] + 1>> => handler'[h] = handler[h]
      /\ handler'[<<s, turn[s] + 1>>] = "attach" /\ handler[<<s, turn[s] + 1>>] = "none"
      /\ turn'[s] = turn[s] + 1 /\ \A t \in StreamSessions : t # s => turn'[t] = turn[t]
  BY <1>1, <1>2 DEF SubmitTurn, StreamsTypeOK, StreamsInv, FutureTurnsNone
<1>4. Opened' /\ OneLiveStream'
  BY <1>3, StreamsUntouched DEF SubmitTurn
<1>5. FutureTurnsNone'
  <2> SUFFICES ASSUME NEW t \in StreamSessions, NEW g \in Turns, g > turn'[t]
               PROVE  handler'[<<t, g>>] = "none"
    BY DEF FutureTurnsNone
  <2>1. g > turn[t] /\ <<t, g>> # <<s, turn[s] + 1>>
    BY <1>2, <1>3 DEF Turns
  <2> QED
    BY <1>3, <2>1, Pairs DEF StreamsInv, FutureTurnsNone
<1>6. Placed' /\ SettledWhenOver'
  BY <1>3 DEF SubmitTurn, StreamsInv, Placed, SettledWhenOver
<1>7. RunningIffHandled'
  <2> SUFFICES ASSUME NEW t \in StreamSessions
               PROVE  t \in running' <=> /\ turn'[t] # 0
                                           /\ handler'[<<t, turn'[t]>>] \notin {"none", "over"}
    BY DEF RunningIffHandled, InTheWorks
  <2>1. CASE t = s
    BY <1>2, <1>3, <2>1 DEF SubmitTurn, InTheWorks
  <2>2. CASE t # s
    <3>1. turn[t] = 0 \/ <<t, turn[t]>> \in Handlers
      BY <1>1, Pairs DEF StreamsTypeOK, Turns
    <3>2. <<t, turn[t]>> # <<s, turn[s] + 1>>
      BY <2>2
    <3>3. t \in running' <=> t \in running
      BY <2>2 DEF SubmitTurn
    <3> QED
      BY <1>3, <2>2, <3>1, <3>2, <3>3 DEF StreamsInv, RunningIffHandled, InTheWorks
  <2> QED
    BY <2>1, <2>2
<1> QED
  BY <1>1, <1>4, <1>5, <1>6, <1>7 DEF StreamsInv

\* Stopping claims the next turn for nobody.
LEMMA StopStep ==
  ASSUME StreamsInv, NEW s \in StreamSessions, StopTurn(s) PROVE StreamsInv'
<1>1. StreamsTypeOK' /\ StreamsTypeOK
  BY TypeStep DEF StreamsInv, StreamsNext
<1>2. turn[s] \in Nat /\ turn[s] + 1 \in Turns /\ <<s, turn[s] + 1>> \in Handlers
  BY <1>1, StreamConstants, Pairs DEF StreamsTypeOK, StopTurn, Turns
<1>3. /\ UNCHANGED <<handler, stream, slot>> /\ running' = running \ {s}
      /\ turn'[s] = turn[s] + 1 /\ \A t \in StreamSessions : t # s => turn'[t] = turn[t]
      /\ \A h \in Handlers : bubble'[h] \in {bubble[h], Settled(bubble[h], "note")}
  BY <1>1 DEF StopTurn, StreamsTypeOK
<1>4. Opened' /\ OneLiveStream'
  BY <1>3, StreamsUntouched
<1>5. FutureTurnsNone'
  BY <1>2, <1>3 DEF StreamsInv, FutureTurnsNone, Turns
<1>6. \A h \in Handlers : bubble[h] \in Bubble
  BY <1>1 DEF StreamsTypeOK
<1>7. Placed' /\ SettledWhenOver'
  BY <1>3, <1>6, Messages DEF StreamsInv, Placed, SettledWhenOver
<1>8. RunningIffHandled'
  <2> SUFFICES ASSUME NEW t \in StreamSessions
               PROVE  t \in running' <=> /\ turn'[t] # 0
                                           /\ handler'[<<t, turn'[t]>>] \notin {"none", "over"}
    BY DEF RunningIffHandled, InTheWorks
  <2>1. CASE t = s
    <3>1. handler[<<s, turn[s] + 1>>] = "none"
      BY <1>2 DEF StreamsInv, FutureTurnsNone
    <3> QED
      BY <1>3, <2>1, <3>1 DEF InTheWorks
  <2>2. CASE t # s
    BY <1>3, <2>2 DEF StreamsInv, RunningIffHandled, InTheWorks
  <2> QED
    BY <2>1, <2>2
<1> QED
  BY <1>1, <1>4, <1>5, <1>7, <1>8 DEF StreamsInv

\* A handler goes on: its phase changes, the rest stays.
LEMMA PhaseStep ==
  ASSUME StreamsInv, StreamsTypeOK', NEW h \in Handlers, NEW p \in {"listen", "open"},
         UNCHANGED <<turn, running>>, InTheWorks(h), handler' = [handler EXCEPT ![h] = p],
         bubble'[h].body # "none", \A g \in Handlers : g # h => bubble'[g] = bubble[g]
  PROVE  FutureTurnsNone' /\ Placed' /\ RunningIffHandled' /\ SettledWhenOver'
<1>1. /\ handler'[h] = p /\ \A g \in Handlers : g # h => handler'[g] = handler[g]
  BY DEF StreamsInv, StreamsTypeOK
<1>2. \A g \in Handlers : InTheWorks(g)' <=> InTheWorks(g)
  BY <1>1 DEF InTheWorks
<1>3. FutureTurnsNone'
  BY <1>1, Pairs DEF StreamsInv, FutureTurnsNone, InTheWorks
<1>4. Placed' /\ SettledWhenOver'
  BY <1>1 DEF StreamsInv, Placed, SettledWhenOver
<1>5. RunningIffHandled'
  <2> SUFFICES ASSUME NEW t \in StreamSessions
               PROVE  t \in running' <=> /\ turn'[t] # 0
                                           /\ handler'[<<t, turn'[t]>>] \notin {"none", "over"}
    BY DEF RunningIffHandled, InTheWorks
  <2>1. turn[t] = 0 \/ <<t, turn[t]>> \in Handlers
    BY Pairs DEF StreamsInv, StreamsTypeOK, Turns
  <2> QED
    BY <1>2, <2>1 DEF StreamsInv, RunningIffHandled, InTheWorks
<1> QED
  BY <1>3, <1>4, <1>5

LEMMA GoOnStep ==
  ASSUME StreamsInv, NEW h \in Handlers, AttachedTurn(h) \/ CallStream(h) PROVE StreamsInv'
<1>1. StreamsTypeOK' /\ StreamsTypeOK
  BY TypeStep DEF StreamsInv, StreamsNext, StoreTurn
<1>2. CASE AttachedTurn(h)
  <2>1. /\ bubble'[h].body = "empty" /\ \A g \in Handlers : g # h => bubble'[g] = bubble[g]
    BY <1>1, <1>2 DEF AttachedTurn, StreamsTypeOK
  <2>2. InTheWorks(h) /\ handler' = [handler EXCEPT ![h] = "listen"] /\ UNCHANGED <<turn, running>>
    BY <1>2 DEF AttachedTurn, InTheWorks
  <2>3. FutureTurnsNone' /\ Placed' /\ RunningIffHandled' /\ SettledWhenOver'
    BY <1>1, <2>1, <2>2, PhaseStep
  <2>4. \A g \in Handlers : handler[g] \in {"open", "over"} => handler'[g] \in {"open", "over"}
    BY <1>1, <1>2 DEF AttachedTurn, StreamsTypeOK
  <2>5. Opened' /\ OneLiveStream'
    BY <1>2, <2>4, StreamsUntouched DEF AttachedTurn
  <2> QED
    BY <1>1, <2>3, <2>5 DEF StreamsInv
<1>3. CASE CallStream(h)
  <2>1. bubble'[h].body # "none" /\ \A g \in Handlers : g # h => bubble'[g] = bubble[g]
    BY <1>3 DEF CallStream, StreamsInv, Placed
  <2>2. InTheWorks(h) /\ handler' = [handler EXCEPT ![h] = "open"] /\ UNCHANGED <<turn, running>>
    BY <1>3 DEF CallStream, InTheWorks
  <2>3. FutureTurnsNone' /\ Placed' /\ RunningIffHandled' /\ SettledWhenOver'
    BY <1>1, <2>1, <2>2, PhaseStep
  <2>4. /\ \A g \in Handlers : g # h => stream'[g] = stream[g] /\ handler'[g] = handler[g]
        /\ handler'[h] = "open" /\ stream'[h].pc = "called" /\ UNCHANGED slot
    BY <1>1, <1>3 DEF CallStream, StreamsTypeOK, Stream
  <2>5. Opened' /\ OneLiveStream'
    BY <2>4 DEF StreamsInv, Opened, OneLiveStream, StreamInFlight
  <2> QED
    BY <1>1, <2>3, <2>5 DEF StreamsInv
<1> QED
  BY <1>2, <1>3

LEMMA ChunkStep ==
  ASSUME StreamsInv, NEW s \in StreamSessions, OnChunk(s) PROVE StreamsInv'
<1>1. StreamsTypeOK' /\ StreamsTypeOK
  BY TypeStep DEF StreamsInv, StreamsNext
<1>2. /\ UNCHANGED <<turn, running, handler, stream, slot>>
      /\ \A h \in Handlers : bubble[h] \in Bubble /\ bubble'[h] \in {bubble[h], Shown(bubble[h])}
  BY <1>1 DEF OnChunk, StreamsTypeOK
<1>3. Opened' /\ OneLiveStream'
  BY <1>2, StreamsUntouched
<1>4. FutureTurnsNone' /\ RunningIffHandled'
  BY <1>2 DEF StreamsInv, FutureTurnsNone, RunningIffHandled, InTheWorks
<1>5. Placed' /\ SettledWhenOver'
  BY <1>2, Messages DEF StreamsInv, Placed, SettledWhenOver
<1> QED
  BY <1>1, <1>3, <1>4, <1>5 DEF StreamsInv

\* Handlers that listen, or did, are ended.
LEMMA EndingStep ==
  ASSUME StreamsInv, StreamsTypeOK', NEW hs \in SUBSET Handlers,
         NEW settled \in [Handlers -> Bubble], CleanUp(hs, settled),
         running' = LeftRunning(hs), UNCHANGED <<turn, slot>>,
         \A h \in hs : handler[h] \in {"open", "over"} /\ settled[h].body # "none",
         \A h \in Handlers :
           /\ stream'[h].pc = stream[h].pc /\ stream'[h].cancelled = stream[h].cancelled
           /\ stream'[h].reject => stream[h].reject
  PROVE  StreamsInv'
<1>1. \A h \in Handlers :
        IF h \in hs THEN handler'[h] = "over" /\ bubble'[h] = Settled(settled[h], "note")
        ELSE handler'[h] = handler[h] /\ bubble'[h] = bubble[h]
  BY DEF CleanUp
<1>2. Opened' /\ OneLiveStream'
  BY <1>1, StreamsUntouched
<1>3. FutureTurnsNone'
  BY <1>1, Pairs DEF StreamsInv, FutureTurnsNone
<1>4. \A h \in hs : /\ ~Settled(settled[h], "note").pending
                    /\ Settled(settled[h], "note").body \notin {"none", "empty"}
  BY Messages
<1>5. Placed' /\ SettledWhenOver'
  BY <1>1, <1>4 DEF StreamsInv, Placed, SettledWhenOver
<1>6. RunningIffHandled'
  <2> SUFFICES ASSUME NEW t \in StreamSessions
               PROVE  t \in running' <=> /\ turn'[t] # 0
                                           /\ handler'[<<t, turn'[t]>>] \notin {"none", "over"}
    BY DEF RunningIffHandled, InTheWorks
  <2>1. turn[t] = 0 \/ <<t, turn[t]>> \in Handlers
    BY Pairs DEF StreamsInv, StreamsTypeOK, Turns
  <2>2. t \in running' <=> t \in running /\ <<t, turn[t]>> \notin hs
    BY Pairs DEF LeftRunning, IsCurrent
  <2>3. turn[t] = 0 => t \notin running
    BY DEF StreamsInv, RunningIffHandled
  <2>4. CASE turn[t] # 0
    BY <1>1, <2>1, <2>2, <2>4 DEF StreamsInv, RunningIffHandled, InTheWorks
  <2> QED
    BY <2>2, <2>3, <2>4
<1> QED
  BY <1>2, <1>3, <1>5, <1>6 DEF StreamsInv

LEMMA EndStep ==
  ASSUME StreamsInv, NEW s \in StreamSessions, OnEnd(s) PROVE StreamsInv'
<1>1. StreamsTypeOK' /\ StreamsTypeOK
  BY TypeStep DEF StreamsInv, StreamsNext
<1> DEFINE b == [h \in Handlers |->
                   IF IsCurrent(h) /\ Head(channel[s])[1] = "error"
                     THEN [bubble[h] EXCEPT !.body = "error"] ELSE bubble[h]]
<1>2. b \in [Handlers -> Bubble]
  BY <1>1, BubbleRecords DEF StreamsTypeOK
<1>3. CleanUp(Listening(s), b) /\ running' = LeftRunning(Listening(s))
  BY DEF OnEnd
<1>4. Listening(s) \in SUBSET Handlers
  BY DEF Listening, Handlers
<1>5. \A h \in Listening(s) : handler[h] \in {"open", "over"} /\ bubble[h].body # "none"
  BY <1>4 DEF Listening, StreamsInv, Placed
<1>6. \A h \in Listening(s) : b[h].body # "none"
  BY <1>1, <1>4, <1>5, BubbleRecords DEF StreamsTypeOK
<1>7. UNCHANGED <<turn, slot, stream>>
  BY DEF OnEnd
<1> HIDE DEF b
<1> QED
  BY <1>1, <1>2, <1>3, <1>4, <1>5, <1>6, <1>7, EndingStep

LEMMA RejectStep ==
  ASSUME StreamsInv, NEW h \in Handlers, OnReject(h) PROVE StreamsInv'
<1>1. StreamsTypeOK' /\ StreamsTypeOK
  BY TypeStep DEF StreamsInv, StreamsNext, StoreTurn
<1> DEFINE b == [bubble EXCEPT ![h].body = IF IsCurrent(h) THEN "error" ELSE @]
<1>2. bubble[h] \in Bubble /\ bubble \in [Handlers -> Bubble]
  BY <1>1 DEF StreamsTypeOK
<1>3. handler[h] \in {"open", "over"} /\ bubble[h].body # "none"
  BY DEF OnReject, StreamsInv, Opened, Placed
<1>4. b \in [Handlers -> Bubble] /\ b[h].body # "none"
  <2>1. CASE IsCurrent(h)
    <3>1. b = [bubble EXCEPT ![h] = [bubble[h] EXCEPT !.body = "error"]]
      BY <1>2, <2>1 DEF Bubble
    <3> HIDE DEF b
    <3> QED
      BY <1>2, <3>1, BubbleRecords
  <2>2. CASE ~IsCurrent(h)
    <3>1. b = bubble
      BY <1>2, <2>2 DEF Bubble
    <3> QED
      BY <1>2, <1>3, <3>1
  <2> QED
    BY <2>1, <2>2
<1>5. CleanUp({h}, b) /\ running' = LeftRunning({h}) /\ UNCHANGED <<turn, slot>>
  BY DEF OnReject
<1>6. \A g \in Handlers :
        /\ stream'[g].pc = stream[g].pc /\ stream'[g].cancelled = stream[g].cancelled
        /\ stream'[g].reject => stream[g].reject
  BY <1>1 DEF OnReject, StreamsTypeOK, Stream
<1> HIDE DEF b
<1> QED
  BY <1>1, <1>3, <1>4, <1>5, <1>6, EndingStep

-----------------------------------------------------------------------------
LEMMA StreamsInvariance == StreamsInv /\ [StreamsNext]_streamVars => StreamsInv'
<1> SUFFICES ASSUME StreamsInv, [StreamsNext]_streamVars PROVE StreamsInv'
  OBVIOUS
<1>1. CASE UNCHANGED streamVars
  <2>1. StreamsTypeOK'
    BY TypeStep DEF StreamsInv
  <2>2. UNCHANGED <<turn, running, handler, bubble, stream, slot>>
    BY <1>1 DEF streamVars
  <2>3. Opened' /\ OneLiveStream'
    BY <2>2, NothingStarts DEF StreamInFlight
  <2> QED
    BY <2>1, <2>2, <2>3, StoreUntouched DEF StreamsInv
<1> QED
  BY <1>1, BackendStep, CutStep, SubmitStep, StopStep, GoOnStep, ChunkStep, EndStep, RejectStep,
     ServeStopInv DEF StreamsNext, StoreTurn

\* The state of the streams keeps its shape, for any number of sessions, turns
\* and events on their way.
THEOREM StreamsTypeCorrect == StreamsSpec => []StreamsTypeOK
<1>1. StreamsInv => StreamsTypeOK
  BY DEF StreamsInv
<1> QED
  BY <1>1, StreamsBegin, StreamsInvariance, PTL DEF StreamsSpec

\* At most one stream of a session is live, and a stop reaches it; a session is
\* shown as running exactly while the handler of its turn is under way; and no
\* handler ends with a message that is blank or pending.
THEOREM LateStreamsDoNoHarm == StreamsSpec => []StreamsSafe
<1>1. StreamsInv => StreamsSafe
  BY DEF StreamsInv, StreamsSafe
<1> QED
  BY <1>1, StreamsBegin, StreamsInvariance, PTL DEF StreamsSpec

-----------------------------------------------------------------------------
(* The choice of the runtime: late answers.  PickStands: only the built-in *)
(* is ever chosen without a gesture, and only while nothing was chosen.    *)
(* LoadingHasRefresh: the flag is raised in the step that starts a fetch,  *)
(* and the first fetch to return lowers it, so that it may be down while   *)
(* another is under way but never up without one.                          *)

\* The fetches in flight are still among the calls cs.
FetchesIn(cs) == \A c \in calls : c.kind = "refresh" => c \in cs

\* A new call leaves the calls in flight where they are, as choosing does.
LEMMA WithKeeps ==
  ASSUME NEW cs, NEW c, FetchesIn(cs)
  PROVE  FetchesIn(With(cs, c))
BY DEF With, FetchesIn

LEMMA ChoosingKeeps ==
  ASSUME NEW u, NEW h, NEW cs, FetchesIn(cs), Choose(u, h, cs)
  PROVE  FetchesIn(calls')
<1> DEFINE added == With(cs, ChoiceCall("select", u, h, {}))
<1>1. FetchesIn(added)
  BY WithKeeps
<1>2. FetchesIn(With(added, ChoiceCall("hydrate", u, FALSE, {})))
  BY <1>1, WithKeeps
<1>3. Configure(u, added)
  BY DEF Choose
<1> HIDE DEF added
<1> QED
  BY <1>1, <1>2, <1>3 DEF Configure

LEMMA FetchStays ==
  ASSUME LoadingHasRefresh, UNCHANGED loadingModels, FetchesIn(calls')
  PROVE  LoadingHasRefresh'
BY DEF LoadingHasRefresh, InFlightOf, FetchesIn

LEMMA FetchBegins ==
  ASSUME NEW u, NEW cs, StartRefresh(u, cs)
  PROVE  LoadingHasRefresh'
<1> DEFINE c == ChoiceCall("refresh", u, FALSE, {})
<1>1. c.kind = "refresh"
  BY DEF ChoiceCall
<1>2. c \in With(cs, c)
  BY DEF With
<1>3. calls' = With(cs, c)
  BY DEF StartRefresh
<1> HIDE DEF c
<1> QED
  BY <1>1, <1>2, <1>3 DEF LoadingHasRefresh, InFlightOf

-----------------------------------------------------------------------------

LEMMA ChoiceSafeInit == ChoiceInit => ChoiceSafe
BY DEF ChoiceInit, ChoiceSafe, PickStands, LoadingHasRefresh

LEMMA ChoiceSafeStep == ChoiceSafe /\ [ChoiceNext]_choiceVars => ChoiceSafe'
<1> SUFFICES ASSUME PickStands, LoadingHasRefresh, [ChoiceNext]_choiceVars
             PROVE  PickStands' /\ LoadingHasRefresh'
  BY DEF ChoiceSafe
<1> USE DEF worldVars, followVars
<1>same. FetchesIn(calls)
  BY DEF FetchesIn
\* Steps that leave calls, spinner and choice alone.
<1>quiet. ASSUME UNCHANGED <<active, runtimeExplicit, picked, loadingModels, calls>>
          PROVE  PickStands' /\ LoadingHasRefresh'
  BY <1>quiet DEF PickStands, LoadingHasRefresh, InFlightOf
<1>1. CASE UNCHANGED choiceVars
  BY <1>1, <1>quiet DEF choiceVars
<1>2. ASSUME NEW u \in Endpoints, Outage(u) PROVE PickStands' /\ LoadingHasRefresh'
  BY <1>2, <1>quiet DEF Outage
<1>3. CASE SidecarFails
  BY <1>3, <1>quiet DEF SidecarFails
<1>4. CASE SelectBuiltin
  <2>1. Choose(Builtin, builtinStatus = "ready", calls) /\ picked' = Builtin
        /\ UNCHANGED loadingModels
    BY <1>4 DEF SelectBuiltin
  <2>2. FetchesIn(calls')
    BY <2>1, <1>same, ChoosingKeeps
  <2> QED
    BY <2>1, <2>2, FetchStays DEF PickStands, Choose
<1>5. ASSUME NEW u \in Endpoints, SelectDetected(u)
      PROVE  PickStands' /\ LoadingHasRefresh'
  <2>1. Choose(u, u \in seen, calls) /\ picked' = u /\ UNCHANGED loadingModels
    BY <1>5 DEF SelectDetected
  <2>2. FetchesIn(calls')
    BY <2>1, <1>same, ChoosingKeeps
  <2> QED
    BY <2>1, <2>2, FetchStays DEF PickStands, Choose
<1>6. ASSUME NEW u \in Endpoints, SaveManual(u)
      PROVE  PickStands' /\ LoadingHasRefresh'
  <2>1. FetchesIn(calls')
    BY <1>6, <1>same, WithKeeps DEF SaveManual
  <2> QED
    BY <1>6, <2>1, FetchStays DEF SaveManual, PickStands
<1>7. ASSUME NEW u \in Endpoints, NEW m \in ModelsOf[u] \cup {NoneYet}, OpenProject(u, m)
      PROVE  PickStands' /\ LoadingHasRefresh'
  <2>1. FetchesIn(calls') /\ UNCHANGED loadingModels
    BY <1>7, <1>same, WithKeeps DEF OpenProject
  <2>2. PickStands'
    BY <1>7 DEF OpenProject, PickStands
  <2> QED
    BY <2>1, <2>2, FetchStays
<1>8. CASE CloseProject
  BY <1>8, <1>quiet DEF CloseProject
<1>9. ASSUME NEW m \in models, SelectModel(m) PROVE PickStands' /\ LoadingHasRefresh'
  BY <1>9, <1>quiet DEF SelectModel
<1>10. CASE StartTick
  <2>1. FetchesIn(calls')
    BY <1>10, <1>same, WithKeeps DEF StartTick
  <2> QED
    BY <1>10, <2>1, FetchStays DEF StartTick, PickStands
<1>11. CASE StartDetection
  <2>1. FetchesIn(calls')
    BY <1>11, <1>same, WithKeeps DEF StartDetection
  <2> QED
    BY <1>11, <2>1, FetchStays DEF StartDetection, PickStands
<1>12. CASE Bootstrap
  BY <1>12, <1>quiet DEF Bootstrap
<1>13. CASE SeedStatus
  BY <1>13, <1>quiet DEF SeedStatus
<1>14. CASE Subscribe
  BY <1>14, <1>quiet DEF Subscribe
<1>15. CASE OnOtherNews
  BY <1>15, <1>quiet DEF OnOtherNews
\* The event adopts the built-in only where nothing was ever chosen.
<1>16. CASE OnReady
  <2>1. UNCHANGED <<picked, loadingModels>>
    BY <1>16 DEF OnReady
  <2>2. CASE AdoptsSlot
    <3>1. Choose(Builtin, TRUE, calls)
      BY <1>16, <2>2 DEF OnReady
    <3>2. picked = NoneYet
      BY <2>2 DEF AdoptsSlot, PickStands
    <3>3. FetchesIn(calls')
      BY <3>1, <1>same, ChoosingKeeps
    <3> QED
      BY <2>1, <3>2, <3>3, FetchStays DEF PickStands
  <2>3. CASE ~AdoptsSlot
    BY <1>16, <2>1, <2>3, <1>quiet DEF OnReady
  <2> QED
    BY <2>2, <2>3
<1>17. ASSUME NEW c \in calls, Answer(c) PROVE PickStands' /\ LoadingHasRefresh'
  <2>1. ASSUME c.kind # "refresh" PROVE FetchesIn(calls \ {c})
    BY <2>1 DEF FetchesIn
  <2>2. CASE Validated(c)
    <3>1. c.kind # "refresh" /\ UNCHANGED loadingModels
      BY <2>2 DEF Validated, InFlightOf
    <3>2. FetchesIn(calls')
      BY <2>2, <3>1, <2>1, ChoosingKeeps DEF Validated
    <3>3. LoadingHasRefresh'
      BY <3>1, <3>2, FetchStays
    <3>4. CASE Choose(c.of, TRUE, calls \ {c}) /\ picked' = c.of
      BY <3>3, <3>4 DEF PickStands, Choose
    <3>5. CASE UNCHANGED <<active, runtimeExplicit, picked>>
      BY <3>3, <3>5 DEF PickStands
    <3> QED
      BY <2>2, <3>4, <3>5 DEF Validated
  <2>3. CASE Selected(c)
    <3>1. c.kind # "refresh" /\ PickStands'
      BY <2>3 DEF Selected, InFlightOf, PickStands
    <3>2. CASE StartRefresh(c.of, calls \ {c})
      BY <3>1, <3>2, FetchBegins
    <3>3. CASE calls' = calls \ {c} /\ UNCHANGED loadingModels
      BY <3>1, <3>3, <2>1, FetchStays
    <3> QED
      BY <2>3, <3>2, <3>3 DEF Selected
  <2>4. CASE Hydrated(c)
    <3>1. c.kind # "refresh" /\ PickStands'
      BY <2>4 DEF Hydrated, InFlightOf, PickStands
    <3>2. CASE StartRefresh(c.of, calls \ {c})
      BY <3>1, <3>2, FetchBegins
    <3>3. CASE calls' = calls \ {c} /\ UNCHANGED loadingModels
      BY <3>1, <3>3, <2>1, FetchStays
    <3> QED
      BY <2>4, <3>2, <3>3 DEF Hydrated
  <2>5. CASE Refreshed(c)
    BY <2>5 DEF Refreshed, LoadingAfter, PickStands, LoadingHasRefresh
  <2>6. CASE Ticked(c)
    <3>1. c.kind # "refresh" /\ PickStands'
      BY <2>6 DEF Ticked, InFlightOf, PickStands
    <3>2. CASE StartRefresh(c.of, calls \ {c})
      BY <3>1, <3>2, FetchBegins
    <3>3. CASE calls' = calls \ {c} /\ UNCHANGED loadingModels
      BY <3>1, <3>3, <2>1, FetchStays
    <3> QED
      BY <2>6, <3>2, <3>3 DEF Ticked
  <2>7. CASE Detected(c)
    <3>1. c.kind # "refresh" /\ PickStands'
      BY <2>7 DEF Detected, InFlightOf, PickStands
    <3>2. CASE StartRefresh(active, calls \ {c})
      BY <3>1, <3>2, FetchBegins
    <3>3. CASE calls' = calls \ {c} /\ UNCHANGED loadingModels
      BY <3>1, <3>3, <2>1, FetchStays
    <3> QED
      BY <2>7, <3>2, <3>3 DEF Detected
  <2> QED
    BY <1>17, <2>2, <2>3, <2>4, <2>5, <2>6, <2>7 DEF Answer
<1> QED
  BY <1>1, <1>2, <1>3, <1>4, <1>5, <1>6, <1>7, <1>8, <1>9, <1>10, <1>11, <1>12,
     <1>13, <1>14, <1>15, <1>16, <1>17 DEF ChoiceNext, Answer

-----------------------------------------------------------------------------
(* The choice of the runtime: types.                                       *)

\* A detection reports nothing that was not probed.
GoodCalls == {c \in Calls : c.kind = "detect" => c.snap \subseteq Probed}
ChoiceTypeInv == ChoiceTypeOK /\ calls \in SUBSET GoodCalls

LEMMA CallTypes ==
  ASSUME NEW cs \in SUBSET GoodCalls, NEW kind \in CallKinds, NEW u \in Endpoints \cup {NoneYet},
         NEW flag \in BOOLEAN, NEW snap \in SUBSET Endpoints,
         kind = "detect" => snap \subseteq Probed
  PROVE  With(cs, ChoiceCall(kind, u, flag, snap)) \in SUBSET GoodCalls
BY DEF With, ChoiceCall, Calls, GoodCalls

LEMMA ChosenTypes ==
  ASSUME ChoiceTypeOK, NEW u \in Endpoints, NEW h \in BOOLEAN, NEW cs \in SUBSET GoodCalls,
         Choose(u, h, cs)
  PROVE  /\ active' \in Endpoints /\ healthy' \in BOOLEAN /\ runtimeExplicit' \in BOOLEAN
         /\ calls' \in SUBSET GoodCalls /\ selectedModel' \in Models \cup {NoneYet}
         /\ project' \in [url : Endpoints \cup {NoneYet}, model : Models \cup {NoneYet}]
<1> DEFINE added == With(cs, ChoiceCall("select", u, h, {}))
<1>1. added \in SUBSET GoodCalls
  BY CallTypes DEF CallKinds
<1>2. With(added, ChoiceCall("hydrate", u, FALSE, {})) \in SUBSET GoodCalls
  BY <1>1, CallTypes DEF CallKinds
<1>3. /\ active' = u /\ healthy' = h /\ runtimeExplicit' = TRUE /\ Configure(u, added)
  BY DEF Choose
<1> HIDE DEF added
<1>4. CASE project.url \in {NoneYet, u}
  BY <1>1, <1>3, <1>4 DEF Configure, ChoiceTypeOK
<1>5. CASE project.url \notin {NoneYet, u}
  <2>1. /\ project' = [project EXCEPT !.url = u]
        /\ calls' = With(added, ChoiceCall("hydrate", u, FALSE, {}))
        /\ selectedModel' = IF project.model = NoneYet THEN selectedModel ELSE project.model
    BY <1>3, <1>5 DEF Configure
  <2> QED
    BY <1>2, <1>3, <2>1 DEF ChoiceTypeOK
<1> QED
  BY <1>4, <1>5

LEMMA RefreshTypes ==
  ASSUME NEW cs \in SUBSET GoodCalls, NEW u \in Endpoints \cup {NoneYet}, StartRefresh(u, cs)
  PROVE  loadingModels' \in BOOLEAN /\ calls' \in SUBSET GoodCalls
BY CallTypes DEF StartRefresh, CallKinds

LEMMA ChoiceTypeInit == ChoiceInit => ChoiceTypeInv
<1> SUFFICES ASSUME ChoiceInit PROVE ChoiceTypeInv
  OBVIOUS
<1>1. <<>> \in Seq({"ready", "restarting", "failed"})
  OBVIOUS
<1>2. project \in [url : Endpoints \cup {NoneYet}, model : Models \cup {NoneYet}]
  BY DEF ChoiceInit, NoProjectOpen
<1>3. 0 \in 0 .. MaxPicks /\ 0 \in 0 .. MaxOutages /\ Placeholder \in Endpoints
  BY RuntimeChoiceConstants
<1>4. lastModel \in [Endpoints -> Models \cup {NoneYet}]
  BY DEF ChoiceInit
<1> QED
  BY <1>1, <1>2, <1>3, <1>4 DEF ChoiceInit, ChoiceTypeInv, ChoiceTypeOK

LEMMA ReconciledType ==
  ASSUME ChoiceTypeOK, NEW u \in Endpoints
  PROVE  Reconciled(u) \in Models \cup {NoneYet}
<1> DEFINE alike == {m \in ModelsOf[u] : selectedModel # NoneYet /\ Family[m] = Family[selectedModel]}
<1>1. ModelsOf[u] \subseteq Models /\ alike \subseteq Models
  BY DEF Models
<1>2. alike # {} => (CHOOSE m \in alike : TRUE) \in Models
  BY <1>1
<1>3. selectedModel \in Models \cup {NoneYet}
  BY DEF ChoiceTypeOK
<1> QED
  BY <1>1, <1>2, <1>3 DEF Reconciled

LEMMA ChoiceTypeStep == ChoiceTypeInv /\ [ChoiceNext]_choiceVars => ChoiceTypeInv'
<1> SUFFICES ASSUME ChoiceTypeOK, calls \in SUBSET GoodCalls, [ChoiceNext]_choiceVars
             PROVE  ChoiceTypeInv'
  BY DEF ChoiceTypeInv
<1> USE RuntimeChoiceConstants DEF worldVars, followVars, ChoiceTypeInv
<1>good. GoodCalls \subseteq Calls
  BY DEF GoodCalls
<1> USE <1>good
<1>pick. Pick => picks' \in 0 .. MaxPicks
  BY DEF Pick, ChoiceTypeOK
<1> USE <1>pick
<1>0. /\ calls \in SUBSET GoodCalls /\ Builtin \in Endpoints /\ Probed \subseteq Endpoints
      /\ active \in Endpoints /\ healthy \in BOOLEAN /\ seen \subseteq Probed
  BY DEF ChoiceTypeOK
<1>news. /\ sidecarNews # <<>> => Tail(sidecarNews) \in Seq({"ready", "restarting", "failed"})
         /\ \A e \in {"ready", "restarting", "failed"} :
              Append(sidecarNews, e) \in Seq({"ready", "restarting", "failed"})
  BY HeadTailProperties, AppendProperties DEF ChoiceTypeOK
<1>1. CASE UNCHANGED choiceVars
  BY <1>1 DEF choiceVars, ChoiceTypeOK
<1>2. ASSUME NEW u \in Endpoints, Outage(u) PROVE ChoiceTypeInv'
  <2>1. answers' \subseteq Endpoints /\ outages' \in 0 .. MaxOutages
    BY <1>2 DEF Outage, ChoiceTypeOK
  <2>2. sidecarNews' \in Seq({"ready", "restarting", "failed"})
    BY <1>2, <1>news DEF Outage, ChoiceTypeOK
  <2> QED
    BY <1>2, <2>1, <2>2 DEF Outage, ChoiceTypeOK
<1>3. CASE SidecarFails
  BY <1>3, <1>news DEF SidecarFails, ChoiceTypeOK
<1>4. CASE SelectBuiltin
  <2>1. Choose(Builtin, builtinStatus = "ready", calls) /\ picked' = Builtin
    BY <1>4 DEF SelectBuiltin
  <2>2. (builtinStatus = "ready") \in BOOLEAN
    OBVIOUS
  <2>3. /\ active' \in Endpoints /\ healthy' \in BOOLEAN /\ runtimeExplicit' \in BOOLEAN
        /\ calls' \in SUBSET GoodCalls /\ selectedModel' \in Models \cup {NoneYet}
        /\ project' \in [url : Endpoints \cup {NoneYet}, model : Models \cup {NoneYet}]
    BY <1>0, <2>1, <2>2, ChosenTypes
  <2> QED
    BY <1>4, <2>1, <2>3 DEF SelectBuiltin, ChoiceTypeOK
<1>5. ASSUME NEW u \in Endpoints, SelectDetected(u) PROVE ChoiceTypeInv'
  <2>1. Choose(u, u \in seen, calls) /\ picked' = u
    BY <1>5 DEF SelectDetected
  <2>2. (u \in seen) \in BOOLEAN
    OBVIOUS
  <2>3. /\ active' \in Endpoints /\ healthy' \in BOOLEAN /\ runtimeExplicit' \in BOOLEAN
        /\ calls' \in SUBSET GoodCalls /\ selectedModel' \in Models \cup {NoneYet}
        /\ project' \in [url : Endpoints \cup {NoneYet}, model : Models \cup {NoneYet}]
    BY <1>0, <2>1, <2>2, ChosenTypes
  <2> QED
    BY <1>5, <2>1, <2>3 DEF SelectDetected, ChoiceTypeOK
<1>6. ASSUME NEW u \in Endpoints, SaveManual(u) PROVE ChoiceTypeInv'
  <2>1. PICK edit \in BOOLEAN :
          calls' = With(calls, ChoiceCall("validate", u, edit, IF edit THEN {active} ELSE {}))
    BY <1>6 DEF SaveManual
  <2>2. (IF edit THEN {active} ELSE {}) \in SUBSET Endpoints
    BY <1>0
  <2>3. calls' \in SUBSET GoodCalls
    BY <1>0, <2>1, <2>2, CallTypes DEF CallKinds
  <2>4. /\ Pick
        /\ UNCHANGED <<worldVars, sidecarNews, boot, builtinStatus, builtinPort, seen,
                       active, healthy, runtimeExplicit, models, loadingModels,
                       selectedModel, lastModel, project, picked>>
    BY <1>6 DEF SaveManual
  <2> QED
    BY <2>3, <2>4 DEF ChoiceTypeOK
<1>7. ASSUME NEW u \in Endpoints, NEW m \in ModelsOf[u] \cup {NoneYet}, OpenProject(u, m)
      PROVE  ChoiceTypeInv'
  <2>1. m \in Models \cup {NoneYet}
    BY DEF Models
  <2>2. With(calls, ChoiceCall("hydrate", u, FALSE, {})) \in SUBSET GoodCalls
    BY <1>0, CallTypes DEF CallKinds
  <2>3. project' \in [url : Endpoints \cup {NoneYet}, model : Models \cup {NoneYet}]
    BY <1>7, <2>1 DEF OpenProject
  <2>4. /\ active' \in Endpoints /\ runtimeExplicit' \in BOOLEAN
        /\ picked' \in Endpoints \cup {NoneYet} /\ calls' \in SUBSET GoodCalls
        /\ selectedModel' \in Models \cup {NoneYet}
    BY <1>0, <1>7, <2>1, <2>2 DEF OpenProject, ChoiceTypeOK
  <2>5. /\ Pick
        /\ UNCHANGED <<worldVars, sidecarNews, boot, builtinStatus, builtinPort, seen,
                       healthy, models, loadingModels, lastModel>>
    BY <1>7 DEF OpenProject
  <2> QED
    BY <2>3, <2>4, <2>5 DEF ChoiceTypeOK
<1>8. CASE CloseProject
  BY <1>8 DEF CloseProject, NoProjectOpen, ChoiceTypeOK
<1>9. ASSUME NEW m \in models, SelectModel(m) PROVE ChoiceTypeInv'
  BY <1>9 DEF SelectModel, ChoiceTypeOK
<1>10. CASE StartTick
  <2>1. calls' \in SUBSET GoodCalls
    BY <1>0, <1>10, CallTypes DEF StartTick, CallKinds
  <2> QED
    BY <1>10, <2>1 DEF StartTick, ChoiceTypeOK
<1>11. CASE StartDetection
  <2>1. ProbedNow \in SUBSET Endpoints /\ ProbedNow \subseteq Probed
    BY DEF ProbedNow
  <2>2. calls' \in SUBSET GoodCalls
    BY <1>0, <1>11, <2>1, CallTypes DEF StartDetection, CallKinds
  <2> QED
    BY <1>11, <2>2 DEF StartDetection, ChoiceTypeOK
<1>12. CASE Bootstrap \/ SeedStatus \/ Subscribe
  <2>1. (Builtin \in answers) \in BOOLEAN
    OBVIOUS
  <2>2. builtinPort' = (Builtin \in answers) \/ builtinPort' = builtinPort
    BY <1>12 DEF Bootstrap, SeedStatus, Subscribe
  <2>3. builtinPort' \in BOOLEAN
    BY <2>1, <2>2 DEF ChoiceTypeOK
  <2> QED
    BY <1>12, <2>3 DEF Bootstrap, SeedStatus, Subscribe, ChoiceTypeOK
<1>13. CASE OnOtherNews
  BY <1>13, <1>news DEF OnOtherNews, ChoiceTypeOK
<1>14. CASE OnReady
  <2>1. /\ active' \in Endpoints /\ healthy' \in BOOLEAN /\ runtimeExplicit' \in BOOLEAN
        /\ calls' \in SUBSET GoodCalls /\ selectedModel' \in Models \cup {NoneYet}
        /\ project' \in [url : Endpoints \cup {NoneYet}, model : Models \cup {NoneYet}]
    <3>1. CASE AdoptsSlot
      <4>1. Choose(Builtin, TRUE, calls)
        BY <1>14, <3>1 DEF OnReady
      <4> QED
        BY <1>0, <4>1, ChosenTypes
    <3>2. CASE ~AdoptsSlot
      BY <1>14, <3>2 DEF OnReady, ChoiceTypeOK
    <3> QED
      BY <3>1, <3>2
  <2> QED
    BY <1>14, <1>news, <2>1 DEF OnReady, ChoiceTypeOK
<1>15. ASSUME NEW c \in calls, Answer(c) PROVE ChoiceTypeInv'
  <2>0. /\ c.of \in Endpoints \cup {NoneYet} /\ c.snap \in SUBSET Endpoints
        /\ calls \ {c} \in SUBSET GoodCalls
    BY <1>0 DEF Calls, GoodCalls
  <2>1. CASE Validated(c)
    <3>1. /\ active' \in Endpoints /\ healthy' \in BOOLEAN /\ runtimeExplicit' \in BOOLEAN
          /\ calls' \in SUBSET GoodCalls /\ selectedModel' \in Models \cup {NoneYet}
          /\ project' \in [url : Endpoints \cup {NoneYet}, model : Models \cup {NoneYet}]
          /\ picked' \in Endpoints \cup {NoneYet}
      <4>1. CASE c.of \in answers /\ (c.flag => active \in c.snap)
        <5>1. c.of \in Endpoints /\ Choose(c.of, TRUE, calls \ {c}) /\ picked' = c.of
          BY <2>1, <4>1 DEF Validated, ChoiceTypeOK
        <5> QED
          BY <2>0, <5>1, ChosenTypes
      <4>2. CASE ~(c.of \in answers /\ (c.flag => active \in c.snap))
        BY <2>0, <2>1, <4>2 DEF Validated, ChoiceTypeOK
      <4> QED
        BY <4>1, <4>2
    <3> QED
      BY <2>1, <3>1 DEF Validated, ChoiceTypeOK
  <2>2. ASSUME StartRefresh(c.of, calls \ {c}) \/ StartRefresh(active, calls \ {c})
                 \/ (calls' = calls \ {c} /\ UNCHANGED loadingModels)
        PROVE  loadingModels' \in BOOLEAN /\ calls' \in SUBSET GoodCalls
    BY <1>0, <2>0, <2>2, RefreshTypes DEF ChoiceTypeOK
  <2>3. CASE Selected(c)
    <3>1. loadingModels' \in BOOLEAN /\ calls' \in SUBSET GoodCalls
      BY <2>2, <2>3 DEF Selected
    <3> QED
      BY <2>3, <3>1 DEF Selected, ChoiceTypeOK
  <2>4. CASE Hydrated(c)
    <3>1. loadingModels' \in BOOLEAN /\ calls' \in SUBSET GoodCalls
      BY <2>2, <2>4 DEF Hydrated
    <3> QED
      BY <2>4, <3>1 DEF Hydrated, ChoiceTypeOK
  <2>5. CASE Refreshed(c)
    <3>1. CASE c.of \in answers
      <4>1. c.of \in Endpoints /\ ModelsOf[c.of] \subseteq Models
        BY <3>1 DEF ChoiceTypeOK, Models
      <4>2. PICK next \in Models \cup {NoneYet} : next = Reconciled(c.of)
        BY <4>1, ReconciledType
      <4>3. /\ models' = ModelsOf[c.of] /\ selectedModel' = next
            /\ lastModel' = IF next = NoneYet THEN lastModel ELSE [lastModel EXCEPT ![c.of] = next]
            /\ project' = IF next \in {NoneYet, selectedModel} \/ project.url = NoneYet
                          THEN project ELSE [project EXCEPT !.model = next]
        BY <2>5, <3>1, <4>2 DEF Refreshed
      <4>4. lastModel' \in [Endpoints -> Models \cup {NoneYet}]
        BY <4>1, <4>3 DEF ChoiceTypeOK
      <4>5. project' \in [url : Endpoints \cup {NoneYet}, model : Models \cup {NoneYet}]
        BY <4>3 DEF ChoiceTypeOK
      <4> QED
        BY <2>0, <2>5, <4>1, <4>3, <4>4, <4>5 DEF Refreshed, LoadingAfter, ChoiceTypeOK
    <3>2. CASE c.of \notin answers
      BY <2>0, <2>5, <3>2 DEF Refreshed, LoadingAfter, ChoiceTypeOK
    <3> QED
      BY <3>1, <3>2
  <2>6. CASE Ticked(c)
    <3>1. loadingModels' \in BOOLEAN /\ calls' \in SUBSET GoodCalls
      BY <2>2, <2>6 DEF Ticked
    <3>2. healthy' \in BOOLEAN
      <4>1. (c.of \in answers) \in BOOLEAN
        OBVIOUS
      <4>2. healthy' = (c.of \in answers) \/ healthy' = healthy
        BY <2>6 DEF Ticked
      <4> QED
        BY <1>0, <4>1, <4>2
    <3> QED
      BY <2>6, <3>1, <3>2 DEF Ticked, ChoiceTypeOK
  <2>7. CASE Detected(c)
    <3>1. loadingModels' \in BOOLEAN /\ calls' \in SUBSET GoodCalls
      BY <2>2, <2>7 DEF Detected
    <3>2. healthy' \in BOOLEAN
      <4>1. (active \in c.snap) \in BOOLEAN
        OBVIOUS
      <4>2. healthy' = (active \in c.snap) \/ healthy' = healthy
        BY <2>7 DEF Detected
      <4> QED
        BY <1>0, <4>1, <4>2
    <3>3. models' = {} \/ models' = models
      BY <2>7 DEF Detected
    <3>4. c.snap \subseteq Probed
      BY <2>7 DEF Detected, InFlightOf, GoodCalls
    <3> QED
      BY <2>7, <3>1, <3>2, <3>3, <3>4 DEF Detected, ChoiceTypeOK
  <2> QED
    BY <1>15, <2>1, <2>3, <2>4, <2>5, <2>6, <2>7 DEF Answer
<1> QED
  BY <1>1, <1>2, <1>3, <1>4, <1>5, <1>6, <1>7, <1>8, <1>9, <1>10, <1>11, <1>12,
     <1>13, <1>14, <1>15 DEF ChoiceNext, Answer

-----------------------------------------------------------------------------
(* The dev server.                                                         *)

\* What the store shows as running was launched; and an automatic restart since
\* the user's last gesture is one that was noted as tried.
RunningWasLaunched == view.status = "running" => view.runSeq \in Launches
HealedOnce == healed = IF view.attempted THEN 1 ELSE 0
HaltsCounted == halting["stop"] + halting["reset"] + halting["resetReply"] <= upsets

DevInv == DevTypeOK /\ HaltsCounted /\ RunningWasLaunched /\ HealedOnce /\ DevSafe

LEMMA DevInvInit == DevInit => DevInv
<1> SUFFICES ASSUME DevInit PROVE DevInv
  OBVIOUS
<1> USE DevServerConstants DEF DevInit
<1>1. Blank \in View
  BY DEF Blank, View, Statuses
<1>2. DevTypeOK
  BY <1>1 DEF DevTypeOK, StartPhases, ServerPhases
<1>3. HaltsCounted /\ RunningWasLaunched /\ HealedOnce /\ NoLostServer /\ RunningHasServer /\ NoHealingLoop
  BY DEF Blank, HaltsCounted, RunningWasLaunched, HealedOnce, NoLostServer, RunningHasServer, NoHealingLoop
<1> QED
  BY <1>2, <1>3 DEF DevInv, DevSafe

\* The fields of the store.
LEMMA ViewFields ==
  ASSUME DevTypeOK
  PROVE  /\ view.status \in Statuses /\ view.runSeq \in 0 .. MaxServers /\ view.conflict \in BOOLEAN
         /\ view.busyPort \in BOOLEAN /\ view.attempted \in BOOLEAN /\ view.stopping \in BOOLEAN
         /\ view.project \in BOOLEAN
BY DEF DevTypeOK, View

Event == {"conflict", "zero", "nonzero"} \X Launches

\* The news that launch k has ended is on its way.
EndOf(k) == {<<"zero", k>>, <<"nonzero", k>>}
EndComing(k) == \E i \in 1 .. Len(devEvents) : devEvents[i] \in EndOf(k)

LEMMA EventsRead ==
  ASSUME DevTypeOK, devEvents # <<>>, devEvents' = Tail(devEvents)
  PROVE  /\ devEvents' \in Seq(Event)
         /\ \A k : EndComing(k) /\ Head(devEvents)[1] = "conflict" => EndComing(k)'
<1>1. /\ devEvents \in Seq(Event) /\ devEvents' \in Seq(Event)
      /\ Len(devEvents) \in Nat /\ Len(devEvents') = Len(devEvents) - 1
      /\ Head(devEvents) = devEvents[1]
      /\ \A i \in 1 .. Len(devEvents') : devEvents'[i] = devEvents[i + 1]
  BY HeadTailProperties, LenProperties DEF DevTypeOK, Event
<1>2. ASSUME NEW k, EndComing(k), Head(devEvents)[1] = "conflict" PROVE EndComing(k)'
  <2>1. PICK i \in 1 .. Len(devEvents) : devEvents[i] \in EndOf(k)
    BY <1>2 DEF EndComing
  <2>2. i # 1
    BY <1>1, <1>2, <2>1 DEF EndOf
  <2>3. i - 1 \in 1 .. Len(devEvents') /\ devEvents'[i - 1] = devEvents[i]
    BY <1>1, <2>2
  <2> QED
    BY <2>1, <2>3 DEF EndComing, EndOf
<1> QED
  BY <1>1, <1>2

LEMMA EventsSent ==
  ASSUME DevTypeOK, NEW e \in Event, devEvents' = Append(devEvents, e)
  PROVE  /\ devEvents' \in Seq(Event)
         /\ \A k : EndComing(k) \/ e \in EndOf(k) => EndComing(k)'
<1>1. /\ devEvents \in Seq(Event) /\ devEvents' \in Seq(Event)
      /\ Len(devEvents) \in Nat /\ Len(devEvents') = Len(devEvents) + 1
      /\ \A i \in 1 .. Len(devEvents) : devEvents'[i] = devEvents[i]
      /\ devEvents'[Len(devEvents) + 1] = e
  BY AppendProperties, LenProperties DEF DevTypeOK, Event
<1>2. ASSUME NEW k, EndComing(k) PROVE EndComing(k)'
  BY <1>1, <1>2 DEF EndComing, EndOf
<1>3. ASSUME NEW k, e \in EndOf(k) PROVE EndComing(k)'
  BY <1>1, <1>3 DEF EndComing, EndOf
<1> QED
  BY <1>1, <1>2, <1>3

\* What is shown as running, in the words of this module.
LEMMA Running ==
  RunningHasServer <=>
    (view.status = "running" =>
       \/ starting[view.runSeq] \in {"called", "replacing", "failed"}
       \/ server[view.runSeq] \in {"up", "exited", "crashed"}
       \/ EndComing(view.runSeq))
BY DEF RunningHasServer, EndComing, EndOf

\* Steps of the store that show nothing new as running.
LEMMA StoreStep ==
  ASSUME DevInv, DevTypeOK', UNCHANGED <<backendVars, starting>>, HealedOnce', HaltsCounted',
         \/ view'.status # "running"
         \/ /\ view'.status = view.status /\ view'.runSeq = view.runSeq
            /\ \A k : EndComing(k) => EndComing(k)'
  PROVE  DevInv'
<1>1. NoLostServer'
  BY DEF DevInv, DevSafe, NoLostServer, backendVars
<1>2. RunningWasLaunched'
  BY DEF DevInv, RunningWasLaunched
<1>3. RunningHasServer'
  <2>1. CASE view'.status # "running"
    BY <2>1 DEF RunningHasServer
  <2>2. CASE view'.status = view.status /\ view'.runSeq = view.runSeq /\ view.status = "running"
             /\ \A k : EndComing(k) => EndComing(k)'
    <3>1. \/ starting[view.runSeq] \in {"called", "replacing", "failed"}
          \/ server[view.runSeq] \in {"up", "exited", "crashed"}
          \/ EndComing(view.runSeq)
      BY <2>2, Running DEF DevInv, DevSafe
    <3>2. CASE EndComing(view.runSeq)
      <4>1. EndComing(view.runSeq)'
        BY <2>2, <3>2 DEF EndComing
      <4> QED
        BY <4>1 DEF RunningHasServer, EndComing, EndOf
    <3>3. CASE ~EndComing(view.runSeq)
      BY <2>2, <3>1, <3>3 DEF RunningHasServer, backendVars
    <3> QED
      BY <3>2, <3>3
  <2> QED
    BY <2>1, <2>2
<1>4. NoHealingLoop'
  BY DEF HealedOnce, NoHealingLoop
<1> QED
  BY <1>1, <1>2, <1>3, <1>4 DEF DevInv, DevSafe

\* Steps of the backend: launches and servers that were on their way stay so or
\* send the news.
LEMMA BackendDevStep ==
  ASSUME DevInv, DevTypeOK', UNCHANGED devStoreVars, NoLostServer', HaltsCounted',
         \A k \in Launches :
           /\ starting[k] \in {"called", "replacing", "failed"} =>
                \/ starting'[k] \in {"called", "replacing", "failed"}
                \/ server'[k] = "up"
           /\ server[k] \in {"up", "exited", "crashed"} =>
                server'[k] \in {"up", "exited", "crashed"} \/ EndComing(k)'
           /\ EndComing(k) => EndComing(k)'
  PROVE  DevInv'
<1>1. RunningWasLaunched' /\ HealedOnce' /\ NoHealingLoop'
  BY DEF DevInv, DevSafe, RunningWasLaunched, HealedOnce, NoHealingLoop, devStoreVars
<1>2. RunningHasServer'
  <2>1. SUFFICES ASSUME view.status = "running" PROVE RunningHasServer'
    BY DEF RunningHasServer, devStoreVars
  <2>2. PICK k \in Launches : k = view.runSeq
    BY <2>1 DEF DevInv, RunningWasLaunched
  <2>3. \/ starting[k] \in {"called", "replacing", "failed"}
        \/ server[k] \in {"up", "exited", "crashed"}
        \/ EndComing(k)
    BY <2>1, <2>2, Running DEF DevInv, DevSafe
  <2>4. \/ starting'[k] \in {"called", "replacing", "failed"}
        \/ server'[k] \in {"up", "exited", "crashed"}
        \/ EndComing(k)'
    BY <2>3
  <2>5. view'.runSeq = k
    BY <2>2 DEF devStoreVars
  <2> QED
    BY <2>4, <2>5 DEF RunningHasServer, EndComing, EndOf
<1> QED
  BY <1>1, <1>2 DEF DevInv, DevSafe

LEMMA StartStep ==
  ASSUME DevInv, NEW fromRecovery \in BOOLEAN, StartInternal(fromRecovery),
         UNCHANGED <<backendVars, devEvents, halting, graces, upsets>>,
         clicks' \in 0 .. MaxServers, freeing' \in [{"auto", "manual"} -> Nat]
  PROVE  DevInv'
<1> USE DevServerConstants
<1>t. DevTypeOK /\ HealedOnce /\ NoLostServer
  BY DEF DevInv, DevSafe
<1>f. /\ view.status \in Statuses /\ view.runSeq \in 0 .. MaxServers /\ view.attempted \in BOOLEAN
  BY <1>t, ViewFields
<1>1. view.runSeq + 1 \in Launches /\ MaxServers \in Nat
  BY <1>f DEF StartInternal, Launches
<1>2. /\ view'.status = "running" /\ view'.runSeq = view.runSeq + 1
      /\ view'.attempted = (fromRecovery /\ view.attempted)
  BY <1>t DEF StartInternal, DevTypeOK, View
<1>3. view' \in View
  <2>1. (fromRecovery /\ view.attempted) \in BOOLEAN /\ "running" \in Statuses
    BY DEF Statuses
  <2>2. view.runSeq + 1 \in 0 .. MaxServers
    BY <1>1 DEF Launches
  <2> QED
    BY <1>t, <2>1, <2>2 DEF StartInternal, DevTypeOK, View
<1>4. starting' = [starting EXCEPT ![view.runSeq + 1] = "called"]
  BY DEF StartInternal
<1>5. healed' \in Nat
  BY <1>t DEF StartInternal, DevTypeOK
<1>6. DevTypeOK'
  BY <1>t, <1>1, <1>3, <1>4, <1>5 DEF DevTypeOK, backendVars, StartPhases
<1>7. HealedOnce'
  BY <1>t, <1>2 DEF HealedOnce, StartInternal
<1>8. NoLostServer' /\ RunningWasLaunched' /\ NoHealingLoop' /\ HaltsCounted'
  BY <1>t, <1>1, <1>2, <1>7 DEF DevInv, HaltsCounted, NoLostServer, backendVars, RunningWasLaunched, HealedOnce, NoHealingLoop
<1>9. RunningHasServer'
  <2>1. starting'[view'.runSeq] = "called"
    BY <1>t, <1>1, <1>2, <1>4 DEF DevTypeOK
  <2> QED
    BY <2>1 DEF RunningHasServer
<1> QED
  BY <1>6, <1>7, <1>8, <1>9 DEF DevInv, DevSafe

LEMMA RecoveryStep ==
  ASSUME DevInv, Healable, BeginRecovery
  PROVE  /\ view' \in View /\ view'.status = "recovering" /\ HealedOnce'
         /\ freeing' \in [{"auto", "manual"} -> Nat] /\ healed' \in Nat
<1>1. DevTypeOK /\ HealedOnce
  BY DEF DevInv
<1>2. view' \in View /\ view'.status = "recovering" /\ view'.attempted = TRUE
  BY <1>1 DEF BeginRecovery, DevTypeOK, View, Statuses
<1>3. healed = 0 /\ healed' = 1
  BY <1>1 DEF Healable, HealedOnce, BeginRecovery
<1>4. freeing' \in [{"auto", "manual"} -> Nat]
  BY <1>1 DEF BeginRecovery, DevTypeOK
<1> QED
  BY <1>2, <1>3, <1>4 DEF HealedOnce

\* A view whose status or flags change stays one, and nothing else in it changes.
LEMMA ViewUpdates ==
  ASSUME NEW v \in View, NEW st \in Statuses,
         NEW w, w = [v EXCEPT !.status = st] \/ w = [v EXCEPT !.stopping = FALSE, !.status = st]
  PROVE  w \in View /\ w.status = st /\ w.attempted = v.attempted
BY DEF View

LEMMA ViewReleased ==
  ASSUME NEW v \in View, NEW st \in Statuses
  PROVE  LET w == [v EXCEPT !.attempted = FALSE, !.status = st]
         IN  w \in View /\ w.status = st /\ w.attempted = FALSE
BY DEF View

LEMMA ViewFlags ==
  ASSUME NEW v \in View,
         NEW w \in {[v EXCEPT !.stopping = TRUE], [v EXCEPT !.busyPort = FALSE],
                   [v EXCEPT !.conflict = TRUE, !.busyPort = TRUE]}
  PROVE  w \in View /\ w.status = v.status /\ w.runSeq = v.runSeq /\ w.attempted = v.attempted
BY DEF View

LEMMA ViewWiped ==
  ASSUME NEW v \in View
  PROVE  LET w == [Blank EXCEPT !.runSeq = v.runSeq]
         IN  w \in View /\ w.status = "idle" /\ w.attempted = FALSE
BY DEF View, Blank, Statuses

LEMMA Halts ==
  ASSUME DevTypeOK, HaltsCounted, NEW kind \in {"stop", "reset"},
         \/ Upset /\ halting' = [halting EXCEPT ![kind] = @ + 1]
         \/ StopDevServer(kind) /\ UNCHANGED upsets
  PROVE  /\ halting' \in [{"stop", "reset", "resetReply"} -> 0 .. MaxUpsets]
         /\ upsets' \in 0 .. MaxUpsets /\ HaltsCounted'
<1> USE DevServerConstants
<1> DEFINE s == halting["stop"]
           r == halting["reset"]
           p == halting["resetReply"]
<1>1. /\ s \in 0 .. MaxUpsets /\ r \in 0 .. MaxUpsets /\ p \in 0 .. MaxUpsets
      /\ upsets \in 0 .. MaxUpsets /\ s + r + p <= upsets
      /\ halting \in [{"stop", "reset", "resetReply"} -> 0 .. MaxUpsets]
  BY DEF DevTypeOK, HaltsCounted
<1>2. CASE Upset /\ halting' = [halting EXCEPT ![kind] = @ + 1]
  <2>1. upsets' \in 0 .. MaxUpsets /\ upsets' = upsets + 1
    BY <1>1, <1>2 DEF Upset
  <2>2. CASE kind = "stop"
    <3>1. halting' = [halting EXCEPT !["stop"] = s + 1]
      BY <1>2, <2>2
    <3>2. halting'["stop"] = s + 1 /\ halting'["reset"] = r /\ halting'["resetReply"] = p
      BY <1>1, <3>1
    <3>3. s + 1 \in 0 .. MaxUpsets
      BY <1>1, <2>1
    <3> QED
      BY <1>1, <2>1, <3>1, <3>2, <3>3 DEF HaltsCounted
  <2>3. CASE kind = "reset"
    <3>1. halting' = [halting EXCEPT !["reset"] = r + 1]
      BY <1>2, <2>3
    <3>2. halting'["stop"] = s /\ halting'["reset"] = r + 1 /\ halting'["resetReply"] = p
      BY <1>1, <3>1
    <3>3. r + 1 \in 0 .. MaxUpsets
      BY <1>1, <2>1
    <3> QED
      BY <1>1, <2>1, <3>1, <3>2, <3>3 DEF HaltsCounted
  <2> QED
    BY <2>2, <2>3
<1>3. CASE StopDevServer(kind) /\ UNCHANGED upsets
  <2>1. CASE kind = "stop"
    <3>1. halting' = [halting EXCEPT !["stop"] = s - 1] /\ s > 0
      BY <1>3, <2>1 DEF StopDevServer
    <3>2. halting'["stop"] = s - 1 /\ halting'["reset"] = r /\ halting'["resetReply"] = p
      BY <1>1, <3>1
    <3>3. s - 1 \in 0 .. MaxUpsets
      BY <1>1, <3>1
    <3> QED
      BY <1>1, <1>3, <3>1, <3>2, <3>3 DEF HaltsCounted
  <2>2. CASE kind = "reset"
    <3>1. halting' = [halting EXCEPT !["reset"] = r - 1, !["resetReply"] = p + 1] /\ r > 0
      BY <1>3, <2>2 DEF StopDevServer
    <3>2. halting'["stop"] = s /\ halting'["reset"] = r - 1 /\ halting'["resetReply"] = p + 1
      BY <1>1, <3>1
    <3>3. r - 1 \in 0 .. MaxUpsets /\ p + 1 \in 0 .. MaxUpsets
      BY <1>1, <3>1
    <3> QED
      BY <1>1, <1>3, <3>1, <3>2, <3>3 DEF HaltsCounted
  <2> QED
    BY <2>1, <2>2
<1> QED
  BY <1>2, <1>3

LEMMA StoreSteps ==
  ASSUME DevInv,
         \/ Click \/ FreePortAndRestart \/ StopDev \/ ResetDev \/ ResetEnds \/ ClearLog
         \/ OnConflict \/ OnDone \/ \E n \in 0 .. MaxServers : GraceEnds(n)
  PROVE  DevInv'
<1> USE DevServerConstants
<1>t. DevTypeOK /\ HealedOnce /\ HaltsCounted
  BY DEF DevInv
<1>f. /\ view.status \in Statuses /\ view.runSeq \in 0 .. MaxServers /\ view.attempted \in BOOLEAN
  BY <1>t, ViewFields
<1>v. view \in View /\ {"idle", "running", "recovering", "exited", "failed"} \subseteq Statuses
  BY <1>t DEF DevTypeOK, Statuses
<1>h. /\ \A k \in {"stop", "reset", "resetReply"} : halting[k] \in 0 .. MaxUpsets
      /\ upsets \in 0 .. MaxUpsets
  BY <1>t DEF DevTypeOK
<1>1. CASE Click
  <2>1. DevTypeOK'
    BY <1>1, <1>t, <1>f DEF Click, DevTypeOK, backendVars
  <2> QED
    BY <1>1, <1>t, <2>1, StoreStep DEF Click, HealedOnce, HaltsCounted, EndComing
<1>2. CASE FreePortAndRestart
  <2>1. view' \in View /\ view'.status = "recovering" /\ view'.attempted = FALSE
    BY <1>2, <1>v, ViewReleased DEF FreePortAndRestart
  <2>2. DevTypeOK'
    BY <1>2, <1>t, <1>h, <2>1 DEF FreePortAndRestart, Upset, DevTypeOK, backendVars
  <2> QED
    BY <1>2, <1>t, <1>h, <2>1, <2>2, StoreStep DEF FreePortAndRestart, Upset, HealedOnce, HaltsCounted
<1>3. CASE StopDev
  <2>1. /\ view' \in View /\ view'.status = view.status /\ view'.runSeq = view.runSeq
        /\ view'.attempted = view.attempted
    BY <1>3, <1>v, ViewFlags DEF StopDev
  <2>2. DevTypeOK' /\ HaltsCounted'
    BY <1>3, <1>t, <2>1, Halts DEF StopDev, DevTypeOK, backendVars
  <2> QED
    BY <1>3, <1>t, <2>1, <2>2, StoreStep DEF StopDev, HealedOnce, EndComing
<1>4. CASE ResetDev
  <2>1. CASE BusyView
    <3>1. /\ view' \in View /\ view'.status = view.status /\ view'.runSeq = view.runSeq
          /\ view'.attempted = view.attempted
      BY <1>4, <1>v, <2>1, ViewFlags DEF ResetDev
    <3>2. DevTypeOK' /\ HaltsCounted'
      BY <1>4, <1>t, <2>1, <3>1, Halts DEF ResetDev, DevTypeOK, backendVars
    <3> QED
      BY <1>4, <1>t, <2>1, <3>1, <3>2, StoreStep DEF ResetDev, HealedOnce, EndComing
  <2>2. CASE ~BusyView
    <3>1. view' \in View /\ view'.status = "idle" /\ view'.attempted = FALSE
      BY <1>4, <1>v, <2>2, ViewWiped DEF ResetDev, Wipe
    <3>2. DevTypeOK' /\ HaltsCounted' /\ HealedOnce'
      BY <1>4, <1>t, <1>h, <2>2, <3>1
         DEF ResetDev, Wipe, Upset, DevTypeOK, HaltsCounted, HealedOnce, backendVars
    <3> QED
      BY <1>4, <2>2, <3>1, <3>2, StoreStep DEF ResetDev
  <2> QED
    BY <2>1, <2>2
<1>5. CASE ResetEnds
  <2>1. view' \in View /\ view'.status = "idle" /\ view'.attempted = FALSE
    BY <1>5, <1>v, ViewWiped DEF ResetEnds, Wipe
  <2>2. DevTypeOK' /\ HaltsCounted' /\ HealedOnce'
    BY <1>5, <1>t, <1>h, <2>1 DEF ResetEnds, Wipe, DevTypeOK, HaltsCounted, HealedOnce, backendVars
  <2> QED
    BY <1>5, <2>1, <2>2, StoreStep DEF ResetEnds
<1>6. CASE ClearLog
  <2>1. /\ view' \in View /\ view'.status = view.status /\ view'.runSeq = view.runSeq
        /\ view'.attempted = view.attempted
    BY <1>6, <1>v, ViewFlags DEF ClearLog
  <2>2. DevTypeOK'
    BY <1>6, <1>t, <2>1 DEF ClearLog, DevTypeOK, backendVars
  <2> QED
    BY <1>6, <1>t, <2>1, <2>2, StoreStep DEF ClearLog, HealedOnce, HaltsCounted, EndComing
<1>7. CASE OnConflict
  <2>1. /\ view' \in View /\ view'.status = view.status /\ view'.runSeq = view.runSeq
        /\ view'.attempted = view.attempted
    BY <1>7, <1>v, ViewFlags DEF OnConflict
  <2>2. devEvents' \in Seq(Event) /\ \A k : EndComing(k) => EndComing(k)'
    BY <1>7, <1>t, EventsRead DEF OnConflict
  <2>3. DevTypeOK'
    BY <1>7, <1>t, <2>1, <2>2 DEF OnConflict, DevTypeOK, backendVars, Event
  <2> QED
    BY <1>7, <1>t, <2>1, <2>2, <2>3, StoreStep DEF OnConflict, HealedOnce, HaltsCounted
\* Whatever ended is no longer shown as running.
<1>8. CASE OnDone
  <2>0. devEvents' \in Seq(Event)
    BY <1>8, <1>t, EventsRead DEF OnDone
  <2>1. CASE /\ \/ view' = [view EXCEPT !.stopping = FALSE, !.status = "exited"]
                \/ view' = [view EXCEPT !.status = "exited"]
                \/ view' = [view EXCEPT !.status = "failed"]
             /\ graces' \in {graces, graces \cup {view.runSeq}}
             /\ UNCHANGED <<freeing, healed>>
    <3>1. view' \in View /\ view'.status # "running" /\ view'.attempted = view.attempted
      <4>1. PICK st \in {"exited", "failed"} :
              \/ view' = [view EXCEPT !.status = st]
              \/ view' = [view EXCEPT !.stopping = FALSE, !.status = st]
        BY <2>1
      <4>2. st \in Statuses /\ st # "running"
        BY <1>v
      <4>3. view' \in View /\ view'.status = st /\ view'.attempted = view.attempted
        BY <1>v, <4>1, <4>2, ViewUpdates
      <4> QED
        BY <4>2, <4>3
    <3>2. DevTypeOK'
      BY <1>8, <1>t, <1>f, <2>0, <2>1, <3>1 DEF OnDone, DevTypeOK, backendVars, Event
    <3> QED
      BY <1>8, <1>t, <2>1, <3>1, <3>2, StoreStep DEF OnDone, HealedOnce, HaltsCounted
  <2>2. CASE Healable /\ BeginRecovery /\ UNCHANGED graces
    <3>1. /\ view' \in View /\ view'.status = "recovering" /\ HealedOnce'
          /\ freeing' \in [{"auto", "manual"} -> Nat] /\ healed' \in Nat
      BY <2>2, RecoveryStep
    <3>2. DevTypeOK'
      BY <1>8, <1>t, <2>0, <2>2, <3>1 DEF OnDone, DevTypeOK, backendVars, Event
    <3> QED
      BY <1>8, <1>t, <3>1, <3>2, StoreStep DEF OnDone, HaltsCounted
  <2> QED
    BY <1>8, <2>1, <2>2 DEF OnDone
<1>9. ASSUME NEW n \in 0 .. MaxServers, GraceEnds(n) PROVE DevInv'
  <2>1. CASE BeginRecovery /\ Healable
    <3>1. /\ view' \in View /\ view'.status = "recovering" /\ HealedOnce'
          /\ freeing' \in [{"auto", "manual"} -> Nat] /\ healed' \in Nat
      BY <2>1, RecoveryStep
    <3>2. DevTypeOK'
      BY <1>9, <1>t, <3>1 DEF GraceEnds, DevTypeOK, backendVars
    <3> QED
      BY <1>9, <1>t, <3>1, <3>2, StoreStep DEF GraceEnds, HaltsCounted
  <2>2. CASE UNCHANGED <<freeing, view, healed>>
    <3>1. DevTypeOK'
      BY <1>9, <1>t, <2>2 DEF GraceEnds, DevTypeOK, backendVars
    <3> QED
      BY <1>9, <1>t, <2>2, <3>1, StoreStep DEF GraceEnds, HealedOnce, HaltsCounted, EndComing
  <2> QED
    BY <1>9, <2>1, <2>2 DEF GraceEnds
<1> QED
  BY <1>1, <1>2, <1>3, <1>4, <1>5, <1>6, <1>7, <1>8, <1>9

LEMMA DevInvStep == DevInv /\ [DevNext]_devVars => DevInv'
<1> SUFFICES ASSUME DevInv, [DevNext]_devVars PROVE DevInv'
  OBVIOUS
<1> USE DevServerConstants
<1>t. DevTypeOK /\ HealedOnce /\ HaltsCounted /\ NoLostServer
  BY DEF DevInv, DevSafe
<1>f. view.runSeq \in 0 .. MaxServers
  BY <1>t, ViewFields
<1>told. Resolved(killSlot) \in SUBSET Launches /\ told \subseteq Resolved(killSlot)
         /\ \A k \in Launches : killSlot = k => k \in Resolved(killSlot)
  BY <1>t DEF Resolved, DevTypeOK, Launches
<1>h. /\ \A k \in {"stop", "reset", "resetReply"} : halting[k] \in 0 .. MaxUpsets
      /\ upsets \in 0 .. MaxUpsets
  BY <1>t DEF DevTypeOK
<1>1. CASE UNCHANGED devVars
  <2>1. DevTypeOK'
    BY <1>1, <1>t DEF devVars, DevTypeOK
  <2> QED
    BY <1>1, <1>t, <2>1, StoreStep DEF devVars, backendVars, HealedOnce, HaltsCounted, EndComing
<1>2. CASE Click \/ FreePortAndRestart \/ StopDev \/ ResetDev \/ ResetEnds \/ ClearLog
           \/ OnConflict \/ OnDone \/ \E n \in 0 .. MaxServers : GraceEnds(n)
  BY <1>2, StoreSteps
<1>3. CASE StartDev
  <2>1. clicks' \in 0 .. MaxServers /\ freeing' \in [{"auto", "manual"} -> Nat]
    BY <1>3, <1>t DEF StartDev, DevTypeOK
  <2> QED
    BY <1>3, <2>1, StartStep DEF StartDev
<1>4. ASSUME NEW kind \in {"auto", "manual"}, Freed(kind) PROVE DevInv'
  <2>1. clicks' \in 0 .. MaxServers /\ freeing' \in [{"auto", "manual"} -> Nat]
    BY <1>4, <1>t DEF Freed, DevTypeOK
  <2>2. (kind = "auto") \in BOOLEAN
    OBVIOUS
  <2> QED
    BY <1>4, <2>1, <2>2, StartStep DEF Freed
<1>5. ASSUME NEW kind \in {"stop", "reset"}, StopDevServer(kind) PROVE DevInv'
  <2>1. halting' \in [{"stop", "reset", "resetReply"} -> 0 .. MaxUpsets] /\ HaltsCounted'
    BY <1>5, <1>t, Halts DEF StopDevServer, devStoreVars
  <2>3. DevTypeOK'
    BY <1>5, <1>t, <1>told, <2>1 DEF StopDevServer, DevTypeOK, devStoreVars
  <2>2. NoLostServer'
    BY <1>5, <1>t, <1>told DEF StopDevServer, NoLostServer
  <2> QED
    BY <1>5, <2>1, <2>2, <2>3, BackendDevStep DEF StopDevServer, EndComing
<1>6. ASSUME NEW k \in Launches, OnStartError(k) PROVE DevInv'
  <2>1. view' \in View /\ view'.status = "failed" /\ view'.attempted = view.attempted
    BY <1>6, <1>t, ViewUpdates DEF OnStartError, DevTypeOK, Statuses
  <2>2. DevTypeOK'
    BY <1>6, <1>t, <2>1 DEF OnStartError, DevTypeOK, backendVars, StartPhases
  <2>3. NoLostServer' /\ HaltsCounted' /\ HealedOnce'
    BY <1>6, <1>t, <2>1 DEF OnStartError, NoLostServer, HaltsCounted, HealedOnce, backendVars
  <2> QED
    BY <2>1, <2>2, <2>3 DEF DevInv, DevSafe, RunningWasLaunched, RunningHasServer, HealedOnce, NoHealingLoop
<1>7. ASSUME NEW k \in Launches, ReplacePrevious(k) PROVE DevInv'
  <2>1. DevTypeOK'
    BY <1>7, <1>t, <1>told DEF ReplacePrevious, DevTypeOK, StartPhases, devStoreVars
  <2>2. NoLostServer' /\ HaltsCounted'
    BY <1>7, <1>t, <1>told DEF ReplacePrevious, NoLostServer, HaltsCounted, devStoreVars
  <2>3. \A j \in Launches : starting[j] \in {"called", "replacing", "failed"} =>
                              starting'[j] \in {"called", "replacing", "failed"}
    BY <1>7, <1>t DEF ReplacePrevious, DevTypeOK
  <2> QED
    BY <1>7, <2>1, <2>2, <2>3, BackendDevStep DEF ReplacePrevious, EndComing
<1>8. ASSUME NEW k \in Launches, RegisterServer(k) PROVE DevInv'
  <2>0. k \in 0 .. MaxServers
    BY DEF Launches
  <2>1. DevTypeOK'
    BY <1>8, <1>t, <1>told, <2>0 DEF RegisterServer, DevTypeOK, StartPhases, ServerPhases, devStoreVars
  <2>2. NoLostServer' /\ HaltsCounted'
    BY <1>8, <1>t, <1>told DEF RegisterServer, NoLostServer, HaltsCounted, DevTypeOK, devStoreVars
  <2>3. \A j \in Launches :
          /\ starting[j] \in {"called", "replacing", "failed"} =>
               starting'[j] \in {"called", "replacing", "failed"} \/ server'[j] = "up"
          /\ server[j] \in {"up", "exited", "crashed"} => server'[j] \in {"up", "exited", "crashed"}
    BY <1>8, <1>t DEF RegisterServer, DevTypeOK
  <2> QED
    BY <1>8, <2>1, <2>2, <2>3, BackendDevStep DEF RegisterServer, EndComing
<1>9. ASSUME NEW k \in Launches, ServerExits(k) \/ ServerKilled(k) PROVE DevInv'
  <2>1. DevTypeOK'
    BY <1>9, <1>t DEF ServerExits, ServerKilled, DevTypeOK, ServerPhases, devStoreVars
  <2>2. NoLostServer' /\ HaltsCounted'
    BY <1>9, <1>t DEF ServerExits, ServerKilled, NoLostServer, HaltsCounted, DevTypeOK, devStoreVars
  <2>3. \A j \in Launches :
          server[j] \in {"up", "exited", "crashed"} => server'[j] \in {"up", "exited", "crashed"}
    BY <1>9, <1>t DEF ServerExits, ServerKilled, DevTypeOK
  <2> QED
    BY <1>9, <2>1, <2>2, <2>3, BackendDevStep DEF ServerExits, ServerKilled, EndComing
<1>10. ASSUME NEW k \in Launches, ReadConflict(k) PROVE DevInv'
  <2>1. devEvents' \in Seq(Event) /\ \A j : EndComing(j) => EndComing(j)'
    BY <1>10, <1>t, EventsSent DEF ReadConflict, Event
  <2>2. DevTypeOK'
    BY <1>10, <1>t, <2>1 DEF ReadConflict, DevTypeOK, Event, devStoreVars
  <2>3. NoLostServer' /\ HaltsCounted'
    BY <1>10, <1>t DEF ReadConflict, NoLostServer, HaltsCounted, devStoreVars
  <2> QED
    BY <1>10, <2>1, <2>2, <2>3, BackendDevStep DEF ReadConflict
\* The news of the end is sent in the step that ends the server.
<1>11. ASSUME NEW k \in Launches, WaitEnds(k) PROVE DevInv'
  <2>1. PICK e \in EndOf(k) : devEvents' = Append(devEvents, e)
    BY <1>11 DEF WaitEnds, Done, EndOf
  <2>2. e \in Event
    BY <2>1 DEF EndOf, Event
  <2>3. devEvents' \in Seq(Event) /\ EndComing(k)' /\ \A j : EndComing(j) => EndComing(j)'
    BY <1>t, <2>1, <2>2, EventsSent
  <2>4. DevTypeOK'
    BY <1>11, <1>t, <1>told, <2>3 DEF WaitEnds, DevTypeOK, Event, ServerPhases, devStoreVars
  <2>5. NoLostServer' /\ HaltsCounted'
    BY <1>11, <1>t, <1>told DEF WaitEnds, NoLostServer, HaltsCounted, DevTypeOK, devStoreVars
  <2>6. \A j \in Launches : j # k => server'[j] = server[j]
    BY <1>11, <1>t DEF WaitEnds, DevTypeOK
  <2> QED
    BY <1>11, <2>3, <2>4, <2>5, <2>6, BackendDevStep DEF WaitEnds
<1> QED
  BY <1>1, <1>2, <1>3, <1>4, <1>5, <1>6, <1>7, <1>8, <1>9, <1>10, <1>11 DEF DevNext

-----------------------------------------------------------------------------
(* The shell of the console.                                               *)

\* Commands are entered and stops pressed in turn, and the child in the state has
\* a reaper of its own that has not let go of it.
NotYetEntered == halts <= halted /\ \A c \in Commands : c > entered => invocation[c] = "none"
SlotHasReaper ==
  \A c \in Commands : childSlot = c => reaper[c] \in {"wanting", "waiting", "reaped"}

ShellInv == ShellTypeOK /\ NotYetEntered /\ SlotHasReaper /\ ShellSafe

LEMMA ShellInvInit == ShellInit => ShellInv
<1> SUFFICES ASSUME ShellInit PROVE ShellInv
  OBVIOUS
<1> USE ShellConstants DEF ShellInit
<1>1. ShellTypeOK
  BY DEF ShellTypeOK, Commands, InvocationPhases, ReaperPhases
<1>2. NotYetEntered /\ SlotHasReaper /\ NoLostShell /\ EndIsShown
  BY DEF NotYetEntered, SlotHasReaper, NoLostShell, EndIsShown, Commands
<1> QED
  BY <1>1, <1>2 DEF ShellInv, ShellSafe

\* Killing leaves no other process in another state.
LEMMA DeadAfterFacts ==
  ASSUME ShellTypeOK
  PROVE  /\ DeadAfter(childSlot) \in [Commands -> {"none", "alive", "dead"}]
         /\ \A c \in Commands : DeadAfter(childSlot)[c] = "alive" <=> shell[c] = "alive" /\ childSlot # c
BY DEF ShellTypeOK, DeadAfter, Commands

\* What still moves keeps the prompt justified.
LEMMA ShownStill ==
  ASSUME EndIsShown, prompt' = "running" => prompt = "running",
         shellEvents # <<>> => shellEvents' # <<>>,
         \A c \in Commands :
           /\ invocation[c] \notin {"none", "over"} =>
                invocation'[c] \notin {"none", "over"} \/ prompt' # "running"
           /\ shell[c] = "alive" => shell'[c] = "alive" \/ \E d \in Commands :
                reaper'[d] \in {"waiting", "reaped"} \/ (reaper'[d] = "wanting" /\ childSlot' # 0)
           /\ reaper[c] \in {"waiting", "reaped"} =>
                reaper'[c] \in {"waiting", "reaped"} \/ shellEvents' # <<>>
           /\ reaper[c] = "wanting" /\ childSlot # 0 =>
                reaper'[c] = "waiting" \/ (reaper'[c] = "wanting" /\ childSlot' # 0)
  PROVE  EndIsShown'
BY DEF EndIsShown

LEMMA ShellInvStep == ShellInv /\ [ShellNext]_shellVars => ShellInv'
<1> SUFFICES ASSUME ShellInv, [ShellNext]_shellVars PROVE ShellInv'
  OBVIOUS
<1>t. ShellTypeOK /\ NotYetEntered /\ SlotHasReaper /\ NoLostShell /\ EndIsShown
  BY DEF ShellInv, ShellSafe
<1> USE ShellConstants DEF shellStoreVars
<1>slot. childSlot # 0 => childSlot \in Commands
  BY <1>t DEF ShellTypeOK, Commands
<1>dead. /\ DeadAfter(childSlot) \in [Commands -> {"none", "alive", "dead"}]
         /\ \A c \in Commands : DeadAfter(childSlot)[c] = "alive" <=> shell[c] = "alive" /\ childSlot # c
  BY <1>t, DeadAfterFacts
<1>1. CASE UNCHANGED shellVars
  <2>1. ShellTypeOK'
    BY <1>1, <1>t DEF shellVars, ShellTypeOK
  <2>2. NotYetEntered' /\ SlotHasReaper' /\ NoLostShell' /\ EndIsShown'
    BY <1>1, <1>t DEF shellVars, NotYetEntered, SlotHasReaper, NoLostShell, EndIsShown
  <2> QED
    BY <2>1, <2>2 DEF ShellInv, ShellSafe
<1>2. CASE EnterCommand
  <2>1. ShellTypeOK' /\ entered + 1 \in Commands /\ entered \in Nat
    BY <1>2, <1>t DEF EnterCommand, ShellTypeOK, Commands, InvocationPhases
  <2>2. NotYetEntered'
    BY <1>2, <1>t, <2>1 DEF EnterCommand, ShellTypeOK, NotYetEntered, Commands
  <2>3. SlotHasReaper'
    BY <1>2, <1>t DEF EnterCommand, SlotHasReaper
  <2>4. NoLostShell'
    BY <1>2, <1>t, <2>1 DEF EnterCommand, ShellTypeOK, NoLostShell, NotYetEntered
  <2>5. EndIsShown'
    BY <1>2, <1>t, <2>1 DEF EnterCommand, ShellTypeOK, EndIsShown
  <2> QED
    BY <2>1, <2>2, <2>3, <2>4, <2>5 DEF ShellInv, ShellSafe
<1>3. CASE PressStop
  <2>1. ShellTypeOK'
    BY <1>3, <1>t DEF PressStop, ShellTypeOK, NotYetEntered
  <2>2. NotYetEntered' /\ SlotHasReaper' /\ NoLostShell' /\ EndIsShown'
    BY <1>3, <1>t DEF PressStop, ShellTypeOK, NotYetEntered, SlotHasReaper, NoLostShell, EndIsShown
  <2> QED
    BY <2>1, <2>2 DEF ShellInv, ShellSafe
<1>4. CASE OnShellDone
  <2>1. ShellTypeOK'
    BY <1>4, <1>t, HeadTailProperties DEF OnShellDone, ShellTypeOK
  <2>2. NotYetEntered' /\ SlotHasReaper' /\ NoLostShell' /\ EndIsShown'
    BY <1>4, <1>t DEF OnShellDone, NotYetEntered, SlotHasReaper, NoLostShell, EndIsShown
  <2> QED
    BY <2>1, <2>2 DEF ShellInv, ShellSafe
<1>5. CASE ShellStop
  <2>1. ShellTypeOK'
    BY <1>5, <1>t, <1>dead DEF ShellStop, ShellTypeOK
  <2>2. NotYetEntered' /\ SlotHasReaper'
    BY <1>5, <1>t DEF ShellStop, ShellTypeOK, NotYetEntered, SlotHasReaper
  <2>3. NoLostShell'
    BY <1>5, <1>t, <1>dead DEF ShellStop, NoLostShell
\* The reaper of the child that was killed has still to tell.
  <2>4. EndIsShown'
    <3>1. childSlot # 0 => reaper[childSlot] \in {"wanting", "waiting", "reaped"} /\ childSlot \in Commands
      BY <1>t, <1>slot DEF SlotHasReaper
    <3>2. \A c \in Commands : shell[c] = "alive" => shell'[c] = "alive" \/ childSlot = c
      BY <1>5, <1>dead DEF ShellStop
    <3>3. UNCHANGED <<prompt, shellEvents, invocation, reaper, childSlot>>
      BY <1>5 DEF ShellStop
    <3>4. 0 \notin Commands
      BY DEF Commands
    <3> QED
      BY <1>t, <3>1, <3>2, <3>3, <3>4, ShownStill
  <2> QED
    BY <2>1, <2>2, <2>3, <2>4 DEF ShellInv, ShellSafe
<1>6. ASSUME NEW c \in Commands, OnRunError(c) PROVE ShellInv'
  <2>1. ShellTypeOK'
    BY <1>6, <1>t DEF OnRunError, ShellTypeOK, InvocationPhases
  <2>2. NotYetEntered' /\ SlotHasReaper' /\ NoLostShell' /\ EndIsShown'
    BY <1>6, <1>t DEF OnRunError, ShellTypeOK, NotYetEntered, SlotHasReaper, NoLostShell, EndIsShown
  <2> QED
    BY <2>1, <2>2 DEF ShellInv, ShellSafe
<1>7. ASSUME NEW c \in Commands, KillPrevious(c) PROVE ShellInv'
  <2>1. ShellTypeOK'
    BY <1>7, <1>t, <1>dead DEF KillPrevious, ShellTypeOK, InvocationPhases
  <2>2. NotYetEntered'
    BY <1>7, <1>t DEF KillPrevious, ShellTypeOK, NotYetEntered
  <2>3. SlotHasReaper'
    BY <1>7, <1>t DEF KillPrevious, SlotHasReaper, Commands
  <2>4. NoLostShell'
    BY <1>7, <1>t, <1>dead DEF KillPrevious, ShellTypeOK, NoLostShell
  <2>5. EndIsShown'
    <3>1. invocation'[c] \in {"failed", "spawning"}
      BY <1>7, <1>t DEF KillPrevious, ShellTypeOK
    <3> QED
      BY <3>1 DEF EndIsShown
  <2> QED
    BY <2>1, <2>2, <2>3, <2>4, <2>5 DEF ShellInv, ShellSafe
<1>8. ASSUME NEW c \in Commands, SpawnShell(c) PROVE ShellInv'
  <2>1. ShellTypeOK'
    BY <1>8, <1>t DEF SpawnShell, ShellTypeOK, InvocationPhases
  <2>2. NotYetEntered' /\ SlotHasReaper' /\ NoLostShell'
    BY <1>8, <1>t DEF SpawnShell, ShellTypeOK, NotYetEntered, SlotHasReaper, NoLostShell
  <2>3. EndIsShown'
    <3>1. invocation'[c] \in {"failed", "spawned"}
      BY <1>8, <1>t DEF SpawnShell, ShellTypeOK
    <3> QED
      BY <3>1 DEF EndIsShown
  <2> QED
    BY <2>1, <2>2, <2>3 DEF ShellInv, ShellSafe
<1>9. ASSUME NEW c \in Commands, StoreChild(c) PROVE ShellInv'
  <2>1. ShellTypeOK'
    BY <1>9, <1>t, <1>dead DEF StoreChild, Dropped, ShellTypeOK, InvocationPhases, ReaperPhases, Commands
  <2>2. NotYetEntered' /\ SlotHasReaper'
    BY <1>9, <1>t DEF StoreChild, ShellTypeOK, NotYetEntered, SlotHasReaper
  <2>3. NoLostShell'
    BY <1>9, <1>t, <1>dead DEF StoreChild, Dropped, ShellTypeOK, NoLostShell
  <2>4. EndIsShown'
    <3>1. reaper'[c] = "wanting" /\ childSlot' # 0
      BY <1>9, <1>t DEF StoreChild, ShellTypeOK, Commands
    <3> QED
      BY <3>1 DEF EndIsShown
  <2> QED
    BY <2>1, <2>2, <2>3, <2>4 DEF ShellInv, ShellSafe
<1>10. ASSUME NEW c \in Commands, ShellEnds(c) PROVE ShellInv'
  <2>1. ShellTypeOK'
    BY <1>10, <1>t DEF ShellEnds, ShellTypeOK
  <2>2. NotYetEntered' /\ SlotHasReaper' /\ NoLostShell'
    BY <1>10, <1>t DEF ShellEnds, ShellTypeOK, NotYetEntered, SlotHasReaper, NoLostShell
\* A process that lives outside a spawn is the one in the state.
  <2>3. EndIsShown'
    <3>1. childSlot = c
      BY <1>10, <1>t DEF ShellEnds, NoLostShell
    <3>2. reaper[c] \in {"wanting", "waiting", "reaped"} /\ childSlot # 0
      BY <1>t, <3>1 DEF SlotHasReaper, Commands
    <3>3. UNCHANGED <<prompt, shellEvents, invocation, reaper, childSlot>>
      BY <1>10 DEF ShellEnds
    <3> QED
      BY <3>2, <3>3 DEF EndIsShown
  <2> QED
    BY <2>1, <2>2, <2>3 DEF ShellInv, ShellSafe
<1>11. ASSUME NEW c \in Commands, Reap(c) PROVE ShellInv'
  <2>1. ShellTypeOK'
    BY <1>11, <1>t DEF Reap, ShellTypeOK, ReaperPhases, Commands
  <2>2. NotYetEntered' /\ SlotHasReaper' /\ NoLostShell'
    BY <1>11, <1>t DEF Reap, ShellTypeOK, NotYetEntered, SlotHasReaper, NoLostShell, Commands
  <2>3. EndIsShown'
    BY <1>11, <1>t, ShownStill DEF Reap, ShellTypeOK
  <2> QED
    BY <2>1, <2>2, <2>3 DEF ShellInv, ShellSafe
<1>12. ASSUME NEW c \in Commands, Reaped(c) PROVE ShellInv'
  <2>1. ShellTypeOK'
    BY <1>12, <1>t DEF Reaped, ReleasedLock, ShellTypeOK, ReaperPhases
  <2>2. NotYetEntered' /\ SlotHasReaper' /\ NoLostShell'
    BY <1>12, <1>t DEF Reaped, ShellTypeOK, NotYetEntered, SlotHasReaper, NoLostShell
  <2>3. EndIsShown'
    <3>1. reaper'[c] = "reaped"
      BY <1>12, <1>t DEF Reaped, ShellTypeOK
    <3> QED
      BY <3>1 DEF EndIsShown
  <2> QED
    BY <2>1, <2>2, <2>3 DEF ShellInv, ShellSafe
<1>13. ASSUME NEW c \in Commands, ForgetChild(c) PROVE ShellInv'
  <2>0. shellEvents' \in Seq(Commands) /\ shellEvents' # <<>>
    BY <1>13, <1>t, AppendProperties DEF ForgetChild, Announced, ShellTypeOK
  <2>1. ShellTypeOK'
    BY <1>13, <1>t, <1>dead, <2>0 DEF ForgetChild, Dropped, ShellTypeOK, ReaperPhases
  <2>2. NotYetEntered' /\ SlotHasReaper' /\ NoLostShell'
    BY <1>13, <1>t, <1>dead DEF ForgetChild, Dropped, ShellTypeOK, NotYetEntered, SlotHasReaper, NoLostShell, Commands
  <2>3. EndIsShown'
    BY <2>0 DEF EndIsShown
  <2> QED
    BY <2>1, <2>2, <2>3 DEF ShellInv, ShellSafe
<1> QED
  BY <1>1, <1>2, <1>3, <1>4, <1>5, <1>6, <1>7, <1>8, <1>9, <1>10, <1>11, <1>12, <1>13 DEF ShellNext

-----------------------------------------------------------------------------
(* One command of the built-in loop.                                       *)

\* Every block is in the pipe or read; a future that ended whole has left nothing,
\* one that was cut has read past the cap; and the call waits for sh, or answers
\* with all of it, only when both have ended.
Accounted ==
  \A p \in Pipes :
    /\ written[p] = inPipe[p] + taken[p]
    /\ future[p] = "whole" => inPipe[p] = 0
    /\ future[p] = "cut" => taken[p] = Cap + 1
BothEnded == bash = "waiting" => \A p \in Pipes : future[p] # "reading"
AnswerIsFinal == answer # "none" => bash = "answered"

BashInv == BashTypeOK /\ Accounted /\ BothEnded /\ AnswerIsFinal /\ BashSafe

LEMMA BashInvInit == BashInit => BashInv
<1> SUFFICES ASSUME BashInit PROVE BashInv
  OBVIOUS
<1> USE BashConstants DEF BashInit
<1>1. BashTypeOK
  BY DEF BashTypeOK, Answers
<1>2. Accounted /\ BothEnded /\ AnswerIsFinal /\ NothingLost /\ KilledForCause
  BY DEF Accounted, BothEnded, AnswerIsFinal, NothingLost, KilledForCause
<1> QED
  BY <1>1, <1>2 DEF BashInv, BashSafe

\* Steps that neither move blocks nor end a future.
LEMMA BashQuietStep ==
  ASSUME BashInv, UNCHANGED <<pipeVars, future>>, BashTypeOK', BothEnded', AnswerIsFinal',
         answer' # answer => answer' # "whole" /\ answer = "none",
         child' = "killed" => child = "killed" \/ answer' = "timeout"
  PROVE  BashInv'
<1>1. Accounted'
  BY DEF BashInv, Accounted, pipeVars
<1>2. NothingLost' /\ KilledForCause'
  BY DEF BashInv, BashSafe, NothingLost, KilledForCause, pipeVars, AnswerIsFinal
<1> QED
  BY <1>1, <1>2 DEF BashInv, BashSafe

LEMMA BashInvStep == BashInv /\ [BashNext]_bashVars => BashInv'
<1> SUFFICES ASSUME BashInv, [BashNext]_bashVars PROVE BashInv'
  OBVIOUS
<1>t. BashTypeOK /\ Accounted /\ BothEnded /\ AnswerIsFinal /\ NothingLost /\ KilledForCause
  BY DEF BashInv, BashSafe
<1> USE BashConstants
<1>1. CASE UNCHANGED bashVars
  BY <1>1, <1>t, BashQuietStep DEF bashVars, pipeVars, BashTypeOK, BothEnded, AnswerIsFinal
<1>2. CASE Refuse \/ Approve \/ SnapshotTree \/ SpawnSh
  <2>1. BashTypeOK' /\ BothEnded' /\ AnswerIsFinal'
    BY <1>2, <1>t DEF Refuse, Approve, SnapshotTree, SpawnSh, Answered, BashTypeOK, BothEnded, AnswerIsFinal, Answers, pipeVars
  <2> QED
    BY <1>2, <1>t, <2>1, BashQuietStep DEF Refuse, Approve, SnapshotTree, SpawnSh, Answered, AnswerIsFinal
<1>3. CASE StartHeir \/ HeirEnds \/ ShellExits \/ BashTimesOut
  <2>1. BashTypeOK' /\ BothEnded' /\ AnswerIsFinal'
    BY <1>3, <1>t DEF StartHeir, HeirEnds, ShellExits, BashTimesOut, Answered, BashTypeOK, BothEnded, AnswerIsFinal, Answers, pipeVars
  <2> QED
    BY <1>3, <1>t, <2>1, BashQuietStep DEF StartHeir, HeirEnds, ShellExits, BashTimesOut, Answered, AnswerIsFinal
<1>4. ASSUME NEW p \in Pipes, ClosePipe(p) PROVE BashInv'
  <2>1. BashTypeOK' /\ BothEnded' /\ AnswerIsFinal'
    BY <1>4, <1>t DEF ClosePipe, BashTypeOK, BothEnded, AnswerIsFinal, pipeVars
  <2> QED
    BY <1>4, <1>t, <2>1, BashQuietStep DEF ClosePipe
\* Both futures have ended, and within the cap neither was cut.
<1>5. CASE WaitShell
  <2>1. BashTypeOK' /\ BothEnded' /\ AnswerIsFinal' /\ Accounted'
    BY <1>5, <1>t DEF WaitShell, Answered, BashTypeOK, BothEnded, AnswerIsFinal, Answers, pipeVars, Accounted
  <2>2. KilledForCause'
    BY <1>5, <1>t DEF WaitShell, Answered, KilledForCause, AnswerIsFinal, pipeVars
  <2>3. ASSUME answer' = "whole", NEW p \in Pipes PROVE taken'[p] = written'[p]
    <3>1. taken["out"] + taken["err"] <= Cap /\ taken["out"] \in Nat /\ taken["err"] \in Nat /\ Cap \in Nat
      BY <1>5, <1>t, <2>3 DEF WaitShell, Answered, BashTypeOK, Pipes
    <3>2. taken[p] # Cap + 1
      BY <3>1 DEF Pipes
    <3>3. future[p] = "whole"
      BY <1>5, <1>t, <3>2 DEF WaitShell, BothEnded, BashTypeOK, Accounted
    <3> QED
      BY <1>5, <1>t, <3>3 DEF WaitShell, Accounted, pipeVars, BashTypeOK
  <2> QED
    BY <2>1, <2>2, <2>3 DEF BashInv, BashSafe, NothingLost
<1>6. ASSUME NEW p \in Pipes, WriteBlock(p) PROVE BashInv'
  <2>1. BashTypeOK'
    BY <1>6, <1>t DEF WriteBlock, BashTypeOK
  <2>2. Accounted'
    BY <1>6, <1>t DEF WriteBlock, BashTypeOK, Accounted
  <2>3. BothEnded' /\ AnswerIsFinal' /\ NothingLost' /\ KilledForCause'
    BY <1>6, <1>t DEF WriteBlock, BothEnded, AnswerIsFinal, NothingLost, KilledForCause
  <2> QED
    BY <2>1, <2>2, <2>3 DEF BashInv, BashSafe
<1>7. ASSUME NEW p \in Pipes, ReadBlock(p) PROVE BashInv'
  <2>1. BashTypeOK'
    BY <1>7, <1>t DEF ReadBlock, BashTypeOK
  <2>2. Accounted'
    BY <1>7, <1>t DEF ReadBlock, BashTypeOK, Accounted
  <2>3. BothEnded' /\ AnswerIsFinal' /\ NothingLost'
    BY <1>7, <1>t DEF ReadBlock, BothEnded, AnswerIsFinal, NothingLost
  <2>4. KilledForCause'
    BY <1>7, <1>t DEF ReadBlock, KilledForCause, BashTypeOK
  <2> QED
    BY <2>1, <2>2, <2>3, <2>4 DEF BashInv, BashSafe
<1>8. ASSUME NEW p \in Pipes, FutureEnds(p) PROVE BashInv'
  <2>1. PICK end \in {"whole", "cut"} :
          /\ IF taken[p] = Cap + 1 THEN end = "cut" ELSE end = "whole" /\ EndOfPipe(p)
          /\ future' = [future EXCEPT ![p] = end]
          /\ child' = IF KillIfCut(end) /\ child = "runs" THEN "killed" ELSE child
    BY <1>8 DEF FutureEnds
  <2>2. BashTypeOK'
    BY <1>8, <1>t, <2>1 DEF FutureEnds, BashTypeOK, pipeVars
  <2>3. Accounted'
    BY <1>8, <1>t, <2>1 DEF FutureEnds, BashTypeOK, pipeVars, Accounted, EndOfPipe
  <2>4. BothEnded' /\ AnswerIsFinal' /\ NothingLost'
    BY <1>8, <1>t, <2>1 DEF FutureEnds, BothEnded, AnswerIsFinal, NothingLost, pipeVars
  <2>5. KilledForCause'
    BY <1>8, <1>t, <2>1 DEF FutureEnds, KilledForCause, KillIfCut, pipeVars
  <2> QED
    BY <2>2, <2>3, <2>4, <2>5 DEF BashInv, BashSafe
<1> QED
  BY <1>1, <1>2, <1>3, <1>4, <1>5, <1>6, <1>7, <1>8 DEF BashNext

-----------------------------------------------------------------------------
(* The discovery of foreign tools.                                         *)

\* As many pages were collected as requests for pages were answered, and another
\* is asked for only below the cap.
PagesAsked ==
  /\ step = "idle" => awaited = 0 /\ found = <<>>
  /\ step = "ask" => /\ IF awaited = 0 THEN found = <<>> ELSE Len(found) = awaited - 1
                     /\ Len(found) < MaxPages
  /\ step = "read" => /\ awaited > 0
                      /\ IF awaited = 1 THEN found = <<>> ELSE Len(found) = awaited - 2
                      /\ Len(found) < MaxPages

DiscoveryInv == DiscoveryTypeOK /\ PagesAsked /\ DiscoverySafe

LEMMA DiscoveryInvInit == DiscoveryInit => DiscoveryInv
<1> SUFFICES ASSUME DiscoveryInit PROVE DiscoveryInv
  OBVIOUS
<1> USE DiscoveryConstants DEF DiscoveryInit
<1>1. DiscoveryTypeOK
  BY DEF DiscoveryTypeOK, Over
<1>2. PagesAsked /\ PagesInOrder /\ ServerDiesWithUs
  BY DEF PagesAsked, PagesInOrder, ServerDiesWithUs, Over
<1> QED
  BY <1>1, <1>2 DEF DiscoveryInv, DiscoverySafe

\* A step of the server, and one that ends the discovery without success.
LEMMA ServerStep ==
  ASSUME DiscoveryInv, DiscoveryTypeOK', UNCHANGED <<step, awaited, found, more>>,
         proc = "runs" \/ UNCHANGED proc
  PROVE  DiscoveryInv'
BY DEF DiscoveryInv, DiscoverySafe, PagesAsked, PagesInOrder, ServerDiesWithUs

LEMMA UnsuccessfulEnd ==
  ASSUME DiscoveryInv, DiscoveryTypeOK', UNCHANGED <<awaited, found, more>>,
         EndsAs("error") \/ EndsAs("timeout")
  PROVE  DiscoveryInv'
<1>1. step' \in {"error", "timeout"} /\ proc' \in {"none", "gone"}
  BY DEF EndsAs, Killed
<1> QED
  BY <1>1 DEF DiscoveryInv, DiscoverySafe, PagesAsked, PagesInOrder, ServerDiesWithUs

LEMMA DiscoveryInvStep == DiscoveryInv /\ [DiscoveryNext]_discoveryVars => DiscoveryInv'
<1> SUFFICES ASSUME DiscoveryInv, [DiscoveryNext]_discoveryVars PROVE DiscoveryInv'
  OBVIOUS
<1>t. DiscoveryTypeOK /\ PagesAsked /\ PagesInOrder /\ ServerDiesWithUs
  BY DEF DiscoveryInv, DiscoverySafe
<1> USE DiscoveryConstants
<1>lines. /\ stdout \in Seq(Line) /\ stdout # <<>> => Head(stdout) \in Line /\ Tail(stdout) \in Seq(Line)
          /\ \A l \in Line : Append(stdout, l) \in Seq(Line)
  BY <1>t, HeadTailProperties, AppendProperties DEF DiscoveryTypeOK
<1>1. CASE UNCHANGED discoveryVars
  <2>1. DiscoveryTypeOK'
    BY <1>1, <1>t DEF discoveryVars, DiscoveryTypeOK
  <2> QED
    BY <1>1, <2>1, ServerStep DEF discoveryVars
<1>2. CASE Responds
  <2>1. awaited \in Ids
    BY <1>2, <1>t DEF Responds, DiscoveryTypeOK, Ids
  <2>2. \A kind \in {"response", "failure"}, m \in BOOLEAN :
          [kind |-> kind, id |-> awaited, more |-> m] \in Line
    BY <2>1 DEF Line
  <2>3. stdout' \in Seq(Line)
    BY <1>2, <2>2, <1>lines DEF Responds, Prints
  <2>4. DiscoveryTypeOK'
    BY <1>2, <1>t, <2>3 DEF Responds, DiscoveryTypeOK
  <2> QED
    BY <1>2, <2>4, ServerStep DEF Responds
<1>3. CASE PrintsMore
  <2>1. /\ replied > 0 => replied \in Ids /\ [kind |-> "response", id |-> replied, more |-> FALSE] \in Line
        /\ awaited > 0 => awaited \in Ids /\ [kind |-> "request", id |-> awaited, more |-> FALSE] \in Line
        /\ [kind |-> "noise", id |-> 0, more |-> FALSE] \in Line
    BY <1>t DEF DiscoveryTypeOK, Ids, Line
  <2>3. stdout' \in Seq(Line)
    BY <1>3, <2>1, <1>lines DEF PrintsMore, Prints
  <2>4. DiscoveryTypeOK'
    BY <1>3, <1>t, <2>3 DEF PrintsMore, DiscoveryTypeOK
  <2> QED
    BY <1>3, <2>4, ServerStep DEF PrintsMore
<1>4. CASE ServerFalters
  <2>1. DiscoveryTypeOK'
    BY <1>4, <1>t DEF ServerFalters, DiscoveryTypeOK
  <2> QED
    BY <1>4, <2>1, ServerStep DEF ServerFalters
<1>5. CASE SpawnServer
  <2>1. DiscoveryTypeOK'
    BY <1>5, <1>t DEF SpawnServer, EndsAs, Killed, DiscoveryTypeOK, Over
  <2>2. CASE EndsAs("error")
    BY <1>5, <2>1, <2>2, UnsuccessfulEnd DEF SpawnServer
  <2>3. CASE step' = "ask" /\ proc' = "runs"
    BY <1>5, <1>t, <2>1, <2>3
       DEF SpawnServer, DiscoveryInv, DiscoverySafe, PagesAsked, PagesInOrder, ServerDiesWithUs, Over
  <2> QED
    BY <1>5, <2>2, <2>3 DEF SpawnServer
<1>6. CASE Ask
  <2>0. awaited \in Nat /\ Len(found) \in Nat
    BY <1>t, LenProperties DEF DiscoveryTypeOK
  <2>1. DiscoveryTypeOK'
    <3>1. awaited + 1 \in 0 .. MaxPages + 1
      BY <1>6, <1>t, <2>0 DEF Ask, PagesAsked
    <3> QED
      BY <1>6, <1>t, <3>1 DEF Ask, EndsAs, Killed, DiscoveryTypeOK, Over
  <2>2. CASE proc = "gone"
    BY <1>6, <2>1, <2>2, UnsuccessfulEnd DEF Ask
  <2>3. CASE proc # "gone"
    <3>1. PagesAsked'
      BY <1>6, <1>t, <2>0, <2>3 DEF Ask, PagesAsked
    <3>2. PagesInOrder' /\ ServerDiesWithUs'
      BY <1>6, <1>t, <2>3 DEF Ask, PagesInOrder, ServerDiesWithUs, Over
    <3> QED
      BY <2>1, <3>1, <3>2 DEF DiscoveryInv, DiscoverySafe
  <2> QED
    BY <2>2, <2>3
<1>7. CASE ReadLine
  <2>0. /\ awaited \in 1 .. MaxPages + 1 /\ Len(found) \in Nat /\ found \in Seq(Ids)
        /\ Head(stdout) \in Line /\ stdout' \in Seq(Line) /\ step = "read"
    BY <1>7, <1>t, <1>lines, LenProperties DEF ReadLine, DiscoveryTypeOK, PagesAsked
  <2>1. CASE ~IsForUs(Head(stdout))
    <3>1. skipped' \in 0 .. MaxSkipped
      BY <1>7, <1>t, <2>1 DEF ReadLine, DiscoveryTypeOK
    <3>2. DiscoveryTypeOK'
      BY <1>7, <1>t, <2>0, <2>1, <3>1 DEF ReadLine, EndsAs, Killed, DiscoveryTypeOK, Over
    <3>3. CASE GivesUp
      BY <1>7, <2>1, <3>2, <3>3, UnsuccessfulEnd DEF ReadLine
    <3>4. CASE ~GivesUp
      BY <1>7, <2>1, <3>2, <3>4, ServerStep DEF ReadLine
    <3> QED
      BY <3>3, <3>4
  <2>2. CASE IsForUs(Head(stdout)) /\ Head(stdout).kind = "failure"
    <3>1. DiscoveryTypeOK'
      BY <1>7, <1>t, <2>0, <2>2 DEF ReadLine, EndsAs, Killed, DiscoveryTypeOK, Over
    <3> QED
      BY <1>7, <2>2, <3>1, UnsuccessfulEnd DEF ReadLine
  <2>3. CASE IsForUs(Head(stdout)) /\ Head(stdout).kind # "failure" /\ awaited = 1
    <3>1. step' = "ask" /\ UNCHANGED <<skipped, found, more, proc, awaited, replied>>
      BY <1>7, <2>3 DEF ReadLine
    <3>2. DiscoveryTypeOK'
      BY <1>t, <2>0, <3>1 DEF DiscoveryTypeOK
    <3>3. PagesAsked' /\ PagesInOrder' /\ ServerDiesWithUs'
      BY <1>t, <2>0, <2>3, <3>1 DEF PagesAsked, PagesInOrder, ServerDiesWithUs, Over
    <3> QED
      BY <3>2, <3>3 DEF DiscoveryInv, DiscoverySafe
\* A page: its number is that of the request, two more than the pages before it.
  <2>4. CASE IsForUs(Head(stdout)) /\ Head(stdout).kind # "failure" /\ awaited # 1
    <3>1. /\ found' = Append(found, awaited) /\ more' = Head(stdout).more
          /\ UNCHANGED <<skipped, awaited, replied>>
          /\ IF ~more' \/ Len(found) + 1 = MaxPages THEN EndsAs("ok")
             ELSE step' = "ask" /\ UNCHANGED proc
      BY <1>7, <2>4 DEF ReadLine, IsForUs, EnoughPages
    <3>2. Head(stdout).more \in BOOLEAN /\ awaited \in Ids
      <4>1. \A l \in [kind : {"response", "failure", "request"}, id : Ids, more : BOOLEAN] :
              l.more \in BOOLEAN
        OBVIOUS
      <4>2. [kind |-> "noise", id |-> 0, more |-> FALSE].more \in BOOLEAN
        OBVIOUS
      <4>3. awaited \in Ids
        BY <2>0 DEF Ids
      <4> QED
        BY <2>0, <4>1, <4>2, <4>3 DEF Line
    <3>3. /\ found' \in Seq(Ids) /\ Len(found') = Len(found) + 1
          /\ \A i \in 1 .. Len(found) : found'[i] = found[i]
          /\ found'[Len(found) + 1] = awaited /\ awaited = Len(found) + 2
      BY <1>t, <2>0, <2>4, <3>1, <3>2, AppendProperties DEF PagesAsked
    <3>4. DiscoveryTypeOK'
      BY <1>t, <2>0, <3>1, <3>2, <3>3 DEF DiscoveryTypeOK, EndsAs, Killed, Over
    <3>5. found' = [i \in 1 .. Len(found') |-> i + 1]
      <4>1. \A i \in 1 .. Len(found) : found[i] = i + 1
        BY <1>t DEF PagesInOrder
      <4>2. \A i \in 1 .. Len(found') : found'[i] = i + 1
        BY <2>0, <3>3, <4>1
      <4>3. found' = [i \in 1 .. Len(found') |-> found'[i]]
        BY <3>3
      <4> QED
        BY <4>2, <4>3
    <3>6. PagesAsked' /\ ServerDiesWithUs' /\ (step' = "ok" => ~more' \/ Len(found') = MaxPages)
      BY <1>t, <2>0, <2>4, <3>1, <3>3 DEF PagesAsked, ServerDiesWithUs, EndsAs, Killed, Over
    <3> QED
      BY <3>4, <3>5, <3>6 DEF DiscoveryInv, DiscoverySafe, PagesInOrder
  <2> QED
    BY <2>1, <2>2, <2>3, <2>4
<1>8. CASE Malformed \/ ServerClosed \/ DiscoveryTimesOut
  <2>1. DiscoveryTypeOK'
    BY <1>8, <1>t, <1>lines
       DEF Malformed, ServerClosed, DiscoveryTimesOut, EndsAs, Killed, DiscoveryTypeOK, Over
  <2> QED
    BY <1>8, <2>1, UnsuccessfulEnd DEF Malformed, ServerClosed, DiscoveryTimesOut
<1> QED
  BY <1>1, <1>2, <1>3, <1>4, <1>5, <1>6, <1>7, <1>8 DEF DiscoveryNext

-----------------------------------------------------------------------------
(* All of them.                                                            *)

ReportInv ==
  /\ ChoiceTypeInv /\ ChoiceSafe /\ StreamsInv /\ DevInv /\ ShellInv /\ BashInv
  /\ DiscoveryInv

LEMMA ReportInvInit == ReportInit => ReportInv
BY ChoiceTypeInit, ChoiceSafeInit, StreamsBegin, DevInvInit, ShellInvInit, BashInvInit,
   DiscoveryInvInit DEF ReportInit, ReportInv

\* They share no state: a step of one is a stutter of the others.
LEMMA StepOfEach ==
  ASSUME [ReportNext]_reportVars
  PROVE  /\ [ChoiceNext]_choiceVars /\ [StreamsNext]_streamVars /\ [DevNext]_devVars
         /\ [ShellNext]_shellVars /\ [BashNext]_bashVars /\ [DiscoveryNext]_discoveryVars
<1>1. CASE UNCHANGED reportVars
  BY <1>1 DEF reportVars
<1>2. CASE ReportNext
  BY <1>2 DEF ReportNext
<1> QED
  BY <1>1, <1>2

LEMMA ReportInvStep == ReportInv /\ [ReportNext]_reportVars => ReportInv'
BY StepOfEach, ChoiceTypeStep, ChoiceSafeStep, StreamsInvariance, DevInvStep, ShellInvStep,
   BashInvStep, DiscoveryInvStep DEF ReportInv

\* What holds of every report holds of what is reported in any order.
LEMMA ReportAlways == ReportSpec => []ReportInv
BY ReportInvInit, ReportInvStep, PTL DEF ReportSpec

\* For any runtimes and any order of answers, events and gestures: what was
\* chosen stays active until the next choice, and the spinner of the models
\* turns only while a list is being fetched (the calls of use-runtime-store.ts).
THEOREM ChoiceStands == ChoiceSpec => []ChoiceSafe
BY ChoiceSafeInit, ChoiceSafeStep, PTL DEF ChoiceSpec

\* Every variable of the six components stays within its type, whatever the
\* numbers of runtimes, sessions, launches, commands, blocks and pages; the
\* counters of stops and the numbers asked for rest on the invariants above.
THEOREM ReportTypeCorrect == ReportSpec => []ReportTypeOK
<1>1. ReportInv => ReportTypeOK
  BY DEF ReportInv, ReportTypeOK, ChoiceTypeInv, StreamsInv, DevInv, ShellInv, BashInv,
         DiscoveryInv
<1> QED
  BY <1>1, ReportAlways, PTL

\* However launches, ends, stops and commands overlap: no dev server and no
\* shell is lost behind another, neither is shown as running when it is gone
\* and the news of it is through, and a server is healed at most once for each
\* gesture of the user (dev_server.rs, shell_run.rs and their stores).
THEOREM RunnersAreKept == ReportSpec => []RunnersSafe
<1>1. ReportInv => RunnersSafe
  BY DEF ReportInv, RunnersSafe, DevInv, ShellInv
<1> QED
  BY <1>1, ReportAlways, PTL

\* For any cap, any size of a pipe and any interleaving of writer and readers:
\* an answer that says it is whole is, and a command is killed only for the
\* budget or the cap; and the pages of a foreign server are collected in order,
\* each once, whatever it prints (run_builtin_bash, StdioTransport).
THEOREM ToolsAreWhole == ReportSpec => []ToolsSafe
<1>1. ReportInv => ToolsSafe
  BY DEF ReportInv, ToolsSafe, BashInv, DiscoveryInv
<1> QED
  BY <1>1, ReportAlways, PTL
=============================================================================
