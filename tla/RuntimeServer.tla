--------------------------- MODULE RuntimeServer ----------------------------
(***************************************************************************)
(* The built-in runtime while it serves (aka-runtime/src/main.rs and       *)
(* inference.rs): loading and unloading models, the context size carried   *)
(* from model to model, and chat requests with their cancellation.         *)
(*                                                                         *)
(* Handlers run in parallel.  Nothing is locked across a load, so handlers *)
(* are cut where they read or write what they share.  A load makes a new   *)
(* instance of the weights, named by the request that loaded it; an        *)
(* instance lives as long as somebody holds it.                            *)
(***************************************************************************)
EXTENDS Naturals

CONSTANTS
  MaxServed, \* bound: load and chat requests ever made
  Capacity,  \* room of the channel from the generation to the stream
  ServedModels, NoModel,
  Fits       \* Fits[m] = max_fitting_ctx: the largest context m leaves room for

Requests == 1 .. MaxServed
Contexts == 1 .. 2

ASSUME ServerConstants ==
  /\ MaxServed \in Nat /\ Capacity \in Nat \ {0}
  /\ NoModel \notin ServedModels /\ Fits \in [ServedModels -> Contexts]

VARIABLES
  rq,             \* the requests
  activeRequests, \* active_requests: requests whose cancel flag is registered
  loaded,         \* loaded_model: the request that loaded it, or 0
  ctxSize,        \* ctx_size
  loadsCrossed    \* history: two loads were under way at once

serverVars == <<rq, activeRequests, loaded, ctxSize, loadsCrossed>>

\* "resolve": about to look up the model.  "load": awaiting the load.  "clamp",
\* "install": the rest of ensure_model_loaded.  "check" and "emit":
\* the generation's loop.  "close": the generation has returned.
RequestStates == {"none", "resolve", "load", "clamp", "install", "begin",
                  "check", "emit", "close", "drain", "over"}
Loading == {"load", "clamp", "install"}
Generating == {"check", "emit"}

\* inst: the instance it holds.  late: tokens sent after its flag was set.
\* gone: the client has left.  chosen: the user has set the context size since
\* its load looked at it.
Request == [kind : {"load", "chat", "stream"}, model : ServedModels \cup {NoModel},
            pc : RequestStates, flag : BOOLEAN, inst : 0 .. MaxServed,
            chan : 0 .. Capacity, late : 0 .. 2, gone : BOOLEAN, chosen : BOOLEAN]
NoRequest == [kind |-> "load", model |-> NoModel, pc |-> "none", flag |-> FALSE,
              inst |-> 0, chan |-> 0, late |-> 0, gone |-> FALSE, chosen |-> FALSE]

ServerTypeOK ==
  /\ rq \in [Requests -> Request]
  /\ activeRequests \in SUBSET Requests
  /\ loaded \in 0 .. MaxServed
  /\ ctxSize \in Contexts
  /\ loadsCrossed \in BOOLEAN

ServerInit ==
  /\ rq = [r \in Requests |-> NoRequest]
  /\ activeRequests = {} /\ loaded = 0 /\ loadsCrossed = FALSE
  /\ ctxSize \in Contexts

UnderWayServing(r) == rq[r].pc \notin {"none", "over"}
ToState(r, pc) == rq' = [rq EXCEPT ![r].pc = pc]

\* Its load has looked at the context size.
Priced(r) == rq[r].pc \in {"clamp", "install"} \/ rq[r].inst = r

\* What outlives a request is the instance it has loaded.
EndedServed(r) ==
  rq' = [rq EXCEPT ![r] = IF rq[r].inst = r
           THEN [NoRequest EXCEPT !.pc = "over", !.inst = r, !.model = rq[r].model,
                                  !.chosen = rq[r].chosen]
           ELSE [NoRequest EXCEPT !.pc = "over"]]
OverServed(r) == EndedServed(r) /\ activeRequests' = activeRequests \ {r}

-----------------------------------------------------------------------------
(* A request arrives.  A chat registers its cancel flag before all else,   *)
(* and may leave the choice of the model to whatever is loaded.            *)

Arrive(r) ==
  /\ rq[r].pc = "none" /\ \A q \in 1 .. r - 1 : rq[q].pc # "none"
  /\ \E kind \in {"load", "chat", "stream"}, m \in ServedModels \cup {NoModel} :
       /\ kind = "load" => m # NoModel
       /\ rq' = [rq EXCEPT ![r] = [NoRequest EXCEPT !.kind = kind, !.model = m,
                                                    !.pc = "resolve"]]
       /\ activeRequests' = IF kind = "load" THEN activeRequests ELSE activeRequests \cup {r}
  /\ UNCHANGED <<loaded, ctxSize, loadsCrossed>>

AfterLoad(r) == IF rq[r].kind = "load" THEN "over" ELSE "begin"
IsLoaded(r) == loaded # 0 /\ rq[r].model \in {NoModel, rq[loaded].model}

\* What is loaded already will do.
TakeLoaded(r) ==
  /\ rq[r].pc = "resolve" /\ IsLoaded(r)
  /\ rq' = [rq EXCEPT ![r].pc = AfterLoad(r), ![r].inst = loaded]
  /\ UNCHANGED <<activeRequests, loaded, ctxSize, loadsCrossed>>

BeginLoad(r) ==
  /\ rq[r].pc = "resolve" /\ ~IsLoaded(r) /\ rq[r].model # NoModel
  /\ ToState(r, "load")
  /\ loadsCrossed' = (loadsCrossed \/ \E q \in Requests \ {r} : rq[q].pc \in Loading)
  /\ UNCHANGED <<activeRequests, loaded, ctxSize>>

\* No model loaded, no such file, not a valid one, too little RAM, a bad load.
Refuse(r) ==
  /\ \/ rq[r].pc = "resolve" /\ ~IsLoaded(r)
     \/ rq[r].pc = "load"
  /\ OverServed(r)
  /\ UNCHANGED <<loaded, ctxSize, loadsCrossed>>

\* The context size is a property of the runtime: what was chosen for the last
\* model may be too large for this one.  The slip never looks.
TooLargeNever(r) == FALSE
TooLarge(r) == ctxSize > Fits[rq[r].model]

Price(r) ==
  /\ rq[r].pc = "load"
  /\ ToState(r, IF TooLarge(r) THEN "clamp" ELSE "install")
  /\ UNCHANGED <<activeRequests, loaded, ctxSize, loadsCrossed>>

\* Read and store are two steps: something else may be stored in between.  The
\* slip stores one too little.
ClampedBelow(r) == Fits[rq[r].model] - 1
Clamped(r) == Fits[rq[r].model]

Clamp(r) ==
  /\ rq[r].pc = "clamp"
  /\ ctxSize' = Clamped(r)
  /\ ToState(r, "install")
  /\ UNCHANGED <<activeRequests, loaded, loadsCrossed>>

\* The handle is the one just loaded, whatever the slot holds by the time it is
\* used; the slip trusts a slot somebody else has filled.
HandleFromSlot(r) == IF loaded # 0 THEN loaded ELSE r
Handle(r) == r

Install(r) ==
  /\ rq[r].pc = "install"
  /\ loaded' = r
  /\ rq' = [rq EXCEPT ![r].pc = AfterLoad(r), ![r].inst = Handle(r)]
  /\ UNCHANGED <<activeRequests, ctxSize, loadsCrossed>>

-----------------------------------------------------------------------------
(* chat_completions and generate_blocking.                                 *)

\* The context is built with the size of this moment; that, the prompt or the
\* prefill may fail.
BeginGeneration(r) ==
  /\ rq[r].pc = "begin"
  /\ ToState(r, "check") \/ ToState(r, "close")
  /\ UNCHANGED <<activeRequests, loaded, ctxSize, loadsCrossed>>

\* The slip relies on the client to leave when it streams.
SeesFlagUnlessStream(r) == rq[r].flag /\ rq[r].kind # "stream"
SeesFlag(r) == rq[r].flag

Check(r) ==
  /\ rq[r].pc = "check"
  /\ ToState(r, IF SeesFlag(r) THEN "close" ELSE "emit")
  /\ UNCHANGED <<activeRequests, loaded, ctxSize, loadsCrossed>>

\* A token goes into the channel, which blocks when it is full; without a
\* stream it is kept.  The generation ends with the end token, the last token it
\* may make, a full context, an error, or when the client has left.
Emit(r) ==
  /\ rq[r].pc = "emit"
  /\ \/ ToState(r, "close")
     \/ /\ rq[r].kind = "stream" => rq[r].chan < Capacity /\ ~rq[r].gone
        /\ rq' = [rq EXCEPT ![r].pc = "check", 
                            ![r].chan = IF rq[r].kind = "stream" THEN @ + 1 ELSE @,
                            ![r].late = IF rq[r].flag /\ @ < 2 THEN @ + 1 ELSE @]
  /\ UNCHANGED <<activeRequests, loaded, ctxSize, loadsCrossed>>

\* The closing chunk and [DONE]; without a stream the answer.
Close(r) ==
  /\ rq[r].pc = "close"
  /\ IF rq[r].kind = "stream"
       THEN /\ rq[r].gone \/ rq[r].chan < Capacity
            /\ rq' = [rq EXCEPT ![r].pc = "drain", ![r].chan = IF rq[r].gone THEN 0 ELSE @ + 1]
            /\ UNCHANGED activeRequests
       ELSE IF rq[r].gone THEN EndedServed(r) /\ UNCHANGED activeRequests
                          ELSE OverServed(r)
  /\ UNCHANGED <<loaded, ctxSize, loadsCrossed>>

ClientReads(r) ==
  /\ rq[r].chan > 0 /\ ~rq[r].gone
  /\ rq' = [rq EXCEPT ![r].chan = @ - 1]
  /\ UNCHANGED <<activeRequests, loaded, ctxSize, loadsCrossed>>

\* The stream deregisters after its last event, unless it was dropped before.
Drained(r) ==
  /\ rq[r].pc = "drain" /\ (rq[r].chan = 0 \/ rq[r].gone)
  /\ IF rq[r].gone THEN EndedServed(r) /\ UNCHANGED activeRequests ELSE OverServed(r)
  /\ UNCHANGED <<loaded, ctxSize, loadsCrossed>>

\* A handler that awaits a load is dropped where it waits; a generation goes on
\* until it finds out.
ClientLeaves(r) ==
  /\ UnderWayServing(r) /\ ~rq[r].gone
  /\ rq[r].pc \in {"load", "check", "emit", "close", "drain"}
  /\ IF rq[r].pc = "load" THEN EndedServed(r)
     ELSE rq' = [rq EXCEPT ![r].gone = TRUE, ![r].chan = 0]
  /\ UNCHANGED <<activeRequests, loaded, ctxSize, loadsCrossed>>

-----------------------------------------------------------------------------
\* abort_handler: every registered flag.
Abort ==
  /\ activeRequests # {}
  /\ rq' = [r \in Requests |->
              IF r \in activeRequests THEN [rq[r] EXCEPT !.flag = TRUE] ELSE rq[r]]
  /\ UNCHANGED <<activeRequests, loaded, ctxSize, loadsCrossed>>

Unload ==
  /\ loaded # 0
  /\ loaded' = 0
  /\ UNCHANGED <<rq, activeRequests, ctxSize, loadsCrossed>>

SetContextSize ==
  /\ \E n \in Contexts \ {ctxSize} : ctxSize' = n
  /\ rq' = [r \in Requests |-> [rq[r] EXCEPT !.chosen = Priced(r)]]
  /\ UNCHANGED <<activeRequests, loaded, loadsCrossed>>

Serve(r) ==
  \/ TakeLoaded(r) \/ BeginLoad(r) \/ Refuse(r) \/ Price(r)
  \/ Clamp(r) \/ Install(r) \/ BeginGeneration(r) \/ Check(r) \/ Emit(r)
  \/ Close(r) \/ ClientReads(r) \/ Drained(r)

ServerNext ==
  \/ Abort \/ Unload \/ SetContextSize
  \/ \E r \in Requests : Arrive(r) \/ ClientLeaves(r) \/ Serve(r)

\* The runtime goes on, and a client that stays reads.
ServerFairness == \A r \in Requests : WF_serverVars(Serve(r))

ServerSpec == ServerInit /\ [][ServerNext]_serverVars /\ ServerFairness

-----------------------------------------------------------------------------
(* What the code guarantees.                                               *)

\* A request is answered by the model it named, whatever was loaded and
\* unloaded in the meantime.
ServesNamed ==
  \A r \in Requests :
    rq[r].pc \in Generating \cup {"begin", "close", "drain"} =>
      /\ rq[r].inst # 0
      /\ rq[r].model \in {NoModel, rq[rq[r].inst].model}

\* No cache is about to be allocated that the machine cannot hold, unless the user set the
\* size after the model's load had priced it: a carried-over size never turns a
\* switch of models into a crash, as long as loads do not overlap.
FitsOrChosen ==
  ~loadsCrossed =>
    \A r \in Requests :
      rq[r].pc = "begin" =>
        ctxSize <= Fits[rq[rq[r].inst].model] \/ rq[rq[r].inst].chosen

\* An abort interrupts within one token, and no request undoes the abort of
\* another one.
StopsWithinOneToken == \A r \in Requests : rq[r].late <= 1

\* What a request may rely on, whatever other requests do: the model it named, a
\* context that fits, and an abort that is heeded.
ServerSafe == ServesNamed /\ FitsOrChosen /\ StopsWithinOneToken

\* An aborted request ends, with a reader that may be slow but reads or leaves.
AbortEnds == \A r \in Requests : []<>(rq[r].flag => rq[r].pc = "over")

\* The comment at the stream: a request is deregistered on "client disconnect".
DeregisteredWhenOver == \A r \in activeRequests : UnderWayServing(r)

\* FitsOrChosen without its condition.
CarriedOverFits ==
  \A r \in Requests :
    rq[r].pc = "begin" =>
      ctxSize <= Fits[rq[rq[r].inst].model] \/ rq[rq[r].inst].chosen
=============================================================================
