-------------------------- MODULE MCRuntime_proofs --------------------------
(***************************************************************************)
(* Proofs about the runtimes that answer the chat: the manager of the      *)
(* built-in one, for any number of processes, restarts and launches; the   *)
(* launcher of external ones, for any number of servers; and the list of   *)
(* them, for any number of endpoints and of writes under way.  Last, all   *)
(* of them at once, as MCRuntime composes them.                            *)
(***************************************************************************)
EXTENDS MCRuntime, SequenceTheorems, TLAPS

-----------------------------------------------------------------------------
(* The built-in runtime while it serves, for any number of requests and    *)
(* models.                                                                 *)

ServingStates == Generating \cup {"begin", "close", "drain"}

\* What a request's record R says of itself, r being its name.
Heeds(R) == R.late <= 1 /\ (R.late = 1 => R.flag /\ R.pc # "emit")
Holds(R, r) ==
  /\ R.pc \in {"none", "resolve"} \cup Loading => R.inst = 0
  /\ R.pc \in ServingStates => R.inst # 0
  /\ R.pc \in Loading \/ R.inst = r => R.model # NoModel
Sound(R, r) == R \in Request /\ Heeds(R) /\ Holds(R, r)

\* Instances are held by who has loaded them, first of all.
Instances ==
  /\ \A r \in Requests : rq[r].inst # 0 => rq[rq[r].inst].inst = rq[r].inst
  /\ loaded # 0 => rq[loaded].inst = loaded

OneLoads ==
  ~loadsCrossed =>
    \A r, q \in Requests : rq[r].pc \in Loading /\ rq[q].pc \in Loading => r = q

\* The size fits what is loaded or about to be, or the user has chosen it; and a
\* load that is about to store its own size will not raise it for anybody else.
SizeFits ==
  ~loadsCrossed =>
    \A r \in Requests :
      /\ rq[r].inst = r \/ rq[r].pc = "install" => ctxSize <= Fits[rq[r].model] \/ rq[r].chosen
      /\ rq[r].pc = "clamp" =>
           ctxSize > Fits[rq[r].model] \/ \A i \in Requests : rq[i].inst = i => rq[i].chosen

ServerInv == /\ ServerTypeOK /\ \A r \in Requests : Sound(rq[r], r)
             /\ Instances /\ ServesNamed /\ OneLoads /\ SizeFits

LEMMA Bounds == /\ 0 \in 0 .. MaxServed /\ 0 \in 0 .. Capacity /\ 0 \in 0 .. 2
                /\ Requests \subseteq 0 .. MaxServed /\ \A r \in Requests : r # 0
BY ServerConstants DEF Requests

LEMMA NoRequestIsOne == NoRequest \in Request
BY Bounds DEF NoRequest, Request, RequestStates

LEMMA ServerInitInv == ServerInit => ServerInv
<1> SUFFICES ASSUME ServerInit PROVE ServerInv
  OBVIOUS
<1>1. \A r \in Requests : rq[r] = NoRequest
  BY DEF ServerInit
<1>2. ServerTypeOK
  BY Bounds, NoRequestIsOne DEF ServerInit, ServerTypeOK
<1>3. /\ NoRequest.pc = "none" /\ NoRequest.inst = 0 /\ NoRequest.late = 0
  BY DEF NoRequest
<1>4. \A r \in Requests : Sound(rq[r], r)
  <2>1. Heeds(NoRequest)
    BY <1>3 DEF Heeds
  <2>2. "none" \notin ServingStates /\ "none" \notin Loading
    BY DEF ServingStates, Generating, Loading
  <2>3. \A r \in Requests : Holds(NoRequest, r)
    BY <1>3, <2>2, Bounds DEF Holds
  <2> QED
    BY <1>1, <2>1, <2>3, NoRequestIsOne DEF Sound
<1>5. Instances /\ ServesNamed /\ OneLoads /\ SizeFits
  BY <1>1, <1>3, Bounds DEF Instances, ServesNamed, OneLoads, SizeFits, ServerInit, ServingStates,
                            Generating, Loading
<1> QED
  BY <1>2, <1>4, <1>5 DEF ServerInv

-----------------------------------------------------------------------------
(* One request's record changes.                                           *)

\* R is what becomes of r: an instance it has loaded stays as it is, an instance
\* it takes is there, and it neither starts to load nor gets on with loading.
Keeps(R, r) ==
  /\ IF rq[r].inst = r THEN R.inst = r /\ R.model = rq[r].model /\ R.chosen = rq[r].chosen
                       ELSE R.inst # r
  /\ R.inst # 0 => R.inst \in Requests /\ rq[R.inst].inst = R.inst
  /\ R.pc \in ServingStates => R.model \in {NoModel, rq[R.inst].model}
  /\ R.pc \in Loading => R.pc = rq[r].pc /\ R.model = rq[r].model /\ R.chosen = rq[r].chosen

LEMMA KeepsStep ==
  ASSUME ServerInv, NEW r \in Requests, NEW R, Sound(R, r), Keeps(R, r),
         rq' = [rq EXCEPT ![r] = R], UNCHANGED <<loaded, ctxSize, loadsCrossed>>,
         activeRequests' \in SUBSET Requests
  PROVE  ServerInv'
<1>1. rq \in [Requests -> Request] /\ R \in Request
  BY DEF ServerInv, ServerTypeOK, Sound
<1>2. rq'[r] = R /\ \A q \in Requests : q # r => rq'[q] = rq[q]
  BY <1>1
<1>3. ServerTypeOK'
  BY <1>1 DEF ServerInv, ServerTypeOK
<1>4. \A q \in Requests : Sound(rq'[q], q)
  BY <1>2 DEF ServerInv
<1>5. \A q \in Requests : rq'[q].inst = q <=> rq[q].inst = q
  BY <1>2 DEF Keeps
<1>6. \A q \in Requests : rq'[q].inst = q => rq'[q].model = rq[q].model /\ rq'[q].chosen = rq[q].chosen
  BY <1>2 DEF Keeps
<1>7. \A q \in Requests : rq[q].inst # 0 => rq[q].inst \in Requests
  BY <1>1 DEF Request, Requests
<1>8. loaded # 0 => loaded \in Requests
  BY DEF ServerInv, ServerTypeOK, Requests
<1>9. Instances'
  <2>1. loaded' # 0 => rq'[loaded'].inst = loaded'
    BY <1>5, <1>8 DEF ServerInv, Instances
  <2>2. ASSUME NEW q \in Requests, rq'[q].inst # 0 PROVE rq'[rq'[q].inst].inst = rq'[q].inst
    <3>1. rq'[q].inst \in Requests /\ rq[rq'[q].inst].inst = rq'[q].inst
      BY <1>2, <1>7, <2>2 DEF Keeps, ServerInv, Instances
    <3> QED
      BY <1>5, <3>1
  <2> QED
    BY <2>1, <2>2 DEF Instances
<1>10. ServesNamed'
  <2> SUFFICES ASSUME NEW q \in Requests, rq'[q].pc \in ServingStates
               PROVE  rq'[q].inst # 0 /\ rq'[q].model \in {NoModel, rq'[rq'[q].inst].model}
    BY DEF ServesNamed, ServingStates
  <2>1. rq'[q].inst # 0
    BY <1>4 DEF Sound, Holds
  <2>2. /\ rq'[q].inst \in Requests /\ rq[rq'[q].inst].inst = rq'[q].inst
        /\ rq'[q].model \in {NoModel, rq[rq'[q].inst].model}
    <3>1. CASE q = r
      BY <1>2, <2>1, <3>1 DEF Keeps
    <3>2. CASE q # r
      BY <1>2, <1>7, <2>1, <3>2 DEF ServerInv, Instances, ServesNamed, ServingStates
    <3> QED
      BY <3>1, <3>2
  <2>3. rq'[rq'[q].inst].model = rq[rq'[q].inst].model
    BY <1>5, <1>6, <2>2
  <2> QED
    BY <2>1, <2>2, <2>3
<1>11. \A q \in Requests :
         rq'[q].pc \in Loading => /\ rq'[q].pc = rq[q].pc /\ rq'[q].model = rq[q].model
                                  /\ rq'[q].chosen = rq[q].chosen
  BY <1>2 DEF Keeps
<1>12. OneLoads'
  BY <1>11 DEF ServerInv, OneLoads
<1>13. SizeFits'
  <2> SUFFICES ASSUME ~loadsCrossed, NEW q \in Requests
               PROVE  /\ rq'[q].inst = q \/ rq'[q].pc = "install"
                           => ctxSize <= Fits[rq'[q].model] \/ rq'[q].chosen
                      /\ rq'[q].pc = "clamp" =>
                           \/ ctxSize > Fits[rq'[q].model]
                           \/ \A i \in Requests : rq'[i].inst = i => rq'[i].chosen
    BY DEF SizeFits
  <2> QED
    BY <1>5, <1>6, <1>11 DEF ServerInv, SizeFits, Loading
<1> QED
  BY <1>3, <1>4, <1>9, <1>10, <1>12, <1>13 DEF ServerInv

\* A request that is over, or never came to anything.
Ended(r) == IF rq[r].inst = r
              THEN [NoRequest EXCEPT !.pc = "over", !.inst = r, !.model = rq[r].model,
                                     !.chosen = rq[r].chosen]
              ELSE [NoRequest EXCEPT !.pc = "over"]

LEMMA EndedFits ==
  ASSUME ServerInv, NEW r \in Requests
  PROVE  Sound(Ended(r), r) /\ Keeps(Ended(r), r)
<1>1. rq[r] \in Request /\ Holds(rq[r], r)
  BY DEF ServerInv, Sound
<1>2. CASE rq[r].inst = r
  <2>1. Ended(r) = [kind |-> "load", model |-> rq[r].model, pc |-> "over", flag |-> FALSE,
                    inst |-> r, chan |-> 0, late |-> 0, gone |-> FALSE, chosen |-> rq[r].chosen]
    BY <1>2 DEF Ended, NoRequest
  <2>2. rq[r].model \in ServedModels \cup {NoModel} /\ rq[r].chosen \in BOOLEAN /\ rq[r].model # NoModel
    BY <1>1, <1>2 DEF Request, Holds
  <2>3. Ended(r) \in Request
    BY <2>1, <2>2, Bounds DEF Request, RequestStates
  <2>4. /\ Ended(r).pc = "over" /\ Ended(r).inst = r /\ Ended(r).model = rq[r].model
        /\ Ended(r).chosen = rq[r].chosen /\ Ended(r).late = 0
    BY <2>1
  <2> HIDE DEF Ended
  <2> QED
    BY <1>2, <2>2, <2>3, <2>4, Bounds DEF Sound, Keeps, Heeds, Holds, ServingStates, Generating, Loading
<1>3. CASE rq[r].inst # r
  <2>1. Ended(r) = [NoRequest EXCEPT !.pc = "over"]
    BY <1>3 DEF Ended
  <2>2. Ended(r) \in Request /\ Ended(r).pc = "over" /\ Ended(r).inst = 0 /\ Ended(r).late = 0
    BY <2>1, NoRequestIsOne DEF Request, NoRequest, RequestStates
  <2> HIDE DEF Ended
  <2> QED
    BY <1>3, <2>2, Bounds DEF Sound, Keeps, Heeds, Holds, ServingStates, Generating, Loading
<1> QED
  BY <1>2, <1>3

\* A request that has not ended goes on with what it holds.
LEMMA GoesOn ==
  ASSUME ServerInv, NEW r \in Requests, NEW R \in Request, Heeds(R),
         R.inst = rq[r].inst, R.model = rq[r].model, R.chosen = rq[r].chosen,
         R.pc = rq[r].pc \/ (rq[r].pc \in ServingStates /\ R.pc \in ServingStates)
  PROVE  Sound(R, r) /\ Keeps(R, r)
<1>1. Holds(rq[r], r) /\ rq[r] \in Request
  BY DEF ServerInv, Sound
<1>2. Sound(R, r)
  BY <1>1 DEF Sound, Holds, ServingStates, Generating, Loading
<1>3. R.inst # 0 => R.inst \in Requests /\ rq[R.inst].inst = R.inst
  BY <1>1 DEF ServerInv, Instances, Request, Requests
<1>4. R.pc \in ServingStates => R.model \in {NoModel, rq[R.inst].model}
  BY DEF ServerInv, ServesNamed, ServingStates
<1>5. R.pc \in Loading => R.pc = rq[r].pc
  BY DEF ServingStates, Generating, Loading
<1> QED
  BY <1>2, <1>3, <1>4, <1>5 DEF Keeps

-----------------------------------------------------------------------------
(* The steps of the requests.                                              *)

LEMMA Fields ==
  ASSUME ServerInv, NEW r \in Requests
  PROVE  /\ rq \in [Requests -> Request] /\ rq[r] \in Request
         /\ rq[r].flag \in BOOLEAN /\ rq[r].late \in 0 .. 2 /\ rq[r].chan \in 0 .. Capacity
         /\ rq[r].inst \in 0 .. MaxServed /\ Heeds(rq[r]) /\ Holds(rq[r], r)
BY DEF ServerInv, ServerTypeOK, Sound, Request

LEMMA ArriveStep ==
  ASSUME ServerInv, NEW r \in Requests, Arrive(r) PROVE ServerInv'
<1>1. PICK kind \in {"load", "chat", "stream"}, m \in ServedModels \cup {NoModel} :
        rq' = [rq EXCEPT ![r] = [NoRequest EXCEPT !.kind = kind, !.model = m, !.pc = "resolve"]]
  BY DEF Arrive
<1> DEFINE R == [NoRequest EXCEPT !.kind = kind, !.model = m, !.pc = "resolve"]
<1>2. R \in Request /\ R.pc = "resolve" /\ R.inst = 0 /\ R.late = 0
  BY NoRequestIsOne DEF NoRequest, Request, RequestStates
<1>3. rq[r].inst = 0
  BY Fields DEF Arrive, Holds
<1>4. /\ rq' = [rq EXCEPT ![r] = R] /\ UNCHANGED <<loaded, ctxSize, loadsCrossed>>
      /\ activeRequests' \in SUBSET Requests
  BY <1>1 DEF Arrive, ServerInv, ServerTypeOK
<1> HIDE DEF R
<1>5. Sound(R, r) /\ Keeps(R, r)
  BY <1>2, <1>3, Bounds DEF Sound, Keeps, Heeds, Holds, ServingStates, Generating, Loading
<1> QED
  BY <1>4, <1>5, KeepsStep

LEMMA EndStep ==
  ASSUME ServerInv, NEW r \in Requests, EndedServed(r),
         UNCHANGED <<loaded, ctxSize, loadsCrossed>>, activeRequests' \in SUBSET Requests
  PROVE  ServerInv'
<1>1. rq' = [rq EXCEPT ![r] = Ended(r)]
  BY DEF EndedServed, Ended
<1> QED
  BY <1>1, EndedFits, KeepsStep

LEMMA GoOnStep ==
  ASSUME ServerInv, NEW r \in Requests, NEW R \in Request, Heeds(R),
         R.inst = rq[r].inst, R.model = rq[r].model, R.chosen = rq[r].chosen,
         R.pc = rq[r].pc \/ (rq[r].pc \in ServingStates /\ R.pc \in ServingStates),
         rq' = [rq EXCEPT ![r] = R], UNCHANGED <<activeRequests, loaded, ctxSize, loadsCrossed>>
  PROVE  ServerInv'
<1>1. activeRequests' \in SUBSET Requests
  BY DEF ServerInv, ServerTypeOK
<1> QED
  BY <1>1, GoesOn, KeepsStep

\* A generation moves on, or a request waits for another reason.
LEMMA GenerationStep ==
  ASSUME ServerInv, NEW r \in Requests,
         BeginGeneration(r) \/ Check(r) \/ Emit(r) \/ Close(r) \/ ClientReads(r) \/ Drained(r)
           \/ ClientLeaves(r)
  PROVE  ServerInv'
<1>1. /\ rq \in [Requests -> Request] /\ rq[r] \in Request /\ Heeds(rq[r])
      /\ rq[r].flag \in BOOLEAN /\ rq[r].late \in 0 .. 2 /\ rq[r].chan \in 0 .. Capacity
  BY Fields
<1>2. UNCHANGED <<loaded, ctxSize, loadsCrossed>> /\ activeRequests' \in SUBSET Requests
  BY DEF ServerInv, ServerTypeOK, BeginGeneration, Check, Emit, Close, ClientReads, Drained,
         ClientLeaves, OverServed
<1>3. \A pc \in RequestStates :
        LET R == [rq[r] EXCEPT !.pc = pc]
        IN  /\ R \in Request /\ R.pc = pc /\ R.inst = rq[r].inst /\ R.model = rq[r].model
            /\ R.chosen = rq[r].chosen /\ R.late = rq[r].late /\ R.flag = rq[r].flag
  BY <1>1 DEF Request
<1>4. ASSUME NEW pc \in ServingStates, ToState(r, pc), rq[r].pc \in ServingStates, UNCHANGED activeRequests,
             pc = "emit" => ~rq[r].flag
      PROVE  ServerInv'
  <2> DEFINE R == [rq[r] EXCEPT !.pc = pc]
  <2>1. rq' = [rq EXCEPT ![r] = R]
    BY <1>1, <1>4 DEF ToState
  <2>2. /\ R \in Request /\ R.pc = pc /\ R.inst = rq[r].inst /\ R.model = rq[r].model
        /\ R.chosen = rq[r].chosen /\ R.late = rq[r].late /\ R.flag = rq[r].flag
    BY <1>3, <1>4 DEF ServingStates, Generating, RequestStates
  <2> HIDE DEF R
  <2>3. Heeds(R)
    BY <1>1, <1>4, <2>2 DEF Heeds
  <2> QED
    BY <1>2, <1>4, <2>1, <2>2, <2>3, GoOnStep
<1>5. CASE BeginGeneration(r)
  BY <1>4, <1>5 DEF BeginGeneration, ServingStates, Generating
<1>6. CASE Check(r)
  BY <1>4, <1>6 DEF Check, SeesFlag, ServingStates, Generating
<1>7. CASE Emit(r)
  <2>1. CASE ToState(r, "close")
    BY <1>4, <1>7, <2>1 DEF Emit, ServingStates, Generating
  <2> DEFINE n == IF rq[r].kind = "stream" THEN rq[r].chan + 1 ELSE rq[r].chan
             k == IF rq[r].flag /\ rq[r].late < 2 THEN rq[r].late + 1 ELSE rq[r].late
             R == [rq[r] EXCEPT !.pc = "check", !.chan = n, !.late = k]
  <2>2. CASE /\ rq[r].kind = "stream" => rq[r].chan < Capacity
             /\ rq' = [rq EXCEPT ![r].pc = "check",
                                 ![r].chan = IF rq[r].kind = "stream" THEN @ + 1 ELSE @,
                                 ![r].late = IF rq[r].flag /\ @ < 2 THEN @ + 1 ELSE @]
    <3>1. rq' = [rq EXCEPT ![r] = R]
      BY <1>1, <2>2 DEF Request
    <3>2. n \in 0 .. Capacity /\ k \in 0 .. 2
      BY <1>1, <2>2, ServerConstants
    <3>3. rq[r].late = 0
      BY <1>1, <1>7 DEF Heeds, Emit
    <3>4. k = 0 \/ (k = 1 /\ rq[r].flag)
      BY <3>3
    <3> HIDE DEF n, k
    <3>5. /\ R \in Request /\ R.pc = "check" /\ R.inst = rq[r].inst /\ R.model = rq[r].model
          /\ R.chosen = rq[r].chosen /\ R.late = k /\ R.flag = rq[r].flag
      BY <1>1, <3>2 DEF Request, RequestStates
    <3> HIDE DEF R
    <3>6. Heeds(R)
      BY <3>4, <3>5 DEF Heeds
    <3>7. rq[r].pc \in ServingStates /\ R.pc \in ServingStates /\ UNCHANGED activeRequests
      BY <1>7, <3>5 DEF Emit, ServingStates, Generating
    <3> QED
      BY <1>2, <3>1, <3>5, <3>6, <3>7, GoOnStep
  <2> HIDE DEF n, k, R
  <2> QED
    BY <1>7, <2>1, <2>2 DEF Emit
<1>8. CASE Close(r)
  <2>1. CASE rq[r].kind = "stream"
    <3> DEFINE n == IF rq[r].gone THEN 0 ELSE rq[r].chan + 1
               R == [rq[r] EXCEPT !.pc = "drain", !.chan = n]
    <3>1. rq' = [rq EXCEPT ![r] = R]
      BY <1>1, <1>8, <2>1 DEF Close, Request
    <3>2. n \in 0 .. Capacity
      BY <1>1, <1>8, <2>1, ServerConstants DEF Close
    <3> HIDE DEF n
    <3>3. /\ R \in Request /\ R.pc = "drain" /\ R.inst = rq[r].inst /\ R.model = rq[r].model
          /\ R.chosen = rq[r].chosen /\ R.late = rq[r].late /\ R.flag = rq[r].flag
      BY <1>1, <3>2 DEF Request, RequestStates
    <3> HIDE DEF R
    <3>4. rq[r].pc \in ServingStates /\ R.pc \in ServingStates /\ UNCHANGED activeRequests /\ Heeds(R)
      BY <1>1, <1>8, <2>1, <3>3 DEF Close, ServingStates, Generating, Heeds
    <3> QED
      BY <1>2, <3>1, <3>3, <3>4, GoOnStep
  <2>2. CASE rq[r].kind # "stream"
    BY <1>2, <1>8, <2>2, EndStep DEF Close, OverServed
  <2> QED
    BY <2>1, <2>2
<1>9. CASE ClientReads(r)
  <2> DEFINE R == [rq[r] EXCEPT !.chan = rq[r].chan - 1]
  <2>1. rq' = [rq EXCEPT ![r] = R] /\ UNCHANGED activeRequests
    BY <1>1, <1>9 DEF ClientReads, Request
  <2>2. rq[r].chan - 1 \in 0 .. Capacity
    BY <1>1, <1>9, ServerConstants DEF ClientReads
  <2>3. /\ R \in Request /\ R.pc = rq[r].pc /\ R.inst = rq[r].inst /\ R.model = rq[r].model
        /\ R.chosen = rq[r].chosen /\ R.late = rq[r].late /\ R.flag = rq[r].flag
    BY <1>1, <2>2 DEF Request
  <2> HIDE DEF R
  <2>4. Heeds(R)
    BY <1>1, <2>3 DEF Heeds
  <2> QED
    BY <1>2, <2>1, <2>3, <2>4, GoOnStep
<1>10. CASE Drained(r)
  BY <1>2, <1>10, EndStep DEF Drained, OverServed
<1>11. CASE ClientLeaves(r)
  <2>1. CASE rq[r].pc = "load"
    BY <1>2, <1>11, <2>1, EndStep DEF ClientLeaves
  <2>2. CASE rq[r].pc # "load"
    <3> DEFINE R == [rq[r] EXCEPT !.gone = TRUE, !.chan = 0]
    <3>1. rq' = [rq EXCEPT ![r] = R] /\ UNCHANGED activeRequests
      BY <1>1, <1>11, <2>2 DEF ClientLeaves, Request
    <3>2. /\ R \in Request /\ R.pc = rq[r].pc /\ R.inst = rq[r].inst /\ R.model = rq[r].model
          /\ R.chosen = rq[r].chosen /\ R.late = rq[r].late /\ R.flag = rq[r].flag
      BY <1>1, Bounds DEF Request
    <3> HIDE DEF R
    <3>3. Heeds(R)
      BY <1>1, <3>2 DEF Heeds
    <3> QED
      BY <1>2, <3>1, <3>2, <3>3, GoOnStep
  <2> QED
    BY <2>1, <2>2
<1> QED
  BY <1>5, <1>6, <1>7, <1>8, <1>9, <1>10, <1>11

\* A request that finds what it asks for takes a share of it.
LEMMA TakeLoadedStep ==
  ASSUME ServerInv, NEW r \in Requests, TakeLoaded(r) PROVE ServerInv'
<1> DEFINE R == [rq[r] EXCEPT !.pc = AfterLoad(r), !.inst = loaded]
<1>1. rq \in [Requests -> Request] /\ rq[r] \in Request /\ Heeds(rq[r]) /\ Holds(rq[r], r)
  BY Fields
<1>2. rq' = [rq EXCEPT ![r] = R] /\ UNCHANGED <<activeRequests, loaded, ctxSize, loadsCrossed>>
  BY <1>1 DEF TakeLoaded, Request
<1>3. AfterLoad(r) \in {"over", "begin"}
  BY DEF AfterLoad
<1>4. loaded # 0 /\ loaded \in Requests /\ rq[loaded].inst = loaded
      /\ rq[r].model \in {NoModel, rq[loaded].model}
  BY DEF TakeLoaded, IsLoaded, ServerInv, ServerTypeOK, Instances, Requests
<1>5. rq[r].inst = 0 /\ rq[r].pc = "resolve"
  BY <1>1 DEF TakeLoaded, Holds
<1>6. R \in Request /\ R.pc = AfterLoad(r) /\ R.inst = loaded /\ R.model = rq[r].model
      /\ R.late = rq[r].late /\ R.flag = rq[r].flag
  BY <1>1, <1>3, <1>4, Bounds DEF Request, RequestStates
<1> HIDE DEF R
<1>7. loaded # r
  BY <1>4, <1>5
<1>8. Sound(R, r)
  BY <1>1, <1>3, <1>4, <1>6, <1>7 DEF Sound, Heeds, Holds, Loading
<1>9. Keeps(R, r)
  BY <1>3, <1>4, <1>5, <1>6, <1>7, Bounds DEF Keeps, Loading
<1>10. activeRequests' \in SUBSET Requests
  BY <1>2 DEF ServerInv, ServerTypeOK
<1> QED
  BY <1>2, <1>8, <1>9, <1>10, KeepsStep

-----------------------------------------------------------------------------
(* A load.  Only one is under way unless two have crossed.                 *)

\* A request gets on with loading: no instance is made or taken.
LEMMA LoadFrame ==
  ASSUME ServerInv, NEW r \in Requests, NEW pc \in Loading, ToState(r, pc),
         rq[r].inst = 0, rq[r].model # NoModel,
         UNCHANGED <<activeRequests, loaded>>, ctxSize' \in Contexts, loadsCrossed' \in BOOLEAN
  PROVE  /\ ServerTypeOK' /\ (\A q \in Requests : Sound(rq'[q], q)) /\ Instances' /\ ServesNamed'
         /\ \A q \in Requests : /\ q # r => rq'[q] = rq[q]
                                /\ rq'[q].inst = rq[q].inst /\ rq'[q].model = rq[q].model
                                /\ rq'[q].chosen = rq[q].chosen
         /\ rq'[r].pc = pc
<1> DEFINE R == [rq[r] EXCEPT !.pc = pc]
<1>1. rq \in [Requests -> Request] /\ rq[r] \in Request /\ Heeds(rq[r]) /\ Holds(rq[r], r)
  BY Fields
<1>2. rq' = [rq EXCEPT ![r] = R]
  BY <1>1 DEF ToState
<1>3. /\ R \in Request /\ R.pc = pc /\ R.inst = rq[r].inst /\ R.model = rq[r].model
      /\ R.chosen = rq[r].chosen /\ R.late = rq[r].late /\ R.flag = rq[r].flag
  BY <1>1 DEF Request, RequestStates, Loading
<1> HIDE DEF R
<1>4. Sound(R, r)
  BY <1>1, <1>3, Bounds DEF Sound, Heeds, Holds, ServingStates, Generating, Loading
<1>5. /\ \A q \in Requests : /\ q # r => rq'[q] = rq[q]
                             /\ rq'[q].inst = rq[q].inst /\ rq'[q].model = rq[q].model
                             /\ rq'[q].chosen = rq[q].chosen
      /\ rq'[r] = R
  BY <1>1, <1>2, <1>3
<1>6. ServerTypeOK'
  BY <1>1, <1>2, <1>3 DEF ServerInv, ServerTypeOK
<1>7. \A q \in Requests : Sound(rq'[q], q)
  BY <1>4, <1>5 DEF ServerInv
<1>8. \A q \in Requests : rq[q].inst # 0 => rq[q].inst \in Requests
  BY <1>1 DEF Request, Requests
<1>9. loaded # 0 => loaded \in Requests
  BY DEF ServerInv, ServerTypeOK, Requests
<1>10. Instances'
  BY <1>5, <1>8, <1>9 DEF ServerInv, Instances
<1>11. ServesNamed'
  <2> SUFFICES ASSUME NEW q \in Requests, rq'[q].pc \in ServingStates
               PROVE  rq'[q].inst # 0 /\ rq'[q].model \in {NoModel, rq'[rq'[q].inst].model}
    BY DEF ServesNamed, ServingStates
  <2>1. q # r
    BY <1>3, <1>5 DEF ServingStates, Generating, Loading
  <2>2. rq[q].inst # 0 /\ rq[q].model \in {NoModel, rq[rq[q].inst].model}
    BY <1>5, <2>1 DEF ServerInv, ServesNamed, ServingStates
  <2> QED
    BY <1>5, <1>8, <2>1, <2>2
<1> QED
  BY <1>3, <1>5, <1>6, <1>7, <1>10, <1>11

LEMMA BeginLoadStep ==
  ASSUME ServerInv, NEW r \in Requests, BeginLoad(r) PROVE ServerInv'
<1>1. /\ ToState(r, "load") /\ rq[r].inst = 0 /\ rq[r].model # NoModel
      /\ loadsCrossed' \in BOOLEAN /\ UNCHANGED <<activeRequests, loaded, ctxSize>> /\ ctxSize' \in Contexts
  BY Fields DEF BeginLoad, Holds, ServerInv, ServerTypeOK
<1>2. /\ ServerTypeOK' /\ (\A q \in Requests : Sound(rq'[q], q)) /\ Instances' /\ ServesNamed'
      /\ \A q \in Requests : /\ q # r => rq'[q] = rq[q]
                             /\ rq'[q].inst = rq[q].inst /\ rq'[q].model = rq[q].model
                             /\ rq'[q].chosen = rq[q].chosen
      /\ rq'[r].pc = "load"
  BY <1>1, LoadFrame DEF Loading
<1>3. ~loadsCrossed' => ~loadsCrossed /\ \A q \in Requests \ {r} : rq[q].pc \notin Loading
  BY DEF BeginLoad
<1>4. OneLoads'
  BY <1>2, <1>3 DEF OneLoads
<1>5. SizeFits'
  BY <1>1, <1>2, <1>3 DEF ServerInv, SizeFits
<1> QED
  BY <1>2, <1>4, <1>5 DEF ServerInv

\* The models that are looked up are models.
LEMMA FitsOf ==
  ASSUME ServerInv, NEW q \in Requests, rq[q].inst = q \/ rq[q].pc \in Loading
  PROVE  Fits[rq[q].model] \in Contexts
<1>1. rq[q].model \in ServedModels
  BY Fields DEF Request, Holds
<1> QED
  BY <1>1, ServerConstants

LEMMA PriceStep ==
  ASSUME ServerInv, NEW r \in Requests, Price(r) PROVE ServerInv'
<1> DEFINE pc == IF TooLarge(r) THEN "clamp" ELSE "install"
<1>1. /\ ToState(r, pc) /\ rq[r].inst = 0 /\ rq[r].model # NoModel /\ pc \in Loading
      /\ rq[r].pc \in Loading
      /\ UNCHANGED <<activeRequests, loaded, ctxSize, loadsCrossed>>
      /\ ctxSize' \in Contexts /\ loadsCrossed' \in BOOLEAN
  BY Fields DEF Price, Holds, ServerInv, ServerTypeOK, Loading
<1>2. TooLarge(r) <=> ctxSize > Fits[rq[r].model]
  BY DEF TooLarge
<1>3. pc = "clamp" => ctxSize > Fits[rq[r].model]
  BY <1>2
<1>4. pc = "install" => ctxSize <= Fits[rq[r].model]
  <2>1. Fits[rq[r].model] \in Contexts /\ ctxSize \in Contexts
    BY <1>1, FitsOf DEF ServerInv, ServerTypeOK
  <2> QED
    BY <1>2, <2>1 DEF Contexts
<1> HIDE DEF pc
<1>5. /\ ServerTypeOK' /\ (\A q \in Requests : Sound(rq'[q], q)) /\ Instances' /\ ServesNamed'
      /\ \A q \in Requests : /\ q # r => rq'[q] = rq[q]
                             /\ rq'[q].inst = rq[q].inst /\ rq'[q].model = rq[q].model
                             /\ rq'[q].chosen = rq[q].chosen
      /\ rq'[r].pc = pc
  BY <1>1, LoadFrame
<1>6. OneLoads'
  BY <1>1, <1>5 DEF ServerInv, OneLoads
<1>7. SizeFits'
  BY <1>1, <1>3, <1>4, <1>5 DEF ServerInv, SizeFits
<1> QED
  BY <1>5, <1>6, <1>7 DEF ServerInv

\* The size is lowered to what the model leaves room for, unless the user has
\* set it in the meantime: for every instance, then.
LEMMA ClampStep ==
  ASSUME ServerInv, NEW r \in Requests, Clamp(r) PROVE ServerInv'
<1>1. /\ ToState(r, "install") /\ rq[r].inst = 0 /\ rq[r].model # NoModel /\ rq[r].pc = "clamp"
      /\ rq[r].pc \in Loading /\ ctxSize' = Fits[rq[r].model]
      /\ UNCHANGED <<activeRequests, loaded, loadsCrossed>> /\ loadsCrossed' \in BOOLEAN
  BY Fields DEF Clamp, Clamped, Holds, ServerInv, ServerTypeOK, Loading
<1>2. ctxSize' \in Contexts /\ ctxSize \in Contexts
  BY <1>1, FitsOf DEF ServerInv, ServerTypeOK
<1>3. /\ ServerTypeOK' /\ (\A q \in Requests : Sound(rq'[q], q)) /\ Instances' /\ ServesNamed'
      /\ \A q \in Requests : /\ q # r => rq'[q] = rq[q]
                             /\ rq'[q].inst = rq[q].inst /\ rq'[q].model = rq[q].model
                             /\ rq'[q].chosen = rq[q].chosen
      /\ rq'[r].pc = "install"
  BY <1>1, <1>2, LoadFrame DEF Loading
<1>4. OneLoads'
  BY <1>1, <1>3 DEF ServerInv, OneLoads
<1>5. SizeFits'
  <2> SUFFICES ASSUME ~loadsCrossed, NEW q \in Requests
               PROVE  /\ rq'[q].inst = q \/ rq'[q].pc = "install"
                           => ctxSize' <= Fits[rq'[q].model] \/ rq'[q].chosen
                      /\ rq'[q].pc = "clamp" =>
                           \/ ctxSize' > Fits[rq'[q].model]
                           \/ \A i \in Requests : rq'[i].inst = i => rq'[i].chosen
    BY <1>1 DEF SizeFits
  <2>1. q # r => rq[q].pc \notin Loading
    BY <1>1 DEF ServerInv, OneLoads
  <2>2. rq'[q].pc # "clamp"
    BY <1>3, <2>1 DEF Loading
  <2>3. CASE q = r
    <3>1. ctxSize' <= Fits[rq'[q].model]
      BY <1>1, <1>2, <1>3, <2>3 DEF Contexts
    <3> QED
      BY <2>2, <3>1
  <2>4. CASE q # r
    <3>1. rq'[q].pc # "install"
      BY <1>3, <2>1, <2>4 DEF Loading
    <3>2. ASSUME rq[q].inst = q PROVE ctxSize' <= Fits[rq[q].model] \/ rq[q].chosen
      <4>1. ctxSize <= Fits[rq[q].model] \/ rq[q].chosen
        BY <3>2 DEF ServerInv, SizeFits
      <4>2. ctxSize > Fits[rq[r].model] \/ rq[q].chosen
        BY <1>1, <3>2 DEF ServerInv, SizeFits
      <4>3. Fits[rq[q].model] \in Contexts
        BY <3>2, FitsOf
      <4> QED
        BY <1>1, <1>2, <4>1, <4>2, <4>3 DEF Contexts
    <3> QED
      BY <1>3, <2>2, <3>1, <3>2
  <2> QED
    BY <2>3, <2>4
<1> QED
  BY <1>3, <1>4, <1>5 DEF ServerInv

\* What has been loaded is installed, and held by who has loaded it.
LEMMA InstallStep ==
  ASSUME ServerInv, NEW r \in Requests, Install(r) PROVE ServerInv'
<1> DEFINE R == [rq[r] EXCEPT !.pc = AfterLoad(r), !.inst = r]
<1>1. rq \in [Requests -> Request] /\ rq[r] \in Request /\ Heeds(rq[r]) /\ Holds(rq[r], r)
  BY Fields
<1>2. /\ rq' = [rq EXCEPT ![r] = R] /\ UNCHANGED <<activeRequests, ctxSize, loadsCrossed>>
      /\ loaded' = r
  BY <1>1 DEF Install, Handle, Request
<1>3. AfterLoad(r) \in {"over", "begin"}
  BY DEF AfterLoad
<1>4. rq[r].inst = 0 /\ rq[r].pc = "install" /\ rq[r].model # NoModel
  BY <1>1 DEF Install, Holds, Loading
<1>5. /\ R \in Request /\ R.pc = AfterLoad(r) /\ R.inst = r /\ R.model = rq[r].model
      /\ R.late = rq[r].late /\ R.flag = rq[r].flag /\ R.chosen = rq[r].chosen
  BY <1>1, <1>3, Bounds DEF Request, RequestStates
<1> HIDE DEF R
<1>6. rq'[r] = R /\ \A q \in Requests : q # r => rq'[q] = rq[q]
  BY <1>1, <1>2
<1>7. Sound(R, r)
  BY <1>1, <1>3, <1>4, <1>5, Bounds DEF Sound, Heeds, Holds, Loading
<1>8. ServerTypeOK'
  BY <1>1, <1>2, <1>5, Bounds DEF ServerInv, ServerTypeOK
<1>9. \A q \in Requests : Sound(rq'[q], q)
  BY <1>6, <1>7 DEF ServerInv
<1>10. \A q \in Requests : rq[q].inst # 0 => rq[q].inst \in Requests
  BY <1>1 DEF Request, Requests
<1>11. \A q \in Requests : rq[q].inst # r
  BY <1>4, Bounds DEF ServerInv, Instances
<1>12. Instances'
  BY <1>2, <1>5, <1>6, <1>10, <1>11 DEF ServerInv, Instances
<1>13. ServesNamed'
  <2> SUFFICES ASSUME NEW q \in Requests, rq'[q].pc \in ServingStates
               PROVE  rq'[q].inst # 0 /\ rq'[q].model \in {NoModel, rq'[rq'[q].inst].model}
    BY DEF ServesNamed, ServingStates
  <2>1. CASE q = r
    BY <1>5, <1>6, <2>1, Bounds
  <2>2. CASE q # r
    <3>1. rq[q].inst # 0 /\ rq[q].model \in {NoModel, rq[rq[q].inst].model}
      BY <1>6, <2>2 DEF ServerInv, ServesNamed, ServingStates
    <3> QED
      BY <1>6, <1>10, <1>11, <2>2, <3>1
  <2> QED
    BY <2>1, <2>2
<1>14. R.pc \notin Loading
  BY <1>3, <1>5 DEF Loading
<1>15. OneLoads'
  BY <1>2, <1>6, <1>14 DEF ServerInv, OneLoads
<1>16. SizeFits'
  <2> SUFFICES ASSUME ~loadsCrossed, NEW q \in Requests
               PROVE  /\ rq'[q].inst = q \/ rq'[q].pc = "install"
                           => ctxSize <= Fits[rq'[q].model] \/ rq'[q].chosen
                      /\ rq'[q].pc # "clamp"
    BY <1>2 DEF SizeFits
  <2>1. CASE q = r
    BY <1>4, <1>5, <1>6, <1>14, <2>1 DEF ServerInv, SizeFits, Loading
  <2>2. CASE q # r
    <3>1. rq[q].pc \notin Loading
      BY <1>4, <2>2 DEF ServerInv, OneLoads, Loading
    <3> QED
      BY <1>6, <2>2, <3>1 DEF ServerInv, SizeFits, Loading
  <2> QED
    BY <2>1, <2>2
<1> QED
  BY <1>8, <1>9, <1>12, <1>13, <1>15, <1>16 DEF ServerInv

-----------------------------------------------------------------------------
(* What reaches all requests at once.                                      *)

\* Flags and choices change, nothing else.
LEMMA AllFrame ==
  ASSUME ServerInv, rq' \in [Requests -> Request],
         \A r \in Requests :
           /\ rq'[r].pc = rq[r].pc /\ rq'[r].inst = rq[r].inst /\ rq'[r].model = rq[r].model
           /\ rq'[r].late = rq[r].late /\ (rq[r].flag => rq'[r].flag),
         loaded' \in {0, loaded}, ctxSize' \in Contexts, UNCHANGED <<activeRequests, loadsCrossed>>
  PROVE  /\ ServerTypeOK' /\ (\A q \in Requests : Sound(rq'[q], q)) /\ Instances' /\ ServesNamed'
         /\ OneLoads'
<1>1. ServerTypeOK'
  BY Bounds DEF ServerInv, ServerTypeOK
<1>2. \A q \in Requests : Sound(rq'[q], q)
  BY DEF ServerInv, Sound, Heeds, Holds
<1>3. \A q \in Requests : rq[q].inst # 0 => rq[q].inst \in Requests
  BY Fields DEF Requests
<1>4. loaded # 0 => loaded \in Requests
  BY DEF ServerInv, ServerTypeOK, Requests
<1>5. Instances'
  BY <1>3, <1>4 DEF ServerInv, Instances
<1>6. ServesNamed'
  BY <1>3 DEF ServerInv, ServesNamed
<1>7. OneLoads'
  BY DEF ServerInv, OneLoads
<1> QED
  BY <1>1, <1>2, <1>5, <1>6, <1>7

LEMMA AllStep == ASSUME ServerInv, Abort \/ Unload \/ SetContextSize PROVE ServerInv'
<1>1. rq \in [Requests -> Request] /\ ctxSize \in Contexts
  BY DEF ServerInv, ServerTypeOK
<1>2. CASE Abort
  <2>1. /\ rq' \in [Requests -> Request]
        /\ \A r \in Requests :
             /\ rq'[r].pc = rq[r].pc /\ rq'[r].inst = rq[r].inst /\ rq'[r].model = rq[r].model
             /\ rq'[r].late = rq[r].late /\ (rq[r].flag => rq'[r].flag)
             /\ rq'[r].chosen = rq[r].chosen
    BY <1>1, <1>2 DEF Abort, Request
  <2>2. UNCHANGED <<activeRequests, loaded, ctxSize, loadsCrossed>>
    BY <1>2 DEF Abort
  <2>3. SizeFits'
    BY <2>1, <2>2 DEF ServerInv, SizeFits
  <2> QED
    BY <1>1, <2>1, <2>2, <2>3, AllFrame DEF ServerInv
<1>3. CASE Unload
  <2>1. UNCHANGED <<rq, activeRequests, ctxSize, loadsCrossed>> /\ loaded' = 0
    BY <1>3 DEF Unload
  <2>2. SizeFits'
    BY <2>1 DEF ServerInv, SizeFits
  <2> QED
    BY <1>1, <2>1, <2>2, AllFrame DEF ServerInv
<1>4. CASE SetContextSize
  <2>1. \A r \in Requests : Priced(r) \in BOOLEAN
    BY DEF Priced
  <2>2. rq' = [r \in Requests |-> [rq[r] EXCEPT !.chosen = Priced(r)]]
    BY <1>4 DEF SetContextSize
  <2>3. \A r \in Requests :
          /\ rq'[r] \in Request
          /\ rq'[r].pc = rq[r].pc /\ rq'[r].inst = rq[r].inst /\ rq'[r].model = rq[r].model
          /\ rq'[r].late = rq[r].late /\ (rq[r].flag => rq'[r].flag)
          /\ rq'[r].chosen = Priced(r)
    BY <1>1, <2>1, <2>2 DEF Request
  <2>4. UNCHANGED <<activeRequests, loaded, loadsCrossed>> /\ ctxSize' \in Contexts
    BY <1>4 DEF SetContextSize
  <2>5. \A r \in Requests :
          rq'[r].inst = r \/ rq'[r].pc \in {"clamp", "install"} => rq'[r].chosen
    BY <2>3 DEF Priced
  <2>6. SizeFits'
    BY <2>5 DEF SizeFits
  <2> QED
    BY <2>2, <2>3, <2>4, <2>6, AllFrame DEF ServerInv
<1> QED
  BY <1>2, <1>3, <1>4

-----------------------------------------------------------------------------
LEMMA ServerInvariance == ServerInv /\ [ServerNext]_serverVars => ServerInv'
<1> SUFFICES ASSUME ServerInv, [ServerNext]_serverVars PROVE ServerInv'
  OBVIOUS
<1>1. CASE UNCHANGED serverVars
  <2>1. UNCHANGED <<rq, activeRequests, loaded, ctxSize, loadsCrossed>>
    BY <1>1 DEF serverVars
  <2>2. rq' \in [Requests -> Request] /\ ctxSize' \in Contexts
    BY <2>1 DEF ServerInv, ServerTypeOK
  <2>3. SizeFits'
    BY <2>1 DEF ServerInv, SizeFits
  <2> QED
    BY <2>1, <2>2, <2>3, AllFrame DEF ServerInv
<1>2. ASSUME NEW r \in Requests, Refuse(r) PROVE ServerInv'
  <2>1. activeRequests' \in SUBSET Requests
    BY <1>2 DEF Refuse, OverServed, ServerInv, ServerTypeOK
  <2> QED
    BY <1>2, <2>1, EndStep DEF Refuse, OverServed
<1> QED
  BY <1>1, <1>2, AllStep, ArriveStep, GenerationStep, TakeLoadedStep, BeginLoadStep, PriceStep,
     ClampStep, InstallStep DEF ServerNext, Serve

\* The runtime's state keeps its shape, for any number of requests and models
\* and any room of the channel.
THEOREM ServerTypeCorrect == ServerSpec => []ServerTypeOK
<1>1. ServerInv => ServerTypeOK
  BY DEF ServerInv
<1> QED
  BY <1>1, ServerInitInv, ServerInvariance, PTL DEF ServerSpec

\* A request is answered by the model it named; a size carried over from another
\* model fits, unless the user chose it or two loads crossed; and an aborted
\* generation sends one more token at most.
THEOREM RequestsAreServed == ServerSpec => []ServerSafe
<1>1. ServerInv => ServerSafe
  <2> SUFFICES ASSUME ServerInv PROVE ServesNamed /\ FitsOrChosen /\ StopsWithinOneToken
    BY DEF ServerSafe
  <2>1. \A r \in Requests : rq[r].late <= 1
    BY DEF ServerInv, Sound, Heeds
  <2>2. ASSUME NEW r \in Requests, rq[r].pc = "begin", ~loadsCrossed
        PROVE  ctxSize <= Fits[rq[rq[r].inst].model] \/ rq[rq[r].inst].chosen
    <3>1. rq[r].inst # 0 /\ rq[r].inst \in Requests
      BY <2>2, Fields DEF Holds, ServingStates, Requests
    <3>2. rq[rq[r].inst].inst = rq[r].inst
      BY <3>1 DEF ServerInv, Instances
    <3> QED
      BY <2>2, <3>1, <3>2 DEF ServerInv, SizeFits
  <2> QED
    BY <2>1, <2>2 DEF ServerInv, FitsOrChosen, StopsWithinOneToken
<1> QED
  BY <1>1, ServerInitInv, ServerInvariance, PTL DEF ServerSpec

-----------------------------------------------------------------------------
(* The manager.                                                            *)

\* No watcher carries an epoch from the future: the conjunct that makes a new
\* epoch a fresh one.
WatchersOld == \A p \in Procs : wepoch[p] <= epoch

ManagerInv == SidecarTypeOK /\ WatchersOld /\ Supervised /\ OneCurrentWatcher

\* The names of tasks: a task of one kind is none of another.
LEMMA TaskNames ==
  /\ Boot \in Tasks
  /\ \A p \in Procs : AutoTask(p) \in Tasks /\ AutoTask(p) # Boot
  /\ \A p, q \in Procs : AutoTask(p) = AutoTask(q) => p = q
  /\ \A u \in 1 .. MaxUser : UserTask(u) \in Tasks
  /\ \A u \in 1 .. MaxUser, p \in Procs : UserTask(u) # AutoTask(p)
BY SMT DEF Tasks, Boot, AutoTask, UserTask

LEMMA ManagerInvInit == SidecarInit => ManagerInv
BY SidecarConstants
   DEF SidecarInit, ManagerInv, SidecarTypeOK, WatchersOld, Supervised, OneCurrentWatcher,
       Watching, Procs, Ports, ProcStates, WatchStates, TaskStates

-----------------------------------------------------------------------------
(* Type correctness, action by action.                                     *)

LEMMA ManagerTypes == SidecarTypeOK /\ [SidecarNext]_sidecarVars => SidecarTypeOK'
<1> SUFFICES ASSUME SidecarTypeOK, [SidecarNext]_sidecarVars PROVE SidecarTypeOK'
  OBVIOUS
<1> USE SidecarConstants, TaskNames
        DEF SidecarTypeOK, Procs, Ports, ProcStates, WatchStates, TaskStates
<1>1. ASSUME NEW t \in Tasks, Reclaim(t) PROVE SidecarTypeOK'
  BY <1>1 DEF Reclaim
<1>2. ASSUME NEW t \in Tasks, Launch(t) PROVE SidecarTypeOK'
  <2>1. PICK p \in Procs, n \in Ports :
          /\ proc' = [proc EXCEPT ![p] = "booting"]
          /\ port' = [port EXCEPT ![p] = n]
          /\ tproc' = [tproc EXCEPT ![t] = p]
    BY <1>2 DEF Launch
  <2>2. /\ tpc' = [tpc EXCEPT ![t] = "adopting"]
        /\ UNCHANGED <<child, epoch, status, stamps, lockfile, watch, wepoch, phase,
                       launches, faults>>
    BY <1>2 DEF Launch
  <2>3. proc' \in [Procs -> ProcStates] /\ port' \in [Procs -> Ports]
    BY <2>1
  <2>4. tpc' \in [Tasks -> TaskStates] /\ tproc' \in [Tasks -> 0 .. MaxProcs]
    BY <2>1, <2>2
  <2>5. ASSUME NEW u \in Tasks, tpc'[u] = "adopting" PROVE tproc'[u] # 0
    BY <2>1, <2>2, <2>5
  <2> QED
    BY <2>2, <2>3, <2>4, <2>5
<1>3. ASSUME NEW t \in Tasks, SpawnFails(t) PROVE SidecarTypeOK'
  BY <1>3 DEF SpawnFails
<1>4. ASSUME NEW t \in Tasks, Adopt(t) PROVE SidecarTypeOK'
  BY <1>4 DEF Adopt, SpawnEpoch
<1>5. ASSUME NEW p \in Procs, ClaimLockfile(p) \/ Bind(p) \/ Crash(p) PROVE SidecarTypeOK'
  <2>1. CASE Bind(p)
    BY <2>1 DEF Bind
  <2>2. CASE Crash(p)
    <3>1. proc' \in [Procs -> ProcStates] /\ faults' \in Nat
      BY <2>2 DEF Crash, Fault
    <3> QED
      BY <2>2, <3>1 DEF Crash
  <2>3. CASE ClaimLockfile(p)
    <3>1. proc' \in [Procs -> ProcStates]
      BY <2>3 DEF ClaimLockfile
    <3> QED
      BY <2>3, <3>1 DEF ClaimLockfile
  <2> QED
    BY <1>5, <2>1, <2>2, <2>3
<1>6. ASSUME NEW p \in Procs, SeeReady(p) \/ ProbeOk(p) \/ ProbeFails(p) PROVE SidecarTypeOK'
  <2>1. CASE SeeReady(p)
    BY <2>1 DEF SeeReady, WatchTo
  <2>2. CASE ProbeOk(p)
    BY <2>2 DEF ProbeOk, WatchTo
  <2>3. CASE ProbeFails(p)
    <3>1. watch' \in [Procs -> WatchStates] /\ faults' \in Nat
      BY <2>3 DEF ProbeFails, WatchTo, Fault
    <3> QED
      BY <2>3, <3>1 DEF ProbeFails
  <2> QED
    BY <1>6, <2>1, <2>2, <2>3
<1>7. ASSUME NEW p \in Procs, SeeDeath(p) \/ ReadyTimeout(p) PROVE SidecarTypeOK'
  <2>1. EndWatch(p) /\ faults' \in Nat
    BY <1>7 DEF SeeDeath, ReadyTimeout, Fault
  <2> QED
    BY <2>1 DEF EndWatch, WatchTo
<1>8. ASSUME NEW p \in Procs, RestartSidecar(p) PROVE SidecarTypeOK'
  <2>1. /\ UNCHANGED <<epoch, port, lockfile, watch, wepoch, tproc, phase, launches, faults>>
        /\ status' \in {"Error", "Restarting"}
        /\ stamps' \in 0 .. MaxRestarts
        /\ child' \in 0 .. MaxProcs
    BY <1>8 DEF RestartSidecar, TakeAndKill, WithinBudget
  <2>2. proc' \in [Procs -> ProcStates]
    BY <1>8 DEF RestartSidecar, TakeAndKill
  <2>3. tpc' \in [Tasks -> TaskStates]
    BY <1>8 DEF RestartSidecar
  <2>4. \A t \in Tasks : tpc'[t] = "adopting" => tproc'[t] # 0
    BY <1>8, <2>1 DEF RestartSidecar
  <2> QED
    BY <2>1, <2>2, <2>3, <2>4
<1>9. ASSUME NEW u \in 1 .. MaxUser, RestartRuntime(u) PROVE SidecarTypeOK'
  BY <1>9 DEF RestartRuntime, TakeAndKill
<1>10. CASE Shutdown
  BY <1>10 DEF Shutdown, TakeAndKill
<1>11. CASE Gone
  <2>1. watch' \in [Procs -> WatchStates]
    BY <1>11 DEF Gone
  <2>2. tpc' \in [Tasks -> TaskStates] /\ \A t \in Tasks : tpc'[t] # "adopting"
    BY <1>11 DEF Gone
  <2>3. wepoch' \in [Procs -> Nat] /\ tproc' \in [Tasks -> 0 .. MaxProcs]
    BY <1>11 DEF Gone
  <2> QED
    BY <1>11, <2>1, <2>2, <2>3 DEF Gone
<1>12. CASE Relaunch
  BY <1>12 DEF Relaunch
<1>13. CASE UNCHANGED sidecarVars
  BY <1>13 DEF sidecarVars
<1> QED
  BY <1>1, <1>2, <1>3, <1>4, <1>5, <1>6, <1>7, <1>8, <1>9, <1>10, <1>11, <1>12, <1>13
     DEF SidecarNext, TaskStep, WatchStep, Exit, AppDies

(* Supervision.  Epochs only grow, except when the app itself is gone.     *)

LEMMA SupervisionStep ==
  ManagerInv /\ [SidecarNext]_sidecarVars => (WatchersOld /\ Supervised /\ OneCurrentWatcher)'
<1> SUFFICES ASSUME ManagerInv, [SidecarNext]_sidecarVars
             PROVE (WatchersOld /\ Supervised /\ OneCurrentWatcher)'
  OBVIOUS
<1> USE SidecarConstants, TaskNames
        DEF ManagerInv, SidecarTypeOK, WatchersOld, Supervised, OneCurrentWatcher, Watching, Procs
<1>1. ASSUME NEW t \in Tasks, Reclaim(t) \/ Launch(t) \/ SpawnFails(t)
      PROVE (WatchersOld /\ Supervised /\ OneCurrentWatcher)'
  <2>1. /\ UNCHANGED <<child, epoch, watch, wepoch>>
        /\ \A p \in Procs : tpc'[AutoTask(p)] = tpc[AutoTask(p)]
                            \/ tpc[AutoTask(p)] \in {"due", "reclaimed"}
    <3>1. CASE Reclaim(t)
      BY <3>1 DEF Reclaim
    <3>2. CASE Launch(t)
      BY <3>2 DEF Launch
    <3>3. CASE SpawnFails(t)
      BY <3>3 DEF SpawnFails
    <3> QED
      BY <1>1, <3>1, <3>2, <3>3
  <2>2. (WatchersOld /\ OneCurrentWatcher)'
    BY <2>1
  <2>3. Supervised'
    <3>1. CASE child = 0
      BY <2>1, <3>1
    <3>2. CASE child # 0
      <4>1. child \in Procs
        BY <3>2
      <4>2. tpc[AutoTask(child)] \in {"queued", "gaveup"}
              => tpc'[AutoTask(child)] \in {"queued", "gaveup"}
        BY <2>1, <4>1
      <4> QED
        BY <2>1, <3>2, <4>1, <4>2
    <3> QED
      BY <3>1, <3>2
  <2> QED
    BY <2>2, <2>3
<1>2. ASSUME NEW t \in Tasks, Adopt(t)
      PROVE (WatchersOld /\ Supervised /\ OneCurrentWatcher)'
  BY <1>2 DEF Adopt, SpawnEpoch
<1>3. ASSUME NEW p \in Procs, ClaimLockfile(p) \/ Bind(p) \/ Crash(p)
      PROVE (WatchersOld /\ Supervised /\ OneCurrentWatcher)'
  BY <1>3 DEF ClaimLockfile, Bind, Crash
<1>4. ASSUME NEW p \in Procs, SeeReady(p) \/ ProbeOk(p) \/ ProbeFails(p)
      PROVE (WatchersOld /\ Supervised /\ OneCurrentWatcher)'
  <2>1. \E w \in {"probing", "ready", "unready"} :
          Watching(p) /\ watch' = [watch EXCEPT ![p] = w]
    BY <1>4 DEF SeeReady, ProbeOk, ProbeFails, WatchTo
  <2>2. UNCHANGED <<child, epoch, wepoch, tpc>>
    BY <1>4 DEF SeeReady, ProbeOk, ProbeFails
  <2> QED
    BY <2>1, <2>2
<1>5. ASSUME NEW p \in Procs, SeeDeath(p) \/ ReadyTimeout(p)
      PROVE (WatchersOld /\ Supervised /\ OneCurrentWatcher)'
  <2>1. /\ watch' = [watch EXCEPT ![p] = "done"]
        /\ UNCHANGED <<child, epoch, wepoch>>
        /\ tpc' = IF wepoch[p] = epoch THEN [tpc EXCEPT ![AutoTask(p)] = "queued"] ELSE tpc
    BY <1>5 DEF SeeDeath, ReadyTimeout, EndWatch, WatchTo, Superseded
  <2>2. WatchersOld' /\ OneCurrentWatcher'
    BY <2>1
  <2>3. Supervised'
    <3>1. CASE child = p
      BY <2>1, <3>1
    <3>2. CASE child # p
      BY <2>1, <3>2
    <3> QED
      BY <3>1, <3>2
  <2> QED
    BY <2>2, <2>3
<1>6. ASSUME NEW p \in Procs, RestartSidecar(p)
      PROVE (WatchersOld /\ Supervised /\ OneCurrentWatcher)'
  BY <1>6 DEF RestartSidecar, TakeAndKill
<1>7. ASSUME NEW u \in 1 .. MaxUser, RestartRuntime(u)
      PROVE (WatchersOld /\ Supervised /\ OneCurrentWatcher)'
  BY <1>7 DEF RestartRuntime, TakeAndKill
<1>8. CASE Shutdown
  BY <1>8 DEF Shutdown, TakeAndKill
<1>9. CASE Gone
  <2>1. child' = 0 /\ \A p \in Procs : ~Watching(p)' /\ wepoch'[p] = 0
    BY <1>9 DEF Gone
  <2>2. epoch' = 0
    BY <1>9 DEF Gone
  <2> QED
    BY <2>1, <2>2
<1>10. CASE Relaunch
  BY <1>10 DEF Relaunch
<1>11. CASE UNCHANGED sidecarVars
  BY <1>11 DEF sidecarVars
<1> QED
  BY <1>1, <1>2, <1>3, <1>4, <1>5, <1>6, <1>7, <1>8, <1>9, <1>10, <1>11
     DEF SidecarNext, TaskStep, WatchStep, Exit, AppDies

LEMMA ManagerInvStep == ManagerInv /\ [SidecarNext]_sidecarVars => ManagerInv'
BY ManagerTypes, SupervisionStep DEF ManagerInv

-----------------------------------------------------------------------------
\* Whatever the interleaving of watchers, restarts and exits, the manager's
\* state keeps its shape; in particular no more than MAX_RESTARTS stamps are
\* ever held (restart_sidecar).
THEOREM SidecarTypeCorrect == SidecarSpec => []SidecarTypeOK
<1>1. ManagerInv => SidecarTypeOK
  BY DEF ManagerInv
<1> QED
  BY ManagerInvInit, ManagerInvStep, <1>1, PTL DEF SidecarSpec

\* A child never loses its supervision: a watcher of the current epoch runs
\* for it, or the restart that watcher triggered is queued or was refused
\* (watch_sidecar, restart_sidecar, restart_runtime, shutdown).
THEOREM ChildSupervised == SidecarSpec => []Supervised
<1>1. ManagerInv => Supervised
  BY DEF ManagerInv
<1> QED
  BY ManagerInvInit, ManagerInvStep, <1>1, PTL DEF SidecarSpec

\* At most one running watcher carries the current epoch, so one death at most
\* triggers a restart (spawn_sidecar, superseded).
THEOREM WatchersDistinct == SidecarSpec => []OneCurrentWatcher
<1>1. ManagerInv => OneCurrentWatcher
  BY DEF ManagerInv
<1> QED
  BY ManagerInvInit, ManagerInvStep, <1>1, PTL DEF SidecarSpec

-----------------------------------------------------------------------------
(* The launcher.                                                           *)

\* The server entered last has gone through its start.
WantedWasEntered == wanted # 0 => launch[wanted] \in {"owned", "over"}

LauncherInv == LauncherTypeOK /\ WantedWasEntered /\ LauncherSafe

LEMMA LauncherInvInit == LauncherInit => LauncherInv
<1> SUFFICES ASSUME LauncherInit PROVE LauncherInv
  OBVIOUS
<1> USE LauncherConstants DEF LauncherInit
<1>a. Unseen \in Row
  BY DEF Unseen, Row
<1>b. look \in [Lookers -> [pc : {"no", "probing", "answered"}, row : Row]]
  BY <1>a
<1>c. 0 \in 0 .. MaxTurns /\ 0 \in 0 .. Outside /\ 0 \in 0 .. MaxStarts
  BY DEF Outside
<1>d. launch \in [Starts -> {"none", "asked", "spawn", "grace", "owned", "over", "orphan"}]
  OBVIOUS
<1>e. lives \subseteq Starts /\ slot \in 0 .. MaxStarts /\ wanted \in 0 .. MaxStarts
      /\ answerer \in 0 .. Outside /\ turns \in 0 .. MaxTurns
  BY <1>c
<1>f. shown \in Row /\ asked \in BOOLEAN
  BY <1>a
<1>1. LauncherTypeOK
  BY <1>b, <1>d, <1>e, <1>f, Zenon DEF LauncherTypeOK
<1>2. WantedWasEntered /\ SlotHasTask /\ NewestKept
  BY DEF WantedWasEntered, SlotHasTask, NewestKept
<1> QED
  BY <1>1, <1>2 DEF LauncherInv, LauncherSafe

\* Steps that leave servers, calls and the map alone.
LEMMA RowStep ==
  ASSUME LauncherInv, UNCHANGED <<launch, slot, wanted>>, lives' \subseteq lives, LauncherTypeOK'
  PROVE  LauncherInv'
BY DEF LauncherInv, LauncherSafe, WantedWasEntered, SlotHasTask, NewestKept

\* A call that is not yet owned goes on.
LEMMA CallStep ==
  ASSUME LauncherInv, NEW s \in Starts, launch[s] \in {"none", "asked", "spawn", "grace"},
         NEW pc \in {"asked", "spawn", "grace", "over"}, Goes(s, pc), LauncherTypeOK',
         lives' = lives \/ lives' = lives \cup {s}, UNCHANGED <<slot, wanted>>
  PROVE  LauncherInv'
<1>1. launch \in [Starts -> {"none", "asked", "spawn", "grace", "owned", "over", "orphan"}]
  BY DEF LauncherInv, LauncherTypeOK
<1>2. s # slot /\ s # wanted
  BY DEF LauncherInv, LauncherSafe, SlotHasTask, WantedWasEntered, Starts
<1>3. \A r \in Starts : r # s => launch'[r] = launch[r]
  BY <1>1 DEF Goes
<1>4. slot \in {0} \cup Starts /\ wanted \in {0} \cup Starts
  BY LauncherConstants DEF LauncherInv, LauncherTypeOK, Starts
<1>5. WantedWasEntered' /\ SlotHasTask'
  BY <1>2, <1>3, <1>4 DEF LauncherInv, LauncherSafe, SlotHasTask, WantedWasEntered
<1>6. NewestKept'
  BY <1>2 DEF LauncherInv, LauncherSafe, NewestKept
<1> QED
  BY <1>5, <1>6 DEF LauncherInv, LauncherSafe

LEMMA LookTypes ==
  ASSUME LauncherTypeOK, NEW k \in Lookers, NEW r \in Row, NEW pc \in {"no", "probing", "answered"}
  PROVE  /\ [look EXCEPT ![k] = [pc |-> pc, row |-> r]]
              \in [Lookers -> [pc : {"no", "probing", "answered"}, row : Row]]
         /\ look[k].row \in Row
BY DEF LauncherTypeOK

LEMMA LauncherInvStep == LauncherInv /\ [LauncherNext]_launcherVars => LauncherInv'
<1> SUFFICES ASSUME LauncherInv, [LauncherNext]_launcherVars PROVE LauncherInv'
  OBVIOUS
<1> USE LauncherConstants
<1>t. LauncherTypeOK /\ WantedWasEntered /\ SlotHasTask /\ NewestKept
  BY DEF LauncherInv, LauncherSafe
<1>u. Unseen \in Row /\ 0 \in 0 .. MaxStarts /\ 0 \notin Starts
  BY DEF Unseen, Row, Starts
<1>s. \A s \in Starts : s \in 0 .. MaxStarts /\ s \in 0 .. Outside
  BY DEF Starts, Outside
<1>turn. Turn => turns' \in 0 .. MaxTurns
  BY <1>t DEF Turn, LauncherTypeOK
<1>1. CASE UNCHANGED launcherVars
  <2>1. LauncherTypeOK'
    BY <1>1, <1>t DEF launcherVars, LauncherTypeOK
  <2> QED
    BY <1>1, <2>1, RowStep DEF launcherVars
<1>2. CASE OutsideTurns
  <2>1. LauncherTypeOK'
    BY <1>2, <1>t, <1>turn DEF OutsideTurns, LauncherTypeOK, Outside
  <2> QED
    BY <1>2, <2>1, RowStep DEF OutsideTurns
<1>3. CASE ClickPlay
  <2>1. PICK s \in Starts : launch[s] = "none" /\ Goes(s, "asked")
    BY <1>3 DEF ClickPlay
  <2>2. LauncherTypeOK'
    BY <1>3, <1>t, <2>1 DEF ClickPlay, Goes, LauncherTypeOK
  <2> QED
    BY <1>3, <2>1, <2>2, CallStep DEF ClickPlay
<1>4. CASE ClickStop
  <2>1. LauncherTypeOK'
    BY <1>4, <1>t, <1>u DEF ClickStop, LauncherTypeOK
  <2>2. 0 \notin lives
    BY <1>t, <1>u DEF LauncherTypeOK
  <2> QED
    BY <1>4, <2>1, <2>2
       DEF ClickStop, LauncherInv, LauncherSafe, WantedWasEntered, SlotHasTask, NewestKept
<1>5. CASE AppRestarts
  <2>1. launch' \in [Starts -> {"none", "asked", "spawn", "grace", "owned", "over", "orphan"}]
    BY <1>5 DEF AppRestarts
  <2>2. look' \in [Lookers -> [pc : {"no", "probing", "answered"}, row : Row]]
    BY <1>5, <1>u DEF AppRestarts
  <2>3. LauncherTypeOK'
    BY <1>5, <1>t, <1>u, <1>turn, <2>1, <2>2 DEF AppRestarts, LauncherTypeOK
  <2>4. 0 \notin lives
    BY <1>t, <1>u DEF LauncherTypeOK
  <2> QED
    BY <1>5, <2>3, <2>4
       DEF AppRestarts, LauncherInv, LauncherSafe, WantedWasEntered, SlotHasTask, NewestKept
<1>6. CASE PollLooks \/ GestureLooks
  <2>1. PICK k \in Lookers : Probe(k)
    BY <1>6 DEF PollLooks, GestureLooks, Lookers
  <2>2. [healthy |-> answerer # 0, managed |-> FALSE] \in Row
    BY DEF Row
  <2>3. LauncherTypeOK'
    BY <1>6, <1>t, <2>1, <2>2, LookTypes DEF PollLooks, GestureLooks, Probe, LauncherTypeOK
  <2> QED
    BY <1>6, <2>3, RowStep DEF PollLooks, GestureLooks
<1>7. ASSUME NEW k \in Lookers, ReadMap(k) PROVE LauncherInv'
  <2>1. look[k] \in [pc : {"no", "probing", "answered"}, row : Row]
    BY <1>t DEF LauncherTypeOK
  <2>2. (slot # 0) \in BOOLEAN
    OBVIOUS
  <2>3. [look[k] EXCEPT !.pc = "answered", !.row.managed = (slot # 0)]
          \in [pc : {"no", "probing", "answered"}, row : Row]
    BY <2>1, <2>2 DEF Row
  <2>4. look' = [look EXCEPT ![k] = [look[k] EXCEPT !.pc = "answered", !.row.managed = (slot # 0)]]
    BY <1>7, <1>t, <2>1 DEF ReadMap, ManagedNow, LauncherTypeOK, Row
  <2>5. look' \in [Lookers -> [pc : {"no", "probing", "answered"}, row : Row]]
    BY <1>t, <2>3, <2>4 DEF LauncherTypeOK
  <2>6. LauncherTypeOK'
    BY <1>7, <1>t, <2>5 DEF ReadMap, LauncherTypeOK
  <2> QED
    BY <1>7, <2>6, RowStep DEF ReadMap
<1>8. ASSUME NEW k \in Lookers, ShowRow(k) PROVE LauncherInv'
  <2>1. LauncherTypeOK'
    BY <1>8, <1>t, <1>u, LookTypes DEF ShowRow, LauncherTypeOK
  <2> QED
    BY <1>8, <2>1, RowStep DEF ShowRow
<1>9. ASSUME NEW s \in Starts, Listen(s) PROVE LauncherInv'
  <2>1. LauncherTypeOK'
    BY <1>9, <1>t, <1>s DEF Listen, LauncherTypeOK
  <2> QED
    BY <1>9, <2>1, RowStep DEF Listen
<1>10. ASSUME NEW s \in Starts, ServerEnds(s) PROVE LauncherInv'
  <2>1. LauncherTypeOK'
    BY <1>10, <1>t, <1>turn DEF ServerEnds, LauncherTypeOK, Outside
  <2> QED
    BY <1>10, <2>1, RowStep DEF ServerEnds
<1>11. ASSUME NEW s \in Starts, LookUp(s) PROVE LauncherInv'
  <2>1. LauncherTypeOK'
    BY <1>11, <1>t DEF LookUp, Goes, LauncherTypeOK
  <2>2. Goes(s, "spawn") \/ Goes(s, "over")
    BY <1>11 DEF LookUp
  <2> QED
    BY <1>11, <2>1, <2>2, CallStep DEF LookUp
<1>12. ASSUME NEW s \in Starts, SpawnServer(s) PROVE LauncherInv'
  <2>1. LauncherTypeOK'
    BY <1>12, <1>t DEF SpawnServer, Goes, LauncherTypeOK
  <2>2. Goes(s, "grace") \/ Goes(s, "over")
    BY <1>12 DEF SpawnServer
  <2> QED
    BY <1>12, <2>1, <2>2, CallStep DEF SpawnServer
<1>13. ASSUME NEW s \in Starts, EnterServer(s) PROVE LauncherInv'
  <2>1. LauncherTypeOK'
    BY <1>13, <1>t, <1>s DEF EnterServer, Goes, LauncherTypeOK
  <2>2. CASE s \in lives
    <3>1. launch'[s] = "owned" /\ slot' = s /\ wanted' = s
      BY <1>13, <1>t, <2>2 DEF EnterServer, Goes, LauncherTypeOK
    <3> QED
      BY <2>1, <3>1 DEF LauncherInv, LauncherSafe, WantedWasEntered, SlotHasTask, NewestKept
  <2>3. CASE s \notin lives
    BY <1>13, <2>1, <2>3, CallStep DEF EnterServer
  <2> QED
    BY <2>2, <2>3
<1>14. ASSUME NEW s \in Starts, KillServer(s) PROVE LauncherInv'
  <2>1. LauncherTypeOK'
    BY <1>14, <1>t DEF KillServer, LauncherTypeOK, Outside
  <2> QED
    BY <1>14, <2>1, RowStep DEF KillServer
\* The server entered last lives, so it is another one that is cleared up.
<1>15. ASSUME NEW s \in Starts, Reap(s) PROVE LauncherInv'
  <2>1. LauncherTypeOK'
    BY <1>15, <1>t, <1>u DEF Reap, OwnCleared, Goes, LauncherTypeOK
  <2>2. launch' = [launch EXCEPT ![s] = "over"] /\ s \notin lives
        /\ slot' = (IF slot = s THEN 0 ELSE slot) /\ wanted' = wanted /\ lives' = lives
    BY <1>15 DEF Reap, Goes, OwnCleared
  <2>3. slot \in {0} \cup Starts /\ wanted \in {0} \cup Starts
    BY <1>t DEF LauncherTypeOK, Starts
  <2>4. WantedWasEntered' /\ SlotHasTask' /\ NewestKept'
    BY <1>t, <2>2, <2>3 DEF WantedWasEntered, SlotHasTask, NewestKept, LauncherTypeOK
  <2> QED
    BY <2>1, <2>4 DEF LauncherInv, LauncherSafe
<1> QED
  BY <1>1, <1>2, <1>3, <1>4, <1>5, <1>6, <1>7, <1>8, <1>9, <1>10, <1>11, <1>12, <1>13, <1>14, <1>15
     DEF LauncherNext

-----------------------------------------------------------------------------
(* The list of saved runtimes.                                             *)

Write == [parts : SUBSET BothLists, lists : Lists]

\* Part P is about to be written, by the i-th write; by none after it.
Pending(P, i) == i \in DOMAIN writes /\ P \in writes[i].parts
Final(P, i) == Pending(P, i) /\ \A j \in DOMAIN writes : j > i => P \notin writes[j].parts

\* What each list comes to on disk, once what is under way has landed, is what it
\* is now.
Current(P) == IF P = "saved" THEN saved ELSE dismissed
Written ==
  \A P \in BothLists :
    /\ \A i \in DOMAIN writes : Final(P, i) => writes[i].lists[P] = Current(P)
    /\ (\A i \in DOMAIN writes : ~Pending(P, i)) => disk[P] = Current(P)

\* Before the list is shown, and while it is.
Unread ==
  /\ writes = <<>> /\ saved = {} /\ dismissed = {}
  /\ gone \subseteq disk.dismissed /\ gone \cap UrlsOf(disk.saved) = {}
  /\ restore = "read" => fromDisk = disk
Shown == gone \subseteq dismissed /\ gone \cap UrlsOf(saved) = {} /\ Written

WritesWrite == \A i \in DOMAIN writes : writes[i].parts # {}

SavedInv ==
  /\ SavedTypeOK
  /\ restore # "up" => checks = {}
  /\ WritesWrite
  /\ ~disturbed => IF restore = "up" THEN Shown ELSE Unread

LEMMA EmptyIsLists == Empty \in Lists
BY DEF Empty, Lists

LEMMA SavedInitInv == SavedInit => SavedInv
<1> SUFFICES ASSUME SavedInit PROVE SavedInv
  OBVIOUS
<1> USE SavedConstants DEF SavedInit
<1>a. 0 \in 0 .. MaxGestures /\ 1 \in 1 .. MaxSessions
  OBVIOUS
<1>b. writes \in Seq([parts : SUBSET {"saved", "dismissed"}, lists : Lists])
  OBVIOUS
<1>1. SavedTypeOK
  BY <1>a, <1>b, EmptyIsLists DEF SavedTypeOK
<1>2. WritesWrite
  BY DEF WritesWrite
<1>3. Unread
  BY DEF Unread, Empty
<1> QED
  BY <1>1, <1>2, <1>3 DEF SavedInv

\* What is left of a sequence when one element leaves it.
LEMMA Shorter ==
  ASSUME NEW S, NEW s \in Seq(S), NEW i \in 1 .. Len(s)
  PROVE  /\ RemoveAt(s, i) \in Seq(S)
         /\ Len(RemoveAt(s, i)) = Len(s) - 1
         /\ \A k \in 1 .. Len(s) - 1 : RemoveAt(s, i)[k] = s[IF k < i THEN k ELSE k + 1]
<1> DEFINE before == SubSeq(s, 1, i - 1)  after == SubSeq(s, i + 1, Len(s))
<1>1. before \in Seq(S) /\ Len(before) = i - 1 /\ \A k \in 1 .. i - 1 : before[k] = s[k]
  OBVIOUS
<1>2. after \in Seq(S) /\ Len(after) = Len(s) - i /\ \A k \in 1 .. Len(s) - i : after[k] = s[i + k]
  OBVIOUS
<1>3. RemoveAt(s, i) = before \o after
  BY DEF RemoveAt
<1> HIDE DEF before, after
<1>4. (before \o after) \in Seq(S) /\ Len(before \o after) = Len(s) - 1
  BY <1>1, <1>2
<1>5. ASSUME NEW k \in 1 .. Len(s) - 1
      PROVE  (before \o after)[k] = s[IF k < i THEN k ELSE k + 1]
  <2>1. CASE k < i
    BY <1>1, <1>2, <2>1
  <2>2. CASE ~(k < i)
    <3>1. (before \o after)[k] = after[k - (i - 1)] /\ k - (i - 1) \in 1 .. Len(s) - i
      BY <1>1, <1>2, <2>2
    <3> QED
      BY <1>2, <2>2, <3>1
  <2> QED
    BY <2>1, <2>2
<1> QED
  BY <1>3, <1>4, <1>5

\* The lists change, and writes of what they become are begun.
LEMMA Grown ==
  ASSUME SavedTypeOK, WritesWrite, NEW n \in 1 .. 2, writes' \in Seq(Write),
         Len(writes') = Len(writes) + n, \A i \in 1 .. Len(writes) : writes'[i] = writes[i],
         \A i \in Len(writes) + 1 .. Len(writes) + n :
           /\ writes'[i].parts # {}
           /\ writes'[i].lists = [saved |-> saved', dismissed |-> dismissed'],
         "saved" \in writes'[Len(writes) + 1].parts,
         dismissed' # dismissed => "dismissed" \in writes'[Len(writes) + n].parts,
         disk' = disk
  PROVE  WritesWrite' /\ (Written => Written')
<1>1. Len(writes) \in Nat /\ DOMAIN writes = 1 .. Len(writes) /\ DOMAIN writes' = 1 .. Len(writes) + n
  BY DEF SavedTypeOK
<1>2. WritesWrite'
  BY <1>1 DEF WritesWrite
<1>3. ASSUME Written PROVE Written'
  <2>1. \A i \in DOMAIN writes' : i \notin DOMAIN writes =>
          writes'[i].lists["saved"] = saved' /\ writes'[i].lists["dismissed"] = dismissed'
    BY <1>1
  <2>2. ASSUME NEW i \in DOMAIN writes', Final("saved", i)' PROVE i \notin DOMAIN writes
    BY <1>1, <2>2 DEF Final, Pending
  <2>3. \E i \in DOMAIN writes' : Pending("saved", i)'
    <3>1. PICK m \in Nat : m = Len(writes)
      BY <1>1
    <3>2. Pending("saved", m + 1)' /\ m + 1 \in DOMAIN writes'
      BY <1>1, <3>1 DEF Pending
    <3> QED
      BY <3>2
  <2>4. ASSUME NEW i \in DOMAIN writes', Final("dismissed", i)', i \in DOMAIN writes
        PROVE  dismissed' = dismissed /\ Final("dismissed", i) /\ writes'[i] = writes[i]
    BY <1>1, <2>4 DEF Final, Pending
  <2>5. ASSUME \A i \in DOMAIN writes' : ~Pending("dismissed", i)'
        PROVE  dismissed' = dismissed /\ \A i \in DOMAIN writes : ~Pending("dismissed", i)
    BY <1>1, <2>5 DEF Pending
  <2>6. \A i \in DOMAIN writes' : Final("saved", i)' => writes'[i].lists["saved"] = saved'
    BY <2>1, <2>2
  <2>7. ASSUME NEW i \in DOMAIN writes', Final("dismissed", i)'
        PROVE  writes'[i].lists["dismissed"] = dismissed'
    BY <1>3, <2>1, <2>4, <2>7 DEF Written, BothLists, Current
  <2>8. (\A i \in DOMAIN writes' : ~Pending("dismissed", i)') => disk'["dismissed"] = dismissed'
    BY <1>3, <2>5 DEF Written, BothLists, Current
  <2> QED
    BY <2>3, <2>6, <2>7, <2>8 DEF Written, BothLists, Current
<1> QED
  BY <1>2, <1>3

\* Begin, and the two writes of rememberRuntime.
LEMMA BegunGrows ==
  ASSUME SavedTypeOK, WritesWrite, saved' \subseteq Entries, dismissed' \subseteq Urls,
         NEW parts \in SUBSET BothLists, "saved" \in parts,
         dismissed' # dismissed => "dismissed" \in parts,
         Begin(parts, saved', dismissed'), disk' = disk
  PROVE  writes' \in Seq(Write) /\ WritesWrite' /\ (Written => Written')
<1> DEFINE w == [parts |-> parts, lists |-> [saved |-> saved', dismissed |-> dismissed']]
<1>1. writes \in Seq(Write)
  BY DEF SavedTypeOK, Write, BothLists
<1>2. w \in Write /\ w.parts # {} /\ "saved" \in w.parts
  BY DEF Write, Lists
<1>3. writes' = Append(writes, w)
  BY DEF Begin
<1>4. w.parts = parts /\ w.lists = [saved |-> saved', dismissed |-> dismissed']
  OBVIOUS
<1> HIDE DEF w
<1>5. /\ writes' \in Seq(Write) /\ Len(writes') = Len(writes) + 1 /\ writes'[Len(writes) + 1] = w
      /\ \A i \in 1 .. Len(writes) : writes'[i] = writes[i]
  BY <1>1, <1>2, <1>3
<1>6. \A i \in Len(writes) + 1 .. Len(writes) + 1 : writes'[i] = w
  BY <1>1, <1>5
<1> QED
  BY <1>2, <1>4, <1>5, <1>6, Grown

LEMMA RememberKeeps ==
  ASSUME SavedTypeOK, WritesWrite, NEW u \in Urls, NEW byName \in BOOLEAN, Remember(u, byName),
         disk' = disk
  PROVE  /\ saved' \subseteq Entries /\ dismissed' \subseteq Urls
         /\ writes' \in Seq(Write) /\ WritesWrite' /\ (Written => Written')
<1> DEFINE list == {e \in saved : e.url # u} \cup {[url |-> u, detected |-> byName]}
           deleted == dismissed \ {u}
           w(i) == [parts |-> IF i = 1 THEN {"saved"} ELSE {"dismissed"},
                    lists |-> [saved |-> list, dismissed |-> deleted]]
           both == [i \in 1 .. 2 |-> w(i)]
<1>1. list \subseteq Entries /\ deleted \subseteq Urls
  BY DEF SavedTypeOK, Entries
<1>2. saved' = list /\ dismissed' = deleted
  BY DEF Remember
<1>3. \/ deleted = dismissed /\ Begin({"saved"}, list, deleted)
      \/ deleted # dismissed /\ writes' = writes \o both
  BY DEF Remember
<1>4. writes \in Seq(Write)
  BY DEF SavedTypeOK, Write, BothLists
<1>5. \A i \in 1 .. 2 : w(i) \in Write
  BY <1>1 DEF Write, Lists, BothLists
<1>6. \A i \in 1 .. 2 : w(i).parts # {} /\ w(i).lists = [saved |-> list, dismissed |-> deleted]
  OBVIOUS
<1>7. "saved" \in w(1).parts /\ "dismissed" \in w(2).parts
  OBVIOUS
<1>8. both \in Seq(Write) /\ Len(both) = 2 /\ \A i \in 1 .. 2 : both[i] = w(i)
  BY <1>5
<1> HIDE DEF list, deleted, w, both
<1>9. CASE deleted = dismissed /\ Begin({"saved"}, list, deleted)
  BY <1>1, <1>2, <1>9, BegunGrows DEF BothLists
<1>10. CASE deleted # dismissed /\ writes' = writes \o both
  <2>1. /\ writes' \in Seq(Write) /\ Len(writes') = Len(writes) + 2
        /\ \A i \in 1 .. Len(writes) : writes'[i] = writes[i]
        /\ writes'[Len(writes) + 1] = w(1) /\ writes'[Len(writes) + 2] = w(2)
    <3>1. /\ writes \o both \in Seq(Write)
          /\ Len(writes \o both) = Len(writes) + 2
          /\ \A i \in 1 .. Len(writes) + 2 : (writes \o both)[i] =
               IF i <= Len(writes) THEN writes[i] ELSE both[i - Len(writes)]
      <4>1. \A i \in 1 .. Len(writes) + Len(both) : (writes \o both)[i] =
               IF i <= Len(writes) THEN writes[i] ELSE both[i - Len(writes)]
        BY <1>4, <1>8, ConcatProperties, Zenon
      <4>2. writes \o both \in Seq(Write) /\ Len(writes \o both) = Len(writes) + Len(both)
        BY <1>4, <1>8, ConcatProperties, Zenon
      <4>3. Len(both) = 2
        BY <1>8
      <4> QED
        BY <4>1, <4>2, <4>3
    <3>2. Len(writes) \in Nat
      BY <1>4
    <3> QED
      BY <1>8, <1>10, <3>1, <3>2
  <2>2. \A i \in Len(writes) + 1 .. Len(writes) + 2 : i = Len(writes) + 1 \/ i = Len(writes) + 2
    BY <1>4
  <2>3. \A i \in Len(writes) + 1 .. Len(writes) + 2 :
          writes'[i].parts # {} /\ writes'[i].lists = [saved |-> saved', dismissed |-> dismissed']
    BY <1>2, <1>6, <2>1, <2>2
  <2> QED
    BY <1>1, <1>2, <1>7, <2>1, <2>3, Grown
<1> QED
  BY <1>3, <1>9, <1>10

\* The place at which what is k-th now was, when what was g-th is gone.
Before(g, k) == IF k >= g THEN k + 1 ELSE k

\* Of n, i or none is gone and l are left.
Shift(n, i, g, l) ==
  /\ \A k \in 1 .. l : /\ Before(g, k) \in 1 .. n /\ (g = i => Before(g, k) # i)
                       /\ \A j \in 1 .. l : Before(g, j) > Before(g, k) => j > k
  /\ \A m \in 1 .. n : m # i \/ g # i => \E k \in 1 .. l : Before(g, k) = m

LEMMA Places ==
  \A n, l \in Nat : \A i \in 1 .. n : \A g \in {i, n + 1} :
    l = (IF g = i THEN n - 1 ELSE n) => Shift(n, i, g, l)
<1> SUFFICES ASSUME NEW n \in Nat, NEW i \in 1 .. n, NEW g \in {i, n + 1}, NEW l \in Nat,
                    l = (IF g = i THEN n - 1 ELSE n)
             PROVE  Shift(n, i, g, l)
  OBVIOUS
<1>1. \A k \in 1 .. l : /\ Before(g, k) \in 1 .. n /\ (g = i => Before(g, k) # i)
                        /\ \A j \in 1 .. l : Before(g, j) > Before(g, k) => j > k
  BY DEF Before
<1>2. ASSUME NEW m \in 1 .. n, m # i \/ g # i PROVE \E k \in 1 .. l : Before(g, k) = m
  <2>1. CASE m < g
    <3>1. m \in 1 .. l /\ Before(g, m) = m
      BY <1>2, <2>1 DEF Before
    <3> QED
      BY <3>1
  <2>2. CASE m > g
    <3>1. m - 1 \in 1 .. l /\ Before(g, m - 1) = m
      BY <1>2, <2>2 DEF Before
    <3> QED
      BY <3>1
  <2> QED
    BY <1>2, <2>1, <2>2
<1> QED
  BY <1>1, <1>2 DEF Shift

\* A write lands: in its place, or crossing an earlier one.
LEMMA LandKeeps ==
  ASSUME SavedTypeOK, WritesWrite, NEW i \in 1 .. MaxWrites, Land(i)
  PROVE  /\ disk' \in Lists /\ writes' \in Seq(Write) /\ WritesWrite'
         /\ ~disturbed' => ~disturbed /\ (Written => Written')
<1> DEFINE part == NextPart(writes[i])
           n == Len(writes)
           \* The place that falls out of the sequence, if one does.
           gap == IF writes[i].parts = {part} THEN i ELSE n + 1
           old(k) == Before(gap, k)
<1>1. writes \in Seq(Write) /\ disk \in Lists /\ disturbed \in BOOLEAN
  BY DEF SavedTypeOK, Write, BothLists
<1>2. i \in 1 .. Len(writes) /\ DOMAIN writes = 1 .. Len(writes) /\ Len(writes) \in Nat
  BY <1>1 DEF Land
<1>3. writes[i] \in Write /\ writes[i].parts # {}
  BY <1>1, <1>2 DEF WritesWrite
<1>4. part \in BothLists /\ part \in writes[i].parts
  BY <1>3 DEF NextPart, Write, BothLists
<1>5. disk' = [disk EXCEPT ![part] = writes[i].lists[part]] /\ disturbed' = (disturbed \/ Crosses(i))
  BY DEF Land
<1>6. writes' = IF writes[i].parts = {part} THEN RemoveAt(writes, i)
                ELSE [writes EXCEPT ![i].parts = @ \ {part}]
  BY DEF Land
<1>7. /\ disk' \in Lists
      /\ \A P \in BothLists : disk'[P] = IF P = part THEN writes[i].lists[part] ELSE disk[P]
  <2>1. writes[i].lists \in Lists
    BY <1>3 DEF Write
  <2>2. disk' \in Lists
    <3>1. CASE part = "saved"
      BY <1>1, <1>5, <2>1, <3>1 DEF Lists
    <3>2. CASE part = "dismissed"
      BY <1>1, <1>5, <2>1, <3>2 DEF Lists
    <3> QED
      BY <1>4, <3>1, <3>2 DEF BothLists
  <2>3. DOMAIN disk = BothLists
    BY <1>1 DEF Lists, BothLists
  <2> QED
    BY <1>5, <2>2, <2>3
\* Each write that is left was there, at old(k), with the parts it has still to write.
<1>8. /\ writes' \in Seq(Write)
      /\ Len(writes') = IF gap = i THEN n - 1 ELSE n
      /\ \A k \in 1 .. Len(writes') :
           /\ writes'[k].lists = writes[old(k)].lists
           /\ writes'[k].parts = IF old(k) = i THEN writes[i].parts \ {part} ELSE writes[old(k)].parts
  <2>1. CASE writes[i].parts = {part}
    <3>1. gap = i
      BY <2>1
    <3>2. /\ writes' \in Seq(Write) /\ Len(writes') = n - 1
          /\ \A k \in 1 .. n - 1 : writes'[k] = writes[IF k < i THEN k ELSE k + 1]
      BY <1>1, <1>2, <1>6, <2>1, Shorter
    <3> HIDE DEF gap, n
    <3>3. \A k \in 1 .. n - 1 : old(k) = (IF k < i THEN k ELSE k + 1) /\ old(k) # i
      BY <1>2, <3>1 DEF Before, n
    <3> QED
      BY <3>1, <3>2, <3>3
  <2>2. CASE writes[i].parts # {part}
    <3> DEFINE w == [writes[i] EXCEPT !.parts = @ \ {part}]
    <3>1. w \in Write /\ w.parts = writes[i].parts \ {part} /\ w.lists = writes[i].lists
      BY <1>3 DEF Write
    <3>2. writes' = [writes EXCEPT ![i] = w]
      BY <1>6, <2>2
    <3>3. gap = n + 1
      BY <2>2
    <3> HIDE DEF w
    <3>4. writes' \in Seq(Write) /\ Len(writes') = n
          /\ \A k \in 1 .. n : writes'[k] = IF k = i THEN w ELSE writes[k]
      BY <1>1, <1>2, <3>1, <3>2, ExceptSeq
    <3> HIDE DEF gap, n
    <3>5. \A k \in 1 .. n : old(k) = k
      BY <1>2, <3>3 DEF Before, n
    <3>6. gap # i
      BY <1>2, <3>3 DEF n
    <3> QED
      BY <3>1, <3>4, <3>5, <3>6
  <2> QED
    BY <2>1, <2>2
<1>9. gap \in {i, n + 1} /\ Len(writes') \in Nat /\ (gap = i <=> writes[i].parts = {part})
  <2>1. Len(writes') \in Nat
    BY <1>8
  <2> QED
    BY <1>2, <2>1
<1> HIDE DEF gap
<1>10. Shift(n, i, gap, Len(writes'))
  <2>1. n \in Nat /\ i \in 1 .. n
    BY <1>2
  <2>2. Len(writes') = (IF gap = i THEN n - 1 ELSE n)
    BY <1>8
  <2> HIDE DEF n
  <2> QED
    BY <1>9, <2>1, <2>2, Places, Zenon
<1>s. /\ \A k \in 1 .. Len(writes') :
            /\ old(k) \in 1 .. n /\ (gap = i => old(k) # i)
            /\ \A j \in 1 .. Len(writes') : old(j) > old(k) => j > k
      /\ \A m \in 1 .. n : m # i \/ gap # i => \E k \in 1 .. Len(writes') : old(k) = m
  BY <1>10, Zenon DEF Shift
<1>11. DOMAIN writes' = 1 .. Len(writes')
  BY <1>8
<1> HIDE DEF old, part
<1>12. WritesWrite'
  <2> SUFFICES ASSUME NEW k \in 1 .. Len(writes') PROVE writes'[k].parts # {}
    BY <1>11 DEF WritesWrite
  <2> QED
    BY <1>2, <1>3, <1>4, <1>8, <1>9, <1>s DEF WritesWrite
<1>13. ASSUME ~disturbed', Written PROVE Written'
  <2>1. \A j \in 1 .. i - 1 : part \notin writes[j].parts
    BY <1>5, <1>13 DEF Crosses, part
  <2> SUFFICES ASSUME NEW P \in BothLists
               PROVE  /\ \A k \in DOMAIN writes' : Final(P, k)' => writes'[k].lists[P] = Current(P)'
                      /\ (\A k \in DOMAIN writes' : ~Pending(P, k)') => disk'[P] = Current(P)'
    BY DEF Written
  <2>2. Current(P)' = Current(P)
    BY DEF Land, Current
  <2>3. \A m \in DOMAIN writes : Pending(P, m) =>
          (P = part /\ m = i) \/ \E k \in DOMAIN writes' : old(k) = m /\ Pending(P, k)'
    BY <1>2, <1>4, <1>8, <1>9, <1>s, <1>11 DEF Pending
  <2>4. ASSUME NEW k \in DOMAIN writes', Final(P, k)' PROVE writes'[k].lists[P] = Current(P)
    <3>1. Pending(P, old(k)) /\ old(k) \in DOMAIN writes /\ writes'[k].lists = writes[old(k)].lists
      BY <1>2, <1>8, <1>9, <1>s, <1>11, <2>4 DEF Final, Pending
    <3>2. ~(P = part /\ old(k) = i)
      BY <1>8, <1>11, <2>4 DEF Final, Pending
    <3>3. Final(P, old(k))
      <4> SUFFICES ASSUME NEW m \in DOMAIN writes, m > old(k), Pending(P, m) PROVE FALSE
        BY <3>1 DEF Final, Pending
      <4>1. CASE P = part /\ m = i
        BY <1>2, <2>1, <3>1, <4>1 DEF Pending
      <4>2. CASE \E j \in DOMAIN writes' : old(j) = m /\ Pending(P, j)'
        <5>1. PICK j \in DOMAIN writes' : old(j) = m /\ Pending(P, j)'
          BY <4>2
        <5>2. j > k
          BY <1>2, <1>s, <1>11, <5>1
        <5> QED
          BY <2>4, <5>1, <5>2 DEF Final, Pending
      <4> QED
        BY <2>3, <4>1, <4>2
    <3> QED
      BY <1>13, <3>1, <3>3 DEF Written
  <2>5. ASSUME \A k \in DOMAIN writes' : ~Pending(P, k)' PROVE disk'[P] = Current(P)
    <3>1. \A m \in DOMAIN writes : Pending(P, m) => P = part /\ m = i
      BY <2>3, <2>5
    <3>2. CASE P = part
      <4>1. Final(P, i)
        BY <1>2, <1>4, <3>1, <3>2 DEF Final, Pending
      <4> QED
        BY <1>2, <1>7, <1>13, <3>2, <4>1 DEF Written
    <3>3. CASE P # part
      BY <1>7, <1>13, <3>1, <3>3 DEF Written
    <3> QED
      BY <3>2, <3>3
  <2> QED
    BY <2>2, <2>4, <2>5
<1> QED
  BY <1>1, <1>5, <1>7, <1>8, <1>12, <1>13

\* The lists change while they are shown, and what they become is begun.
LEMMA ShownChange ==
  ASSUME SavedInv, SavedTypeOK', WritesWrite', Written => Written', restore = "up",
         checks' = {} \/ restore' = "up", UNCHANGED <<restore, disturbed>>,
         ~disturbed /\ Shown => gone' \subseteq dismissed' /\ gone' \cap UrlsOf(saved') = {}
  PROVE  SavedInv'
BY DEF SavedInv, Shown

LEMMA SavedInvStep == SavedInv /\ [SavedNext]_savedVars => SavedInv'
<1> SUFFICES ASSUME SavedInv, [SavedNext]_savedVars PROVE SavedInv'
  OBVIOUS
<1> USE SavedConstants
<1>t. SavedTypeOK /\ WritesWrite
  BY DEF SavedInv
<1>w. /\ writes \in Seq(Write)
      /\ writes' \in Seq(Write)
           => writes' \in Seq([parts : SUBSET {"saved", "dismissed"}, lists : Lists])
  BY <1>t DEF SavedTypeOK, Write, BothLists
<1>g. Gesture => gestures' \in 0 .. MaxGestures
  BY <1>t DEF Gesture, SavedTypeOK
<1>1. CASE UNCHANGED savedVars
  BY <1>1 DEF savedVars, SavedInv, SavedTypeOK, WritesWrite, Shown, Unread, Written, Final, Pending,
              Current, UrlsOf
<1>2. CASE AppEnds
  <2>1. writes' = <<>> /\ WritesWrite'
    BY <1>2 DEF AppEnds, WritesWrite
  <2>2. writes' \in Seq(Write)
    BY <2>1
  <2>3. sessions' \in 1 .. MaxSessions
    BY <1>2, <1>t DEF AppEnds, SavedTypeOK
  <2>4. SavedTypeOK'
    BY <1>2, <1>t, <1>w, <2>2, <2>3, EmptyIsLists DEF AppEnds, SavedTypeOK
  <2>5. ASSUME ~disturbed', restore = "up", writes = <<>>
        PROVE  disk["saved"] = saved /\ disk["dismissed"] = dismissed /\ Shown
    BY <1>2, <2>5 DEF AppEnds, SavedInv, Shown, Written, BothLists, Pending, Current
  <2>6. ASSUME ~disturbed' PROVE Unread'
    <3>1. CASE writes # <<>>
      BY <1>2, <2>1, <3>1 DEF AppEnds, Unread
    <3>2. CASE writes = <<>> /\ restore = "up"
      BY <1>2, <2>1, <2>5, <2>6, <3>2 DEF AppEnds, Unread, Shown, UrlsOf
    <3>3. CASE writes = <<>> /\ restore # "up"
      BY <1>2, <2>1, <2>6, <3>3 DEF AppEnds, Unread, SavedInv
    <3> QED
      BY <3>1, <3>2, <3>3
  <2> QED
    BY <1>2, <2>1, <2>4, <2>6 DEF AppEnds, SavedInv
<1>3. CASE Restore
  <2>1. SavedTypeOK'
    BY <1>3, <1>t DEF Restore, SavedTypeOK, Lists
  <2>2. WritesWrite'
    BY <1>3, <1>t DEF Restore, WritesWrite
  <2>3. ASSUME ~disturbed, restore' # "up" PROVE Unread'
    BY <1>3, <2>3 DEF Restore, SavedInv, Unread
  <2>4. ASSUME ~disturbed, restore' = "up" PROVE Shown'
    <3>1. restore = "read" /\ Unread /\ saved' = disk.saved /\ dismissed' = disk.dismissed
          /\ writes' = <<>> /\ disk' = disk /\ gone' = gone
      BY <1>3, <2>4 DEF Restore, SavedInv, Unread
    <3>2. Written'
      BY <3>1 DEF Written, Final, Pending, Current, BothLists
    <3> QED
      BY <3>1, <3>2 DEF Shown, Unread, UrlsOf
  <2> QED
    BY <1>3, <2>1, <2>2, <2>3, <2>4 DEF Restore, SavedInv
<1>4. ASSUME NEW i \in 1 .. MaxWrites, Land(i) PROVE SavedInv'
  <2>1. /\ disk' \in Lists /\ writes' \in Seq(Write) /\ WritesWrite'
        /\ ~disturbed' => ~disturbed /\ (Written => Written')
    BY <1>4, <1>t, LandKeeps
  <2>2. disturbed' \in BOOLEAN
    BY <1>4, <1>t DEF Land, SavedTypeOK
  <2>3. SavedTypeOK'
    BY <1>4, <1>t, <1>w, <2>1, <2>2 DEF Land, SavedTypeOK
  <2>4. writes # <<>>
    BY <1>4 DEF Land
  <2> QED
    BY <1>4, <2>1, <2>3, <2>4 DEF Land, SavedInv, Shown, Unread, UrlsOf
<1>5. ASSUME NEW installed \in SUBSET Local, SyncDetectedIntoSaved(installed) PROVE SavedInv'
  <2> DEFINE named == {[e EXCEPT !.detected = @ \/ e.url \in Local] : e \in saved}
             list == named \cup {[url |-> u, detected |-> TRUE] : u \in Folded(installed)}
  <2>1. \A e \in saved : [e EXCEPT !.detected = @ \/ e.url \in Local] \in Entries
                         /\ [e EXCEPT !.detected = @ \/ e.url \in Local].url = e.url
    <3> SUFFICES ASSUME NEW e \in saved
                 PROVE  /\ [e EXCEPT !.detected = @ \/ e.url \in Local] \in Entries
                        /\ [e EXCEPT !.detected = @ \/ e.url \in Local].url = e.url
      OBVIOUS
    <3>1. e \in Entries /\ (e.detected \/ e.url \in Local) \in BOOLEAN
      BY <1>t DEF SavedTypeOK
    <3> QED
      BY <3>1 DEF Entries
  <2>2. \A u \in Folded(installed) : [url |-> u, detected |-> TRUE] \in Entries /\ u \notin dismissed
    BY DEF Folded, Entries
  <2>3. list \subseteq Entries /\ \A e \in list : e.url \in UrlsOf(saved) \/ e.url \notin dismissed
    <3> SUFFICES ASSUME NEW e \in list
                 PROVE  e \in Entries /\ (e.url \in UrlsOf(saved) \/ e.url \notin dismissed)
      BY Zenon
    <3>1. CASE \E d \in saved : e = [d EXCEPT !.detected = @ \/ d.url \in Local]
      BY <2>1, <3>1 DEF UrlsOf
    <3>2. CASE \E u \in Folded(installed) : e = [url |-> u, detected |-> TRUE]
      BY <2>2, <3>2
    <3> QED
      BY <3>1, <3>2
  <2>4. saved' = list /\ Begin(WrittenIfChanged(list), list, dismissed) /\ dismissed' = dismissed
        /\ restore = "up"
        /\ UNCHANGED <<restore, fromDisk, disk, checks, gestures, sessions, gone, disturbed>>
    BY <1>5 DEF SyncDetectedIntoSaved
  <2> HIDE DEF list
  <2>5. writes' \in Seq(Write) /\ WritesWrite' /\ (Written => Written')
    <3>1. CASE list = saved
      BY <1>t, <1>w, <2>4, <3>1 DEF Begin, WrittenIfChanged, WritesWrite, Written, Final, Pending, Current
    <3>2. CASE list # saved
      BY <1>t, <2>3, <2>4, <3>2, BegunGrows DEF WrittenIfChanged, BothLists, SavedTypeOK
    <3> QED
      BY <3>1, <3>2
  <2>6. SavedTypeOK'
    BY <1>t, <1>w, <2>3, <2>4, <2>5 DEF SavedTypeOK
  <2>7. Shown => gone' \subseteq dismissed' /\ gone' \cap UrlsOf(saved') = {}
    BY <2>3, <2>4 DEF Shown, UrlsOf
  <2> QED
    BY <2>4, <2>5, <2>6, <2>7, ShownChange
<1>6. ASSUME NEW u \in Urls, NEW byName \in BOOLEAN, Remember(u, byName), disk' = disk
      PROVE  /\ saved' \subseteq Entries /\ dismissed' \subseteq Urls
             /\ writes' \in Seq(Write) /\ WritesWrite' /\ (Written => Written')
             /\ gone' \subseteq Urls
             /\ Shown => gone' \subseteq dismissed' /\ gone' \cap UrlsOf(saved') = {}
  <2>1. Shown => gone' \subseteq dismissed' /\ gone' \cap UrlsOf(saved') = {}
    BY <1>6 DEF Remember, Shown, UrlsOf
  <2>2. gone' \subseteq Urls
    BY <1>6, <1>t DEF Remember, SavedTypeOK
  <2> QED
    BY <1>6, <1>t, <2>1, <2>2, RememberKeeps
<1>7. ASSUME NEW u \in Urls, SelectDetected(u) PROVE SavedInv'
  <2>1. Remember(u, TRUE) /\ disk' = disk /\ restore = "up"
        /\ UNCHANGED <<restore, fromDisk, checks, sessions, disturbed>> /\ Gesture
    BY <1>7 DEF SelectDetected
  <2>2. SavedTypeOK'
    BY <1>t, <1>w, <1>g, <1>6, <2>1 DEF SavedTypeOK
  <2> QED
    BY <1>6, <2>1, <2>2, ShownChange
<1>8. ASSUME NEW u \in Urls, HydrateFromProject(u) PROVE SavedInv'
  <2>1. Remember(u, FALSE) /\ disk' = disk /\ disturbed' = (disturbed \/ restore # "up")
        /\ UNCHANGED <<restore, fromDisk, checks, sessions>> /\ Gesture
    BY <1>8 DEF HydrateFromProject, EarlyChange
  <2>2. SavedTypeOK'
    BY <1>t, <1>w, <1>g, <1>6, <2>1 DEF SavedTypeOK
  <2>3. CASE restore = "up"
    <3>1. disturbed' = disturbed
      BY <1>t, <2>1, <2>3 DEF SavedTypeOK
    <3> QED
      BY <1>6, <2>1, <2>2, <2>3, <3>1, ShownChange
  <2>4. CASE restore # "up"
    BY <1>6, <2>1, <2>2, <2>4 DEF SavedInv
  <2> QED
    BY <2>3, <2>4
<1>9. ASSUME NEW u \in Urls, Validate(u) PROVE SavedInv'
  <2>1. checks' \subseteq [url : Urls, old : Urls \cup {Adding}]
    <3>1. PICK old \in {Adding} \cup (UrlsOf(saved) \ Local) :
            checks' = checks \cup {[url |-> u, old |-> old]}
      BY <1>9 DEF Validate
    <3>2. old \in Urls \cup {Adding}
      BY <1>t DEF SavedTypeOK, UrlsOf, Entries
    <3> QED
      BY <1>t, <3>1, <3>2 DEF SavedTypeOK
  <2>2. SavedTypeOK'
    BY <1>9, <1>t, <1>g, <2>1 DEF Validate, SavedTypeOK
  <2>3. WritesWrite' /\ (Written => Written')
    BY <1>9, <1>t DEF Validate, WritesWrite, Written, Final, Pending, Current
  <2>4. Shown => gone' \subseteq dismissed' /\ gone' \cap UrlsOf(saved') = {}
    BY <1>9 DEF Validate, Shown, UrlsOf
  <2> QED
    BY <1>9, <2>2, <2>3, <2>4, ShownChange DEF Validate
<1>10. ASSUME NEW u \in Urls, DeleteSavedRuntime(u) PROVE SavedInv'
  <2>1. /\ restore = "up" /\ Gesture /\ saved' = {e \in saved : e.url # u}
        /\ dismissed' = dismissed \cup {u} /\ Begin(BothLists, saved', dismissed')
        /\ gone' = gone \cup {u}
        /\ UNCHANGED <<restore, fromDisk, disk, checks, sessions, disturbed>>
    BY <1>10 DEF DeleteSavedRuntime
  <2>2. saved' \subseteq Entries /\ dismissed' \subseteq Urls /\ gone' \subseteq Urls
    BY <1>t, <2>1 DEF SavedTypeOK
  <2>3. writes' \in Seq(Write) /\ WritesWrite' /\ (Written => Written')
    BY <1>t, <2>1, <2>2, BegunGrows DEF BothLists
  <2>4. SavedTypeOK'
    BY <1>t, <1>w, <1>g, <2>1, <2>2, <2>3 DEF SavedTypeOK
  <2>5. Shown => gone' \subseteq dismissed' /\ gone' \cap UrlsOf(saved') = {}
    BY <2>1 DEF Shown, UrlsOf
  <2> QED
    BY <2>1, <2>3, <2>4, <2>5, ShownChange
<1>11. ASSUME NEW c \in checks, Validated(c) PROVE SavedInv'
  <2>1. /\ checks' = checks \ {c} /\ restore = "up"
        /\ UNCHANGED <<restore, fromDisk, disk, gestures, sessions, disturbed>>
    BY <1>11 DEF Validated, SavedInv
  <2>2. c.url \in Urls /\ c.old \in Urls \cup {Adding}
    BY <1>t DEF SavedTypeOK
  <2>3. CASE Remember(c.url, FALSE)
    <3>1. SavedTypeOK'
      BY <1>t, <1>w, <1>6, <2>1, <2>2, <2>3 DEF SavedTypeOK
    <3> QED
      BY <1>6, <2>1, <2>2, <2>3, <3>1, ShownChange
  <2>4. CASE /\ saved' = {IF e.url = c.old THEN [url |-> c.url, detected |-> FALSE] ELSE e : e \in saved}
             /\ Begin({"saved"}, saved', dismissed)
             /\ gone' = IF c.old \in UrlsOf(saved) THEN gone \ {c.url} ELSE gone
             /\ UNCHANGED dismissed
    <3>1. saved' \subseteq Entries /\ \A e \in saved' : e.url \in UrlsOf(saved)
                                        \/ (e.url = c.url /\ c.old \in UrlsOf(saved))
      <4>1. [url |-> c.url, detected |-> FALSE] \in Entries
        BY <2>2 DEF Entries
      <4>2. \A e \in saved : e \in Entries /\ e.url \in UrlsOf(saved)
        BY <1>t DEF SavedTypeOK, UrlsOf
      <4>3. ASSUME NEW e \in saved'
            PROVE  e \in Entries /\ (e.url \in UrlsOf(saved) \/ (e.url = c.url /\ c.old \in UrlsOf(saved)))
        <5>1. PICK d \in saved :
                e = IF d.url = c.old THEN [url |-> c.url, detected |-> FALSE] ELSE d
          BY <2>4, <4>3
        <5>2. CASE d.url = c.old
          BY <4>1, <4>2, <5>1, <5>2
        <5>3. CASE d.url # c.old
          BY <4>2, <5>1, <5>3
        <5> QED
          BY <5>2, <5>3
      <4> QED
        BY <4>3
    <3>2. dismissed' \subseteq Urls /\ gone' \subseteq gone
      BY <1>t, <2>4 DEF SavedTypeOK
    <3>3. writes' \in Seq(Write) /\ WritesWrite' /\ (Written => Written')
      BY <1>t, <2>1, <2>4, <3>1, <3>2, BegunGrows DEF BothLists
    <3>4. SavedTypeOK'
      BY <1>t, <1>w, <2>1, <3>1, <3>2, <3>3 DEF SavedTypeOK
    <3>5. Shown => gone' \subseteq dismissed' /\ gone' \cap UrlsOf(saved') = {}
      BY <2>4, <3>1 DEF Shown, UrlsOf
    <3> QED
      BY <2>1, <3>3, <3>4, <3>5, ShownChange
  <2>5. CASE UNCHANGED <<saved, dismissed, writes, gone>>
    <3>1. SavedTypeOK'
      BY <1>t, <2>1, <2>5 DEF SavedTypeOK
    <3>2. WritesWrite' /\ (Written => Written')
      BY <1>t, <2>1, <2>5 DEF WritesWrite, Written, Final, Pending, Current
    <3>3. Shown => gone' \subseteq dismissed' /\ gone' \cap UrlsOf(saved') = {}
      BY <2>5 DEF Shown, UrlsOf
    <3> QED
      BY <2>1, <3>1, <3>2, <3>3, ShownChange
  <2> QED
    BY <1>11, <2>3, <2>4, <2>5 DEF Validated
<1> QED
  BY <1>1, <1>2, <1>3, <1>4, <1>5, <1>7, <1>8, <1>9, <1>10, <1>11 DEF SavedNext

LEMMA SavedInvSafe == SavedInv => SavedTypeOK /\ SavedSafe
<1> SUFFICES ASSUME SavedInv PROVE SavedTypeOK /\ SavedSafe
  OBVIOUS
<1>1. SavedTypeOK
  BY DEF SavedInv
<1>2. DeletedStaysGone
  BY DEF SavedInv, DeletedStaysGone, Shown, Unread, UrlsOf
<1>3. ASSUME ~disturbed, writes = <<>>, restore = "up"
      PROVE  disk = [saved |-> saved, dismissed |-> dismissed]
  <2>1. disk["saved"] = saved /\ disk["dismissed"] = dismissed
    BY <1>3 DEF SavedInv, Shown, Written, Pending, BothLists, Current
  <2>2. disk \in [saved : SUBSET Entries, dismissed : SUBSET Urls]
    BY <1>1 DEF SavedTypeOK, Lists
  <2> QED
    BY <2>1, <2>2
<1> QED
  BY <1>1, <1>2, <1>3 DEF SavedSafe, ListsOnDisk

-----------------------------------------------------------------------------
(* All of them.                                                            *)

RuntimeInv == ManagerInv /\ ServerInv /\ LauncherInv /\ SavedInv

LEMMA RuntimeInvInit == RuntimeInit => RuntimeInv
BY ManagerInvInit, ServerInitInv, LauncherInvInit, SavedInitInv DEF RuntimeInit, RuntimeInv

LEMMA RuntimeInvStep == RuntimeInv /\ [RuntimeNext]_runtimeVars => RuntimeInv'
<1> SUFFICES ASSUME RuntimeInv, [RuntimeNext]_runtimeVars PROVE RuntimeInv'
  OBVIOUS
<1>1. /\ [SidecarNext]_sidecarVars /\ [ServerNext]_serverVars
      /\ [LauncherNext]_launcherVars /\ [SavedNext]_savedVars
  BY Zenon DEF RuntimeNext, runtimeVars
<1> QED
  BY <1>1, ManagerInvStep, ServerInvariance, LauncherInvStep, SavedInvStep DEF RuntimeInv

LEMMA RuntimeAlways == RuntimeSpec => []RuntimeInv
BY RuntimeInvInit, RuntimeInvStep, PTL DEF RuntimeSpec

\* Whichever of the runtimes is at work, the state of the built-in one, of the
\* launcher and of the list keeps its shape, for any number of requests, servers,
\* endpoints and writes.
THEOREM RuntimesTypeCorrect == RuntimeSpec => []RuntimesTypeOK
<1>1. RuntimeInv => RuntimesTypeOK
  BY DEF RuntimeInv, RuntimesTypeOK, ServerInv, LauncherInv, SavedInv
<1> QED
  BY <1>1, RuntimeAlways, PTL

\* An entry of the launcher's map is of a server whose task still waits, and the
\* server entered last has its entry while it lives (start_server and its task);
\* and, unless writes crossed or the list was changed before it was read, a runtime
\* the user deleted stays deleted, through detections, edits and restarts, and the
\* disk holds both lists once nothing is being written (use-runtime-store).
THEOREM ExternalRuntimesAreTheirs == RuntimeSpec => []ExternalSafe
<1>1. RuntimeInv => ExternalSafe
  BY SavedInvSafe DEF RuntimeInv, ExternalSafe, LauncherInv
<1> QED
  BY <1>1, RuntimeAlways, PTL
=============================================================================
