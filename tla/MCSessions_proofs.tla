-------------------------- MODULE MCSessions_proofs --------------------------
(***************************************************************************)
(* Proofs about what is kept and told of a session's work: checkpoints,    *)
(* conversations and the compiled agents, each for every value of its      *)
(* constants, and then these and the rows of agents at work side by side.  *)
(***************************************************************************)
EXTENDS MCSessions, AgentTimeline_proofs

-----------------------------------------------------------------------------
(* Operations begin in order, and reserve no more seqs than there are.     *)

BegunInOrder == \A o, p \in Ops : p < o /\ op[o].pc # "none" => op[p].pc # "none"

Begun == {o \in Ops : op[o].pc \notin {"none", "begin"}}
FewReserved == next <= Cardinality(Begun)

Base == CheckpointsTypeOK /\ BegunInOrder /\ FewReserved

LEMMA OpsFinite ==
  /\ IsFiniteSet(Ops) /\ Cardinality(Ops) = MaxOps
  /\ \A S \in SUBSET Ops : IsFiniteSet(S) /\ Cardinality(S) \in Nat /\ Cardinality(S) <= MaxOps
  /\ \A S, T \in SUBSET Ops : S \subseteq T => Cardinality(S) <= Cardinality(T)
<1>1. IsFiniteSet(Ops) /\ Cardinality(Ops) = MaxOps
  <2>1. MaxOps \in Nat /\ Ops = 1 .. MaxOps
    BY CheckpointConstants DEF Ops
  <2> QED
    BY <2>1, FS_Interval
<1>2. \A S \in SUBSET Ops : IsFiniteSet(S) /\ Cardinality(S) \in Nat /\ Cardinality(S) <= MaxOps
  BY <1>1, FS_Subset, FS_CardinalityType
<1>3. \A S, T \in SUBSET Ops : S \subseteq T => Cardinality(S) <= Cardinality(T)
  BY <1>2, FS_Subset
<1> QED
  BY <1>1, <1>2, <1>3

LEMMA Operations ==
  /\ NoOperation \in Operation \/ MaxOps = 0
  /\ \A r \in Operation :
       /\ \A pc \in {"none", "begin", "snapshot", "record", "restore",
                     "seqs", "list", "delete", "done", "failed"} :
            /\ [r EXCEPT !.pc = pc] \in Operation
            /\ \A q \in Seqs : [r EXCEPT !.pc = pc, !.seq = q] \in Operation
            /\ \A S \in SUBSET Seqs : [r EXCEPT !.pc = pc, !.listed = S] \in Operation
       /\ \A S \in SUBSET Seqs : [r EXCEPT !.listed = S] \in Operation
       /\ \A kind \in Kinds, t \in 0 .. MaxOps :
            [NoOperation EXCEPT !.kind = kind, !.pc = "begin", !.target = t] \in Operation
<1>1. MaxOps # 0 => 0 \in Seqs
  BY CheckpointConstants DEF Seqs
<1>2. Seqs # {} => MaxOps # 0
  BY CheckpointConstants DEF Seqs
<1>3. MaxOps # 0 => NoOperation \in Operation
  BY <1>1, CheckpointConstants DEF NoOperation, Operation, Kinds
<1>4. \A r \in Operation : r.seq \in Seqs
  BY DEF Operation
<1>5. \A r \in Operation, pc \in {"none", "begin", "snapshot", "record", "restore",
                                  "seqs", "list", "delete", "done", "failed"} :
        /\ [r EXCEPT !.pc = pc] \in Operation
        /\ \A q \in Seqs : [r EXCEPT !.pc = pc, !.seq = q] \in Operation
        /\ \A S \in SUBSET Seqs : [r EXCEPT !.pc = pc, !.listed = S] \in Operation
  BY DEF Operation
<1>6. \A r \in Operation, S \in SUBSET Seqs : [r EXCEPT !.listed = S] \in Operation
  BY DEF Operation
<1>7. \A r \in Operation, kind \in Kinds, t \in 0 .. MaxOps :
        [NoOperation EXCEPT !.kind = kind, !.pc = "begin", !.target = t] \in Operation
  BY <1>2, <1>3, <1>4 DEF Operation, NoOperation
<1> QED
  BY <1>3, <1>5, <1>6, <1>7

\* What a change of a record leaves alone.
LEMMA OpFields ==
  \A r \in Operation :
    /\ \A pc, q :
         LET R == [r EXCEPT !.pc = pc, !.seq = q]
         IN  R.pc = pc /\ R.seq = q /\ R.kind = r.kind /\ R.target = r.target
    /\ \A pc, S :
         LET R == [r EXCEPT !.pc = pc, !.listed = S]
         IN  R.pc = pc /\ R.listed = S /\ R.kind = r.kind /\ R.target = r.target /\ R.seq = r.seq
    /\ \A S :
         LET R == [r EXCEPT !.listed = S]
         IN  R.listed = S /\ R.pc = r.pc /\ R.kind = r.kind /\ R.target = r.target /\ R.seq = r.seq
    /\ \A pc :
         LET R == [r EXCEPT !.pc = pc]
         IN  R.pc = pc /\ R.kind = r.kind /\ R.target = r.target /\ R.seq = r.seq /\ R.listed = r.listed
BY DEF Operation

LEMMA BaseInit == CheckpointsInit => Base
<1> SUFFICES ASSUME CheckpointsInit PROVE Base
  OBVIOUS
<1>1. 0 \in 0 .. MaxOps
  BY CheckpointConstants
<1>2. \A o \in Ops : op[o] = NoOperation /\ NoOperation \in Operation
  <2>1. \A o \in Ops : MaxOps # 0
    BY CheckpointConstants DEF Ops
  <2>2. NoOperation \in Operation \/ MaxOps = 0
    BY Operations
  <2> QED
    BY <2>1, <2>2 DEF CheckpointsInit
<1>3. CheckpointsTypeOK
  BY <1>1, <1>2 DEF CheckpointsInit, CheckpointsTypeOK
<1>4. \A o \in Ops : op[o].pc = "none"
  BY <1>2 DEF NoOperation
<1>5. BegunInOrder
  BY <1>4 DEF BegunInOrder
<1>6. FewReserved
  <2>1. Begun \in SUBSET Ops /\ next = 0
    BY DEF Begun, CheckpointsInit
  <2> QED
    BY <2>1, OpsFinite DEF FewReserved
<1> QED
  BY <1>3, <1>5, <1>6 DEF Base

\* One operation goes on, and stays begun.
LEMMA OneOp ==
  ASSUME Base, NEW o \in Ops, NEW R \in Operation, R.pc # "none", op[o].pc # "none",
         R.pc = "begin" => op[o].pc = "begin", op' = [op EXCEPT ![o] = R]
  PROVE  /\ op' \in [Ops -> Operation] /\ op'[o] = R
         /\ \A p \in Ops : p # o => op'[p] = op[p]
         /\ BegunInOrder' /\ Cardinality(Begun) <= Cardinality(Begun')
<1>1. /\ op' \in [Ops -> Operation] /\ op'[o] = R
      /\ \A p \in Ops : p # o => op'[p] = op[p]
  BY DEF Base, CheckpointsTypeOK
<1>2. BegunInOrder'
  BY <1>1 DEF Base, BegunInOrder
<1>3. Begun \subseteq Begun' /\ Begun' \in SUBSET Ops /\ Begun \in SUBSET Ops
  BY <1>1 DEF Begun
<1> QED
  BY <1>1, <1>2, <1>3, OpsFinite

\* `To`, as a record.
LEMMA ToIsOne ==
  ASSUME Base, NEW o \in Ops, NEW pc, To(o, pc)
  PROVE  /\ op[o] \in Operation /\ op' = [op EXCEPT ![o] = [op[o] EXCEPT !.pc = pc]]
         /\ [op[o] EXCEPT !.pc = pc].pc = pc /\ [op[o] EXCEPT !.pc = pc].seq = op[o].seq
         /\ [op[o] EXCEPT !.pc = pc].kind = op[o].kind
         /\ [op[o] EXCEPT !.pc = pc].target = op[o].target
         /\ [op[o] EXCEPT !.pc = pc].listed = op[o].listed
BY DEF Base, CheckpointsTypeOK, To, Operation

\* The seq that is reserved is one of the seqs.
LEMMA RoomForOne ==
  ASSUME Base, NEW o \in Ops, op[o].pc = "begin"
  PROVE  next \in Seqs /\ next + 1 \in 0 .. MaxOps /\ next + 1 <= Cardinality(Begun \cup {o})
<1>1. Begun \in SUBSET Ops /\ o \notin Begun /\ Begun \cup {o} \in SUBSET Ops
  BY DEF Begun
<1>2. Cardinality(Begun \cup {o}) = Cardinality(Begun) + 1
  BY <1>1, OpsFinite, FS_AddElement
<1>3. Cardinality(Begun \cup {o}) <= MaxOps /\ Cardinality(Begun) \in Nat
  BY <1>1, OpsFinite
<1>4. next \in Nat /\ next <= Cardinality(Begun)
  BY CheckpointConstants DEF Base, CheckpointsTypeOK, FewReserved
<1> QED
  BY <1>2, <1>3, <1>4, CheckpointConstants DEF Seqs

LEMMA CardNat == Cardinality(Begun) \in Nat /\ Cardinality(Begun') \in Nat
<1>1. Begun \in SUBSET Ops /\ Begun' \in SUBSET Ops
  BY DEF Begun
<1> QED
  BY <1>1, OpsFinite

LEMMA BaseStep == Base /\ [CheckpointsNext]_checkpointVars => Base'
<1> SUFFICES ASSUME Base, [CheckpointsNext]_checkpointVars PROVE Base'
  OBVIOUS
<1>t. /\ op \in [Ops -> Operation] /\ next \in 0 .. MaxOps /\ next \in Nat
      /\ refs \in [Seqs -> 0 .. MaxOps] /\ records \in Seq([op : Ops, seq : Seqs])
  BY CheckpointConstants DEF Base, CheckpointsTypeOK
<1>z. 0 \in 0 .. MaxOps /\ Ops \subseteq 0 .. MaxOps
  BY CheckpointConstants DEF Ops
<1>s. \A o \in Ops : op[o].seq \in Seqs /\ op[o].listed \in SUBSET Seqs
  BY <1>t DEF Operation
\* An operation goes on, and no seq is reserved.
<1>g. ASSUME NEW o \in Ops, NEW R \in Operation, R.pc \notin {"none", "begin"}, op[o].pc # "none",
             op' = [op EXCEPT ![o] = R], next' \in {0, next},
             refs' \in [Seqs -> 0 .. MaxOps], records' \in Seq([op : Ops, seq : Seqs])
      PROVE  Base'
  <2>1. op' \in [Ops -> Operation] /\ BegunInOrder' /\ Cardinality(Begun) <= Cardinality(Begun')
    BY <1>g, OneOp
  <2>2. next' <= next /\ next' \in 0 .. MaxOps /\ next' \in Nat
    BY <1>t, <1>z, <1>g
  <2>3. FewReserved'
    BY <1>t, <2>1, <2>2, CardNat DEF Base, FewReserved
  <2> QED
    BY <1>g, <2>1, <2>2, <2>3 DEF Base, CheckpointsTypeOK
<1>h. ASSUME NEW o \in Ops, NEW pc \in {"snapshot", "record", "restore", "seqs", "list", "delete",
                                        "done", "failed"},
             To(o, pc), op[o].pc # "none", next' \in {0, next},
             refs' \in [Seqs -> 0 .. MaxOps], records' \in Seq([op : Ops, seq : Seqs])
      PROVE  Base'
  <2> DEFINE R == [op[o] EXCEPT !.pc = pc]
  <2>1. op' = [op EXCEPT ![o] = R] /\ R.pc = pc /\ R \in Operation
    BY <1>h, ToIsOne, Operations
  <2> HIDE DEF R
  <2> QED
    BY <1>g, <1>h, <2>1
<1>1. ASSUME NEW o \in Ops, NEW kind \in Kinds, Begin(o, kind) PROVE Base'
  <2>1. PICK t \in 0 .. MaxOps :
          op' = [op EXCEPT ![o] = [NoOperation EXCEPT !.kind = kind, !.pc = "begin", !.target = t]]
    BY <1>1 DEF Begin
  <2> DEFINE R == [NoOperation EXCEPT !.kind = kind, !.pc = "begin", !.target = t]
  <2>2. R \in Operation /\ R.pc = "begin" /\ op' = [op EXCEPT ![o] = R]
    BY <1>t, <2>1, Operations DEF NoOperation
  <2> HIDE DEF R
  <2>3. /\ op' \in [Ops -> Operation] /\ op'[o] = R /\ \A p \in Ops : p # o => op'[p] = op[p]
    BY <1>t, <2>2
  <2>4. BegunInOrder'
    <3> SUFFICES ASSUME NEW a \in Ops, NEW b \in Ops, b < a, op'[a].pc # "none"
                 PROVE  op'[b].pc # "none"
      BY DEF BegunInOrder
    <3>1. \A p \in 1 .. o - 1 : op[p].pc # "none"
      BY <1>1 DEF Begin
    <3>2. CASE b = o
      BY <2>2, <2>3, <3>2
    <3>3. CASE b # o /\ a = o
      <4>1. b \in 1 .. o - 1
        BY <3>3, CheckpointConstants DEF Ops
      <4> QED
        BY <2>3, <3>1, <3>3, <4>1
    <3>4. CASE b # o /\ a # o
      BY <2>3, <3>4 DEF Base, BegunInOrder
    <3> QED
      BY <3>2, <3>3, <3>4
  <2>5. UNCHANGED <<next, refs, records>> /\ op[o].pc = "none"
    BY <1>1 DEF Begin
  <2>6. Begun' = Begun
    BY <2>2, <2>3, <2>5 DEF Begun
  <2> QED
    BY <2>3, <2>4, <2>5, <2>6 DEF Base, CheckpointsTypeOK, FewReserved
<1>2. ASSUME NEW o \in Ops, Reserve(o) PROVE Base'
  <2> DEFINE R == [op[o] EXCEPT !.pc = "snapshot", !.seq = next]
  <2>1. next \in Seqs /\ next + 1 \in 0 .. MaxOps /\ next + 1 <= Cardinality(Begun \cup {o})
    BY <1>2, RoomForOne DEF Reserve
  <2>2. R \in Operation /\ R.pc = "snapshot"
    <3>1. op[o] \in Operation
      BY <1>t
    <3>2. R \in Operation
      BY <2>1, <3>1, Operations
    <3> QED
      BY <3>1, <3>2, OpFields
  <2>3. op' = [op EXCEPT ![o] = R]
    BY <1>2, <1>t DEF Reserve, Operation
  <2>4. op[o].pc = "begin" /\ next' = next + 1 /\ UNCHANGED <<refs, records>>
    BY <1>2 DEF Reserve, NextSeq
  <2> HIDE DEF R
  <2>5. /\ op' \in [Ops -> Operation] /\ BegunInOrder' /\ op'[o] = R
        /\ \A p \in Ops : p # o => op'[p] = op[p]
    BY <2>2, <2>3, <2>4, OneOp
  <2>6. Begun' = Begun \cup {o}
    BY <2>2, <2>4, <2>5 DEF Begun
  <2> QED
    BY <2>1, <2>4, <2>5, <2>6 DEF Base, CheckpointsTypeOK, FewReserved
<1>3. ASSUME NEW o \in Ops, UpdateRef(o) PROVE Base'
  <2>1. refs' \in [Seqs -> 0 .. MaxOps]
    BY <1>3, <1>t, <1>z, <1>s DEF UpdateRef
  <2> QED
    BY <1>3, <1>h, <1>t, <2>1 DEF UpdateRef
<1>4. ASSUME NEW o \in Ops, SnapshotFails(o) \/ Restore(o) PROVE Base'
  BY <1>4, <1>h, <1>t DEF SnapshotFails, Restore
<1>5. ASSUME NEW o \in Ops, Record(o) PROVE Base'
  <2>1. records' \in Seq([op : Ops, seq : Seqs])
    BY <1>5, <1>t, <1>s DEF Record
  <2> QED
    BY <1>5, <1>h, <1>t, <2>1 DEF Record, AfterSnapshot
<1>6. ASSUME NEW o \in Ops, ClearRecords(o) \/ ClearSeqs(o) PROVE Base'
  <2>1. <<>> \in Seq([op : Ops, seq : Seqs])
    OBVIOUS
  <2>2. CASE ClearRecords(o)
    BY <1>h, <1>t, <2>1, <2>2 DEF ClearRecords
  <2>3. CASE ClearSeqs(o)
    BY <1>h, <1>t, <2>3 DEF ClearSeqs
  <2> QED
    BY <1>6, <2>2, <2>3
<1>7. ASSUME NEW o \in Ops, ListRefs(o) PROVE Base'
  <2> DEFINE R == [op[o] EXCEPT !.pc = "delete", !.listed = Listed]
  <2>1. Listed \in SUBSET Seqs
    BY DEF Listed
  <2>2. R \in Operation /\ R.pc = "delete"
    <3>1. op[o] \in Operation
      BY <1>t
    <3>2. R \in Operation
      BY <2>1, <3>1, Operations
    <3> QED
      BY <3>1, <3>2, OpFields
  <2>3. op' = [op EXCEPT ![o] = R] /\ op[o].pc # "none" /\ UNCHANGED <<next, refs, records>>
    BY <1>7, <1>t DEF ListRefs, Operation
  <2> HIDE DEF R
  <2> QED
    BY <1>g, <1>t, <2>2, <2>3
<1>8. ASSUME NEW o \in Ops, DeleteRef(o) PROVE Base'
  <2>1. CASE To(o, "done") /\ UNCHANGED refs
    BY <1>8, <1>h, <1>t, <2>1 DEF DeleteRef
  <2>2. ASSUME NEW q \in op[o].listed, refs' = [refs EXCEPT ![q] = 0],
               op' = [op EXCEPT ![o].listed = @ \ {q}]
        PROVE  Base'
    <3> DEFINE R == [op[o] EXCEPT !.listed = op[o].listed \ {q}]
    <3>1. op' = [op EXCEPT ![o] = R]
      BY <1>t, <2>2 DEF Operation
    <3>2. op[o].listed \ {q} \in SUBSET Seqs
      BY <1>s
    <3>3. R \in Operation /\ R.pc = "delete" /\ op[o].pc = "delete"
      <4>1. op[o] \in Operation /\ op[o].pc = "delete"
        BY <1>8, <1>t DEF DeleteRef
      <4>2. R \in Operation
        BY <3>2, <4>1, Operations
      <4> QED
        BY <4>1, <4>2, OpFields
    <3>4. refs' \in [Seqs -> 0 .. MaxOps]
      BY <1>t, <1>z, <2>2
    <3> HIDE DEF R
    <3> QED
      BY <1>8, <1>g, <1>t, <3>1, <3>3, <3>4 DEF DeleteRef
  <2> QED
    BY <1>8, <2>1, <2>2 DEF DeleteRef
<1>9. CASE AppRestarts
  <2>1. \A o \in Ops : [op[o] EXCEPT !.pc = "failed"] \in Operation
                       /\ [op[o] EXCEPT !.pc = "failed"].pc = "failed"
    <3> SUFFICES ASSUME NEW o \in Ops
                 PROVE  [op[o] EXCEPT !.pc = "failed"] \in Operation
                        /\ [op[o] EXCEPT !.pc = "failed"].pc = "failed"
      OBVIOUS
    <3>1. op[o] \in Operation
      BY <1>t
    <3>2. [op[o] EXCEPT !.pc = "failed"] \in Operation
      BY <3>1, Operations
    <3>3. [op[o] EXCEPT !.pc = "failed"].pc = "failed"
      BY <3>1, OpFields
    <3> QED
      BY <3>2, <3>3
  <2>2. op' = [o \in Ops |-> IF InFlight(o) THEN [op[o] EXCEPT !.pc = "failed"] ELSE op[o]]
        /\ next' = 0 /\ records' = <<>> /\ UNCHANGED refs
    BY <1>9 DEF AppRestarts
  <2>3. op' \in [Ops -> Operation]
    BY <1>t, <2>1, <2>2
  <2>4. \A o \in Ops : op'[o].pc = "none" <=> op[o].pc = "none"
    BY <2>1, <2>2 DEF InFlight
  <2>5. BegunInOrder'
    BY <2>4 DEF Base, BegunInOrder
  <2>6. FewReserved'
    BY <2>2, CardNat DEF FewReserved
  <2>7. records' \in Seq([op : Ops, seq : Seqs])
    BY <2>2
  <2> QED
    BY <1>t, <1>z, <2>2, <2>3, <2>5, <2>6, <2>7 DEF Base, CheckpointsTypeOK
<1>10. CASE UNCHANGED checkpointVars
  BY <1>10 DEF checkpointVars, Base, CheckpointsTypeOK, BegunInOrder, FewReserved, Begun
<1> QED
  BY <1>1, <1>2, <1>3, <1>4, <1>5, <1>6, <1>7, <1>8, <1>9, <1>10 DEF CheckpointsNext, OpStep

\* The state of the checkpoints keeps its shape, for any number of operations
\* and wherever clears overlap them: no more seqs are reserved than there are.
THEOREM CheckpointsTypeCorrect == CheckpointsSpec => []CheckpointsTypeOK
<1>1. Base => CheckpointsTypeOK
  BY DEF Base
<1> QED
  BY <1>1, BaseInit, BaseStep, PTL DEF CheckpointsSpec

-----------------------------------------------------------------------------
(* What is kept, where clears are kept apart.                              *)

\* A seq whose ref no snapshot under way is going to overwrite.
Safe(q) == /\ q \in Seqs /\ q < next
           /\ \A p \in Ops : op[p].pc = "snapshot" => op[p].seq # q

\* A snapshot has a seq to itself.
SeqsApart ==
  \A o \in Ops : op[o].pc = "snapshot" =>
    /\ op[o].seq < next
    /\ \A p \in Ops : op[p].pc = "snapshot" /\ op[p].seq = op[o].seq => p = o

Parked == \A o \in Ops : op[o].pc = "record" => Safe(op[o].seq) /\ refs[op[o].seq] = o
Listings == \A i \in DOMAIN records : Safe(records[i].seq) /\ refs[records[i].seq] = records[i].op
Targets ==
  \A o \in Ops : op[o].kind = "restore" /\ InFlight(o) =>
    \E q \in Seqs : Safe(q) /\ refs[q] = op[o].target

\* A clear is alone, knows what is left to delete, and comes after what it clears.
Clearing == {"seqs", "list", "delete"}
KindFitsPc ==
  \A o \in Ops : /\ op[o].pc \in Clearing => op[o].kind = "clear"
                 /\ op[o].pc \in {"snapshot", "record", "restore"} => op[o].kind # "clear"
Alone ==
  \A o, p \in Ops :
    /\ op[o].kind = "clear" /\ InFlight(o) /\ p # o => ~InFlight(p)
    /\ op[o].kind = "clear" /\ op[o].pc # "none" /\ p < o => ~InFlight(p)
Cleared ==
  \A o \in Ops :
    /\ op[o].pc \in Clearing => records = <<>>
    /\ op[o].pc = "delete" => \A q \in Seqs : refs[q] # 0 => q \in op[o].listed

CheckpointInv == /\ Base /\ SeqsApart /\ Parked /\ Listings /\ Targets
        /\ KindFitsPc /\ Alone /\ Cleared /\ ClearLeavesNothing

LEMMA CheckpointInvInit == CheckpointsInit => CheckpointInv
<1> SUFFICES ASSUME CheckpointsInit PROVE CheckpointInv
  OBVIOUS
<1>1. \A o \in Ops : op[o].pc = "none" /\ op[o].kind = "create"
  BY DEF CheckpointsInit, NoOperation
<1>2. DOMAIN records = {}
  BY DEF CheckpointsInit
<1>3. SeqsApart /\ Parked /\ Targets /\ KindFitsPc /\ Alone /\ Cleared /\ ClearLeavesNothing
  BY <1>1 DEF SeqsApart, Parked, Targets, KindFitsPc, Alone, Cleared, ClearLeavesNothing,
              InFlight, Clearing
<1>4. Listings
  BY <1>2 DEF Listings
<1> QED
  BY <1>3, <1>4, BaseInit DEF CheckpointInv

\* Nothing that is safe becomes unsafe when no snapshot begins and no seq is
\* given back.
LEMMA StaysSafe ==
  ASSUME CheckpointInv, NEW o \in Ops, NEW R \in Operation, op' = [op EXCEPT ![o] = R],
         R.pc = "snapshot" => op[o].pc = "snapshot" /\ R.seq = op[o].seq,
         UNCHANGED next, NEW q, Safe(q)
  PROVE  Safe(q)'
BY DEF CheckpointInv, Base, CheckpointsTypeOK, Safe

\* One operation that is no clear, and is under way, goes on.
LEMMA GoesOn ==
  ASSUME CheckpointInv, Base', NEW o \in Ops, NEW R \in Operation, op' = [op EXCEPT ![o] = R],
         InFlight(o), op[o].kind # "clear", R.kind = op[o].kind, R.target = op[o].target,
         R.pc \in {"snapshot", "record", "restore", "done", "failed"}
  PROVE  /\ KindFitsPc' /\ Alone' /\ Cleared' /\ ClearLeavesNothing'
         /\ op'[o] = R /\ \A p \in Ops : p # o => op'[p] = op[p]
         /\ \A p \in Ops : InFlight(p)' => InFlight(p)
<1>1. op'[o] = R /\ \A p \in Ops : p # o => op'[p] = op[p]
  BY DEF CheckpointInv, Base, CheckpointsTypeOK
<1>2. \A p \in Ops : InFlight(p)' => InFlight(p)
  BY <1>1 DEF InFlight
<1>3. KindFitsPc'
  BY <1>1 DEF CheckpointInv, KindFitsPc, Clearing
<1>4. Alone'
  <2> SUFFICES ASSUME NEW a \in Ops, NEW b \in Ops, op'[a].kind = "clear"
               PROVE  /\ InFlight(a)' /\ b # a => ~InFlight(b)'
                      /\ op'[a].pc # "none" /\ b < a => ~InFlight(b)'
    BY DEF Alone
  <2>1. a # o /\ op'[a] = op[a]
    BY <1>1
  <2> QED
    BY <1>2, <2>1 DEF CheckpointInv, Alone
<1>5. \A p \in Ops : op[p].kind = "clear" => ~InFlight(p)
  BY DEF CheckpointInv, Alone
<1>6. \A p \in Ops : op'[p].pc \notin Clearing
  <2> SUFFICES ASSUME NEW p \in Ops PROVE op'[p].pc \notin Clearing
    OBVIOUS
  <2>1. CASE p = o
    BY <1>1, <2>1 DEF Clearing
  <2>2. CASE p # o
    BY <1>1, <1>5, <2>2 DEF CheckpointInv, KindFitsPc, Clearing, InFlight
  <2> QED
    BY <2>1, <2>2
<1>7. Cleared'
  BY <1>6 DEF Cleared, Clearing
<1>8. ClearLeavesNothing'
  \* A clear that is done came after o, or o has begun after it.
  <2> SUFFICES ASSUME NEW c \in Ops, op'[c].kind = "clear", op'[c].pc = "done",
                      \A p \in Ops : p > c => op'[p].pc = "none"
               PROVE  FALSE
    BY DEF ClearLeavesNothing
  <2>1. c # o /\ op'[c] = op[c]
    BY <1>1
  <2>2. ~(o < c)
    BY <2>1 DEF CheckpointInv, Alone
  <2>3. o > c
    BY <2>1, <2>2, CheckpointConstants DEF Ops
  <2> QED
    BY <1>1, <2>3
<1> QED
  BY <1>1, <1>2, <1>3, <1>4, <1>7, <1>8

LEMMA ReserveStep == ASSUME CheckpointInv, Base', NEW o \in Ops, Reserve(o) PROVE CheckpointInv'
<1> DEFINE R == [op[o] EXCEPT !.pc = "snapshot", !.seq = next]
<1>1. /\ op[o] \in Operation /\ next \in Seqs /\ next \in Nat /\ InFlight(o) /\ op[o].kind # "clear"
      /\ op[o].pc = "begin" /\ op \in [Ops -> Operation]
  <2>1. op[o].pc = "begin" /\ op[o].kind # "clear"
    BY DEF Reserve
  <2>2. next \in Seqs
    BY <2>1, RoomForOne DEF CheckpointInv
  <2>3. next \in Nat
    BY <2>2, CheckpointConstants DEF Seqs
  <2>4. InFlight(o)
    BY <2>1 DEF InFlight
  <2>5. op \in [Ops -> Operation]
    BY DEF CheckpointInv, Base, CheckpointsTypeOK
  <2> QED
    BY <2>1, <2>2, <2>3, <2>4, <2>5
<1>2. R \in Operation /\ op' = [op EXCEPT ![o] = R]
  <2>1. R \in Operation
    BY <1>1, Operations
  <2>2. op' = [op EXCEPT ![o] = R]
    BY <1>1 DEF Reserve, Operation
  <2> QED
    BY <2>1, <2>2
<1>3. R.pc = "snapshot" /\ R.seq = next /\ R.kind = op[o].kind /\ R.target = op[o].target
  BY <1>1, OpFields
<1> HIDE DEF R
<1>4. next' = next + 1 /\ UNCHANGED <<refs, records>>
  BY DEF Reserve, NextSeq
<1>5. /\ KindFitsPc' /\ Alone' /\ Cleared' /\ ClearLeavesNothing'
      /\ op'[o] = R /\ \A p \in Ops : p # o => op'[p] = op[p]
      /\ \A p \in Ops : InFlight(p)' => InFlight(p)
  BY <1>1, <1>2, <1>3, GoesOn
<1>6. \A q : Safe(q) => Safe(q)'
  <2> SUFFICES ASSUME NEW q, Safe(q) PROVE Safe(q)'
    OBVIOUS
  <2>1. q \in Seqs /\ q < next + 1 /\ q # next
    BY <1>1, CheckpointConstants DEF Safe, Seqs
  <2> QED
    BY <1>3, <1>4, <1>5, <2>1 DEF Safe
<1>7. SeqsApart'
  <2>1. \A p \in Ops : op[p].seq \in Seqs
    BY <1>1 DEF Operation
  <2>2. \A p \in Ops : p # o /\ op'[p].pc = "snapshot" => op[p].seq < next /\ op'[p].seq = op[p].seq
    BY <1>5 DEF CheckpointInv, SeqsApart
  <2>3. \A p \in Ops : op[p].seq \in Nat
    BY <2>1, CheckpointConstants DEF Seqs
  <2>4. \A p \in Ops : op'[p].pc = "snapshot" => op'[p].seq < next'
    BY <1>1, <1>3, <1>4, <1>5, <2>2, <2>3
  <2>5. ASSUME NEW a \in Ops, NEW b \in Ops, op'[a].pc = "snapshot", op'[b].pc = "snapshot",
               op'[a].seq = op'[b].seq
        PROVE  a = b
    <3>1. a # o /\ b # o => a = b
      BY <1>5, <2>5 DEF CheckpointInv, SeqsApart
    <3>2. a = o <=> b = o
      BY <1>1, <1>3, <1>5, <2>2, <2>3, <2>5
    <3> QED
      BY <3>1, <3>2
  <2> QED
    BY <2>4, <2>5 DEF SeqsApart
<1>8. Parked' /\ Listings'
  <2>1. Parked'
    BY <1>3, <1>4, <1>5, <1>6 DEF CheckpointInv, Parked
  <2>2. Listings'
    BY <1>4, <1>6 DEF CheckpointInv, Listings
  <2> QED
    BY <2>1, <2>2
<1>9. Targets'
  BY <1>3, <1>4, <1>5, <1>6 DEF CheckpointInv, Targets
<1> QED
  BY <1>5, <1>7, <1>8, <1>9 DEF CheckpointInv

LEMMA UpdateRefStep == ASSUME CheckpointInv, Base', NEW o \in Ops, UpdateRef(o) PROVE CheckpointInv'
<1>0. PICK s : s = op[o].seq
  OBVIOUS
<1> DEFINE R == [op[o] EXCEPT !.pc = "record"]
<1>1. /\ op[o] \in Operation /\ InFlight(o) /\ op[o].kind # "clear" /\ op[o].pc = "snapshot"
      /\ refs \in [Seqs -> 0 .. MaxOps] /\ s \in Seqs /\ s < next
  <2>1. op[o] \in Operation /\ op[o].pc = "snapshot" /\ refs \in [Seqs -> 0 .. MaxOps]
    BY DEF CheckpointInv, Base, CheckpointsTypeOK, UpdateRef
  <2>2. s \in Seqs
    BY <1>0, <2>1 DEF Operation
  <2>3. InFlight(o) /\ op[o].kind # "clear" /\ s < next
    BY <1>0, <2>1 DEF InFlight, CheckpointInv, KindFitsPc, SeqsApart
  <2> QED
    BY <2>1, <2>2, <2>3
<1>2. R \in Operation /\ op' = [op EXCEPT ![o] = R]
  BY <1>1, Operations, ToIsOne DEF CheckpointInv, UpdateRef
<1>3. R.pc = "record" /\ R.seq = s /\ R.kind = op[o].kind /\ R.target = op[o].target
  BY <1>0, <1>1, OpFields
<1> HIDE DEF R
<1>4. refs' = [refs EXCEPT ![s] = o] /\ UNCHANGED <<next, records>>
  BY <1>0 DEF UpdateRef
<1>5. /\ KindFitsPc' /\ Alone' /\ Cleared' /\ ClearLeavesNothing'
      /\ op'[o] = R /\ \A p \in Ops : p # o => op'[p] = op[p]
      /\ \A p \in Ops : InFlight(p)' => InFlight(p)
  BY <1>1, <1>2, <1>3, GoesOn
<1>6. \A q : Safe(q) => Safe(q)' /\ refs'[q] = refs[q]
  <2> SUFFICES ASSUME NEW q, Safe(q) PROVE Safe(q)' /\ refs'[q] = refs[q]
    OBVIOUS
  <2>1. Safe(q)'
    BY <1>2, <1>3, <1>4, StaysSafe
  <2>2. q \in Seqs /\ q # s
    BY <1>0, <1>1 DEF Safe
  <2> QED
    BY <1>1, <1>4, <2>1, <2>2
<1>7. SeqsApart'
  BY <1>3, <1>4, <1>5 DEF CheckpointInv, SeqsApart
<1>8. Safe(s)' /\ refs'[s] = o
  <2>1. \A p \in Ops : op'[p].pc = "snapshot" => op'[p].seq # s
    BY <1>0, <1>1, <1>3, <1>5 DEF CheckpointInv, SeqsApart
  <2> QED
    BY <1>1, <1>4, <2>1 DEF Safe
<1>9. Parked'
  BY <1>3, <1>5, <1>6, <1>8 DEF CheckpointInv, Parked
<1>10. Listings'
  BY <1>4, <1>6 DEF CheckpointInv, Listings
<1>11. Targets'
  BY <1>3, <1>5, <1>6 DEF CheckpointInv, Targets
<1> QED
  BY <1>5, <1>7, <1>9, <1>10, <1>11 DEF CheckpointInv

\* A snapshot has failed, a commit is recorded, or a rollback is over.
LEMMA LaterStep ==
  ASSUME CheckpointInv, Base', NEW o \in Ops, SnapshotFails(o) \/ Record(o) \/ Restore(o) PROVE CheckpointInv'
<1>1. PICK pc \in {"restore", "done", "failed"} : To(o, pc)
  BY DEF SnapshotFails, Record, Restore, AfterSnapshot
<1> DEFINE R == [op[o] EXCEPT !.pc = pc]
<1>2. /\ op[o] \in Operation /\ InFlight(o) /\ op[o].kind # "clear"
      /\ UNCHANGED <<next, refs>>
  <2>1. op[o] \in Operation /\ op[o].pc \in {"snapshot", "record", "restore"}
    BY DEF CheckpointInv, Base, CheckpointsTypeOK, SnapshotFails, Record, Restore
  <2> QED
    BY <2>1 DEF InFlight, CheckpointInv, KindFitsPc, SnapshotFails, Record, Restore
<1>3. R \in Operation /\ op' = [op EXCEPT ![o] = R]
  BY <1>1, <1>2, Operations, ToIsOne DEF CheckpointInv
<1>4. R.pc = pc /\ R.seq = op[o].seq /\ R.kind = op[o].kind /\ R.target = op[o].target
  BY <1>2, OpFields
<1> HIDE DEF R
<1>5. /\ KindFitsPc' /\ Alone' /\ Cleared' /\ ClearLeavesNothing'
      /\ op'[o] = R /\ \A p \in Ops : p # o => op'[p] = op[p]
      /\ \A p \in Ops : InFlight(p)' => InFlight(p)
  BY <1>2, <1>3, <1>4, GoesOn
<1>6. \A q : Safe(q) => Safe(q)'
  BY <1>2, <1>3, <1>4, StaysSafe
<1>7. SeqsApart'
  BY <1>2, <1>4, <1>5 DEF CheckpointInv, SeqsApart
<1>8. Parked'
  BY <1>2, <1>4, <1>5, <1>6 DEF CheckpointInv, Parked
<1>9. Targets'
  BY <1>2, <1>4, <1>5, <1>6 DEF CheckpointInv, Targets
<1>10. Listings'
  <2>1. CASE UNCHANGED records
    BY <1>2, <1>6, <2>1 DEF CheckpointInv, Listings
  <2>2. CASE Record(o)
    <3> DEFINE e == [op |-> o, seq |-> op[o].seq]
    <3>1. records \in Seq([op : Ops, seq : Seqs]) /\ records' = Append(records, e)
      BY <2>2 DEF CheckpointInv, Base, CheckpointsTypeOK, Record
    <3>2. /\ DOMAIN records' = DOMAIN records \cup {Len(records) + 1}
          /\ \A i \in DOMAIN records : records'[i] = records[i]
          /\ records'[Len(records) + 1] = e
      BY <3>1
    <3>3. Safe(e.seq) /\ refs[e.seq] = e.op
      BY <2>2 DEF Record, CheckpointInv, Parked
    <3> HIDE DEF e
    <3> QED
      BY <1>2, <1>6, <3>2, <3>3 DEF CheckpointInv, Listings
  <2> QED
    BY <2>1, <2>2 DEF SnapshotFails, Record, Restore
<1> QED
  BY <1>5, <1>7, <1>8, <1>9, <1>10 DEF CheckpointInv

\* Where clears are kept apart, one begins only when nothing is under way, and
\* nothing begins while one is.
LEMMA BeginStep ==
  ASSUME ClearsAlone, CheckpointInv, Base', NEW o \in Ops, NEW kind \in Kinds, Begin(o, kind) PROVE CheckpointInv'
<1>1. PICK t \in 0 .. MaxOps :
        /\ op' = [op EXCEPT ![o] = [NoOperation EXCEPT !.kind = kind, !.pc = "begin", !.target = t]]
        /\ kind = "restore" => \E i \in DOMAIN records : records[i].op = t
  BY DEF Begin
<1> DEFINE R == [NoOperation EXCEPT !.kind = kind, !.pc = "begin", !.target = t]
<1>2. op \in [Ops -> Operation] /\ refs \in [Seqs -> 0 .. MaxOps]
  BY DEF CheckpointInv, Base, CheckpointsTypeOK
<1>3. R \in Operation
  BY <1>2, Operations
<1>4. R.pc = "begin" /\ R.kind = kind /\ R.target = t /\ op' = [op EXCEPT ![o] = R]
  BY <1>1 DEF NoOperation
<1> HIDE DEF R
<1>5. op'[o] = R /\ \A p \in Ops : p # o => op'[p] = op[p]
  BY <1>2, <1>4
<1>6. /\ op[o].pc = "none" /\ UNCHANGED <<next, refs, records>>
      /\ \A p \in Ops : InFlight(p) => kind # "clear" /\ op[p].kind # "clear"
  BY DEF Begin
<1>7. \A q : Safe(q) => Safe(q)'
  BY <1>3, <1>4, <1>6, StaysSafe
<1>8. SeqsApart'
  BY <1>4, <1>5, <1>6 DEF CheckpointInv, SeqsApart
<1>9. Parked' /\ KindFitsPc'
  BY <1>4, <1>5, <1>6, <1>7 DEF CheckpointInv, Parked, KindFitsPc, Clearing
<1>10. Listings'
  BY <1>6, <1>7 DEF CheckpointInv, Listings
<1>11. Targets'
  <2> SUFFICES ASSUME NEW p \in Ops, op'[p].kind = "restore", InFlight(p)'
               PROVE  \E q \in Seqs : Safe(q)' /\ refs'[q] = op'[p].target
    BY DEF Targets
  <2>1. CASE p = o
    <3>1. PICK i \in DOMAIN records : records[i].op = t
      BY <1>1, <1>4, <1>5, <2>1
    <3>2. Safe(records[i].seq) /\ refs[records[i].seq] = t
      BY <3>1 DEF CheckpointInv, Listings
    <3>3. PICK q : q = records[i].seq
      OBVIOUS
    <3> QED
      BY <1>4, <1>5, <1>6, <1>7, <2>1, <3>2, <3>3 DEF Safe
  <2>2. CASE p # o
    <3>1. op[p].kind = "restore" /\ InFlight(p)
      BY <1>5, <2>2 DEF InFlight
    <3>2. PICK q \in Seqs : Safe(q) /\ refs[q] = op[p].target
      BY <3>1 DEF CheckpointInv, Targets
    <3> QED
      BY <1>5, <1>6, <1>7, <2>2, <3>2
  <2> QED
    BY <2>1, <2>2
<1>12. Alone'
  <2> SUFFICES ASSUME NEW a \in Ops, NEW b \in Ops, op'[a].kind = "clear", InFlight(b)'
               PROVE  /\ InFlight(a)' => b = a
                      /\ op'[a].pc # "none" => ~(b < a)
    BY DEF Alone
  <2>1. CASE a = o /\ b = o
    BY <2>1, CheckpointConstants DEF Ops
  <2>2. CASE a = o /\ b # o
    BY <1>4, <1>5, <1>6, <2>2 DEF InFlight
  <2>3. CASE a # o /\ b = o
    <3>1. ~InFlight(a)'
      BY <1>5, <1>6, <2>3 DEF InFlight
    <3>2. op'[a].pc # "none" => ~(o < a)
      BY <1>5, <1>6, <2>3 DEF CheckpointInv, Base, BegunInOrder
    <3> QED
      BY <2>3, <3>1, <3>2
  <2>4. CASE a # o /\ b # o
    BY <1>5, <2>4 DEF CheckpointInv, Alone, InFlight
  <2> QED
    BY <2>1, <2>2, <2>3, <2>4
<1>13. Cleared'
  BY <1>4, <1>5, <1>6 DEF CheckpointInv, Cleared, Clearing
<1>14. ClearLeavesNothing'
  BY <1>4, <1>5 DEF ClearLeavesNothing, InFlight
<1> QED
  BY <1>8, <1>9, <1>10, <1>11, <1>12, <1>13, <1>14 DEF CheckpointInv

\* A clear goes on: nothing else is under way, and nothing is listed.
LEMMA ClearGoesOn ==
  ASSUME CheckpointInv, Base', NEW o \in Ops, NEW R \in Operation, op' = [op EXCEPT ![o] = R],
         op[o].kind = "clear", InFlight(o), R.kind = "clear", R.pc \in Clearing \cup {"done"},
         records' = <<>>,
         R.pc = "delete" => \A q \in Seqs : refs'[q] # 0 => q \in R.listed,
         R.pc = "done" => \A q \in Seqs : refs'[q] = 0
  PROVE  CheckpointInv'
<1>1. op'[o] = R /\ \A p \in Ops : p # o => op'[p] = op[p]
  BY DEF CheckpointInv, Base, CheckpointsTypeOK
<1>2. \A p \in Ops : p # o => ~InFlight(p)
  BY DEF CheckpointInv, Alone
<1>3. \A p \in Ops : op'[p].pc \notin {"snapshot", "record", "restore"}
  <2> SUFFICES ASSUME NEW p \in Ops PROVE op'[p].pc \notin {"snapshot", "record", "restore"}
    OBVIOUS
  <2>1. CASE p = o
    BY <1>1, <2>1 DEF Clearing
  <2>2. CASE p # o
    BY <1>1, <1>2, <2>2 DEF InFlight
  <2> QED
    BY <2>1, <2>2
<1>4. SeqsApart' /\ Parked'
  BY <1>3 DEF SeqsApart, Parked
<1>5. \A p \in Ops : p # o => ~InFlight(p)'
  BY <1>1, <1>2 DEF InFlight
<1>6. Targets'
  BY <1>1, <1>5 DEF Targets
<1>7. Listings'
  BY DEF Listings
<1>8. KindFitsPc'
  BY <1>1, <1>3 DEF CheckpointInv, KindFitsPc
<1>9. Alone'
  <2> SUFFICES ASSUME NEW a \in Ops, NEW b \in Ops, op'[a].kind = "clear", InFlight(b)'
               PROVE  /\ InFlight(a)' => b = a
                      /\ op'[a].pc # "none" => ~(b < a)
    BY DEF Alone
  <2>1. b = o
    BY <1>5
  <2>2. InFlight(a)' => b = a
    BY <1>5, <2>1
  <2>3. op'[a].pc # "none" => ~(b < a)
    <3>1. CASE a = o
      BY <2>1, <3>1, CheckpointConstants DEF Ops
    <3>2. CASE a # o
      BY <1>1, <2>1, <3>2 DEF CheckpointInv, Alone
    <3> QED
      BY <3>1, <3>2
  <2> QED
    BY <2>2, <2>3
<1>10. Cleared'
  <2>1. \A p \in Ops : p # o => op'[p].pc \notin Clearing
    BY <1>1, <1>2 DEF InFlight, Clearing
  <2> QED
    BY <1>1, <2>1 DEF Cleared, Clearing
<1>11. ClearLeavesNothing'
  <2> SUFFICES ASSUME NEW c \in Ops, op'[c].kind = "clear", op'[c].pc = "done",
                      \A p \in Ops : p > c => op'[p].pc = "none"
               PROVE  \A q \in Seqs : refs'[q] = 0
    BY DEF ClearLeavesNothing
  <2>1. CASE c = o
    BY <1>1, <2>1
  <2>2. CASE c # o
    <3>1. op[c].kind = "clear" /\ op[c].pc = "done"
      BY <1>1, <2>2
    <3>2. ~(o < c)
      BY <3>1 DEF CheckpointInv, Alone
    <3>3. o > c
      BY <2>2, <3>2, CheckpointConstants DEF Ops
    <3> QED
      BY <1>1, <3>3 DEF Clearing
  <2> QED
    BY <2>1, <2>2
<1> QED
  BY <1>4, <1>6, <1>7, <1>8, <1>9, <1>10, <1>11 DEF CheckpointInv

LEMMA ClearStep ==
  ASSUME CheckpointInv, Base', NEW o \in Ops,
         ClearRecords(o) \/ ClearSeqs(o) \/ ListRefs(o) \/ DeleteRef(o)
  PROVE  CheckpointInv'
<1>1. /\ op[o] \in Operation /\ op \in [Ops -> Operation] /\ op[o].kind = "clear" /\ InFlight(o)
      /\ refs \in [Seqs -> 0 .. MaxOps]
  <2>1. op[o].kind = "clear" /\ InFlight(o)
    BY DEF ClearRecords, ClearSeqs, ListRefs, DeleteRef, CheckpointInv, KindFitsPc, Clearing, InFlight
  <2> QED
    BY <2>1 DEF CheckpointInv, Base, CheckpointsTypeOK
<1>2. \A pc : LET R == [op[o] EXCEPT !.pc = pc]
              IN  R.pc = pc /\ R.kind = op[o].kind /\ R.listed = op[o].listed
  BY <1>1, OpFields
<1>3. CASE ClearRecords(o)
  <2> DEFINE R == [op[o] EXCEPT !.pc = "seqs"]
  <2>1. R \in Operation /\ op' = [op EXCEPT ![o] = R]
    BY <1>1, <1>3, Operations, ToIsOne DEF CheckpointInv, ClearRecords
  <2>2. R.pc = "seqs" /\ R.kind = "clear" /\ records' = <<>>
    BY <1>1, <1>2, <1>3 DEF ClearRecords
  <2> HIDE DEF R
  <2> QED
    BY <1>1, <2>1, <2>2, ClearGoesOn DEF Clearing
<1>4. CASE ClearSeqs(o)
  <2> DEFINE R == [op[o] EXCEPT !.pc = "list"]
  <2>1. R \in Operation /\ op' = [op EXCEPT ![o] = R]
    BY <1>1, <1>4, Operations, ToIsOne DEF CheckpointInv, ClearSeqs
  <2>2. R.pc = "list" /\ R.kind = "clear" /\ records' = <<>>
    BY <1>1, <1>2, <1>4 DEF ClearSeqs, CheckpointInv, Cleared, Clearing
  <2> HIDE DEF R
  <2> QED
    BY <1>1, <2>1, <2>2, ClearGoesOn DEF Clearing
<1>5. CASE ListRefs(o)
  <2> DEFINE R == [op[o] EXCEPT !.pc = "delete", !.listed = Listed]
  <2>1. Listed \in SUBSET Seqs
    BY DEF Listed
  <2>2. R \in Operation
    BY <1>1, <2>1, Operations
  <2>3. op' = [op EXCEPT ![o] = R]
    BY <1>1, <1>5 DEF ListRefs, Operation
  <2>4. R.pc = "delete" /\ R.kind = "clear" /\ R.listed = Listed
    BY <1>1, OpFields
  <2>5. records' = <<>> /\ UNCHANGED refs
    BY <1>5 DEF ListRefs, CheckpointInv, Cleared, Clearing
  <2>6. \A q \in Seqs : refs'[q] # 0 => q \in Listed
    BY <2>5 DEF Listed
  <2> HIDE DEF R
  <2> QED
    BY <1>1, <2>2, <2>3, <2>4, <2>5, <2>6, ClearGoesOn DEF Clearing
<1>6. CASE DeleteRef(o)
  <2>1. /\ records' = <<>> /\ op[o].pc = "delete"
        /\ \A q \in Seqs : refs[q] # 0 => q \in op[o].listed
    BY <1>6 DEF DeleteRef, CheckpointInv, Cleared, Clearing
  <2>2. CASE op[o].listed = {} /\ To(o, "done") /\ UNCHANGED refs
    <3> DEFINE R == [op[o] EXCEPT !.pc = "done"]
    <3>1. R \in Operation /\ op' = [op EXCEPT ![o] = R]
      BY <1>1, <2>2, Operations, ToIsOne DEF CheckpointInv
    <3>2. R.pc = "done" /\ R.kind = "clear"
      BY <1>1, <1>2
    <3>3. \A q \in Seqs : refs'[q] = 0
      BY <2>1, <2>2
    <3> HIDE DEF R
    <3> QED
      BY <1>1, <2>1, <3>1, <3>2, <3>3, ClearGoesOn
  <2>3. ASSUME NEW d \in op[o].listed, refs' = [refs EXCEPT ![d] = 0],
               op' = [op EXCEPT ![o].listed = @ \ {d}]
        PROVE  CheckpointInv'
    <3> DEFINE R == [op[o] EXCEPT !.listed = op[o].listed \ {d}]
    <3>1. op' = [op EXCEPT ![o] = R]
      BY <1>1, <2>3 DEF Operation
    <3>2. op[o].listed \in SUBSET Seqs
      BY <1>1 DEF Operation
    <3>3. R \in Operation
      BY <1>1, <3>2, Operations
    <3>4. R.pc = "delete" /\ R.kind = "clear" /\ R.listed = op[o].listed \ {d}
      BY <1>1, <2>1, OpFields
    <3>5. \A q \in Seqs : refs'[q] # 0 => q \in op[o].listed \ {d}
      BY <1>1, <2>1, <2>3
    <3> HIDE DEF R
    <3> QED
      BY <1>1, <2>1, <3>1, <3>3, <3>4, <3>5, ClearGoesOn DEF Clearing
  <2> QED
    BY <1>6, <2>2, <2>3 DEF DeleteRef
<1> QED
  BY <1>3, <1>4, <1>5, <1>6

\* Of what was under way nothing goes on.
LEMMA RestartStep == ASSUME CheckpointInv, Base', AppRestarts PROVE CheckpointInv'
<1>1. op' = [o \in Ops |-> IF InFlight(o) THEN [op[o] EXCEPT !.pc = "failed"] ELSE op[o]]
      /\ records' = <<>> /\ UNCHANGED refs
  BY DEF AppRestarts
<1>2. \A o \in Ops : op[o] \in Operation
  BY DEF CheckpointInv, Base, CheckpointsTypeOK
<1>3. \A o \in Ops : op'[o].pc = IF InFlight(o) THEN "failed" ELSE op[o].pc
  BY <1>1, <1>2, OpFields
<1>4. \A o \in Ops : ~InFlight(o) => op'[o] = op[o]
  BY <1>1
<1>5. \A o \in Ops : op'[o].kind = op[o].kind
  BY <1>1, <1>2, OpFields
<1>6. \A o \in Ops : op'[o].pc \in {"none", "done", "failed"}
  BY <1>3 DEF InFlight
<1>7. SeqsApart' /\ Parked' /\ Targets' /\ KindFitsPc' /\ Alone' /\ Cleared'
  BY <1>6 DEF SeqsApart, Parked, Targets, KindFitsPc, Alone, Cleared, InFlight, Clearing
<1>8. Listings'
  BY <1>1 DEF Listings
<1>9. ClearLeavesNothing'
  <2> SUFFICES ASSUME NEW c \in Ops, op'[c].kind = "clear", op'[c].pc = "done",
                      \A p \in Ops : p > c => op'[p].pc = "none"
               PROVE  \A q \in Seqs : refs'[q] = 0
    BY DEF ClearLeavesNothing
  <2>1. ~InFlight(c) /\ op[c].pc = "done" /\ op[c].kind = "clear"
    BY <1>3, <1>5
  <2>2. \A p \in Ops : p > c => op[p].pc = "none" /\ ~InFlight(p)
    BY <1>3 DEF InFlight
  <2>3. \A p \in Ops : p < c => ~InFlight(p)
    BY <2>1 DEF CheckpointInv, Alone
  <2>4. \A p \in Ops : p < c \/ p = c \/ p > c
    BY CheckpointConstants DEF Ops
  <2>5. \A p \in Ops : ~InFlight(p)
    BY <2>1, <2>2, <2>3, <2>4
  <2>6. \A q \in Seqs : refs[q] = 0
    BY <2>1, <2>2, <2>5 DEF CheckpointInv, ClearLeavesNothing
  <2> QED
    BY <1>1, <2>6
<1> QED
  BY <1>7, <1>8, <1>9 DEF CheckpointInv

LEMMA CheckpointInvStep ==
  ASSUME ClearsAlone PROVE CheckpointInv /\ [CheckpointsNext]_checkpointVars => CheckpointInv'
<1> SUFFICES ASSUME CheckpointInv, [CheckpointsNext]_checkpointVars PROVE CheckpointInv'
  OBVIOUS
<1>1. Base'
  BY BaseStep DEF CheckpointInv
<1>2. CASE UNCHANGED checkpointVars
  BY <1>1, <1>2 DEF checkpointVars, CheckpointInv, SeqsApart, Parked, Listings, Targets, KindFitsPc, Alone,
                    Cleared, ClearLeavesNothing, InFlight, Safe
<1> QED
  BY <1>1, <1>2, BeginStep, ReserveStep, UpdateRefStep, LaterStep, ClearStep, RestartStep
     DEF CheckpointsNext, OpStep

\* Where clears are kept apart, every checkpoint that is listed, and every commit
\* a rollback is about to go back to, is held by a ref; and a clear that is over
\* has left none, not even of an earlier launch.
THEOREM CheckpointsAreKept ==
  ASSUME ClearsAlone PROVE CheckpointsSpec => []CheckpointsSafe
<1>1. CheckpointInv => CheckpointsSafe
  <2> SUFFICES ASSUME CheckpointInv PROVE Pinned /\ TargetPinned /\ ClearLeavesNothing
    BY DEF CheckpointsSafe, Restorable
  <2>1. Pinned
    BY DEF CheckpointInv, Listings, Pinned
  <2>2. TargetPinned
    BY DEF CheckpointInv, Targets, TargetPinned
  <2> QED
    BY <2>1, <2>2 DEF CheckpointInv
<1>2. CheckpointInv /\ [CheckpointsNext]_checkpointVars => CheckpointInv'
  BY CheckpointInvStep
<1> QED
  BY <1>1, <1>2, CheckpointInvInit, PTL DEF CheckpointsSpec
-----------------------------------------------------------------------------
(* Lists of messages, of n messages ever added and while R has the runs.   *)

\* What place p may hold: its own and adopted messages, none twice.
Fits(msgs, p, n) ==
  /\ msgs \in Seq(Message)
  /\ \A i \in 1 .. Len(msgs) : msgs[i].owner \in {p, NoSession} /\ msgs[i].id <= n
  /\ \A i, j \in 1 .. Len(msgs) : msgs[i].id = msgs[j].id => i = j
Pulse(msgs, R) == \A i \in 1 .. Len(msgs) : msgs[i].live => msgs[i].owner \in R \cup {NoSession}
Held(msgs, p, n, R) == Fits(msgs, p, n) /\ Pulse(msgs, R)

\* No message is in both.
Apart(a, b) == Ids(a) \cap Ids(b) = {}

LEMMA MessageFields ==
  \A m \in Message : m.id \in 1 .. MaxMessages /\ m.owner \in Places /\ m.live \in BOOLEAN
BY DEF Message

LEMMA IdsOf ==
  ASSUME NEW msgs \in Seq(Message)
  PROVE  /\ Ids(msgs) = {msgs[i].id : i \in 1 .. Len(msgs)}
         /\ \A x : x \in Ids(msgs) <=> \E i \in 1 .. Len(msgs) : x = msgs[i].id
BY DEF Ids

LEMMA EmptyHeld == \A p, n, R : Held(<<>>, p, n, R) /\ Ids(<<>>) = {}
BY DEF Held, Fits, Pulse, Ids

LEMMA Grows ==
  ASSUME NEW msgs, NEW p, NEW n \in Nat, NEW k \in Nat, n <= k, NEW R, NEW T,
         R \subseteq T \/ (p \notin R \ T), Held(msgs, p, n, R)
  PROVE  Held(msgs, p, k, T)
<1>1. msgs \in Seq(Message) /\ \A i \in 1 .. Len(msgs) : msgs[i] \in Message
  BY DEF Held, Fits
<1>2. \A i \in 1 .. Len(msgs) : msgs[i].id <= k
  BY <1>1, HistoryConstants, MessageFields DEF Held, Fits
<1>3. Pulse(msgs, T)
  BY DEF Held, Fits, Pulse
<1> QED
  BY <1>1, <1>2, <1>3 DEF Held, Fits

\* Two lists, one after the other.
LEMMA Joined ==
  ASSUME NEW p, NEW n, NEW R, NEW a, NEW b, NEW c, Held(a, p, n, R), Held(b, NoSession, n, R),
         Apart(a, b), c = a \o b
  PROVE  Held(c, p, n, R)
<1>1. a \in Seq(Message) /\ b \in Seq(Message)
  BY DEF Held, Fits
<1>2. /\ c \in Seq(Message) /\ Len(c) = Len(a) + Len(b)
      /\ \A i \in 1 .. Len(a) + Len(b) : c[i] = IF i <= Len(a) THEN a[i] ELSE b[i - Len(a)]
  BY <1>1, ConcatProperties, Zenon
<1>3. Len(a) \in Nat /\ Len(b) \in Nat
  BY <1>1
<1>4. \A i \in 1 .. Len(c) : \/ i \in 1 .. Len(a) /\ c[i] = a[i]
                             \/ i - Len(a) \in 1 .. Len(b) /\ c[i] = b[i - Len(a)] /\ ~(i \in 1 .. Len(a))
  BY <1>2, <1>3
<1>6. \A i \in 1 .. Len(a), j \in 1 .. Len(b) : a[i].id # b[j].id
  BY <1>1, IdsOf DEF Apart
<1>7. ASSUME NEW i \in 1 .. Len(c), NEW j \in 1 .. Len(c), c[i].id = c[j].id PROVE i = j
  <2>1. CASE i \in 1 .. Len(a) /\ j \in 1 .. Len(a)
    BY <1>4, <1>7, <2>1 DEF Held, Fits
  <2>2. CASE ~(i \in 1 .. Len(a)) /\ ~(j \in 1 .. Len(a))
    <3>1. i - Len(a) \in 1 .. Len(b) /\ j - Len(a) \in 1 .. Len(b)
          /\ b[i - Len(a)].id = b[j - Len(a)].id
      BY <1>4, <1>7, <2>2
    <3>2. i - Len(a) = j - Len(a)
      BY <3>1 DEF Held, Fits
    <3> QED
      BY <1>3, <3>2
  <2> QED
    BY <1>4, <1>6, <1>7, <2>1, <2>2
<1>8. \A i \in 1 .. Len(c) : c[i].owner \in {p, NoSession} /\ c[i].id <= n
                             /\ (c[i].live => c[i].owner \in R \cup {NoSession})
  BY <1>4 DEF Held, Fits, Pulse
<1>9. Held(c, p, n, R)
  BY <1>2, <1>7, <1>8 DEF Held, Fits, Pulse
<1> QED
  BY <1>9

LEMMA JoinedIds ==
  ASSUME NEW a \in Seq(Message), NEW b \in Seq(Message)
  PROVE  Ids(a \o b) = Ids(a) \cup Ids(b)
<1> DEFINE c == a \o b
<1>1. /\ c \in Seq(Message) /\ Len(c) = Len(a) + Len(b)
      /\ \A i \in 1 .. Len(a) + Len(b) : c[i] = IF i <= Len(a) THEN a[i] ELSE b[i - Len(a)]
  BY ConcatProperties, Zenon
<1> HIDE DEF c
<1>2. Len(a) \in Nat /\ Len(b) \in Nat
  OBVIOUS
<1>3. ASSUME NEW x \in Ids(c) PROVE x \in Ids(a) \cup Ids(b)
  <2>1. PICK i \in 1 .. Len(c) : x = c[i].id
    BY <1>1, <1>3, IdsOf
  <2>2. CASE i <= Len(a)
    BY <1>1, <1>2, <2>1, <2>2, IdsOf
  <2>3. CASE ~(i <= Len(a))
    <3>1. i - Len(a) \in 1 .. Len(b) /\ c[i] = b[i - Len(a)]
      BY <1>1, <1>2, <2>3
    <3> QED
      BY <2>1, <3>1, IdsOf
  <2> QED
    BY <2>2, <2>3
<1>4. ASSUME NEW x \in Ids(a) PROVE x \in Ids(c)
  <2>1. PICK i \in 1 .. Len(a) : x = a[i].id
    BY <1>4, IdsOf
  <2>2. i \in 1 .. Len(c) /\ c[i] = a[i]
    BY <1>1, <1>2
  <2> QED
    BY <1>1, <2>1, <2>2, IdsOf
<1>5. ASSUME NEW x \in Ids(b) PROVE x \in Ids(c)
  <2>1. PICK i \in 1 .. Len(b) : x = b[i].id
    BY <1>5, IdsOf
  <2>2. PICK k \in 1 .. Len(c) : k = i + Len(a)
    BY <1>1, <1>2
  <2>3. c[k] = b[k - Len(a)] /\ k - Len(a) = i
    BY <1>1, <1>2, <2>2
  <2> QED
    BY <1>1, <2>1, <2>3, IdsOf
<1>6. Ids(c) = Ids(a) \cup Ids(b)
  BY <1>3, <1>4, <1>5
<1> QED
  BY <1>6 DEF c

\* longer is s with e put in place i.
IsInsertion(longer, s, i, e, S) ==
  /\ longer \in Seq(S) /\ Len(longer) = Len(s) + 1 /\ longer[i] = e
  /\ \A k \in 1 .. i - 1 : longer[k] = s[k]
  /\ \A k \in i .. Len(s) : longer[k + 1] = s[k]

LEMMA Inserted ==
  ASSUME NEW S, NEW s \in Seq(S), NEW i \in 1 .. Len(s), NEW e \in S
  PROVE  IsInsertion(InsertAt(s, i, e), s, i, e, S)
<1> DEFINE before == SubSeq(s, 1, i - 1)  after == SubSeq(s, i, Len(s))  head == before \o <<e>>
<1>1. before \in Seq(S) /\ Len(before) = i - 1 /\ \A k \in 1 .. i - 1 : before[k] = s[k]
  OBVIOUS
<1>2. after \in Seq(S) /\ Len(after) = Len(s) - i + 1
      /\ \A k \in 1 .. Len(s) - i + 1 : after[k] = s[i + k - 1]
  OBVIOUS
<1>3. InsertAt(s, i, e) = head \o after
  BY DEF InsertAt
<1> HIDE DEF before, after
<1>4. /\ head \in Seq(S) /\ Len(head) = i /\ head[i] = e
      /\ \A k \in 1 .. i - 1 : head[k] = s[k]
  BY <1>1
<1> HIDE DEF head
<1>5. /\ head \o after \in Seq(S) /\ Len(head \o after) = Len(s) + 1
      /\ \A k \in 1 .. i : (head \o after)[k] = head[k]
  <2>1. head \o after \in Seq(S) /\ Len(head \o after) = Len(head) + Len(after)
    BY <1>2, <1>4, ConcatProperties, Zenon
  <2>2. \A k \in 1 .. i : (head \o after)[k] = head[k]
    BY <1>2, <1>4
  <2> QED
    BY <1>2, <1>4, <2>1, <2>2
<1>6. ASSUME NEW k \in i .. Len(s) PROVE (head \o after)[k + 1] = s[k]
  <2>1. (head \o after)[k + 1] = after[k + 1 - i] /\ k + 1 - i \in 1 .. Len(s) - i + 1
    BY <1>2, <1>4
  <2> QED
    BY <1>2, <2>1
<1> QED
  BY <1>3, <1>4, <1>5, <1>6 DEF IsInsertion

\* A new message, at the end or above the last one.
Added(msgs, m) == {Append(msgs, m), BeforeAnswer(msgs, m)}

MayAdd(msgs, m, p, n, R, T) ==
  /\ n \in Nat /\ R \subseteq T /\ Held(msgs, p, n, R)
  /\ m \in Message /\ m.id = n + 1 /\ m.owner \in {p, NoSession} /\ m.owner \in T \cup {NoSession}

LEMMA OneAdded ==
  ASSUME NEW p, NEW n, NEW R, NEW T, NEW msgs, NEW m, MayAdd(msgs, m, p, n, R, T),
         NEW longer \in Added(msgs, m)
  PROVE  Held(longer, p, n + 1, T) /\ Ids(longer) = Ids(msgs) \cup {n + 1}
<1>0. /\ n \in Nat /\ R \subseteq T /\ Held(msgs, p, n, R)
      /\ m \in Message /\ m.id = n + 1 /\ m.owner \in {p, NoSession}
      /\ m.owner \in T \cup {NoSession}
  BY DEF MayAdd
<1> USE <1>0
<1>1. msgs \in Seq(Message) /\ Len(msgs) \in Nat
  BY DEF Held, Fits
<1>2. \E at \in 1 .. Len(msgs) + 1 : IsInsertion(longer, msgs, at, m, Message)
  <2>1. CASE longer = Append(msgs, m)
    <3>1. IsInsertion(longer, msgs, Len(msgs) + 1, m, Message)
      BY <1>1, <2>1 DEF IsInsertion
    <3> QED
      BY <1>1, <3>1
  <2>2. CASE longer = BeforeAnswer(msgs, m) /\ msgs = <<>>
    <3>1. longer = <<m>> /\ Len(msgs) = 0
      BY <2>2 DEF BeforeAnswer
    <3>2. IsInsertion(longer, msgs, 1, m, Message)
      BY <3>1 DEF IsInsertion
    <3> QED
      BY <3>1, <3>2
  <2>3. CASE longer = BeforeAnswer(msgs, m) /\ msgs # <<>>
    <3>1. longer = InsertAt(msgs, Len(msgs), m) /\ Len(msgs) \in 1 .. Len(msgs)
      BY <1>1, <2>3 DEF BeforeAnswer
    <3>2. Len(msgs) \in 1 .. Len(msgs) + 1
      BY <1>1, <3>1
    <3>3. IsInsertion(longer, msgs, Len(msgs), m, Message)
      BY <1>1, <3>1, Inserted, Zenon
    <3> QED
      BY <3>2, <3>3
  <2> QED
    BY <2>1, <2>2, <2>3 DEF Added
<1>3. PICK at \in 1 .. Len(msgs) + 1 :
        /\ longer \in Seq(Message) /\ Len(longer) = Len(msgs) + 1 /\ longer[at] = m
        /\ \A i \in 1 .. at - 1 : longer[i] = msgs[i]
        /\ \A i \in at .. Len(msgs) : longer[i + 1] = msgs[i]
  BY <1>2 DEF IsInsertion
<1>4. \A i \in 1 .. Len(longer) :
        \/ i = at /\ longer[i] = m
        \/ i < at /\ i \in 1 .. Len(msgs) /\ longer[i] = msgs[i]
        \/ i > at /\ i - 1 \in 1 .. Len(msgs) /\ longer[i] = msgs[i - 1]
  <2> SUFFICES ASSUME NEW i \in 1 .. Len(longer)
               PROVE  \/ i = at /\ longer[i] = m
                      \/ i < at /\ i \in 1 .. Len(msgs) /\ longer[i] = msgs[i]
                      \/ i > at /\ i - 1 \in 1 .. Len(msgs) /\ longer[i] = msgs[i - 1]
    OBVIOUS
  <2>1. CASE i > at
    <3>1. i - 1 \in at .. Len(msgs) /\ (i - 1) + 1 = i
      BY <1>1, <1>3, <2>1
    <3>2. longer[(i - 1) + 1] = msgs[i - 1]
      BY <1>3, <3>1
    <3> QED
      BY <1>1, <2>1, <3>1, <3>2
  <2> QED
    BY <1>1, <1>3, <2>1
<1>5. \A i \in 1 .. Len(msgs) : msgs[i].id \in Nat /\ msgs[i].id <= n /\ msgs[i].owner \in {p, NoSession}
                                /\ (msgs[i].live => msgs[i].owner \in T \cup {NoSession})
  BY <1>1, MessageFields DEF Held, Fits, Pulse
<1>6. \A i \in 1 .. Len(longer) : longer[i].owner \in {p, NoSession} /\ longer[i].id <= n + 1
                                /\ (longer[i].live => longer[i].owner \in T \cup {NoSession})
  <2> SUFFICES ASSUME NEW i \in 1 .. Len(longer)
               PROVE  /\ longer[i].owner \in {p, NoSession} /\ longer[i].id <= n + 1
                      /\ longer[i].live => longer[i].owner \in T \cup {NoSession}
    OBVIOUS
  <2>1. CASE longer[i] = m
    BY <2>1
  <2>2. CASE \E k \in 1 .. Len(msgs) : longer[i] = msgs[k]
    BY <1>5, <2>2
  <2> QED
    BY <1>4, <2>1, <2>2
<1>7. ASSUME NEW i \in 1 .. Len(longer), NEW j \in 1 .. Len(longer), longer[i].id = longer[j].id
      PROVE  i = j
  <2>1. \A k, l \in 1 .. Len(msgs) : msgs[k].id = msgs[l].id => k = l
    BY DEF Held, Fits
  <2>2. \A k \in 1 .. Len(msgs) : msgs[k].id # m.id
    BY <1>5
  <2>3. CASE i = at
    <3>1. longer[j].id = m.id
      BY <1>3, <1>7, <2>3
    <3>2. \A k \in 1 .. Len(msgs) : longer[j] # msgs[k]
      BY <2>2, <3>1
    <3> QED
      BY <1>4, <2>3, <3>2
  <2>4. CASE i < at
    BY <1>4, <1>7, <2>1, <2>2, <2>4
  <2>5. CASE i > at
    <3>1. i - 1 \in 1 .. Len(msgs) /\ longer[i] = msgs[i - 1]
      BY <1>4, <2>5
    <3>2. (j > at /\ j - 1 \in 1 .. Len(msgs) /\ longer[j] = msgs[j - 1]) \/ j < at
      BY <1>4, <1>7, <2>2, <3>1
    <3>3. CASE j < at
      BY <1>4, <1>7, <2>1, <2>5, <3>1, <3>3
    <3>4. CASE j > at /\ j - 1 \in 1 .. Len(msgs) /\ longer[j] = msgs[j - 1]
      <4>1. i - 1 = j - 1
        BY <1>7, <2>1, <3>1, <3>4
      <4> QED
        BY <4>1
    <3> QED
      BY <3>2, <3>3, <3>4
  <2> QED
    BY <2>3, <2>4, <2>5
<1>8. \A i \in 1 .. Len(msgs) : \E k \in 1 .. Len(longer) : longer[k].id = msgs[i].id
  <2> SUFFICES ASSUME NEW i \in 1 .. Len(msgs) PROVE \E k \in 1 .. Len(longer) : longer[k] = msgs[i]
    BY Zenon
  <2>1. CASE i < at
    BY <1>1, <1>3, <2>1
  <2>2. CASE ~(i < at)
    <3>1. i \in at .. Len(msgs) /\ i + 1 \in 1 .. Len(longer)
      BY <1>1, <1>3, <2>2
    <3> QED
      BY <1>3, <3>1
  <2> QED
    BY <2>1, <2>2
<1>9. Ids(longer) = Ids(msgs) \cup {n + 1}
  <2>1. ASSUME NEW x \in Ids(longer) PROVE x \in Ids(msgs) \cup {n + 1}
    <3>1. PICK i \in 1 .. Len(longer) : x = longer[i].id
      BY <1>3, <2>1, IdsOf
    <3>2. CASE longer[i] = m
      BY <3>1, <3>2
    <3>3. CASE \E k \in 1 .. Len(msgs) : longer[i] = msgs[k]
      BY <1>1, <3>1, <3>3, IdsOf
    <3> QED
      BY <1>4, <3>2, <3>3
  <2>2. ASSUME NEW x \in Ids(msgs) \cup {n + 1} PROVE x \in Ids(longer)
    <3>1. CASE x = n + 1
      BY <1>1, <1>3, <3>1, IdsOf
    <3>2. CASE x \in Ids(msgs)
      BY <1>1, <1>3, <1>8, <3>2, IdsOf
    <3> QED
      BY <2>2, <3>1, <3>2
  <2> QED
    BY <2>1, <2>2
<1> QED
  BY <1>3, <1>6, <1>7, <1>9 DEF Held, Fits, Pulse

\* All messages settled.
LEMMA AllSettled ==
  ASSUME NEW p, NEW n, NEW T, NEW msgs, Fits(msgs, p, n)
  PROVE  Held(SettleAll(msgs), p, n, T) /\ Ids(SettleAll(msgs)) = Ids(msgs)
<1> DEFINE longer == SettleAll(msgs)
<1>1. msgs \in Seq(Message) /\ Len(msgs) \in Nat /\ DOMAIN msgs = 1 .. Len(msgs)
  BY DEF Fits
<1>2. \A m \in Message : Settled(m) \in Message /\ Settled(m).id = m.id
                         /\ Settled(m).owner = m.owner /\ Settled(m).live = FALSE
  BY DEF Settled, Message
<1>3. longer = [i \in 1 .. Len(msgs) |-> Settled(msgs[i])]
  BY <1>1 DEF SettleAll
<1>4. \A i \in 1 .. Len(msgs) : Settled(msgs[i]) \in Message
  BY <1>1, <1>2
<1>5. longer \in Seq(Message) /\ Len(longer) = Len(msgs)
      /\ \A i \in 1 .. Len(msgs) : longer[i] = Settled(msgs[i])
  BY <1>1, <1>3, <1>4
<1> HIDE DEF longer
<1>6. \A i \in 1 .. Len(msgs) : /\ longer[i].id = msgs[i].id /\ longer[i].owner = msgs[i].owner
                                /\ longer[i].live = FALSE
  BY <1>1, <1>2, <1>5
<1>7. Held(longer, p, n, T)
  BY <1>5, <1>6 DEF Held, Fits, Pulse
<1>8. Ids(longer) = Ids(msgs)
  <2>1. \A x : x \in Ids(longer) <=> x \in Ids(msgs)
    BY <1>1, <1>5, <1>6, IdsOf
  <2> QED
    BY <2>1
<1> QED
  BY <1>7, <1>8 DEF longer

-----------------------------------------------------------------------------
(* The messages store c, of n messages ever added and while R has the runs. *)

StoreShape(c) ==
  /\ c = [cur |-> c.cur, visible |-> c.visible, bucket |-> c.bucket]
  /\ c.cur \in Places /\ DOMAIN c.bucket \subseteq Sessions

Sound(c, n, R) ==
  /\ StoreShape(c)
  /\ Held(c.visible, c.cur, n, R)
  /\ \A s \in DOMAIN c.bucket : Held(c.bucket[s], s, n, R)
  /\ c.cur \in DOMAIN c.bucket => c.visible = c.bucket[c.cur]
  /\ c.cur = NoSession => \A s \in DOMAIN c.bucket : Apart(c.bucket[s], c.visible)

\* From c to d: what d has typed in no session was typed there before, or is new.
Carries(c, d, n) ==
  d.cur = NoSession =>
    \A x \in Ids(d.visible) : x = n + 1 \/ (c.cur = NoSession /\ x \in Ids(c.visible))
\* No session but those in gone loses a message.
Retains(c, d, gone) ==
  \A x \in DOMAIN c.bucket \ gone :
    x \in DOMAIN d.bucket /\ Ids(c.bucket[x]) \subseteq Ids(d.bucket[x])

LEMMA ArchivedHeld ==
  ASSUME NEW c, NEW n, NEW R, Sound(c, n, R), NEW s \in Sessions
  PROVE  /\ Held(Archived(c, s), s, n, R)
         /\ c.cur = NoSession => Apart(Archived(c, s), c.visible)
BY EmptyHeld DEF Archived, Sound, Apart

\* loadSession takes no message from a list, and takes it to the session loaded.
LEMMA Loads ==
  ASSUME NEW c, NEW n, NEW R, Sound(c, n, R), NEW s \in Places
  PROVE  /\ Sound(LoadSession(c, s), n, R) /\ LoadSession(c, s).cur = s
         /\ DOMAIN LoadSession(c, s).bucket
              \subseteq DOMAIN c.bucket \cup ({c.cur} \ {NoSession})
                                        \cup (IF c.visible = <<>> THEN {} ELSE {s} \ {NoSession})
         /\ Carries(c, LoadSession(c, s), n) /\ Retains(c, LoadSession(c, s), {})
<1> DEFINE b == IF c.cur # NoSession THEN With(c.bucket, c.cur, c.visible)
                ELSE IF s # NoSession /\ c.visible # <<>> THEN Adopted(c, s)
                ELSE c.bucket
           v == IF s \in DOMAIN b THEN b[s] ELSE <<>>
           d == LoadSession(c, s)
<1>1. d = [cur |-> s, bucket |-> b, visible |-> v]
  BY DEF LoadSession
<1>2. NoSession \notin Sessions /\ NoSession \notin DOMAIN c.bucket /\ DOMAIN c.bucket \subseteq Sessions
  BY HistoryConstants DEF Sound, StoreShape
<1>3. /\ DOMAIN b \subseteq Sessions
      /\ DOMAIN b \subseteq DOMAIN c.bucket \cup ({c.cur} \ {NoSession})
                              \cup (IF c.visible = <<>> THEN {} ELSE {s} \ {NoSession})
      /\ \A x \in DOMAIN b : Held(b[x], x, n, R)
      /\ \A x \in DOMAIN c.bucket : x \in DOMAIN b /\ Ids(c.bucket[x]) \subseteq Ids(b[x])
  <2>1. CASE c.cur # NoSession
    <3>1. c.cur \in Sessions
      BY <2>1 DEF Sound, StoreShape, Places
    <3>2. b = With(c.bucket, c.cur, c.visible)
      BY <2>1
    <3> HIDE DEF b
    <3>3. DOMAIN b = DOMAIN c.bucket \cup {c.cur} /\ b[c.cur] = c.visible
          /\ \A x \in DOMAIN c.bucket : x # c.cur => b[x] = c.bucket[x]
      BY <3>2 DEF With
    <3> QED
      BY <1>2, <2>1, <3>1, <3>3 DEF Sound
  <2>2. CASE c.cur = NoSession /\ s # NoSession /\ c.visible # <<>>
    <3>1. s \in Sessions
      BY <2>2 DEF Places
    <3> DEFINE a == Archived(c, s)
    <3>2. b = With(c.bucket, s, a \o c.visible)
      BY <2>2 DEF Adopted
    <3>3. Held(a, s, n, R) /\ Held(c.visible, NoSession, n, R) /\ Apart(a, c.visible)
      BY <2>2, <3>1, ArchivedHeld DEF Sound
    <3>4. s \in DOMAIN c.bucket => a = c.bucket[s]
      BY DEF Archived
    <3> HIDE DEF a, b
    <3> DEFINE both == a \o c.visible
    <3>5. Held(both, s, n, R) /\ Ids(a) \subseteq Ids(both)
      <4>1. Ids(both) = Ids(a) \cup Ids(c.visible)
        BY <3>3, JoinedIds DEF Held, Fits
      <4>2. both = a \o c.visible
        OBVIOUS
      <4> HIDE DEF both
      <4>3. Held(both, s, n, R)
        BY <3>3, <4>2, Joined
      <4> QED
        BY <4>1, <4>3
    <3>6. DOMAIN b = DOMAIN c.bucket \cup {s} /\ b[s] = a \o c.visible
          /\ \A x \in DOMAIN c.bucket : x # s => b[x] = c.bucket[x]
      BY <3>2 DEF With
    <3> QED
      BY <1>2, <2>2, <3>1, <3>4, <3>5, <3>6 DEF Sound
  <2>3. CASE c.cur = NoSession /\ ~(s # NoSession /\ c.visible # <<>>)
    <3>1. b = c.bucket
      BY <2>3
    <3> HIDE DEF b
    <3> QED
      BY <1>2, <3>1 DEF Sound
  <2> QED
    BY <2>1, <2>2, <2>3
<1> HIDE DEF b
<1>4. Held(v, s, n, R) /\ (s \in DOMAIN b => v = b[s]) /\ (s = NoSession => v = <<>>)
  BY <1>2, <1>3, EmptyHeld
<1> HIDE DEF v
<1>5. d = [cur |-> d.cur, visible |-> d.visible, bucket |-> d.bucket]
      /\ d.cur = s /\ d.visible = v /\ d.bucket = b
  BY <1>1
<1> HIDE DEF d
<1>6. Sound(d, n, R)
  BY <1>3, <1>4, <1>5, EmptyHeld DEF Sound, StoreShape, Apart
<1>7. Carries(c, d, n) /\ Retains(c, d, {})
  BY <1>3, <1>4, <1>5, EmptyHeld DEF Carries, Retains
<1> QED
  BY <1>3, <1>5, <1>6, <1>7 DEF d

\* forgetSession.
LEMMA Forgets ==
  ASSUME NEW c, NEW n, NEW R, Sound(c, n, R), NEW gone \in SUBSET Sessions
  PROVE  /\ Sound(ForgetSessions(c, gone), n, R)
         /\ ForgetSessions(c, gone).cur = (IF c.cur \in gone THEN NoSession ELSE c.cur)
         /\ DOMAIN ForgetSessions(c, gone).bucket = DOMAIN c.bucket \ gone
         /\ Carries(c, ForgetSessions(c, gone), n) /\ Retains(c, ForgetSessions(c, gone), gone)
<1> DEFINE d == ForgetSessions(c, gone)
<1>1. /\ d = [cur |-> d.cur, visible |-> d.visible, bucket |-> d.bucket]
      /\ d.cur = (IF c.cur \in gone THEN NoSession ELSE c.cur)
      /\ d.visible = (IF c.cur \in gone THEN <<>> ELSE c.visible)
      /\ d.bucket = Without(c.bucket, gone)
  BY DEF ForgetSessions
<1>2. DOMAIN d.bucket = DOMAIN c.bucket \ gone
      /\ \A x \in DOMAIN c.bucket \ gone : d.bucket[x] = c.bucket[x]
  BY <1>1 DEF Without
<1> HIDE DEF d
<1>3. d.cur \in Places /\ DOMAIN d.bucket \subseteq Sessions
  BY <1>1, <1>2 DEF Sound, StoreShape, Places
<1>4. Sound(d, n, R)
  <2>1. CASE c.cur \in gone
    BY <1>1, <1>2, <1>3, <2>1, EmptyHeld, HistoryConstants DEF Sound, StoreShape, Apart
  <2>2. CASE c.cur \notin gone
    BY <1>1, <1>2, <1>3, <2>2 DEF Sound, StoreShape
  <2> QED
    BY <2>1, <2>2
<1>5. Carries(c, d, n) /\ Retains(c, d, gone)
  BY <1>1, <1>2, EmptyHeld DEF Carries, Retains
<1> QED
  BY <1>1, <1>2, <1>4, <1>5 DEF d

\* applyToSession: of place t, longer holds no more than it did and the newest message.
MayApply(c, t, longer, n, k, R, T) ==
  /\ n \in Nat /\ k \in {n, n + 1} /\ Sound(c, n, R) /\ t \in Places /\ R \subseteq T \cup {t}
  /\ t # NoSession \/ c.cur = NoSession => Held(longer, t, k, T)
  /\ Ids(longer) \subseteq Ids(ListOf(c, t)) \cup {n + 1} /\ Ids(ListOf(c, t)) \subseteq Ids(longer)

LEMMA Applies ==
  ASSUME NEW c, NEW n, NEW k, NEW R, NEW T, NEW t, NEW longer, MayApply(c, t, longer, n, k, R, T)
  PROVE  /\ Sound(ApplyToSession(c, t, longer), k, T) /\ ApplyToSession(c, t, longer).cur = c.cur
         /\ DOMAIN ApplyToSession(c, t, longer).bucket = DOMAIN c.bucket \cup ({t} \ {NoSession})
         /\ Carries(c, ApplyToSession(c, t, longer), n)
         /\ Retains(c, ApplyToSession(c, t, longer), {})
<1>0. /\ n \in Nat /\ k \in {n, n + 1} /\ Sound(c, n, R) /\ t \in Places
      /\ R \subseteq T \cup {t} /\ (t # NoSession \/ c.cur = NoSession => Held(longer, t, k, T))
      /\ Ids(longer) \subseteq Ids(ListOf(c, t)) \cup {n + 1}
      /\ Ids(ListOf(c, t)) \subseteq Ids(longer)
  BY DEF MayApply
<1> USE <1>0
<1> DEFINE d == ApplyToSession(c, t, longer)
<1>1. NoSession \notin Sessions /\ NoSession \notin DOMAIN c.bucket /\ DOMAIN c.bucket \subseteq Sessions
      /\ StoreShape(c)
  BY HistoryConstants DEF Sound, StoreShape
<1>2. /\ d = [cur |-> d.cur, visible |-> d.visible, bucket |-> d.bucket]
      /\ d.cur = c.cur /\ d.visible = (IF t = c.cur THEN longer ELSE c.visible)
      /\ d.bucket = (IF t = NoSession THEN c.bucket ELSE With(c.bucket, t, longer))
  BY DEF ApplyToSession
<1> HIDE DEF d
<1>3. /\ DOMAIN d.bucket = DOMAIN c.bucket \cup ({t} \ {NoSession})
      /\ t # NoSession => d.bucket[t] = longer
      /\ \A x \in DOMAIN c.bucket : x # t => d.bucket[x] = c.bucket[x]
  <2>1. CASE t = NoSession
    BY <1>1, <1>2, <2>1
  <2>2. CASE t # NoSession
    <3>1. d.bucket = With(c.bucket, t, longer)
      BY <1>2, <2>2
    <3>2. DOMAIN d.bucket = DOMAIN c.bucket \cup {t} /\ d.bucket[t] = longer
          /\ \A x \in DOMAIN c.bucket : x # t => d.bucket[x] = c.bucket[x]
      BY <3>1 DEF With
    <3> QED
      BY <2>2, <3>2
  <2> QED
    BY <2>1, <2>2
<1>4. ASSUME NEW p, NEW msgs, p # t, Held(msgs, p, n, R) PROVE Held(msgs, p, k, T)
  BY <1>4, Grows
<1>5. \A x \in DOMAIN d.bucket : Held(d.bucket[x], x, k, T)
  BY <1>1, <1>3, <1>4 DEF Sound
<1>6. Held(d.visible, d.cur, k, T)
  BY <1>1, <1>2, <1>4 DEF Sound
<1>7. d.cur \in DOMAIN d.bucket => d.visible = d.bucket[d.cur]
  BY <1>1, <1>2, <1>3 DEF Sound
<1>8. \A p, msgs : Held(msgs, p, n, R) => n + 1 \notin Ids(msgs)
  <2> SUFFICES ASSUME NEW p, NEW msgs, Held(msgs, p, n, R), n + 1 \in Ids(msgs) PROVE FALSE
    OBVIOUS
  <2>1. PICK i \in 1 .. Len(msgs) : n + 1 = msgs[i].id
    BY IdsOf DEF Held, Fits
  <2> QED
    BY <2>1 DEF Held, Fits
<1>9. ASSUME d.cur = NoSession, NEW x \in DOMAIN d.bucket PROVE Apart(d.bucket[x], d.visible)
  <2>1. c.cur = NoSession /\ \A y \in DOMAIN c.bucket : Apart(c.bucket[y], c.visible)
    BY <1>2, <1>9 DEF Sound
  <2>2. n + 1 \notin Ids(c.visible) /\ \A y \in DOMAIN c.bucket : n + 1 \notin Ids(c.bucket[y])
    BY <1>8 DEF Sound
  <2>3. CASE t = NoSession
    <3>1. ListOf(c, t) = c.visible
      BY <2>3 DEF ListOf
    <3> QED
      BY <1>1, <1>2, <1>3, <1>9, <2>1, <2>2, <2>3, <3>1 DEF Apart
  <2>4. CASE t # NoSession
    <3>1. ListOf(c, t) = Archived(c, t) /\ t \in Sessions
      BY <2>1, <2>4 DEF ListOf, Places
    <3>2. Apart(Archived(c, t), c.visible)
      BY <2>1, <3>1, ArchivedHeld
    <3> QED
      BY <1>2, <1>3, <1>9, <2>1, <2>2, <2>4, <3>1, <3>2 DEF Apart
  <2> QED
    BY <2>3, <2>4
<1>10. ASSUME NEW x \in DOMAIN c.bucket PROVE Ids(c.bucket[x]) \subseteq Ids(d.bucket[x])
  <2>1. CASE x = t
    <3>1. ListOf(c, t) = c.bucket[t]
      BY <1>1, <1>10, <2>1 DEF ListOf, Archived, Sound
    <3> QED
      BY <1>1, <1>3, <1>10, <2>1, <3>1
  <2>2. CASE x # t
    BY <1>3, <1>10, <2>2
  <2> QED
    BY <2>1, <2>2
<1>11. d.cur \in Places /\ DOMAIN d.bucket \subseteq Sessions
  BY <1>1, <1>2, <1>3 DEF StoreShape, Places
<1>12. Sound(d, k, T)
  BY <1>2, <1>5, <1>6, <1>7, <1>9, <1>11 DEF Sound, StoreShape
<1>13. Carries(c, d, n)
  <2>1. t = NoSession => ListOf(c, t) = c.visible
    BY DEF ListOf
  <2> QED
    BY <1>2, <2>1 DEF Carries
<1>14. Retains(c, d, {})
  BY <1>3, <1>10 DEF Retains
<1> QED
  BY <1>2, <1>3, <1>12, <1>13, <1>14 DEF d

-----------------------------------------------------------------------------
(* The lists, in every state.                                              *)

\* The other variables.
RestTypes ==
  /\ project \in BOOLEAN /\ sessions \subseteq Sessions /\ active \in Places /\ runs \subseteq Places
  /\ boot \in {"off", "list read", "list", "archive read", "up"}
  /\ \A d \in {found, disk} :
       d.project \in BOOLEAN /\ d.sessions \subseteq Sessions /\ d.active \in Places
  /\ saves \in Seq(Saves) /\ Len(saves) <= MaxSaves
  /\ timer \in BOOLEAN /\ sent \in 0 .. MaxMessages /\ gestures \in 0 .. MaxGestures
  /\ launches \in 1 .. MaxLaunches /\ made \subseteq Sessions
  /\ early \in BOOLEAN /\ haunted \subseteq Sessions
  /\ disk = [project |-> disk.project, sessions |-> disk.sessions, active |-> disk.active,
             archive |-> disk.archive]
  /\ writing = <<>> \/ writing = <<writing[1]>>

ArchiveFits(a, n) == DOMAIN a \subseteq Sessions /\ \A s \in DOMAIN a : Fits(a[s], s, n)

\* What is typed in no session is in none yet, nor in what is still to be read.
Unread == \A s \in DOMAIN disk.archive : Apart(disk.archive[s], chat.visible)

ListsInv ==
  /\ RestTypes /\ Sound(chat, sent, runs)
  /\ ArchiveFits(disk.archive, sent) /\ ArchiveFits(found.archive, sent)
  /\ writing # <<>> => ArchiveFits(writing[1], sent)
  /\ boot # "up" => ~timer /\ writing = <<>> /\ (chat.cur = NoSession => Unread)
  /\ boot = "archive read" => found.archive = disk.archive

LEMMA ListsTyped == ListsInv => HistoryTypeOK
<1> SUFFICES ASSUME ListsInv PROVE HistoryTypeOK
  OBVIOUS
<1>1. \A a : ArchiveFits(a, sent) => IsArchive(a)
  BY DEF ArchiveFits, IsArchive, Fits
<1>2. chat.cur \in Places /\ chat.visible \in Seq(Message) /\ IsArchive(chat.bucket)
  BY DEF ListsInv, Sound, StoreShape, Held, Fits, IsArchive
<1>3. Len(writing) <= 1 /\ \A i \in DOMAIN writing : IsArchive(writing[i])
  <2>1. CASE writing = <<>>
    BY <2>1
  <2>2. CASE writing # <<>>
    <3>1. PICK a : writing = <<a>> /\ a = writing[1]
      BY <2>2 DEF ListsInv, RestTypes
    <3>2. IsArchive(a)
      BY <1>1, <2>2, <3>1 DEF ListsInv
    <3>3. Len(writing) = 1 /\ DOMAIN writing = {1}
      BY <3>1
    <3> QED
      BY <3>1, <3>2, <3>3
  <2> QED
    BY <2>1, <2>2
<1> QED
  BY <1>1, <1>2, <1>3 DEF ListsInv, RestTypes, HistoryTypeOK

LEMMA ListsInvInit == HistoryInit => ListsInv
<1> SUFFICES ASSUME HistoryInit PROVE ListsInv
  OBVIOUS
<1> USE HistoryConstants DEF HistoryInit
<1>1. 0 \in 0 .. MaxMessages /\ 0 \in 0 .. MaxGestures /\ 1 \in 1 .. MaxLaunches
  OBVIOUS
<1>2. saves \in Seq(Saves) /\ Len(saves) <= MaxSaves
  OBVIOUS
<1>3. RestTypes
  <2>1. disk = Nothing /\ found = Nothing
    OBVIOUS
  <2>2. /\ disk.project \in BOOLEAN /\ disk.sessions = {} /\ disk.active \in Places
        /\ disk = [project |-> disk.project, sessions |-> disk.sessions, active |-> disk.active,
                   archive |-> disk.archive]
    BY <2>1 DEF Nothing, Places
  <2>3. \A d \in {found, disk} :
          d.project \in BOOLEAN /\ d.sessions \subseteq Sessions /\ d.active \in Places
    BY <2>1, <2>2
  <2>4. active \in Places /\ project \in BOOLEAN /\ timer \in BOOLEAN /\ early \in BOOLEAN
    BY DEF Places
  <2> QED
    BY <1>1, <1>2, <2>2, <2>3, <2>4 DEF RestTypes
<1>4. DOMAIN Empty = {}
  BY DEF Empty
<1>5. Sound(chat, sent, runs)
  BY <1>4, EmptyHeld DEF Sound, StoreShape, Places
<1>6. ArchiveFits(disk.archive, sent) /\ ArchiveFits(found.archive, sent) /\ Unread
  BY <1>4 DEF ArchiveFits, Nothing, Unread
<1> QED
  BY <1>3, <1>5, <1>6 DEF ListsInv

\* The files, as messages are added.
LEMMA FilesFit ==
  ASSUME ListsInv, sent' \in {sent, sent + 1}
  PROVE  /\ sent \in Nat /\ sent' \in Nat
         /\ \A a : ArchiveFits(a, sent) => ArchiveFits(a, sent')
         /\ \A s \in DOMAIN disk.archive : sent + 1 \notin Ids(disk.archive[s])
<1>1. sent \in Nat /\ sent' \in Nat
  <2>1. sent \in 0 .. MaxMessages
    BY DEF ListsInv, RestTypes
  <2> QED
    BY <2>1
<1>2. ASSUME NEW msgs, NEW s, Fits(msgs, s, sent) PROVE Fits(msgs, s, sent') /\ sent + 1 \notin Ids(msgs)
  <2>1. Pulse(msgs, Places)
    BY <1>2, MessageFields DEF Pulse, Fits
  <2>2. \A i \in 1 .. Len(msgs) : msgs[i].id \in Nat /\ msgs[i].id <= sent
    BY <1>2, MessageFields DEF Fits
  <2>3. Fits(msgs, s, sent')
    BY <1>1, <1>2, <2>2 DEF Fits
  <2>4. \A i \in 1 .. Len(msgs) : msgs[i].id # sent + 1
    BY <1>1, <2>2
  <2> QED
    BY <1>2, <2>3, <2>4, IdsOf DEF Fits
<1> QED
  BY <1>1, <1>2 DEF ArchiveFits, ListsInv

\* A step of the store, its disk and launch left alone.
LEMMA StoreStep ==
  ASSUME ListsInv, RestTypes', sent' \in {sent, sent + 1}, Sound(chat', sent', runs'),
         Carries(chat, chat', sent), UNCHANGED diskSide, boot # "up" => timer' = timer
  PROVE  ListsInv'
<1>1. boot # "up" => ~timer' /\ writing' = <<>>
  BY DEF ListsInv, diskSide
<1>2. ASSUME boot # "up", chat'.cur = NoSession PROVE Unread'
  BY <1>2, FilesFit DEF ListsInv, Carries, Unread, Apart, diskSide
<1> QED
  BY <1>1, <1>2, FilesFit DEF ListsInv, diskSide

\* No session that stays in the list loses a message.
Lossless ==
  boot = "up" /\ boot' = "up" =>
    \A s \in (sessions \cap sessions') \cap DOMAIN chat.bucket :
      s \in DOMAIN chat'.bucket /\ Ids(chat.bucket[s]) \subseteq Ids(chat'.bucket[s])

LEMMA LosslessBy ==
  ASSUME NEW gone, gone \cap sessions' = {}, Retains(chat, chat', gone)
  PROVE  Lossless
BY DEF Lossless, Retains

\* The list a mutation for place t is made to.
LEMMA ListHeld ==
  ASSUME NEW c, NEW n, NEW R, Sound(c, n, R), NEW t \in Places
  PROVE  Held(ListOf(c, t), IF t = NoSession THEN c.cur ELSE t, n, R)
<1>1. CASE t \in {c.cur, NoSession}
  BY <1>1 DEF ListOf, Sound
<1>2. CASE t \notin {c.cur, NoSession}
  <2>1. t \in Sessions
    BY <1>2 DEF Places
  <2> QED
    BY <1>2, <2>1, ArchivedHeld DEF ListOf
<1> QED
  BY <1>1, <1>2

LEMMA NewMessage ==
  ASSUME RestTypes, sent < MaxMessages, NEW s \in Places
  PROVE  /\ New(s, TRUE) \in Message /\ New(s, TRUE).id = sent + 1 /\ New(s, TRUE).owner = s
         /\ sent \in Nat /\ sent + 1 \in 0 .. MaxMessages
<1>1. sent \in 0 .. MaxMessages /\ MaxMessages \in Nat
  BY HistoryConstants DEF RestTypes
<1>2. sent + 1 \in 1 .. MaxMessages
  BY <1>1
<1> QED
  BY <1>1, <1>2 DEF New, Message

\* A message sent in the session in view, or added by the run of s.
LEMMA AddKeeps ==
  ASSUME ListsInv, sent < MaxMessages, sent' = sent + 1, NEW t \in Places,
         NEW longer \in Added(ListOf(chat, t), New(t, TRUE)), chat' = ApplyToSession(chat, t, longer),
         runs' = runs \cup {t}
  PROVE  /\ Sound(chat', sent', runs') /\ Carries(chat, chat', sent) /\ Retains(chat, chat', {})
         /\ chat'.cur = chat.cur
         /\ DOMAIN chat'.bucket = DOMAIN chat.bucket \cup ({t} \ {NoSession})
<1>1. PICK p : p = (IF t = NoSession THEN chat.cur ELSE t)
  OBVIOUS
<1>2. PICK list : list = ListOf(chat, t)
  OBVIOUS
<1>3. PICK m : m = New(t, TRUE)
  OBVIOUS
<1>4. Held(list, p, sent, runs)
  BY <1>1, <1>2, ListHeld DEF ListsInv
<1>5. m \in Message /\ m.id = sent + 1 /\ m.owner = t /\ sent \in Nat
  BY <1>3, NewMessage DEF ListsInv
<1>6. MayAdd(list, m, p, sent, runs, runs')
  BY <1>1, <1>4, <1>5 DEF MayAdd
<1>7. longer \in Added(list, m)
  BY <1>2, <1>3
<1>8. Held(longer, p, sent + 1, runs') /\ Ids(longer) = Ids(list) \cup {sent + 1}
  BY <1>6, <1>7, OneAdded
<1>9. t # NoSession \/ chat.cur = NoSession => Held(longer, t, sent + 1, runs')
  BY <1>1, <1>8
<1>10. PICK k : k = sent + 1
  OBVIOUS
<1>11. Sound(chat, sent, runs) /\ runs \subseteq runs' \cup {t}
  BY DEF ListsInv
<1>12. MayApply(chat, t, longer, sent, k, runs, runs')
  BY <1>2, <1>5, <1>8, <1>9, <1>10, <1>11 DEF MayApply
<1> QED
  BY <1>10, <1>12, Applies

LEMMA SubmitMessageKeeps == ListsInv /\ SubmitMessage => ListsInv' /\ Lossless
<1> SUFFICES ASSUME ListsInv, SubmitMessage PROVE ListsInv' /\ Lossless
  OBVIOUS
<1>1. /\ sent < MaxMessages /\ sent' = sent + 1 /\ runs' = runs \cup {chat.cur}
      /\ chat' = ApplyToSession(chat, chat.cur, Append(ListOf(chat, chat.cur), New(chat.cur, TRUE)))
      /\ (timer' = (timer \/ boot = "up")) /\ early' = (early \/ boot # "up")
      /\ UNCHANGED <<project, sessions, active, diskSide, saves, gestures, made, haunted>>
  BY DEF SubmitMessage, SchedulePersist
<1>2. chat.cur \in Places /\ RestTypes
  BY DEF ListsInv, Sound, StoreShape
<1>3. Sound(chat', sent', runs') /\ Carries(chat, chat', sent) /\ Retains(chat, chat', {})
  BY <1>1, <1>2, AddKeeps DEF Added
<1>4. sent' \in 0 .. MaxMessages
  BY <1>1, <1>2, NewMessage
<1>5. timer' \in BOOLEAN /\ early' \in BOOLEAN
  BY <1>1, <1>2 DEF RestTypes
<1>6. RestTypes'
  BY <1>1, <1>2, <1>4, <1>5 DEF RestTypes, diskSide
<1>7. UNCHANGED <<sessions, diskSide>> /\ (boot # "up" => timer' = timer)
  BY <1>1 DEF RestTypes, ListsInv
<1>8. sent' \in {sent, sent + 1}
  BY <1>1
<1>9. ListsInv'
  BY <1>2, <1>3, <1>6, <1>7, <1>8, StoreStep
<1> QED
  BY <1>1, <1>2, <1>3, <1>6, <1>9 DEF Lossless, Retains

LEMMA RunAddsKeeps ==
  ASSUME ListsInv, NEW s \in Places, RunAdds(s)
  PROVE  ListsInv' /\ Lossless
<1>1. /\ s \in runs /\ sent < MaxMessages /\ sent' = sent + 1 /\ runs' = runs
      /\ chat' = ApplyToSession(chat, s, BeforeAnswer(ListOf(chat, s), New(s, TRUE)))
      /\ (timer' = (timer \/ boot = "up"))
      /\ UNCHANGED <<project, sessions, active, diskSide, saves, gestures, made, early, haunted>>
  BY DEF RunAdds, SchedulePersist, Target
<1>2. RestTypes /\ runs' = runs \cup {s}
  BY <1>1 DEF ListsInv
<1>3. Sound(chat', sent', runs') /\ Carries(chat, chat', sent) /\ Retains(chat, chat', {})
  BY <1>1, <1>2, AddKeeps DEF Added
<1>4. sent' \in 0 .. MaxMessages
  BY <1>1, <1>2, NewMessage
<1>5. timer' \in BOOLEAN
  BY <1>1, <1>2 DEF RestTypes
<1>6. RestTypes'
  BY <1>1, <1>2, <1>4, <1>5 DEF RestTypes, diskSide
<1>7. UNCHANGED <<sessions, diskSide>> /\ (boot # "up" => timer' = timer)
  BY <1>1 DEF RestTypes, ListsInv
<1>8. sent' \in {sent, sent + 1}
  BY <1>1
<1>9. ListsInv'
  BY <1>2, <1>3, <1>6, <1>7, <1>8, StoreStep
<1> QED
  BY <1>1, <1>2, <1>3, <1>6, <1>9 DEF Lossless, Retains

LEMMA EndKeeps ==
  ASSUME ListsInv, NEW t \in Places, runs' = runs \ {t},
         chat' = ApplyToSession(chat, t, SettleAll(ListOf(chat, t)))
  PROVE  /\ Sound(chat', sent, runs') /\ Carries(chat, chat', sent) /\ Retains(chat, chat', {})
         /\ chat'.cur = chat.cur
         /\ DOMAIN chat'.bucket = DOMAIN chat.bucket \cup ({t} \ {NoSession})
<1>1. PICK p : p = (IF t = NoSession THEN chat.cur ELSE t)
  OBVIOUS
<1>2. PICK longer : longer = SettleAll(ListOf(chat, t))
  OBVIOUS
<1>3. Fits(ListOf(chat, t), p, sent)
  BY <1>1, ListHeld DEF ListsInv, Held
<1>4. Held(longer, p, sent, runs') /\ Ids(longer) = Ids(ListOf(chat, t))
  BY <1>2, <1>3, AllSettled
<1>5. Sound(chat, sent, runs) /\ sent \in Nat /\ runs \subseteq runs' \cup {t}
  <2>1. sent \in 0 .. MaxMessages
    BY DEF ListsInv, RestTypes
  <2>2. sent \in Nat
    BY <2>1
  <2>3. runs \subseteq runs' \cup {t}
    OBVIOUS
  <2> QED
    BY <2>2, <2>3 DEF ListsInv
<1>6. PICK k \in {sent, sent + 1} : k = sent
  OBVIOUS
<1>7. t # NoSession \/ chat.cur = NoSession => Held(longer, t, k, runs')
  BY <1>1, <1>4, <1>6
<1>8. MayApply(chat, t, longer, sent, k, runs, runs')
  BY <1>4, <1>5, <1>7 DEF MayApply
<1> QED
  BY <1>2, <1>6, <1>8, Applies

LEMMA RunEndsKeeps ==
  ASSUME ListsInv, NEW s \in Places, RunEnds(s)
  PROVE  ListsInv' /\ Lossless
<1>1. /\ runs' = runs \ {s} /\ chat' = ApplyToSession(chat, s, SettleAll(ListOf(chat, s)))
      /\ (timer' = (timer \/ boot = "up"))
      /\ UNCHANGED <<project, sessions, active, sent, diskSide, saves, gestures, made, early, haunted>>
  BY DEF RunEnds, SchedulePersist, Target
<1>2. Sound(chat', sent', runs') /\ Carries(chat, chat', sent) /\ Retains(chat, chat', {})
  BY <1>1, EndKeeps
<1>3. timer' \in BOOLEAN /\ RestTypes
  BY <1>1 DEF RestTypes, ListsInv
<1>4. RestTypes'
  BY <1>1, <1>3 DEF RestTypes, diskSide
<1>5. UNCHANGED <<sessions, diskSide>> /\ (boot # "up" => timer' = timer)
  BY <1>1 DEF RestTypes, ListsInv
<1>6. sent' \in {sent, sent + 1}
  BY <1>1
<1>7. ListsInv'
  BY <1>2, <1>3, <1>4, <1>5, <1>6, StoreStep
<1> QED
  BY <1>1, <1>2, <1>3, <1>4, <1>7 DEF Lossless, Retains

LEMMA CarriedOn ==
  ASSUME NEW c, NEW d, NEW e, NEW n, Carries(c, d, n), Carries(d, e, n)
  PROVE  Carries(c, e, n)
BY DEF Carries

\* The store after the selection moves to place to.
LEMMA FollowsSelection ==
  ASSUME NEW c, NEW n, NEW R, Sound(c, n, R), NEW to \in Places
  PROVE  /\ Sound(InStep(c, to), n, R) /\ Carries(c, InStep(c, to), n)
         /\ Retains(c, InStep(c, to), {})
         /\ InStep(c, to).cur = (IF to = active THEN c.cur ELSE to)
         /\ DOMAIN InStep(c, to).bucket
              \subseteq DOMAIN c.bucket \cup ({c.cur} \ {NoSession})
                                        \cup (IF c.visible = <<>> THEN {} ELSE {to} \ {NoSession})
<1>1. CASE to = active
  <2>1. InStep(c, to) = c
    BY <1>1 DEF InStep
  <2>2. Carries(c, c, n) /\ Retains(c, c, {})
    BY DEF Carries, Retains
  <2> QED
    BY <1>1, <2>1, <2>2
<1>2. CASE to # active
  <2>1. InStep(c, to) = LoadSession(c, to)
    BY <1>2 DEF InStep
  <2> QED
    BY <1>2, <2>1, Loads
<1> QED
  BY <1>1, <1>2

LEMMA SaveTyped ==
  ASSUME RestTypes, NEW parts \in SUBSET {"list", "active"}, NEW p \in BOOLEAN,
         NEW ss \in SUBSET Sessions, NEW a \in Places, Save(parts, p, ss, a)
  PROVE  saves' \in Seq(Saves) /\ Len(saves') <= MaxSaves
<1>1. PICK w : w = [parts |-> parts, project |-> p, sessions |-> ss, active |-> a]
  OBVIOUS
<1>2. w \in Saves
  BY <1>1 DEF Saves
<1>3. saves \in Seq(Saves) /\ MaxSaves \in Nat /\ Len(saves) < MaxSaves /\ saves' = Append(saves, w)
  BY <1>1, HistoryConstants DEF Save, RestTypes
<1> QED
  BY <1>2, <1>3

LEMMA GestureTyped ==
  ASSUME RestTypes, Gesture, SchedulePersist
  PROVE  /\ gestures' \in 0 .. MaxGestures /\ early' \in BOOLEAN /\ timer' \in BOOLEAN
         /\ UNCHANGED <<runs, sent, diskSide>> /\ (boot # "up" => timer' = timer)
<1>1. gestures \in 0 .. MaxGestures /\ gestures < MaxGestures /\ gestures' = gestures + 1
      /\ MaxGestures \in Nat
  BY HistoryConstants DEF RestTypes, Gesture
<1>2. gestures' \in 0 .. MaxGestures
  BY <1>1
<1>3. early' \in BOOLEAN
  BY DEF RestTypes, Gesture
<1>4. timer' \in BOOLEAN
  BY DEF RestTypes, SchedulePersist
<1>5. UNCHANGED <<runs, sent, diskSide>>
  BY DEF Gesture
<1>6. boot # "up" => timer' = timer
  BY DEF RestTypes, SchedulePersist
<1> QED
  BY <1>2, <1>3, <1>4, <1>5, <1>6

LEMMA GestureKeeps ==
  ASSUME ListsInv, Gesture, SchedulePersist, project' \in BOOLEAN, sessions' \subseteq Sessions,
         active' \in Places, made' \subseteq Sessions, haunted' \subseteq Sessions,
         saves' \in Seq(Saves), Len(saves') <= MaxSaves,
         Sound(chat', sent, runs), Carries(chat, chat', sent)
  PROVE  ListsInv'
<1>1. RestTypes
  BY DEF ListsInv
<1>2. /\ gestures' \in 0 .. MaxGestures /\ early' \in BOOLEAN /\ timer' \in BOOLEAN
      /\ UNCHANGED <<runs, sent, diskSide>> /\ (boot # "up" => timer' = timer)
  BY <1>1, GestureTyped
<1>3. RestTypes'
  BY <1>1, <1>2 DEF RestTypes, diskSide
<1> QED
  BY <1>2, <1>3, StoreStep

LEMMA StartNewSessionKeeps ==
  ASSUME ListsInv, NEW s \in Sessions, StartNewSession(s)
  PROVE  ListsInv' /\ Lossless
<1>1. /\ made' = made \cup {s} /\ project' = TRUE /\ sessions' = sessions \cup {s} /\ active' = s
      /\ chat' = InStep(chat, s) /\ Save({"list", "active"}, TRUE, sessions', s)
      /\ SchedulePersist /\ Gesture /\ haunted' = haunted
  BY DEF StartNewSession
<1>2. RestTypes /\ Sound(chat, sent, runs) /\ s \in Places
  BY DEF ListsInv, Places
<1>3. Sound(chat', sent, runs) /\ Carries(chat, chat', sent) /\ Retains(chat, chat', {})
  BY <1>1, <1>2, FollowsSelection
<1>4. sessions' \subseteq Sessions /\ made' \subseteq Sessions /\ haunted' \subseteq Sessions
      /\ active' \in Places /\ project' \in BOOLEAN
  BY <1>1, <1>2 DEF RestTypes
<1>5. saves' \in Seq(Saves) /\ Len(saves') <= MaxSaves
  BY <1>1, <1>2, <1>4, SaveTyped
<1>6. ListsInv'
  BY <1>1, <1>3, <1>4, <1>5, GestureKeeps
<1> QED
  BY <1>3, <1>6 DEF Lossless, Retains

LEMMA ActivateSessionKeeps ==
  ASSUME ListsInv, NEW s \in Sessions, ActivateSession(s)
  PROVE  ListsInv' /\ Lossless
<1>1. /\ active' = s /\ chat' = InStep(chat, s) /\ Save({"active"}, project, sessions, s)
      /\ SchedulePersist /\ Gesture /\ UNCHANGED <<project, sessions, made, haunted>>
  BY DEF ActivateSession
<1>2. RestTypes /\ Sound(chat, sent, runs) /\ s \in Places
  BY DEF ListsInv, Places
<1>3. Sound(chat', sent, runs) /\ Carries(chat, chat', sent) /\ Retains(chat, chat', {})
  BY <1>1, <1>2, FollowsSelection
<1>4. sessions' \subseteq Sessions /\ made' \subseteq Sessions /\ haunted' \subseteq Sessions
      /\ active' \in Places /\ project' \in BOOLEAN
  BY <1>1, <1>2 DEF RestTypes
<1>5. saves' \in Seq(Saves) /\ Len(saves') <= MaxSaves
  BY <1>1, <1>2, SaveTyped DEF RestTypes
<1>6. ListsInv'
  BY <1>1, <1>3, <1>4, <1>5, GestureKeeps
<1> QED
  BY <1>3, <1>6 DEF Lossless, Retains

LEMMA DeleteSessionKeeps ==
  ASSUME ListsInv, NEW s \in Sessions, DeleteSession(s)
  PROVE  ListsInv' /\ Lossless
<1>1. /\ sessions' = sessions \ {s} /\ active' = (IF active = s THEN NoSession ELSE active)
      /\ chat' = ForgetSessions(InStep(chat, active'), {s})
      /\ haunted' = haunted \cup ({s} \cap runs)
      /\ Save({"list", "active"}, project, sessions', active')
      /\ SchedulePersist /\ Gesture /\ UNCHANGED <<project, made>>
  BY DEF DeleteSession
<1>2. RestTypes /\ Sound(chat, sent, runs)
  BY DEF ListsInv
<1>3. sessions' \subseteq Sessions /\ made' \subseteq Sessions /\ haunted' \subseteq Sessions
      /\ active' \in Places /\ project' \in BOOLEAN
  BY <1>1, <1>2 DEF RestTypes, Places
<1>4. PICK d : d = InStep(chat, active')
  OBVIOUS
<1>5. Sound(d, sent, runs) /\ Carries(chat, d, sent) /\ Retains(chat, d, {})
  BY <1>2, <1>3, <1>4, FollowsSelection
<1>6. Sound(chat', sent, runs) /\ Carries(d, chat', sent) /\ Retains(d, chat', {s})
  BY <1>1, <1>4, <1>5, Forgets
<1>7. Carries(chat, chat', sent)
  BY <1>5, <1>6, CarriedOn
<1>8. saves' \in Seq(Saves) /\ Len(saves') <= MaxSaves
  <2>1. project \in BOOLEAN /\ sessions' \in SUBSET Sessions
    BY <1>2, <1>3 DEF RestTypes
  <2> QED
    BY <1>1, <1>2, <1>3, <2>1, SaveTyped
<1>9. ListsInv'
  BY <1>1, <1>3, <1>6, <1>7, <1>8, GestureKeeps
<1>10. Retains(chat, chat', {s})
  BY <1>5, <1>6 DEF Retains
<1> QED
  BY <1>1, <1>9, <1>10, LosslessBy

LEMMA RemoveProjectKeeps == ListsInv /\ RemoveProject => ListsInv' /\ Lossless
<1> SUFFICES ASSUME ListsInv, RemoveProject PROVE ListsInv' /\ Lossless
  OBVIOUS
<1>1. /\ project' = FALSE /\ sessions' = {} /\ active' = NoSession
      /\ chat' = InStep(ForgetSessions(chat, sessions), NoSession)
      /\ haunted' = haunted \cup (sessions \cap runs)
      /\ Save({"list", "active"}, FALSE, {}, NoSession)
      /\ SchedulePersist /\ Gesture /\ made' = made
  BY DEF RemoveProject
<1>2. RestTypes /\ Sound(chat, sent, runs) /\ NoSession \in Places /\ sessions \in SUBSET Sessions
  BY DEF ListsInv, Places, RestTypes
<1>3. sessions' \subseteq Sessions /\ made' \subseteq Sessions /\ haunted' \subseteq Sessions
      /\ active' \in Places /\ project' \in BOOLEAN
  BY <1>1, <1>2 DEF RestTypes
<1>4. PICK d : d = ForgetSessions(chat, sessions)
  OBVIOUS
<1>5. Sound(d, sent, runs) /\ Carries(chat, d, sent)
  BY <1>2, <1>4, Forgets
<1>6. Sound(chat', sent, runs) /\ Carries(d, chat', sent)
  BY <1>1, <1>2, <1>4, <1>5, FollowsSelection
<1>7. Carries(chat, chat', sent)
  BY <1>5, <1>6, CarriedOn
<1>8. saves' \in Seq(Saves) /\ Len(saves') <= MaxSaves
  <2>1. {} \in SUBSET Sessions /\ FALSE \in BOOLEAN
    OBVIOUS
  <2> QED
    BY <1>1, <1>2, <2>1, SaveTyped
<1>9. ListsInv'
  BY <1>1, <1>3, <1>6, <1>7, <1>8, GestureKeeps
<1> QED
  BY <1>1, <1>9 DEF Lossless

LEMMA Shorter ==
  ASSUME NEW S, NEW s \in Seq(S), NEW i \in 1 .. Len(s)
  PROVE  /\ RemoveAt(s, i) \in Seq(S)
         /\ Len(RemoveAt(s, i)) = Len(s) - 1
         /\ \A k \in 1 .. Len(s) - 1 : RemoveAt(s, i)[k] = s[IF k < i THEN k ELSE k + 1]
<1> DEFINE before == SubSeq(s, 1, i - 1)  after == SubSeq(s, i + 1, Len(s))
<1>1. before \in Seq(S) /\ Len(before) = i - 1 /\ \A k \in 1 .. i - 1 : before[k] = s[k]
  OBVIOUS
<1>2. after \in Seq(S) /\ Len(after) = Len(s) - i /\ \A k \in 1 .. Len(s) - i : after[k] = s[i + k]
  OBVIOUS
<1>3. RemoveAt(s, i) = before \o after
  BY DEF RemoveAt
<1> HIDE DEF before, after
<1>4. (before \o after) \in Seq(S) /\ Len(before \o after) = Len(s) - 1
  BY <1>1, <1>2
<1>5. ASSUME NEW k \in 1 .. Len(s) - 1
      PROVE  (before \o after)[k] = s[IF k < i THEN k ELSE k + 1]
  <2>1. CASE k < i
    BY <1>1, <1>2, <2>1
  <2>2. CASE ~(k < i)
    <3>1. (before \o after)[k] = after[k - (i - 1)] /\ k - (i - 1) \in 1 .. Len(s) - i
      BY <1>1, <1>2, <2>2
    <3> QED
      BY <1>2, <2>2, <3>1
  <2> QED
    BY <2>1, <2>2
<1> QED
  BY <1>3, <1>4, <1>5

\* A write that lands leaves the others, and the archive, as they are.
LEMMA Landed ==
  ASSUME RestTypes, NEW i \in 1 .. MaxSaves, LandSave(i)
  PROVE  /\ saves' \in Seq(Saves) /\ Len(saves') <= MaxSaves
         /\ \A k \in 1 .. Len(saves') : \E j \in 1 .. Len(saves) :
              saves'[k].project = saves[j].project /\ saves'[k].sessions = saves[j].sessions
         /\ disk' = [project |-> disk'.project, sessions |-> disk'.sessions,
                     active |-> disk'.active, archive |-> disk'.archive]
         /\ disk'.project \in BOOLEAN /\ disk'.sessions \subseteq Sessions /\ disk'.active \in Places
         /\ disk'.archive = disk.archive
         /\ \/ disk'.project = disk.project /\ disk'.sessions = disk.sessions
            \/ \E j \in 1 .. Len(saves) :
                 disk'.project = saves[j].project /\ disk'.sessions = saves[j].sessions
<1>1. saves \in Seq(Saves) /\ Len(saves) <= MaxSaves /\ i \in 1 .. Len(saves) /\ MaxSaves \in Nat
      /\ DOMAIN saves = 1 .. Len(saves)
  <2>1. saves \in Seq(Saves) /\ Len(saves) <= MaxSaves
    BY DEF RestTypes
  <2>2. i \in DOMAIN saves
    BY DEF LandSave
  <2> QED
    BY <2>1, <2>2, HistoryConstants
<1>2. PICK w \in Saves : w = saves[i]
  BY <1>1
<1>3. PICK part : part = (IF "list" \in w.parts THEN "list" ELSE "active")
  OBVIOUS
<1>4. /\ disk' = (IF part = "list" THEN [disk EXCEPT !.project = w.project, !.sessions = w.sessions]
                  ELSE [disk EXCEPT !.active = w.active])
      /\ saves' = (IF w.parts = {part} THEN RemoveAt(saves, i)
                   ELSE [saves EXCEPT ![i].parts = @ \ {part}])
  BY <1>2, <1>3 DEF LandSave
<1>5. w.parts \subseteq {"list", "active"} /\ w.project \in BOOLEAN /\ w.sessions \subseteq Sessions
      /\ w.active \in Places
      /\ w = [parts |-> w.parts, project |-> w.project, sessions |-> w.sessions, active |-> w.active]
  BY <1>2 DEF Saves
<1>6. /\ saves' \in Seq(Saves) /\ Len(saves') <= MaxSaves
      /\ \A k \in 1 .. Len(saves') : \E j \in 1 .. Len(saves) :
           saves'[k].project = saves[j].project /\ saves'[k].sessions = saves[j].sessions
  <2>1. CASE w.parts = {part}
    <3>1. /\ saves' \in Seq(Saves) /\ Len(saves') = Len(saves) - 1
          /\ \A k \in 1 .. Len(saves) - 1 : saves'[k] = saves[IF k < i THEN k ELSE k + 1]
      BY <1>1, <1>4, <2>1, Shorter
    <3>2. ASSUME NEW k \in 1 .. Len(saves) - 1 PROVE \E j \in 1 .. Len(saves) : saves'[k] = saves[j]
      <4>1. CASE k < i
        <5>1. saves'[k] = saves[k] /\ k \in 1 .. Len(saves)
          BY <1>1, <3>1, <4>1
        <5> QED
          BY <5>1
      <4>2. CASE ~(k < i)
        <5>1. saves'[k] = saves[k + 1] /\ k + 1 \in 1 .. Len(saves)
          BY <1>1, <3>1, <4>2
        <5> QED
          BY <5>1
      <4> QED
        BY <4>1, <4>2
    <3>3. ASSUME NEW k \in 1 .. Len(saves')
          PROVE  \E j \in 1 .. Len(saves) :
                   saves'[k].project = saves[j].project /\ saves'[k].sessions = saves[j].sessions
      BY <3>1, <3>2
    <3>4. Len(saves') <= MaxSaves
      BY <1>1, <3>1
    <3> QED
      BY <3>1, <3>3, <3>4
  <2>2. CASE w.parts # {part}
    <3>1. PICK v : v = [parts |-> w.parts \ {part}, project |-> w.project, sessions |-> w.sessions,
                        active |-> w.active]
      OBVIOUS
    <3>2. v \in Saves /\ v.project = w.project /\ v.sessions = w.sessions
      BY <1>5, <3>1 DEF Saves
    <3>3. [w EXCEPT !.parts = @ \ {part}] = v
      BY <1>5, <3>1
    <3>4. saves' = [saves EXCEPT ![i] = v]
      BY <1>2, <1>4, <2>2, <3>3
    <3>5. saves' \in Seq(Saves) /\ Len(saves') = Len(saves) /\ saves'[i] = v
          /\ \A k \in 1 .. Len(saves) : k # i => saves'[k] = saves[k]
      BY <1>1, <3>2, <3>4
    <3>6. ASSUME NEW k \in 1 .. Len(saves')
          PROVE  saves'[k].project = saves[k].project /\ saves'[k].sessions = saves[k].sessions
      BY <1>2, <3>2, <3>5
    <3> QED
      BY <1>1, <3>5, <3>6
  <2> QED
    BY <2>1, <2>2
<1>7. /\ disk = [project |-> disk.project, sessions |-> disk.sessions, active |-> disk.active,
                 archive |-> disk.archive]
      /\ disk.project \in BOOLEAN /\ disk.sessions \subseteq Sessions /\ disk.active \in Places
  BY DEF RestTypes
<1>8. CASE part = "list"
  <2>1. disk' = [project |-> w.project, sessions |-> w.sessions, active |-> disk.active,
                 archive |-> disk.archive]
    BY <1>4, <1>7, <1>8
  <2> QED
    BY <1>1, <1>2, <1>5, <1>6, <1>7, <2>1
<1>9. CASE part # "list"
  <2>1. disk' = [project |-> disk.project, sessions |-> disk.sessions, active |-> w.active,
                 archive |-> disk.archive]
    BY <1>4, <1>7, <1>9
  <2> QED
    BY <1>5, <1>6, <1>7, <2>1
<1> QED
  BY <1>8, <1>9

LEMMA LandSaveKeeps ==
  ASSUME ListsInv, NEW i \in 1 .. MaxSaves, LandSave(i)
  PROVE  ListsInv' /\ Lossless
<1>1. RestTypes /\ UNCHANGED <<project, sessions, active, chatSide, boot, found, writing, gestures,
                              launches, made, early, haunted>>
  BY DEF LandSave, ListsInv
<1>2. /\ saves' \in Seq(Saves) /\ Len(saves') <= MaxSaves
      /\ disk' = [project |-> disk'.project, sessions |-> disk'.sessions,
                  active |-> disk'.active, archive |-> disk'.archive]
      /\ disk'.project \in BOOLEAN /\ disk'.sessions \subseteq Sessions /\ disk'.active \in Places
      /\ disk'.archive = disk.archive
  BY <1>1, Landed
<1>3. UNCHANGED <<chat, runs, sent, timer, project, sessions, active, boot, found, writing, gestures,
                  launches, made, early, haunted>>
  BY <1>1 DEF chatSide
<1>4. RestTypes'
  BY <1>1, <1>2, <1>3 DEF RestTypes
<1>5. ListsInv'
  BY <1>2, <1>3, <1>4 DEF ListsInv, Unread
<1> QED
  BY <1>3, <1>5 DEF Lossless

LEMMA PersistTimerKeeps == ListsInv /\ PersistTimer => ListsInv' /\ Lossless
<1> SUFFICES ASSUME ListsInv, PersistTimer PROVE ListsInv' /\ Lossless
  OBVIOUS
<1>1. /\ timer /\ writing = <<>> /\ timer' = FALSE /\ writing' = <<chat.bucket>>
      /\ UNCHANGED <<project, sessions, active, chat, runs, sent, boot, found, disk, saves,
                     gestures, launches, made, early, haunted>>
  BY DEF PersistTimer
<1>2. writing' = <<writing'[1]>> /\ writing'[1] = chat.bucket
  BY <1>1
<1>3. RestTypes'
  BY <1>1, <1>2 DEF RestTypes, ListsInv
<1>4. boot = "up" /\ ArchiveFits(writing'[1], sent)
  BY <1>1, <1>2 DEF ListsInv, ArchiveFits, Sound, StoreShape, Held
<1>5. ListsInv'
  BY <1>1, <1>3, <1>4 DEF ListsInv
<1> QED
  BY <1>1, <1>5 DEF Lossless

LEMMA SnapshotLandsKeeps == ListsInv /\ SnapshotLands => ListsInv' /\ Lossless
<1> SUFFICES ASSUME ListsInv, SnapshotLands PROVE ListsInv' /\ Lossless
  OBVIOUS
<1>1. /\ writing # <<>> /\ disk' = [disk EXCEPT !.archive = writing[1]] /\ writing' = <<>>
      /\ UNCHANGED <<project, sessions, active, chat, runs, sent, timer, boot, found, saves, gestures,
                     launches, made, early, haunted>>
  BY DEF SnapshotLands, chatSide
<1>2. disk' = [project |-> disk.project, sessions |-> disk.sessions, active |-> disk.active,
               archive |-> writing[1]]
  BY <1>1 DEF ListsInv, RestTypes
<1>3. RestTypes'
  BY <1>1, <1>2 DEF RestTypes, ListsInv
<1>4. boot = "up" /\ disk'.archive = writing[1]
  BY <1>1, <1>2 DEF ListsInv
<1>5. ListsInv'
  BY <1>1, <1>3, <1>4 DEF ListsInv
<1> QED
  BY <1>1, <1>5 DEF Lossless

LEMMA AppEndsKeeps == ListsInv /\ AppEnds => ListsInv' /\ Lossless
<1> SUFFICES ASSUME ListsInv, AppEnds PROVE ListsInv' /\ Lossless
  OBVIOUS
<1>1. /\ launches < MaxLaunches /\ launches' = launches + 1
      /\ project' = FALSE /\ sessions' = {} /\ active' = NoSession
      /\ chat' = [cur |-> NoSession, visible |-> <<>>, bucket |-> Empty]
      /\ runs' = {} /\ boot' = "off" /\ found' = Nothing
      /\ saves' = <<>> /\ timer' = FALSE /\ writing' = <<>>
      /\ haunted' = haunted \cup (DOMAIN disk.archive \ disk.sessions)
      /\ UNCHANGED <<disk, sent, gestures, made, early>>
  BY DEF AppEnds
<1>2. launches' \in 1 .. MaxLaunches
  <2>1. launches \in 1 .. MaxLaunches /\ MaxLaunches \in Nat
    BY HistoryConstants DEF ListsInv, RestTypes
  <2> QED
    BY <1>1, <2>1
<1>3. saves' \in Seq(Saves) /\ Len(saves') <= MaxSaves
  BY <1>1, HistoryConstants
<1>4. NoSession \in Places /\ haunted' \subseteq Sessions
  BY <1>1 DEF Places, ListsInv, RestTypes, ArchiveFits
<1>5. found'.project \in BOOLEAN /\ found'.sessions = {} /\ found'.active \in Places
      /\ DOMAIN found'.archive = {}
  BY <1>1, <1>4 DEF Nothing, Empty
<1>6. \A d \in {found, disk}' :
        d.project \in BOOLEAN /\ d.sessions \subseteq Sessions /\ d.active \in Places
  BY <1>1, <1>5 DEF ListsInv, RestTypes
<1>7. RestTypes'
  BY <1>1, <1>2, <1>3, <1>4, <1>6 DEF RestTypes, ListsInv
<1>8. chat'.visible = <<>> /\ chat'.cur = NoSession /\ DOMAIN chat'.bucket = {}
  BY <1>1 DEF Empty
<1>9. Sound(chat', sent, runs') /\ Unread'
  BY <1>1, <1>4, <1>8, EmptyHeld DEF Sound, StoreShape, Unread, Apart
<1>10. ListsInv'
  BY <1>1, <1>5, <1>7, <1>9 DEF ListsInv, ArchiveFits
<1> QED
  BY <1>1, <1>10 DEF Lossless

-----------------------------------------------------------------------------
(* The launch.                                                             *)

\* A step of the launch that moves the selection at most.
LEMMA LaunchStep ==
  ASSUME ListsInv, RestTypes', boot # "up", Sound(chat', sent, runs), Carries(chat, chat', sent),
         UNCHANGED <<runs, sent, timer, disk, writing>>, found' = disk \/ found' = found,
         boot' = "archive read" => found' = disk
  PROVE  ListsInv'
<1>1. sent' = sent /\ sent' \in {sent, sent + 1}
  OBVIOUS
<1>2. ASSUME chat'.cur = NoSession PROVE Unread'
  BY <1>1, <1>2, FilesFit DEF ListsInv, Carries, Unread, Apart
<1> QED
  BY <1>2 DEF ListsInv

LEMMA SameChat == Carries(chat, chat, sent)
BY DEF Carries

LEMMA BootKeeps == ListsInv /\ Boot => ListsInv' /\ Lossless
<1> SUFFICES ASSUME ListsInv, Boot PROVE ListsInv' /\ Lossless
  OBVIOUS
<1>1. CASE ReadList
  <2>1. /\ boot = "off" /\ boot' = "list read" /\ found' = disk
        /\ UNCHANGED <<project, sessions, active, chat, runs, sent, timer, disk, saves, writing,
                       gestures, launches, made, early, haunted>>
    BY <1>1 DEF ReadList, chatSide
  <2>2. RestTypes'
    BY <2>1 DEF ListsInv, RestTypes
  <2>3. ListsInv'
    BY <2>1, <2>2, SameChat, LaunchStep DEF ListsInv
  <2> QED
    BY <2>1, <2>3 DEF Lossless
<1>2. CASE InstallList
  <2>1. /\ boot = "list read" /\ boot' = "list"
        /\ project' = (found.project \/ project)
        /\ sessions' = (IF found.project THEN found.sessions ELSE sessions)
        /\ active' = (IF found.active \in sessions' THEN found.active ELSE active)
        /\ chat' = InStep(chat, active')
        /\ UNCHANGED <<runs, sent, timer, found, disk, saves, writing, gestures, launches,
                       made, early, haunted>>
    BY <1>2 DEF InstallList
  <2>2. project' \in BOOLEAN
    BY <2>1 DEF ListsInv, RestTypes
  <2>3. active' \in Places /\ sessions' \subseteq Sessions
    BY <2>1 DEF ListsInv, RestTypes
  <2>4. RestTypes'
    BY <2>1, <2>2, <2>3 DEF ListsInv, RestTypes
  <2>5. Sound(chat', sent, runs) /\ Carries(chat, chat', sent)
    BY <2>1, <2>3, FollowsSelection DEF ListsInv
  <2>6. ListsInv'
    BY <2>1, <2>4, <2>5, LaunchStep
  <2> QED
    BY <2>1, <2>6 DEF Lossless
<1>3. CASE ReadArchive
  <2>1. /\ boot = "list" /\ boot' = "archive read" /\ found' = disk
        /\ UNCHANGED <<project, sessions, active, chat, runs, sent, timer, disk, saves, writing,
                       gestures, launches, made, early, haunted>>
    BY <1>3 DEF ReadArchive, chatSide
  <2>2. RestTypes'
    BY <2>1 DEF ListsInv, RestTypes
  <2>3. ListsInv'
    BY <2>1, <2>2, SameChat, LaunchStep DEF ListsInv
  <2> QED
    BY <2>1, <2>3 DEF Lossless
<1>4. CASE InstallArchive
  <2>1. PICK archive : archive = Scrub(found.archive)
    OBVIOUS
  <2>2. /\ boot = "archive read" /\ boot' = "up"
        /\ chat' = (IF archive = Empty THEN chat
                    ELSE [cur |-> chat.cur, bucket |-> archive,
                          visible |-> IF chat.cur \in DOMAIN archive THEN archive[chat.cur]
                                      ELSE chat.visible])
        /\ UNCHANGED <<project, sessions, active, runs, sent, timer, found, disk, saves, writing,
                       gestures, launches, made, early, haunted>>
    BY <1>4, <2>1 DEF InstallArchive
  <2>3. RestTypes'
    BY <2>2 DEF ListsInv, RestTypes
  <2>4. DOMAIN archive = DOMAIN found.archive /\ DOMAIN archive \subseteq Sessions
        /\ \A s \in DOMAIN archive : /\ Held(archive[s], s, sent, runs)
                                     /\ Ids(archive[s]) = Ids(found.archive[s])
    <3>1. DOMAIN archive = DOMAIN found.archive
          /\ \A s \in DOMAIN archive : archive[s] = SettleAll(found.archive[s])
      BY <2>1 DEF Scrub
    <3>2. DOMAIN archive \subseteq Sessions
      BY <3>1 DEF ListsInv, ArchiveFits
    <3>3. ASSUME NEW s \in DOMAIN archive
          PROVE  Held(archive[s], s, sent, runs) /\ Ids(archive[s]) = Ids(found.archive[s])
      <4>1. Fits(found.archive[s], s, sent) /\ archive[s] = SettleAll(found.archive[s])
        BY <3>1 DEF ListsInv, ArchiveFits
      <4> QED
        BY <4>1, AllSettled
    <3> QED
      BY <3>1, <3>2, <3>3
  <2>5. Sound(chat', sent, runs)
    <3>1. CASE archive = Empty
      BY <2>2, <3>1 DEF ListsInv
    <3>2. CASE archive # Empty
      <4>1. /\ chat' = [cur |-> chat'.cur, visible |-> chat'.visible, bucket |-> chat'.bucket]
            /\ chat'.cur = chat.cur /\ chat'.bucket = archive
            /\ chat'.visible = (IF chat.cur \in DOMAIN archive THEN archive[chat.cur]
                                ELSE chat.visible)
        BY <2>2, <3>2
      <4>2. Held(chat'.visible, chat.cur, sent, runs) /\ chat.cur \in Places
        BY <2>4, <4>1 DEF ListsInv, Sound, StoreShape
      <4>3. ASSUME chat.cur = NoSession, NEW s \in DOMAIN archive PROVE Apart(archive[s], chat'.visible)
        <5>1. chat'.visible = chat.visible
          BY <2>4, <4>1, <4>3, HistoryConstants
        <5>2. Apart(disk.archive[s], chat.visible) /\ found.archive = disk.archive
          BY <2>2, <2>4, <4>3 DEF ListsInv, Unread
        <5> QED
          BY <2>4, <5>1, <5>2 DEF Apart
      <4> QED
        BY <2>4, <4>1, <4>2, <4>3 DEF Sound, StoreShape
    <3> QED
      BY <3>1, <3>2
  <2>6. ListsInv'
    BY <2>2, <2>3, <2>5 DEF ListsInv
  <2> QED
    BY <2>2, <2>6 DEF Lossless
<1> QED
  BY <1>1, <1>2, <1>3, <1>4 DEF Boot

LEMMA ListsInvNext == ListsInv /\ [HistoryNext]_historyVars => ListsInv' /\ Lossless
<1> SUFFICES ASSUME ListsInv, [HistoryNext]_historyVars PROVE ListsInv' /\ Lossless
  OBVIOUS
<1>1. CASE UNCHANGED historyVars
  <2>1. UNCHANGED <<project, sessions, active, chat, runs, boot, found, disk, saves, timer,
                    writing, sent, gestures, launches, made, early, haunted>>
    BY <1>1 DEF historyVars
  <2>2. RestTypes'
    BY <2>1 DEF ListsInv, RestTypes
  <2>3. ListsInv'
    BY <2>1, <2>2 DEF ListsInv, Unread
  <2> QED
    BY <2>1, <2>3 DEF Lossless
<1>2. CASE \E s \in Sessions : StartNewSession(s) \/ ActivateSession(s) \/ DeleteSession(s)
  BY <1>2, StartNewSessionKeeps, ActivateSessionKeeps, DeleteSessionKeeps
<1>3. CASE \E s \in Places : RunAdds(s) \/ RunEnds(s)
  BY <1>3, RunAddsKeeps, RunEndsKeeps
<1>4. CASE \E i \in 1 .. MaxSaves : LandSave(i)
  BY <1>4, LandSaveKeeps
<1> QED
  BY <1>1, <1>2, <1>3, <1>4, SubmitMessageKeeps, RemoveProjectKeeps, PersistTimerKeeps,
     SnapshotLandsKeeps, AppEndsKeeps, BootKeeps DEF HistoryNext

\* The messages store, the list and the files have their types.
THEOREM HistoryTypeCorrect == HistorySpec => []HistoryTypeOK
<1>1. HistoryInit => ListsInv
  BY ListsInvInit
<1>2. ListsInv /\ [HistoryNext]_historyVars => ListsInv'
  BY ListsInvNext
<1>3. ListsInv => HistoryTypeOK
  BY ListsTyped
<1> QED
  BY <1>1, <1>2, <1>3, PTL DEF HistorySpec

\* No step takes a message from a session that stays in the list, once all is
\* restored and while the app runs: not a switch, not a run in the background,
\* not the deletion of another session.
THEOREM NoSessionLosesAMessage == HistorySpec => NoMessageLost
<1>1. HistoryInit => ListsInv
  BY ListsInvInit
<1>2. ListsInv /\ [HistoryNext]_historyVars => ListsInv' /\ Lossless
  BY ListsInvNext
<1>3. Lossless <=> (boot = "up" /\ boot' = "up" =>
        \A s \in (sessions \cap sessions') \cap DOMAIN chat.bucket :
          s \in DOMAIN chat'.bucket /\ Ids(chat.bucket[s]) \subseteq Ids(chat'.bucket[s]))
  BY DEF Lossless
<1> QED
  BY <1>1, <1>2, <1>3, PTL DEF HistorySpec, NoMessageLost

-----------------------------------------------------------------------------
(* Sessions are of the project, in the store, on disk and on the way there. *)

NoneWithout(p, ss) == ss # {} => p
Whole ==
  /\ NoneWithout(project, sessions) /\ NoneWithout(disk.project, disk.sessions)
  /\ \A i \in 1 .. Len(saves) : NoneWithout(saves[i].project, saves[i].sessions)

LEMMA WholeSaves ==
  ASSUME RestTypes, Whole, NEW parts \in SUBSET {"list", "active"}, NEW p \in BOOLEAN,
         NEW ss \in SUBSET Sessions, NEW a \in Places, Save(parts, p, ss, a), NoneWithout(p, ss)
  PROVE  \A i \in 1 .. Len(saves') : NoneWithout(saves'[i].project, saves'[i].sessions)
<1>1. PICK w : w = [parts |-> parts, project |-> p, sessions |-> ss, active |-> a]
  OBVIOUS
<1>2. w \in Saves /\ w.project = p /\ w.sessions = ss
  BY <1>1 DEF Saves
<1>3. saves \in Seq(Saves) /\ saves' = Append(saves, w)
  BY <1>1 DEF Save, RestTypes
<1>4. /\ Len(saves') = Len(saves) + 1 /\ saves'[Len(saves) + 1] = w
      /\ \A i \in 1 .. Len(saves) : saves'[i] = saves[i]
  BY <1>2, <1>3
<1>5. \A i \in 1 .. Len(saves') : i \in 1 .. Len(saves) \/ i = Len(saves) + 1
  BY <1>3, <1>4
<1> QED
  BY <1>2, <1>4, <1>5 DEF Whole

LEMMA WholeNext == ListsInv /\ Whole /\ [HistoryNext]_historyVars => Whole'
<1> SUFFICES ASSUME ListsInv, Whole, [HistoryNext]_historyVars PROVE Whole'
  OBVIOUS
<1>1. RestTypes
  BY DEF ListsInv
<1>2. ASSUME UNCHANGED <<project, sessions, saves>>,
             disk' = disk \/ disk' = [disk EXCEPT !.archive = writing[1]]
      PROVE  Whole'
  <2>1. disk'.project = disk.project /\ disk'.sessions = disk.sessions
    BY <1>1, <1>2 DEF RestTypes
  <2> QED
    BY <1>2, <2>1 DEF Whole
<1>3. CASE UNCHANGED historyVars
  BY <1>2, <1>3 DEF historyVars
<1>4. CASE SubmitMessage
  BY <1>2, <1>4 DEF SubmitMessage, diskSide
<1>5. CASE RemoveProject
  <2>1. /\ project' = FALSE /\ sessions' = {} /\ disk' = disk
        /\ Save({"list", "active"}, FALSE, {}, NoSession)
    BY <1>5 DEF RemoveProject, Gesture, diskSide
  <2>2. {} \in SUBSET Sessions /\ FALSE \in BOOLEAN /\ NoSession \in Places /\ NoneWithout(FALSE, {})
    BY DEF Places, NoneWithout
  <2>3. \A i \in 1 .. Len(saves') : NoneWithout(saves'[i].project, saves'[i].sessions)
    BY <1>1, <2>1, <2>2, WholeSaves
  <2> QED
    BY <2>1, <2>3 DEF Whole, NoneWithout
<1>6. CASE PersistTimer
  BY <1>2, <1>6 DEF PersistTimer
<1>7. CASE SnapshotLands
  BY <1>2, <1>7 DEF SnapshotLands
<1>8. CASE AppEnds
  BY <1>8 DEF AppEnds, Whole, NoneWithout
<1>9. CASE Boot
  <2>1. CASE ReadList \/ ReadArchive \/ InstallArchive
    BY <1>2, <2>1 DEF ReadList, ReadArchive, InstallArchive
  <2>2. CASE InstallList
    <3>1. /\ project' = (found.project \/ project) /\ UNCHANGED <<disk, saves>>
          /\ sessions' = (IF found.project THEN found.sessions ELSE sessions)
      BY <2>2 DEF InstallList
    <3> QED
      BY <3>1 DEF Whole, NoneWithout
  <2> QED
    BY <1>9, <2>1, <2>2 DEF Boot
<1>10. CASE \E s \in Sessions : StartNewSession(s)
  <2>1. PICK s \in Sessions : StartNewSession(s)
    BY <1>10
  <2>2. /\ project' = TRUE /\ sessions' = sessions \cup {s} /\ disk' = disk
        /\ Save({"list", "active"}, TRUE, sessions', s)
    BY <2>1 DEF StartNewSession, Gesture, diskSide
  <2>3. sessions' \in SUBSET Sessions /\ TRUE \in BOOLEAN /\ s \in Places /\ NoneWithout(TRUE, sessions')
    BY <1>1, <2>2 DEF RestTypes, Places, NoneWithout
  <2>4. \A i \in 1 .. Len(saves') : NoneWithout(saves'[i].project, saves'[i].sessions)
    BY <1>1, <2>2, <2>3, WholeSaves
  <2> QED
    BY <2>2, <2>4 DEF Whole, NoneWithout
<1>11. CASE \E s \in Sessions : ActivateSession(s)
  <2>1. PICK s \in Sessions : ActivateSession(s)
    BY <1>11
  <2>2. UNCHANGED <<project, sessions, disk>> /\ Save({"active"}, project, sessions, s)
    BY <2>1 DEF ActivateSession, Gesture, diskSide
  <2>3. sessions \in SUBSET Sessions /\ project \in BOOLEAN /\ s \in Places
        /\ NoneWithout(project, sessions)
    BY <1>1 DEF RestTypes, Places, Whole
  <2>4. \A i \in 1 .. Len(saves') : NoneWithout(saves'[i].project, saves'[i].sessions)
    BY <1>1, <2>2, <2>3, WholeSaves
  <2> QED
    BY <2>2, <2>4 DEF Whole
<1>12. CASE \E s \in Sessions : DeleteSession(s)
  <2>1. PICK s \in Sessions : DeleteSession(s)
    BY <1>12
  <2>2. /\ UNCHANGED <<project, disk>> /\ sessions' = sessions \ {s}
        /\ active' = (IF active = s THEN NoSession ELSE active)
        /\ Save({"list", "active"}, project, sessions', active')
    BY <2>1 DEF DeleteSession, Gesture, diskSide
  <2>3. sessions' \in SUBSET Sessions /\ project \in BOOLEAN /\ active' \in Places
        /\ NoneWithout(project, sessions')
    BY <1>1, <2>2 DEF RestTypes, Places, Whole, NoneWithout
  <2>4. \A i \in 1 .. Len(saves') : NoneWithout(saves'[i].project, saves'[i].sessions)
    BY <1>1, <2>2, <2>3, WholeSaves
  <2> QED
    BY <2>2, <2>3, <2>4 DEF Whole
<1>13. CASE \E s \in Places : RunAdds(s) \/ RunEnds(s)
  BY <1>2, <1>13 DEF RunAdds, RunEnds, diskSide
<1>14. CASE \E i \in 1 .. MaxSaves : LandSave(i)
  <2>1. PICK i \in 1 .. MaxSaves : LandSave(i)
    BY <1>14
  <2>2. UNCHANGED <<project, sessions>>
    BY <2>1 DEF LandSave
  <2>3. /\ \A k \in 1 .. Len(saves') : \E j \in 1 .. Len(saves) :
             saves'[k].project = saves[j].project /\ saves'[k].sessions = saves[j].sessions
        /\ \/ disk'.project = disk.project /\ disk'.sessions = disk.sessions
           \/ \E j \in 1 .. Len(saves) :
                disk'.project = saves[j].project /\ disk'.sessions = saves[j].sessions
    BY <1>1, <2>1, Landed
  <2> QED
    BY <2>2, <2>3 DEF Whole
<1> QED
  BY <1>3, <1>4, <1>5, <1>6, <1>7, <1>8, <1>9, <1>10, <1>11, <1>12, <1>13, <1>14 DEF HistoryNext

-----------------------------------------------------------------------------
(* The session in view, and what is archived of no session in the list.    *)

\* Before all is restored, of a user who waits: nothing is there but what was read.
Waiting ==
  /\ saves = <<>> /\ runs = {} /\ DOMAIN chat.bucket = {} /\ chat.visible = <<>>
  /\ DOMAIN disk.archive \ disk.sessions \subseteq haunted
  /\ boot \in {"off", "list read"} =>
       active = NoSession /\ chat.cur = NoSession /\ sessions = {}
  /\ boot = "list read" => found = disk
  /\ boot \in {"list", "archive read"} => sessions = disk.sessions

InList == active \in sessions \cup {NoSession} /\ chat.cur = active
NoStrays == (DOMAIN chat.bucket \cup (runs \ {NoSession})) \ sessions \subseteq haunted
Followed == (boot # "up" => Waiting) /\ InList /\ NoStrays

FollowInv == ListsInv /\ Whole /\ (~early => Followed)

LEMMA FollowsInit == HistoryInit => FollowInv
<1> SUFFICES ASSUME HistoryInit PROVE FollowInv
  OBVIOUS
<1>1. Whole
  BY DEF HistoryInit, Whole, NoneWithout, Nothing
<1>2. DOMAIN Empty = {} /\ disk.archive = Empty
  BY DEF HistoryInit, Empty, Nothing
<1>3. Followed
  BY <1>2 DEF HistoryInit, Followed, Waiting, InList, NoStrays
<1> QED
  BY <1>1, <1>3, ListsInvInit DEF FollowInv

\* Gestures, of a user who waited until all was restored.
LEMMA GestureWaits ==
  ASSUME ~early', early' = (early \/ boot # "up"), boot' = boot, early \in BOOLEAN
  PROVE  ~early /\ boot = "up" /\ boot' = "up"
OBVIOUS

LEMMA StartNewSessionFollows ==
  ASSUME FollowInv, NEW s \in Sessions, StartNewSession(s), ~early'
  PROVE  Followed'
<1>1. /\ sessions' = sessions \cup {s} /\ active' = s /\ chat' = InStep(chat, s) /\ haunted' = haunted
      /\ early' = (early \/ boot # "up") /\ runs' = runs /\ boot' = boot
  BY DEF StartNewSession, Gesture, diskSide
<1>2. Sound(chat, sent, runs) /\ s \in Places /\ early \in BOOLEAN
  BY DEF FollowInv, ListsInv, RestTypes, Places
<1>3. ~early /\ boot' = "up" /\ InList /\ NoStrays
  BY <1>1, <1>2, GestureWaits DEF FollowInv, Followed
<1>4. /\ chat'.cur = (IF s = active THEN chat.cur ELSE s)
      /\ DOMAIN chat'.bucket
           \subseteq DOMAIN chat.bucket \cup ({chat.cur} \ {NoSession})
                                     \cup (IF chat.visible = <<>> THEN {} ELSE {s} \ {NoSession})
  BY <1>1, <1>2, FollowsSelection
<1>5. InList'
  BY <1>1, <1>3, <1>4 DEF InList
<1>6. NoStrays'
  BY <1>1, <1>3, <1>4 DEF InList, NoStrays
<1> QED
  BY <1>3, <1>5, <1>6 DEF Followed

LEMMA ActivateSessionFollows ==
  ASSUME FollowInv, NEW s \in Sessions, ActivateSession(s), ~early'
  PROVE  Followed'
<1>1. /\ s \in sessions /\ sessions' = sessions /\ active' = s /\ chat' = InStep(chat, s)
      /\ haunted' = haunted
      /\ early' = (early \/ boot # "up") /\ runs' = runs /\ boot' = boot
  BY DEF ActivateSession, Gesture, diskSide
<1>2. Sound(chat, sent, runs) /\ s \in Places /\ early \in BOOLEAN
  BY DEF FollowInv, ListsInv, RestTypes, Places
<1>3. ~early /\ boot' = "up" /\ InList /\ NoStrays
  BY <1>1, <1>2, GestureWaits DEF FollowInv, Followed
<1>4. /\ chat'.cur = (IF s = active THEN chat.cur ELSE s)
      /\ DOMAIN chat'.bucket
           \subseteq DOMAIN chat.bucket \cup ({chat.cur} \ {NoSession})
                                     \cup (IF chat.visible = <<>> THEN {} ELSE {s} \ {NoSession})
  BY <1>1, <1>2, FollowsSelection
<1>5. InList'
  BY <1>1, <1>3, <1>4 DEF InList
<1>6. NoStrays'
  BY <1>1, <1>3, <1>4 DEF InList, NoStrays
<1> QED
  BY <1>3, <1>5, <1>6 DEF Followed

LEMMA DeleteSessionFollows ==
  ASSUME FollowInv, NEW s \in Sessions, DeleteSession(s), ~early'
  PROVE  Followed'
<1>1. /\ sessions' = sessions \ {s} /\ active' = (IF active = s THEN NoSession ELSE active)
      /\ chat' = ForgetSessions(InStep(chat, active'), {s})
      /\ haunted' = haunted \cup ({s} \cap runs)
      /\ early' = (early \/ boot # "up") /\ runs' = runs /\ boot' = boot
  BY DEF DeleteSession, Gesture, diskSide
<1>2. Sound(chat, sent, runs) /\ early \in BOOLEAN /\ active' \in Places /\ NoSession \notin Sessions
  BY <1>1, HistoryConstants DEF FollowInv, ListsInv, RestTypes, Places
<1>3. ~early /\ boot' = "up" /\ InList /\ NoStrays
  BY <1>1, <1>2, GestureWaits DEF FollowInv, Followed
<1>4. PICK d : d = InStep(chat, active')
  OBVIOUS
<1>5. /\ d.cur = (IF active' = active THEN chat.cur ELSE active') /\ Sound(d, sent, runs)
      /\ DOMAIN d.bucket
           \subseteq DOMAIN chat.bucket \cup ({chat.cur} \ {NoSession})
                                     \cup (IF chat.visible = <<>> THEN {} ELSE {active'} \ {NoSession})
  BY <1>2, <1>4, FollowsSelection
<1>6. chat'.cur = (IF d.cur \in {s} THEN NoSession ELSE d.cur)
      /\ DOMAIN chat'.bucket = DOMAIN d.bucket \ {s}
  BY <1>1, <1>4, <1>5, Forgets
<1>7. InList'
  BY <1>1, <1>2, <1>3, <1>5, <1>6 DEF InList
<1>8. NoStrays'
  BY <1>1, <1>2, <1>3, <1>5, <1>6 DEF InList, NoStrays
<1> QED
  BY <1>3, <1>7, <1>8 DEF Followed

LEMMA RemoveProjectFollows ==
  ASSUME FollowInv, RemoveProject, ~early'
  PROVE  Followed'
<1>1. /\ sessions' = {} /\ active' = NoSession
      /\ chat' = InStep(ForgetSessions(chat, sessions), NoSession)
      /\ haunted' = haunted \cup (sessions \cap runs)
      /\ early' = (early \/ boot # "up") /\ runs' = runs /\ boot' = boot
  BY DEF RemoveProject, Gesture, diskSide
<1>2. Sound(chat, sent, runs) /\ early \in BOOLEAN /\ NoSession \in Places
      /\ sessions \in SUBSET Sessions
  BY DEF FollowInv, ListsInv, RestTypes, Places
<1>3. ~early /\ boot' = "up" /\ InList /\ NoStrays
  BY <1>1, <1>2, GestureWaits DEF FollowInv, Followed
<1>4. PICK d : d = ForgetSessions(chat, sessions)
  OBVIOUS
<1>5. /\ d.cur = (IF chat.cur \in sessions THEN NoSession ELSE chat.cur) /\ Sound(d, sent, runs)
      /\ DOMAIN d.bucket = DOMAIN chat.bucket \ sessions
  BY <1>2, <1>4, Forgets
<1>6. chat'.cur = (IF NoSession = active THEN d.cur ELSE NoSession)
      /\ DOMAIN chat'.bucket
           \subseteq DOMAIN d.bucket \cup ({d.cur} \ {NoSession})
                                  \cup (IF d.visible = <<>> THEN {} ELSE {NoSession} \ {NoSession})
  BY <1>1, <1>2, <1>4, <1>5, FollowsSelection
<1>7. d.cur = NoSession
  BY <1>3, <1>5 DEF InList
<1>8. InList'
  BY <1>1, <1>6, <1>7 DEF InList
<1>9. NoStrays'
  BY <1>1, <1>3, <1>5, <1>6, <1>7 DEF InList, NoStrays
<1> QED
  BY <1>3, <1>8, <1>9 DEF Followed

\* A run's step: its session, if it is not in the list, is haunted already.
LEMMA RunFollows ==
  ASSUME FollowInv, ~early, boot = "up", NEW t \in Places, t = chat.cur \/ t \in runs,
         runs' \subseteq runs \cup {t}, chat'.cur = chat.cur,
         DOMAIN chat'.bucket = DOMAIN chat.bucket \cup ({t} \ {NoSession}),
         UNCHANGED <<sessions, active, boot, haunted>>
  PROVE  Followed'
<1>1. InList /\ NoStrays
  BY DEF FollowInv, Followed
<1>2. InList' /\ ({t} \ {NoSession}) \ sessions \subseteq haunted
  BY <1>1 DEF InList, NoStrays
<1>3. NoStrays'
  BY <1>1, <1>2 DEF NoStrays
<1> QED
  BY <1>2, <1>3 DEF Followed

LEMMA LaunchFollows ==
  ASSUME FollowInv, Boot, ~early'
  PROVE  Followed'
<1>0. UNCHANGED <<runs, disk, saves, early, haunted>>
  BY DEF Boot, ReadList, InstallList, ReadArchive, InstallArchive, chatSide
<1>1. ~early /\ UNCHANGED <<runs, disk, saves, haunted>>
  BY <1>0
<1>2. boot # "up"
  BY DEF Boot, ReadList, InstallList, ReadArchive, InstallArchive
<1>3. InList /\ NoStrays /\ Waiting
  BY <1>1, <1>2 DEF FollowInv, Followed
<1>4. CASE ReadList
  <2>1. boot = "off" /\ boot' = "list read" /\ found' = disk
        /\ UNCHANGED <<sessions, active, chat>>
    BY <1>4 DEF ReadList, chatSide
  <2> QED
    BY <1>1, <1>3, <2>1 DEF Followed, InList, NoStrays, Waiting
<1>5. CASE InstallList
  <2>1. /\ boot = "list read" /\ boot' = "list"
        /\ sessions' = (IF found.project THEN found.sessions ELSE sessions)
        /\ active' = (IF found.active \in sessions' THEN found.active ELSE active)
        /\ chat' = InStep(chat, active')
    BY <1>5 DEF InstallList
  <2>2. found = disk /\ active = NoSession /\ chat.cur = NoSession /\ sessions = {}
        /\ DOMAIN chat.bucket = {} /\ chat.visible = <<>>
    BY <1>3, <2>1 DEF Waiting
  <2>3. sessions' = disk.sessions
    BY <2>1, <2>2 DEF FollowInv, Whole, NoneWithout
  <2>4. active' \in sessions' \cup {NoSession}
    BY <2>1, <2>2
  <2>5. chat'.cur = active' /\ DOMAIN chat'.bucket = {} /\ chat'.visible = <<>>
    <3>1. CASE active' = NoSession
      BY <2>1, <2>2, <3>1 DEF InStep
    <3>2. CASE active' # NoSession
      <4>1. chat' = LoadSession(chat, active')
        BY <2>1, <2>2, <3>2 DEF InStep
      <4> QED
        BY <2>2, <4>1 DEF LoadSession
    <3> QED
      BY <3>1, <3>2
  <2> QED
    BY <1>1, <1>3, <2>1, <2>3, <2>4, <2>5 DEF Followed, InList, NoStrays, Waiting
<1>6. CASE ReadArchive
  <2>1. boot = "list" /\ boot' = "archive read" /\ UNCHANGED <<sessions, active, chat>>
    BY <1>6 DEF ReadArchive, chatSide
  <2> QED
    BY <1>1, <1>3, <2>1 DEF Followed, InList, NoStrays, Waiting
<1>7. CASE InstallArchive
  <2>1. PICK archive : archive = Scrub(found.archive)
    OBVIOUS
  <2>2. /\ boot = "archive read" /\ boot' = "up" /\ UNCHANGED <<sessions, active>>
        /\ chat' = (IF archive = Empty THEN chat
                    ELSE [cur |-> chat.cur, bucket |-> archive,
                          visible |-> IF chat.cur \in DOMAIN archive THEN archive[chat.cur]
                                      ELSE chat.visible])
    BY <1>7, <2>1 DEF InstallArchive
  <2>3. DOMAIN archive = DOMAIN disk.archive
    BY <2>1, <2>2 DEF Scrub, FollowInv, ListsInv
  <2>4. chat'.cur = chat.cur /\ DOMAIN chat'.bucket \subseteq DOMAIN chat.bucket \cup DOMAIN disk.archive
    BY <2>2, <2>3
  <2> QED
    BY <1>1, <1>3, <2>2, <2>4 DEF Followed, InList, NoStrays, Waiting
<1> QED
  BY <1>4, <1>5, <1>6, <1>7 DEF Boot

LEMMA FollowInvNext == FollowInv /\ [HistoryNext]_historyVars => FollowInv'
<1> SUFFICES ASSUME FollowInv, [HistoryNext]_historyVars, ~early' PROVE Followed'
  BY ListsInvNext, WholeNext DEF FollowInv
<1>1. ListsInv /\ RestTypes /\ early \in BOOLEAN
  BY DEF FollowInv, ListsInv, RestTypes
<1>2. ~early => Followed
  BY DEF FollowInv
<1>3. CASE UNCHANGED historyVars
  BY <1>2, <1>3 DEF historyVars, Followed, Waiting, InList, NoStrays
<1>4. CASE SubmitMessage
  <2>1. /\ sent < MaxMessages /\ sent' = sent + 1 /\ runs' = runs \cup {chat.cur}
        /\ chat' = ApplyToSession(chat, chat.cur, Append(ListOf(chat, chat.cur), New(chat.cur, TRUE)))
        /\ early' = (early \/ boot # "up") /\ UNCHANGED <<sessions, active, boot, haunted>>
    BY <1>4 DEF SubmitMessage, diskSide
  <2>2. ~early /\ boot = "up" /\ chat.cur \in Places
    BY <1>1, <2>1, GestureWaits DEF ListsInv, Sound, StoreShape
  <2>3. chat'.cur = chat.cur /\ DOMAIN chat'.bucket = DOMAIN chat.bucket \cup ({chat.cur} \ {NoSession})
    BY <1>1, <2>1, <2>2, AddKeeps DEF Added
  <2> QED
    BY <2>1, <2>2, <2>3, RunFollows
<1>5. CASE \E s \in Places : RunAdds(s)
  <2>1. PICK s \in Places : RunAdds(s)
    BY <1>5
  <2>2. /\ s \in runs /\ sent < MaxMessages /\ sent' = sent + 1 /\ runs' = runs
        /\ chat' = ApplyToSession(chat, s, BeforeAnswer(ListOf(chat, s), New(s, TRUE)))
        /\ UNCHANGED <<sessions, active, boot, early, haunted>>
    BY <2>1 DEF RunAdds, diskSide, Target
  <2>3. ~early /\ boot = "up" /\ runs' = runs \cup {s} /\ runs' \subseteq runs \cup {s}
    BY <1>2, <2>2 DEF Followed, Waiting
  <2>4. chat'.cur = chat.cur /\ DOMAIN chat'.bucket = DOMAIN chat.bucket \cup ({s} \ {NoSession})
    BY <1>1, <2>2, <2>3, AddKeeps DEF Added
  <2> QED
    BY <2>2, <2>3, <2>4, RunFollows
<1>6. CASE \E s \in Places : RunEnds(s)
  <2>1. PICK s \in Places : RunEnds(s)
    BY <1>6
  <2>2. /\ s \in runs /\ runs' = runs \ {s}
        /\ chat' = ApplyToSession(chat, s, SettleAll(ListOf(chat, s)))
        /\ UNCHANGED <<sessions, active, boot, early, haunted>>
    BY <2>1 DEF RunEnds, diskSide, Target
  <2>3. ~early /\ boot = "up" /\ runs' \subseteq runs \cup {s}
    BY <1>2, <2>2 DEF Followed, Waiting
  <2>4. chat'.cur = chat.cur /\ DOMAIN chat'.bucket = DOMAIN chat.bucket \cup ({s} \ {NoSession})
    BY <1>1, <2>2, EndKeeps
  <2> QED
    BY <2>2, <2>3, <2>4, RunFollows
<1>7. CASE \E s \in Sessions : StartNewSession(s) \/ ActivateSession(s) \/ DeleteSession(s)
  BY <1>7, StartNewSessionFollows, ActivateSessionFollows, DeleteSessionFollows
<1>8. CASE RemoveProject
  BY <1>8, RemoveProjectFollows
<1>9. CASE \E i \in 1 .. MaxSaves : LandSave(i)
  <2>1. PICK i \in 1 .. MaxSaves : LandSave(i)
    BY <1>9
  <2>2. UNCHANGED <<sessions, active, chat, runs, boot, early, haunted>> /\ i \in DOMAIN saves
    BY <2>1 DEF LandSave, chatSide
  <2>3. ~early /\ saves # <<>>
    BY <2>2
  <2>4. boot = "up"
    BY <1>2, <2>3 DEF Followed, Waiting
  <2> QED
    BY <1>2, <2>2, <2>3, <2>4 DEF Followed, InList, NoStrays
<1>10. CASE PersistTimer \/ SnapshotLands
  <2>1. UNCHANGED <<sessions, active, chat, runs, boot, early, haunted>>
    BY <1>10 DEF PersistTimer, SnapshotLands, chatSide
  <2>2. boot = "up"
    BY <1>1, <1>10 DEF PersistTimer, SnapshotLands, ListsInv
  <2> QED
    BY <1>2, <2>1, <2>2 DEF Followed, InList, NoStrays
<1>11. CASE AppEnds
  <2>1. /\ sessions' = {} /\ active' = NoSession /\ chat'.cur = NoSession /\ chat'.visible = <<>>
        /\ DOMAIN chat'.bucket = {} /\ runs' = {} /\ boot' = "off" /\ saves' = <<>> /\ disk' = disk
        /\ haunted' = haunted \cup (DOMAIN disk.archive \ disk.sessions)
    BY <1>11 DEF AppEnds, Empty
  <2> QED
    BY <2>1 DEF Followed, Waiting, InList, NoStrays
<1>12. CASE Boot
  BY <1>12, LaunchFollows
<1> QED
  BY <1>3, <1>4, <1>5, <1>6, <1>7, <1>8, <1>9, <1>10, <1>11, <1>12 DEF HistoryNext

-----------------------------------------------------------------------------
(* What the invariant says of the conversations.                           *)

LEMMA AllHeld ==
  ASSUME ListsInv, NEW msgs \in Holders
  PROVE  \E p \in Places : Held(msgs, p, sent, runs)
<1>1. CASE msgs = chat.visible
  BY <1>1 DEF ListsInv, Sound, StoreShape
<1>2. CASE \E s \in DOMAIN chat.bucket : msgs = chat.bucket[s]
  BY <1>2 DEF ListsInv, Sound, StoreShape, Places
<1> QED
  BY <1>1, <1>2 DEF Holders

LEMMA OnceEach ==
  ASSUME NEW msgs, NEW p, NEW n, Fits(msgs, p, n)
  PROVE  Cardinality(Ids(msgs)) = Len(msgs)
<1>1. msgs \in Seq(Message) /\ Len(msgs) \in Nat
  BY DEF Fits
<1>2. PICK f : f = [i \in 1 .. Len(msgs) |-> msgs[i].id]
  OBVIOUS
<1>3. f \in Bijection(1 .. Len(msgs), Ids(msgs))
  <2>1. f \in [1 .. Len(msgs) -> Ids(msgs)]
    BY <1>1, <1>2, IdsOf
  <2>2. \A i, j \in 1 .. Len(msgs) : f[i] = f[j] => i = j
    BY <1>2 DEF Fits
  <2>3. \A x \in Ids(msgs) : \E i \in 1 .. Len(msgs) : f[i] = x
    BY <1>1, <1>2, IdsOf
  <2> QED
    BY <2>1, <2>2, <2>3 DEF Bijection, Injection, Surjection, IsInjective
<1>4. IsFiniteSet(1 .. Len(msgs)) /\ Cardinality(1 .. Len(msgs)) = Len(msgs)
  <2>1. 1 .. Len(msgs) = 1 .. Len(msgs) /\ 1 \in Int /\ Len(msgs) \in Int
    BY <1>1
  <2> QED
    BY <1>1, <2>1, FS_Interval
<1> QED
  BY <1>3, <1>4, FS_Bijection DEF ExistsBijection

LEMMA FollowInvSafe == FollowInv => HistorySafe
<1> SUFFICES ASSUME FollowInv PROVE HistorySafe
  OBVIOUS
<1>1. ListsInv
  BY DEF FollowInv
<1>2. Mirror
  BY <1>1 DEF ListsInv, Sound, Mirror
<1>3. OwnMessages
  <2>1. ASSUME NEW s \in DOMAIN chat.bucket, NEW i \in DOMAIN chat.bucket[s]
        PROVE  chat.bucket[s][i].owner \in {s, NoSession}
    <3>1. PICK msgs : msgs = chat.bucket[s]
      OBVIOUS
    <3>2. Fits(msgs, s, sent)
      BY <1>1, <3>1 DEF ListsInv, Sound, Held
    <3>3. i \in 1 .. Len(msgs)
      BY <2>1, <3>1, <3>2 DEF Fits
    <3> QED
      BY <3>1, <3>2, <3>3 DEF Fits
  <2> QED
    BY <2>1 DEF OwnMessages
<1>4. LiveHasRun
  <2>1. ASSUME NEW msgs \in Holders, NEW i \in DOMAIN msgs, msgs[i].live
        PROVE  msgs[i].owner \in runs \cup {NoSession}
    <3>1. PICK p \in Places : Held(msgs, p, sent, runs)
      BY <1>1, AllHeld
    <3>2. i \in 1 .. Len(msgs)
      BY <2>1, <3>1 DEF Held, Fits
    <3> QED
      BY <2>1, <3>1, <3>2 DEF Held, Pulse
  <2> QED
    BY <2>1 DEF LiveHasRun
<1>5. KeptOnce
  <2>1. ASSUME NEW msgs \in Holders PROVE Cardinality(Ids(msgs)) = Len(msgs)
    BY <1>1, AllHeld, OnceEach DEF Held
  <2> QED
    BY <2>1 DEF KeptOnce
<1>6. DeletedIsForgotten
  BY DEF DeletedIsForgotten, FollowInv, Followed, NoStrays
<1>7. ViewFollows
  BY DEF ViewFollows, FollowInv, Followed, InList
<1> QED
  BY <1>2, <1>3, <1>4, <1>5, <1>6, <1>7 DEF HistorySafe

\* A session has its own messages, none twice, those on screen are those kept of
\* the session in view, what pulses has a run, and of a user who waits for the
\* launch the session in view is one of the list and no other is archived but
\* those a run was still writing into.
THEOREM SessionsKeepTheirOwn == HistorySpec => []HistorySafe
<1>1. HistoryInit => FollowInv
  BY FollowsInit
<1>2. FollowInv /\ [HistoryNext]_historyVars => FollowInv'
  BY FollowInvNext
<1>3. FollowInv => HistorySafe
  BY FollowInvSafe
<1> QED
  BY <1>1, <1>2, <1>3, PTL DEF HistorySpec
-----------------------------------------------------------------------------
(* The compiled agents.                                                    *)

Steps == {"idle", "node", "bundle", "replace", "collect", "discard"} \cup NodeFiles
ACompile == [at : Steps, spec : Bundles \cup {NoBundle}, todo : SUBSET Nodes, doomed : SUBSET Bundles]
CompilerShape == CompilerTypeOK /\ compile \in [Compiles -> ACompile]

\* There is a first node wherever there is one.
LEMMA FirstIsOne == \A S \in SUBSET Nodes : S # {} => First(S) \in S
<1> SUFFICES ASSUME NEW S \in SUBSET Nodes, S # {} PROVE First(S) \in S
  OBVIOUS
<1>1. S \subseteq Nat
  BY CompilerConstants
<1> DEFINE Less == OpToRel(<, Nat)
<1>2. PICK n \in S : \A m \in S : ~(<<m, n>> \in Less)
  BY <1>1, WFMin, NatLessThanWellFounded
<1>3. \A m \in S : n <= m
  <2>1. \A m \in Nat : m < n => <<m, n>> \in Less
    BY <1>1 DEF OpToRel
  <2> HIDE DEF Less
  <2>2. \A m \in S : ~(m < n)
    BY <1>1, <1>2, <2>1
  <2> QED
    BY <1>1, <2>2
<1> QED
  BY <1>3 DEF First

LEMMA BundleParts == \A b \in Bundles : b.task \in TaskTypes /\ b.nodes \subseteq Nodes /\ b # NoBundle
BY CompilerConstants DEF Bundles

LEMMA CompilerShapeBegins == CompilerInit => CompilerShape
<1> SUFFICES ASSUME CompilerInit PROVE CompilerShape
  OBVIOUS
<1>1. NoCompile \in ACompile
  BY DEF NoCompile, ACompile, Steps
<1>2. 0 \in 0 .. MaxCompiles /\ 0 \in 0 .. MaxDeaths
  BY CompilerConstants
<1>3. compile \in [Compiles -> ACompile] /\ \A p \in Compiles : compile[p] = NoCompile
  BY <1>1 DEF CompilerInit
<1> QED
  BY <1>1, <1>2, <1>3 DEF CompilerInit, CompilerShape, CompilerTypeOK, ACompile, Steps, Unjudged

\* A step of one compile leaves what a compile is.
LEMMA CompileMoves ==
  ASSUME CompilerShape, NEW p \in Compiles, NEW c \in ACompile, compile' = [compile EXCEPT ![p] = c],
         nodeStore' \in [Nodes -> SUBSET NodeFiles], bundles' \in [Bundles -> SUBSET BundleFiles],
         judged'.edges \subseteq Nodes \X Nodes, judged'.refused \in BOOLEAN,
         handed' \in Bundles \cup {NoBundle}, swept' \in BOOLEAN,
         asked' \in 0 .. MaxCompiles, deaths' \in 0 .. MaxDeaths, torn' \subseteq Bundles
  PROVE  CompilerShape'
<1>1. compile' \in [Compiles -> ACompile]
  BY DEF CompilerShape
<1>2. \A q \in Compiles : compile'[q] \in ACompile
  BY <1>1
<1> QED
  BY <1>1, <1>2 DEF CompilerShape, CompilerTypeOK, ACompile, Steps

LEMMA CompilerShapeStep ==
  ASSUME CompilerShape, [CompilerNext]_compilerVars PROVE CompilerShape'
<1> USE DEF Working, Unjudged
<1>t. /\ nodeStore \in [Nodes -> SUBSET NodeFiles] /\ bundles \in [Bundles -> SUBSET BundleFiles]
      /\ judged.edges \subseteq Nodes \X Nodes /\ judged.refused \in BOOLEAN
      /\ handed \in Bundles \cup {NoBundle} /\ swept \in BOOLEAN
      /\ asked \in 0 .. MaxCompiles /\ deaths \in 0 .. MaxDeaths /\ torn \subseteq Bundles
      /\ compile \in [Compiles -> ACompile]
  BY DEF CompilerShape, CompilerTypeOK
<1>c. ASSUME NEW p \in Compiles
      PROVE  /\ compile[p] \in ACompile /\ compile[p].at \in Steps
             /\ compile[p].spec \in Bundles \cup {NoBundle}
             /\ compile[p].todo \subseteq Nodes /\ compile[p].doomed \subseteq Bundles
  BY <1>t DEF ACompile
<1>1. ASSUME NEW p \in Compiles, StartCompile(p) PROVE CompilerShape'
  <2>1. PICK b \in Bundles : \E edges \in Graphs(b.nodes) :
          /\ judged' = BuildIr(b.nodes, edges)
          /\ compile' = IF BuildIr(b.nodes, edges).refused \/ b \in Manifests THEN compile
                        ELSE [compile EXCEPT ![p] = [at |-> "node", spec |-> b,
                                                     todo |-> b.nodes, doomed |-> {}]]
          /\ handed' \in {b, NoBundle}
    BY <1>1 DEF StartCompile
  <2>2. PICK edges \in Graphs(b.nodes) :
          /\ judged' = BuildIr(b.nodes, edges)
          /\ compile' = IF BuildIr(b.nodes, edges).refused \/ b \in Manifests THEN compile
                        ELSE [compile EXCEPT ![p] = [at |-> "node", spec |-> b,
                                                     todo |-> b.nodes, doomed |-> {}]]
    BY <2>1
  <2>3. b.nodes \subseteq Nodes
    BY BundleParts
  <2>4. judged'.edges \subseteq Nodes \X Nodes /\ judged'.refused \in BOOLEAN
    BY <2>2, <2>3 DEF BuildIr, Graphs
  <2>5. PICK c \in ACompile : compile' = [compile EXCEPT ![p] = c]
    <3>1. [at |-> "node", spec |-> b, todo |-> b.nodes, doomed |-> {}] \in ACompile
      BY <2>3 DEF ACompile, Steps
    <3>2. compile = [compile EXCEPT ![p] = compile[p]]
      BY <1>t
    <3> QED
      BY <2>2, <3>1, <3>2, <1>c
  <2>6. asked' \in 0 .. MaxCompiles
    BY <1>1, <1>t, CompilerConstants DEF StartCompile
  <2>7. /\ swept' = FALSE /\ nodeStore' = nodeStore /\ bundles' = bundles /\ deaths' = deaths
        /\ torn' = torn
    BY <1>1 DEF StartCompile
  <2> QED
    BY <1>t, <2>1, <2>4, <2>5, <2>6, <2>7, CompileMoves
<1>2. ASSUME NEW p \in Compiles, NextNode(p) PROVE CompilerShape'
  <2>1. PICK c \in ACompile : compile' = [compile EXCEPT ![p] = c]
    BY <1>2, <1>c, <1>t DEF NextNode, ACompile, Steps, NodeFiles
  <2> QED
    BY <1>2, <1>t, <2>1, CompileMoves DEF NextNode
<1>3. ASSUME NEW p \in Compiles, WriteNode(p) PROVE CompilerShape'
  <2>1. PICK c \in ACompile : compile' = [compile EXCEPT ![p] = c]
    BY <1>3, <1>c, <1>t DEF WriteNode, ACompile, Steps, NodeFiles
  <2>2. nodeStore' \in [Nodes -> SUBSET NodeFiles]
    BY <1>3, <1>t DEF WriteNode
  <2> QED
    BY <1>3, <1>t, <2>1, <2>2, CompileMoves DEF WriteNode
<1>4. ASSUME NEW p \in Compiles, WriteBundle(p) PROVE CompilerShape'
  <2>1. PICK c \in ACompile : compile' = [compile EXCEPT ![p] = c]
    <3>1. CASE compile' = compile
      BY <3>1, <1>c, <1>t
    <3>2. CASE compile' # compile
      BY <3>2, <1>4, <1>c, <1>t DEF WriteBundle, ACompile, Steps
    <3> QED
      BY <3>1, <3>2
  <2>2. bundles' \in [Bundles -> SUBSET BundleFiles]
    BY <1>4, <1>t DEF WriteBundle, BundleFiles
  <2> QED
    BY <1>4, <1>t, <2>1, <2>2, CompileMoves DEF WriteBundle
<1>5. ASSUME NEW p \in Compiles, RemoveBundle(p) PROVE CompilerShape'
  <2>1. PICK b \in compile[p].doomed :
          /\ \E file \in bundles[b] : bundles' = [bundles EXCEPT ![b] = @ \ {file}]
          /\ compile' = [compile EXCEPT ![p].doomed = IF bundles'[b] = {} THEN @ \ {b} ELSE @]
          /\ torn' = IF bundles'[b] = {} THEN torn \ {b} ELSE torn
    BY <1>5 DEF RemoveBundle
  <2>2. PICK c \in ACompile : compile' = [compile EXCEPT ![p] = c]
    <3>1. PICK D \in SUBSET Bundles : compile' = [compile EXCEPT ![p].doomed = D]
      BY <2>1, <1>c, <1>t
    <3>2. [compile[p] EXCEPT !.doomed = D] \in ACompile
      BY <1>c DEF ACompile
    <3> QED
      BY <3>1, <3>2, <1>t
  <2>3. bundles' \in [Bundles -> SUBSET BundleFiles]
    BY <2>1, <1>t, <1>c
  <2> QED
    BY <1>5, <1>t, <2>1, <2>2, <2>3, CompileMoves DEF RemoveBundle
<1>6. ASSUME NEW p \in Compiles, Collect(p) PROVE CompilerShape'
  <2>1. PICK c \in ACompile : compile' = [compile EXCEPT ![p] = c]
    BY <1>6, <1>c, <1>t DEF Collect, ACompile, Steps
  <2> QED
    BY <1>6, <1>t, <2>1, CompileMoves DEF Collect
<1>7. ASSUME NEW p \in Compiles, RemoveNode(p) PROVE CompilerShape'
  <2>1. PICK n \in compile[p].todo :
          /\ \E file \in nodeStore[n] : nodeStore' = [nodeStore EXCEPT ![n] = @ \ {file}]
          /\ compile' = [compile EXCEPT ![p].todo = IF nodeStore'[n] = {} THEN @ \ {n} ELSE @]
    BY <1>7 DEF RemoveNode
  <2>2. PICK c \in ACompile : compile' = [compile EXCEPT ![p] = c]
    BY <2>1, <1>c, <1>t DEF ACompile
  <2>3. nodeStore' \in [Nodes -> SUBSET NodeFiles]
    BY <2>1, <1>t, <1>c
  <2> QED
    BY <1>7, <1>t, <2>1, <2>2, <2>3, CompileMoves DEF RemoveNode
<1>8. ASSUME NEW p \in Compiles, Return(p) PROVE CompilerShape'
  <2>1. NoCompile \in ACompile
    BY DEF NoCompile, ACompile, Steps
  <2> QED
    BY <1>8, <1>t, <1>c, <2>1, CompileMoves DEF Return
<1>9. CASE AppDies
  <2>1. compile' = [q \in Compiles |-> NoCompile] /\ NoCompile \in ACompile
    BY <1>9 DEF AppDies, NoCompile, ACompile, Steps
  <2>2. torn' \subseteq Bundles
    <3>1. \A q \in Compiles : compile[q].doomed \subseteq Bundles
      BY <1>c
    <3> QED
      BY <1>9, <1>t, <3>1 DEF AppDies
  <2>3. deaths' \in 0 .. MaxDeaths
    BY <1>9, <1>t, CompilerConstants DEF AppDies
  <2> QED
    BY <1>9, <1>t, <2>1, <2>2, <2>3 DEF AppDies, CompilerShape, CompilerTypeOK, ACompile, Steps
<1>10. CASE UNCHANGED compilerVars
  BY <1>10 DEF compilerVars, CompilerShape, CompilerTypeOK
<1> QED
  BY <1>1, <1>2, <1>3, <1>4, <1>5, <1>6, <1>7, <1>8, <1>9, <1>10 DEF CompilerNext

\* Where one compile is under way at a time, what it has reached: the nodes it has
\* gone through are complete; once its bundle is whole, the bundles it replaces
\* are those that are to go, and then the nodes that no manifest refers to.
OneCompile == \A p, q \in Compiles : p = q
Generating(c) ==
  /\ c.at \in {"node"} \cup NodeFiles =>
       c.todo \subseteq c.spec.nodes /\ \A n \in c.spec.nodes \ c.todo : Complete(n)
  /\ c.at \in NodeFiles => c.todo # {}
  /\ c.at \in {"grammar", "protocol"} => "prompt" \in nodeStore[First(c.todo)]
  /\ c.at = "protocol" => "grammar" \in nodeStore[First(c.todo)]
  /\ c.at = "bundle" => \A n \in c.spec.nodes : Complete(n)
Sweeping(c) ==
  /\ c.at \in {"replace", "discard"} => bundles[c.spec] = BundleFiles
  /\ c.at = "replace" =>
       /\ c.spec \notin c.doomed
       /\ \A b \in Bundles : b.task = c.spec.task /\ b # c.spec /\ bundles[b] # {} => b \in c.doomed
  /\ c.at = "discard" =>
       /\ \A b \in Bundles : b.task = c.spec.task /\ b # c.spec => bundles[b] = {}
       /\ \A n \in Nodes : nodeStore[n] # {} /\ n \notin Referenced => n \in c.todo
       /\ c.todo \cap Referenced = {}
UnderWay(c) ==
  c.at # "idle" => c.spec \in Bundles /\ handed = NoBundle /\ ~swept

\* A manifest's bundle is whole, or the app died removing it, or it is being removed.
Going(b) == \E p \in Compiles : compile[p].at = "replace" /\ b \in compile[p].doomed
WholeOrTorn == \A b \in Manifests : b \notin torn => bundles[b] = BundleFiles \/ Going(b)

StoreInv ==
  /\ CompilerShape
  /\ \A p \in Compiles : UnderWay(compile[p]) /\ Generating(compile[p]) /\ Sweeping(compile[p])
  /\ WholeOrTorn /\ StoreSafe

LEMMA ArtifactsBegin == CompilerInit => StoreInv
<1> SUFFICES ASSUME CompilerInit PROVE StoreInv
  OBVIOUS
<1>1. Manifests = {} /\ \A p \in Compiles : compile[p].at = "idle"
  BY DEF CompilerInit, Manifests, NoCompile
<1>2. \A p \in Compiles : UnderWay(compile[p]) /\ Generating(compile[p]) /\ Sweeping(compile[p])
  BY <1>1 DEF UnderWay, Generating, Sweeping, NodeFiles
<1>3. StoreSafe
  BY <1>1 DEF CompilerInit, StoreSafe, ManifestBacked, HandedWhole, NothingLeftOver
<1> QED
  BY <1>1, <1>2, <1>3, CompilerShapeBegins DEF StoreInv, WholeOrTorn

LEMMA ArtifactsStep ==
  ASSUME OneCompile, StoreInv, [CompilerNext]_compilerVars PROVE StoreInv'
<1>s. CompilerShape /\ CompilerShape'
  BY CompilerShapeStep DEF StoreInv
<1>t. /\ nodeStore \in [Nodes -> SUBSET NodeFiles] /\ bundles \in [Bundles -> SUBSET BundleFiles]
      /\ compile \in [Compiles -> ACompile] /\ torn \subseteq Bundles
      /\ nodeStore' \in [Nodes -> SUBSET NodeFiles] /\ bundles' \in [Bundles -> SUBSET BundleFiles]
      /\ compile' \in [Compiles -> ACompile]
  BY <1>s DEF CompilerShape, CompilerTypeOK
<1>c. ASSUME NEW p \in Compiles
      PROVE  /\ compile[p] \in ACompile /\ compile[p].at \in Steps
             /\ compile[p].spec \in Bundles \cup {NoBundle}
             /\ compile[p].todo \subseteq Nodes /\ compile[p].doomed \subseteq Bundles
             /\ UnderWay(compile[p]) /\ Generating(compile[p]) /\ Sweeping(compile[p])
             /\ \A q \in Compiles : q = p
  BY <1>t DEF ACompile, OneCompile, StoreInv
<1>i. WholeOrTorn /\ ManifestBacked /\ HandedWhole /\ NothingLeftOver
  BY DEF StoreInv, StoreSafe
<1>b. \A b \in Bundles : b.nodes \subseteq Nodes /\ b # NoBundle
  BY BundleParts
<1>1. ASSUME NEW p \in Compiles, StartCompile(p) PROVE StoreInv'
  <2>1. /\ nodeStore' = nodeStore /\ bundles' = bundles /\ torn' = torn /\ swept' = FALSE
        /\ compile[p].at = "idle"
    BY <1>1 DEF StartCompile
  <2>2. PICK b \in Bundles :
          /\ \/ compile' = compile
             \/ /\ compile' = [compile EXCEPT ![p] = [at |-> "node", spec |-> b,
                                                      todo |-> b.nodes, doomed |-> {}]]
                /\ handed' = NoBundle
          /\ handed' = NoBundle \/ (handed' = b /\ b \in Manifests)
    BY <1>1 DEF StartCompile
  <2>3. Manifests' = Manifests /\ Referenced' = Referenced
    BY <2>1 DEF Manifests, Referenced
  <2>4. \A x \in Bundles : ~Going(x) /\ ~Going(x)'
    BY <2>1, <2>2, <1>c, <1>1, <1>t DEF Going
  <2>5. WholeOrTorn'
    BY <2>1, <2>3, <2>4, <1>i DEF WholeOrTorn, Manifests
  <2>6. HandedWhole'
    BY <2>1, <2>2, <2>4, <1>i, <1>b DEF HandedWhole, WholeOrTorn, Manifests
  <2>7. ManifestBacked' /\ NothingLeftOver'
    BY <2>1, <2>3, <1>i DEF ManifestBacked, NothingLeftOver, Complete
  <2>8. ASSUME NEW q \in Compiles
        PROVE  (UnderWay(compile[q]) /\ Generating(compile[q]) /\ Sweeping(compile[q]))'
    <3>1. q = p
      BY <1>c, <1>1
    <3>2. CASE compile' = compile
      BY <3>1, <3>2, <2>1 DEF UnderWay, Generating, Sweeping, NodeFiles
    <3>3. CASE compile' # compile
      <4>1. compile'[p] = [at |-> "node", spec |-> b, todo |-> b.nodes, doomed |-> {}]
            /\ handed' = NoBundle
        BY <3>3, <2>2, <1>t
      <4> QED
        BY <3>1, <4>1, <2>1 DEF UnderWay, Generating, Sweeping, NodeFiles
    <3> QED
      BY <3>2, <3>3
  <2> QED
    BY <1>s, <2>5, <2>6, <2>7, <2>8 DEF StoreInv, StoreSafe
<1>2. ASSUME NEW p \in Compiles, NextNode(p) PROVE StoreInv'
  <2> DEFINE c == compile[p]
  <2>1. /\ nodeStore' = nodeStore /\ bundles' = bundles /\ torn' = torn /\ handed' = handed
        /\ swept' = swept /\ c.at = "node"
    BY <1>2 DEF NextNode, Working
  <2>2. /\ Manifests' = Manifests /\ Referenced' = Referenced
        /\ \A n \in Nodes : Complete(n)' = Complete(n)
    BY <2>1 DEF Manifests, Referenced, Complete
  <2>3. compile'[p].spec = c.spec /\ compile'[p].at \in {"bundle", "node", "prompt"}
    BY <1>2, <1>t DEF NextNode
  <2>4. \A x \in Bundles : ~Going(x) /\ ~Going(x)'
    BY <2>1, <2>3, <1>c, <1>2, <1>t DEF Going
  <2>5. WholeOrTorn'
    BY <2>1, <2>2, <2>4, <1>i DEF WholeOrTorn, Manifests
  <2>6. HandedWhole' /\ ManifestBacked' /\ NothingLeftOver'
    BY <2>1, <2>2, <1>i DEF HandedWhole, ManifestBacked, NothingLeftOver, Complete
  <2>7. Generating(compile[p])'
    <3>1. c.todo \subseteq c.spec.nodes /\ \A n \in c.spec.nodes \ c.todo : Complete(n)
      BY <2>1, <1>c, <1>2 DEF Generating
    <3>2. \A n \in c.spec.nodes \ c.todo : Complete(n)'
      BY <3>1, <2>1 DEF Complete
    <3>3. CASE c.todo = {}
      <4>1. compile'[p].at = "bundle"
        BY <3>3, <1>2, <1>t DEF NextNode
      <4> QED
        BY <3>2, <3>3, <4>1, <2>3 DEF Generating, NodeFiles
    <3>4. CASE c.todo # {} /\ Complete(First(c.todo))
      <4>1. compile'[p].at = "node" /\ compile'[p].todo = c.todo \ {First(c.todo)}
        BY <3>4, <2>1, <1>2, <1>t DEF NextNode
      <4>2. \A n \in c.spec.nodes \ compile'[p].todo : Complete(n)'
        BY <3>2, <3>4, <4>1, <2>1 DEF Complete
      <4> QED
        BY <3>1, <4>1, <4>2, <2>3 DEF Generating, NodeFiles
    <3>5. CASE c.todo # {} /\ ~Complete(First(c.todo))
      <4>1. compile'[p].at = "prompt" /\ compile'[p].todo = c.todo
        BY <3>5, <2>1, <1>2, <1>t DEF NextNode
      <4> QED
        BY <3>1, <3>2, <3>5, <4>1, <2>3 DEF Generating, NodeFiles
    <3> QED
      BY <3>3, <3>4, <3>5
  <2>8. UnderWay(compile[p])' /\ Sweeping(compile[p])'
    BY <1>c, <1>2, <2>1, <2>3 DEF UnderWay, Sweeping
  <2> QED
    BY <1>c, <1>2, <1>s, <2>5, <2>6, <2>7, <2>8 DEF StoreInv, StoreSafe
<1>3. ASSUME NEW p \in Compiles, WriteNode(p) PROVE StoreInv'
  <2> DEFINE c == compile[p]
             node == First(c.todo)
  <2>1. /\ nodeStore' = [nodeStore EXCEPT ![node] = @ \cup {c.at}] /\ bundles' = bundles
        /\ torn' = torn /\ handed' = handed /\ swept' = swept /\ c.at \in NodeFiles
    BY <1>3 DEF WriteNode, Working
  <2>2. Manifests' = Manifests /\ Referenced' = Referenced
    BY <2>1 DEF Manifests, Referenced
  <2>3. /\ compile'[p].spec = c.spec
        /\ c.at = "prompt" => compile'[p].at = "grammar" /\ compile'[p].todo = c.todo
        /\ c.at = "grammar" => compile'[p].at = "protocol" /\ compile'[p].todo = c.todo
        /\ c.at = "protocol" => compile'[p].at = "node" /\ compile'[p].todo = c.todo \ {node}
    BY <1>3, <1>t DEF WriteNode, NodeFiles
  <2>4. c.todo # {} /\ node \in c.todo /\ node \in Nodes /\ c.todo \subseteq c.spec.nodes
    BY <2>1, <1>c, <1>3, FirstIsOne DEF Generating
  <2>5. \A n \in Nodes : nodeStore[n] \subseteq nodeStore'[n] /\ (Complete(n) => Complete(n)')
    BY <2>1, <2>4, <1>t DEF Complete
  <2>6. \A x \in Bundles : ~Going(x) /\ ~Going(x)'
    BY <2>1, <2>3, <1>c, <1>3, <1>t DEF Going, NodeFiles
  <2>7. WholeOrTorn'
    BY <2>1, <2>2, <2>6, <1>i DEF WholeOrTorn, Manifests
  <2>8. UnderWay(compile[p])' /\ ~swept'
    BY <1>c, <1>3, <2>1, <2>3 DEF UnderWay, NodeFiles
  <2>9. HandedWhole' /\ ManifestBacked' /\ NothingLeftOver'
    <3>1. \A b \in Manifests : b.nodes \subseteq Nodes
      BY <1>b DEF Manifests
    <3> QED
      BY <2>1, <2>2, <2>5, <2>8, <3>1, <1>i DEF HandedWhole, ManifestBacked, NothingLeftOver
  <2>10. Sweeping(compile[p])'
    BY <2>1, <2>3 DEF Sweeping, NodeFiles
  <2>11. Generating(compile[p])'
    <3>1. c.spec.nodes \subseteq Nodes /\ \A n \in c.spec.nodes \ c.todo : Complete(n)'
      BY <2>1, <2>5, <1>c, <1>3, <1>b DEF Generating, UnderWay, NodeFiles
    <3>2. CASE c.at = "prompt"
      BY <3>1, <3>2, <2>1, <2>3, <2>4, <1>t DEF Generating, NodeFiles
    <3>3. CASE c.at = "grammar"
      BY <3>1, <3>3, <2>1, <2>3, <2>4, <1>t, <1>c, <1>3 DEF Generating, NodeFiles
    <3>4. CASE c.at = "protocol"
      <4>1. nodeStore'[node] = NodeFiles
        <5>1. {"prompt", "grammar"} \subseteq nodeStore[node]
          BY <3>4, <1>c, <1>3 DEF Generating
        <5>2. nodeStore'[node] = nodeStore[node] \cup {"protocol"} /\ nodeStore[node] \subseteq NodeFiles
          BY <3>4, <2>1, <2>4, <1>t
        <5> QED
          BY <5>1, <5>2 DEF NodeFiles
      <4>2. ASSUME NEW n \in c.spec.nodes \ compile'[p].todo PROVE Complete(n)'
        <5>1. n = node \/ n \notin c.todo
          BY <3>4, <2>3
        <5> QED
          BY <3>1, <4>1, <5>1 DEF Complete
      <4> QED
        BY <3>4, <4>2, <2>3, <2>4 DEF Generating, NodeFiles
    <3> QED
      BY <3>2, <3>3, <3>4, <2>1 DEF NodeFiles
  <2> QED
    BY <1>c, <1>3, <1>s, <2>7, <2>8, <2>9, <2>10, <2>11 DEF StoreInv, StoreSafe
<1>4. ASSUME NEW p \in Compiles, WriteBundle(p) PROVE StoreInv'
  <2> DEFINE c == compile[p]
             b == c.spec
  <2>1. /\ nodeStore' = nodeStore /\ torn' = torn /\ handed' = handed /\ swept' = swept
        /\ c.at = "bundle"
    BY <1>4 DEF WriteBundle, Working
  <2>2. b \in Bundles /\ handed = NoBundle /\ ~swept /\ \A n \in b.nodes : Complete(n)
    BY <2>1, <1>c, <1>4 DEF UnderWay, Generating
  <2>3. \A n \in Nodes : Complete(n)' = Complete(n)
    BY <2>1 DEF Complete
  <2>4. \A x \in Bundles : ~Going(x)
    BY <2>1, <1>c, <1>4, <1>t DEF Going
  <2>5. \A x \in Bundles : x # b => bundles'[x] = bundles[x]
    BY <1>4, <2>2, <1>t DEF WriteBundle
  <2>6. bundles'[b] = BundleFiles \/ (bundles'[b] = bundles[b] \cup {"dag"} /\ "dag" \notin bundles[b])
    BY <1>4, <2>2, <1>t DEF WriteBundle, BundleFiles
  <2>7. \A x \in Manifests' : x = b \/ x \in Manifests
    BY <2>5 DEF Manifests
  <2>8. HandedWhole' /\ NothingLeftOver'
    BY <2>1, <2>2 DEF HandedWhole, NothingLeftOver
  <2>9. ManifestBacked'
    <3>1. \A x \in Manifests' : x.nodes \subseteq Nodes
      BY <1>b DEF Manifests
    <3> QED
      BY <3>1, <2>2, <2>3, <2>7, <1>i DEF ManifestBacked
  <2>10. WholeOrTorn'
    <3>1. ASSUME NEW x \in Manifests', x # b, x \notin torn PROVE bundles'[x] = BundleFiles
      BY <3>1, <2>4, <2>5, <2>7, <1>i DEF WholeOrTorn, Manifests
    <3>2. b \in Manifests' => bundles'[b] = BundleFiles
      <4>1. bundles[b] \subseteq BundleFiles
        BY <2>2, <1>t
      <4> QED
        BY <2>6, <4>1 DEF Manifests, BundleFiles
    <3> QED
      BY <3>1, <3>2, <2>1 DEF WholeOrTorn
  <2>11. CASE "dag" \notin bundles[b]
    <3>1. compile' = compile
      BY <1>4, <2>11 DEF WriteBundle
    <3>2. \A n \in c.spec.nodes : Complete(n)'
      BY <2>2, <2>3, <1>b
    <3>3. (UnderWay(compile[p]) /\ Generating(compile[p]) /\ Sweeping(compile[p]))'
      BY <3>1, <3>2, <2>1, <2>2 DEF UnderWay, Generating, Sweeping, NodeFiles
    <3> QED
      BY <1>c, <1>4, <1>s, <2>8, <2>9, <2>10, <3>3 DEF StoreInv, StoreSafe
  <2>12. CASE "dag" \in bundles[b]
    <3> DEFINE siblings == {o \in Bundles : o.task = b.task /\ o # b /\ bundles[o] # {}}
    <3>a. compile' = [compile EXCEPT ![p].at = "replace", ![p].doomed = siblings]
      BY <1>4, <2>12 DEF WriteBundle
    <3>b. b \notin siblings /\ \A o \in Bundles : o.task = b.task /\ o # b /\ bundles[o] # {} => o \in siblings
      OBVIOUS
    <3> HIDE DEF siblings
    <3>1. compile'[p].at = "replace" /\ compile'[p].spec = b /\ compile'[p].doomed = siblings
      BY <3>a, <1>t
    <3>2. bundles'[b] = BundleFiles
      BY <2>6, <2>12
    <3>3. Sweeping(compile[p])'
      BY <3>1, <3>b, <3>2, <2>5 DEF Sweeping
    <3>4. UnderWay(compile[p])' /\ Generating(compile[p])'
      BY <3>1, <2>1, <2>2 DEF UnderWay, Generating, NodeFiles
    <3> QED
      BY <1>c, <1>4, <1>s, <2>8, <2>9, <2>10, <3>3, <3>4 DEF StoreInv, StoreSafe
  <2> QED
    BY <2>11, <2>12
<1>5. ASSUME NEW p \in Compiles, RemoveBundle(p) PROVE StoreInv'
  <2> DEFINE c == compile[p]
  <2>1. PICK b \in c.doomed :
          /\ \E file \in bundles[b] : bundles' = [bundles EXCEPT ![b] = @ \ {file}]
          /\ compile' = [compile EXCEPT ![p].doomed = IF bundles'[b] = {} THEN @ \ {b} ELSE @]
          /\ torn' = IF bundles'[b] = {} THEN torn \ {b} ELSE torn
    BY <1>5 DEF RemoveBundle
  <2>2. nodeStore' = nodeStore /\ handed' = handed /\ swept' = swept /\ c.at = "replace"
    BY <1>5 DEF RemoveBundle
  <2>3. /\ c.spec \in Bundles /\ handed = NoBundle /\ ~swept /\ b \in Bundles
        /\ bundles[c.spec] = BundleFiles /\ c.spec \notin c.doomed
        /\ \A x \in Bundles : x.task = c.spec.task /\ x # c.spec /\ bundles[x] # {} => x \in c.doomed
    BY <2>2, <1>c, <1>5 DEF UnderWay, Sweeping
  <2>4. /\ compile'[p].at = "replace" /\ compile'[p].spec = c.spec
        /\ compile'[p].doomed = IF bundles'[b] = {} THEN c.doomed \ {b} ELSE c.doomed
    BY <2>1, <2>2, <1>t
  <2>5. /\ \A x \in Bundles : x # b => bundles'[x] = bundles[x]
        /\ bundles'[b] \subseteq bundles[b]
    BY <2>1, <2>3, <1>t
  <2>6. Manifests' \subseteq Manifests
    BY <2>5 DEF Manifests
  <2>7. HandedWhole' /\ NothingLeftOver'
    BY <2>2, <2>3 DEF HandedWhole, NothingLeftOver
  <2>8. ManifestBacked'
    BY <2>2, <2>6, <1>i DEF ManifestBacked, Complete
  <2>9. WholeOrTorn'
    <3>1. ASSUME NEW x \in Manifests', x \notin torn', ~Going(x)' PROVE bundles'[x] = BundleFiles
      <4>1. x \notin compile'[p].doomed /\ x \in Bundles /\ bundles'[x] # {}
        BY <3>1, <2>4 DEF Going, Manifests
      <4>2. x # b
        BY <4>1, <2>4
      <4>3. x \notin torn /\ ~Going(x)
        <5>1. x \notin c.doomed
          BY <4>1, <4>2, <2>4
        <5> QED
          BY <3>1, <4>2, <5>1, <2>1, <1>c, <1>5 DEF Going
      <4> QED
        BY <3>1, <4>1, <4>2, <4>3, <2>5, <2>6, <1>i DEF WholeOrTorn
    <3> QED
      BY <3>1 DEF WholeOrTorn
  <2>10. Sweeping(compile[p])'
    BY <2>3, <2>4, <2>5 DEF Sweeping
  <2>11. UnderWay(compile[p])' /\ Generating(compile[p])'
    BY <2>2, <2>3, <2>4 DEF UnderWay, Generating, NodeFiles
  <2> QED
    BY <1>c, <1>5, <1>s, <2>7, <2>8, <2>9, <2>10, <2>11 DEF StoreInv, StoreSafe
<1>6. ASSUME NEW p \in Compiles, Collect(p) PROVE StoreInv'
  <2> DEFINE c == compile[p]
  <2>1. /\ nodeStore' = nodeStore /\ bundles' = bundles /\ torn' = torn /\ handed' = handed
        /\ swept' = swept /\ c.at = "replace" /\ c.doomed = {}
    BY <1>6 DEF Collect, Working
  <2>2. Manifests' = Manifests /\ Referenced' = Referenced
    BY <2>1 DEF Manifests, Referenced
  <2>3. /\ compile'[p].at = "discard" /\ compile'[p].spec = c.spec
        /\ compile'[p].todo = {n \in Nodes \ Referenced : nodeStore[n] # {}}
    BY <1>6, <1>t DEF Collect
  <2>4. \A x \in Bundles : ~Going(x)
    BY <2>1, <1>c, <1>6 DEF Going
  <2>5. WholeOrTorn'
    BY <2>1, <2>2, <2>4, <1>i DEF WholeOrTorn, Manifests
  <2>6. HandedWhole' /\ ManifestBacked' /\ NothingLeftOver'
    BY <2>1, <2>2, <1>i DEF HandedWhole, ManifestBacked, NothingLeftOver, Complete
  <2>7. Sweeping(compile[p])'
    BY <2>1, <2>2, <2>3, <1>c, <1>6 DEF Sweeping
  <2>8. UnderWay(compile[p])' /\ Generating(compile[p])'
    BY <2>1, <2>3, <1>c, <1>6 DEF UnderWay, Generating, NodeFiles
  <2> QED
    BY <1>c, <1>6, <1>s, <2>5, <2>6, <2>7, <2>8 DEF StoreInv, StoreSafe
<1>7. ASSUME NEW p \in Compiles, RemoveNode(p) PROVE StoreInv'
  <2> DEFINE c == compile[p]
  <2>1. PICK n \in c.todo :
          /\ \E file \in nodeStore[n] : nodeStore' = [nodeStore EXCEPT ![n] = @ \ {file}]
          /\ compile' = [compile EXCEPT ![p].todo = IF nodeStore'[n] = {} THEN @ \ {n} ELSE @]
    BY <1>7 DEF RemoveNode
  <2>2. /\ bundles' = bundles /\ torn' = torn /\ handed' = handed /\ swept' = swept
        /\ c.at = "discard"
    BY <1>7 DEF RemoveNode, Working
  <2>3. Manifests' = Manifests /\ Referenced' = Referenced
    BY <2>2 DEF Manifests, Referenced
  <2>4. /\ n \in Nodes /\ n \notin Referenced
        /\ c.spec \in Bundles /\ handed = NoBundle /\ ~swept
    BY <2>1, <2>2, <1>c, <1>7 DEF Sweeping, UnderWay
  <2>5. /\ compile'[p].at = "discard" /\ compile'[p].spec = c.spec
        /\ compile'[p].todo = IF nodeStore'[n] = {} THEN c.todo \ {n} ELSE c.todo
    BY <2>1, <2>2, <1>t
  <2>6. \A m \in Nodes : m # n => nodeStore'[m] = nodeStore[m]
    BY <2>1, <1>t
  <2>7. WholeOrTorn'
    <3>1. \A x \in Bundles : ~Going(x)
      BY <2>2, <1>c, <1>7 DEF Going
    <3> QED
      BY <3>1, <2>2, <2>3, <1>i DEF WholeOrTorn, Manifests
  <2>8. HandedWhole' /\ NothingLeftOver'
    BY <2>2, <2>4 DEF HandedWhole, NothingLeftOver
  <2>9. ManifestBacked'
    <3>1. ASSUME NEW b \in Manifests, NEW m \in b.nodes PROVE Complete(m)'
      <4>1. m \in Referenced /\ m \in Nodes
        BY <3>1, <1>b DEF Referenced, Manifests
      <4>2. Complete(m)
        BY <3>1, <1>i DEF ManifestBacked
      <4> QED
        BY <4>1, <4>2, <2>4, <2>6 DEF Complete
    <3> QED
      BY <3>1, <2>3 DEF ManifestBacked
  <2>10. Sweeping(compile[p])'
    <3>1. /\ bundles[c.spec] = BundleFiles
          /\ \A b \in Bundles : b.task = c.spec.task /\ b # c.spec => bundles[b] = {}
          /\ \A m \in Nodes : nodeStore[m] # {} /\ m \notin Referenced => m \in c.todo
          /\ c.todo \cap Referenced = {}
      BY <2>2, <1>c, <1>7 DEF Sweeping
    <3>2. \A m \in Nodes : nodeStore'[m] # {} /\ m \notin Referenced => m \in compile'[p].todo
      BY <3>1, <2>1, <2>5, <2>6
    <3> QED
      BY <3>1, <3>2, <2>2, <2>3, <2>5 DEF Sweeping
  <2>11. UnderWay(compile[p])' /\ Generating(compile[p])'
    BY <2>2, <2>4, <2>5 DEF UnderWay, Generating, NodeFiles
  <2> QED
    BY <1>c, <1>7, <1>s, <2>7, <2>8, <2>9, <2>10, <2>11 DEF StoreInv, StoreSafe
<1>8. ASSUME NEW p \in Compiles, Return(p) PROVE StoreInv'
  <2> DEFINE c == compile[p]
  <2>1. /\ nodeStore' = nodeStore /\ bundles' = bundles /\ torn' = torn /\ handed' = c.spec
        /\ swept' = TRUE /\ c.at = "discard" /\ c.todo = {}
    BY <1>8 DEF Return, Working
  <2>2. Manifests' = Manifests /\ Referenced' = Referenced
    BY <2>1 DEF Manifests, Referenced
  <2>3. compile'[p].at = "idle"
    BY <1>8, <1>t DEF Return, NoCompile
  <2>4. c.spec \in Bundles /\ bundles[c.spec] = BundleFiles
    BY <2>1, <1>c, <1>8 DEF UnderWay, Sweeping
  <2>5. WholeOrTorn'
    <3>1. \A x \in Bundles : ~Going(x)
      BY <2>1, <1>c, <1>8 DEF Going
    <3> QED
      BY <3>1, <2>1, <2>2, <1>i DEF WholeOrTorn, Manifests
  <2>6. HandedWhole' /\ ManifestBacked'
    BY <2>1, <2>2, <2>4, <1>i DEF HandedWhole, ManifestBacked, Complete
  <2>7. NothingLeftOver'
    <3>1. \A b \in Bundles : b.task = c.spec.task /\ b # c.spec => bundles[b] = {}
      BY <2>1, <1>c, <1>8 DEF Sweeping
    <3>2. \A n \in Nodes : nodeStore[n] # {} => \E b \in Manifests : n \in b.nodes
      BY <2>1, <1>c, <1>8 DEF Sweeping, Referenced
    <3> QED
      BY <3>1, <3>2, <2>1, <2>2 DEF NothingLeftOver
  <2>8. (UnderWay(compile[p]) /\ Generating(compile[p]) /\ Sweeping(compile[p]))'
    BY <2>3 DEF UnderWay, Generating, Sweeping, NodeFiles
  <2> QED
    BY <1>c, <1>8, <1>s, <2>5, <2>6, <2>7, <2>8 DEF StoreInv, StoreSafe
<1>9. CASE AppDies
  <2>1. /\ nodeStore' = nodeStore /\ bundles' = bundles /\ handed' = NoBundle /\ swept' = FALSE
        /\ torn \subseteq torn'
    BY <1>9 DEF AppDies
  <2>2. Manifests' = Manifests
    BY <2>1 DEF Manifests
  <2>3. \A p \in Compiles : compile'[p].at = "idle"
    BY <1>9 DEF AppDies, NoCompile
  <2>4. HandedWhole' /\ ManifestBacked' /\ NothingLeftOver'
    BY <2>1, <2>2, <1>i DEF HandedWhole, ManifestBacked, NothingLeftOver, Complete
  <2>5. WholeOrTorn'
    <3>1. ASSUME NEW b \in Manifests, b \notin torn', bundles[b] # BundleFiles PROVE FALSE
      <4>1. PICK p \in Compiles : compile[p].at = "replace" /\ b \in compile[p].doomed
        BY <3>1, <2>1, <1>i DEF WholeOrTorn, Going
      <4>2. b \in Bundles
        BY <3>1 DEF Manifests
      <4> QED
        BY <3>1, <4>1, <4>2, <1>9 DEF AppDies
    <3> QED
      BY <3>1, <2>1, <2>2 DEF WholeOrTorn
  <2>6. \A p \in Compiles : (UnderWay(compile[p]) /\ Generating(compile[p]) /\ Sweeping(compile[p]))'
    BY <2>3 DEF UnderWay, Generating, Sweeping, NodeFiles
  <2> QED
    BY <1>s, <2>4, <2>5, <2>6 DEF StoreInv, StoreSafe
<1>10. CASE UNCHANGED compilerVars
  <2>1. /\ nodeStore' = nodeStore /\ bundles' = bundles /\ compile' = compile /\ torn' = torn
        /\ handed' = handed /\ swept' = swept
    BY <1>10 DEF compilerVars
  <2>2. Manifests' = Manifests /\ Referenced' = Referenced
    BY <2>1 DEF Manifests, Referenced
  <2>3. HandedWhole' /\ ManifestBacked' /\ NothingLeftOver'
    BY <2>1, <2>2, <1>i DEF HandedWhole, ManifestBacked, NothingLeftOver, Complete
  <2>4. WholeOrTorn'
    BY <2>1, <2>2, <1>i DEF WholeOrTorn, Going
  <2>5. \A p \in Compiles : (UnderWay(compile[p]) /\ Generating(compile[p]) /\ Sweeping(compile[p]))'
    BY <1>c, <2>1, <2>2 DEF UnderWay, Generating, Sweeping, Complete
  <2> QED
    BY <1>s, <2>3, <2>4, <2>5 DEF StoreInv, StoreSafe
<1> QED
  BY <1>1, <1>2, <1>3, <1>4, <1>5, <1>6, <1>7, <1>8, <1>9, <1>10 DEF CompilerNext

\* Every variable of the compiler stays within its type, with any number of
\* compiles at once: what a compile has still to go through is nodes, and what
\* it is to remove is bundles.
THEOREM CompilerTypeCorrect == CompilerSpec => []CompilerTypeOK
<1>1. CompilerShape => CompilerTypeOK
  BY DEF CompilerShape
<1> QED
  BY <1>1, CompilerShapeBegins, CompilerShapeStep, PTL DEF CompilerSpec

\* Where compiles do not overlap, for any nodes, specs, edges and deaths of the app:
\* a manifest is only ever there with all its nodes complete, a compile hands out
\* its own bundle whole unless a death broke it off before, and one that
\* ends leaves nothing behind of what it replaced (generate, saveBundle and the
\* two collections of artifactStore).
THEOREM StoreIsBacked ==
  ASSUME OneCompile
  PROVE  CompilerSpec => []StoreSafe
<1>1. CompilerInit => StoreInv
  BY ArtifactsBegin
<1>2. StoreInv /\ [CompilerNext]_compilerVars => StoreInv'
  BY ArtifactsStep
<1>3. StoreInv => StoreSafe
  BY DEF StoreInv
<1> QED
  BY <1>1, <1>2, <1>3, PTL DEF CompilerSpec

-----------------------------------------------------------------------------
(* The search for a cycle of success edges, over any finite graph.         *)

Points(N) == [marks : [N -> Shades], node : N]
Findings(N) == [marks : [N -> Shades], node : N \cup {0}]

\* The recursive function is one if there is one.
LEMMA VisitsIs ==
  ASSUME NEW N, NEW E, NEW v, v = [at \in Points(N) |-> Visited(N, E, v, at)]
  PROVE  Visits(N, E) = [at \in Points(N) |-> Visited(N, E, Visits(N, E), at)]
<1> DEFINE Is(f) == f = [at \in Points(N) |-> Visited(N, E, f, at)]
<1>1. Visits(N, E) = CHOOSE f : Is(f)
  BY DEF Visits, Points
<1>2. Is(v)
  OBVIOUS
<1> HIDE DEF Is
<1>3. Is(CHOOSE f : Is(f))
  BY <1>2
<1> QED
  BY <1>1, <1>3 DEF Is

\* The list of a graph's nodes has each of them.
LEMMA ListedInOrder ==
  ASSUME NEW N \in SUBSET Nat, IsFiniteSet(N)
  PROVE  InOrder(N) \in Seq(N) /\ \A x \in N : \E i \in 1 .. Len(InOrder(N)) : InOrder(N)[i] = x
<1> DEFINE n == Cardinality(N)
           Rises(s) == \A i, j \in DOMAIN s : i < j => s[i] < s[j]
<1>n. n \in Nat
  BY FS_CardinalityType
<1>1. \E f \in [1 .. n -> N] : Rises(f)
  <2>1. PICK f \in [1 .. n -> N] : \A i, j \in 1 .. n : i < j => f[i] < f[j]
    BY SetSorted
  <2>2. DOMAIN f = 1 .. n
    OBVIOUS
  <2> HIDE DEF n
  <2> QED
    BY <2>1, <2>2
<1>2. InOrder(N) = CHOOSE s \in [1 .. n -> N] : Rises(s)
  BY DEF InOrder
<1> DEFINE s == InOrder(N)
<1> HIDE DEF n, Rises
<1>3. s \in [1 .. n -> N] /\ Rises(s)
  BY <1>1, <1>2
<1>4. s \in Seq(N) /\ Len(s) = n /\ DOMAIN s = 1 .. n
  BY <1>3, <1>n
<1> HIDE DEF s
<1>5. \A i, j \in 1 .. n : i < j => s[i] < s[j]
  BY <1>3, <1>4 DEF Rises
<1>6. ASSUME NEW x \in N, \A i \in 1 .. n : s[i] # x PROVE FALSE
  <2>1. IsFiniteSet(N \ {x}) /\ Cardinality(N \ {x}) = n - 1
    BY FS_RemoveElement DEF n
  <2>2. IsFiniteSet(1 .. n) /\ Cardinality(1 .. n) = n
    BY <1>n, FS_Interval
  <2>3. Cardinality(N \ {x}) < Cardinality(1 .. n)
    BY <2>1, <2>2, <1>n
  <2>4. s \in [1 .. n -> N \ {x}]
    BY <1>3, <1>6
  <2>5. PICK i, j \in 1 .. n : i # j /\ s[i] = s[j]
    <3> DEFINE T == N \ {x}
               D == 1 .. n
    <3>1. IsFiniteSet(T) /\ IsFiniteSet(D) /\ Cardinality(T) < Cardinality(D) /\ s \in [D -> T]
      BY <2>1, <2>2, <2>3, <2>4
    <3> HIDE DEF T, D
    <3>2. \E i, j \in D : i # j /\ s[i] = s[j]
      BY <3>1, FS_PigeonHole
    <3> QED
      BY <3>2 DEF D
  <2>6. i \in Nat /\ j \in Nat /\ s[i] \in Nat /\ s[j] \in Nat
    <3>1. s[i] \in N /\ s[j] \in N
      BY <1>3
    <3>2. i \in Nat /\ j \in Nat
      BY <1>n
    <3> QED
      BY <3>1, <3>2
  <2>7. CASE i < j
    BY <2>5, <2>6, <2>7, <1>5
  <2>8. CASE j < i
    BY <2>5, <2>6, <2>8, <1>5
  <2> QED
    BY <2>5, <2>6, <2>7, <2>8
<1> QED
  BY <1>4, <1>6 DEF s

\* What a visit goes through of its node's edges: h[k] is what is known after
\* the first k of them.
Through(h, A, E, v, n, base, seq) ==
  /\ h \in [0 .. Len(seq) -> A] /\ h[0] = base
  /\ \A k \in 1 .. Len(seq) : h[k] = Looked(E, v, n, h[k - 1], seq[k])

StaysIn(A, B, E, v, n) == \A a \in A, m \in B : Looked(E, v, n, a, m) \in A
Gone(E, v, n, base, seq) == FoldLeft(LAMBDA acc, m : Looked(E, v, n, acc, m), base, seq)

LEMMA EdgesGoneThrough ==
  ASSUME NEW E, NEW v, NEW n, NEW A, NEW B, NEW base \in A, NEW seq \in Seq(B),
         StaysIn(A, B, E, v, n)
  PROVE  \E h : /\ Through(h, A, E, v, n, base, seq)
                /\ Gone(E, v, n, base, seq) = h[Len(seq)]
<1> DEFINE Do(acc, m) == Looked(E, v, n, acc, m)
           Parts == SUBSET DOMAIN seq
           Round(f) == [s \in Parts |-> IF s = {} THEN base
                                         ELSE LET x == Max(s) IN Do(f[s \ {x}], seq[x])]
           iter == CHOOSE f : f = Round(f)
           F == [x \in A \X B |-> Do(x[1], x[2])]
           l == Len(seq)
<1>1. Gone(E, v, n, base, seq) = iter[DOMAIN seq]
  BY DEF Gone, FoldLeft, MapThenFoldSet
<1>2. \A a \in A, m \in B : Do(a, m) \in A
  BY DEF StaysIn
<1>3. \A a, m : Do(a, m) = Looked(E, v, n, a, m)
  OBVIOUS
<1> HIDE DEF Do
<1>4. F \in [A \X B -> A] /\ \A a \in A, m \in B : F[<<a, m>>] = Do(a, m)
  BY <1>2
<1> HIDE DEF F
<1>f. F \in [A \X B -> A]
  BY <1>4
<1>p. PICK g : IsFold(g, A, F, base, seq)
  BY <1>f, FoldExists, Zenon
<1>5. /\ g \in [SUBSET (1 .. l) -> A]
      /\ \A s \in SUBSET (1 .. l) :
           g[s] = IF s = {} THEN base ELSE F[<<g[s \ {Max(s)}], seq[Max(s)]>>]
  BY <1>p DEF IsFold
<1>d. DOMAIN seq = 1 .. l /\ l \in Nat /\ \A k \in 1 .. l : seq[k] \in B
  OBVIOUS
<1>6. g = Round(g)
  <2>1. ASSUME NEW s \in SUBSET (1 .. l), s # {}
        PROVE  F[<<g[s \ {Max(s)}], seq[Max(s)]>>] = Do(g[s \ {Max(s)}], seq[Max(s)])
    <3>1. Max(s) \in 1 .. l
      BY <2>1, <1>d, GreatestPlace, Zenon
    <3>2. seq[Max(s)] \in B /\ g[s \ {Max(s)}] \in A
      BY <3>1, <1>5, <1>d
    <3> QED
      BY <3>2, <1>4
  <2> HIDE DEF l
  <2>2. g = [s \in SUBSET (1 .. l) |-> g[s]]
    BY <1>5
  <2>3. \A s \in SUBSET (1 .. l) :
          g[s] = IF s = {} THEN base ELSE LET x == Max(s) IN Do(g[s \ {x}], seq[x])
    BY <1>5, <2>1
  <2> QED
    BY <1>d, <2>2, <2>3
<1>7. iter = Round(iter)
  BY <1>6
<1> HIDE DEF iter
<1>8. \A s \in SUBSET (1 .. l) :
        iter[s] = IF s = {} THEN base ELSE LET x == Max(s) IN Do(iter[s \ {x}], seq[x])
  BY <1>7, <1>d
<1> DEFINE h == [k \in 0 .. l |-> iter[1 .. k]]
<1>9. h[0] = base
  <2>1. 1 .. 0 = {} /\ 0 \in 0 .. l
    BY <1>d
  <2>2. iter[{}] = base
    BY <1>8
  <2> HIDE DEF l
  <2> QED
    BY <2>1, <2>2
<1>10. ASSUME NEW k \in 1 .. l PROVE h[k] = Do(h[k - 1], seq[k])
  <2>1. 1 .. k \in SUBSET (1 .. l) /\ 1 .. k # {} /\ Max(1 .. k) = k /\ (1 .. k) \ {k} = 1 .. k - 1
    <3>1. k \in Nat /\ k # 0
      BY <1>d
    <3> QED
      BY <1>d, <3>1, PlacesUpTo, LastPlace, Zenon
  <2>2. iter[1 .. k] = Do(iter[1 .. k - 1], seq[k])
    BY <1>8, <2>1
  <2>3. k \in 0 .. l /\ k - 1 \in 0 .. l
    BY <1>d
  <2> HIDE DEF l
  <2> QED
    BY <2>2, <2>3
<1>11. ASSUME NEW k \in 0 .. l PROVE h[k] \in A
  <2> DEFINE S == {j \in 0 .. l : h[j] \in A}
  <2> HIDE DEF h
  <2>1. 0 \in S
    BY <1>9, <1>d
  <2>2. ASSUME NEW j \in 1 .. k, j - 1 \in S PROVE j \in S
    <3>1. j \in 1 .. l /\ j \in 0 .. l
      BY <1>d
    <3> HIDE DEF l
    <3> QED
      BY <3>1, <2>2, <1>10, <1>2, <1>d
  <2>3. k \in Nat
    BY <1>d
  <2> HIDE DEF S
  <2>4. k \in S
    BY <2>1, <2>2, <2>3, Counting
  <2> QED
    BY <2>4 DEF S
<1>12. h \in [0 .. l -> A]
  BY <1>11
<1>13. h[l] = iter[DOMAIN seq]
  BY <1>d
<1> HIDE DEF h
<1> HIDE DEF l
<1>14. Through(h, A, E, v, n, base, seq)
  BY <1>3, <1>9, <1>10, <1>12 DEF Through, l
<1> QED
  BY <1>1, <1>13, <1>14 DEF l

Whites(N, marks) == {x \in N : marks[x] = "white"}
Greys(N, marks) == {x \in N : marks[x] = "grey"}
Blacks(N, marks) == {x \in N : marks[x] = "black"}

\* Nodes each of which leads to one of these; a graph has a cycle when some of
\* its nodes lead to each other.
Leads(E, s, t) == \A x \in s : \E y \in t : <<x, y>> \in E
Cyclic(N, E) == \E s \in (SUBSET N) \ {{}} : Leads(E, s, s)

\* What is black leads to black nodes, and there is no cycle among them.
BlackIsOver(N, E, marks) ==
  /\ \A x \in Blacks(N, marks), y \in N : <<x, y>> \in E => marks[y] = "black"
  /\ \A s \in (SUBSET Blacks(N, marks)) \ {{}} : ~Leads(E, s, s)

\* The grey nodes are those the search has come by, each leading on.
ComesBy(N, E, at) == Leads(E, Greys(N, at.marks), Greys(N, at.marks) \cup {at.node})

\* What is white once the node itself is grey, and how much that is.
Unvisited(N, at) == Whites(N, at.marks) \ {at.node}
Weight(N, at) == Cardinality(Unvisited(N, at))

\* What a visit is to come to from a white node, and what is known during it.
RightAnswer(N, E, at, r) ==
  /\ r.node = 0 => Greys(N, r.marks) = Greys(N, at.marks)
  /\ r.node = 0 /\ BlackIsOver(N, E, at.marks) =>
       BlackIsOver(N, E, r.marks) /\ Blacks(N, at.marks) \cup {at.node} \subseteq Blacks(N, r.marks)
  /\ r.node # 0 /\ ComesBy(N, E, at) => Cyclic(N, E)
Answers(N, E, at, r) ==
  /\ r \in Findings(N) /\ Whites(N, r.marks) \subseteq Unvisited(N, at)
  /\ at.marks[at.node] = "white" => RightAnswer(N, E, at, r)
Midway(N, E, at) ==
  {r \in Findings(N) :
     /\ Whites(N, r.marks) \subseteq Unvisited(N, at)
     /\ at.marks[at.node] = "white" =>
          /\ r.node = 0 => Greys(N, r.marks) = Greys(N, at.marks) \cup {at.node}
          /\ r.node = 0 /\ BlackIsOver(N, E, at.marks) =>
               BlackIsOver(N, E, r.marks) /\ Blacks(N, at.marks) \subseteq Blacks(N, r.marks)
          /\ r.node # 0 /\ ComesBy(N, E, at) => Cyclic(N, E)}

\* v answers visits that have fewer nodes before them.
AnswersBelow(N, E, v, at) ==
  \A p \in Points(N) : Weight(N, p) < Weight(N, at) => Answers(N, E, p, v[p])

\* A visit made on the way has fewer nodes before it.
LEMMA VisitsGetLess ==
  ASSUME NEW N, IsFiniteSet(N), NEW E, NEW at \in Points(N), NEW acc \in Midway(N, E, at),
         NEW m \in N, acc.marks[m] = "white"
  PROVE  /\ Found(acc.marks, m) \in Points(N)
         /\ Unvisited(N, Found(acc.marks, m)) \subseteq Unvisited(N, at)
         /\ Weight(N, Found(acc.marks, m)) < Weight(N, at)
<1> DEFINE W == Whites(N, acc.marks)
<1>1. acc.marks \in [N -> Shades] /\ W \subseteq Unvisited(N, at)
  BY DEF Midway, Findings
<1>2. Found(acc.marks, m) \in Points(N) /\ Unvisited(N, Found(acc.marks, m)) = W \ {m}
  BY <1>1 DEF Points, Found, Unvisited
<1>3. m \in W
  BY DEF Whites
<1> HIDE DEF W
<1>4. IsFiniteSet(Unvisited(N, at))
  BY FS_Subset DEF Unvisited, Whites
<1>5. IsFiniteSet(W) /\ Cardinality(W) <= Cardinality(Unvisited(N, at))
  BY <1>1, <1>4, FS_Subset
<1>6. Cardinality(W \ {m}) = Cardinality(W) - 1
  BY <1>3, <1>5, FS_RemoveElement
<1>7. Cardinality(W) \in Nat /\ Cardinality(Unvisited(N, at)) \in Nat
  BY <1>4, <1>5, FS_CardinalityType
<1> QED
  BY <1>1, <1>2, <1>5, <1>6, <1>7 DEF Weight

\* One edge looked at: it keeps what is known, and what it leads to is black.
LEMMA EdgeKeeps ==
  ASSUME NEW N, IsFiniteSet(N), 0 \notin N, NEW E, NEW v, NEW at \in Points(N),
         AnswersBelow(N, E, v, at),
         NEW acc \in Midway(N, E, at), NEW m \in N, NEW r, r = Looked(E, v, at.node, acc, m)
  PROVE  /\ r \in Midway(N, E, at)
         /\ acc.node # 0 => r = acc
         /\ at.marks[at.node] = "white" /\ BlackIsOver(N, E, at.marks) /\ r.node = 0 =>
              /\ Blacks(N, acc.marks) \subseteq Blacks(N, r.marks)
              /\ <<at.node, m>> \in E => m \in Blacks(N, r.marks)
<1> DEFINE n == at.node
           G == Greys(N, at.marks)
<1>1. /\ acc.marks \in [N -> Shades] /\ acc.node \in N \cup {0}
      /\ Whites(N, acc.marks) \subseteq Unvisited(N, at) /\ n \in N
  BY DEF Midway, Findings, Points
<1>2. ASSUME at.marks[n] = "white"
      PROVE  /\ acc.node = 0 => Greys(N, acc.marks) = G \cup {n}
             /\ acc.node = 0 /\ BlackIsOver(N, E, at.marks) =>
                  BlackIsOver(N, E, acc.marks) /\ Blacks(N, at.marks) \subseteq Blacks(N, acc.marks)
  BY <1>2 DEF Midway
<1>3. CASE acc.node # 0 \/ <<n, m>> \notin E \/ acc.marks[m] = "black"
  <2>1. r = acc
    BY <1>3 DEF Looked
  <2> QED
    BY <1>3, <2>1 DEF Blacks
<1>4. CASE ~(acc.node # 0 \/ <<n, m>> \notin E \/ acc.marks[m] = "black") /\ acc.marks[m] = "grey"
  <2>1. r = [marks |-> acc.marks, node |-> m] /\ m # 0 /\ acc.node = 0
    BY <1>4 DEF Looked, Found
  <2>2. r \in Findings(N) /\ r.marks = acc.marks /\ r.node # 0
    BY <1>1, <2>1 DEF Findings
  <2>3. ASSUME at.marks[n] = "white", ComesBy(N, E, at) PROVE Cyclic(N, E)
    <3> DEFINE s == G \cup {n}
    <3>1. m \in s
      BY <1>2, <1>4, <2>1, <2>3 DEF Greys
    <3>2. Leads(E, s, s)
      BY <1>4, <2>3, <3>1 DEF ComesBy, Leads
    <3>3. s \in (SUBSET N) \ {{}}
      BY <1>1 DEF Greys
    <3> QED
      BY <3>2, <3>3 DEF Cyclic
  <2>4. r \in Midway(N, E, at)
    BY <1>1, <2>2, <2>3 DEF Midway
  <2> QED
    BY <2>1, <2>2, <2>4
<1>5. CASE ~(acc.node # 0 \/ <<n, m>> \notin E \/ acc.marks[m] = "black") /\ acc.marks[m] # "grey"
  <2> DEFINE p == Found(acc.marks, m)
  <2>1. acc.marks[m] = "white" /\ acc.node = 0 /\ r = v[p] /\ <<n, m>> \in E
    BY <1>1, <1>5 DEF Looked, Shades
  <2>2. p \in Points(N) /\ Weight(N, p) < Weight(N, at) /\ Unvisited(N, p) \subseteq Unvisited(N, at)
    BY <2>1, VisitsGetLess
  <2>3. p.marks = acc.marks /\ p.node = m
    BY DEF Found
  <2> HIDE DEF p
  <2>4. Answers(N, E, p, r)
    BY <2>1, <2>2 DEF AnswersBelow
  <2>5. r \in Findings(N) /\ Whites(N, r.marks) \subseteq Unvisited(N, at) /\ RightAnswer(N, E, p, r)
    BY <2>1, <2>2, <2>3, <2>4 DEF Answers
  <2>6. ASSUME at.marks[n] = "white"
        PROVE  /\ r.node = 0 => Greys(N, r.marks) = G \cup {n}
               /\ r.node = 0 /\ BlackIsOver(N, E, at.marks) =>
                    /\ BlackIsOver(N, E, r.marks) /\ Blacks(N, at.marks) \subseteq Blacks(N, r.marks)
                    /\ Blacks(N, acc.marks) \subseteq Blacks(N, r.marks) /\ m \in Blacks(N, r.marks)
               /\ r.node # 0 /\ ComesBy(N, E, at) => Cyclic(N, E)
    <3>1. Greys(N, acc.marks) = G \cup {n}
      BY <1>2, <2>1, <2>6
    <3>2. ComesBy(N, E, at) => ComesBy(N, E, p)
      BY <2>1, <2>3, <3>1 DEF ComesBy, Leads
    <3>3. BlackIsOver(N, E, at.marks) =>
            BlackIsOver(N, E, acc.marks) /\ Blacks(N, at.marks) \subseteq Blacks(N, acc.marks)
      BY <1>2, <2>1, <2>6
    <3> QED
      BY <2>3, <2>5, <3>1, <3>2, <3>3 DEF RightAnswer
  <2>7. r \in Midway(N, E, at)
    BY <2>5, <2>6 DEF Midway
  <2> QED
    BY <2>1, <2>6, <2>7
<1> QED
  BY <1>3, <1>4, <1>5

\* A node all of whose edges lead to black ones can be made black: a cycle
\* through it would go on among those.
LEMMA BlackenedIsOver ==
  ASSUME NEW N, NEW E, NEW n \in N, NEW marks \in [N -> Shades], marks[n] = "grey",
         BlackIsOver(N, E, marks), \A y \in N : <<n, y>> \in E => marks[y] = "black"
  PROVE  BlackIsOver(N, E, [marks EXCEPT ![n] = "black"])
<1> DEFINE after == [marks EXCEPT ![n] = "black"]
           B == Blacks(N, marks)
<1>1. Blacks(N, after) = B \cup {n} /\ n \notin B /\ B \subseteq N
  BY DEF Blacks
<1>2. \A y \in N : marks[y] = "black" => after[y] = "black" /\ y \in B
  BY DEF Blacks
<1>3. \A x \in B, y \in N : <<x, y>> \in E => y \in B
  BY <1>2 DEF BlackIsOver
<1>4. \A s \in (SUBSET B) \ {{}} : ~Leads(E, s, s)
  BY DEF BlackIsOver
<1> HIDE DEF after, B
<1>5. \A x \in Blacks(N, after), y \in N : <<x, y>> \in E => after[y] = "black"
  <2>1. \A y \in B : after[y] = "black"
    BY <1>1 DEF Blacks
  <2> QED
    BY <1>1, <1>2, <1>3, <2>1
<1>6. ASSUME NEW s \in (SUBSET Blacks(N, after)) \ {{}}, Leads(E, s, s) PROVE FALSE
  <2>1. CASE n \notin s
    BY <1>1, <1>4, <1>6, <2>1
  <2>2. CASE n \in s
    <3>1. s \subseteq N
      BY <1>1, <1>6
    <3>2. PICK y \in s : <<n, y>> \in E
      BY <1>6, <2>2 DEF Leads
    <3>3. y \in B /\ y # n
      BY <1>1, <1>2, <3>1, <3>2
    <3>4. s \ {n} \in (SUBSET B) \ {{}}
      BY <1>1, <1>6, <3>2, <3>3
    <3>5. Leads(E, s \ {n}, s \ {n})
      <4> SUFFICES ASSUME NEW x \in s \ {n} PROVE \E z \in s \ {n} : <<x, z>> \in E
        BY DEF Leads
      <4>1. PICK z \in s : <<x, z>> \in E
        BY <1>6 DEF Leads
      <4>2. x \in B /\ z \in N
        BY <3>1, <3>4, <4>1
      <4>3. z \in B
        BY <1>3, <4>1, <4>2
      <4> QED
        BY <1>1, <4>1, <4>3
    <3> QED
      BY <1>4, <3>4, <3>5
  <2> QED
    BY <2>1, <2>2
<1>7. BlackIsOver(N, E, after)
  BY <1>5, <1>6 DEF BlackIsOver
<1> QED
  BY <1>7 DEF after

\* Where a visit starts.
VisitBase(at) == Found([at.marks EXCEPT ![at.node] = "grey"], 0)

LEMMA VisitBegins ==
  ASSUME NEW N, NEW E, NEW at \in Points(N)
  PROVE  VisitBase(at) \in Midway(N, E, at) /\ VisitBase(at).node = 0
<1> DEFINE n == at.node
           marks == [at.marks EXCEPT ![n] = "grey"]
           r == [marks |-> marks, node |-> 0]
<1>1. n \in N /\ at.marks \in [N -> Shades]
  BY DEF Points
<1>2. VisitBase(at) = r
  BY DEF VisitBase, Found
<1>3. marks \in [N -> Shades] /\ marks[n] = "grey" /\ \A x \in N : x # n => marks[x] = at.marks[x]
  BY <1>1 DEF Shades
<1>4. r \in Findings(N) /\ r.marks = marks /\ r.node = 0
  BY <1>3 DEF Findings
<1> HIDE DEF marks
<1>5. Whites(N, marks) \subseteq Unvisited(N, at)
  BY <1>1, <1>3 DEF Whites, Unvisited
<1>6. ASSUME at.marks[n] = "white"
      PROVE  /\ Greys(N, marks) = Greys(N, at.marks) \cup {n}
             /\ Blacks(N, marks) = Blacks(N, at.marks)
             /\ BlackIsOver(N, E, at.marks) => BlackIsOver(N, E, marks)
  <2>1. Greys(N, marks) = Greys(N, at.marks) \cup {n}
    BY <1>1, <1>3, <1>6 DEF Greys
  <2>2. Blacks(N, marks) = Blacks(N, at.marks)
    BY <1>1, <1>3, <1>6 DEF Blacks
  <2>3. \A y \in N : at.marks[y] = "black" => marks[y] = "black"
    BY <1>3, <1>6
  <2>4. BlackIsOver(N, E, at.marks) => BlackIsOver(N, E, marks)
    BY <2>2, <2>3 DEF BlackIsOver
  <2> QED
    BY <2>1, <2>2, <2>4
<1> HIDE DEF r
<1>7. r \in Midway(N, E, at)
  BY <1>4, <1>5, <1>6 DEF Midway
<1> QED
  BY <1>2, <1>4, <1>7

\* When all edges are gone through and nothing was found, all they lead to is
\* black.
LEMMA AllEdgesBlack ==
  ASSUME NEW N \in SUBSET Nat, IsFiniteSet(N), 0 \notin N, NEW E, NEW v, NEW at \in Points(N),
         AnswersBelow(N, E, v, at),
         NEW h, Through(h, Midway(N, E, at), E, v, at.node, VisitBase(at), InOrder(N)),
         at.marks[at.node] = "white", BlackIsOver(N, E, at.marks),
         h[Len(InOrder(N))].node = 0
  PROVE  \A y \in N : <<at.node, y>> \in E => h[Len(InOrder(N))].marks[y] = "black"
<1> DEFINE seq == InOrder(N)
           l == Len(seq)
           n == at.node
           A == Midway(N, E, at)
           Shown(k) == h[k].node = 0 =>
                         \A j \in 1 .. k : <<n, seq[j]>> \in E => seq[j] \in Blacks(N, h[k].marks)
           S == {k \in 0 .. l : Shown(k)}
<1>1. seq \in Seq(N) /\ \A x \in N : \E i \in 1 .. l : seq[i] = x
  BY ListedInOrder
<1> HIDE DEF seq
<1>2. l \in Nat /\ \A k \in 1 .. l : seq[k] \in N
  BY <1>1
<1> HIDE DEF l
<1>3. /\ h \in [0 .. l -> A]
      /\ \A k \in 1 .. l : h[k] = Looked(E, v, n, h[k - 1], seq[k])
  BY DEF Through, seq, l
<1> HIDE DEF A
<1>4. 0 \in S
  BY <1>2
<1>5. ASSUME NEW k \in 1 .. l, k - 1 \in S PROVE k \in S
  <2>1. k \in Nat /\ k \in 0 .. l /\ k - 1 \in 0 .. l /\ seq[k] \in N
    BY <1>2
  <2>2. h[k - 1] \in A /\ h[k] = Looked(E, v, n, h[k - 1], seq[k])
    BY <1>3, <2>1
  <2>3. Shown(k - 1)
    BY <1>5
  <2> SUFFICES ASSUME h[k].node = 0 PROVE \A j \in 1 .. k : <<n, seq[j]>> \in E => seq[j] \in Blacks(N, h[k].marks)
    BY <2>1
  <2>4. /\ h[k - 1].node # 0 => h[k] = h[k - 1]
        /\ Blacks(N, h[k - 1].marks) \subseteq Blacks(N, h[k].marks)
        /\ <<n, seq[k]>> \in E => seq[k] \in Blacks(N, h[k].marks)
    <3> DEFINE acc == h[k - 1]
               m == seq[k]
               r == h[k]
    <3>1. acc \in Midway(N, E, at) /\ m \in N /\ r = Looked(E, v, at.node, acc, m) /\ r.node = 0
      BY <2>1, <2>2 DEF A
    <3> HIDE DEF acc, m, r
    <3>2. /\ acc.node # 0 => r = acc
          /\ at.marks[at.node] = "white" /\ BlackIsOver(N, E, at.marks) /\ r.node = 0 =>
               /\ Blacks(N, acc.marks) \subseteq Blacks(N, r.marks)
               /\ <<at.node, m>> \in E => m \in Blacks(N, r.marks)
      BY <3>1, EdgeKeeps
    <3> QED
      BY <3>1, <3>2 DEF acc, m, r
  <2>5. h[k - 1].node = 0
    BY <2>4
  <2>6. \A j \in 1 .. k - 1 : <<n, seq[j]>> \in E => seq[j] \in Blacks(N, h[k - 1].marks)
    BY <2>3, <2>5
  <2>7. \A j \in 1 .. k : j = k \/ j \in 1 .. k - 1
    BY <2>1
  <2> QED
    BY <2>4, <2>6, <2>7
<1>6. Shown(l)
  <2> HIDE DEF Shown
  <2> DEFINE T == S
  <2>1. l \in T
    <3> HIDE DEF S
    <3> QED
      BY <1>2, <1>4, <1>5, Counting
  <2> QED
    BY <2>1
<1>7. h[l].node = 0
  BY DEF l, seq
<1>8. \A y \in N : <<n, y>> \in E => h[l].marks[y] = "black"
  BY <1>1, <1>6, <1>7 DEF Blacks
<1> QED
  BY <1>8 DEF l, seq

VisitEnd(at, end) == IF end.node # 0 THEN end ELSE Found([end.marks EXCEPT ![at.node] = "black"], 0)

LEMMA VisitGoesThrough ==
  ASSUME NEW N \in SUBSET Nat, IsFiniteSet(N), 0 \notin N, NEW E, NEW v, NEW at \in Points(N),
         AnswersBelow(N, E, v, at)
  PROVE  \E h : /\ Through(h, Midway(N, E, at), E, v, at.node, VisitBase(at), InOrder(N))
                /\ Visited(N, E, v, at) = VisitEnd(at, h[Len(InOrder(N))])
<1> DEFINE seq == InOrder(N)
           base == VisitBase(at)
           A == Midway(N, E, at)
           n == at.node
<1>1. Visited(N, E, v, at) = VisitEnd(at, Gone(E, v, n, base, seq))
  BY DEF Visited, VisitEnd, VisitBase, Gone
<1>2. seq \in Seq(N)
  BY ListedInOrder
<1>3. base \in A
  BY VisitBegins
<1>4. StaysIn(A, N, E, v, n)
  <2> SUFFICES ASSUME NEW acc \in A, NEW m \in N PROVE Looked(E, v, n, acc, m) \in A
    BY DEF StaysIn
  <2> DEFINE r == Looked(E, v, n, acc, m)
  <2>1. acc \in Midway(N, E, at) /\ m \in N /\ r = Looked(E, v, at.node, acc, m)
    OBVIOUS
  <2> HIDE DEF r, A, seq, base, n
  <2>2. /\ r \in Midway(N, E, at)
        /\ acc.node # 0 => r = acc
        /\ at.marks[at.node] = "white" /\ BlackIsOver(N, E, at.marks) /\ r.node = 0 =>
             /\ Blacks(N, acc.marks) \subseteq Blacks(N, r.marks)
             /\ <<at.node, m>> \in E => m \in Blacks(N, r.marks)
    BY <2>1, EdgeKeeps
  <2> QED
    BY <2>2 DEF A, r
<1> HIDE DEF seq, base, A, n
<1>5. PICK h : /\ Through(h, A, E, v, n, base, seq)
               /\ Gone(E, v, n, base, seq) = h[Len(seq)]
  BY <1>2, <1>3, <1>4, EdgesGoneThrough
<1>6. Visited(N, E, v, at) = VisitEnd(at, h[Len(seq)])
  BY <1>1, <1>5
<1> QED
  BY <1>5, <1>6 DEF seq, base, A, n

\* A visit is right if those of fewer nodes are.
LEMMA VisitAnswers ==
  ASSUME NEW N \in SUBSET Nat, IsFiniteSet(N), 0 \notin N, NEW E, NEW v, NEW at \in Points(N),
         AnswersBelow(N, E, v, at)
  PROVE  Answers(N, E, at, Visited(N, E, v, at))
<1> DEFINE n == at.node
           A == Midway(N, E, at)
           l == Len(InOrder(N))
           r == Visited(N, E, v, at)
<1>1. PICK h : /\ Through(h, A, E, v, n, VisitBase(at), InOrder(N))
               /\ r = VisitEnd(at, h[l])
  BY VisitGoesThrough
<1> DEFINE end == h[l]
<1>2. end \in A
  <2>1. InOrder(N) \in Seq(N)
    BY ListedInOrder
  <2>2. l \in 0 .. l
    BY <2>1
  <2>3. h \in [0 .. l -> A]
    BY <1>1 DEF Through
  <2> QED
    BY <2>2, <2>3
<1>3. ASSUME at.marks[n] = "white", BlackIsOver(N, E, at.marks), end.node = 0
      PROVE  \A y \in N : <<n, y>> \in E => end.marks[y] = "black"
  BY <1>1, <1>3, AllEdgesBlack
<1>4. n \in N /\ at.marks \in [N -> Shades]
  BY DEF Points
<1>5. r = VisitEnd(at, end)
  BY <1>1
<1> HIDE DEF l, r, end
<1>6. /\ end \in Findings(N) /\ Whites(N, end.marks) \subseteq Unvisited(N, at)
      /\ at.marks[n] = "white" =>
          /\ end.node = 0 => Greys(N, end.marks) = Greys(N, at.marks) \cup {n}
          /\ end.node = 0 /\ BlackIsOver(N, E, at.marks) =>
               BlackIsOver(N, E, end.marks) /\ Blacks(N, at.marks) \subseteq Blacks(N, end.marks)
          /\ end.node # 0 /\ ComesBy(N, E, at) => Cyclic(N, E)
  BY <1>2 DEF Midway
<1>7. CASE end.node # 0
  <2>1. r = end
    BY <1>5, <1>7 DEF VisitEnd
  <2> QED
    BY <1>6, <1>7, <2>1 DEF Answers, RightAnswer, r
<1>8. CASE end.node = 0
  <2> DEFINE marks == [end.marks EXCEPT ![n] = "black"]
  <2>1. r = [marks |-> marks, node |-> 0]
    BY <1>5, <1>8 DEF VisitEnd, Found
  <2>2. end.marks \in [N -> Shades]
    BY <1>6 DEF Findings
  <2>3. marks \in [N -> Shades] /\ marks[n] = "black" /\ \A x \in N : x # n => marks[x] = end.marks[x]
    BY <1>4, <2>2 DEF Shades
  <2>4. ASSUME at.marks[n] = "white", BlackIsOver(N, E, at.marks) PROVE BlackIsOver(N, E, marks)
    <3>1. end.marks[n] = "grey"
      BY <1>4, <1>6, <1>8, <2>4 DEF Greys
    <3> QED
      BY <1>3, <1>4, <1>6, <1>8, <2>2, <2>4, <3>1, BlackenedIsOver
  <2> HIDE DEF marks
  <2>5. r.marks = marks /\ r.node = 0 /\ r \in Findings(N)
    BY <2>1, <2>3 DEF Findings
  <2>6. Whites(N, marks) \subseteq Whites(N, end.marks)
    BY <1>4, <2>3 DEF Whites
  <2>7. ASSUME at.marks[n] = "white"
        PROVE  /\ Greys(N, marks) = Greys(N, at.marks)
               /\ Blacks(N, marks) = Blacks(N, end.marks) \cup {n}
    <3>1. Greys(N, marks) = Greys(N, end.marks) \ {n}
      BY <1>4, <2>3 DEF Greys
    <3>2. n \notin Greys(N, at.marks)
      BY <2>7 DEF Greys
    <3>3. Blacks(N, marks) = Blacks(N, end.marks) \cup {n}
      BY <1>4, <2>3 DEF Blacks
    <3> QED
      BY <1>6, <1>8, <2>7, <3>1, <3>2, <3>3
  <2>8. at.marks[n] = "white" => RightAnswer(N, E, at, r)
    BY <1>6, <1>8, <2>4, <2>5, <2>7 DEF RightAnswer
  <2> HIDE DEF A
  <2>9. Answers(N, E, at, r)
    BY <1>6, <2>5, <2>6, <2>8 DEF Answers
  <2> QED
    BY <2>9 DEF r
<1> QED
  BY <1>7, <1>8

\* A visit asks of others what has fewer nodes only.
LEMMA VisitsAgree ==
  ASSUME NEW N \in SUBSET Nat, IsFiniteSet(N), 0 \notin N, NEW E, NEW v, NEW at \in Points(N),
         AnswersBelow(N, E, v, at), NEW w,
         \A p \in Points(N) : Weight(N, p) < Weight(N, at) => w[p] = v[p]
  PROVE  Visited(N, E, w, at) = Visited(N, E, v, at)
<1> DEFINE n == at.node
           A == Midway(N, E, at)
           seq == InOrder(N)
           l == Len(seq)
           base == VisitBase(at)
<1>1. AnswersBelow(N, E, w, at)
  BY DEF AnswersBelow
<1>2. PICK h : Through(h, A, E, v, n, base, seq) /\ Visited(N, E, v, at) = VisitEnd(at, h[l])
  BY VisitGoesThrough
<1>3. PICK g : Through(g, A, E, w, n, base, seq) /\ Visited(N, E, w, at) = VisitEnd(at, g[l])
  BY <1>1, VisitGoesThrough
<1>4. seq \in Seq(N)
  BY ListedInOrder
<1>5. ASSUME NEW acc \in A, NEW m \in N PROVE Looked(E, w, n, acc, m) = Looked(E, v, n, acc, m)
  <2>1. CASE acc.marks[m] = "white"
    <3>1. Found(acc.marks, m) \in Points(N) /\ Weight(N, Found(acc.marks, m)) < Weight(N, at)
      BY <2>1, VisitsGetLess
    <3>2. w[Found(acc.marks, m)] = v[Found(acc.marks, m)]
      BY <3>1
    <3> QED
      BY <3>2 DEF Looked
  <2>2. CASE acc.marks[m] # "white"
    <3>1. acc.marks[m] = "grey" \/ acc.marks[m] = "black"
      BY <2>2 DEF Midway, Findings, Shades
    <3> QED
      BY <3>1 DEF Looked
  <2> QED
    BY <2>1, <2>2
<1> HIDE DEF seq
<1>6. l \in Nat /\ \A k \in 1 .. l : seq[k] \in N
  BY <1>4
<1>7. /\ h \in [0 .. l -> A] /\ h[0] = base
      /\ \A k \in 1 .. l : h[k] = Looked(E, v, n, h[k - 1], seq[k])
      /\ g[0] = base
      /\ \A k \in 1 .. l : g[k] = Looked(E, w, n, g[k - 1], seq[k])
  BY <1>2, <1>3 DEF Through
<1> HIDE DEF l, A, base, n
<1> DEFINE S == {k \in 0 .. l : g[k] = h[k]}
<1>8. 0 \in S
  BY <1>6, <1>7
<1>9. ASSUME NEW k \in 1 .. l, k - 1 \in S PROVE k \in S
  <2>1. k \in 0 .. l /\ k - 1 \in 0 .. l /\ seq[k] \in N
    BY <1>6
  <2>2. h[k - 1] \in A /\ g[k - 1] = h[k - 1]
    BY <1>7, <1>9, <2>1
  <2>3. g[k] = h[k]
    BY <1>5, <1>7, <2>1, <2>2
  <2> QED
    BY <2>1, <2>3
<1>10. l \in S
  <2> HIDE DEF S
  <2> QED
    BY <1>6, <1>8, <1>9, Counting
<1>11. g[l] = h[l]
  BY <1>10
<1> QED
  BY <1>2, <1>3, <1>11 DEF l

LEMMA WeightBound ==
  ASSUME NEW N, IsFiniteSet(N)
  PROVE  \A at \in Points(N) : Weight(N, at) \in Nat /\ Weight(N, at) < Cardinality(N) + 1
<1> SUFFICES ASSUME NEW at \in Points(N)
             PROVE  Weight(N, at) \in Nat /\ Weight(N, at) < Cardinality(N) + 1
  OBVIOUS
<1>1. Unvisited(N, at) \in SUBSET N
  BY DEF Unvisited, Whites
<1>2. IsFiniteSet(Unvisited(N, at)) /\ Cardinality(Unvisited(N, at)) <= Cardinality(N)
  BY <1>1, FS_Subset
<1>3. Cardinality(N) \in Nat /\ Cardinality(Unvisited(N, at)) \in Nat
  BY <1>2, FS_CardinalityType
<1> QED
  BY <1>2, <1>3 DEF Weight

\* The visits there are of fewer than k nodes, and what they come to.
VisitsUpTo(N, E, v, k) ==
  \A at \in Points(N) :
    Weight(N, at) < k => v[at] = Visited(N, E, v, at) /\ Answers(N, E, at, v[at])

\* The recursion of visit is one that ends: with each visit a white node is gone.
LEMMA VisitsEnd ==
  ASSUME NEW N \in SUBSET Nat, IsFiniteSet(N), 0 \notin N, NEW E
  PROVE  \E v : v = [at \in Points(N) |-> Visited(N, E, v, at)]
<1> DEFINE P == Points(N)
           R == Findings(N)
           n == Cardinality(N) + 1
           S == {k \in 0 .. n : \E v \in [P -> R] : VisitsUpTo(N, E, v, k)}
<1>n. n \in Nat /\ \A at \in P : Weight(N, at) \in Nat /\ Weight(N, at) < n
  BY FS_CardinalityType, WeightBound
<1>1. 0 \in S
  <2> DEFINE v == [at \in P |-> [marks |-> at.marks, node |-> 0]]
  <2>1. v \in [P -> R]
    BY DEF Points, Findings
  <2>2. \A at \in P : ~(Weight(N, at) < 0)
    BY <1>n
  <2> HIDE DEF v, P, R
  <2>3. VisitsUpTo(N, E, v, 0)
    BY <2>2 DEF VisitsUpTo, P
  <2> HIDE DEF n
  <2> QED
    BY <1>n, <2>1, <2>3
<1>2. ASSUME NEW k \in 1 .. n, k - 1 \in S PROVE k \in S
  <2> HIDE DEF n, R
  <2>k. k \in Nat /\ k - 1 \in Nat /\ k \in 0 .. n
    BY <1>n
  <2>1. PICK v \in [P -> R] : VisitsUpTo(N, E, v, k - 1)
    BY <1>2
  <2> DEFINE w == [at \in P |-> IF Weight(N, at) = k - 1 THEN Visited(N, E, v, at) ELSE v[at]]
  <2>2. ASSUME NEW at \in P, Weight(N, at) < k
        PROVE  w[at] = Visited(N, E, w, at) /\ Answers(N, E, at, w[at])
    <3>1. Weight(N, at) \in Nat /\ (Weight(N, at) = k - 1 \/ Weight(N, at) < k - 1)
      BY <1>n, <2>2, <2>k
    <3>2. \A p \in P : Weight(N, p) < Weight(N, at) => Weight(N, p) < k - 1 /\ Weight(N, p) # k - 1
      BY <1>n, <2>2, <2>k
    <3>3. AnswersBelow(N, E, v, at)
      BY <2>1, <3>2 DEF VisitsUpTo, AnswersBelow
    <3>4. \A p \in P : Weight(N, p) < Weight(N, at) => w[p] = v[p]
      BY <3>2
    <3>5. w[at] = Visited(N, E, v, at)
      <4>1. Weight(N, at) < k - 1 => v[at] = Visited(N, E, v, at)
        BY <2>1 DEF VisitsUpTo
      <4> QED
        BY <3>1, <4>1
    <3> HIDE DEF w
    <3>6. Visited(N, E, w, at) = Visited(N, E, v, at)
      BY <3>3, <3>4, VisitsAgree
    <3>7. Answers(N, E, at, Visited(N, E, v, at))
      BY <3>3, VisitAnswers
    <3> QED
      BY <3>5, <3>6, <3>7
  <2>3. ASSUME NEW at \in P PROVE w[at] \in R
    <3>1. CASE Weight(N, at) = k - 1
      <4>1. Weight(N, at) < k
        BY <2>k, <3>1
      <4> HIDE DEF w
      <4> QED
        BY <2>2, <4>1 DEF Answers, R
    <3>2. CASE Weight(N, at) # k - 1
      BY <2>1, <3>2
    <3> QED
      BY <3>1, <3>2
  <2>4. w \in [P -> R]
    BY <2>3
  <2> HIDE DEF w
  <2>5. VisitsUpTo(N, E, w, k)
    BY <2>2 DEF VisitsUpTo
  <2> HIDE DEF P
  <2> QED
    BY <2>k, <2>4, <2>5
<1>3. n \in S
  <2> HIDE DEF S, n
  <2> QED
    BY <1>n, <1>1, <1>2, Counting
<1>4. PICK v \in [P -> R] : VisitsUpTo(N, E, v, n)
  BY <1>3
<1>5. \A at \in P : v[at] = Visited(N, E, v, at)
  BY <1>n, <1>4 DEF VisitsUpTo
<1>6. v = [at \in P |-> v[at]]
  BY <1>4
<1> HIDE DEF P
<1>7. v = [at \in P |-> Visited(N, E, v, at)]
  BY <1>5, <1>6
<1> QED
  BY <1>7 DEF P

\* What visit comes to is right, from every node and marks.
LEMMA VisitsAreRight ==
  ASSUME NEW N \in SUBSET Nat, IsFiniteSet(N), 0 \notin N, NEW E
  PROVE  \A at \in Points(N) : Answers(N, E, at, Visits(N, E)[at])
<1> DEFINE P == Points(N)
           V == Visits(N, E)
           n == Cardinality(N) + 1
           S == {k \in 0 .. n : \A at \in P : Weight(N, at) < k => Answers(N, E, at, V[at])}
<1>n. n \in Nat /\ \A at \in P : Weight(N, at) \in Nat /\ Weight(N, at) < n
  BY FS_CardinalityType, WeightBound
<1>0. V = [at \in P |-> Visited(N, E, V, at)]
  BY VisitsEnd, VisitsIs
<1> HIDE DEF V
<1>e. \A at \in P : V[at] = Visited(N, E, V, at)
  BY <1>0
<1> HIDE DEF n
<1>1. 0 \in S
  BY <1>n
<1>2. ASSUME NEW k \in 1 .. n, k - 1 \in S PROVE k \in S
  <2>k. k \in Nat /\ k - 1 \in Nat /\ k \in 0 .. n
    BY <1>n
  <2>1. ASSUME NEW at \in P, Weight(N, at) < k PROVE Answers(N, E, at, V[at])
    <3>1. \A p \in P : Weight(N, p) < Weight(N, at) => Weight(N, p) < k - 1
      BY <1>n, <2>1, <2>k
    <3>2. AnswersBelow(N, E, V, at)
      BY <1>2, <3>1 DEF AnswersBelow
    <3>3. Answers(N, E, at, Visited(N, E, V, at))
      BY <3>2, VisitAnswers
    <3> QED
      BY <1>e, <3>3
  <2> QED
    BY <2>k, <2>1
<1>3. n \in S
  <2> HIDE DEF S
  <2> QED
    BY <1>n, <1>1, <1>2, Counting
<1> QED
  BY <1>n, <1>3 DEF V

\* What the search goes through of the nodes, and what is known after k of them.
TriedThrough(h, A, v, base, seq) ==
  /\ h \in [0 .. Len(seq) -> A] /\ h[0] = base
  /\ \A k \in 1 .. Len(seq) : h[k] = TriedFrom(v, h[k - 1], seq[k])
TriesIn(A, B, v) == \A a \in A, m \in B : TriedFrom(v, a, m) \in A
Tried(v, base, seq) == FoldLeft(LAMBDA acc, n : TriedFrom(v, acc, n), base, seq)

LEMMA NodesGoneThrough ==
  ASSUME NEW v, NEW A, NEW B, NEW base \in A, NEW seq \in Seq(B),
         TriesIn(A, B, v)
  PROVE  \E h : /\ TriedThrough(h, A, v, base, seq)
                /\ Tried(v, base, seq) = h[Len(seq)]
<1> DEFINE Do(acc, m) == TriedFrom(v, acc, m)
           Parts == SUBSET DOMAIN seq
           Round(f) == [s \in Parts |-> IF s = {} THEN base
                                         ELSE LET x == Max(s) IN Do(f[s \ {x}], seq[x])]
           iter == CHOOSE f : f = Round(f)
           F == [x \in A \X B |-> Do(x[1], x[2])]
           l == Len(seq)
<1>1. Tried(v, base, seq) = iter[DOMAIN seq]
  BY DEF Tried, FoldLeft, MapThenFoldSet
<1>2. \A a \in A, m \in B : Do(a, m) \in A
  BY DEF TriesIn
<1>3. \A a, m : Do(a, m) = TriedFrom(v, a, m)
  OBVIOUS
<1> HIDE DEF Do
<1>4. F \in [A \X B -> A] /\ \A a \in A, m \in B : F[<<a, m>>] = Do(a, m)
  BY <1>2
<1> HIDE DEF F
<1>f. F \in [A \X B -> A]
  BY <1>4
<1>p. PICK g : IsFold(g, A, F, base, seq)
  BY <1>f, FoldExists, Zenon
<1>5. /\ g \in [SUBSET (1 .. l) -> A]
      /\ \A s \in SUBSET (1 .. l) :
           g[s] = IF s = {} THEN base ELSE F[<<g[s \ {Max(s)}], seq[Max(s)]>>]
  BY <1>p DEF IsFold
<1>d. DOMAIN seq = 1 .. l /\ l \in Nat /\ \A k \in 1 .. l : seq[k] \in B
  OBVIOUS
<1>6. g = Round(g)
  <2>1. ASSUME NEW s \in SUBSET (1 .. l), s # {}
        PROVE  F[<<g[s \ {Max(s)}], seq[Max(s)]>>] = Do(g[s \ {Max(s)}], seq[Max(s)])
    <3>1. Max(s) \in 1 .. l
      BY <2>1, <1>d, GreatestPlace, Zenon
    <3>2. seq[Max(s)] \in B /\ g[s \ {Max(s)}] \in A
      BY <3>1, <1>5, <1>d
    <3> QED
      BY <3>2, <1>4
  <2> HIDE DEF l
  <2>2. g = [s \in SUBSET (1 .. l) |-> g[s]]
    BY <1>5
  <2>3. \A s \in SUBSET (1 .. l) :
          g[s] = IF s = {} THEN base ELSE LET x == Max(s) IN Do(g[s \ {x}], seq[x])
    BY <1>5, <2>1
  <2> QED
    BY <1>d, <2>2, <2>3
<1>7. iter = Round(iter)
  BY <1>6
<1> HIDE DEF iter
<1>8. \A s \in SUBSET (1 .. l) :
        iter[s] = IF s = {} THEN base ELSE LET x == Max(s) IN Do(iter[s \ {x}], seq[x])
  BY <1>7, <1>d
<1> DEFINE h == [k \in 0 .. l |-> iter[1 .. k]]
<1>9. h[0] = base
  <2>1. 1 .. 0 = {} /\ 0 \in 0 .. l
    BY <1>d
  <2>2. iter[{}] = base
    BY <1>8
  <2> HIDE DEF l
  <2> QED
    BY <2>1, <2>2
<1>10. ASSUME NEW k \in 1 .. l PROVE h[k] = Do(h[k - 1], seq[k])
  <2>1. 1 .. k \in SUBSET (1 .. l) /\ 1 .. k # {} /\ Max(1 .. k) = k /\ (1 .. k) \ {k} = 1 .. k - 1
    <3>1. k \in Nat /\ k # 0
      BY <1>d
    <3> QED
      BY <1>d, <3>1, PlacesUpTo, LastPlace, Zenon
  <2>2. iter[1 .. k] = Do(iter[1 .. k - 1], seq[k])
    BY <1>8, <2>1
  <2>3. k \in 0 .. l /\ k - 1 \in 0 .. l
    BY <1>d
  <2> HIDE DEF l
  <2> QED
    BY <2>2, <2>3
<1>11. ASSUME NEW k \in 0 .. l PROVE h[k] \in A
  <2> DEFINE S == {j \in 0 .. l : h[j] \in A}
  <2> HIDE DEF h
  <2>1. 0 \in S
    BY <1>9, <1>d
  <2>2. ASSUME NEW j \in 1 .. k, j - 1 \in S PROVE j \in S
    <3>1. j \in 1 .. l /\ j \in 0 .. l
      BY <1>d
    <3> HIDE DEF l
    <3> QED
      BY <3>1, <2>2, <1>10, <1>2, <1>d
  <2>3. k \in Nat
    BY <1>d
  <2> HIDE DEF S
  <2>4. k \in S
    BY <2>1, <2>2, <2>3, Counting
  <2> QED
    BY <2>4 DEF S
<1>12. h \in [0 .. l -> A]
  BY <1>11
<1>13. h[l] = iter[DOMAIN seq]
  BY <1>d
<1> HIDE DEF h
<1> HIDE DEF l
<1>14. TriedThrough(h, A, v, base, seq)
  BY <1>3, <1>9, <1>10, <1>12 DEF TriedThrough, l
<1> QED
  BY <1>1, <1>13, <1>14 DEF l

\* Between two nodes of the search nothing is grey.
Searching(N, E) ==
  {r \in Findings(N) : /\ r.node = 0 => BlackIsOver(N, E, r.marks) /\ Greys(N, r.marks) = {}
                       /\ r.node # 0 => Cyclic(N, E)}

AnswersAll(N, E, v) == \A at \in Points(N) : Answers(N, E, at, v[at])

LEMMA NodeTried ==
  ASSUME NEW N, 0 \notin N, NEW E, NEW v, AnswersAll(N, E, v),
         NEW acc \in Searching(N, E), NEW m \in N, NEW r, r = TriedFrom(v, acc, m)
  PROVE  /\ r \in Searching(N, E)
         /\ acc.node # 0 => r = acc
         /\ r.node = 0 => Blacks(N, acc.marks) \subseteq Blacks(N, r.marks) /\ m \in Blacks(N, r.marks)
<1>1. acc.marks \in [N -> Shades] /\ acc \in Findings(N)
  BY DEF Searching, Findings
<1>2. CASE acc.node # 0 \/ acc.marks[m] # "white"
  <2>1. r = acc
    BY <1>2 DEF TriedFrom
  <2>2. ASSUME acc.node = 0 PROVE acc.marks[m] = "black"
    <3>1. acc.marks[m] # "grey"
      BY <2>2 DEF Searching, Greys
    <3> QED
      BY <1>1, <1>2, <2>2, <3>1 DEF Shades
  <2> QED
    BY <2>1, <2>2 DEF Blacks
<1>3. CASE acc.node = 0 /\ acc.marks[m] = "white"
  <2> DEFINE p == Found(acc.marks, m)
  <2>1. r = v[p]
    BY <1>3 DEF TriedFrom
  <2>2. p \in Points(N) /\ p.marks = acc.marks /\ p.node = m
    BY <1>1 DEF Points, Found
  <2> HIDE DEF p
  <2>3. r \in Findings(N) /\ RightAnswer(N, E, p, r)
    BY <1>3, <2>1, <2>2 DEF AnswersAll, Answers
  <2>4. BlackIsOver(N, E, acc.marks) /\ Greys(N, acc.marks) = {}
    BY <1>3 DEF Searching
  <2>5. ComesBy(N, E, p)
    BY <2>2, <2>4 DEF ComesBy, Leads
  <2>6. /\ r.node = 0 => /\ BlackIsOver(N, E, r.marks) /\ Greys(N, r.marks) = {}
                         /\ Blacks(N, acc.marks) \cup {m} \subseteq Blacks(N, r.marks)
        /\ r.node # 0 => Cyclic(N, E)
    BY <2>2, <2>3, <2>4, <2>5 DEF RightAnswer
  <2> QED
    BY <1>3, <2>3, <2>6 DEF Searching
<1> QED
  BY <1>2, <1>3

\* find_success_cycle finds a node exactly where there is a cycle.
LEMMA CyclesAreFound ==
  ASSUME NEW N \in SUBSET Nat, IsFiniteSet(N), 0 \notin N, NEW E
  PROVE  FindSuccessCycle(N, E) # 0 <=> Cyclic(N, E)
<1> DEFINE V == Visits(N, E)
           A == Searching(N, E)
           seq == InOrder(N)
           l == Len(seq)
           white == [n \in N |-> "white"]
           base == Found(white, 0)
<1>1. FindSuccessCycle(N, E) = Tried(V, base, seq).node
  BY DEF FindSuccessCycle, Tried
<1>2. seq \in Seq(N) /\ \A x \in N : \E i \in 1 .. l : seq[i] = x
  BY ListedInOrder
<1>3. AnswersAll(N, E, V)
  BY VisitsAreRight DEF AnswersAll
<1>4. base \in A
  <2>1. white \in [N -> Shades] /\ \A x \in N : white[x] = "white"
    BY DEF Shades
  <2> HIDE DEF white
  <2>2. Greys(N, white) = {} /\ Blacks(N, white) = {}
    BY <2>1 DEF Greys, Blacks
  <2>3. BlackIsOver(N, E, white)
    BY <2>2 DEF BlackIsOver
  <2>4. base = [marks |-> white, node |-> 0]
    BY DEF Found
  <2> HIDE DEF base
  <2>5. base \in Findings(N) /\ base.node = 0 /\ base.marks = white
    BY <2>1, <2>4 DEF Findings
  <2> QED
    BY <2>2, <2>3, <2>5 DEF Searching
<1> HIDE DEF V, seq, base
<1>5. TriesIn(A, N, V)
  <2> SUFFICES ASSUME NEW acc \in A, NEW m \in N PROVE TriedFrom(V, acc, m) \in A
    BY DEF TriesIn
  <2> DEFINE r == TriedFrom(V, acc, m)
  <2>1. acc \in Searching(N, E) /\ m \in N /\ r = TriedFrom(V, acc, m)
    OBVIOUS
  <2> HIDE DEF r, A
  <2>2. /\ r \in Searching(N, E)
        /\ acc.node # 0 => r = acc
        /\ r.node = 0 => Blacks(N, acc.marks) \subseteq Blacks(N, r.marks) /\ m \in Blacks(N, r.marks)
    BY <1>3, <2>1, NodeTried
  <2> QED
    BY <2>2 DEF A, r
<1> HIDE DEF A
<1>6. PICK h : TriedThrough(h, A, V, base, seq) /\ Tried(V, base, seq) = h[Len(seq)]
  BY <1>2, <1>4, <1>5, NodesGoneThrough
<1>7. /\ h \in [0 .. l -> A]
      /\ \A k \in 1 .. l : h[k] = TriedFrom(V, h[k - 1], seq[k])
  BY <1>6 DEF TriedThrough
<1>8. l \in Nat /\ \A k \in 1 .. l : seq[k] \in N
  BY <1>2
<1> HIDE DEF l
<1> DEFINE Shown(k) == h[k].node = 0 => \A j \in 1 .. k : seq[j] \in Blacks(N, h[k].marks)
           S == {k \in 0 .. l : Shown(k)}
<1>9. 0 \in S
  BY <1>8
<1>10. ASSUME NEW k \in 1 .. l, k - 1 \in S PROVE k \in S
  <2>1. k \in Nat /\ k \in 0 .. l /\ k - 1 \in 0 .. l /\ seq[k] \in N
    BY <1>8
  <2>2. h[k - 1] \in A /\ h[k] = TriedFrom(V, h[k - 1], seq[k])
    BY <1>7, <2>1
  <2>3. Shown(k - 1)
    BY <1>10
  <2> SUFFICES ASSUME h[k].node = 0 PROVE \A j \in 1 .. k : seq[j] \in Blacks(N, h[k].marks)
    BY <2>1
  <2> DEFINE acc == h[k - 1]
             m == seq[k]
             r == h[k]
  <2>4. acc \in Searching(N, E) /\ m \in N /\ r = TriedFrom(V, acc, m) /\ r.node = 0
    BY <2>1, <2>2 DEF A
  <2> HIDE DEF acc, m, r
  <2>5. /\ r \in Searching(N, E)
        /\ acc.node # 0 => r = acc
        /\ r.node = 0 => Blacks(N, acc.marks) \subseteq Blacks(N, r.marks) /\ m \in Blacks(N, r.marks)
    BY <1>3, <2>4, NodeTried
  <2>6. acc.node = 0
    BY <2>4, <2>5
  <2>7. \A j \in 1 .. k - 1 : seq[j] \in Blacks(N, acc.marks)
    BY <2>3, <2>6 DEF acc
  <2>8. \A j \in 1 .. k : j = k \/ j \in 1 .. k - 1
    BY <2>1
  <2>9. \A j \in 1 .. k : seq[j] \in Blacks(N, r.marks)
    BY <2>4, <2>5, <2>7, <2>8 DEF m
  <2> QED
    BY <2>9 DEF r
<1>11. Shown(l)
  <2> HIDE DEF Shown
  <2> DEFINE T == S
  <2>1. l \in T
    <3> HIDE DEF S
    <3> QED
      BY <1>8, <1>9, <1>10, Counting
  <2> QED
    BY <2>1
<1> DEFINE end == h[l]
<1>12. end \in A
  BY <1>7, <1>8
<1>f. FindSuccessCycle(N, E) = end.node
  BY <1>1, <1>6 DEF l
<1>13. CASE end.node # 0
  BY <1>f, <1>12, <1>13 DEF A, Searching
<1>14. CASE end.node = 0
  <2>1. \A x \in N : x \in Blacks(N, end.marks)
    BY <1>2, <1>11, <1>14 DEF l
  <2>2. BlackIsOver(N, E, end.marks)
    BY <1>12, <1>14 DEF A, Searching
  <2>3. ~Cyclic(N, E)
    BY <2>1, <2>2 DEF BlackIsOver, Cyclic
  <2> QED
    BY <1>f, <1>14, <2>3
<1> QED
  BY <1>13, <1>14

\* In a finite graph without a cycle no edge leads to some node: with a node that
\* leads nowhere left out, one is found among the others.
LEMMA SourceThere ==
  ASSUME NEW N, IsFiniteSet(N), N # {}, NEW E, ~Cyclic(N, E)
  PROVE  \E x \in N : \A y \in N : <<y, x>> \notin E
<1> DEFINE n == Cardinality(N)
           Source(U) == \E x \in U : \A y \in U : <<y, x>> \notin E
           S == {k \in 0 .. n : \A U \in SUBSET N : Cardinality(U) = k /\ U # {} => Source(U)}
<1>n. n \in Nat
  BY FS_CardinalityType
<1>f. \A U \in SUBSET N : IsFiniteSet(U)
  BY FS_Subset
<1>1. 0 \in S
  <2>1. \A U \in SUBSET N : Cardinality(U) = 0 => U = {}
    BY <1>f, FS_EmptySet
  <2> QED
    BY <1>n, <2>1
<1>2. ASSUME NEW k \in 1 .. n, k - 1 \in S PROVE k \in S
  <2>k. k \in Nat /\ k - 1 \in Nat /\ k \in 0 .. n
    BY <1>n
  <2> HIDE DEF n
  <2> SUFFICES ASSUME NEW U \in SUBSET N, Cardinality(U) = k, U # {} PROVE Source(U)
    BY <2>k
  <2>1. PICK x \in U : \A y \in U : <<x, y>> \notin E
    BY DEF Cyclic, Leads
  <2>2. U \ {x} \in SUBSET N /\ Cardinality(U \ {x}) = k - 1
    BY <1>f, FS_RemoveElement
  <2>3. CASE U \ {x} = {}
    BY <2>1, <2>3
  <2>4. CASE U \ {x} # {}
    <3>1. PICK z \in U \ {x} : \A y \in U \ {x} : <<y, z>> \notin E
      BY <1>2, <2>2, <2>4
    <3> QED
      BY <2>1, <3>1
  <2> QED
    BY <2>3, <2>4
<1>3. n \in S
  <2> HIDE DEF S, n
  <2> QED
    BY <1>n, <1>1, <1>2, Counting
<1> QED
  BY <1>3

\* What is judged, and that is so of every spec.
JudgedSpec ==
  judged = Unjudged \/ \E N \in NodeSets : \E E \in SUBSET (N \X N) : judged = BuildIr(N, E)

LEMMA NothingJudged == judged = Unjudged => CycleRefused
<1> SUFFICES ASSUME judged = Unjudged PROVE CycleRefused
  OBVIOUS
<1>1. judged.edges = {} /\ judged.refused = FALSE /\ judged.entry = 0
  BY DEF Unjudged
<1> QED
  BY <1>1 DEF CycleRefused

LEMMA SpecsJudged ==
  ASSUME NEW N \in NodeSets, NEW E \in SUBSET (N \X N), judged = BuildIr(N, E)
  PROVE  CycleRefused
<1>1. N \in SUBSET Nodes /\ N # {} /\ IsFiniteSet(N) /\ N \in SUBSET Nat /\ 0 \notin N
  BY CompilerConstants
<1>2. /\ judged.edges = E /\ judged.entry = Entry(N, E)
      /\ judged.refused = (FindSuccessCycle(N, E) # 0)
  BY DEF BuildIr
<1>3. FindSuccessCycle(N, E) # 0 <=> Cyclic(N, E)
  BY <1>1, CyclesAreFound
<1>4. Cyclic(N, E) <=> \E s \in (SUBSET Nodes) \ {{}} : \A n \in s : \E m \in s : <<n, m>> \in E
  <2>1. ASSUME Cyclic(N, E)
        PROVE  \E s \in (SUBSET Nodes) \ {{}} : \A n \in s : \E m \in s : <<n, m>> \in E
    BY <1>1, <2>1 DEF Cyclic, Leads
  <2>2. ASSUME NEW s \in (SUBSET Nodes) \ {{}}, \A n \in s : \E m \in s : <<n, m>> \in E
        PROVE  Cyclic(N, E)
    <3>1. \A n, m : <<n, m>> \in E => n \in N
      OBVIOUS
    <3>2. s \in (SUBSET N) \ {{}}
      BY <2>2, <3>1
    <3> QED
      BY <2>2, <3>2 DEF Cyclic, Leads
  <2> QED
    BY <2>1, <2>2
<1>5. ASSUME ~Cyclic(N, E) PROVE \A n \in Nodes : <<n, Entry(N, E)>> \notin E
  <2> DEFINE free == {n \in N : \A m \in N : <<m, n>> \notin E}
  <2>1. free # {}
    BY <1>1, <1>5, SourceThere
  <2>2. Entry(N, E) = First(free)
    BY <2>1 DEF Entry
  <2>3. free \in SUBSET Nodes
    BY <1>1
  <2>4. First(free) \in free
    <3> HIDE DEF free
    <3> QED
      BY <2>1, <2>3, FirstIsOne
  <2>5. \A n : <<n, First(free)>> \in E => n \in N
    OBVIOUS
  <2> QED
    BY <2>2, <2>4, <2>5
<1> QED
  BY <1>2, <1>3, <1>4, <1>5 DEF CycleRefused

LEMMA JudgingBegins == CompilerInit => JudgedSpec
BY DEF CompilerInit, JudgedSpec

LEMMA JudgingStep == JudgedSpec /\ [CompilerNext]_compilerVars => JudgedSpec'
<1> SUFFICES ASSUME JudgedSpec, [CompilerNext]_compilerVars PROVE JudgedSpec'
  OBVIOUS
<1>1. ASSUME NEW p \in Compiles, StartCompile(p) PROVE JudgedSpec'
  <2>1. PICK b \in Bundles : \E E \in Graphs(b.nodes) : judged' = BuildIr(b.nodes, E)
    BY <1>1 DEF StartCompile
  <2>2. PICK E \in Graphs(b.nodes) : judged' = BuildIr(b.nodes, E)
    BY <2>1
  <2>3. b.nodes \in NodeSets /\ E \in SUBSET (b.nodes \X b.nodes)
    BY DEF Bundles, Graphs
  <2> QED
    BY <2>2, <2>3 DEF JudgedSpec
<1>2. CASE UNCHANGED compilerVars
  BY <1>2 DEF compilerVars, JudgedSpec
<1>3. ASSUME NEW p \in Compiles, NextNode(p) \/ WriteNode(p) \/ WriteBundle(p) \/ RemoveBundle(p)
                                  \/ Collect(p) \/ RemoveNode(p) \/ Return(p)
      PROVE  judged' = Unjudged
  BY <1>3 DEF NextNode, WriteNode, WriteBundle, RemoveBundle, Collect, RemoveNode, Return, Working
<1>4. CASE AppDies
  BY <1>4 DEF AppDies, JudgedSpec
<1>5. judged' = Unjudged => JudgedSpec'
  BY DEF JudgedSpec
<1> QED
  BY <1>1, <1>2, <1>3, <1>4, <1>5 DEF CompilerNext

LEMMA JudgedRight == JudgedSpec => CycleRefused
BY NothingJudged, SpecsJudged DEF JudgedSpec

\* Whatever its graph, of any finite number of nodes, a spec is refused when and
\* only when its success edges form a cycle (find_success_cycle), and execution of
\* one that is not starts at a node no edge leads to (build_ir).
THEOREM CyclesAreRefused == CompilerSpec => []CycleRefused
BY JudgingBegins, JudgingStep, JudgedRight, PTL DEF CompilerSpec

-----------------------------------------------------------------------------
(* The four side by side.                                                  *)

SessionsInv == Base /\ FollowInv /\ TimelineInv /\ CompilerShape

LEMMA SessionsBegin == SessionsInit => SessionsInv
BY BaseInit, FollowsInit, TimelineBegins, CompilerShapeBegins DEF SessionsInit, SessionsInv

\* They share no state: a step of one is a stutter of the others.
LEMMA SeparateSteps ==
  [SessionsNext]_sessionsVars =>
    /\ [CheckpointsNext]_checkpointVars /\ [HistoryNext]_historyVars
    /\ [TimelineNext]_timelineVars /\ [CompilerNext]_compilerVars
<1> SUFFICES ASSUME [SessionsNext]_sessionsVars
             PROVE /\ [CheckpointsNext]_checkpointVars /\ [HistoryNext]_historyVars
                   /\ [TimelineNext]_timelineVars /\ [CompilerNext]_compilerVars
  OBVIOUS
<1>1. CASE UNCHANGED sessionsVars
  BY <1>1 DEF sessionsVars
<1>2. CASE SessionsNext
  BY <1>2 DEF SessionsNext
<1> QED
  BY <1>1, <1>2

LEMMA SessionsStep == SessionsInv /\ [SessionsNext]_sessionsVars => SessionsInv'
BY SeparateSteps, BaseStep, FollowInvNext, TimelineStep, CompilerShapeStep DEF SessionsInv

\* Every variable of the checkpoints, of the conversations and what is kept of
\* them, of the rows of agents at work and of the compiled agents stays within
\* its type, for any sessions, runs, dialects, calls, specs and bounds: no parser
\* makes an event, and no event a row, that the chat cannot show, and the row
\* that is being filled is always one there is.
THEOREM SessionsTypeCorrect == SessionsSpec => []SessionsTypeOK
<1>1. SessionsInv => SessionsTypeOK
  <2>1. ListsInv => HistoryTypeOK
    BY ListsTyped
  <2> QED
    BY <2>1, TimelineShapeIsType DEF SessionsInv, SessionsTypeOK, Base, FollowInv, TimelineInv, CompilerShape
<1> QED
  BY <1>1, SessionsBegin, SessionsStep, PTL DEF SessionsSpec

\* For any runs, dialects and lines, and for any nodes and specs where compiles
\* do not overlap: once a run's handler has ended none of its rows pulses (detach
\* and drain), whenever the app dies a manifest stands on complete nodes, and the
\* specs refused are those with a cycle.
THEOREM WorkIsSafe ==
  ASSUME OneCompile
  PROVE  SessionsSpec => []WorkSafe
<1>1. SessionsInit => TimelineInv /\ StoreInv /\ JudgedSpec
  BY TimelineBegins, ArtifactsBegin, JudgingBegins DEF SessionsInit
<1>2. TimelineInv /\ StoreInv /\ JudgedSpec /\ [SessionsNext]_sessionsVars
        => TimelineInv' /\ StoreInv' /\ JudgedSpec'
  BY SeparateSteps, TimelineStep, ArtifactsStep, JudgingStep
<1>3. TimelineInv /\ StoreInv /\ JudgedSpec => WorkSafe
  BY JudgedRight DEF TimelineInv, StoreInv, WorkSafe
<1> QED
  BY <1>1, <1>2, <1>3, PTL DEF SessionsSpec

\* For any runs, calls and lines: the rows of a run whose handler has ended are the
\* calls its agent announced, each once, in that order and with the result printed
\* for it (AgentEvent's pairing), mixed dialects and "$" lines aside; and those an
\* old session is given from the raw lines of SmallCode are always the ones the run
\* was shown with (cleanup.ts).
THEOREM TimelineIsSafe == SessionsSpec => []TimelineSafe
<1>1. SessionsInit => TimelineInv /\ TimelineTie
  BY TimelineBegins, TieBegins DEF SessionsInit
<1>2. TimelineInv /\ TimelineTie /\ [SessionsNext]_sessionsVars => TimelineInv' /\ TimelineTie'
  BY SeparateSteps, TimelineStep, TieStep DEF TimelineInv
<1> QED
  BY <1>1, <1>2, TieIsSafe, PTL DEF SessionsSpec
=============================================================================
