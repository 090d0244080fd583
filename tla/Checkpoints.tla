---------------------------- MODULE Checkpoints ----------------------------
(***************************************************************************)
(* The checkpoints of one run id (src-tauri/src/commands/checkpoints.rs):  *)
(* snapshots of the working tree parked under private git refs, the list   *)
(* of them kept in memory, the rollback to one of them, and the clearing   *)
(* of them all when the session is deleted.                                *)
(*                                                                         *)
(* Every operation is a command of its own and nothing serializes them, so *)
(* an operation is cut at every await.  The commit an operation makes is   *)
(* named by the operation, and what is in it is left out.  The run id is   *)
(* the session id, so the runs of a session share the list and the refs.   *)
(***************************************************************************)
EXTENDS Naturals, Sequences

CONSTANTS
  MaxOps,     \* bound: operations ever begun
  ClearsAlone \* whether callers keep clears apart from everything else

Kinds == {"create", "restore", "clear"}

ASSUME CheckpointConstants == MaxOps \in Nat /\ ClearsAlone \in BOOLEAN

VARIABLES
  op,      \* the operations
  next,    \* seqs: the next seq of the run id, 0 when absent
  refs,    \* refs/aka/checkpoints/<run>/<seq>: the commit, or 0
  records  \* runs: the recorded checkpoints, in the order they completed

checkpointVars == <<op, next, refs, records>>

Ops == 1 .. MaxOps
Seqs == 0 .. MaxOps - 1

\* "snapshot": has reserved its seq.  "record": has parked its commit.
\* target: the commit to restore.  listed: the refs a clear has found and still
\* has to delete.
Operation == [kind : Kinds,
              pc : {"none", "begin", "snapshot", "record", "restore",
                    "seqs", "list", "delete", "done", "failed"},
              seq : Seqs, target : 0 .. MaxOps, listed : SUBSET Seqs]
NoOperation == [kind |-> "create", pc |-> "none", seq |-> 0, target |-> 0, listed |-> {}]

CheckpointsTypeOK ==
  /\ op \in [Ops -> Operation]
  /\ next \in 0 .. MaxOps
  /\ refs \in [Seqs -> 0 .. MaxOps]
  /\ records \in Seq([op : Ops, seq : Seqs])

CheckpointsInit ==
  /\ op = [o \in Ops |-> NoOperation]
  /\ next = 0
  /\ refs = [q \in Seqs |-> 0]
  /\ records = <<>>

InFlight(o) == op[o].pc \notin {"none", "done", "failed"}
To(o, pc) == op' = [op EXCEPT ![o].pc = pc]

\* A restore takes its own snapshot first, of kind "prerestore".
AfterSnapshot(o) == IF op[o].kind = "restore" THEN "restore" ELSE "done"

-----------------------------------------------------------------------------
\* A command is invoked: a restore for a checkpoint of the list.
Begin(o, kind) ==
  /\ op[o].pc = "none" /\ \A p \in 1 .. o - 1 : op[p].pc # "none"
  /\ ClearsAlone => \A p \in Ops : InFlight(p) => kind # "clear" /\ op[p].kind # "clear"
  /\ \E target \in 0 .. MaxOps :
       /\ IF kind = "restore" THEN \E i \in DOMAIN records : records[i].op = target
                              ELSE target = 0
       /\ op' = [op EXCEPT ![o] = [NoOperation EXCEPT !.kind = kind, !.pc = "begin",
                                                       !.target = target]]
  /\ UNCHANGED <<next, refs, records>>

\* The counter after a reservation; the slips forget to move it, or move it twice.
NextSeqStuck == next
NextSeqTwice == next + 2
NextSeq == next + 1

\* create_checkpoint_inner: the seq is reserved under its lock.
Reserve(o) ==
  /\ op[o].pc = "begin" /\ op[o].kind # "clear"
  /\ op' = [op EXCEPT ![o].pc = "snapshot", ![o].seq = next]
  /\ next' = NextSeq
  /\ UNCHANGED <<refs, records>>

\* snapshot: the tree goes into a commit, which is parked under its ref.
UpdateRef(o) ==
  /\ op[o].pc = "snapshot"
  /\ refs' = [refs EXCEPT ![op[o].seq] = o]
  /\ To(o, "record")
  /\ UNCHANGED <<next, records>>

\* git failed: a create returns the error, a restore goes on without.
SnapshotFails(o) ==
  /\ op[o].pc = "snapshot"
  /\ To(o, IF op[o].kind = "restore" THEN "restore" ELSE "failed")
  /\ UNCHANGED <<next, refs, records>>

Record(o) ==
  /\ op[o].pc = "record"
  /\ records' = Append(records, [op |-> o, seq |-> op[o].seq])
  /\ To(o, AfterSnapshot(o))
  /\ UNCHANGED <<next, refs>>

\* restore, or its failure.
Restore(o) ==
  /\ op[o].pc = "restore"
  /\ To(o, "done") \/ To(o, "failed")
  /\ UNCHANGED <<next, refs, records>>

-----------------------------------------------------------------------------
\* clear_checkpoints: the list, then the seqs, then the refs found.
ClearRecords(o) ==
  /\ op[o].pc = "begin" /\ op[o].kind = "clear"
  /\ records' = <<>>
  /\ To(o, "seqs")
  /\ UNCHANGED <<next, refs>>

ClearSeqs(o) ==
  /\ op[o].pc = "seqs"
  /\ next' = 0
  /\ To(o, "list")
  /\ UNCHANGED <<refs, records>>

\* for-each-ref; the slip clears only what the list in memory names.
ListedRecorded == {records[i].seq : i \in DOMAIN records}
Listed == {q \in Seqs : refs[q] # 0}

ListRefs(o) ==
  /\ op[o].pc = "list"
  /\ op' = [op EXCEPT ![o].pc = "delete", ![o].listed = Listed]
  /\ UNCHANGED <<next, refs, records>>

DeleteRef(o) ==
  /\ op[o].pc = "delete"
  /\ IF op[o].listed = {}
       THEN To(o, "done") /\ UNCHANGED refs
       ELSE \E q \in op[o].listed :
              /\ refs' = [refs EXCEPT ![q] = 0]
              /\ op' = [op EXCEPT ![o].listed = @ \ {q}]
  /\ UNCHANGED <<next, records>>

-----------------------------------------------------------------------------
\* The app restarts: memory is gone and the refs stay.
AppRestarts ==
  /\ next # 0 \/ records # <<>>
  /\ op' = [o \in Ops |-> IF InFlight(o) THEN [op[o] EXCEPT !.pc = "failed"] ELSE op[o]]
  /\ next' = 0
  /\ records' = <<>>
  /\ UNCHANGED refs

OpStep(o) ==
  \/ Reserve(o) \/ UpdateRef(o) \/ SnapshotFails(o) \/ Record(o) \/ Restore(o)
  \/ ClearRecords(o) \/ ClearSeqs(o) \/ ListRefs(o) \/ DeleteRef(o)

CheckpointsNext ==
  \/ \E o \in Ops : OpStep(o) \/ \E kind \in Kinds : Begin(o, kind)
  \/ AppRestarts

CheckpointsSpec == CheckpointsInit /\ [][CheckpointsNext]_checkpointVars

-----------------------------------------------------------------------------
(* What the code guarantees.                                               *)

\* A private ref keeps every listed checkpoint from gc, whatever creates,
\* rollbacks and restarts of the app overlap, as long as clears are kept apart.
Pinned == \A i \in DOMAIN records : refs[records[i].seq] = records[i].op

\* The commit a rollback goes back to is still held by a ref while the rollback
\* takes its own snapshot first, whatever else is created or rolled back.
TargetPinned ==
  \A o \in Ops :
    op[o].kind = "restore" /\ InFlight(o) => \E q \in Seqs : refs[q] = op[o].target

\* What is listed, or about to be restored, is there to be restored.
Restorable == Pinned /\ TargetPinned

\* "Forget a run's checkpoints and delete its private refs": when a clear and
\* every operation begun before it are over, no ref is left, not even one of
\* an earlier launch.  It fails when a snapshot overlaps the clear.
ClearLeavesNothing ==
  \A o \in Ops :
    /\ op[o].kind = "clear" /\ op[o].pc = "done"
    /\ \A p \in Ops : ~InFlight(p)
    /\ \A p \in Ops : p > o => op[p].pc = "none"
    => \A q \in Seqs : refs[q] = 0

\* A checkpoint that is listed can be gone back to, and of a cleared run none
\* is left.
CheckpointsSafe == Restorable /\ ClearLeavesNothing
=============================================================================
