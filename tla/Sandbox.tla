------------------------------ MODULE Sandbox -------------------------------
(***************************************************************************)
(* The active project's boundary (src-tauri/src/sandbox.rs) and the edits  *)
(* it lets through: apply_str_replace, apply_diff and delete_file.         *)
(*                                                                         *)
(* The app has one boundary, moved by calls nobody waits for when the user *)
(* views another project (src/AppShell.tsx); runs go on in the background, *)
(* each with the project it was launched in.  An edit reads the boundary   *)
(* once, when it begins.  No project is inside another.                    *)
(***************************************************************************)
EXTENDS Naturals, Sequences, FiniteSets, SequencesExt

CONSTANTS
  Folders,     \* projects
  NoFolder,
  Jobs,        \* edits of runs
  MaxSwitches, \* bound: changes of view
  MaxVanishes  \* bound: folders that are moved away

ASSUME SandboxConstants ==
  NoFolder \notin Folders /\ MaxSwitches \in Nat /\ MaxVanishes \in Nat

VARIABLES
  viewed,    \* activeProject
  boundary,  \* SandboxState
  moves,     \* set_sandbox and clear_sandbox calls under way, as begun
  standing,  \* the folders that are there
  jobs,
  switches,
  unclear    \* history: since the last switch from rest, a call failed or was overtaken

sandboxVars == <<viewed, boundary, moves, standing, jobs, switches, unclear>>

Somewhere == Folders \cup {NoFolder}
Job == [kind : {"none", "str_replace", "apply_diff", "delete_file"},
        project : Somewhere, target : Somewhere, snapshot : Somewhere,
        pc : {"idle", "launched", "called", "let", "kept", "done", "refused", "failed"}]

SandboxTypeOK ==
  /\ viewed \in Somewhere /\ boundary \in Somewhere /\ standing \subseteq Folders
  /\ moves \in Seq(Somewhere) /\ jobs \in [Jobs -> Job]
  /\ switches \in 0 .. MaxSwitches /\ unclear \in BOOLEAN

SandboxInit ==
  /\ viewed = NoFolder /\ boundary = NoFolder /\ moves = <<>> /\ standing = Folders
  /\ jobs = [j \in Jobs |-> [kind |-> "none", project |-> NoFolder, target |-> NoFolder,
                             snapshot |-> NoFolder, pc |-> "idle"]]
  /\ switches = 0 /\ unclear = FALSE

-----------------------------------------------------------------------------
(* The boundary.                                                           *)

\* The effect runs on a change of the project's path only.
View(f) ==
  /\ f # viewed /\ switches < MaxSwitches /\ switches' = switches + 1
  /\ viewed' = f /\ moves' = Append(moves, f)
  /\ unclear' = (unclear /\ moves # <<>>)
  /\ UNCHANGED <<boundary, standing, jobs>>

\* set_sandbox refuses what is no directory and leaves the boundary as it was.
Settles(f) == f = NoFolder \/ f \in standing
\* A slip: a boundary that is set is not moved.
MoveOnce(i) ==
  /\ i \in DOMAIN moves /\ moves' = RemoveAt(moves, i)
  /\ boundary' = IF boundary = NoFolder /\ Settles(moves[i]) THEN moves[i] ELSE boundary
  /\ unclear' = (unclear \/ i # 1 \/ ~Settles(moves[i]))
  /\ UNCHANGED <<viewed, standing, jobs, switches>>
Move(i) ==
  /\ i \in DOMAIN moves /\ moves' = RemoveAt(moves, i)
  /\ boundary' = IF Settles(moves[i]) THEN moves[i] ELSE boundary
  /\ unclear' = (unclear \/ i # 1 \/ ~Settles(moves[i]))
  /\ UNCHANGED <<viewed, standing, jobs, switches>>

Vanish(f) ==
  /\ f \in standing /\ Cardinality(Folders \ standing) < MaxVanishes
  /\ standing' = standing \ {f}
  /\ UNCHANGED <<viewed, boundary, moves, jobs, switches, unclear>>

-----------------------------------------------------------------------------
(* An edit of a run.                                                       *)

At(j, from, to) == jobs[j].pc = from /\ jobs' = [jobs EXCEPT ![j].pc = to]
KeepsBoundary == UNCHANGED <<viewed, boundary, moves, standing, switches, unclear>>

Launch(j) ==
  /\ viewed # NoFolder /\ jobs[j].pc = "idle"
  /\ jobs' = [jobs EXCEPT ![j].pc = "launched", ![j].project = viewed]
  /\ KeepsBoundary

\* The tool names a file by a path of its project's, or by an absolute one.
Call(j, kind, f) ==
  /\ jobs[j].pc = "launched"
  /\ jobs' = [jobs EXCEPT ![j].pc = "called", ![j].kind = kind, ![j].target = f]
  /\ KeepsBoundary

\* assert_within_sandbox, after links and dots in the path are resolved.
Within(f) == boundary # NoFolder /\ f = boundary
\* A slip: the project of the run is not compared.
OwnProjectAny(job) == TRUE
\* Of a deletion only the target is compared.
OwnProject(job) == job.kind = "delete_file" \/ Within(job.project)
LetThrough(job) == OwnProject(job) /\ Within(job.target)
Refuse(j) == At(j, "called", "refused") /\ KeepsBoundary \* no such file or anchor, too
Enter(j) == LetThrough(jobs[j]) /\ At(j, "called", "let") /\ KeepsBoundary

\* create_checkpoint_inner of the run's project; its failure is ignored.
Snapshot(j) ==
  /\ jobs[j].pc = "let"
  /\ \E s \in {NoFolder} \cup (standing \cap {jobs[j].project}) :
       jobs' = [jobs EXCEPT ![j].pc = "kept", ![j].snapshot = s]
  /\ KeepsBoundary

Carry(j) ==
  /\ \/ jobs[j].target \in standing /\ At(j, "kept", "done")
     \/ At(j, "kept", "failed")
  /\ KeepsBoundary

SandboxNext ==
  \/ \E f \in Somewhere : View(f)
  \/ \E i \in DOMAIN moves : Move(i)
  \/ \E f \in Folders : Vanish(f)
  \/ \E j \in Jobs :
       \/ Launch(j)
       \/ \E kind \in {"str_replace", "apply_diff", "delete_file"}, f \in Folders :
            Call(j, kind, f)
       \/ Refuse(j) \/ Enter(j) \/ Snapshot(j) \/ Carry(j)

SandboxSpec == SandboxInit /\ [][SandboxNext]_sandboxVars

-----------------------------------------------------------------------------
(* At rest the boundary is the project the user views, unless since the    *)
(* last change of view a call failed or was overtaken by a later one.      *)
BoundaryFollowsView == moves = <<>> /\ ~unclear => boundary = viewed

(* What an edit changed can be undone with the checkpoint taken for it:    *)
(* the checkpoint is one of the project the file is in, whatever the user  *)
(* viewed meanwhile.  (A deletion by absolute path in the project in view, *)
(* of a run of another one, is let through and is not covered.)            *)
UndoCovers ==
  \A j \in Jobs :
    /\ jobs[j].pc = "done" /\ jobs[j].snapshot # NoFolder
    /\ jobs[j].kind = "delete_file" => jobs[j].target = jobs[j].project
    => jobs[j].snapshot = jobs[j].target

BoundarySafe == BoundaryFollowsView /\ UndoCovers

\* What delete_file's comment says of every deletion.  It does not hold.
DeletionsUndoable ==
  \A j \in Jobs : jobs[j].pc = "done" /\ jobs[j].snapshot # NoFolder
                    => jobs[j].snapshot = jobs[j].target
=============================================================================
