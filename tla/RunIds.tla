------------------------------ MODULE RunIds -------------------------------
(***************************************************************************)
(* The names of runs.  The session id is the run id given to the backend;  *)
(* a run proper is a session together with the generation its submit       *)
(* claimed (sessionGen in src/stores/use-chat-store.ts).                   *)
(***************************************************************************)
EXTENDS Naturals, Sequences

CONSTANTS
  Sessions,   \* session ids, which are also the backend's run ids
  MaxGen      \* bound on the generations of one session

ASSUME RunIdsAssumption == MaxGen \in Nat \ {0}

Gens == 1 .. MaxGen
Run == Sessions \X Gens
=============================================================================
