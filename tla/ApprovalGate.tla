---------------------------- MODULE ApprovalGate ----------------------------
(***************************************************************************)
(* What the approval modes of Execute runs promise the user                *)
(* (src/lib/builtin-approvals.ts, "Ask first" / "Accept edits" / "Auto"):  *)
(* a run starts a tool that its mode gates only in answer to a yes given   *)
(* to the card on screen, which names that very run and that very tool, or *)
(* when the user has asked for yes to be remembered for the tool.          *)
(***************************************************************************)
CONSTANTS Runs, Tools, Idle, NoCard   \* Idle is no tool

VARIABLES
  running, \* runs under way
  gated,   \* the tools each run must ask for, fixed when it begins;
           \* all of them while it is not under way
  always,  \* tools the user has approved for good
  card,    \* the run and the tool the user is asked about
  doing    \* the tool each run is executing

gateVars == <<running, gated, always, card, doing>>

GateInit ==
  /\ running = {}
  /\ gated = [r \in Runs |-> Tools]
  /\ always = {}
  /\ card = NoCard
  /\ doing = [r \in Runs |-> Idle]

\* A run begins under a rule, with no card on screen.
Begin(r, rule) ==
  /\ r \notin running
  /\ running' = running \cup {r}
  /\ gated' = [gated EXCEPT ![r] = rule]
  /\ card' = NoCard
  /\ UNCHANGED <<always, doing>>

\* A run ends, and may take the card with it.
End(r) ==
  /\ r \in running /\ doing[r] = Idle
  /\ running' = running \ {r}
  /\ gated' = [gated EXCEPT ![r] = Tools]
  /\ card' \in {card, NoCard}
  /\ UNCHANGED <<always, doing>>

Start(r, t) ==
  /\ r \in running /\ doing[r] = Idle
  /\ t \notin gated[r] \/ t \in always
  /\ doing' = [doing EXCEPT ![r] = t]
  /\ UNCHANGED <<running, gated, always, card>>

Ask(r, t) ==
  /\ r \in running /\ doing[r] = Idle /\ t \in gated[r]
  /\ card' = <<r, t>>
  /\ UNCHANGED <<running, gated, always, doing>>

\* The user says yes to the card; the run it names may start the tool.
Yes(r, t) ==
  /\ card = <<r, t>> /\ card' = NoCard
  /\ always' \in {always, always \cup {t}}
  /\ \/ UNCHANGED doing
     \/ doing[r] = Idle /\ doing' = [doing EXCEPT ![r] = t]
  /\ UNCHANGED <<running, gated>>

\* The user says no, possibly taking an earlier yes back.
No(r, t) ==
  /\ card = <<r, t>> /\ card' = NoCard
  /\ always' \in {always, always \ {t}}
  /\ UNCHANGED <<running, gated, doing>>

\* The card goes away without an answer.
Dismiss ==
  /\ card # NoCard /\ card' = NoCard
  /\ UNCHANGED <<running, gated, always, doing>>

Finish(r) ==
  /\ doing[r] # Idle
  /\ doing' = [doing EXCEPT ![r] = Idle]
  /\ UNCHANGED <<running, gated, always, card>>

GateNext ==
  \/ \E r \in Runs : Finish(r) \/ End(r) \/ \E rule \in SUBSET Tools : Begin(r, rule)
  \/ \E r \in Runs, t \in Tools : Start(r, t) \/ Ask(r, t) \/ Yes(r, t) \/ No(r, t)
  \/ Dismiss

GateSpec == GateInit /\ [][GateNext]_gateVars
=============================================================================
