--------------------------- MODULE MCBuiltinLoop ---------------------------
(***************************************************************************)
(* Instances for TLC of the built-in tool loop: its control, what it sends *)
(* of its conversation, and how a long file is read through it.  They      *)
(* share no state here, so each is explored while the others stay as they  *)
(* begin, where none of their fair actions is enabled.                     *)
(***************************************************************************)
EXTENDS BuiltinLoop, Conversation, ToolReads

CONSTANT Parts  \* those explored, of "loop", "conversation", "reads"

VARIABLE focus

builtinVars == <<focus, loopVars, conversationVars, readVars>>

BuiltinInit ==
  /\ focus \in Parts
  /\ LoopInit
  /\ IF focus = "conversation" THEN ConversationInit
     ELSE ConversationInit /\ provider = "openai"
  /\ IF focus = "reads" THEN ReadsInit ELSE ReadsInit /\ file = <<>> /\ offset = 1

BuiltinNext ==
  /\ \/ focus = "loop" /\ LoopNext /\ UNCHANGED <<conversationVars, readVars>>
     \/ focus = "conversation" /\ ConversationNext /\ UNCHANGED <<loopVars, readVars>>
     \/ focus = "reads" /\ ReadsNext /\ UNCHANGED <<loopVars, conversationVars>>
  /\ UNCHANGED focus

BuiltinSpec == BuiltinInit /\ [][BuiltinNext]_builtinVars /\ LoopFairness

BuiltinTypeOK == LoopTypeOK /\ ConversationTypeOK /\ ReadsTypeOK
=============================================================================
