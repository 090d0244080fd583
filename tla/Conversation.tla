----------------------------- MODULE Conversation -----------------------------
(***************************************************************************)
(* What a provider is sent of a native tool loop.  The loop                *)
(* (src/lib/builtin-loop.ts) grows a conversation by the model's turns and *)
(* the results of their calls; before every request the validator          *)
(* (commands/message_validator.rs) drops what a provider would refuse, and *)
(* the adapter (commands/providers.rs) says the rest in the provider's own *)
(* terms.  A result must still stand beside its own call there.            *)
(*                                                                         *)
(* Contents are blank or not; a tool is its name, and a name may be        *)
(* missing.  A blank turn, asked again, leaves the conversation alone.     *)
(***************************************************************************)
EXTENDS Naturals, Sequences, FiniteSets, SequencesExt, FiniteSetsExt

CONSTANTS
  ToolNames,   \* names of tools
  CallIds,     \* the ids providers give to calls
  MaxTurnCalls, \* bound: calls in one turn of the model, for which there are ids
  MaxTurns     \* maxSteps: turns of the model

ASSUME ConversationConstants ==
  /\ MaxTurnCalls \in Nat /\ MaxTurns \in Nat
  /\ "" \notin ToolNames \cup CallIds
  /\ IsFiniteSet(CallIds) /\ MaxTurnCalls <= Cardinality(CallIds)

VARIABLES
  provider,   \* what the endpoint speaks
  messages,   \* the loop's conversation
  todo,       \* calls of the last turn still to be run
  turns,      \* turns the model has taken
  at          \* what the loop is doing

conversationVars == <<provider, messages, todo, turns, at>>

Providers == {"openai", "anthropic", "google"}
ToolCalls == [id : CallIds \cup {""}, name : ToolNames \cup {""}]

\* ran is the tool whose result this is: not in the message, only in the model.
Messages == [role : {"system", "user", "assistant", "tool"}, text : BOOLEAN,
             calls : SeqOf(ToolCalls, MaxTurnCalls), id : CallIds \cup {""},
             ran : ToolNames \cup {""}]

MessageOf(role, text, calls, id, ran) ==
  [role |-> role, text |-> text, calls |-> calls, id |-> id, ran |-> ran]
Says(role) == MessageOf(role, TRUE, <<>>, "", "")
assistantToolCallMessage(text, calls) == MessageOf("assistant", text, calls, "", "")
toolResultMessage(text, c) == MessageOf("tool", text, <<>>, c.id, c.name)

ConversationTypeOK ==
  /\ provider \in Providers
  /\ \A i \in DOMAIN messages : messages[i] \in Messages
  /\ todo \in SeqOf(ToolCalls, MaxTurnCalls)
  /\ turns \in 0 .. MaxTurns
  /\ at \in {"step", "model", "calls", "done"}

ConversationInit ==
  /\ provider \in Providers
  /\ messages = <<Says("system"), Says("user")>>
  /\ todo = <<>> /\ turns = 0 /\ at = "step"

-----------------------------------------------------------------------------
(* The validator.                                                          *)

\* normalize_tool_calls: a call without a name is dropped.
KeepNamed(named, c) == IF c.name = "" THEN named ELSE Append(named, c)
NamedCalls(calls) == FoldLeft(KeepNamed, <<>>, calls)

\* The calls kept so far that a result can refer to.
OpenIds(kept) ==
  (UNION {{c.id : c \in ToSet(kept[i].calls)} : i \in DOMAIN kept}) \ {""}
Anonymous(kept) ==
  \E i \in DOMAIN kept : \E c \in ToSet(kept[i].calls) : c.id = ""

Paired(kept, m) == IF m.id = "" THEN Anonymous(kept) ELSE m.id \in OpenIds(kept)

\* The slip lets a blank result go the way of any other blank message.
KeepResultUnlessBlank(kept, m) ==
  IF Paired(kept, m) /\ m.text THEN Append(kept, m) ELSE kept
\* A paired result is never dropped: blank, it says "(no output)".
KeepResult(kept, m) ==
  IF Paired(kept, m) THEN Append(kept, [m EXCEPT !.text = TRUE]) ELSE kept

Keep(kept, m) ==
  LET n == [m EXCEPT !.calls = NamedCalls(@)]
  IN IF m.role = "tool" THEN KeepResult(kept, m)
     ELSE IF n.text \/ n.calls # <<>> THEN Append(kept, n) ELSE kept

Sanitize(ms) == FoldLeft(Keep, <<>>, ms)

HasNonSystem(ms) == \E i \in DOMAIN ms : ms[i].role # "system"

-----------------------------------------------------------------------------
(* The adapters.  A turn has a speaker, may say something, makes calls and *)
(* may bring a result; ref is what the provider ties a result to its call  *)
(* by, name the tool.  What the system says goes in a field of its own.    *)
(* Both adapters skip a turn with nothing in it; the validator leaves none. *)

Tie(ref, name) == [ref |-> ref, name |-> name]
Turn(by, text, calls, result) == [by |-> by, text |-> text, calls |-> calls, result |-> result]
SystemTurn == Turn("system", FALSE, <<>>, <<>>)

\* anthropic_request, and what an OpenAI-compatible endpoint makes of the
\* messages as they are: calls and results are tied by the call's id.
ById(m) ==
  CASE m.role = "system" -> SystemTurn
    [] m.role = "tool"   -> Turn("user", FALSE, <<>>, <<Tie(m.id, m.ran)>>)
    [] OTHER -> Turn(m.role, m.text, [k \in DOMAIN m.calls |-> Tie(m.calls[k].id, m.calls[k].name)], <<>>)
RequestById(ms) == [i \in DOMAIN ms |-> ById(ms[i])]

\* google_request: ties them by the name, which it finds in call_names, the
\* names of the ids met up to there; the later call of an id wins.  The slip
\* collects the names of the whole conversation first.
NameAmong(ms, n, id) ==
  LET met == {j \in 1 .. n : \E c \in ToSet(ms[j].calls) : c.id = id}
      calls == ms[Max(met)].calls
  IN IF met = {} THEN id ELSE calls[Max({k \in DOMAIN calls : calls[k].id = id})].name
NameInAll(ms, i, id) == NameAmong(ms, Len(ms), id)
NameUpTo(ms, i, id) == NameAmong(ms, i, id)

ByName(ms, i) ==
  LET m == ms[i]
  IN CASE m.role = "system" -> SystemTurn
       [] m.role = "tool"   -> Turn("user", FALSE, <<>>, <<Tie(NameUpTo(ms, i, m.id), m.ran)>>)
       [] OTHER -> Turn(m.role, m.text, [k \in DOMAIN m.calls |-> Tie(m.calls[k].name, m.calls[k].name)], <<>>)
RequestByName(ms) == [i \in DOMAIN ms |-> ByName(ms, i)]

Request == LET kept == Sanitize(messages)
           IN IF provider = "google" THEN RequestByName(kept) ELSE RequestById(kept)

-----------------------------------------------------------------------------
(* The loop.                                                               *)

\* call_llm_tools: a conversation with nothing left to say is refused.
RequestTurn ==
  /\ at = "step" /\ turns < MaxTurns
  /\ turns' = turns + 1
  /\ at' = IF HasNonSystem(Sanitize(messages)) THEN "model" ELSE "done"
  /\ UNCHANGED <<provider, messages, todo>>

\* The ids of a turn's calls: Gemini gives none, and parse_google_response
\* counts them from "g-0" in every turn; Anthropic gives each its own; a local
\* runtime may give none.
GoogleId(k) == SetToSeq(CallIds)[k]
IdsOf(n) ==
  CASE provider = "google" -> {[k \in 1 .. n |-> GoogleId(k)]}
    [] provider = "anthropic" -> {f \in [1 .. n -> CallIds] : IsInjective(f)}
    [] OTHER -> {f \in [1 .. n -> CallIds] : IsInjective(f)} \cup {[k \in 1 .. n |-> ""]}

\* The calls of the last turn are never sent: they are left out.
TurnCalls(text, n) ==
  /\ at = "model" /\ turns < MaxTurns
  /\ \E ids \in IdsOf(n), names \in [1 .. n -> ToolNames \cup {""}] :
       LET calls == [k \in 1 .. n |-> [id |-> ids[k], name |-> names[k]]]
       IN /\ messages' = Append(messages, assistantToolCallMessage(text, calls))
          /\ todo' = calls
  /\ at' = "calls"
  /\ UNCHANGED <<provider, turns>>

\* A call has run and its result, which may be blank, is recorded.
CallEnds(text) ==
  /\ at = "calls" /\ todo # <<>>
  /\ messages' = Append(messages, toolResultMessage(text, Head(todo)))
  /\ todo' = Tail(todo)
  /\ at' = IF Len(todo) = 1 THEN "step" ELSE "calls"
  /\ UNCHANGED <<provider, turns>>

\* An answer, an error, a stop or a spent budget: nothing more is sent.
TalkEnds ==
  /\ at # "done"
  /\ at' = "done"
  /\ UNCHANGED <<provider, messages, todo, turns>>

ConversationNext ==
  \/ RequestTurn
  \/ \E text \in BOOLEAN, n \in 1 .. MaxTurnCalls : TurnCalls(text, n)
  \/ \E text \in BOOLEAN : CallEnds(text)
  \/ TalkEnds

ConversationSpec == ConversationInit /\ [][ConversationNext]_conversationVars

-----------------------------------------------------------------------------

\* Turn by turn: the calls still to be answered, and whether each turn of the
\* assistant so far found none left of the one before, and each result came in
\* its place.  The result of a call the model did not name is left out: its
\* call is.
Answering(acc, t) ==
  CASE t.by = "assistant" -> [ok |-> acc.ok /\ acc.open = <<>>, open |-> t.calls]
    [] t.result # <<>> /\ Head(t.result).name # "" ->
         IF acc.open = <<>> THEN [acc EXCEPT !.ok = FALSE]
         ELSE [ok |-> acc.ok /\ Head(acc.open) = Head(t.result), open |-> Tail(acc.open)]
    [] OTHER -> acc
Answers(req) == FoldLeft(Answering, [ok |-> TRUE, open |-> <<>>], req)

\* In every request each call stands with its own result, tied to it the way
\* the provider ties them and in the order of the calls: no tool_use dangles,
\* and none is answered by the result of another
\* (message_validator.rs sanitize, google_request's call_names).
NoDanglingCall == at = "model" => Answers(Request) = [ok |-> TRUE, open |-> <<>>]

\* Nothing that was said is lost on the way: every text of the user and of the
\* model is in the request (the keep rule of sanitize).
Said(ms) == {i \in DOMAIN ms : ms[i].role \in {"user", "assistant"} /\ ms[i].text}
ProseArrives ==
  at = "model" =>
    LET req == Request
    IN Cardinality({i \in DOMAIN req : req[i].text}) = Cardinality(Said(messages))

\* What the validator let through it lets through again unchanged.
SanitizedStays ==
  at = "model" => LET kept == Sanitize(messages) IN Sanitize(kept) = kept

ConversationSafe == NoDanglingCall /\ ProseArrives /\ SanitizedStays
=============================================================================
