------------------------------- MODULE ToolLoop -------------------------------
(***************************************************************************)
(* One turn of the engine (run_tool_loop_with_options in                   *)
(* src/agents/engine.rs): the model is asked again and again, its tool     *)
(* calls run side by side, and a final answer may be put to the model once *)
(* more (reflection).  What compaction does to the context is              *)
(* SessionHistory's.                                                       *)
(*                                                                         *)
(* With it what Anthropic is sent of the context (build_messages and       *)
(* fold_system of anthropic.rs in crates/adaclaw-providers): system        *)
(* messages go to a field of their own, and the results of one assistant   *)
(* message into one user message.  A message is [role, calls, answers]:    *)
(* the ids of the tool calls it makes, and the ids of the calls it         *)
(* answers, one at most.                                                   *)
(***************************************************************************)
EXTENDS Naturals, Sequences, FiniteSets

CONSTANTS
  KnownTools,
  ModelAnswers,     \* [native, text, admits]: calls in the API's own form, <<tool, arguments>>,
                    \* calls in the text, <<form, call>>, and whether the text speaks of a failure
  OldContexts,      \* what the history shows when the turn begins
  MaxIterations,    \* max_iterations
  MaxContextRetries \* 2 retries after an error about the context window

PlainMessage == [role : {"system", "user", "assistant"}, calls : {<<>>}, answers : {<<>>}]

(* visible_messages: what was said, and none of the calls. *)
ASSUME ToolLoopAssumption ==
  /\ MaxIterations \in Nat /\ MaxContextRetries \in Nat
  /\ \A a \in ModelAnswers : a.native \in Seq(STRING \X STRING) /\ a.text \in Seq(STRING \X (STRING \X STRING))
  /\ OldContexts \subseteq Seq(PlainMessage)

VARIABLES
  turn,             \* [step, iteration, retry, toolError, streaming, verify]
  context,          \* messages
  pending, slots,   \* the calls of this iteration, and what became of them
  finished,         \* the calls that came back, in that order
  streamed,         \* the model call whose text the reader saw last
  asked,            \* number of model calls
  candidate,        \* the answer that is being checked
  reply,
  failures          \* history: a tool has failed; and whether the answer was checked

toolLoopVars == <<turn, context, pending, slots, finished, streamed, asked, candidate, reply, failures>>

NoTurn == [step |-> "idle", iteration |-> 0, retry |-> 0, toolError |-> FALSE, streaming |-> FALSE, verify |-> FALSE]
NoReply == [of |-> 0, corrected |-> FALSE, admits |-> FALSE]

Message(role, calls, answers) == [role |-> role, calls |-> calls, answers |-> answers]

(* What is sent of one message or of several: their places in the context. *)
Sent(role, calls, answers, from) ==
  [role |-> role, calls |-> calls, answers |-> answers, from |-> from]

Gathered(run, m, i) ==
  [out |-> run.out, results |-> run.results \o m.answers, of |-> run.of \cup {i}]

(* A message that is no result ends a run of results. *)
Flushed(run) ==
  IF run.results = <<>> THEN run.out
  ELSE Append(run.out, Sent("user", <<>>, run.results, run.of))

(* One message more. *)
WithMessage(run, m, i) ==
  IF m.role = "system" THEN run
  ELSE IF m.answers # <<>> THEN Gathered(run, m, i)
  ELSE [out |-> Append(Flushed(run), Sent(m.role, m.calls, <<>>, {i})), results |-> <<>>, of |-> {}]

Built(chat) ==
  LET upTo[i \in 0..Len(chat)] ==
        IF i = 0 THEN [out |-> <<>>, results |-> <<>>, of |-> {}] ELSE WithMessage(upTo[i - 1], chat[i], i)
  IN upTo

BuildMessages(chat) == Flushed(Built(chat)[Len(chat)])

(* Mutant: the prompt of the agent replaces what the context says. *)
FoldOver(hasPrompt, chat) == IF hasPrompt THEN {} ELSE {i \in DOMAIN chat : chat[i].role = "system"}

(* fold_system: the places of what joins the system prompt. *)
FoldSystem(hasPrompt, chat) == {i \in DOMAIN chat : chat[i].role = "system"}

-----------------------------------------------------------------------------
ToolLoopInit ==
  /\ turn = NoTurn /\ context \in OldContexts
  /\ pending = <<>> /\ slots = <<>> /\ finished = <<>>
  /\ streamed = 0 /\ asked = 0
  /\ candidate = NoReply /\ reply = NoReply
  /\ failures = [any |-> FALSE, checked |-> FALSE]

-----------------------------------------------------------------------------
(* verify: the message has one of the words of needs_reflection_tier1. *)
BeginTurn(streaming, verify) ==
  /\ turn.step = "idle"
  /\ turn' = [NoTurn EXCEPT !.step = IF MaxIterations = 0 THEN "failed" ELSE "ask",
                            !.streaming = streaming, !.verify = verify]
  /\ context' = Append(context, Message("user", <<>>, <<>>))
  /\ UNCHANGED <<pending, slots, finished, streamed, asked, candidate, reply, failures>>

(* stream_or_call: what comes before the stream breaks is shown already. *)
Shows(some) == streamed' = IF turn.streaming /\ some THEN asked + 1 ELSE streamed
Asks == turn.step = "ask" /\ asked' = asked + 1

(* Mutant: one retry too many. *)
RetryLate(some) ==
  /\ Asks /\ Shows(some) /\ turn.retry <= MaxContextRetries
  /\ turn' = [turn EXCEPT !.retry = @ + 1]
  /\ UNCHANGED <<context, pending, slots, finished, candidate, reply, failures>>

(* detect_context_window_error *)
RetryShorter(some) ==
  /\ Asks /\ Shows(some) /\ turn.retry < MaxContextRetries
  /\ turn' = [turn EXCEPT !.retry = @ + 1]
  /\ UNCHANGED <<context, pending, slots, finished, candidate, reply, failures>>

ModelFails(some) ==
  /\ Asks /\ Shows(some)
  /\ turn' = [turn EXCEPT !.step = "failed"]
  /\ UNCHANGED <<context, pending, slots, finished, candidate, reply, failures>>

(* ToolCallParser::parse: the first of three forms that is found at all    *)
(* hides the others.  The places of the calls it finds.                    *)
Parsed(text) ==
  LET Of(forms) == {i \in DOMAIN text : text[i][1] \in forms}
      Tagged == Of({"tool_call", "function_call", "invoke"})
  IN IF Of({"fence"}) # {} THEN Of({"fence"}) ELSE IF Tagged # {} THEN Tagged ELSE Of({"short"})

(* The tags of the second form are looked for one by one. *)
Rank(form) == CASE form = "function_call" -> 1 [] form = "invoke" -> 2 [] OTHER -> 0

FoundBefore(text, i, j) ==
  Rank(text[i][1]) < Rank(text[j][1]) \/ (Rank(text[i][1]) = Rank(text[j][1]) /\ i < j)

(* collect_text_tool_calls: a call that is repeated word by word runs once. *)
TextCalls(text) ==
  LET kept == {i \in Parsed(text) : \A j \in Parsed(text) : FoundBefore(text, j, i) => text[j][2] # text[i][2]}
      Nth(n) == CHOOSE i \in kept : Cardinality({j \in kept : FoundBefore(text, j, i)}) = n - 1
  IN [n \in 1..Cardinality(kept) |-> [id |-> <<>>, call |-> text[Nth(n)][2]]]

(* The id of a call is its place in the answer and in the turn; a call in  *)
(* the text has none.                                                      *)
NativeCalls(calls) == [n \in DOMAIN calls |-> [id |-> <<asked + 1, n>>, call |-> calls[n]]]

(* An unknown tool has its result at once. *)
ModelCallsTools(a) ==
  LET native == a.native # <<>>
      calls == IF native THEN NativeCalls(a.native) ELSE TextCalls(a.text)
  IN /\ Asks /\ Shows(TRUE) /\ calls # <<>>
     /\ context' = Append(context, Message("assistant", IF native THEN [n \in DOMAIN calls |-> calls[n].id] ELSE <<>>, <<>>))
     /\ pending' = calls
     /\ slots' = [n \in DOMAIN calls |-> IF calls[n].call[1] \in KnownTools THEN "running" ELSE "failed"]
     /\ finished' = <<>>
     /\ turn' = [turn EXCEPT !.step = "tools",
                             !.toolError = @ \/ \E n \in DOMAIN calls : calls[n].call[1] \notin KnownTools]
     /\ failures' = [failures EXCEPT !.any = @ \/ \E n \in DOMAIN calls : calls[n].call[1] \notin KnownTools]
     /\ UNCHANGED <<candidate, reply>>

ToolReturns(n, ok) ==
  /\ turn.step = "tools" /\ slots[n] = "running"
  /\ slots' = [slots EXCEPT ![n] = IF ok THEN "done" ELSE "failed"]
  /\ finished' = Append(finished, n)
  /\ failures' = [failures EXCEPT !.any = @ \/ ~ok]
  /\ UNCHANGED <<turn, context, pending, streamed, asked, candidate, reply>>

ResultOf(n) == Message("tool", <<>>, IF pending[n].id = <<>> THEN <<>> ELSE <<pending[n].id>>)

(* Mutant: the results come as the tools come back. *)
ResultsAsFinished ==
  LET Unknown == SelectSeq([n \in DOMAIN pending |-> n], LAMBDA n : pending[n].call[1] \notin KnownTools)
      order == Unknown \o finished
  IN [i \in DOMAIN order |-> ResultOf(order[i])]

(* Results in the order of the calls. *)
Results == [n \in DOMAIN pending |-> ResultOf(n)]

(* Mutant: only the last tool counts. *)
ErrorOfLast(before) == slots[Len(slots)] = "failed"

ErrorSoFar(before) == before \/ \E n \in DOMAIN slots : slots[n] = "failed"

(* After the last iteration, the turn has failed. *)
PushResults ==
  /\ turn.step = "tools" /\ \A n \in DOMAIN slots : slots[n] # "running"
  /\ context' = context \o Results
  /\ turn' = [turn EXCEPT !.step = IF turn.iteration + 1 = MaxIterations THEN "failed" ELSE "ask",
                          !.iteration = @ + 1, !.retry = 0, !.toolError = ErrorSoFar(@)]
  /\ pending' = <<>> /\ slots' = <<>> /\ finished' = <<>>
  /\ UNCHANGED <<streamed, asked, candidate, reply, failures>>

(* Mutant: what is streamed is checked as well. *)
ReflectAlways(a) == (turn.toolError /\ ~a.admits) \/ turn.iteration >= 2 \/ turn.verify

(* needs_reflection_tier1, and never of what was streamed. *)
Reflects(a) ==
  /\ ~turn.streaming
  /\ \/ turn.toolError /\ ~a.admits
     \/ turn.iteration >= 2
     \/ turn.verify

Complete(r) == reply' = r /\ turn' = [turn EXCEPT !.step = "done"]

ModelAnswersUser(a) ==
  LET said == [of |-> asked + 1, corrected |-> FALSE, admits |-> a.admits]
  IN /\ Asks /\ Shows(TRUE) /\ a.native = <<>> /\ a.text = <<>>
     /\ context' = Append(context, Message("assistant", <<>>, <<>>))
     /\ IF Reflects(a) THEN candidate' = said /\ turn' = [turn EXCEPT !.step = "check"] /\ UNCHANGED reply
                       ELSE Complete(said) /\ UNCHANGED candidate
     /\ UNCHANGED <<pending, slots, finished, failures>>

(* tiered_reflect: yes, no, or an error, which keeps the answer. *)
Check(complete) ==
  /\ turn.step = "check" /\ asked' = asked + 1
  /\ failures' = [failures EXCEPT !.checked = TRUE]
  /\ IF complete THEN Complete(candidate) ELSE turn' = [turn EXCEPT !.step = "fix"] /\ UNCHANGED reply
  /\ UNCHANGED <<context, pending, slots, finished, streamed, candidate>>

Fix(fails) ==
  /\ turn.step = "fix" /\ asked' = asked + 1
  /\ Complete([candidate EXCEPT !.corrected = ~fails])
  /\ UNCHANGED <<context, pending, slots, finished, streamed, candidate, failures>>

ToolLoopNext ==
  \/ \E streaming, verify \in BOOLEAN : BeginTurn(streaming, verify)
  \/ \E some \in BOOLEAN : RetryShorter(some) \/ ModelFails(some)
  \/ \E a \in ModelAnswers : ModelCallsTools(a) \/ ModelAnswersUser(a)
  \/ \E n \in DOMAIN slots, ok \in BOOLEAN : ToolReturns(n, ok)
  \/ PushResults
  \/ \E b \in BOOLEAN : Check(b) \/ Fix(b)

ToolLoopSpec == ToolLoopInit /\ [][ToolLoopNext]_toolLoopVars

-----------------------------------------------------------------------------
(* Whenever the model is asked, every message that makes tool calls is     *)
(* followed by one message with exactly their results, in their order, and *)
(* no result comes without its call.                                       *)
CallsMeetResults ==
  turn.step \in {"ask", "check", "fix"} =>
    LET out == BuildMessages(context)
    IN \A i \in DOMAIN out :
         /\ out[i].calls # <<>> => i < Len(out) /\ out[i + 1].answers = out[i].calls
         /\ out[i].answers # <<>> => i > 1 /\ out[i - 1].calls = out[i].answers

(* The whole context reaches the model, and in its order: as a message, as *)
(* a part of one, or in the system prompt.                                 *)
NothingIsLeftUnsaid ==
  LET out == BuildMessages(context)
  IN /\ (UNION {out[i].from : i \in DOMAIN out}) \cup FoldSystem(TRUE, context) = DOMAIN context
     /\ \A i, j \in DOMAIN out : i < j => \A m \in out[i].from, n \in out[j].from : m < n

(* The reader who watched the stream has seen the reply that is recorded,  *)
(* and last of all.                                                        *)
ShownIsSaid ==
  turn.step = "done" /\ turn.streaming =>
    streamed = reply.of /\ ~reply.corrected

(* An answer that passes over the failure of a tool is checked before it   *)
(* is given.                                                               *)
ErrorsAreChecked ==
  turn.step = "done" /\ ~turn.streaming /\ failures.any /\ ~reply.admits => failures.checked

(* A turn asks the model no more often than its iterations, each with its  *)
(* retries, and two questions of reflection.                               *)
AskedInBounds == asked <= MaxIterations * (MaxContextRetries + 1) + 2

(* What a turn owes: results to calls, the whole context to the model, the *)
(* recorded reply to the reader, a check to an answer after a failure, and *)
(* an end.                                                                 *)
TurnIsWhole ==
  /\ CallsMeetResults
  /\ NothingIsLeftUnsaid
  /\ ShownIsSaid
  /\ ErrorsAreChecked
  /\ AskedInBounds
=============================================================================
