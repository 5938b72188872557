---------------------------- MODULE ProviderStream ----------------------------
(***************************************************************************)
(* The streamed answer of a model (openai_proto.rs, anthropic.rs and       *)
(* openai_compat.rs of crates/adaclaw-providers): what the network brings  *)
(* in pieces of any length is cut into lines, lines are put together to an *)
(* answer, and the text of each is handed on at once.  The service is      *)
(* external: it sends one event a line for each part of its reply.         *)
(***************************************************************************)
EXTENDS Naturals, Sequences, FiniteSets

CONSTANTS
  Replies,       \* what the model has to say: a sequence of blocks, of text or a tool call
  MaxPiece       \* bound on the units that come in one piece

(* A block is [kind, parts]: of text, of a thought in <think> tags, or a    *)
(* tool call, with the pieces it is sent in; "wide" for one with a         *)
(* character of several bytes, "plain" for others.                         *)
Dialects == {"anthropic", "openai", "compat"}
Block(k, p) == [kind |-> k, parts |-> p]

BlockSet == [kind : {"text", "thought", "tool"}, parts : Seq({"plain", "wide"})]

ASSUME StreamAssumption == Replies \subseteq Seq(BlockSet) /\ MaxPiece \in Nat

VARIABLES
  dialect, said,     \* the service and its reply
  read,              \* units that have come
  buffer,            \* buf: units that make no line yet; a garbled unit is marked
  assembly,          \* the assembler: content, tool calls, and whether usage was told
  deltas,            \* deltas handed on
  streamEnd,         \* "open", "done", "error", "refused"
  cutWide            \* history: a wide character came in two pieces

streamVars == <<dialect, said, read, buffer, assembly, deltas, streamEnd, cutWide>>

-----------------------------------------------------------------------------
(* The first n sequences of a list joined together, for each n. *)
Joins(ss) ==
  LET upTo[n \in 0..Len(ss)] == IF n = 0 THEN <<>> ELSE upTo[n - 1] \o ss[n]
  IN upTo
Concat(ss) == Joins(ss)[Len(ss)]

(* What of a list is in S. *)
Among(list, S) ==
  Concat([n \in DOMAIN list |-> IF list[n] \in S THEN <<list[n]>> ELSE <<>>])

Event(kind, block, part, how) == [kind |-> kind, block |-> block, part |-> part, how |-> how]
IsTool(reply, b) == reply[b].kind = "tool"
ToolNumber(reply, b) == Cardinality({i \in 1..b : IsTool(reply, i)})

(* The events of a block.  OpenAI numbers the tools, Anthropic the blocks. *)
BlockEvents(d, reply, b) ==
  LET parts == reply[b].parts
      of == IF IsTool(reply, b) THEN "json" ELSE "text"
      n == IF d # "anthropic" /\ IsTool(reply, b) THEN ToolNumber(reply, b) ELSE b
      begin == IF IsTool(reply, b) THEN <<Event("tool", n, b, "plain")>>
               ELSE IF d = "anthropic" THEN <<Event("block", n, b, "plain")>> ELSE <<>>
  IN begin \o [i \in DOMAIN parts |-> Event(of, n, <<b, i>>, parts[i])]

Blocks(d, reply) == [b \in DOMAIN reply |-> BlockEvents(d, reply, b)]

Events(d, reply) ==
  Concat(Blocks(d, reply))
    \o <<Event("usage", 0, 0, "plain")>>
    \o (IF d = "anthropic" THEN <<>> ELSE <<Event("end", 0, 0, "plain")>>)

(* Units of the wire: a wide event has a character of two bytes. *)
Line(e, i) ==
  LET unit(u) == [event |-> i, unit |-> u, good |-> TRUE]
  IN (IF e.how = "wide" THEN <<unit("first byte"), unit("last byte")>> ELSE <<unit("bytes")>>) \o <<unit("newline")>>

Sending == Events(dialect, said)
Lines == [i \in DOMAIN Sending |-> Line(Sending[i], i)]
Wire == Concat(Lines)

-----------------------------------------------------------------------------
NoAnswer == [content |-> <<>>, tools |-> <<>>, usage |-> FALSE]
NoTool == [name |-> 0, json |-> <<>>]

StreamInit ==
  /\ dialect \in Dialects /\ said \in Replies
  /\ read = 0 /\ buffer = <<>> /\ assembly = NoAnswer /\ deltas = <<>>
  /\ streamEnd = "open" /\ cutWide = FALSE

(* from_utf8_lossy looks at one piece alone: half a character becomes a     *)
(* replacement character.                                                  *)
Decoded(piece) ==
  [i \in DOMAIN piece |->
     [piece[i] EXCEPT !.good = ~ \/ piece[i].unit = "first byte" /\ i = Len(piece)
                                 \/ piece[i].unit = "last byte" /\ i = 1]]

HasLine == \E i \in DOMAIN buffer : buffer[i].unit = "newline"
LineEnd == CHOOSE i \in DOMAIN buffer : buffer[i].unit = "newline" /\ \A j \in 1..i - 1 : buffer[j].unit # "newline"

(* The next piece comes when every line was taken. *)
PieceArrives(n) ==
  /\ streamEnd = "open" /\ ~HasLine /\ read + n <= Len(Wire)
  /\ LET piece == SubSeq(Wire, read + 1, read + n)
     IN /\ buffer' = buffer \o Decoded(piece)
        /\ cutWide' = (cutWide \/ \E i \in DOMAIN piece : ~Decoded(piece)[i].good)
  /\ read' = read + n
  /\ UNCHANGED <<dialect, said, assembly, deltas, streamEnd>>

(* Mutant: what follows the line is thrown away. *)
RestNone == <<>>

(* take_sse_line: what follows the line stays. *)
RestOfBuffer == SubSeq(buffer, LineEnd + 1, Len(buffer))

(* OpenAiStreamAssembler::push for tool calls, content_block_start for      *)
(* Anthropic: the list grows to the number that is named.                  *)
Grown(list, n) == [i \in 1..(IF n > Len(list) THEN n ELSE Len(list)) |-> IF i <= Len(list) THEN list[i] ELSE NoTool]

(* Mutant: a tool call takes the fragments of the last one. *)
AssembledInFirst(a, e, good) ==
  CASE e.kind = "text" -> [a EXCEPT !.content = Append(@, <<e.part, good>>)]
    [] e.kind = "block" -> [a EXCEPT !.tools = Grown(@, e.block)]
    [] e.kind = "tool" -> [a EXCEPT !.tools = [Grown(@, e.block) EXCEPT ![e.block] = [NoTool EXCEPT !.name = e.part]]]
    [] e.kind = "json" -> [a EXCEPT !.tools[1].json = Append(@, <<e.part, good>>)]
    [] e.kind = "usage" -> [a EXCEPT !.usage = TRUE]

Assembled(a, e, good) ==
  CASE e.kind = "text" -> [a EXCEPT !.content = Append(@, <<e.part, good>>)]
    [] e.kind = "block" -> [a EXCEPT !.tools = Grown(@, e.block)]
    [] e.kind = "tool" -> [a EXCEPT !.tools = [Grown(@, e.block) EXCEPT ![e.block] = [NoTool EXCEPT !.name = e.part]]]
    [] e.kind = "json" -> [a EXCEPT !.tools[e.block].json = Append(@, <<e.part, good>>)]
    [] e.kind = "usage" -> [a EXCEPT !.usage = TRUE]

(* One line: a delta is handed on, and [DONE] ends an OpenAI stream.        *)
TakeLine ==
  /\ streamEnd = "open" /\ HasLine
  /\ LET line == SubSeq(buffer, 1, LineEnd)
         e == Sending[line[1].event]
         good == \A i \in DOMAIN line : line[i].good
     IN /\ buffer' = RestOfBuffer
        /\ IF e.kind = "end" THEN streamEnd' = "done" /\ UNCHANGED <<assembly, deltas>>
           ELSE /\ assembly' = Assembled(assembly, e, good)
                /\ deltas' = IF e.kind = "text" THEN Append(deltas, <<e.part, good>>) ELSE deltas
                /\ UNCHANGED streamEnd
  /\ UNCHANGED <<dialect, said, read, cutWide>>

(* The service ends the body, at the end or before: the answer is what has  *)
(* come; a line without its end is dropped.                                *)
BodyEnds ==
  /\ streamEnd = "open" /\ ~HasLine /\ streamEnd' = "done"
  /\ UNCHANGED <<dialect, said, read, buffer, assembly, deltas, cutWide>>

ConnectionBreaks ==
  /\ streamEnd = "open" /\ ~HasLine /\ streamEnd' = "error"
  /\ UNCHANGED <<dialect, said, read, buffer, assembly, deltas, cutWide>>

(* An answer of another status is an error at once. *)
RequestRefused ==
  /\ streamEnd = "open" /\ read = 0 /\ streamEnd' = "refused"
  /\ UNCHANGED <<dialect, said, read, buffer, assembly, deltas, cutWide>>

StreamNext ==
  \/ \E n \in 1..MaxPiece : PieceArrives(n)
  \/ TakeLine \/ BodyEnds \/ ConnectionBreaks \/ RequestRefused

StreamSpec == StreamInit /\ [][StreamNext]_streamVars

(* A few short replies, for TLC. *)
ShortReplies ==
  {<<Block("text", <<"wide">>)>>,
   <<Block("tool", <<>>)>>,
   <<Block("thought", <<"plain">>), Block("text", <<"plain">>)>>}

-----------------------------------------------------------------------------
(* Arguments that are not JSON, the empty ones among them, are null. *)
Arguments(t) == IF t.json = <<>> THEN <<"null">> ELSE t.json

(* A part of the answer: which one of the reply, and whether it is whole.   *)
(* And the tool calls that have a name.                                    *)
Marks == (Nat \X Nat) \X BOOLEAN
NamedTools == [name : Nat \ {0}, json : Seq(Marks)]

(* finish: tool calls without a name are dropped. *)
Finished ==
  LET tools == Among(assembly.tools, NamedTools)
  IN [assembly EXCEPT !.tools = [i \in DOMAIN tools |->
        [name |-> tools[i].name, arguments |-> Arguments(tools[i])]]]

(* strip_think_tags, which the compatible services' answers go through      *)
(* when they are not streamed.                                             *)
Hidden(b) == dialect = "compat" /\ said[b].kind = "thought"

PartsOf(b) == [i \in DOMAIN said[b].parts |-> <<<<b, i>>, TRUE>>]

(* What the service is asked without a stream is read block by block. *)
ShownParts ==
  [b \in DOMAIN said |-> IF IsTool(said, b) \/ Hidden(b) THEN <<>> ELSE PartsOf(b)]

(* parse_tool_calls keeps what is no JSON as it is. *)
CalledTools ==
  LET tools == Among([b \in DOMAIN said |-> b], {b \in DOMAIN said : IsTool(said, b)})
      none == IF dialect = "anthropic" THEN <<"{}">> ELSE <<"empty text">>
      arguments(b) == IF PartsOf(b) = <<>> THEN none ELSE PartsOf(b)
  IN [i \in DOMAIN tools |-> [name |-> tools[i], arguments |-> arguments(tools[i])]]

(* The same reply without a stream. *)
CalledAtOnce == [content |-> Concat(ShownParts), tools |-> CalledTools, usage |-> TRUE]

(* What was not only thought. *)
Visible == ({b \in DOMAIN said : ~Hidden(b)} \X Nat) \X BOOLEAN

AllHasCome == streamEnd = "done" /\ read = Len(Wire)

(* However the answer is cut into pieces, once all of it has come it is     *)
(* what a call without a stream returns: every tool call with its own      *)
(* arguments, the text in its order and as it was shown, and the usage.     *)
(* Three things differ:                                                    *)
(* a character that is cut in two is lost, a call without arguments has    *)
(* null for them, and what the model thought is not taken out.             *)
StreamIsLikeCall ==
  AllHasCome /\ ~cutWide =>
    /\ Among(Finished.content, Visible) = CalledAtOnce.content
    /\ deltas = Finished.content
    /\ Len(Finished.tools) = Len(CalledAtOnce.tools) /\ Finished.usage
    /\ \A i \in DOMAIN CalledAtOnce.tools :
         /\ Finished.tools[i].name = CalledAtOnce.tools[i].name
         /\ PartsOf(CalledAtOnce.tools[i].name) # <<>> => Finished.tools[i].arguments = CalledAtOnce.tools[i].arguments

(* engine.rs:1051: streamed or not, the return value is the same.          *)
StreamIsTheSame == AllHasCome => Finished = CalledAtOnce
=============================================================================
