----------------------------- MODULE MCServices -----------------------------
(* The parts that work for one turn, one call or one file at a time, for    *)
(* TLC: guards, memory, the tool loop, the providers' stream, start-up,     *)
(* sending and journals.  Within a part its callers interleave; the parts   *)
(* share no state here, so a behaviour is about one of them, and the others *)
(* stay where they start.                                                   *)
EXTENDS Estop, RateLimiter, Approval, Codes,
        Memory, Recall, Topics,
        ToolLoop, ProviderStream, ProviderErrors, Startup, Outgoing, Journal,
        Workspace, Skills, Allowlist, TLC

VARIABLE about

guardVars == <<estopVars, rateVars, approvalVars, pairingVars, otpVars, allowVars>>
memoryVars == <<indexVars, consolidationVars, recallVars, topicVars, markdownVars>>
turnVars == <<toolLoopVars, streamVars, errorVars>>
processVars == <<startupVars, outgoingVars, journalVars, workspaceVars, skillVars>>
vars == <<guardVars, memoryVars, turnVars, processVars, about>>

----------------------------------------------------------------------------
Merges ==
  {<<>>, <<<<"a", "b">>>>, <<<<"c", "a">>>>, <<<<"a", "b", "c">>>>, <<<<"a", "b">>, <<"a", "c">>>>,
   <<<<"b", "b">>>>, <<<<"a">>, <<"b", "x">>>>}

Entry(c, s, t) == [category |-> c, session |-> s, topic |-> t]
Entries ==
  {Entry("Core", "none", "none"), Entry("Global", "none", "none"),
   Entry("Conversation", "s1", "t1"), Entry("Conversation", "s1", "t2"), Entry("Conversation", "s2", "t1")}

Talk == {{"a"}, {"b", "c"}, {"a", "b"}, {"d"}}

(* A plain answer, one that admits doubt, three calls of which one is of an *)
(* unknown tool, and calls in the text, repeated and in two forms.          *)
Shell == <<"shell", "x">>
Model ==
  {[native |-> <<>>, text |-> <<>>, admits |-> FALSE],
   [native |-> <<>>, text |-> <<>>, admits |-> TRUE],
   [native |-> <<Shell, <<"nowhere", "x">>, Shell>>, text |-> <<>>, admits |-> FALSE],
   [native |-> <<>>, text |-> <<<<"invoke", Shell>>, <<"tool_call", Shell>>, <<"short", <<"nowhere", "x">>>>>>, admits |-> FALSE]}
Plain(r) == Message(r, <<>>, <<>>)
Contexts == {<<>>, <<Plain("user"), Plain("system"), Plain("assistant")>>}

StreamReplies ==
  {<<>>,
   <<Block("text", <<"plain", "wide">>), Block("tool", <<"plain", "wide">>), Block("tool", <<>>), Block("tool", <<"plain">>)>>,
   <<Block("thought", <<"plain">>), Block("text", <<"plain">>)>>,
   <<Block("tool", <<"plain">>)>>,
   <<Block("text", <<"wide">>), Block("tool", <<"plain", "plain">>), Block("text", <<"plain">>)>>}

Paragraphs == UNION {[1..n -> {"letter", "space", "newline"}] : n \in 0..5}
Origin(c, p, t, n) == [channel |-> c, place |-> p, thread |-> t, number |-> n]
Places ==
  {Origin("telegram", "7", "", "1"), Origin("discord", "lobby", "", "1"), Origin("slack", "lobby", "", "1"),
   Origin("slack", "lobby", "2", "3"), Origin("dingtalk", "https:", "", ""), Origin("dingtalk", "", "", ""),
   Origin("wechat_work", "https:", "", ""), Origin("feishu", "room", "", ""), Origin("whatsapp", "49", "", ""),
   Origin("matrix", "room", "", ""), Origin("webhook", "ops", "", ""), Origin("email", "ann", "", "")}
SessionNames ==
  {[channel |-> "telegram", session |-> <<"ann">>], [channel |-> "slack", session |-> <<"lobby">>]}

Agent(p, s, t, al) == [provider |-> p, sound |-> s, tools |-> t, allow |-> al]
Section(k, t, x) == [kind |-> k, token |-> t, extras |-> x]
Rule(b, o, a) == [by |-> b, of |-> o, agent |-> a]
File(p, a, r, c, s, b, e) ==
  [providers |-> p, agents |-> a, routing |-> r, channels |-> c, servers |-> s, backend |-> b, embedding |-> e]
TwoAgents ==
  ("assistant" :> Agent("openai", TRUE, {}, {"coder"})) @@ ("coder" :> Agent("ollama", TRUE, {"shell"}, {}))
Both == ("openai" :> "file") @@ ("ollama" :> "file")

(* One that is in order, and four with a fault each part of the checks may find. *)
Files ==
  {File(Both, TwoAgents, <<Rule("channel", {"cli"}, "coder"), Rule("sender", {"s1"}, "coder"), Rule("default", {}, "assistant")>>,
        ("a" :> Section("cli", FALSE, FALSE)) @@ ("b" :> Section("discord", TRUE, FALSE)),
        {"m1", "m2"}, "sqlite", "openai without key"),
   File("openai" :> "file", TwoAgents, <<Rule("default", {}, "assistant")>>,
        "a" :> Section("cli", FALSE, FALSE), {}, "none", "none"),
   File("openai" :> "file", TwoAgents, <<Rule("name", {"n1"}, "coder")>>,
        ("t2" :> Section("telegram", FALSE, FALSE)) @@ ("w" :> Section("wecom", FALSE, FALSE)), {"m1"}, "markdown", "none"),
   File("strange" :> "file", "coder" :> Agent("strange", FALSE, {"shell"}, {"nobody"}), <<Rule("none", {}, "nobody")>>,
        ("f" :> Section("feishu", TRUE, FALSE)) @@ ("telegram" :> Section("slack", FALSE, FALSE)), {}, "odd", "none"),
   File(<<>>, "coder" :> Agent("openai", TRUE, {}, {}), <<>>,
        ("e" :> Section("email", TRUE, FALSE)) @@ ("wx" :> Section("wechat_work", TRUE, TRUE)), {}, "none", "none")}
Settings ==
  {{}, {"OPENAI_API_KEY"}, {"OPENAI_API_KEY, empty"}, {"ADACLAW_OPENAI_API_KEY", "ADACLAW_TELEGRAM_TOKEN"}, {"ADACLAW_OLLAMA_URL"}}
Builtin == <<"shell", "file_read">>
Offered == ("m1" :> <<"shell", "search">>) @@ ("m2" :> <<"delegate">>)
Incoming(c, s, n) == [channel |-> c, sender |-> s, name |-> n]
Samples ==
  {Incoming("cli", "s2", "n2"), Incoming("telegram", "s1", "n2"), Incoming("telegram", "s2", "n1"), Incoming("slack", "s2", "n2")}

ToolKinds == ("c1" :> "append") @@ ("c2" :> "write") @@ ("c3" :> "read") @@ ("c4" :> "shell")
ToolPieces == ("c1" :> 2) @@ ("c2" :> 2) @@ ("c3" :> 1) @@ ("c4" :> 1)
Behind == {-2, 0, 2}

UpTo(letters, n) == UNION {[1..k -> letters] : k \in 1..n}
OnLists ==
  {<<>>, <<<<"@">>>>, <<<<"@", "a">>, <<"B">>>>, <<<<"@", "@", "b">>>>, <<<<"@", "B", "*">>>>}
  \cup {<<entry>> : entry \in UpTo({"a", "b", "*"}, 4)}
OnGroupLists == {<<>>, <<<<"b">>, <<"A", "*">>>>}
OfSenders ==
  UpTo({"a", "b"}, 3) \cup {<<"a", "|", "b">>, <<"b", "|", "A", "b">>, <<"b", "a", "|">>, <<"B">>}
LowerCase == [letter \in {"A", "B"} |-> IF letter = "A" THEN "a" ELSE "b"]

NamesInManifest == <<2, 0>>
TextsOfSkills == <<2, 1>>
FilesOfKeys == ("a/b" :> "a_b") @@ ("a_b" :> "a_b") @@ ("c" :> "c")

----------------------------------------------------------------------------
(* A part that is not at issue starts in one of its initial states only. *)
Init ==
  /\ about \in {"estop", "rate limit", "approval", "pairing", "index", "consolidation", "recall",
                "topics", "tool loop", "stream", "errors", "startup", "outgoing", "journal", "workspace", "otp", "skills",
                "markdown files", "allowlist"}
  /\ EstopInit /\ RateInit /\ PairingInit /\ IndexInit /\ ConsolidationInit /\ StartupInit /\ OutgoingInit
  /\ ErrorsInit /\ WorkspaceInit /\ SkillsInit /\ MarkdownInit
  /\ ApprovalInit /\ (about # "approval" => interactive /\ autoApprove = {} /\ alwaysAsk = {})
  /\ RecallInit /\ (about # "recall" => ranked = <<>>)
  /\ TopicsInit /\ (about # "topics" => shown = <<>>)
  /\ ToolLoopInit /\ (about # "tool loop" => context = <<>>)
  /\ StreamInit /\ (about # "stream" => dialect = "openai" /\ said = <<>>)
  /\ JournalInit /\ (about # "journal" => keep = 0)
  /\ OtpInit /\ (about # "otp" => secret = <<Zero(ByteBits)>> /\ drift = 0)
  /\ IF about = "allowlist" THEN AllowInit
     ELSE allowFrom = <<>> /\ allowFromGroups = <<>> /\ asker = [text |-> <<"a">>, group |-> FALSE] /\ admitted = "open"

(* States that differ in what the present part does not touch do not occur. *)
View ==
  <<about,
    CASE about = "estop" -> estopVars [] about = "rate limit" -> rateVars [] about = "approval" -> approvalVars
      [] about = "pairing" -> pairingVars [] about = "otp" -> otpVars [] about = "allowlist" -> allowVars
      [] about = "index" -> indexVars [] about = "consolidation" -> consolidationVars [] about = "recall" -> recallVars
      [] about = "topics" -> topicVars [] about = "markdown files" -> markdownVars [] about = "tool loop" -> toolLoopVars
      [] about = "stream" -> streamVars [] about = "errors" -> errorVars [] about = "startup" -> startupVars
      [] about = "outgoing" -> outgoingVars [] about = "journal" -> journalVars [] about = "workspace" -> workspaceVars
      [] about = "skills" -> skillVars>>

GuardNext ==
  \/ about = "estop" /\ EstopNext /\ UNCHANGED <<rateVars, approvalVars, pairingVars, otpVars, allowVars, memoryVars, turnVars, processVars, about>>
  \/ about = "rate limit" /\ RateNext /\ UNCHANGED <<estopVars, approvalVars, pairingVars, otpVars, allowVars, memoryVars, turnVars, processVars, about>>
  \/ about = "approval" /\ ApprovalNext /\ UNCHANGED <<estopVars, rateVars, pairingVars, otpVars, allowVars, memoryVars, turnVars, processVars, about>>
  \/ about = "pairing" /\ PairingNext /\ UNCHANGED <<estopVars, rateVars, approvalVars, otpVars, allowVars, memoryVars, turnVars, processVars, about>>
  \/ about = "otp" /\ OtpNext /\ UNCHANGED <<estopVars, rateVars, approvalVars, pairingVars, allowVars, memoryVars, turnVars, processVars, about>>
  \/ about = "allowlist" /\ AllowNext /\ UNCHANGED <<estopVars, rateVars, approvalVars, pairingVars, otpVars, memoryVars, turnVars, processVars, about>>

MemoryNext ==
  \/ about = "index" /\ IndexNext /\ UNCHANGED <<consolidationVars, recallVars, topicVars, markdownVars, guardVars, turnVars, processVars, about>>
  \/ about = "consolidation" /\ ConsolidationNext /\ UNCHANGED <<indexVars, recallVars, topicVars, markdownVars, guardVars, turnVars, processVars, about>>
  \/ about = "recall" /\ RecallNext /\ UNCHANGED <<indexVars, consolidationVars, topicVars, markdownVars, guardVars, turnVars, processVars, about>>
  \/ about = "topics" /\ TopicsNext /\ UNCHANGED <<indexVars, consolidationVars, recallVars, markdownVars, guardVars, turnVars, processVars, about>>
  \/ about = "markdown files" /\ MarkdownNext /\ UNCHANGED <<indexVars, consolidationVars, recallVars, topicVars, guardVars, turnVars, processVars, about>>

TurnNext ==
  \/ about = "tool loop" /\ ToolLoopNext /\ UNCHANGED <<streamVars, errorVars, guardVars, memoryVars, processVars, about>>
  \/ about = "stream" /\ StreamNext /\ UNCHANGED <<toolLoopVars, errorVars, guardVars, memoryVars, processVars, about>>
  \/ about = "errors" /\ ErrorsNext /\ UNCHANGED <<toolLoopVars, streamVars, guardVars, memoryVars, processVars, about>>

ProcessNext ==
  \/ about = "startup" /\ StartupNext /\ UNCHANGED <<outgoingVars, journalVars, workspaceVars, skillVars, guardVars, memoryVars, turnVars, about>>
  \/ about = "outgoing" /\ OutgoingNext /\ UNCHANGED <<startupVars, journalVars, workspaceVars, skillVars, guardVars, memoryVars, turnVars, about>>
  \/ about = "journal" /\ JournalNext /\ UNCHANGED <<startupVars, outgoingVars, workspaceVars, skillVars, guardVars, memoryVars, turnVars, about>>
  \/ about = "workspace" /\ WorkspaceNext /\ UNCHANGED <<startupVars, outgoingVars, journalVars, skillVars, guardVars, memoryVars, turnVars, about>>
  \/ about = "skills" /\ SkillsNext /\ UNCHANGED <<startupVars, outgoingVars, journalVars, workspaceVars, guardVars, memoryVars, turnVars, about>>

Next == GuardNext \/ MemoryNext \/ TurnNext \/ ProcessNext

Spec == Init /\ [][Next]_vars
=============================================================================
