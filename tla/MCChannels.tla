----------------------------- MODULE MCChannels ------------------------------
(* The channels but Telegram, for TLC.  They share no more than the bus,   *)
(* so a behaviour is about one of them while the others stay as they are.  *)
EXTENDS Pollers, MatrixSync, WecomTasks, FeishuToken

VARIABLE about

All == <<discordVars, matrixVars, emailVars, webhookVars, wecomVars, feishuVars>>

Init ==
  /\ DiscordInit /\ MatrixInit /\ EmailInit /\ WebhookInit /\ WecomInit /\ FeishuInit
  /\ about \in {"discord", "matrix", "email", "webhooks", "wechat_work", "feishu"}
  /\ about # "webhooks" => posting = "webhook" /\ \A c \in configured : c.kind # "slack"

Next ==
  /\ \/ about = "discord" /\ DiscordNext
        /\ UNCHANGED <<matrixVars, emailVars, webhookVars, wecomVars, feishuVars>>
     \/ about = "matrix" /\ MatrixNext
        /\ UNCHANGED <<discordVars, emailVars, webhookVars, wecomVars, feishuVars>>
     \/ about = "email" /\ EmailNext
        /\ UNCHANGED <<discordVars, matrixVars, webhookVars, wecomVars, feishuVars>>
     \/ about = "webhooks" /\ WebhookNext
        /\ UNCHANGED <<discordVars, matrixVars, emailVars, wecomVars, feishuVars>>
     \/ about = "wechat_work" /\ WecomNext
        /\ UNCHANGED <<discordVars, matrixVars, emailVars, webhookVars, feishuVars>>
     \/ about = "feishu" /\ FeishuNext
        /\ UNCHANGED <<discordVars, matrixVars, emailVars, webhookVars, wecomVars>>
  /\ UNCHANGED about

Spec == Init /\ [][Next]_<<about, All>> /\ DiscordFairness /\ EmailFairness

-----------------------------------------------------------------------------
MCWrites == {[chat |-> "a", from |-> "ann"], [chat |-> "b", from |-> "eve"]}

MCRoomUsers == {[room |-> "lobby", from |-> "ann"], [room |-> "office", from |-> "ben"]}

MCLetters == {[from |-> "ann", parses |-> TRUE], [from |-> "eve", parses |-> TRUE],
              [from |-> "ann", parses |-> FALSE]}

(* Two channels with the same default port and two sections of a kind, or  *)
(* three that share nothing.                                               *)
MCConfigurations ==
  {{[name |-> "wa", kind |-> "whatsapp", port |-> 9005],
   [name |-> "one", kind |-> "webhook", port |-> 9005],
   [name |-> "two", kind |-> "webhook", port |-> 9006],
   [name |-> "work", kind |-> "wechat_work", port |-> 9003]},
   {[name |-> "s", kind |-> "slack", port |-> 9002],
    [name |-> "f", kind |-> "feishu", port |-> 9001],
    [name |-> "d", kind |-> "dingtalk", port |-> 9000]}}

AnItem(id, from, form) == [id |-> id, from |-> from, form |-> form]

APost(kind, signed, parses, event, items) ==
  [kind |-> kind, signed |-> signed, fresh |-> TRUE, parses |-> parses, event |-> event,
   items |-> items]

MCArriving ==
  {APost("whatsapp", TRUE, TRUE, "message",
         <<AnItem("a", "ann", "text"), AnItem("b", "eve", "image"), AnItem("c", "ann", "blank"),
           AnItem("d", "ann", "text")>>),
   APost("wechat_work", TRUE, TRUE, "message", <<AnItem("e", "ann", "text")>>)}
  \cup {APost(kind, signed, parses, event, <<AnItem("f", "ann", "text")>>) :
          kind \in {"webhook", "slack", "feishu", "dingtalk"}, signed \in BOOLEAN, parses \in BOOLEAN,
          event \in {"message", "challenge"}}
  \cup {APost(kind, TRUE, TRUE, "message", <<AnItem("g", "ann", "blank")>>) :
          kind \in {"webhook", "slack", "feishu", "dingtalk"}}

(* Nothing is left behind: no typing loop without a message that waits for *)
(* its answer, no session, no task of a dead connection, no mail.          *)
NothingIsLeftRunning ==
  /\ [](DiscordTypeOK /\ DiscordTypingIsOwed)
  /\ SessionsEnd
  /\ TasksEnd
  /\ MailsAreSettled
=============================================================================
