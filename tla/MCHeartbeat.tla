----------------------------- MODULE MCHeartbeat -----------------------------
(* Instances of Heartbeat for TLC. *)
EXTENDS Heartbeat

(* A chat whose session id is a number, a webhook caller with a session id *)
(* of its own choice, and one that has chosen another channel's name.      *)
MCConversations ==
  {[channel |-> "telegram", session |-> "1"], [channel |-> "webhook", session |-> "webhook:2"],
   [channel |-> "webhook", session |-> "telegram:3"]}
MCPrefix == [s \in {"1", "webhook:2", "telegram:3"} |->
               CASE s = "1" -> "1" [] s = "webhook:2" -> "webhook" [] OTHER -> "telegram"]
MCChannels == {"telegram", "webhook"}
MCTargets == {"webhook", None}
MCSession == [c \in MCChannels |-> IF c = "telegram" THEN "telegram:heartbeat" ELSE "webhook:heartbeat"]
MCInternal == {"system", "cli", "heartbeat", ""}
MCElsewhere == {[channel |-> "telegram", session |-> "1"]}
MCKind == [t \in {"greet", "search"} |-> IF t = "greet" THEN "quick" ELSE "long"]
=============================================================================
