----------------------------- MODULE MCTelegram -----------------------------
(* Instances of Telegram for TLC. *)
EXTENDS Telegram

(* A private chat and a group; bob is allowed in groups only.  What he     *)
(* says there is looked at if get_bot_username got an answer.              *)
MCContents ==
  {[kind |-> "message", chat |-> "private", from |-> "alice", group |-> FALSE, mentions |-> FALSE],
   [kind |-> "message", chat |-> "group", from |-> "bob", group |-> TRUE, mentions |-> TRUE],
   [kind |-> "approval", chat |-> "group", from |-> "alice", group |-> TRUE, mentions |-> FALSE]}
=============================================================================
