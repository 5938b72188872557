------------------------------ MODULE Telegram ------------------------------
(***************************************************************************)
(* The Telegram channel (crates/adaclaw-channels/src/telegram.rs, with the *)
(* allowlists of base.rs): one task that polls the Bot API and works       *)
(* through the updates it gets, the outbound loop that sends replies, and  *)
(* the two maps both of them use, of "Thinking..." messages and of typing  *)
(* loops by chat.                                                          *)
(*                                                                         *)
(* Outside src/: the Bot API.  It numbers updates, keeps each until a      *)
(* request with a higher offset, and answers a request with the lowest     *)
(* Limit of those it keeps.  A request may fail for as long as it likes,   *)
(* also because another instance polls (409); the channel waits and asks   *)
(* again, which changes nothing here.                                      *)
(***************************************************************************)
EXTENDS Naturals, Sequences, FiniteSets

CONSTANTS
  Contents,      \* what users send, see Content
  Chats, Senders,
  AllowFrom,     \* senders that allow_from matches; everyone if it is empty
  AllowGroups,   \* senders that allow_from_groups matches; AllowFrom if it is empty
  MentionOnly,   \* mention_only
  Limit,         \* updates per answer, 100 in the code
  None,
  MaxUpdates,    \* bound: updates
  MaxStarts      \* bound: starts of the channel

Content == [kind : {"message", "command", "approval", "other"},
            chat : Chats, from : Senders, group : BOOLEAN, mentions : BOOLEAN]

ASSUME TelegramAssumption ==
  /\ Contents \subseteq Content
  /\ AllowFrom \subseteq Senders /\ AllowGroups \subseteq Senders
  /\ MentionOnly \in BOOLEAN
  /\ Limit \in Nat \ {0} /\ MaxUpdates \in Nat /\ MaxStarts \in Nat
  /\ None \notin Nat

VARIABLES
  update,        \* the updates so far, by number
  backlog,       \* those the server still keeps
  pc,            \* where the polling task is
  running,       \* BaseChannel::running
  username,      \* whether get_bot_username got an answer
  offset, batch, \* of the polling task: the next offset, what is left of an answer
  typing,        \* chats with a typing loop
  placeholder,   \* chat -> the update whose "Thinking..." message a reply will edit
  thinking,      \* "Thinking..." messages that users see, by update
  owed,          \* published and not yet replied to
  sending,       \* the update whose reply the outbound loop is sending
  published,     \* history: what was put on the bus, in order
  answered,      \* history: updates whose reply was handed to send
  reached,       \* history: the highest offset so far
  starts

vars == <<update, backlog, pc, running, username, offset, batch, typing, placeholder,
          thinking, owed, sending, published, answered, reached, starts>>

Ids == 1..MaxUpdates
Known == 1..Len(update)
Chat(u) == update[u].chat
Current == offset - 1        \* the update being processed
Processing == pc \in {"placeholder", "publish"}
Larger(a, b) == IF a > b THEN a ELSE b

Init ==
  /\ update = <<>> /\ backlog = {}
  /\ pc = "down" /\ running = FALSE /\ username = FALSE /\ offset = 0 /\ batch = <<>>
  /\ typing = {} /\ placeholder = [c \in Chats |-> None] /\ thinking = {}
  /\ owed = {} /\ sending = None
  /\ published = <<>> /\ answered = {} /\ reached = 0
  /\ starts = 0

-----------------------------------------------------------------------------
(* The Bot API. *)

Arrive ==
  /\ Len(update) < MaxUpdates
  /\ \E c \in Contents : update' = Append(update, c)
  /\ backlog' = backlog \cup {Len(update')}
  /\ UNCHANGED <<pc, running, username, offset, batch, typing, placeholder, thinking,
                 owed, sending, published, answered, reached, starts>>

(* The lowest n of a set of updates. *)
Lowest(S, n) == {u \in S : Cardinality({v \in S : v <= u}) <= n}

(* A set of updates as the sequence of an answer. *)
InOrder(S) ==
  CHOOSE s \in [1..Cardinality(S) -> S] : \A i, j \in DOMAIN s : i < j => s[i] < s[j]

-----------------------------------------------------------------------------
(* The allowlists, and what becomes of an update. *)

IsAllowed(s) == AllowFrom = {} \/ s \in AllowFrom
IsGroupAllowed(s) == IF AllowGroups = {} THEN IsAllowed(s) ELSE s \in AllowGroups

(* The checks of process_update that a message has to pass. *)
Admitted(c) ==
  /\ c.kind = "message"
  /\ IF c.group THEN IsGroupAllowed(c.from) ELSE IsAllowed(c.from)
  /\ c.group /\ MentionOnly => username /\ c.mentions

(* A pressed approval button, which the user is told has worked before the *)
(* list is asked. *)
Confirmed(c) == c.kind = "approval" /\ IsAllowed(c.from)

-----------------------------------------------------------------------------
(* The polling task. *)

Start ==
  /\ pc = "down" /\ starts < MaxStarts
  /\ running' = TRUE
  /\ IF MentionOnly THEN username' \in {username, TRUE} ELSE UNCHANGED username
  /\ pc' = "probe" /\ offset' = 0
  /\ starts' = starts + 1
  /\ UNCHANGED <<update, backlog, batch, typing, placeholder, thinking, owed, sending,
                 published, answered, reached>>

(* Mutant: the backlog is left for the loop. *)
ProbeNothing ==
  /\ pc = "probe"
  /\ offset' = 0
  /\ pc' = "poll"
  /\ UNCHANGED <<update, backlog, running, username, batch, typing, placeholder, thinking,
                 owed, sending, published, answered, reached, starts>>

(* Mutant: the offset of the probe is one too high. *)
ProbeSkipsOne ==
  /\ pc = "probe"
  /\ offset' = Cardinality(backlog) + 2
  /\ reached' = Larger(reached, offset')
  /\ pc' = "poll"
  /\ UNCHANGED <<update, backlog, running, username, batch, typing, placeholder, thinking,
                 owed, sending, published, answered, starts>>

(* startup_probe: whatever the server has kept is passed over. *)
Probe ==
  /\ pc = "probe"
  /\ offset' = (LET got == Lowest(backlog, Limit)
                IN IF got = {} THEN 0 ELSE (CHOOSE u \in got : \A v \in got : v <= u) + 1)
  /\ reached' = Larger(reached, offset')
  /\ pc' = "poll"
  /\ UNCHANGED <<update, backlog, running, username, batch, typing, placeholder, thinking,
                 owed, sending, published, answered, starts>>

(* Mutant: the task is over when an answer has been worked through. *)
ReturnWhenDone(left) == pc' = IF left = <<>> THEN "down" ELSE "work"

Resume(left) == pc' = IF left = <<>> THEN "poll" ELSE "work"

(* get_updates: the server forgets what is below the offset. *)
Poll ==
  /\ pc = "poll" /\ running
  /\ backlog' = {u \in backlog : u >= offset}
  /\ batch' = InOrder(Lowest(backlog', Limit))
  /\ Resume(batch')
  /\ UNCHANGED <<update, running, username, offset, typing, placeholder, thinking, owed,
                 sending, published, answered, reached, starts>>

(* The loop looks at running only between two answers. *)
LoopEnds ==
  /\ pc = "poll" /\ ~running
  /\ pc' = "down"
  /\ UNCHANGED <<update, backlog, running, username, offset, batch, typing, placeholder,
                 thinking, owed, sending, published, answered, reached, starts>>

(* The next update of the answer, up to the first call that waits: the     *)
(* offset moves before anything is done with it.                           *)
Take ==
  /\ pc = "work"
  /\ offset' = Head(batch) + 1
  /\ reached' = Larger(reached, offset')
  /\ batch' = Tail(batch)
  /\ LET c == update[Head(batch)]
     IN \/ /\ Admitted(c)
           /\ typing' = typing \cup {c.chat}
           /\ pc' = "placeholder"
        \/ /\ Confirmed(c)
           /\ pc' = "publish"
           /\ UNCHANGED typing
        \/ /\ ~Admitted(c) /\ ~Confirmed(c)
           /\ Resume(Tail(batch))
           /\ UNCHANGED typing
  /\ UNCHANGED <<update, backlog, running, username, placeholder, thinking, owed, sending,
                 published, answered, starts>>

(* The "Thinking..." message; sending it may fail. *)
PostPlaceholder ==
  /\ pc = "placeholder"
  /\ \/ /\ placeholder' = [placeholder EXCEPT ![Chat(Current)] = Current]
        /\ thinking' = thinking \cup {Current}
     \/ UNCHANGED <<placeholder, thinking>>
  /\ pc' = "publish"
  /\ UNCHANGED <<update, backlog, running, username, offset, batch, typing, owed, sending,
                 published, answered, reached, starts>>

(* The attachment, if there is one, is fetched or replaced by a mark, and  *)
(* handle_content asks allow_from (again) before it puts the message on    *)
(* the bus, which loses it without an error when it stays full.            *)
Publish ==
  /\ pc = "publish"
  /\ IsAllowed(update[Current].from)
  /\ published' = Append(published, Current)
  /\ owed' = owed \cup {Current}
  /\ Resume(batch)
  /\ UNCHANGED <<update, backlog, running, username, offset, batch, typing, placeholder,
                 thinking, sending, answered, reached, starts>>

Lose ==
  /\ pc = "publish"
  /\ Resume(batch)
  /\ UNCHANGED <<update, backlog, running, username, offset, batch, typing, placeholder,
                 thinking, owed, sending, published, answered, reached, starts>>

-----------------------------------------------------------------------------
(* The outbound loop: one send after another. *)

(* Mutant: the typing loop is left alone. *)
SendReplyTyping(u) ==
  /\ sending = None /\ u \in owed
  /\ owed' = owed \ {u}
  /\ \/ /\ running
        /\ answered' = answered \cup {u}
        /\ sending' = u
     \/ /\ ~running
        /\ UNCHANGED <<answered, sending>>
  /\ UNCHANGED <<update, backlog, pc, running, username, offset, batch, typing, placeholder,
                 thinking, published, reached, starts>>

(* send and the first step of send_reply.  The daemon may reply in any     *)
(* order.  A channel that is not running refuses.                          *)
SendReply(u) ==
  /\ sending = None /\ u \in owed
  /\ owed' = owed \ {u}
  /\ \/ /\ running
        /\ typing' = typing \ {Chat(u)}
        /\ answered' = answered \cup {u}
        /\ sending' = u
     \/ /\ ~running
        /\ UNCHANGED <<typing, answered, sending>>
  /\ UNCHANGED <<update, backlog, pc, running, username, offset, batch, placeholder,
                 thinking, published, reached, starts>>

(* Mutant: the edited message stays in the map. *)
SendTextKeeps ==
  /\ sending # None
  /\ thinking' = thinking \ {placeholder[Chat(sending)]}
  /\ sending' = None
  /\ UNCHANGED <<update, backlog, pc, running, username, offset, batch, typing, placeholder,
                 owed, published, answered, reached, starts>>

(* The first part of the reply replaces the text of the remembered message *)
(* if there is one; if that fails the reply is a message of its own.       *)
SendText ==
  /\ sending # None
  /\ LET held == placeholder[Chat(sending)]
     IN /\ \/ thinking' = thinking \ {held}
           \/ UNCHANGED thinking
        /\ placeholder' = [placeholder EXCEPT ![Chat(sending)] = None]
  /\ sending' = None
  /\ UNCHANGED <<update, backlog, pc, running, username, offset, batch, typing, owed,
                 published, answered, reached, starts>>

-----------------------------------------------------------------------------
Stop ==
  /\ running
  /\ running' = FALSE /\ typing' = {}
  /\ UNCHANGED <<update, backlog, pc, username, offset, batch, placeholder, thinking, owed,
                 sending, published, answered, reached, starts>>

(* The process ends, and with it everything it had in memory. *)
Crash ==
  /\ pc # "down"
  /\ pc' = "down" /\ running' = FALSE /\ username' = FALSE /\ batch' = <<>>
  /\ typing' = {} /\ placeholder' = [c \in Chats |-> None]
  /\ owed' = {} /\ sending' = None
  /\ UNCHANGED <<update, backlog, offset, thinking, published, answered, reached, starts>>

Next ==
  \/ Arrive
  \/ Start \/ Probe \/ Poll \/ LoopEnds
  \/ Take \/ PostPlaceholder \/ Publish \/ Lose
  \/ \E u \in owed : SendReply(u)
  \/ SendText
  \/ Stop \/ Crash

(* The Bot API answers in the end, and the runtime polls every task.       *)
Fairness ==
  /\ WF_vars(Probe) /\ WF_vars(Poll) /\ WF_vars(Take) /\ WF_vars(PostPlaceholder)
  /\ WF_vars(Publish \/ Lose)
  /\ WF_vars(SendText)
  /\ WF_vars(LoopEnds)

Spec == Init /\ [][Next]_vars /\ Fairness

-----------------------------------------------------------------------------
Optional(S) == S \cup {None}

TypeOK ==
  /\ update \in Seq(Contents) /\ Len(update) <= MaxUpdates
  /\ backlog \subseteq Known
  /\ pc \in {"down", "probe", "poll", "work", "placeholder", "publish"}
  /\ running \in BOOLEAN /\ username \in BOOLEAN
  /\ offset \in 0 .. Len(update) + 1 /\ reached \in 0 .. Len(update) + 1
  /\ batch \in Seq(Known)
  /\ typing \subseteq Chats
  /\ placeholder \in [Chats -> Optional(Known)]
  /\ thinking \subseteq Known /\ owed \subseteq Known /\ sending \in Optional(Known)
  /\ published \in Seq(Known) /\ answered \subseteq Known
  /\ starts \in 0..MaxStarts

(* What has become of an update, for Intake. *)
Fate(u) ==
  CASE u \notin Known -> "unsent"
    [] \E i \in DOMAIN published : published[i] = u -> "handed over"
    [] OTHER -> IF u < reached /\ ~(Processing /\ u = Current) THEN "passed over" ELSE "waiting"

Mailbox == INSTANCE Intake WITH
  Messages <- Ids, fate <- [u \in Ids |-> Fate(u)], handed <- published

(* Across crashes and restarts an update reaches the bus at most once and  *)
(* in order, and one that was passed over never does: the offset lives in  *)
(* the task only, so this rests on the probe, which has to skip at least   *)
(* what an interrupted answer held.                                        *)
ImplementsIntake == Mailbox!Spec

(* A remembered "Thinking..." message is still one: no reply is overwritten *)
(* by the next reply in its chat. *)
EditsOnlyPlaceholders ==
  \A c \in Chats : placeholder[c] # None =>
    /\ placeholder[c] \in thinking
    /\ Chat(placeholder[c]) = c

(* The bot shows itself typing in a chat only while a message of that chat *)
(* is without an answer that is newer than all it has answered there.      *)
TypingIsOwed ==
  \A c \in typing : \E u \in Known \ answered :
    /\ Chat(u) = c /\ u < reached
    /\ \A v \in answered : Chat(v) = c => v < u

(* While the channel runs, an update does not wait for ever. *)
UpdatesAreSettled ==
  \A u \in Ids : (Fate(u) = "waiting" /\ running) ~> (Fate(u) # "waiting" \/ ~running)

(* What users see of the bot in a chat is true: placeholders and typing,   *)
(* while every variable keeps its type.                                    *)
ChatsAreTrue ==
  TypeOK /\ EditsOnlyPlaceholders /\ TypingIsOwed
=============================================================================
