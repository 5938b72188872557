------------------------------ MODULE Outgoing ------------------------------
(***************************************************************************)
(* How a channel sends a message: send of the ten channels of              *)
(* crates/adaclaw-channels, the splitting of long texts by telegram.rs and *)
(* discord.rs (the same algorithm twice), and what a failed request does   *)
(* to the rest.  The daemon's outbound loop waits for one send before it   *)
(* begins the next, so there is one message in hand.                       *)
(*                                                                         *)
(* A session id is what the channel gave an inbound message, or what a     *)
(* heartbeat, a tool or the API named: a sequence of the parts between the *)
(* slashes.  Outside src/: the platforms.  They may show what they were    *)
(* sent and still seem to have failed, because the answer gets lost.       *)
(***************************************************************************)
EXTENDS Naturals, Sequences, FiniteSets

CONSTANTS
  Texts,        \* sequences of "letter", "space" and "newline"
  PartSize,     \* characters in a message: 4096 on Telegram, 2000 on Discord
  Origins,      \* where messages come from: [channel, place, thread, number]
  NamedSessions,  \* sessions that others name: [channel, session]
  ChatNumbers,  \* what parses as a chat id of Telegram
  OutboundUrl,  \* whether the webhook channel has an outbound_url
  AutoReply     \* auto_reply_enabled of the email channel

SendingChannels == {"telegram", "discord", "slack", "dingtalk", "wechat_work", "feishu",
                    "whatsapp", "matrix", "webhook", "email"}

(* Slack numbers every message, and one without a place is not handled.    *)
ASSUME OutgoingAssumption ==
  /\ PartSize \in Nat \ {0}
  /\ \A t \in Texts : t \in Seq({"letter", "space", "newline"})
  /\ \A o \in Origins : o.channel \in SendingChannels /\ (o.channel = "slack" => o.place # "" /\ o.number # "")
  /\ \A s \in NamedSessions : s.channel \in SendingChannels
  /\ OutboundUrl \in BOOLEAN /\ AutoReply \in BOOLEAN

VARIABLES
  message,      \* the message in hand: [channel, session, text, origin]
  parts,        \* what is to be sent, as intervals of the text, and to what address
  next, tries,  \* the part to send next, and whether it was tried before
  returned,     \* "none", "open", or what send returned: "ok" or "error"
  partsSeen,    \* parts that the address was shown, in order
  slowed        \* history: a part met a rate limit

outgoingVars == <<message, parts, next, tries, returned, partsSeen, slowed>>

Nowhere == <<>>
NoMessage == [channel |-> "none", session |-> Nowhere, text |-> <<>>, origin |-> Nowhere]
NoParts == [to |-> Nowhere, pieces |-> <<>>]
Blank(c) == c \in {"space", "newline"}

OutgoingInit ==
  /\ message = NoMessage /\ parts = NoParts
  /\ next = 1 /\ tries = 0 /\ returned = "none" /\ partsSeen = <<>> /\ slowed = FALSE

-----------------------------------------------------------------------------
(* Splitting.  A part is the interval <<first, last>> of the text. *)

LastOf(text, what, from, upto) ==
  LET at == {i \in from..upto : text[i] = what}
  IN IF at = {} THEN 0 ELSE CHOOSE i \in at : \A j \in at : j <= i

(* Where a part ends that begins at a position and has more than enough    *)
(* text to fill: at its last newline unless that comes too early, at its   *)
(* last space, or where it is full.                                        *)
CutAt(text, from) ==
  LET full == from + PartSize - 1
      newline == LastOf(text, "newline", from, full)
      space == LastOf(text, "space", from, full)
  IN CASE newline > 0 /\ newline - from >= PartSize \div 2 -> newline
       [] space > 0 /\ ~(newline > 0 /\ newline - from >= PartSize \div 2) -> space
       [] OTHER -> full

(* Mutant: the character at a cut is taken for a blank. *)
ResumesPast(text, cut) ==
  LET letters == {i \in (cut + 2)..Len(text) : ~Blank(text[i])}
  IN IF letters = {} THEN Len(text) + 1 ELSE CHOOSE i \in letters : \A j \in letters : i <= j

(* Blanks at the beginning of the rest are dropped. *)
Resumes(text, cut) ==
  LET letters == {i \in (cut + 1)..Len(text) : ~Blank(text[i])}
  IN IF letters = {} THEN Len(text) + 1 ELSE CHOOSE i \in letters : \A j \in letters : i <= j

(* The parts of the text from a position on. *)
SplitFrom(text) ==
  LET from[i \in 1 .. Len(text) + 1] ==
        CASE i > Len(text) -> <<>>
          [] i <= Len(text) /\ Len(text) - i < PartSize -> <<<<i, Len(text)>>>>
          [] OTHER -> <<<<i, CutAt(text, i)>>>> \o from[Resumes(text, CutAt(text, i))]
  IN from

Split(text) == IF Len(text) <= PartSize THEN <<<<1, Len(text)>>>> ELSE SplitFrom(text)[1]

-----------------------------------------------------------------------------
(* Session ids, as the channels make them and read them. *)

SlackSession(o) == <<o.place, IF o.thread = "" THEN o.number ELSE o.thread>>

SessionOf(o) == IF o.channel = "slack" THEN SlackSession(o) ELSE <<o.place>>

(* Mutant: what follows the slash is cut off and left at that. *)
ParseWithoutThread(session) ==
  [place |-> <<session[1]>>, thread |-> ""]

(* parse_slack_session_id: what is not a place and a thread is all place. *)
ParseSlackSessionId(session) ==
  IF Len(session) = 2 /\ session[1] # "" /\ session[2] # ""
  THEN [place |-> <<session[1]>>, thread |-> session[2]]
  ELSE [place |-> session, thread |-> ""]

-----------------------------------------------------------------------------
(* send of each channel, up to its first request: an error, nothing to do, *)
(* or the parts to post and where.                                         *)

SendRefused == [outcome |-> "error", to |-> Nowhere, pieces |-> <<>>]
Skipped == [outcome |-> "ok", to |-> Nowhere, pieces |-> <<>>]
Posts(place, thread, pieces) ==
  [outcome |-> "open", to |-> [place |-> place, thread |-> thread], pieces |-> pieces]
InOne(m) == <<<<1, Len(m.text)>>>>

TelegramSend(m) ==
  IF m.session[1] \in ChatNumbers /\ Len(m.session) = 1
  THEN Posts(m.session, "", Split(m.text)) ELSE SendRefused

DiscordSend(m) == Posts(m.session, "", Split(m.text))

SlackSend(m) ==
  LET to == ParseSlackSessionId(m.session) IN Posts(to.place, to.thread, InOne(m))

DingtalkSend(m) ==
  IF m.session[1] = "https:" THEN Posts(m.session, "", InOne(m)) ELSE SendRefused

WecomSend(m) ==
  IF m.session[1] = "https:" THEN Posts(m.session, "", InOne(m)) ELSE SendRefused

FeishuSend(m) == Posts(m.session, "", InOne(m))
WhatsappSend(m) == Posts(m.session, "", InOne(m))
MatrixSend(m) == Posts(m.session, "", InOne(m))
WebhookSend(m) == IF OutboundUrl THEN Posts(m.session, "", InOne(m)) ELSE Skipped
EmailSend(m) == IF AutoReply THEN Posts(m.session, "", InOne(m)) ELSE Skipped

SendOf(m) ==
  CASE m.channel = "telegram" -> TelegramSend(m)
    [] m.channel = "discord" -> DiscordSend(m)
    [] m.channel = "slack" -> SlackSend(m)
    [] m.channel = "dingtalk" -> DingtalkSend(m)
    [] m.channel = "wechat_work" -> WecomSend(m)
    [] m.channel = "feishu" -> FeishuSend(m)
    [] m.channel = "whatsapp" -> WhatsappSend(m)
    [] m.channel = "matrix" -> MatrixSend(m)
    [] m.channel = "webhook" -> WebhookSend(m)
    [] m.channel = "email" -> EmailSend(m)

Outbound ==
  {[channel |-> o.channel, session |-> SessionOf(o), text |-> t, origin |-> o] :
     o \in Origins, t \in Texts}
  \cup {[channel |-> s.channel, session |-> s.session, text |-> t, origin |-> Nowhere] :
          s \in NamedSessions, t \in Texts}

-----------------------------------------------------------------------------
Send(m) ==
  /\ returned = "none"
  /\ LET how == SendOf(m)
     IN /\ message' = m
        /\ parts' = [to |-> how.to, pieces |-> how.pieces]
        /\ returned' = how.outcome
  /\ UNCHANGED <<next, tries, partsSeen, slowed>>

Posting == returned = "open"

NextPart ==
  /\ next' = next + 1 /\ tries' = 0
  /\ returned' = IF next = Len(parts.pieces) THEN "ok" ELSE "open"

TryAgain == tries' = 1 /\ UNCHANGED <<next, returned>>

GiveUp == returned' = "error" /\ UNCHANGED <<next, tries>>

PartArrives ==
  /\ Posting
  /\ partsSeen' = Append(partsSeen, next)
  /\ NextPart
  /\ UNCHANGED <<message, parts, slowed>>

(* Mutant: whatever the channel, a failed part is sent once more. *)
AfterFailureRetry ==
  \/ tries = 0 /\ TryAgain
  \/ tries = 1 /\ NextPart

(* Mutant: whatever the channel, the parts after one that failed are sent. *)
AfterFailureGoOn ==
  \/ message.channel = "telegram" /\ tries = 0 /\ TryAgain
  \/ message.channel = "telegram" /\ tries = 1 /\ NextPart
  \/ message.channel # "telegram" /\ NextPart

(* Telegram tries a part once more without its markup and then goes on, as *)
(* the error is only logged.  On Discord the second try after a rate limit *)
(* may fail unnoticed.  Elsewhere, and on the first try, the error is      *)
(* returned.                                                               *)
AfterFailure ==
  \/ message.channel = "telegram" /\ tries = 0 /\ TryAgain
  \/ message.channel \in {"telegram", "discord"} /\ tries = 1 /\ NextPart
  \/ message.channel # "telegram" /\ tries = 0 /\ GiveUp

PartFails ==
  /\ Posting
  /\ \/ UNCHANGED partsSeen
     \/ partsSeen' = Append(partsSeen, next)
  /\ AfterFailure
  /\ UNCHANGED <<message, parts, slowed>>

(* Discord answers 429. *)
RateLimited ==
  /\ Posting
  /\ message.channel = "discord"
  /\ slowed' = TRUE
  /\ \/ tries = 0 /\ TryAgain
     \/ tries = 1 /\ NextPart
  /\ UNCHANGED <<message, parts, partsSeen>>

(* The outbound loop logs an error and takes the next message. *)
TakeNext ==
  /\ returned \in {"ok", "error"}
  /\ message' = NoMessage /\ parts' = NoParts
  /\ next' = 1 /\ tries' = 0 /\ returned' = "none" /\ partsSeen' = <<>> /\ slowed' = FALSE

OutgoingNext ==
  \/ \E m \in Outbound : Send(m)
  \/ PartArrives \/ PartFails \/ RateLimited
  \/ TakeNext

OutgoingSpec == OutgoingInit /\ [][OutgoingNext]_outgoingVars

-----------------------------------------------------------------------------
PartsShown == {partsSeen[i] : i \in DOMAIN partsSeen}

(* A text that is split loses no more than blanks between two parts, no    *)
(* part is too long or empty, and a word is cut only where the part has no *)
(* space.                                                                  *)
SplitKeepsTheText ==
  LET text == message.text
      piece == parts.pieces
  IN returned # "none" /\ piece # <<>> /\ text # <<>> =>
       /\ piece[1][1] = 1
       /\ \A i \in DOMAIN piece :
            LET begin == piece[i][1]  end == piece[i][2]
                resumed == IF i = Len(piece) THEN Len(text) + 1 ELSE piece[i + 1][1]
            IN /\ begin <= end
               /\ message.channel \in {"telegram", "discord"} => end - begin < PartSize
               /\ end < resumed
               /\ \A j \in (end + 1)..(resumed - 1) : Blank(text[j])
               /\ end < Len(text) /\ ~Blank(text[end]) /\ ~Blank(text[end + 1]) =>
                    \A j \in begin..end : text[j] # "space"

(* The parts of a message are shown in their order, and except on Telegram *)
(* none is shown twice: what was sent is not sent again, even if its       *)
(* answer was lost.                                                        *)
ShownInOrder ==
  \A i, j \in DOMAIN partsSeen : i < j =>
    IF message.channel = "telegram" THEN partsSeen[i] <= partsSeen[j] ELSE partsSeen[i] < partsSeen[j]

(* Except on Telegram, whose errors are only logged, and after a rate      *)
(* limit, whose second try is not looked at: there are no holes in what is *)
(* shown, and a message that was sent without an error is shown whole.     *)
SentIsShown ==
  message.channel # "telegram" /\ ~slowed =>
    /\ \A p \in PartsShown : \A q \in 1..p : q \in PartsShown
    /\ returned = "ok" => PartsShown = DOMAIN parts.pieces

(* An answer goes to the place and the thread its question came from; a    *)
(* question at the top of a Slack channel opens a thread.                  *)
RepliesGoBack ==
  message.origin # Nowhere /\ parts.pieces # <<>> =>
    /\ parts.to.place = <<message.origin.place>>
    /\ message.channel = "slack" =>
         parts.to.thread \in {message.origin.thread, message.origin.number} \ {""}

(* A reply arrives where its question came from, whole, in order and once, *)
(* as far as the channel looks at what it is answered.                     *)
RepliesArrive ==
  /\ SplitKeepsTheText
  /\ ShownInOrder
  /\ SentIsShown
  /\ RepliesGoBack
=============================================================================
