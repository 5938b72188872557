------------------------------ MODULE Discord -------------------------------
(***************************************************************************)
(* The Discord channel (crates/adaclaw-channels/src/discord.rs): one       *)
(* gateway session after another, each with a task that writes to the      *)
(* socket and, from HELLO on, a task that sends heartbeats through it, and *)
(* a typing loop per chat.                                                 *)
(*                                                                         *)
(* Outside src/: the gateway.  It says HELLO first, delivers each message  *)
(* on the connection there is, may ask for a reconnect, fall silent or     *)
(* break the connection; what users write meanwhile is not delivered       *)
(* later, since the channel never resumes a session.                       *)
(***************************************************************************)
EXTENDS Naturals, Sequences

CONSTANTS
  Writes,       \* what users write, see Write
  Refused,      \* senders that allow_from does not match
  MaxDelay,     \* cap of the back-off, 60 s in the code
  MaxWritten,   \* bound: messages
  MaxSessions   \* bound: sessions

Write == [chat : STRING, from : STRING]

ASSUME DiscordAssumption ==
  /\ Writes \subseteq Write
  /\ MaxDelay \in Nat \ {0} /\ MaxWritten \in Nat /\ MaxSessions \in Nat

VARIABLES
  loop,        \* "down", "connect", "top", "read", "handle", "closing" or "wait"
  enabled,     \* BaseChannel::running
  delay,       \* retry_delay
  session,     \* the number of the session
  alive,       \* sessions whose connection works
  beating,     \* sessions with a heartbeat task
  writing,     \* sessions with a write task
  written,     \* what users have written so far
  incoming,    \* messages on their way on the session's connection
  handling,    \* the message in handle_message_create, 0 if none
  typists,     \* chats with a typing loop
  told,        \* messages on the bus, in order
  replied      \* messages whose reply was handed to send

discordVars == <<loop, enabled, delay, session, alive, beating, writing, written, incoming,
                 handling, typists, told, replied>>

Sessions == 1..MaxSessions
Told == {told[i] : i \in DOMAIN told}
Seen == 1..Len(written)
InSession == loop \in {"top", "read", "handle"}

DiscordInit ==
  /\ loop = "down" /\ enabled = FALSE /\ delay = 1 /\ session = 0
  /\ alive = {} /\ beating = {} /\ writing = {}
  /\ written = <<>> /\ incoming = <<>> /\ handling = 0
  /\ typists = {} /\ told = <<>> /\ replied = {}

-----------------------------------------------------------------------------
(* The gateway. *)

UserWrites ==
  /\ Len(written) < MaxWritten
  /\ \E w \in Writes : written' = Append(written, w)
  /\ incoming' = IF session \in alive /\ session \in beating THEN Append(incoming, Len(written'))
                                                             ELSE incoming
  /\ UNCHANGED <<loop, enabled, delay, session, alive, beating, writing, handling, typists,
                 told, replied>>

Break ==
  /\ \E s \in alive : alive' = alive \ {s}
  /\ UNCHANGED <<loop, enabled, delay, session, beating, writing, written, incoming, handling,
                 typists, told, replied>>

-----------------------------------------------------------------------------
(* start: sessions until running is false. *)

Open ==
  /\ loop = "down" /\ session = 0
  /\ enabled' = TRUE /\ loop' = "connect"
  /\ UNCHANGED <<delay, session, alive, beating, writing, written, incoming, handling, typists,
                 told, replied>>

(* Mutant: the cap is forgotten. *)
AgainUncapped(ok) ==
  /\ delay' = IF ok THEN (IF enabled THEN 1 ELSE delay) ELSE 2 * delay
  /\ loop' = IF enabled THEN "wait" ELSE "down"

(* What start does with the result of a session. *)
Again(ok) ==
  /\ delay' = IF ok THEN (IF enabled THEN 1 ELSE delay)
              ELSE IF 2 * delay < MaxDelay THEN 2 * delay ELSE MaxDelay
  /\ loop' = IF enabled THEN "wait" ELSE "down"

Connect ==
  /\ loop = "connect" /\ session < MaxSessions
  /\ session' = session + 1
  /\ incoming' = <<>>
  /\ \/ /\ loop' = "top"
        /\ alive' = alive \cup {session'} /\ writing' = writing \cup {session'}
        /\ UNCHANGED delay
     \/ /\ Again(FALSE)
        /\ UNCHANGED <<alive, writing>>
  /\ UNCHANGED <<enabled, beating, written, handling, typists, told, replied>>

Wake ==
  /\ loop = "wait"
  /\ loop' = IF enabled THEN "connect" ELSE "down"
  /\ UNCHANGED <<enabled, delay, session, alive, beating, writing, written, incoming, handling,
                 typists, told, replied>>

Quit ==
  /\ enabled /\ enabled' = FALSE
  /\ typists' = {}
  /\ UNCHANGED <<loop, delay, session, alive, beating, writing, written, incoming, handling,
                 told, replied>>

-----------------------------------------------------------------------------
(* run_gateway_session: its loop looks at running, then waits for a frame. *)

(* Mutant: the heartbeat task is left running. *)
LeaveBeating ==
  /\ loop' = "closing"
  /\ UNCHANGED beating

(* The loop is left: the heartbeat is aborted, and the session waits for   *)
(* its write task.                                                         *)
Leave ==
  /\ loop' = "closing"
  /\ beating' = beating \ {session}

Top ==
  /\ loop = "top"
  /\ IF enabled THEN loop' = "read" /\ UNCHANGED beating ELSE Leave
  /\ UNCHANGED <<enabled, delay, session, alive, writing, written, incoming, handling, typists,
                 told, replied>>

(* HELLO: identify, and the heartbeat task. *)
Hello ==
  /\ loop = "read" /\ session \in alive /\ session \notin beating
  /\ beating' = beating \cup {session}
  /\ loop' = "top"
  /\ UNCHANGED <<enabled, delay, session, alive, writing, written, incoming, handling, typists,
                 told, replied>>

(* Mutant: the frame is not consumed. *)
MessageStays ==
  /\ loop = "read" /\ incoming # <<>>
  /\ handling' = Head(incoming)
  /\ typists' = typists \cup {written[handling'].chat}
  /\ loop' = "handle"
  /\ UNCHANGED <<enabled, delay, session, alive, beating, writing, written, incoming, told,
                 replied>>

(* MESSAGE_CREATE: the typing loop starts before anybody asks whether the  *)
(* sender is allowed.                                                      *)
Message ==
  /\ loop = "read" /\ incoming # <<>>
  /\ handling' = Head(incoming) /\ incoming' = Tail(incoming)
  /\ typists' = typists \cup {written[handling'].chat}
  /\ loop' = "handle"
  /\ UNCHANGED <<enabled, delay, session, alive, beating, writing, written, told, replied>>

Handle ==
  /\ loop = "handle"
  /\ \/ /\ written[handling].from \notin Refused
        /\ told' = Append(told, handling)
     \/ UNCHANGED told          \* refused, or the bus is full
  /\ handling' = 0
  /\ loop' = "top"
  /\ UNCHANGED <<enabled, delay, session, alive, beating, writing, written, incoming, typists,
                 replied>>

(* RECONNECT or INVALID SESSION. *)
Reconnect ==
  /\ loop = "read" /\ session \in alive
  /\ Leave
  /\ UNCHANGED <<enabled, delay, session, alive, writing, written, incoming, handling, typists,
                 told, replied>>

(* CLOSE or the end of the stream is Ok, an error or 120 s without a word  *)
(* is not; either returns at once, and the heartbeat task is not aborted.  *)
Drop ==
  /\ loop = "read"
  /\ \E ok \in BOOLEAN : (ok => session \notin alive) /\ Again(ok)
  /\ UNCHANGED <<enabled, session, alive, beating, writing, written, incoming, handling,
                 typists, told, replied>>

Closed ==
  /\ loop = "closing" /\ session \notin writing
  /\ Again(TRUE)
  /\ UNCHANGED <<enabled, session, alive, beating, writing, written, incoming, handling,
                 typists, told, replied>>

-----------------------------------------------------------------------------
(* The two tasks of a session. *)

(* Mutant: a write that fails is ignored. *)
WriterIgnores(s) ==
  /\ s \in writing /\ s \notin beating /\ ~(InSession /\ s = session)
  /\ writing' = writing \ {s}
  /\ UNCHANGED <<loop, enabled, delay, session, alive, beating, written, incoming, handling,
                 typists, told, replied>>

(* The write task ends when nothing can send to it any more, or when a     *)
(* write fails, which only a heartbeat or an identify makes it notice.     *)
WriterEnds(s) ==
  /\ s \in writing
  /\ \/ s \notin beating /\ ~(InSession /\ s = session)
     \/ s \in beating /\ s \notin alive
  /\ writing' = writing \ {s}
  /\ UNCHANGED <<loop, enabled, delay, session, alive, beating, written, incoming, handling,
                 typists, told, replied>>

(* A heartbeat finds that the write task is gone. *)
BeatFails(s) ==
  /\ s \in beating /\ s \notin writing
  /\ beating' = beating \ {s}
  /\ UNCHANGED <<loop, enabled, delay, session, alive, writing, written, incoming, handling,
                 typists, told, replied>>

(* Mutant: a reply leaves the typing loop running. *)
ReplyTyping(m) ==
  /\ m \in Told \ replied
  /\ replied' = replied \cup {m}
  /\ UNCHANGED <<loop, enabled, delay, session, alive, beating, writing, written, incoming,
                 handling, typists, told>>

(* send: the typing loop of the chat ends, and the text is posted. *)
Reply(m) ==
  /\ m \in Told \ replied
  /\ typists' = typists \ {written[m].chat}
  /\ replied' = replied \cup {m}
  /\ UNCHANGED <<loop, enabled, delay, session, alive, beating, writing, written, incoming,
                 handling, told>>

DiscordNext ==
  \/ UserWrites \/ Break
  \/ Open \/ Connect \/ Wake \/ Quit
  \/ Top \/ Hello \/ Message \/ Handle \/ Reconnect \/ Drop \/ Closed
  \/ \E s \in Sessions : WriterEnds(s) \/ BeatFails(s)
  \/ \E m \in Told : Reply(m)

(* The runtime polls every task, and a broken socket shows. *)
DiscordFairness ==
  /\ \A s \in Sessions : WF_discordVars(WriterEnds(s)) /\ WF_discordVars(BeatFails(s))
  /\ WF_discordVars(Top) /\ WF_discordVars(Handle) /\ WF_discordVars(Drop)
  /\ WF_discordVars(Closed) /\ WF_discordVars(Wake) /\ WF_discordVars(Connect)

DiscordSpec == DiscordInit /\ [][DiscordNext]_discordVars /\ DiscordFairness

-----------------------------------------------------------------------------
DiscordTypeOK ==
  /\ loop \in {"down", "connect", "top", "read", "handle", "closing", "wait"}
  /\ enabled \in BOOLEAN /\ delay \in 1..MaxDelay /\ session \in 0..MaxSessions
  /\ alive \subseteq Sessions /\ beating \subseteq Sessions /\ writing \subseteq Sessions
  /\ written \in Seq(Writes) /\ Len(written) <= MaxWritten
  /\ incoming \in Seq(Seen) /\ handling \in {0} \cup Seen
  /\ typists \subseteq {w.chat : w \in Writes}
  /\ told \in Seq(Seen) /\ replied \subseteq Told

(* What has become of a message, for Intake. *)
DiscordFate(m) ==
  CASE m \notin Seen -> "unsent"
    [] m \in Seen \cap Told -> "handed over"
    [] m \in Seen \ Told /\ (m = handling \/ \E i \in DOMAIN incoming : incoming[i] = m) -> "waiting"
    [] OTHER -> "passed over"

Inbox == INSTANCE Intake WITH
  Messages <- 1..MaxWritten, fate <- [m \in 1..MaxWritten |-> DiscordFate(m)],
  handed <- told

(* Whatever happens to its connections, the channel hands on each message  *)
(* at most once and in the order in which they were written.               *)
DiscordImplementsIntake == Inbox!Spec

(* The bot shows itself typing in a chat only while a message of that chat *)
(* is without an answer that is newer than all it has answered there.      *)
DiscordTypingIsOwed ==
  \A c \in typists : \E m \in Seen \ replied :
    /\ written[m].chat = c
    /\ \A n \in replied : written[n].chat = c => n < m

(* A session that was told to reconnect does so: it waits for its write    *)
(* task, and that one for everybody who could still send to it.            *)
SessionsEnd == loop = "closing" ~> loop # "closing"

(* A connection that is broken and no longer the session's holds no task   *)
(* for ever, though a session that fails aborts none.                      *)
TasksEnd ==
  \A s \in Sessions :
    (s \notin alive /\ ~(InSession /\ s = session)) ~> s \notin writing \cup beating
=============================================================================
