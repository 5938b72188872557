----------------------------- MODULE MatrixSync -----------------------------
(***************************************************************************)
(* The Matrix channel (crates/adaclaw-channels/src/matrix.rs): one task    *)
(* that asks /sync for what is new since a token it keeps in memory and    *)
(* works through the answer, and send, which puts a reply into the room.   *)
(*                                                                         *)
(* Outside src/: the homeserver.  Its answer holds, room by room in any    *)
(* order, the events after the token, but of each room only the last       *)
(* Window (a "limited" timeline); without a token, the last Window.        *)
(***************************************************************************)
EXTENDS Naturals, Sequences, FiniteSets

CONSTANTS
  RoomUsers,      \* what users may say: records of a room and a sender
  BotUser,        \* extra.user_id; "" if it is not set, and nobody's name then
  Trusted,        \* users and rooms that allow_from matches; everyone if it is empty
  Window,         \* events of a room in one answer, 10 at most servers
  MaxEvents,      \* bound: events
  MaxRuns         \* bound: starts of the channel

Bot == "bot"     \* the account of the access token

(* The bot is told its own account, or else nobody lets it in.             *)
ASSUME MatrixAssumption ==
  /\ Window \in Nat /\ MaxEvents \in Nat /\ MaxRuns \in Nat
  /\ BotUser = Bot \/ (Trusted # {} /\ Bot \notin Trusted)

VARIABLES
  timeline,       \* the events so far, by number
  since, upto,    \* next_batch, and that of the answer being worked through
  left,           \* events of the answer still to be worked through
  syncing,        \* "down", "top", "sync", "work" or "sleep"
  stopAsked,      \* the shutdown signal is on its way
  run,            \* how often the channel was started
  worked,         \* history: events this run has worked through, in order
  heard,          \* what was put on the bus: <<run, event>>, in order
  unanswered      \* on the bus and without a reply

matrixVars == <<timeline, since, upto, left, syncing, stopAsked, run, worked, heard, unanswered>>

Rooms == {u.room : u \in RoomUsers}
Events == 1..Len(timeline)

MatrixInit ==
  /\ timeline = <<>> /\ since = 0 /\ upto = 0 /\ left = <<>>
  /\ syncing = "down" /\ stopAsked = FALSE /\ run = 0
  /\ worked = <<>> /\ heard = <<>> /\ unanswered = {}

-----------------------------------------------------------------------------
(* The homeserver. *)

Say(e) ==
  /\ Len(timeline) < MaxEvents
  /\ timeline' = Append(timeline, e)

UserSays ==
  /\ \E u \in RoomUsers : Say(u)
  /\ UNCHANGED <<since, upto, left, syncing, stopAsked, run, worked, heard, unanswered>>

(* The later events of its room.                                           *)
LaterInRoom(e) == {f \in Events : f > e /\ timeline[f].room = timeline[e].room}

(* Mutant: the token is part of what is new. *)
RecentAgain(t) == {e \in Events : e >= t /\ Cardinality(LaterInRoom(e)) < Window}

(* The events in an answer to a request with token t. *)
Recent(t) == {e \in Events : e > t /\ Cardinality(LaterInRoom(e)) < Window}

(* The rooms of an answer are in a hash map; the events of a room are in   *)
(* their order.                                                            *)
Answers(t) ==
  {a \in [1..Cardinality(Recent(t)) -> Recent(t)] :
     \A i, j \in DOMAIN a : i < j =>
       /\ a[i] # a[j]
       /\ timeline[a[i]].room = timeline[a[j]].room =>
            a[i] < a[j] /\ \A k \in i..j : timeline[a[k]].room = timeline[a[i]].room}

-----------------------------------------------------------------------------
(* The loop of start. *)

MatrixStart ==
  /\ syncing = "down" /\ run < MaxRuns
  /\ run' = run + 1 /\ syncing' = "top" /\ stopAsked' = FALSE
  /\ since' = 0 /\ worked' = <<>>
  /\ UNCHANGED <<timeline, upto, left, heard, unanswered>>

(* The stop signal is looked at before a request and while it is open. *)
MatrixStops ==
  /\ syncing \in {"top", "sync"} /\ stopAsked
  /\ syncing' = "down"
  /\ UNCHANGED <<timeline, since, upto, left, stopAsked, run, worked, heard, unanswered>>

Ask ==
  /\ syncing = "top" /\ ~stopAsked
  /\ syncing' = "sync"
  /\ UNCHANGED <<timeline, since, upto, left, stopAsked, run, worked, heard, unanswered>>

Synced ==
  /\ syncing = "sync"
  /\ upto' = Len(timeline)
  /\ \E answer \in Answers(since) : left' = answer
  /\ syncing' = "work"
  /\ UNCHANGED <<timeline, since, stopAsked, run, worked, heard, unanswered>>

(* An error is logged, and after 10 s the same token is used again. *)
SyncFails ==
  /\ syncing = "sync"
  /\ syncing' = "sleep"
  /\ UNCHANGED <<timeline, since, upto, left, stopAsked, run, worked, heard, unanswered>>

SleepEnds ==
  /\ syncing = "sleep"
  /\ syncing' = "top"
  /\ UNCHANGED <<timeline, since, upto, left, stopAsked, run, worked, heard, unanswered>>

Trusts(x) == Trusted = {} \/ x \in Trusted

(* Mutant: what the bot itself said is not left out. *)
HearsItself(e) == Trusts(e.from) \/ Trusts(e.room)

(* The checks of the loop: a text, not one's own, and either the sender or *)
(* the room is allowed.                                                    *)
Hears(e) ==
  /\ ~(BotUser # "" /\ e.from = BotUser)
  /\ Trusts(e.from) \/ Trusts(e.room)

(* handle_message asks about the sender alone, and loses the message if    *)
(* the bus stays full.                                                     *)
WorkOn ==
  /\ syncing = "work" /\ left # <<>>
  /\ left' = Tail(left) /\ worked' = Append(worked, Head(left))
  /\ LET e == timeline[Head(left)]
     IN \/ /\ Hears(e) /\ Trusts(e.from)
           /\ heard' = Append(heard, <<run, Head(left)>>)
           /\ unanswered' = unanswered \cup {Head(left)}
        \/ UNCHANGED <<heard, unanswered>>
  /\ UNCHANGED <<timeline, since, upto, syncing, stopAsked, run>>

(* Mutant: the token is the newest there is. *)
WorkEndsLate ==
  /\ syncing = "work" /\ left = <<>>
  /\ since' = Len(timeline) /\ syncing' = "top"
  /\ UNCHANGED <<timeline, upto, left, stopAsked, run, worked, heard, unanswered>>

(* Mutant: the token is one too high. *)
WorkEndsAhead ==
  /\ syncing = "work" /\ left = <<>>
  /\ since' = upto + 1 /\ syncing' = "top"
  /\ UNCHANGED <<timeline, upto, left, stopAsked, run, worked, heard, unanswered>>

(* The token moves when the whole answer has been worked through. *)
WorkEnds ==
  /\ syncing = "work" /\ left = <<>>
  /\ since' = upto /\ syncing' = "top"
  /\ UNCHANGED <<timeline, upto, left, stopAsked, run, worked, heard, unanswered>>

-----------------------------------------------------------------------------
(* send: the reply becomes an event of the room. *)
MatrixReply ==
  /\ \E e \in unanswered :
       /\ Say([room |-> timeline[e].room, from |-> Bot])
       /\ unanswered' = unanswered \ {e}
  /\ UNCHANGED <<since, upto, left, syncing, stopAsked, run, worked, heard>>

MatrixStop ==
  /\ syncing # "down" /\ ~stopAsked
  /\ stopAsked' = TRUE
  /\ UNCHANGED <<timeline, since, upto, left, syncing, run, worked, heard, unanswered>>

MatrixCrash ==
  /\ syncing # "down"
  /\ syncing' = "down" /\ left' = <<>> /\ unanswered' = {}
  /\ UNCHANGED <<timeline, since, upto, stopAsked, run, worked, heard>>

MatrixNext ==
  \/ UserSays
  \/ MatrixStart \/ MatrixStops \/ Ask \/ Synced \/ SyncFails \/ SleepEnds \/ WorkOn \/ WorkEnds
  \/ MatrixReply \/ MatrixStop \/ MatrixCrash

MatrixSpec == MatrixInit /\ [][MatrixNext]_matrixVars

-----------------------------------------------------------------------------
MatrixTypeOK ==
  /\ timeline \in Seq(RoomUsers \cup [room : Rooms, from : {Bot}])
  /\ since \in 0..Len(timeline) /\ upto \in 0..Len(timeline)
  /\ left \in Seq(Events) /\ worked \in Seq(Events)
  /\ syncing \in {"down", "top", "sync", "work", "sleep"}
  /\ stopAsked \in BOOLEAN /\ run \in 0..MaxRuns
  /\ heard \in Seq((1..MaxRuns) \X Events) /\ unanswered \subseteq Events

(* Between a start and the next an event is handed over at most once, and  *)
(* the events of a room in their order, whatever the order of the rooms,   *)
(* the failed requests and the replies in between.  After a restart the    *)
(* last events of each room are handed over again.                         *)
MatrixOncePerRun ==
  \A i, j \in DOMAIN heard : i < j /\ heard[i][1] = heard[j][1] =>
    LET d == heard[i][2]
        e == heard[j][2]
    IN d # e /\ (timeline[d].room = timeline[e].room => d < e)

(* The bot does not hear itself, or it would answer itself for ever.  This *)
(* rests on extra.user_id being the account of the token.                  *)
MatrixNoEcho == \A i \in DOMAIN heard : timeline[heard[i][2]].from # Bot

(* What the token says has been seen was worked through in this run,       *)
(* unless Window later events of its room had pushed it out by then.       *)
MatrixMissesOnlyFloods ==
  \A e \in 1..since : syncing # "down" =>
    \/ \E i \in DOMAIN worked : worked[i] = e
    \/ Cardinality({f \in (e + 1)..since : timeline[f].room = timeline[e].room}) >= Window

(* What the sync loop hands over: each event once in a run, none of its    *)
(* own, none missed but in a flood.                                        *)
MatrixHears ==
  /\ MatrixTypeOK
  /\ MatrixOncePerRun
  /\ MatrixNoEcho
  /\ MatrixMissesOnlyFloods
=============================================================================
