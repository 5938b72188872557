------------------------------ MODULE Heartbeat ------------------------------
(***************************************************************************)
(* The heartbeat (src/src/cron/scheduler.rs): at every tick the tasks of   *)
(* HEARTBEAT.md are run for the conversation that was last active, quick   *)
(* ones as messages on the bus, long ones by an agent of their own with    *)
(* the message tool (src/src/agents/message_tool.rs).  The dispatch loop   *)
(* (src/src/daemon/run.rs) records who was active.                         *)
(*                                                                         *)
(* The target is derived from the text of the session id: Prefix gives     *)
(* what stands before its first colon, which users and webhook callers are *)
(* free to choose.                                                         *)
(***************************************************************************)
EXTENDS LastActive, Sequences

CONSTANTS
  Channels,          \* names of registered channels
  Internal,          \* "system", "cli", "heartbeat" and no name at all
  Prefix,            \* session id -> its text up to the first colon
  SystemChannel,     \* "system:heartbeat"
  FallbackSession,   \* "heartbeat:fallback"
  HeartbeatSession,  \* channel -> "<channel>:heartbeat"
  None,
  Targets,           \* what target_channel may be configured as
  Tasks,             \* descriptions in HEARTBEAT.md
  Kind,              \* task -> "quick" or "long"
  Elsewhere,         \* destinations an agent may name itself with the message tool
  InboundCapacity,
  MaxTicks           \* bound: ticks

ASSUME HeartbeatAssumption ==
  /\ Kind \in [Tasks -> {"quick", "long"}]
  /\ None \notin Channels /\ Targets \subseteq Channels \cup {None}
  /\ InboundCapacity \in Nat /\ MaxTicks \in Nat
  /\ SystemChannel \notin Channels /\ Elsewhere \subseteq [channel : Channels, session : DOMAIN Prefix]
  /\ \A c \in Conversations : /\ c = [channel |-> c.channel, session |-> c.session]
                               /\ c.session \in DOMAIN Prefix

VARIABLES
  settings,  \* target_channel, and whether the bus's allowlist lets "heartbeat" in
  inbound,   \* messages on the bus
  target,    \* while a tick's tasks are run: channel and session resolved for it, for whom
  batch,     \* its tasks that are yet to be run
  ticks,     \* how many there were
  long,      \* targets of the long tasks that are running
  answer,    \* the latest answer to a heartbeat task that reached a channel
  spoken     \* conversations in which a user has said something

beatVars == <<settings, inbound, target, batch, ticks, long, answer, spoken>>
vars == <<up, stateVars, beatVars>>

(* resolve_target: where to, and who was last active when it was asked. *)
ResolveTarget(c) ==
  IF settings.target # None
    THEN [to |-> [channel |-> settings.target, session |-> HeartbeatSession[settings.target]], user |-> c]
  ELSE IF c # Nobody /\ Prefix[c.session] \notin Internal
    THEN [to |-> [channel |-> Prefix[c.session], session |-> c.session], user |-> c]
  ELSE [to |-> [channel |-> SystemChannel, session |-> FallbackSession], user |-> c]

NoTarget == [to |-> Nobody, user |-> Nobody]
NoAnswer == [to |-> Nobody, user |-> Nobody, named |-> FALSE]

Init ==
  /\ InitState
  /\ settings \in [target : Targets, allowed : BOOLEAN]
  /\ inbound = <<>>
  /\ target = NoTarget /\ batch = {} /\ ticks = 0
  /\ long = {} /\ answer = NoAnswer
  /\ spoken = {}
-----------------------------------------------------------------------------
UserMessage(c) ==
  /\ up /\ Len(inbound) < InboundCapacity
  /\ inbound' = Append(inbound, [sender |-> "user", to |-> c, user |-> c])
  /\ UNCHANGED <<up, settings, stateVars, target, batch, ticks, long, answer, spoken>>

(* A tick: the pending tasks of the file, which anybody may edit, and one  *)
(* target for all of them.                                                 *)
Tick ==
  /\ up /\ batch = {} /\ ticks < MaxTicks
  /\ ticks' = ticks + 1
  /\ batch' \in SUBSET Tasks
  /\ target' = IF batch' = {} THEN NoTarget ELSE ResolveTarget(last)
  /\ UNCHANGED <<up, settings, stateVars, inbound, long, answer, spoken>>

(* Mutant: the session is read anew for every task. *)
RunTaskNow(t) ==
  /\ up /\ t \in batch
  /\ batch' = batch \ {t}
  /\ long' = long \cup {[target EXCEPT !.to.session = IF last = Nobody THEN @ ELSE last.session]}
  /\ UNCHANGED <<up, settings, stateVars, inbound, target, ticks, answer, spoken>>

(* dispatch_task and spawn_long_task: a quick one is refused by the        *)
(* allowlist or dropped by a bus that stays full.                          *)
RunTask(t) ==
  /\ up /\ t \in batch
  /\ batch' = batch \ {t}
  /\ target' = IF batch' = {} THEN NoTarget ELSE target
  /\ \/ /\ Kind[t] = "long"
        /\ long' = long \cup {target}
        /\ UNCHANGED inbound
     \/ /\ Kind[t] = "quick" /\ settings.allowed /\ Len(inbound) < InboundCapacity
        /\ inbound' = Append(inbound, [sender |-> "heartbeat", to |-> target.to, user |-> target.user])
        /\ UNCHANGED long
     \/ /\ Kind[t] = "quick" /\ (~settings.allowed \/ Len(inbound) = InboundCapacity)
        /\ UNCHANGED <<inbound, long>>
  /\ UNCHANGED <<up, settings, stateVars, ticks, answer, spoken>>

(* An answer is lost unless a channel has the target's name. *)
Deliver(to, user, named) ==
  answer' = IF to.channel \in Channels THEN [to |-> to, user |-> user, named |-> named] ELSE answer

(* Mutant: whoever sends counts as active. *)
DispatchAll ==
  /\ up /\ inbound # <<>>
  /\ inbound' = Tail(inbound)
  /\ Record(Head(inbound).to)
  /\ IF Head(inbound).sender = "user"
       THEN spoken' = spoken \cup {Head(inbound).to} /\ UNCHANGED answer
       ELSE Deliver(Head(inbound).to, Head(inbound).user, FALSE) /\ UNCHANGED spoken
  /\ UNCHANGED <<up, settings, target, batch, ticks, long>>

(* The dispatch loop takes a message; a user's is recorded, and the answer *)
(* to a task, if its turn gives one, goes where the message came from.     *)
Dispatch ==
  /\ up /\ inbound # <<>>
  /\ inbound' = Tail(inbound)
  /\ IF Head(inbound).sender = "user"
       THEN /\ Record(Head(inbound).to)
            /\ spoken' = spoken \cup {Head(inbound).to}
            /\ UNCHANGED answer
       ELSE /\ \/ Deliver(Head(inbound).to, Head(inbound).user, FALSE)
               \/ UNCHANGED answer
            /\ UNCHANGED <<stateVars, spoken>>
  /\ UNCHANGED <<up, settings, target, batch, ticks, long>>

(* A long task reports, with the message tool or at its end; a short final *)
(* answer is kept back.  The agent may name another destination.           *)
LongReport(r) ==
  /\ up /\ r \in long
  /\ \/ Deliver(r.to, r.user, FALSE)
     \/ \E to \in Elsewhere : Deliver(to, r.user, TRUE)
  /\ UNCHANGED <<up, settings, stateVars, inbound, target, batch, ticks, long, spoken>>

LongEnd(r) ==
  /\ up /\ r \in long
  /\ long' = long \ {r}
  /\ UNCHANGED <<up, settings, stateVars, inbound, target, batch, ticks, answer, spoken>>

Save(k) == up /\ SaveStep(k) /\ UNCHANGED <<up, beatVars>>

Stop ==
  /\ up
  /\ up' = FALSE
  /\ StopSaving
  /\ inbound' = <<>> /\ batch' = {} /\ long' = {} /\ target' = NoTarget
  /\ UNCHANGED <<settings, ticks, answer, spoken>>

Restart ==
  /\ ~up
  /\ up' = TRUE
  /\ Load
  /\ UNCHANGED beatVars

Next ==
  \/ \E c \in Conversations : UserMessage(c)
  \/ Tick
  \/ \E t \in Tasks : RunTask(t)
  \/ Dispatch
  \/ \E r \in long : LongReport(r) \/ LongEnd(r)
  \/ \E k \in Saves : Save(k)
  \/ Stop \/ Restart

Spec == Init /\ [][Next]_vars
-----------------------------------------------------------------------------
(* Properties. *)

Names == Channels \cup {SystemChannel} \cup {Prefix[s] : s \in DOMAIN Prefix}
Sessions == DOMAIN Prefix \cup {FallbackSession} \cup {HeartbeatSession[c] : c \in Channels}
Addresses == [channel : Names, session : Sessions]
Answers == [to : Addresses, user : Conversations \cup {Nobody}]

TypeOK ==
  /\ StateTypeOK
  /\ settings \in [target : Targets, allowed : BOOLEAN]
  /\ inbound \in Seq([sender : {"user", "heartbeat"}, to : Addresses \cup Conversations,
                      user : Conversations \cup {Nobody}])
  /\ Len(inbound) <= InboundCapacity
  /\ target \in Answers \cup {NoTarget}
  /\ batch \subseteq Tasks /\ ticks \in 0..MaxTicks
  /\ batch # {} => target \in Answers
  /\ long \subseteq Answers
  /\ answer \in [to : Addresses, user : Conversations \cup {Nobody}, named : BOOLEAN] \cup {NoAnswer}
  /\ spoken \subseteq Conversations

(* The heartbeat never becomes its own target: only a conversation in      *)
(* which a user has spoken is remembered, across restarts and torn files.  *)
OnlyUsersAreTargets == last # Nobody => last \in spoken

(* What reaches a channel without the agent naming where to is addressed   *)
(* to the configured channel, or else to the conversation that was active  *)
(* at the task's own tick, as long as its session id does not begin with   *)
(* the name of some other channel.                                         *)
OwnName(c) == Prefix[c.session] \in Channels => Prefix[c.session] = c.channel
ToTheLastUser ==
  answer # NoAnswer /\ ~answer.named =>
    IF settings.target # None THEN answer.to.channel = settings.target
    ELSE OwnName(answer.user) => answer.to = answer.user
=============================================================================
