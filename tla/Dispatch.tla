------------------------------ MODULE Dispatch ------------------------------
(***************************************************************************)
(* The life of a message in the daemon: from a channel or an HTTP request  *)
(* over the bus to the dispatch loop (src/src/daemon/run.rs,               *)
(* agent_dispatch_loop), through one task per message that runs a turn of  *)
(* the session's engine under its mutex, and back to the channel, to the   *)
(* waiting HTTP request or to the SSE stream                               *)
(* (src/crates/adaclaw-server/src/routes/chat.rs), together with the       *)
(* sub-agents a turn may start (src/src/agents/delegate.rs).               *)
(*                                                                         *)
(* What a turn computes is left out: it emits up to MaxDeltas pieces of    *)
(* text when it streams, may delegate one task, and succeeds or fails.     *)
(***************************************************************************)
EXTENDS Naturals, Sequences, FiniteSets

CONSTANTS
  Msgs,             \* identities of inbound messages (uuids)
  NoMsg,            \* "no message": reply_to = None, engine mutex free
  Sessions,         \* session ids, chosen by the sender
  Channels,         \* channel adapters registered with the ChannelManager
  Agents,           \* ids a routing rule may name
  Registries,       \* sets of agents that start-up may manage to build
  DefaultAgent,     \* "assistant", the default agent's id
  Route,            \* [channel -> agent]: the outcome of the routing rules
  Delegators,       \* agents with a non-empty subagents.allow
  LoadedLevels,     \* estop levels that estop.json may hold at start-up
  Endpoints,        \* the HTTP endpoints in use: a subset of {"chat", "stream"}
  Silent,           \* messages whose provider call never returns
  MaxDeltas,        \* bound: pieces of text one streamed turn emits
  InboundCapacity,
  OutboundCapacity

Gateway == "gateway"
Manager == "manager"
Origins == Channels \cup {Gateway, "cli"}

(* Where a delegated result goes when the model does not say (delegate.rs). *)
DefaultOrigin == [channel |-> "cli", session |-> "default"]
Places == [channel : Origins, session : Sessions \cup {"default"}]

EstopLevels == {"inactive", "domain_block", "network_kill", "tool_freeze", "kill_all"}

Kinds == {"channel", "chat", "stream"}
Envelope == [kind : Kinds, channel : Channels \cup {Gateway}, session : Sessions]

ASSUME DispatchAssumption ==
  /\ NoMsg \notin Msgs \cup Envelope
  /\ Manager \notin Msgs
  /\ Registries \subseteq SUBSET Agents
  /\ Route \in [Channels \cup {Gateway} -> Agents]
  /\ Gateway \notin Channels
  /\ LoadedLevels \subseteq EstopLevels
  /\ Endpoints \subseteq {"chat", "stream"}
  /\ MaxDeltas \in Nat
  /\ InboundCapacity \in Nat \ {0}
  /\ OutboundCapacity \in Nat \ {0}
  /\ "default" \notin Sessions

Items == [kind : {"user", "system"}, id : Msgs]
User(m) == [kind |-> "user", id |-> m]
Result(m) == [kind |-> "system", id |-> m]
Receivers == Msgs \cup {Manager}

VARIABLES
  inbound, parked, out, cursor,   \* the bus, see MessageBus
  up,        \* FALSE once Ctrl-C cancelled the gateway, channels and loop
  estop,     \* the level loaded at start-up; the daemon never changes it
  agents,    \* the AgentRegistry built at start-up, read-only afterwards
  msg,       \* m -> its kind, channel and session, or NoMsg before it is sent
  stage,     \* m -> how far its handling got
  lock,      \* engine -> the message whose turn holds its mutex, or NoMsg
  transcript,\* engine -> the history its turns have built
  client,    \* chat or stream m -> what its HTTP client sees
  answer,    \* chat m -> the index in `out` of the reply it returned, or 0
  registry,  \* streams with a sender in the STREAMS map
  emitted,   \* stream m -> deltas the engine has put in the pipe
  forwarded, \* stream m -> deltas the forwarder has taken out of it
  sse,       \* stream m -> items its client has been sent
  sub,       \* m -> the sub-agent its turn delegated to
  origin     \* m -> where the sub-agent's result is to be delivered

bus == INSTANCE MessageBus

turnVars == <<stage, lock, transcript>>
httpVars == <<client, answer, registry, emitted, forwarded, sse>>
subVars == <<sub, origin>>
vars == <<inbound, parked, out, cursor, up, estop, agents, msg, stage, lock, transcript,
          client, answer, registry, emitted, forwarded, sse, sub, origin>>

(* run.rs and get_default: the routed agent if it exists, else the default *)
(* one, else the first the registry's map yields, else none.               *)
NoAgent == agents = {}
AgentOf(m) ==
  LET routed == Route[msg[m].channel]
  IN CASE routed \in agents -> routed
       [] routed \notin agents /\ DefaultAgent \in agents -> DefaultAgent
       [] OTHER -> CHOOSE a \in agents : TRUE

(* instance.rs: an agent keeps one engine per session id, whatever the     *)
(* channel the session id came from.                                       *)
Engines == Agents \X Sessions
EngineOf(m) == <<AgentOf(m), msg[m].session>>

(* estop.rs: is_killed, is_tool_frozen. *)
Killed == estop = "kill_all"
Frozen == estop \in {"tool_freeze", "network_kill", "kill_all"}

Reply(m, what) == [channel |-> msg[m].channel, session |-> msg[m].session,
                   reply_to |-> m, what |-> what]
ResultReply(m) == [channel |-> origin[m].channel, session |-> origin[m].session,
                   reply_to |-> NoMsg, what |-> "result"]

Replies == [channel : Origins, session : Sessions \cup {"default"},
            reply_to : Msgs \cup {NoMsg},
            what : {"killed", "limited", "frozen", "answer", "error", "result"}]

Init ==
  /\ bus!BusInit({Manager})
  /\ up = TRUE
  /\ estop \in LoadedLevels
  /\ agents \in Registries
  /\ msg = [m \in Msgs |-> NoMsg]
  /\ stage = [m \in Msgs |-> "new"]
  /\ lock = [e \in Engines |-> NoMsg]
  /\ transcript = [e \in Engines |-> <<>>]
  /\ client = [m \in Msgs |-> "none"]
  /\ answer = [m \in Msgs |-> 0]
  /\ registry = {}
  /\ emitted = [m \in Msgs |-> 0]
  /\ forwarded = [m \in Msgs |-> 0]
  /\ sse = [m \in Msgs |-> <<>>]
  /\ sub = [m \in Msgs |-> "none"]
  /\ origin = [m \in Msgs |-> DefaultOrigin]

-----------------------------------------------------------------------------
(* Senders. *)

Submit(m, kind, ch, s) ==
  /\ up
  /\ stage[m] = "new"
  /\ msg' = [msg EXCEPT ![m] = [kind |-> kind, channel |-> ch, session |-> s]]
  /\ stage' = [stage EXCEPT ![m] = "sent"]
  /\ bus!StartSend(User(m))

(* A channel adapter reports a message.  send_inbound first checks the     *)
(* global allowlist, which only the channels go through.                   *)
ChannelSend(m) ==
  /\ \E ch \in Channels, s \in Sessions :
       Submit(m, "channel", ch, s)
  /\ UNCHANGED <<inbound, out, cursor, up, estop, agents, lock, transcript, httpVars, subVars>>

ChannelDenied(m) ==
  /\ up
  /\ stage[m] = "new"
  /\ stage' = [stage EXCEPT ![m] = "denied"]
  /\ UNCHANGED <<inbound, parked, out, cursor, up, estop, agents, msg, lock, transcript, httpVars,
                 subVars>>

(* POST /v1/chat subscribes to the replies before it sends, with no        *)
(* allowlist and no limit on how long it waits for room.                   *)
ChatRequest(m) ==
  /\ "chat" \in Endpoints
  /\ \E s \in Sessions : Submit(m, "chat", Gateway, s)
  /\ bus!Subscribe(m)
  /\ client' = [client EXCEPT ![m] = "waiting"]
  /\ UNCHANGED <<inbound, out, up, estop, agents, lock, transcript, answer, registry, emitted,
                 forwarded, sse, subVars>>

(* POST /v1/chat/stream registers its sender before it sends. *)
StreamRequest(m) ==
  /\ "stream" \in Endpoints
  /\ \E s \in Sessions : Submit(m, "stream", Gateway, s)
  /\ registry' = registry \cup {m}
  /\ client' = [client EXCEPT ![m] = "waiting"]
  /\ UNCHANGED <<inbound, out, cursor, up, estop, agents, lock, transcript, answer, emitted,
                 forwarded, sse, subVars>>

AdmitItem(i) ==
  /\ bus!Admit(i)
  /\ UNCHANGED <<up, estop, agents, msg, turnVars, httpVars, subVars>>

(* Mutant: the timeout is reported but the send goes on. *)
DropMessageLater(m) ==
  /\ msg[m] # NoMsg /\ msg[m].kind = "channel"
  /\ User(m) \in parked /\ bus!Full
  /\ stage' = [stage EXCEPT ![m] = "dropped"]
  /\ UNCHANGED <<inbound, parked, out, cursor, up, estop, agents, msg, lock, transcript,
                 httpVars, subVars>>

(* The backpressure timeout of send_inbound and send_inbound_bypass: the   *)
(* item is dropped and the sender is told it was sent.                     *)
DropMessage(m) ==
  /\ msg[m] # NoMsg /\ msg[m].kind = "channel"
  /\ bus!GiveUp(User(m))
  /\ stage' = [stage EXCEPT ![m] = "dropped"]
  /\ UNCHANGED <<up, estop, agents, msg, lock, transcript, httpVars, subVars>>

DropResult(m) ==
  /\ bus!GiveUp(Result(m))
  /\ sub' = [sub EXCEPT ![m] = "dropped"]
  /\ UNCHANGED <<up, estop, agents, msg, turnVars, httpVars, origin>>

-----------------------------------------------------------------------------
(* The dispatch loop: one iteration per item. *)

(* handle_system_message. *)
DispatchResult(m) ==
  /\ up
  /\ bus!Receive(Result(m))
  /\ bus!Broadcast(ResultReply(m))
  /\ sub' = [sub EXCEPT ![m] = "returned"]
  /\ UNCHANGED <<parked, cursor, up, estop, agents, msg, turnVars, httpVars, origin>>

(* The reply of an iteration that does not start a turn. *)
Refuse(m, what) ==
  /\ bus!Broadcast(Reply(m, what))
  /\ stage' = [stage EXCEPT ![m] = "replied"]

DispatchMessage(m) ==
  /\ up
  /\ bus!Receive(User(m))
  /\ \/ Killed /\ Refuse(m, "killed")
     \/ ~Killed /\ Refuse(m, "limited")
     \/ ~Killed /\ NoAgent /\ stage' = [stage EXCEPT ![m] = "ignored"] /\ UNCHANGED out
     \/ ~Killed /\ ~NoAgent /\ stage' = [stage EXCEPT ![m] = "spawned"] /\ UNCHANGED out
  /\ UNCHANGED <<parked, cursor, up, estop, agents, msg, lock, transcript, httpVars, subVars>>

-----------------------------------------------------------------------------
(* The task of one message. *)

(* The task looks at the estop before it waits for the engine. *)
TurnFrozen(m) ==
  /\ stage[m] = "spawned"
  /\ Frozen
  /\ Refuse(m, "frozen")
  /\ UNCHANGED <<inbound, parked, cursor, up, estop, agents, msg, lock, transcript, httpVars, subVars>>

(* Mutant: an engine without a mutex. *)
TurnStartUnlocked(m) ==
  /\ stage[m] = "spawned"
  /\ ~Frozen
  /\ lock' = [lock EXCEPT ![EngineOf(m)] = m]
  /\ transcript' = [transcript EXCEPT ![EngineOf(m)] = Append(@, <<"user", m>>)]
  /\ stage' = [stage EXCEPT ![m] = "running"]
  /\ UNCHANGED <<inbound, parked, out, cursor, up, estop, agents, msg, httpVars, subVars>>

TurnStart(m) ==
  /\ stage[m] = "spawned"
  /\ ~Frozen
  /\ lock[EngineOf(m)] = NoMsg
  /\ lock' = [lock EXCEPT ![EngineOf(m)] = m]
  /\ transcript' = [transcript EXCEPT ![EngineOf(m)] = Append(@, <<"user", m>>)]
  /\ stage' = [stage EXCEPT ![m] = "running"]
  /\ UNCHANGED <<inbound, parked, out, cursor, up, estop, agents, msg, httpVars, subVars>>

EmitDelta(m) ==
  /\ stage[m] = "running" /\ msg[m].kind = "stream"
  /\ emitted[m] < MaxDeltas
  /\ emitted' = [emitted EXCEPT ![m] = @ + 1]
  /\ UNCHANGED <<inbound, parked, out, cursor, up, estop, agents, msg, turnVars,
                 client, answer, registry, forwarded, sse, subVars>>

(* DelegateTool::execute: the origin is an argument of the tool, so it is  *)
(* the model that fills it in, or leaves it out.                           *)
Delegate(m) ==
  /\ stage[m] = "running"
  /\ AgentOf(m) \in Delegators
  /\ sub[m] = "none"
  /\ sub' = [sub EXCEPT ![m] = "running"]
  /\ \E o \in {DefaultOrigin, [channel |-> msg[m].channel, session |-> msg[m].session]} :
       origin' = [origin EXCEPT ![m] = o]
  /\ UNCHANGED <<inbound, parked, out, cursor, up, estop, agents, msg, turnVars, httpVars>>

(* The engine returns and the guard is dropped; what is sent to the user   *)
(* follows, without the mutex.  A failed turn leaves no assistant message. *)
TurnEnd(m, ok) ==
  /\ stage[m] = "running"
  /\ lock' = [lock EXCEPT ![EngineOf(m)] = NoMsg]
  /\ transcript' = [transcript EXCEPT ![EngineOf(m)] =
                      IF ok THEN Append(@, <<"assistant", m>>) ELSE @]
  /\ stage' = [stage EXCEPT ![m] = IF ok THEN "succeeded" ELSE "failed"]
  /\ UNCHANGED <<inbound, parked, out, cursor, up, estop, agents, msg, httpVars, subVars>>

TurnReply(m) ==
  /\ stage[m] \in {"succeeded", "failed"}
  /\ msg[m].kind # "stream"
  /\ Refuse(m, IF stage[m] = "succeeded" THEN "answer" ELSE "error")
  /\ UNCHANGED <<inbound, parked, cursor, up, estop, agents, msg, lock, transcript, httpVars, subVars>>

(* push_stream looks the sender up; the client sees the item if it is      *)
(* still connected.                                                        *)
PushStream(m, item) ==
  sse' = [sse EXCEPT ![m] =
            IF m \in registry /\ client[m] = "waiting" THEN Append(@, item) ELSE @]

(* Mutant: the forwarder sends a delta more than once. *)
ForwardAgain(m) ==
  /\ emitted[m] > 0
  /\ forwarded' = [forwarded EXCEPT ![m] = @ + 1]
  /\ PushStream(m, "delta")
  /\ UNCHANGED <<inbound, parked, out, cursor, up, estop, agents, msg, turnVars,
                 client, answer, registry, emitted, subVars>>

ForwardDelta(m) ==
  /\ forwarded[m] < emitted[m]
  /\ forwarded' = [forwarded EXCEPT ![m] = @ + 1]
  /\ PushStream(m, "delta")
  /\ UNCHANGED <<inbound, parked, out, cursor, up, estop, agents, msg, turnVars,
                 client, answer, registry, emitted, subVars>>

EndStream(m, item) ==
  /\ PushStream(m, item)
  /\ registry' = registry \ {m}
  /\ client' = [client EXCEPT ![m] = IF @ = "waiting" THEN "closed" ELSE @]

(* Mutant: the streaming branch does not return, the reply follows. *)
StreamCloseAndReply(m) ==
  /\ stage[m] \in {"succeeded", "failed"}
  /\ msg[m].kind = "stream"
  /\ forwarded[m] = emitted[m]
  /\ EndStream(m, IF stage[m] = "succeeded" THEN "done" ELSE "error")
  /\ Refuse(m, "answer")
  /\ UNCHANGED <<inbound, parked, cursor, up, estop, agents, msg, lock, transcript,
                 answer, emitted, forwarded, subVars>>

(* Mutant: the forwarder is not awaited. *)
StreamCloseEarly(m) ==
  /\ stage[m] \in {"succeeded", "failed"}
  /\ msg[m].kind = "stream"
  /\ EndStream(m, IF stage[m] = "succeeded" THEN "done" ELSE "error")
  /\ stage' = [stage EXCEPT ![m] = "replied"]
  /\ UNCHANGED <<inbound, parked, out, cursor, up, estop, agents, msg, lock, transcript,
                 answer, emitted, forwarded, subVars>>

(* Mutant: a failed turn ends its stream without a word. *)
StreamCloseMute(m) ==
  /\ stage[m] \in {"succeeded", "failed"}
  /\ msg[m].kind = "stream"
  /\ forwarded[m] = emitted[m]
  /\ IF stage[m] = "succeeded" THEN EndStream(m, "done") ELSE UNCHANGED <<sse, registry, client>>
  /\ stage' = [stage EXCEPT ![m] = "replied"]
  /\ UNCHANGED <<inbound, parked, out, cursor, up, estop, agents, msg, lock, transcript,
                 answer, emitted, forwarded, subVars>>

(* The task awaits its forwarder, then ends the stream. *)
StreamClose(m) ==
  /\ stage[m] \in {"succeeded", "failed"}
  /\ msg[m].kind = "stream"
  /\ forwarded[m] = emitted[m]
  /\ EndStream(m, IF stage[m] = "succeeded" THEN "done" ELSE "error")
  /\ stage' = [stage EXCEPT ![m] = "replied"]
  /\ UNCHANGED <<inbound, parked, out, cursor, up, estop, agents, msg, lock, transcript,
                 answer, emitted, forwarded, subVars>>

-----------------------------------------------------------------------------
(* Mutant: nothing is sent after the sub-agent's timeout. *)
SubAgentEndMute(m) ==
  /\ sub[m] = "running"
  /\ \/ sub' = [sub EXCEPT ![m] = IF up THEN "sent" ELSE "dropped"]
        /\ IF up THEN bus!StartSend(Result(m)) ELSE UNCHANGED parked
     \/ sub' = [sub EXCEPT ![m] = "sent"] /\ UNCHANGED parked
  /\ UNCHANGED <<inbound, out, cursor, up, estop, agents, msg, turnVars, httpVars, origin>>

(* The sub-agent's task: whether it succeeds, fails or times out, its      *)
(* result goes back over the bus.                                          *)
SubAgentEnd(m) ==
  /\ sub[m] = "running"
  /\ sub' = [sub EXCEPT ![m] = IF up THEN "sent" ELSE "dropped"]
  /\ IF up THEN bus!StartSend(Result(m)) ELSE UNCHANGED parked
  /\ UNCHANGED <<inbound, out, cursor, up, estop, agents, msg, turnVars, httpVars, origin>>

-----------------------------------------------------------------------------
(* Receivers of the broadcast. *)

(* outbound_dispatch_loop hands the item to the adapter, or drops it. *)
ManagerRecv ==
  /\ bus!CanRead(Manager)
  /\ bus!Advance(Manager)
  /\ UNCHANGED <<inbound, parked, out, up, estop, agents, msg, turnVars, httpVars, subVars>>

Awaits(m) == client[m] = "waiting" /\ msg[m].kind = "chat" /\ User(m) \notin parked

TakeReply(m, mine) ==
  /\ Awaits(m)
  /\ bus!CanRead(m)
  /\ IF mine
       THEN /\ answer' = [answer EXCEPT ![m] = cursor[m] + 1]
            /\ client' = [client EXCEPT ![m] = "answered"]
            /\ bus!Unsubscribe(m)
       ELSE /\ bus!Advance(m)
            /\ UNCHANGED <<answer, client>>
  /\ UNCHANGED <<inbound, parked, out, up, estop, agents, msg, turnVars, registry, emitted,
                 forwarded, sse, subVars>>

(* Mutant: only an answer ends the wait. *)
ChatRecvAnswer(m) ==
  TakeReply(m, bus!NextItem(m).session = msg[m].session /\ bus!NextItem(m).what = "answer")

(* A chat request takes the first reply for its session. *)
ChatRecv(m) == TakeReply(m, bus!NextItem(m).session = msg[m].session)

RecvLagged(r) ==
  /\ r \in Msgs => Awaits(r)
  /\ bus!SkipLagged(r)
  /\ UNCHANGED <<up, estop, agents, msg, turnVars, httpVars, subVars>>

(* A chat request times out after 60 s.  A client may also hang up at any  *)
(* time; a request that still waited for room then never gets on the bus.  *)
ClientLeaves(m) ==
  /\ client[m] = "waiting"
  /\ client' = [client EXCEPT ![m] = "gone"]
  /\ bus!Abandon(User(m))
  /\ bus!Unsubscribe(m)
  /\ stage' = [stage EXCEPT ![m] = IF User(m) \in parked THEN "dropped" ELSE @]
  /\ UNCHANGED <<inbound, out, up, estop, agents, msg, lock, transcript, answer, registry,
                 emitted, forwarded, sse, subVars>>

(* Ctrl-C: the token cancels gateway, channels and loop, and senders that  *)
(* waited for room get an error.  The turns and sub-agents already running *)
(* go on until the process exits.                                          *)
Shutdown ==
  /\ up
  /\ up' = FALSE
  /\ bus!CloseInbound
  /\ stage' = [m \in Msgs |-> IF stage[m] = "sent" THEN "dropped" ELSE stage[m]]
  /\ sub' = [m \in Msgs |-> IF sub[m] = "sent" THEN "dropped" ELSE sub[m]]
  /\ client' = [m \in Msgs |-> IF User(m) \in parked /\ client[m] = "waiting"
                                 THEN "closed" ELSE client[m]]
  /\ registry' = registry \ {m \in Msgs : User(m) \in parked}
  /\ cursor' = [r \in {s \in DOMAIN cursor : s = Manager \/ User(s) \notin parked} |-> cursor[r]]
  /\ UNCHANGED <<out, estop, agents, msg, lock, transcript, answer, emitted, forwarded, sse, origin>>

-----------------------------------------------------------------------------
MessageStep(m) ==
  \/ ChannelSend(m) \/ ChannelDenied(m) \/ ChatRequest(m) \/ StreamRequest(m)
  \/ DropMessage(m) \/ DropResult(m)
  \/ DispatchResult(m) \/ DispatchMessage(m)
  \/ TurnFrozen(m) \/ TurnStart(m) \/ EmitDelta(m) \/ Delegate(m)
  \/ \E ok \in BOOLEAN : TurnEnd(m, ok)
  \/ TurnReply(m) \/ ForwardDelta(m) \/ StreamClose(m)
  \/ SubAgentEnd(m)
  \/ ChatRecv(m) \/ ClientLeaves(m)

Next ==
  \/ \E m \in Msgs : MessageStep(m)
  \/ \E i \in Items : AdmitItem(i)
  \/ \E r \in Receivers : RecvLagged(r)
  \/ ManagerRecv
  \/ Shutdown

(* The runtime keeps polling every task that can run: the loop, the turns, *)
(* the forwarders and the broadcast receivers.  Only a provider call may   *)
(* never return (no HTTP client of the providers sets a timeout), which is *)
(* so for the messages in Silent.  Nothing makes users send, leave or stop *)
(* the daemon.                                                             *)
Fairness ==
  /\ \A i \in Items : WF_vars(AdmitItem(i))
  /\ \A m \in Msgs :
       /\ WF_vars(DispatchMessage(m)) /\ WF_vars(DispatchResult(m))
       /\ WF_vars(TurnFrozen(m)) /\ SF_vars(TurnStart(m))
       /\ WF_vars(TurnReply(m)) /\ WF_vars(ForwardDelta(m)) /\ WF_vars(StreamClose(m))
       /\ WF_vars(SubAgentEnd(m))
       /\ WF_vars(ChatRecv(m))
  /\ \A m \in Msgs \ Silent : WF_vars(\E ok \in BOOLEAN : TurnEnd(m, ok))
  /\ \A r \in Receivers : WF_vars(RecvLagged(r))
  /\ WF_vars(ManagerRecv)

Spec == Init /\ [][Next]_vars
FairSpec == Spec /\ Fairness
-----------------------------------------------------------------------------
(* Properties. *)

Stages == {"new", "denied", "sent", "dropped", "ignored", "spawned", "running",
           "succeeded", "failed", "replied"}

BusType ==
  /\ inbound \in Seq(Items)
  /\ parked \subseteq Items
  /\ out \in Seq(Replies)
  /\ DOMAIN cursor \subseteq Receivers
  /\ \A r \in DOMAIN cursor : cursor[r] \in 0..Len(out)

TurnType ==
  /\ up \in BOOLEAN
  /\ estop \in EstopLevels
  /\ agents \in SUBSET Agents
  /\ msg \in [Msgs -> Envelope \cup {NoMsg}]
  /\ stage \in [Msgs -> Stages]
  /\ lock \in [Engines -> Msgs \cup {NoMsg}]
  /\ transcript \in [Engines -> Seq({"user", "assistant"} \X Msgs)]

HttpType ==
  /\ client \in [Msgs -> {"none", "waiting", "answered", "closed", "gone"}]
  /\ answer \in [Msgs -> Nat]
  /\ registry \subseteq Msgs
  /\ emitted \in [Msgs -> 0..MaxDeltas]
  /\ forwarded \in [Msgs -> 0..MaxDeltas]
  /\ sse \in [Msgs -> Seq({"delta", "done", "error"})]

SubType ==
  /\ sub \in [Msgs -> {"none", "running", "sent", "dropped", "returned"}]
  /\ origin \in [Msgs -> Places]

(* Every variable has its type; a receiver is never ahead of the log.      *)
TypeOK == BusType /\ TurnType /\ HttpType /\ SubType

RepliesTo(m) == {i \in DOMAIN out : out[i].reply_to = m}

(* A message gets at most one reply, whichever of the refusals, the frozen *)
(* notice, the answer and the error it gets it from, and a stream that was *)
(* ended gets none.                                                        *)
OneReplyEach ==
  \A m \in Msgs :
    /\ \A i, j \in RepliesTo(m) : i = j
    /\ "done" \in {sse[m][k] : k \in DOMAIN sse[m]} => RepliesTo(m) = {}

(* A message the allowlist or the backpressure timeout turned away, or one *)
(* that was still on the bus at shutdown, never has an effect afterwards:  *)
(* no turn, no sub-agent, no reply, no trace on the bus.                   *)
TurnedAwayForGood ==
  \A m \in Msgs : stage[m] \in {"denied", "dropped"} =>
    /\ User(m) \notin parked
    /\ \A k \in DOMAIN inbound : inbound[k] # User(m)
    /\ RepliesTo(m) = {}
    /\ sub[m] = "none"
    /\ \A e \in Engines : lock[e] # m /\ \A k \in DOMAIN transcript[e] : transcript[e][k][2] # m

(* A session's history is never a mix of two turns: what the engine says   *)
(* directly follows the user message it answers.  The engine mutex is held *)
(* from the one to the other.                                              *)
TurnsDoNotInterleave ==
  \A e \in Engines : \A k \in DOMAIN transcript[e] :
    transcript[e][k][1] = "assistant" =>
      k > 1 /\ transcript[e][k-1] = <<"user", transcript[e][k][2]>>

(* An SSE client sees deltas and then at most one terminal event, and a    *)
(* stream that ended while its client was there has carried every delta.   *)
StreamOrder ==
  \A m \in Msgs :
    /\ \A k \in DOMAIN sse[m] : sse[m][k] # "delta" => k = Len(sse[m])
    /\ client[m] = "closed" /\ sse[m] # <<>> =>
         Len(sse[m]) = emitted[m] + 1 /\ sse[m][Len(sse[m])] # "delta"

(* A chat request subscribes before it sends, so that it cannot miss its   *)
(* own reply however fast it comes: while the request waits, its reply is  *)
(* ahead of it, unless the broadcast has overwritten it.                   *)
OwnReplyIsAhead ==
  \A m \in Msgs : client[m] = "waiting" /\ msg[m].kind = "chat" =>
    \A i \in RepliesTo(m) : cursor[m] < i \/ i <= bus!Overwritten

(* m waits for an engine whose mutex is kept by a turn whose provider does *)
(* not return, or is such a turn itself.                                   *)
BehindSilent(m) ==
  /\ msg[m] # NoMsg
  /\ \E n \in Silent : stage[n] = "running" /\ EngineOf(n) = EngineOf(m)

Ended(m) == \E k \in DOMAIN sse[m] : sse[m][k] # "delta"
Answered(m) == RepliesTo(m) # {} \/ Ended(m) \/ client[m] = "gone"

(* Every message on the bus is answered, unless the daemon is stopped, the *)
(* message is dropped for lack of room, there is no agent, or its engine   *)
(* is kept for ever by a turn whose provider does not return: such a turn  *)
(* holds up the messages of its own engine and no other's.                 *)
AcceptedIsAnswered ==
  \A m \in Msgs :
    <>[]BehindSilent(m)
    \/ (stage[m] = "sent" ~> Answered(m) \/ stage[m] \in {"dropped", "ignored"} \/ ~up)

(* The reply to a chat request that is still there when it is broadcast    *)
(* ends the request's wait, unless other replies overwrite it before the   *)
(* request has read it.                                                    *)
ReplyReachesChat ==
  \A m \in Msgs :
    client[m] = "waiting" /\ RepliesTo(m) # {} /\ msg[m].kind = "chat"
      ~> client[m] # "waiting" \/ \A i \in RepliesTo(m) : i <= bus!Overwritten

(* A sub-agent's result is broadcast once, and only a full or closed bus   *)
(* loses it.                                                               *)
ResultReturns ==
  \A m \in Msgs : sub[m] = "running" ~> sub[m] \in {"returned", "dropped"}

(* chat.rs: the request injects its message and returns the reply to it.   *)
ChatReturnsOwnReply ==
  \A m \in Msgs : answer[m] # 0 => out[answer[m]].reply_to = m

(* What a client of the gateway sees comes in order and is not missed      *)
(* (routes/chat.rs), while every variable keeps its type.                  *)
ClientsSeeTheirs ==
  TypeOK /\ StreamOrder /\ OwnReplyIsAhead
=============================================================================
