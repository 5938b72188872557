--------------------------- MODULE DispatchProofs ---------------------------
(***************************************************************************)
(* What holds of Dispatch for every number of messages, sessions, agents   *)
(* and every capacity of the bus.                                          *)
(***************************************************************************)
EXTENDS Dispatch, TLAPS

(* Whatever is on its way or under way has an envelope. *)
HasEnvelope ==
  \A m \in Msgs :
    \/ stage[m] \notin {"new", "denied"}
    \/ User(m) \in parked
    \/ \E k \in DOMAIN inbound : inbound[k] = User(m)
    => msg[m] # NoMsg

TypeInv == TypeOK /\ HasEnvelope

USE DEF Kinds, Stages, EstopLevels

LEMMA TypeInit == Init => TypeInv
  BY DispatchAssumption DEF Init, TypeInv, TypeOK, BusType, TurnType, HttpType, SubType, HasEnvelope,
     bus!BusInit, Receivers, Places, DefaultOrigin, Origins, Manager, User, Items

LEMMA AppendTyped ==
  ASSUME NEW S, NEW D, NEW f \in [D -> Seq(S)], NEW x, NEW v \in S
  PROVE  [f EXCEPT ![x] = Append(@, v)] \in [D -> Seq(S)]
<1> DEFINE g == [f EXCEPT ![x] = Append(@, v)]
<1>1. ASSUME NEW d \in D PROVE g[d] \in Seq(S)
  <2>1. CASE d = x
    <3>1. g[d] = Append(f[d], v)
      BY <2>1
    <3> QED BY <3>1
  <2>2. CASE d # x
    BY <2>2
  <2> QED BY <2>1, <2>2
<1>2. g = [d \in D |-> g[d]]
  OBVIOUS
<1> HIDE DEF g
<1>3. g \in [D -> Seq(S)]
  BY <1>1, <1>2
<1> QED BY <1>3 DEF g

LEMMA OverwrittenType ==
  ASSUME BusType PROVE bus!Overwritten \in 0..Len(out)
  BY DispatchAssumption DEF BusType, bus!Overwritten

LEMMA ReplyType ==
  ASSUME TypeInv, NEW m \in Msgs, msg[m] # NoMsg,
         NEW what \in {"killed", "limited", "frozen", "answer", "error"}
  PROVE  Reply(m, what) \in Replies
  BY DEF TypeInv, TypeOK, TurnType, Reply, Replies, Envelope, Origins

LEMMA ResultType ==
  ASSUME TypeInv, NEW m \in Msgs PROVE ResultReply(m) \in Replies
  BY DEF TypeInv, TypeOK, SubType, ResultReply, Replies, Places
LEMMA TypeNext == TypeInv /\ [Next]_vars => TypeInv'
<1> SUFFICES ASSUME TypeInv, [Next]_vars PROVE TypeInv'
  OBVIOUS
<1> USE DispatchAssumption DEF turnVars, httpVars, subVars
<1>0. BusType /\ TurnType /\ HttpType /\ SubType /\ HasEnvelope
  BY DEF TypeInv, TypeOK
<1>1. ASSUME NEW m \in Msgs, MessageStep(m) PROVE TypeInv'
  <2>1. CASE ChannelSend(m)
    <3>1. BusType'
      BY <1>0, <2>1 DEF ChannelSend, Submit, bus!StartSend, BusType, Items, Receivers, User, Result
    <3>2. TurnType'
      BY <1>0, <2>1 DEF ChannelSend, Submit, bus!StartSend, TurnType, Envelope, Kinds
    <3>3. HttpType'
      BY <1>0, <2>1 DEF ChannelSend, Submit, bus!StartSend, HttpType
    <3>4. SubType'
      BY <1>0, <2>1 DEF ChannelSend, Submit, bus!StartSend, SubType, Places, DefaultOrigin, Origins, TurnType, Envelope
    <3>5. HasEnvelope'
      <4>1. msg'[m] # NoMsg /\ \A n \in Msgs \ {m} : msg'[n] = msg[n] /\ stage'[n] = stage[n]
        BY <1>0, <2>1 DEF ChannelSend, Submit, TurnType, Envelope, Kinds
      <4>2. inbound' = inbound /\ parked' = parked \cup {User(m)}
        BY <2>1 DEF ChannelSend, Submit, bus!StartSend
      <4> QED BY <4>1, <4>2, <1>0 DEF HasEnvelope, User
    <3> QED BY <3>1, <3>2, <3>3, <3>4, <3>5 DEF TypeInv, TypeOK
  <2>2. CASE ChannelDenied(m)
    <3>1. BusType'
      BY <1>0, <2>2 DEF ChannelDenied, BusType, Items, Receivers, User, Result
    <3>2. TurnType'
      BY <1>0, <2>2 DEF ChannelDenied, TurnType, Envelope, Kinds
    <3>3. HttpType'
      BY <1>0, <2>2 DEF ChannelDenied, HttpType
    <3>4. SubType'
      BY <1>0, <2>2 DEF ChannelDenied, SubType, Places, DefaultOrigin, Origins, TurnType, Envelope
    <3>5. HasEnvelope'
      BY <1>0, <2>2 DEF ChannelDenied, HasEnvelope, BusType, TurnType, Items, User, Result
    <3> QED BY <3>1, <3>2, <3>3, <3>4, <3>5 DEF TypeInv, TypeOK
  <2>3. CASE ChatRequest(m)
    <3>1. BusType'
      BY <1>0, <2>3 DEF ChatRequest, Submit, bus!StartSend, bus!Subscribe, BusType, Items, Receivers, User, Result
    <3>2. TurnType'
      BY <1>0, <2>3 DEF ChatRequest, Submit, bus!StartSend, bus!Subscribe, TurnType, Envelope, Kinds
    <3>3. HttpType'
      BY <1>0, <2>3 DEF ChatRequest, Submit, bus!StartSend, bus!Subscribe, HttpType
    <3>4. SubType'
      BY <1>0, <2>3 DEF ChatRequest, Submit, bus!StartSend, bus!Subscribe, SubType, Places, DefaultOrigin, Origins, TurnType, Envelope
    <3>5. HasEnvelope'
      <4>1. msg'[m] # NoMsg /\ \A n \in Msgs \ {m} : msg'[n] = msg[n] /\ stage'[n] = stage[n]
        BY <1>0, <2>3 DEF ChatRequest, Submit, TurnType, Envelope, Kinds
      <4>2. inbound' = inbound /\ parked' = parked \cup {User(m)}
        BY <2>3 DEF ChatRequest, Submit, bus!StartSend
      <4> QED BY <4>1, <4>2, <1>0 DEF HasEnvelope, User
    <3> QED BY <3>1, <3>2, <3>3, <3>4, <3>5 DEF TypeInv, TypeOK
  <2>4. CASE StreamRequest(m)
    <3>1. BusType'
      BY <1>0, <2>4 DEF StreamRequest, Submit, bus!StartSend, BusType, Items, Receivers, User, Result
    <3>2. TurnType'
      BY <1>0, <2>4 DEF StreamRequest, Submit, bus!StartSend, TurnType, Envelope, Kinds
    <3>3. HttpType'
      BY <1>0, <2>4 DEF StreamRequest, Submit, bus!StartSend, HttpType
    <3>4. SubType'
      BY <1>0, <2>4 DEF StreamRequest, Submit, bus!StartSend, SubType, Places, DefaultOrigin, Origins, TurnType, Envelope
    <3>5. HasEnvelope'
      <4>1. msg'[m] # NoMsg /\ \A n \in Msgs \ {m} : msg'[n] = msg[n] /\ stage'[n] = stage[n]
        BY <1>0, <2>4 DEF StreamRequest, Submit, TurnType, Envelope, Kinds
      <4>2. inbound' = inbound /\ parked' = parked \cup {User(m)}
        BY <2>4 DEF StreamRequest, Submit, bus!StartSend
      <4> QED BY <4>1, <4>2, <1>0 DEF HasEnvelope, User
    <3> QED BY <3>1, <3>2, <3>3, <3>4, <3>5 DEF TypeInv, TypeOK
  <2>5. CASE DropMessage(m)
    <3>1. BusType'
      BY <1>0, <2>5 DEF DropMessage, bus!GiveUp, BusType, Items, Receivers, User, Result
    <3>2. TurnType'
      BY <1>0, <2>5 DEF DropMessage, bus!GiveUp, TurnType, Envelope, Kinds
    <3>3. HttpType'
      BY <1>0, <2>5 DEF DropMessage, bus!GiveUp, HttpType
    <3>4. SubType'
      BY <1>0, <2>5 DEF DropMessage, bus!GiveUp, SubType, Places, DefaultOrigin, Origins, TurnType, Envelope
    <3>5. HasEnvelope'
      BY <1>0, <2>5 DEF DropMessage, bus!GiveUp, HasEnvelope, BusType, TurnType, Items, User, Result
    <3> QED BY <3>1, <3>2, <3>3, <3>4, <3>5 DEF TypeInv, TypeOK
  <2>6. CASE DropResult(m)
    <3>1. BusType'
      BY <1>0, <2>6 DEF DropResult, bus!GiveUp, BusType, Items, Receivers, User, Result
    <3>2. TurnType'
      BY <1>0, <2>6 DEF DropResult, bus!GiveUp, TurnType, Envelope, Kinds
    <3>3. HttpType'
      BY <1>0, <2>6 DEF DropResult, bus!GiveUp, HttpType
    <3>4. SubType'
      BY <1>0, <2>6 DEF DropResult, bus!GiveUp, SubType, Places, DefaultOrigin, Origins, TurnType, Envelope
    <3>5. HasEnvelope'
      BY <1>0, <2>6 DEF DropResult, bus!GiveUp, HasEnvelope, BusType, TurnType, Items, User, Result
    <3> QED BY <3>1, <3>2, <3>3, <3>4, <3>5 DEF TypeInv, TypeOK
  <2>7. CASE DispatchResult(m)
    <3>1. BusType'
      BY <1>0, <2>7, ResultType DEF DispatchResult, bus!Receive, bus!Broadcast, BusType, Items, Receivers, User, Result
    <3>2. TurnType'
      BY <1>0, <2>7 DEF DispatchResult, bus!Receive, bus!Broadcast, TurnType, Envelope, Kinds
    <3>3. HttpType'
      BY <1>0, <2>7 DEF DispatchResult, bus!Receive, bus!Broadcast, HttpType
    <3>4. SubType'
      BY <1>0, <2>7 DEF DispatchResult, bus!Receive, bus!Broadcast, SubType, Places, DefaultOrigin, Origins, TurnType, Envelope
    <3>5. HasEnvelope'
      BY <1>0, <2>7 DEF DispatchResult, bus!Receive, bus!Broadcast, HasEnvelope, BusType, TurnType, Items, User, Result
    <3> QED BY <3>1, <3>2, <3>3, <3>4, <3>5 DEF TypeInv, TypeOK
  <2>8. CASE DispatchMessage(m)
    <3>1. BusType'
      <4>1. msg[m] # NoMsg
        BY <1>0, <2>8 DEF DispatchMessage, bus!Receive, HasEnvelope, BusType, User
      <4>2. \A what \in {"killed", "limited", "frozen", "answer", "error"} : Reply(m, what) \in Replies
        BY <4>1, ReplyType
      <4>3. parked' = parked /\ cursor' = cursor /\ inbound' \in Seq(Items)
        BY <1>0, <2>8 DEF DispatchMessage, bus!Receive, BusType
      <4>4. out' = out \/ \E r \in Replies : out' = Append(out, r)
        BY <4>2, <2>8 DEF DispatchMessage, Refuse, bus!Broadcast
      <4>5. out' \in Seq(Replies) /\ Len(out') \in Nat /\ Len(out) \in Nat /\ Len(out') >= Len(out)
        BY <4>4, <1>0 DEF BusType
      <4> QED BY <4>3, <4>5, <1>0 DEF BusType
    <3>2. TurnType'
      BY <1>0, <2>8 DEF DispatchMessage, bus!Receive, bus!Broadcast, Refuse, TurnType, Envelope, Kinds
    <3>3. HttpType'
      BY <1>0, <2>8 DEF DispatchMessage, bus!Receive, bus!Broadcast, Refuse, HttpType
    <3>4. SubType'
      BY <1>0, <2>8 DEF DispatchMessage, bus!Receive, bus!Broadcast, Refuse, SubType, Places, DefaultOrigin, Origins, TurnType, Envelope
    <3>5. HasEnvelope'
      BY <1>0, <2>8 DEF DispatchMessage, bus!Receive, bus!Broadcast, Refuse, HasEnvelope, BusType, TurnType, Items, User, Result
    <3> QED BY <3>1, <3>2, <3>3, <3>4, <3>5 DEF TypeInv, TypeOK
  <2>9. CASE TurnFrozen(m)
    <3>1. BusType'
      <4>1. msg[m] # NoMsg
        BY <1>0, <2>9 DEF TurnFrozen, bus!Receive, HasEnvelope, BusType, User
      <4>2. \A what \in {"killed", "limited", "frozen", "answer", "error"} : Reply(m, what) \in Replies
        BY <4>1, ReplyType
      <4>3. parked' = parked /\ cursor' = cursor /\ inbound' \in Seq(Items)
        BY <1>0, <2>9 DEF TurnFrozen, bus!Receive, BusType
      <4>4. out' = out \/ \E r \in Replies : out' = Append(out, r)
        BY <4>2, <2>9 DEF TurnFrozen, Refuse, bus!Broadcast
      <4>5. out' \in Seq(Replies) /\ Len(out') \in Nat /\ Len(out) \in Nat /\ Len(out') >= Len(out)
        BY <4>4, <1>0 DEF BusType
      <4> QED BY <4>3, <4>5, <1>0 DEF BusType
    <3>2. TurnType'
      BY <1>0, <2>9 DEF TurnFrozen, Refuse, bus!Broadcast, TurnType, Envelope, Kinds
    <3>3. HttpType'
      BY <1>0, <2>9 DEF TurnFrozen, Refuse, bus!Broadcast, HttpType
    <3>4. SubType'
      BY <1>0, <2>9 DEF TurnFrozen, Refuse, bus!Broadcast, SubType, Places, DefaultOrigin, Origins, TurnType, Envelope
    <3>5. HasEnvelope'
      BY <1>0, <2>9 DEF TurnFrozen, Refuse, bus!Broadcast, HasEnvelope, BusType, TurnType, Items, User, Result
    <3> QED BY <3>1, <3>2, <3>3, <3>4, <3>5 DEF TypeInv, TypeOK
  <2>10. CASE TurnStart(m)
    <3>1. BusType'
      BY <1>0, <2>10 DEF TurnStart, BusType, Items, Receivers, User, Result
    <3>2. TurnType'
      <4>1. <<"user", m>> \in {"user", "assistant"} \X Msgs
        OBVIOUS
      <4>2. transcript' \in [Engines -> Seq({"user", "assistant"} \X Msgs)]
        BY <4>1, <1>0, <2>10, AppendTyped DEF TurnStart, TurnType
      <4>3. lock' \in [Engines -> Msgs \cup {NoMsg}] /\ stage' \in [Msgs -> Stages]
        BY <1>0, <2>10 DEF TurnStart, TurnType
      <4> QED BY <4>2, <4>3, <1>0, <2>10 DEF TurnStart, TurnType
    <3>3. HttpType'
      BY <1>0, <2>10 DEF TurnStart, HttpType
    <3>4. SubType'
      BY <1>0, <2>10 DEF TurnStart, SubType, Places, DefaultOrigin, Origins, TurnType, Envelope
    <3>5. HasEnvelope'
      BY <1>0, <2>10 DEF TurnStart, HasEnvelope, BusType, TurnType, Items, User, Result
    <3> QED BY <3>1, <3>2, <3>3, <3>4, <3>5 DEF TypeInv, TypeOK
  <2>11. CASE EmitDelta(m)
    <3>1. BusType'
      BY <1>0, <2>11 DEF EmitDelta, BusType, Items, Receivers, User, Result
    <3>2. TurnType'
      BY <1>0, <2>11 DEF EmitDelta, TurnType, Envelope, Kinds
    <3>3. HttpType'
      BY <1>0, <2>11 DEF EmitDelta, HttpType
    <3>4. SubType'
      BY <1>0, <2>11 DEF EmitDelta, SubType, Places, DefaultOrigin, Origins, TurnType, Envelope
    <3>5. HasEnvelope'
      BY <1>0, <2>11 DEF EmitDelta, HasEnvelope, BusType, TurnType, Items, User, Result
    <3> QED BY <3>1, <3>2, <3>3, <3>4, <3>5 DEF TypeInv, TypeOK
  <2>12. CASE Delegate(m)
    <3>1. BusType'
      BY <1>0, <2>12 DEF Delegate, BusType, Items, Receivers, User, Result
    <3>2. TurnType'
      BY <1>0, <2>12 DEF Delegate, TurnType, Envelope, Kinds
    <3>3. HttpType'
      BY <1>0, <2>12 DEF Delegate, HttpType
    <3>4. SubType'
      <4>1. msg[m] \in Envelope
        BY <1>0, <2>12 DEF Delegate, HasEnvelope, TurnType
      <4>2. DefaultOrigin \in Places /\ [channel |-> msg[m].channel, session |-> msg[m].session] \in Places
        BY <4>1 DEF Envelope, Places, Origins, DefaultOrigin
      <4> QED BY <4>2, <1>0, <2>12 DEF Delegate, SubType
    <3>5. HasEnvelope'
      BY <1>0, <2>12 DEF Delegate, HasEnvelope, BusType, TurnType, Items, User, Result
    <3> QED BY <3>1, <3>2, <3>3, <3>4, <3>5 DEF TypeInv, TypeOK
  <2>13. CASE (\E ok \in BOOLEAN : TurnEnd(m, ok))
    <3>1. BusType'
      BY <1>0, <2>13 DEF TurnEnd, BusType, Items, Receivers, User, Result
    <3>2. TurnType'
      <4>0. PICK ok \in BOOLEAN : TurnEnd(m, ok)
        BY <2>13
      <4>1. <<"assistant", m>> \in {"user", "assistant"} \X Msgs
        OBVIOUS
      <4>2. transcript' \in [Engines -> Seq({"user", "assistant"} \X Msgs)]
        <5>1. transcript' = transcript \/ transcript' = [transcript EXCEPT ![EngineOf(m)] = Append(@, <<"assistant", m>>)]
          BY <4>0, <1>0 DEF TurnEnd, TurnType
        <5>2. transcript \in [Engines -> Seq({"user", "assistant"} \X Msgs)]
          BY <1>0 DEF TurnType
        <5>3. [transcript EXCEPT ![EngineOf(m)] = Append(@, <<"assistant", m>>)]
                \in [Engines -> Seq({"user", "assistant"} \X Msgs)]
          BY <5>2, <4>1, AppendTyped
        <5> QED BY <5>1, <5>2, <5>3
      <4>3. lock' \in [Engines -> Msgs \cup {NoMsg}] /\ stage' \in [Msgs -> Stages]
        BY <4>0, <1>0 DEF TurnEnd, TurnType
      <4> QED BY <4>0, <4>2, <4>3, <1>0 DEF TurnEnd, TurnType
    <3>3. HttpType'
      BY <1>0, <2>13 DEF TurnEnd, HttpType
    <3>4. SubType'
      BY <1>0, <2>13 DEF TurnEnd, SubType, Places, DefaultOrigin, Origins, TurnType, Envelope
    <3>5. HasEnvelope'
      BY <1>0, <2>13 DEF TurnEnd, HasEnvelope, BusType, TurnType, Items, User, Result
    <3> QED BY <3>1, <3>2, <3>3, <3>4, <3>5 DEF TypeInv, TypeOK
  <2>14. CASE TurnReply(m)
    <3>1. BusType'
      <4>1. msg[m] # NoMsg
        BY <1>0, <2>14 DEF TurnReply, bus!Receive, HasEnvelope, BusType, User
      <4>2. \A what \in {"killed", "limited", "frozen", "answer", "error"} : Reply(m, what) \in Replies
        BY <4>1, ReplyType
      <4>3. parked' = parked /\ cursor' = cursor /\ inbound' \in Seq(Items)
        BY <1>0, <2>14 DEF TurnReply, bus!Receive, BusType
      <4>4. out' = out \/ \E r \in Replies : out' = Append(out, r)
        BY <4>2, <2>14 DEF TurnReply, Refuse, bus!Broadcast
      <4>5. out' \in Seq(Replies) /\ Len(out') \in Nat /\ Len(out) \in Nat /\ Len(out') >= Len(out)
        BY <4>4, <1>0 DEF BusType
      <4> QED BY <4>3, <4>5, <1>0 DEF BusType
    <3>2. TurnType'
      BY <1>0, <2>14 DEF TurnReply, Refuse, bus!Broadcast, TurnType, Envelope, Kinds
    <3>3. HttpType'
      BY <1>0, <2>14 DEF TurnReply, Refuse, bus!Broadcast, HttpType
    <3>4. SubType'
      BY <1>0, <2>14 DEF TurnReply, Refuse, bus!Broadcast, SubType, Places, DefaultOrigin, Origins, TurnType, Envelope
    <3>5. HasEnvelope'
      BY <1>0, <2>14 DEF TurnReply, Refuse, bus!Broadcast, HasEnvelope, BusType, TurnType, Items, User, Result
    <3> QED BY <3>1, <3>2, <3>3, <3>4, <3>5 DEF TypeInv, TypeOK
  <2>15. CASE ForwardDelta(m)
    <3>1. BusType'
      BY <1>0, <2>15 DEF ForwardDelta, PushStream, BusType, Items, Receivers, User, Result
    <3>2. TurnType'
      BY <1>0, <2>15 DEF ForwardDelta, PushStream, TurnType, Envelope, Kinds
    <3>3. HttpType'
      BY <1>0, <2>15 DEF ForwardDelta, PushStream, HttpType
    <3>4. SubType'
      BY <1>0, <2>15 DEF ForwardDelta, PushStream, SubType, Places, DefaultOrigin, Origins, TurnType, Envelope
    <3>5. HasEnvelope'
      BY <1>0, <2>15 DEF ForwardDelta, PushStream, HasEnvelope, BusType, TurnType, Items, User, Result
    <3> QED BY <3>1, <3>2, <3>3, <3>4, <3>5 DEF TypeInv, TypeOK
  <2>16. CASE StreamClose(m)
    <3>1. BusType'
      BY <1>0, <2>16 DEF StreamClose, EndStream, PushStream, BusType, Items, Receivers, User, Result
    <3>2. TurnType'
      BY <1>0, <2>16 DEF StreamClose, EndStream, PushStream, TurnType, Envelope, Kinds
    <3>3. HttpType'
      BY <1>0, <2>16 DEF StreamClose, EndStream, PushStream, HttpType
    <3>4. SubType'
      BY <1>0, <2>16 DEF StreamClose, EndStream, PushStream, SubType, Places, DefaultOrigin, Origins, TurnType, Envelope
    <3>5. HasEnvelope'
      BY <1>0, <2>16 DEF StreamClose, EndStream, PushStream, HasEnvelope, BusType, TurnType, Items, User, Result
    <3> QED BY <3>1, <3>2, <3>3, <3>4, <3>5 DEF TypeInv, TypeOK
  <2>17. CASE SubAgentEnd(m)
    <3>1. BusType'
      BY <1>0, <2>17 DEF SubAgentEnd, bus!StartSend, BusType, Items, Receivers, User, Result
    <3>2. TurnType'
      BY <1>0, <2>17 DEF SubAgentEnd, bus!StartSend, TurnType, Envelope, Kinds
    <3>3. HttpType'
      BY <1>0, <2>17 DEF SubAgentEnd, bus!StartSend, HttpType
    <3>4. SubType'
      BY <1>0, <2>17 DEF SubAgentEnd, bus!StartSend, SubType, Places, DefaultOrigin, Origins, TurnType, Envelope
    <3>5. HasEnvelope'
      BY <1>0, <2>17 DEF SubAgentEnd, bus!StartSend, HasEnvelope, BusType, TurnType, Items, User, Result
    <3> QED BY <3>1, <3>2, <3>3, <3>4, <3>5 DEF TypeInv, TypeOK
  <2>18. CASE ChatRecv(m)
    <3>1. BusType'
      <4>1. inbound' = inbound /\ parked' = parked /\ out' = out
        BY <2>18 DEF ChatRecv, TakeReply
      <4>2. m \in DOMAIN cursor /\ cursor[m] < Len(out)
        BY <2>18 DEF ChatRecv, TakeReply, bus!CanRead, bus!Subscribed
      <4>3. bus!Unsubscribe(m) \/ bus!Advance(m)
        BY <2>18 DEF ChatRecv, TakeReply
      <4>4. CASE bus!Unsubscribe(m)
        BY <4>1, <4>4, <1>0 DEF BusType, bus!Unsubscribe
      <4>5. CASE bus!Advance(m)
        BY <4>1, <4>2, <4>5, <1>0 DEF BusType, bus!Advance
      <4> QED BY <4>3, <4>4, <4>5
    <3>2. TurnType'
      BY <1>0, <2>18 DEF ChatRecv, TakeReply, bus!CanRead, bus!Subscribed, bus!Unsubscribe, bus!Advance, TurnType, Envelope, Kinds
    <3>3. HttpType'
      <4>1. m \in DOMAIN cursor
        BY <2>18 DEF ChatRecv, TakeReply, bus!CanRead, bus!Subscribed
      <4>2. cursor[m] + 1 \in Nat
        BY <4>1, <1>0 DEF BusType
      <4>3. \/ answer' = answer /\ client' = client
            \/ /\ answer' = [answer EXCEPT ![m] = cursor[m] + 1]
               /\ client' = [client EXCEPT ![m] = "answered"]
        BY <2>18 DEF ChatRecv, TakeReply
      <4>4. UNCHANGED <<registry, emitted, forwarded, sse>>
        BY <2>18 DEF ChatRecv, TakeReply
      <4>5. answer' \in [Msgs -> Nat]
        BY <4>2, <4>3, <1>0 DEF HttpType
      <4>6. client' \in [Msgs -> {"none", "waiting", "answered", "closed", "gone"}]
        BY <4>3, <1>0 DEF HttpType
      <4> QED BY <4>4, <4>5, <4>6, <1>0 DEF HttpType
    <3>4. SubType'
      BY <1>0, <2>18 DEF ChatRecv, TakeReply, bus!CanRead, bus!Subscribed, bus!Unsubscribe, bus!Advance, SubType, Places, DefaultOrigin, Origins, TurnType, Envelope
    <3>5. HasEnvelope'
      BY <1>0, <2>18 DEF ChatRecv, TakeReply, bus!CanRead, bus!Subscribed, bus!Unsubscribe, bus!Advance, HasEnvelope, BusType, TurnType, Items, User, Result
    <3> QED BY <3>1, <3>2, <3>3, <3>4, <3>5 DEF TypeInv, TypeOK
  <2>19. CASE ClientLeaves(m)
    <3>1. BusType'
      BY <1>0, <2>19 DEF ClientLeaves, bus!Abandon, bus!Unsubscribe, BusType, Items, Receivers, User, Result
    <3>2. TurnType'
      BY <1>0, <2>19 DEF ClientLeaves, bus!Abandon, bus!Unsubscribe, TurnType, Envelope, Kinds
    <3>3. HttpType'
      BY <1>0, <2>19 DEF ClientLeaves, bus!Abandon, bus!Unsubscribe, HttpType
    <3>4. SubType'
      BY <1>0, <2>19 DEF ClientLeaves, bus!Abandon, bus!Unsubscribe, SubType, Places, DefaultOrigin, Origins, TurnType, Envelope
    <3>5. HasEnvelope'
      BY <1>0, <2>19 DEF ClientLeaves, bus!Abandon, bus!Unsubscribe, HasEnvelope, BusType, TurnType, Items, User, Result
    <3> QED BY <3>1, <3>2, <3>3, <3>4, <3>5 DEF TypeInv, TypeOK
  <2> QED BY <1>1, <2>1, <2>2, <2>3, <2>4, <2>5, <2>6, <2>7, <2>8, <2>9, <2>10, <2>11, <2>12, <2>13, <2>14, <2>15, <2>16, <2>17, <2>18, <2>19 DEF MessageStep
<1>2. ASSUME NEW i \in Items, AdmitItem(i) PROVE TypeInv'
  <2>1. BusType'
    BY <1>0, <1>2 DEF AdmitItem, bus!Admit, BusType, Items, Receivers, User, Result
  <2>2. TurnType'
    BY <1>0, <1>2 DEF AdmitItem, bus!Admit, TurnType, Envelope, Kinds
  <2>3. HttpType'
    BY <1>0, <1>2 DEF AdmitItem, bus!Admit, HttpType
  <2>4. SubType'
    BY <1>0, <1>2 DEF AdmitItem, bus!Admit, SubType, Places, DefaultOrigin, Origins, TurnType, Envelope
  <2>5. HasEnvelope'
    BY <1>0, <1>2 DEF AdmitItem, bus!Admit, HasEnvelope, BusType, TurnType, Items, User, Result
  <2> QED BY <2>1, <2>2, <2>3, <2>4, <2>5 DEF TypeInv, TypeOK
<1>3. ASSUME NEW r \in Receivers, RecvLagged(r) PROVE TypeInv'
  <2>1. BusType'
    BY <1>0, <1>3, OverwrittenType DEF RecvLagged, bus!SkipLagged, bus!Subscribed, BusType, Items, Receivers, User, Result
  <2>2. TurnType'
    BY <1>0, <1>3 DEF RecvLagged, bus!SkipLagged, bus!Subscribed, TurnType, Envelope, Kinds
  <2>3. HttpType'
    BY <1>0, <1>3 DEF RecvLagged, bus!SkipLagged, bus!Subscribed, HttpType
  <2>4. SubType'
    BY <1>0, <1>3 DEF RecvLagged, bus!SkipLagged, bus!Subscribed, SubType, Places, DefaultOrigin, Origins, TurnType, Envelope
  <2>5. HasEnvelope'
    BY <1>0, <1>3 DEF RecvLagged, bus!SkipLagged, bus!Subscribed, HasEnvelope, BusType, TurnType, Items, User, Result
  <2> QED BY <2>1, <2>2, <2>3, <2>4, <2>5 DEF TypeInv, TypeOK
<1>4. CASE ManagerRecv
  <2>1. BusType'
    BY <1>0, <1>4 DEF ManagerRecv, bus!CanRead, bus!Advance, bus!Subscribed, BusType, Items, Receivers, User, Result
  <2>2. TurnType'
    BY <1>0, <1>4 DEF ManagerRecv, bus!CanRead, bus!Advance, bus!Subscribed, TurnType, Envelope, Kinds
  <2>3. HttpType'
    BY <1>0, <1>4 DEF ManagerRecv, bus!CanRead, bus!Advance, bus!Subscribed, HttpType
  <2>4. SubType'
    BY <1>0, <1>4 DEF ManagerRecv, bus!CanRead, bus!Advance, bus!Subscribed, SubType, Places, DefaultOrigin, Origins, TurnType, Envelope
  <2>5. HasEnvelope'
    BY <1>0, <1>4 DEF ManagerRecv, bus!CanRead, bus!Advance, bus!Subscribed, HasEnvelope, BusType, TurnType, Items, User, Result
  <2> QED BY <2>1, <2>2, <2>3, <2>4, <2>5 DEF TypeInv, TypeOK
<1>5. CASE Shutdown
  <2>1. BusType'
    BY <1>0, <1>5 DEF Shutdown, bus!CloseInbound, BusType, Items, Receivers, User, Result
  <2>2. TurnType'
    BY <1>0, <1>5 DEF Shutdown, bus!CloseInbound, TurnType, Envelope, Kinds
  <2>3. HttpType'
    BY <1>0, <1>5 DEF Shutdown, bus!CloseInbound, HttpType
  <2>4. SubType'
    BY <1>0, <1>5 DEF Shutdown, bus!CloseInbound, SubType, Places, DefaultOrigin, Origins, TurnType, Envelope
  <2>5. HasEnvelope'
      <4>1. \A m \in Msgs : stage'[m] \notin {"new", "denied"} => stage[m] \notin {"new", "denied"}
        BY <1>0, <1>5 DEF Shutdown, TurnType
      <4>2. msg' = msg /\ inbound' = <<>> /\ parked' = {}
        BY <1>5 DEF Shutdown, bus!CloseInbound
      <4> QED BY <4>1, <4>2, <1>0 DEF HasEnvelope
  <2> QED BY <2>1, <2>2, <2>3, <2>4, <2>5 DEF TypeInv, TypeOK
<1>6. CASE UNCHANGED vars
  <2>1. BusType'
    BY <1>0, <1>6 DEF vars, BusType, Items, Receivers, User, Result
  <2>2. TurnType'
    BY <1>0, <1>6 DEF vars, TurnType, Envelope, Kinds
  <2>3. HttpType'
    BY <1>0, <1>6 DEF vars, HttpType
  <2>4. SubType'
    BY <1>0, <1>6 DEF vars, SubType, Places, DefaultOrigin, Origins, TurnType, Envelope
  <2>5. HasEnvelope'
    BY <1>0, <1>6 DEF vars, HasEnvelope, BusType, TurnType, Items, User, Result
  <2> QED BY <2>1, <2>2, <2>3, <2>4, <2>5 DEF TypeInv, TypeOK
<1> QED BY <1>1, <1>2, <1>3, <1>4, <1>5, <1>6 DEF Next

(* Every variable of the daemon keeps its type: in particular no receiver's *)
(* cursor runs past the broadcast, and nothing is ever broadcast for a      *)
(* message that was not sent (TypeOK is about the state that the senders,   *)
(* the dispatch loop and the tasks of run.rs and chat.rs share).            *)
THEOREM TypeCorrect == Spec => []TypeOK
<1>1. TypeInv => TypeOK
  BY DEF TypeInv
<1> QED BY <1>1, TypeInit, TypeNext, PTL DEF Spec

-----------------------------------------------------------------------------
(* A message is in one place: waiting for room, or once on the bus, and as  *)
(* long as it is there nothing else has happened to it.                     *)
OnBus(m) == \E k \in DOMAIN inbound : inbound[k] = User(m)

QueueInv ==
  \A m \in Msgs :
    /\ User(m) \in parked => stage[m] = "sent" /\ ~OnBus(m)
    /\ OnBus(m) => stage[m] = "sent"
    /\ \A j, k \in DOMAIN inbound : inbound[j] = User(m) /\ inbound[k] = User(m) => j = k

(* A step that moves no message on the bus and leaves what is there alone. *)
BusQuiet ==
  /\ inbound' = inbound
  /\ \A m \in Msgs :
       /\ User(m) \in parked' <=> User(m) \in parked
       /\ stage[m] = "sent" => stage'[m] = "sent"

LEMMA BusQuietStep ==
  ASSUME QueueInv, BusQuiet PROVE QueueInv'
  BY DEF QueueInv, BusQuiet, OnBus

LEMMA SubmitStep ==
  ASSUME TypeInv, QueueInv, NEW m \in Msgs, NEW kind, NEW ch, NEW s,
         Submit(m, kind, ch, s), inbound' = inbound
  PROVE  QueueInv'
<1>1. stage[m] = "new" /\ stage'[m] = "sent" /\ \A n \in Msgs \ {m} : stage'[n] = stage[n]
  BY DEF Submit, TypeInv, TypeOK, TurnType
<1>2. parked' = parked \cup {User(m)} /\ \A n \in Msgs \ {m} : User(n) # User(m)
  BY DEF Submit, bus!StartSend, User
<1> QED BY <1>1, <1>2 DEF QueueInv, OnBus

(* The head of the bus is taken. *)
LEMMA ReceiveStep ==
  ASSUME TypeInv, QueueInv, NEW i \in Items, bus!Receive(i), parked' = parked,
         \A m \in Msgs : i # User(m) => stage'[m] = stage[m]
  PROVE  QueueInv'
<1>1. inbound \in Seq(Items) /\ inbound # <<>> /\ inbound[1] = i /\ inbound' = Tail(inbound)
  BY DEF bus!Receive, TypeInv, TypeOK, BusType
<1>2. \A k \in DOMAIN inbound' : k+1 \in DOMAIN inbound /\ inbound'[k] = inbound[k+1] /\ k+1 # 1 /\ k \in Nat
  BY <1>1
<1>3. 1 \in DOMAIN inbound
  BY <1>1
<1> SUFFICES ASSUME NEW m \in Msgs
             PROVE  (/\ User(m) \in parked => stage[m] = "sent" /\ ~OnBus(m)
                     /\ OnBus(m) => stage[m] = "sent"
                     /\ \A j, k \in DOMAIN inbound : inbound[j] = User(m) /\ inbound[k] = User(m) => j = k)'
  BY DEF QueueInv
<1>4. CASE i = User(m)
  <2>1. ~OnBus(m)' /\ User(m) \notin parked
    BY <1>1, <1>2, <1>3, <1>4 DEF QueueInv, OnBus
  <2> QED BY <2>1 DEF OnBus
<1>5. CASE i # User(m)
  <2>1. OnBus(m)' => OnBus(m)
    BY <1>2 DEF OnBus
  <2>2. \A j, k \in DOMAIN inbound' : inbound'[j] = User(m) /\ inbound'[k] = User(m) => j = k
    BY <1>2 DEF QueueInv
  <2> QED BY <1>5, <2>1, <2>2 DEF QueueInv
<1> QED BY <1>4, <1>5

LEMMA AdmitStep ==
  ASSUME TypeInv, QueueInv, NEW i \in Items, bus!Admit(i), stage' = stage
  PROVE  QueueInv'
<1>1. inbound' = Append(inbound, i) /\ parked' = parked \ {i} /\ i \in parked
  BY DEF bus!Admit
<1>2. inbound \in Seq(Items)
  BY DEF TypeInv, TypeOK, BusType
<1>3. /\ DOMAIN inbound' = DOMAIN inbound \cup {Len(inbound)+1}
      /\ inbound'[Len(inbound)+1] = i
      /\ \A k \in DOMAIN inbound : inbound'[k] = inbound[k]
  BY <1>1, <1>2
<1> QED BY <1>1, <1>3 DEF QueueInv, OnBus

LEMMA QueueNext == TypeInv /\ QueueInv /\ [Next]_vars => QueueInv'
<1> SUFFICES ASSUME TypeInv, QueueInv, [Next]_vars PROVE QueueInv'
  OBVIOUS
<1> USE DEF turnVars
<1>0. stage \in [Msgs -> Stages]
  BY DEF TypeInv, TypeOK, TurnType
<1>1. ASSUME NEW m \in Msgs, MessageStep(m) PROVE QueueInv'
  <2>1. CASE ChannelSend(m)
    BY <2>1, SubmitStep DEF ChannelSend
  <2>2. CASE ChannelDenied(m)
    BY <1>0, <2>2, BusQuietStep DEF BusQuiet, ChannelDenied
  <2>3. CASE ChatRequest(m)
    BY <2>3, SubmitStep DEF ChatRequest
  <2>4. CASE StreamRequest(m)
    BY <2>4, SubmitStep DEF StreamRequest
  <2>5. CASE DropMessage(m)
    <3>1. User(m) \in parked /\ parked' = parked \ {User(m)} /\ inbound' = inbound
      BY <2>5 DEF DropMessage, bus!GiveUp
    <3>2. \A n \in Msgs \ {m} : User(n) # User(m) /\ stage'[n] = stage[n]
      BY <1>0, <2>5 DEF DropMessage, User
    <3> QED BY <3>1, <3>2 DEF QueueInv, OnBus
  <2>6. CASE DropResult(m)
    BY <1>0, <2>6, BusQuietStep DEF BusQuiet, DropResult, bus!GiveUp, User, Result
  <2>7. CASE DispatchResult(m)
    <3>1. Result(m) \in Items /\ \A n \in Msgs : Result(m) # User(n)
      BY DEF Result, User, Items
    <3> QED BY <3>1, <2>7, ReceiveStep DEF DispatchResult
  <2>8. CASE DispatchMessage(m)
    <3>1. User(m) \in Items /\ \A n \in Msgs \ {m} : User(m) # User(n)
      BY DEF User, Items
    <3>2. \A n \in Msgs \ {m} : stage'[n] = stage[n]
      BY <1>0, <2>8 DEF DispatchMessage, Refuse
    <3>3. bus!Receive(User(m)) /\ parked' = parked
      BY <2>8 DEF DispatchMessage
    <3> QED BY <3>1, <3>2, <3>3, ReceiveStep
  <2>9. CASE TurnFrozen(m)
    BY <1>0, <2>9, BusQuietStep DEF BusQuiet, TurnFrozen, Refuse
  <2>10. CASE TurnStart(m)
    BY <1>0, <2>10, BusQuietStep DEF BusQuiet, TurnStart
  <2>11. CASE EmitDelta(m)
    BY <1>0, <2>11, BusQuietStep DEF BusQuiet, EmitDelta
  <2>12. CASE Delegate(m)
    BY <1>0, <2>12, BusQuietStep DEF BusQuiet, Delegate
  <2>13. CASE (\E ok \in BOOLEAN : TurnEnd(m, ok))
    BY <1>0, <2>13, BusQuietStep DEF BusQuiet, TurnEnd
  <2>14. CASE TurnReply(m)
    BY <1>0, <2>14, BusQuietStep DEF BusQuiet, TurnReply, Refuse
  <2>15. CASE ForwardDelta(m)
    BY <1>0, <2>15, BusQuietStep DEF BusQuiet, ForwardDelta
  <2>16. CASE StreamClose(m)
    BY <1>0, <2>16, BusQuietStep DEF BusQuiet, StreamClose
  <2>17. CASE SubAgentEnd(m)
    BY <1>0, <2>17, BusQuietStep DEF BusQuiet, SubAgentEnd, bus!StartSend, User, Result
  <2>18. CASE ChatRecv(m)
    BY <1>0, <2>18, BusQuietStep DEF BusQuiet, ChatRecv, TakeReply
  <2>19. CASE ClientLeaves(m)
    <3>1. parked' = parked \ {User(m)} /\ inbound' = inbound
      BY <2>19 DEF ClientLeaves, bus!Abandon
    <3>2. \A n \in Msgs \ {m} : User(n) # User(m) /\ stage'[n] = stage[n]
      BY <1>0, <2>19 DEF ClientLeaves, User
    <3>3. User(m) \notin parked => stage'[m] = stage[m]
      BY <1>0, <2>19 DEF ClientLeaves
    <3> QED BY <3>1, <3>2, <3>3 DEF QueueInv, OnBus
  <2> QED BY <1>1, <2>1, <2>2, <2>3, <2>4, <2>5, <2>6, <2>7, <2>8, <2>9, <2>10, <2>11, <2>12, <2>13, <2>14, <2>15, <2>16, <2>17, <2>18, <2>19 DEF MessageStep
<1>2. ASSUME NEW i \in Items, AdmitItem(i) PROVE QueueInv'
  BY <1>2, AdmitStep DEF AdmitItem
<1>3. ASSUME NEW r \in Receivers, RecvLagged(r) PROVE QueueInv'
  BY <1>3, BusQuietStep DEF BusQuiet, RecvLagged, bus!SkipLagged
<1>4. CASE ManagerRecv
  BY <1>4, BusQuietStep DEF BusQuiet, ManagerRecv
<1>5. CASE Shutdown
  BY <1>5 DEF Shutdown, bus!CloseInbound, QueueInv, OnBus
<1>6. CASE UNCHANGED vars
  BY <1>6, BusQuietStep DEF BusQuiet, vars
<1> QED BY <1>1, <1>2, <1>3, <1>4, <1>5, <1>6 DEF Next

-----------------------------------------------------------------------------
(* What the engine mutex is worth: it is held by the one message whose turn *)
(* runs on the engine, and the history ends in that message until the turn  *)
(* is over.                                                                 *)
Held(m) ==
  /\ lock[EngineOf(m)] = m
  /\ transcript[EngineOf(m)] # <<>>
  /\ transcript[EngineOf(m)][Len(transcript[EngineOf(m)])] = <<"user", m>>

MutexInv ==
  /\ \A m \in Msgs : stage[m] \in {"spawned", "running"} => agents # {}
  /\ \A e \in Engines : lock[e] # NoMsg => stage[lock[e]] = "running" /\ EngineOf(lock[e]) = e
  /\ \A m \in Msgs : stage[m] = "running" => Held(m)

TurnInv == MutexInv /\ TurnsDoNotInterleave

LEMMA EngineType ==
  ASSUME TypeInv, NEW m \in Msgs, agents # {}, msg[m] # NoMsg
  PROVE  EngineOf(m) \in Engines
<1>1. AgentOf(m) \in Agents
  BY DEF TypeInv, TypeOK, TurnType, AgentOf
<1> QED BY <1>1 DEF TypeInv, TypeOK, TurnType, EngineOf, Engines, Envelope

(* A step that starts no turn and ends none. *)
Quiet ==
  /\ UNCHANGED <<agents, lock, transcript>>
  /\ \A m \in Msgs :
       /\ stage'[m] = "running" <=> stage[m] = "running"
       /\ stage'[m] = "spawned" => stage[m] = "spawned" \/ agents # {}
       /\ stage[m] = "running" => msg'[m] = msg[m]

LEMMA QuietStep ==
  ASSUME TypeInv, TurnInv, Quiet PROVE TurnInv'
<1>1. \A m \in Msgs : stage[m] = "running" => EngineOf(m)' = EngineOf(m)
  BY DEF Quiet, EngineOf, AgentOf
<1>2. TurnsDoNotInterleave'
  BY DEF Quiet, TurnInv, TurnsDoNotInterleave
<1>3. \A m \in Msgs : stage'[m] \in {"spawned", "running"} => agents' # {}
  BY DEF Quiet, TurnInv, MutexInv
<1>4. ASSUME NEW e \in Engines, lock'[e] # NoMsg
      PROVE  stage'[lock'[e]] = "running" /\ EngineOf(lock[e])' = e
  <2>1. lock[e] \in Msgs /\ lock'[e] = lock[e]
    BY <1>4 DEF Quiet, TypeInv, TypeOK, TurnType
  <2> QED BY <1>1, <1>4, <2>1 DEF Quiet, TurnInv, MutexInv
<1>5. ASSUME NEW m \in Msgs, stage'[m] = "running" PROVE Held(m)'
  <2>1. Held(m) /\ EngineOf(m)' = EngineOf(m)
    BY <1>1, <1>5 DEF Quiet, TurnInv, MutexInv
  <2> QED BY <2>1 DEF Quiet, Held
<1>6. \A e \in Engines : lock'[e] # NoMsg => stage'[lock'[e]] = "running" /\ EngineOf(lock[e])' = e
  BY <1>4
<1> QED BY <1>2, <1>3, <1>5, <1>6 DEF TurnInv, MutexInv, Quiet

LEMMA TurnStartStep ==
  ASSUME TypeInv, TurnInv, NEW m \in Msgs, TurnStart(m) PROVE TurnInv'
<1> DEFINE e0 == EngineOf(m)
<1>1. e0 \in Engines
  BY EngineType DEF TurnStart, TurnInv, MutexInv, TypeInv, HasEnvelope
<1>2. \A n \in Msgs : EngineOf(n)' = EngineOf(n)
  BY DEF TurnStart, EngineOf, AgentOf
<1>3. /\ lock'[e0] = m /\ \A e \in Engines \ {e0} : lock'[e] = lock[e]
      /\ transcript'[e0] = Append(transcript[e0], <<"user", m>>)
      /\ \A e \in Engines \ {e0} : transcript'[e] = transcript[e]
      /\ stage'[m] = "running" /\ \A n \in Msgs \ {m} : stage'[n] = stage[n]
      /\ agents' = agents /\ lock[e0] = NoMsg /\ stage[m] = "spawned"
  BY <1>1 DEF TurnStart, TypeInv, TypeOK, TurnType
<1>4. \A e \in Engines : transcript[e] \in Seq({"user", "assistant"} \X Msgs)
  BY DEF TypeInv, TypeOK, TurnType
<1> HIDE DEF e0
<1>5. ASSUME NEW n \in Msgs, stage'[n] = "running" PROVE Held(n)'
  <2>1. CASE n = m
    BY <2>1, <1>1, <1>2, <1>3, <1>4 DEF Held, e0
  <2>2. CASE n # m
    <3>1. Held(n) /\ stage[n] = "running"
      BY <2>2, <1>3, <1>5 DEF TurnInv, MutexInv
    <3>2. EngineOf(n) # e0 /\ EngineOf(n) \in Engines
      BY <3>1, <1>3, EngineType, DispatchAssumption DEF Held, TurnInv, MutexInv, TypeInv, HasEnvelope
    <3> QED BY <3>1, <3>2, <1>2, <1>3 DEF Held
  <2> QED BY <2>1, <2>2
<1>6. ASSUME NEW e \in Engines, lock'[e] # NoMsg
      PROVE  stage'[lock'[e]] = "running" /\ EngineOf(lock'[e]) = e
  <2>1. CASE e = e0
    BY <2>1, <1>3 DEF e0
  <2>2. CASE e # e0
    BY <2>2, <1>3, <1>6 DEF TurnInv, MutexInv, TypeInv, TypeOK, TurnType
  <2> QED BY <2>1, <2>2
<1>7. \A n \in Msgs : stage'[n] \in {"spawned", "running"} => agents' # {}
  BY <1>3 DEF TurnInv, MutexInv
<1>8. TurnsDoNotInterleave'
  <2> SUFFICES ASSUME NEW e \in Engines, NEW k \in DOMAIN transcript'[e],
                      transcript'[e][k][1] = "assistant"
               PROVE  k > 1 /\ transcript'[e][k-1] = <<"user", transcript'[e][k][2]>>
    BY DEF TurnsDoNotInterleave
  <2>1. CASE e # e0
    BY <2>1, <1>3 DEF TurnInv, TurnsDoNotInterleave
  <2>2. CASE e = e0
    <3>1. k \in 1..Len(transcript[e]) /\ transcript'[e][k] = transcript[e][k]
      BY <2>2, <1>1, <1>3, <1>4
    <3>2. k > 1 /\ transcript[e][k-1] = <<"user", transcript[e][k][2]>>
      BY <3>1 DEF TurnInv, TurnsDoNotInterleave
    <3> QED BY <3>1, <3>2, <2>2, <1>3, <1>4
  <2> QED BY <2>1, <2>2
<1>9. MutexInv'
  <2>1. \A e \in Engines : (lock[e] # NoMsg)' => EngineOf(lock[e])' = EngineOf(lock'[e])
    BY DEF TurnStart, EngineOf, AgentOf
  <2> QED BY <1>5, <1>6, <1>7, <2>1 DEF MutexInv
<1> QED BY <1>8, <1>9 DEF TurnInv

LEMMA TurnEndStep ==
  ASSUME TypeInv, TurnInv, NEW m \in Msgs, NEW ok \in BOOLEAN, TurnEnd(m, ok) PROVE TurnInv'
<1> DEFINE e0 == EngineOf(m)
<1>1. e0 \in Engines /\ Held(m)
  BY EngineType DEF TurnEnd, TurnInv, MutexInv, TypeInv, HasEnvelope
<1>2. \A n \in Msgs : EngineOf(n)' = EngineOf(n)
  BY DEF TurnEnd, EngineOf, AgentOf
<1>3. /\ lock'[e0] = NoMsg /\ \A e \in Engines \ {e0} : lock'[e] = lock[e]
      /\ transcript'[e0] = transcript[e0] \/ transcript'[e0] = Append(transcript[e0], <<"assistant", m>>)
      /\ \A e \in Engines \ {e0} : transcript'[e] = transcript[e]
      /\ stage'[m] \in {"succeeded", "failed"} /\ \A n \in Msgs \ {m} : stage'[n] = stage[n]
      /\ agents' = agents /\ lock[e0] = m
  BY <1>1 DEF TurnEnd, TypeInv, TypeOK, TurnType, Held
<1>4. \A e \in Engines : transcript[e] \in Seq({"user", "assistant"} \X Msgs)
  BY DEF TypeInv, TypeOK, TurnType
<1> HIDE DEF e0
<1>5. ASSUME NEW n \in Msgs, stage'[n] = "running" PROVE Held(n)'
  <2>1. n # m /\ Held(n) /\ stage[n] = "running"
    BY <1>3, <1>5 DEF TurnInv, MutexInv
  <2>2. EngineOf(n) # e0 /\ EngineOf(n) \in Engines
    BY <2>1, <1>3, EngineType DEF Held, TurnInv, MutexInv, TypeInv, HasEnvelope
  <2> QED BY <2>1, <2>2, <1>2, <1>3 DEF Held
<1>6. ASSUME NEW e \in Engines, NEW n \in Msgs, lock'[e] = n
      PROVE  stage'[n] = "running" /\ EngineOf(n)' = e
  <2>1. e # e0 /\ lock[e] = n /\ n # NoMsg
    BY <1>3, <1>6, DispatchAssumption
  <2>2. stage[n] = "running" /\ EngineOf(n) = e
    BY <2>1 DEF TurnInv, MutexInv
  <2> QED BY <2>1, <2>2, <1>2, <1>3 DEF e0
<1>7. \A n \in Msgs : stage'[n] \in {"spawned", "running"} => agents' # {}
  BY <1>3 DEF TurnInv, MutexInv
<1>8. TurnsDoNotInterleave'
  <2> SUFFICES ASSUME NEW e \in Engines, NEW k \in DOMAIN transcript'[e],
                      transcript'[e][k][1] = "assistant"
               PROVE  k > 1 /\ transcript'[e][k-1] = <<"user", transcript'[e][k][2]>>
    BY DEF TurnsDoNotInterleave
  <2>1. CASE transcript'[e] = transcript[e]
    BY <2>1 DEF TurnInv, TurnsDoNotInterleave
  <2>2. CASE e = e0 /\ transcript'[e] = Append(transcript[e], <<"assistant", m>>)
    <3>1. CASE k = Len(transcript[e]) + 1
      <4>1. Len(transcript[e]) > 0 /\ transcript[e][Len(transcript[e])] = <<"user", m>>
        BY <2>2, <1>1, <1>4 DEF Held, e0
      <4> QED BY <4>1, <3>1, <2>2, <1>4
    <3>2. CASE k \in 1..Len(transcript[e])
      <4>1. k > 1 /\ transcript[e][k-1] = <<"user", transcript[e][k][2]>>
        BY <3>2, <2>2, <1>4 DEF TurnInv, TurnsDoNotInterleave
      <4> QED BY <4>1, <3>2, <2>2, <1>4
    <3> QED BY <3>1, <3>2, <2>2, <1>4
  <2> QED BY <2>1, <2>2, <1>3
<1>9. ASSUME NEW e \in Engines, (lock[e] # NoMsg)'
      PROVE  (stage[lock[e]] = "running" /\ EngineOf(lock[e]) = e)'
  <2>1. PICK n \in Msgs : lock'[e] = n
    BY <1>9, <1>3 DEF TypeInv, TypeOK, TurnType
  <2>2. stage'[n] = "running" /\ EngineOf(n)' = e
    BY <2>1, <1>6
  <2>3. EngineOf(lock[e])' = EngineOf(n)'
    BY <2>1 DEF EngineOf, AgentOf
  <2> QED BY <2>1, <2>2, <2>3
<1>10. MutexInv'
  BY <1>5, <1>7, <1>9 DEF MutexInv
<1> QED BY <1>8, <1>10 DEF TurnInv

LEMMA TurnNext == TypeInv /\ QueueInv /\ TurnInv /\ [Next]_vars => TurnInv'
<1> SUFFICES ASSUME TypeInv, QueueInv, TurnInv, [Next]_vars PROVE TurnInv'
  OBVIOUS
<1> USE DEF turnVars
<1>0. stage \in [Msgs -> Stages]
  BY DEF TypeInv, TypeOK, TurnType
<1>1. ASSUME NEW m \in Msgs, MessageStep(m) PROVE TurnInv'
  <2>1. CASE ChannelSend(m)
    BY <1>0, <2>1, QuietStep DEF ChannelSend, Submit, Quiet, TypeInv, TypeOK, TurnType
  <2>2. CASE ChannelDenied(m)
    BY <1>0, <2>2, QuietStep DEF Quiet, ChannelDenied
  <2>3. CASE ChatRequest(m)
    BY <1>0, <2>3, QuietStep DEF ChatRequest, Submit, Quiet, TypeInv, TypeOK, TurnType
  <2>4. CASE StreamRequest(m)
    BY <1>0, <2>4, QuietStep DEF StreamRequest, Submit, Quiet, TypeInv, TypeOK, TurnType
  <2>5. CASE DropMessage(m)
    <3>1. stage[m] = "sent"
      BY <2>5 DEF DropMessage, bus!GiveUp, QueueInv
    <3> QED BY <1>0, <3>1, <2>5, QuietStep DEF Quiet, DropMessage
  <2>6. CASE DropResult(m)
    BY <1>0, <2>6, QuietStep DEF Quiet, DropResult
  <2>7. CASE DispatchResult(m)
    BY <1>0, <2>7, QuietStep DEF Quiet, DispatchResult
  <2>8. CASE DispatchMessage(m)
    <3>1. stage[m] = "sent"
      BY <2>8 DEF DispatchMessage, bus!Receive, QueueInv, OnBus, TypeInv, TypeOK, BusType
    <3> QED BY <1>0, <3>1, <2>8, QuietStep DEF Quiet, DispatchMessage, Refuse, NoAgent
  <2>9. CASE TurnFrozen(m)
    BY <1>0, <2>9, QuietStep DEF Quiet, TurnFrozen, Refuse
  <2>10. CASE TurnStart(m)
    BY <2>10, TurnStartStep
  <2>11. CASE EmitDelta(m)
    BY <1>0, <2>11, QuietStep DEF Quiet, EmitDelta
  <2>12. CASE Delegate(m)
    BY <1>0, <2>12, QuietStep DEF Quiet, Delegate
  <2>13. CASE (\E ok \in BOOLEAN : TurnEnd(m, ok))
    BY <2>13, TurnEndStep
  <2>14. CASE TurnReply(m)
    BY <1>0, <2>14, QuietStep DEF Quiet, TurnReply, Refuse
  <2>15. CASE ForwardDelta(m)
    BY <1>0, <2>15, QuietStep DEF Quiet, ForwardDelta
  <2>16. CASE StreamClose(m)
    BY <1>0, <2>16, QuietStep DEF Quiet, StreamClose
  <2>17. CASE SubAgentEnd(m)
    BY <1>0, <2>17, QuietStep DEF Quiet, SubAgentEnd
  <2>18. CASE ChatRecv(m)
    BY <1>0, <2>18, QuietStep DEF Quiet, ChatRecv, TakeReply
  <2>19. CASE ClientLeaves(m)
    <3>1. User(m) \in parked => stage[m] = "sent"
      BY DEF QueueInv
    <3> QED BY <1>0, <3>1, <2>19, QuietStep DEF Quiet, ClientLeaves
  <2> QED BY <1>1, <2>1, <2>2, <2>3, <2>4, <2>5, <2>6, <2>7, <2>8, <2>9, <2>10, <2>11, <2>12, <2>13, <2>14, <2>15, <2>16, <2>17, <2>18, <2>19 DEF MessageStep
<1>2. ASSUME NEW i \in Items, AdmitItem(i) PROVE TurnInv'
  BY <1>2, QuietStep DEF Quiet, AdmitItem
<1>3. ASSUME NEW r \in Receivers, RecvLagged(r) PROVE TurnInv'
  BY <1>3, QuietStep DEF Quiet, RecvLagged
<1>4. CASE ManagerRecv
  BY <1>4, QuietStep DEF Quiet, ManagerRecv
<1>5. CASE Shutdown
  BY <1>0, <1>5, QuietStep DEF Quiet, Shutdown
<1>6. CASE UNCHANGED vars
  BY <1>6, QuietStep DEF Quiet, vars
<1> QED BY <1>1, <1>2, <1>3, <1>4, <1>5, <1>6 DEF Next

LEMMA TurnInit == Init => QueueInv /\ TurnInv
  BY DEF Init, bus!BusInit, QueueInv, OnBus, TurnInv, MutexInv, TurnsDoNotInterleave, Engines

(* The engine mutex keeps a turn's two messages together in the session's   *)
(* history, for any number of messages, sessions and agents and whatever    *)
(* the order in which the tasks of the messages run (TurnsDoNotInterleave). *)
THEOREM TurnsAreWhole == Spec => []TurnsDoNotInterleave
<1>1. TurnInv => TurnsDoNotInterleave
  BY DEF TurnInv
<1> QED BY <1>1, TypeInit, TypeNext, TurnInit, QueueNext, TurnNext, PTL DEF Spec

-----------------------------------------------------------------------------
(* Replies.  Until a message is done with, nothing has been sent for it,    *)
(* and what ends it is either one reply or the end of its stream.           *)
StreamDone(m) == \E k \in DOMAIN sse[m] : sse[m][k] = "done"

ReplyInv ==
  \A m \in Msgs :
    /\ stage[m] # "replied" => RepliesTo(m) = {} /\ ~StreamDone(m)
    /\ StreamDone(m) => RepliesTo(m) = {}
    /\ \A i, j \in RepliesTo(m) : i = j

(* A step that broadcasts no reply and ends no stream. *)
ReplyQuiet ==
  /\ out' = out
  /\ \A m \in Msgs :
       /\ stage[m] = "replied" => stage'[m] = "replied"
       /\ StreamDone(m)' <=> StreamDone(m)

LEMMA ReplyQuietStep ==
  ASSUME ReplyInv, ReplyQuiet PROVE ReplyInv'
  BY DEF ReplyInv, ReplyQuiet, RepliesTo

LEMMA RefuseStep ==
  ASSUME TypeInv, ReplyInv, NEW m \in Msgs, NEW what, Refuse(m, what), Reply(m, what) \in Replies,
         stage[m] # "replied", sse' = sse
  PROVE  ReplyInv'
<1>1. out' = Append(out, Reply(m, what)) /\ out \in Seq(Replies)
  BY DEF Refuse, bus!Broadcast, TypeInv, TypeOK, BusType
<1>2. /\ DOMAIN out' = DOMAIN out \cup {Len(out)+1}
      /\ out'[Len(out)+1] = Reply(m, what)
      /\ \A k \in DOMAIN out : out'[k] = out[k]
      /\ Len(out)+1 \notin DOMAIN out
  BY <1>1
<1>3. Reply(m, what).reply_to = m
  BY DEF Reply
<1>4. /\ RepliesTo(m)' = RepliesTo(m) \cup {Len(out)+1}
      /\ \A n \in Msgs \ {m} : RepliesTo(n)' = RepliesTo(n)
  BY <1>2, <1>3 DEF RepliesTo
<1>5. stage'[m] = "replied" /\ \A n \in Msgs \ {m} : stage'[n] = stage[n]
  BY DEF Refuse, TypeInv, TypeOK, TurnType
<1>6. \A n \in Msgs : StreamDone(n)' <=> StreamDone(n)
  BY DEF StreamDone
<1> QED BY <1>4, <1>5, <1>6 DEF ReplyInv

(* The text of a sub-agent is nobody's reply. *)
LEMMA ResultStep ==
  ASSUME TypeInv, ReplyInv, NEW m \in Msgs, bus!Broadcast(ResultReply(m)), stage' = stage, sse' = sse
  PROVE  ReplyInv'
<1>1. out' = Append(out, ResultReply(m)) /\ out \in Seq(Replies)
  BY DEF bus!Broadcast, TypeInv, TypeOK, BusType
<1>2. /\ DOMAIN out' = DOMAIN out \cup {Len(out)+1}
      /\ out'[Len(out)+1] = ResultReply(m)
      /\ \A k \in DOMAIN out : out'[k] = out[k]
  BY <1>1, ResultType
<1>3. ResultReply(m).reply_to = NoMsg
  BY DEF ResultReply
<1>4. \A n \in Msgs : RepliesTo(n)' = RepliesTo(n)
  BY <1>2, <1>3, DispatchAssumption DEF RepliesTo
<1>5. \A n \in Msgs : StreamDone(n)' <=> StreamDone(n)
  BY DEF StreamDone
<1> QED BY <1>4, <1>5 DEF ReplyInv

LEMMA ReplyNext == TypeInv /\ QueueInv /\ ReplyInv /\ [Next]_vars => ReplyInv'
<1> SUFFICES ASSUME TypeInv, QueueInv, ReplyInv, [Next]_vars PROVE ReplyInv'
  OBVIOUS
<1> USE DEF turnVars, httpVars
<1>0. stage \in [Msgs -> Stages]
  BY DEF TypeInv, TypeOK, TurnType
<1>1. ASSUME NEW m \in Msgs, MessageStep(m) PROVE ReplyInv'
  <2>1. CASE ChannelSend(m)
    BY <1>0, <2>1, ReplyQuietStep DEF ReplyQuiet, StreamDone, ChannelSend, Submit
  <2>2. CASE ChannelDenied(m)
    BY <1>0, <2>2, ReplyQuietStep DEF ReplyQuiet, StreamDone, ChannelDenied
  <2>3. CASE ChatRequest(m)
    BY <1>0, <2>3, ReplyQuietStep DEF ReplyQuiet, StreamDone, ChatRequest, Submit
  <2>4. CASE StreamRequest(m)
    BY <1>0, <2>4, ReplyQuietStep DEF ReplyQuiet, StreamDone, StreamRequest, Submit
  <2>5. CASE DropMessage(m)
    <3>1. User(m) \in parked => stage[m] = "sent"
      BY DEF QueueInv
    <3> QED BY <1>0, <3>1, <2>5, ReplyQuietStep DEF ReplyQuiet, StreamDone, DropMessage, bus!GiveUp
  <2>6. CASE DropResult(m)
    BY <1>0, <2>6, ReplyQuietStep DEF ReplyQuiet, StreamDone, DropResult, bus!GiveUp
  <2>7. CASE DispatchResult(m)
    BY <2>7, ResultStep DEF DispatchResult
  <2>8. CASE DispatchMessage(m)
    <3>1. stage[m] = "sent" /\ msg[m] # NoMsg
      BY <2>8 DEF DispatchMessage, bus!Receive, QueueInv, OnBus, TypeInv, TypeOK, BusType, HasEnvelope
    <3>2. \A what \in {"killed", "limited"} : Reply(m, what) \in Replies
      BY <3>1, ReplyType
    <3>3. CASE Refuse(m, "killed") \/ Refuse(m, "limited")
      BY <3>1, <3>2, <3>3, <2>8, RefuseStep DEF DispatchMessage
    <3>4. CASE UNCHANGED out
      BY <1>0, <3>1, <3>4, <2>8, ReplyQuietStep DEF DispatchMessage, ReplyQuiet, StreamDone, Refuse
    <3> QED BY <3>3, <3>4, <2>8 DEF DispatchMessage
  <2>9. CASE TurnFrozen(m)
    <3>1. stage[m] # "replied" /\ msg[m] # NoMsg
      BY <2>9 DEF TurnFrozen, TypeInv, HasEnvelope
    <3>2. \A what \in {"killed", "limited", "frozen", "answer", "error"} : Reply(m, what) \in Replies
      BY <3>1, ReplyType
    <3> QED BY <3>1, <3>2, <2>9, RefuseStep DEF TurnFrozen
  <2>10. CASE TurnStart(m)
    BY <1>0, <2>10, ReplyQuietStep DEF ReplyQuiet, StreamDone, TurnStart
  <2>11. CASE EmitDelta(m)
    BY <1>0, <2>11, ReplyQuietStep DEF ReplyQuiet, StreamDone, EmitDelta
  <2>12. CASE Delegate(m)
    BY <1>0, <2>12, ReplyQuietStep DEF ReplyQuiet, StreamDone, Delegate
  <2>13. CASE (\E ok \in BOOLEAN : TurnEnd(m, ok))
    BY <1>0, <2>13, ReplyQuietStep DEF ReplyQuiet, StreamDone, TurnEnd
  <2>14. CASE TurnReply(m)
    <3>1. stage[m] # "replied" /\ msg[m] # NoMsg
      BY <2>14 DEF TurnReply, TypeInv, HasEnvelope
    <3>2. \A what \in {"killed", "limited", "frozen", "answer", "error"} : Reply(m, what) \in Replies
      BY <3>1, ReplyType
    <3> QED BY <3>1, <3>2, <2>14, RefuseStep DEF TurnReply
  <2>15. CASE ForwardDelta(m)
    <3>1. \A n \in Msgs : StreamDone(n)' <=> StreamDone(n)
      <4> SUFFICES ASSUME NEW n \in Msgs PROVE StreamDone(n)' <=> StreamDone(n)
        OBVIOUS
      <4>1. sse[n] \in Seq({"delta", "done", "error"})
        BY DEF TypeInv, TypeOK, HttpType
      <4>2. sse'[n] = sse[n] \/ sse'[n] = Append(sse[n], "delta")
        BY <2>15 DEF ForwardDelta, PushStream, TypeInv, TypeOK, HttpType
      <4> QED BY <4>1, <4>2 DEF StreamDone
    <3> QED BY <3>1, <2>15, ReplyQuietStep DEF ReplyQuiet, ForwardDelta
  <2>16. CASE StreamClose(m)
    <3>1. stage[m] # "replied" /\ stage'[m] = "replied" /\ out' = out
      BY <1>0, <2>16 DEF StreamClose
    <3>2. \A n \in Msgs \ {m} : stage'[n] = stage[n] /\ sse'[n] = sse[n]
      BY <1>0, <2>16 DEF StreamClose, EndStream, PushStream, TypeInv, TypeOK, HttpType
    <3> QED BY <3>1, <3>2 DEF ReplyInv, StreamDone, RepliesTo
  <2>17. CASE SubAgentEnd(m)
    BY <1>0, <2>17, ReplyQuietStep DEF ReplyQuiet, StreamDone, SubAgentEnd
  <2>18. CASE ChatRecv(m)
    BY <1>0, <2>18, ReplyQuietStep DEF ReplyQuiet, StreamDone, ChatRecv, TakeReply
  <2>19. CASE ClientLeaves(m)
    <3>1. User(m) \in parked => stage[m] = "sent"
      BY DEF QueueInv
    <3> QED BY <1>0, <3>1, <2>19, ReplyQuietStep DEF ReplyQuiet, StreamDone, ClientLeaves
  <2> QED BY <1>1, <2>1, <2>2, <2>3, <2>4, <2>5, <2>6, <2>7, <2>8, <2>9, <2>10, <2>11, <2>12, <2>13, <2>14, <2>15, <2>16, <2>17, <2>18, <2>19 DEF MessageStep
<1>2. ASSUME NEW i \in Items, AdmitItem(i) PROVE ReplyInv'
  BY <1>2, ReplyQuietStep DEF ReplyQuiet, StreamDone, AdmitItem, bus!Admit
<1>3. ASSUME NEW r \in Receivers, RecvLagged(r) PROVE ReplyInv'
  BY <1>3, ReplyQuietStep DEF ReplyQuiet, StreamDone, RecvLagged, bus!SkipLagged
<1>4. CASE ManagerRecv
  BY <1>4, ReplyQuietStep DEF ReplyQuiet, StreamDone, ManagerRecv
<1>5. CASE Shutdown
  BY <1>0, <1>5, ReplyQuietStep DEF ReplyQuiet, StreamDone, Shutdown
<1>6. CASE UNCHANGED vars
  BY <1>6, ReplyQuietStep DEF ReplyQuiet, StreamDone, vars
<1> QED BY <1>1, <1>2, <1>3, <1>4, <1>5, <1>6 DEF Next

LEMMA ReplyInit == Init => ReplyInv
  BY DEF Init, bus!BusInit, ReplyInv, RepliesTo, StreamDone

(* However a message ends - refused by the estop or the rate limit, frozen, *)
(* answered, failed, or as a stream - it is answered once (OneReplyEach).   *)
THEOREM RepliesAreUnique == Spec => []OneReplyEach
<1>1. ReplyInv => OneReplyEach
  BY DEF ReplyInv, OneReplyEach, StreamDone
<1> QED BY <1>1, TypeInit, TypeNext, TurnInit, QueueNext, ReplyInit, ReplyNext, PTL DEF Spec

-----------------------------------------------------------------------------
(* A message that has not got past the bus has left no trace behind it.     *)
Queued == {"new", "denied", "sent", "dropped"}

NoTrace(m) ==
  /\ sub[m] = "none"
  /\ \A e \in Engines : \A k \in DOMAIN transcript[e] : transcript[e][k][2] # m

ResultPending(m) == Result(m) \in parked \/ \E k \in DOMAIN inbound : inbound[k] = Result(m)

FreshInv ==
  \A m \in Msgs :
    /\ stage[m] \in Queued => NoTrace(m)
    /\ ResultPending(m) => sub[m] # "none"

(* A step that starts no turn, ends none and has no part in a delegation.  *)
FreshQuiet ==
  /\ UNCHANGED <<sub, transcript>>
  /\ \A m \in Msgs :
       /\ stage'[m] \in Queued => stage[m] \in Queued
       /\ ResultPending(m)' => ResultPending(m)

LEMMA FreshQuietStep ==
  ASSUME FreshInv, FreshQuiet PROVE FreshInv'
  BY DEF FreshInv, FreshQuiet, NoTrace

LEMMA TailPending ==
  ASSUME TypeInv, NEW i \in Items, bus!Receive(i), parked' = parked
  PROVE  \A m \in Msgs : ResultPending(m)' => ResultPending(m)
<1>1. \A k \in DOMAIN inbound' : k+1 \in DOMAIN inbound /\ inbound'[k] = inbound[k+1]
  BY DEF bus!Receive, TypeInv, TypeOK, BusType
<1> QED BY <1>1 DEF ResultPending

LEMMA AppendTrace ==
  ASSUME TypeInv, NEW m \in Msgs, NEW x, NEW who,
         transcript' = [transcript EXCEPT ![x] = Append(@, <<who, m>>)],
         NEW n \in Msgs, n # m,
         \A e \in Engines : \A k \in DOMAIN transcript[e] : transcript[e][k][2] # n
  PROVE  \A e \in Engines : \A k \in DOMAIN transcript'[e] : transcript'[e][k][2] # n
<1> SUFFICES ASSUME NEW e \in Engines, NEW k \in DOMAIN transcript'[e] PROVE transcript'[e][k][2] # n
  OBVIOUS
<1>1. transcript[e] \in Seq({"user", "assistant"} \X Msgs)
  BY DEF TypeInv, TypeOK, TurnType
<1>2. transcript'[e] = transcript[e] \/ transcript'[e] = Append(transcript[e], <<who, m>>)
  BY DEF TypeInv, TypeOK, TurnType
<1> QED BY <1>1, <1>2

LEMMA FreshNext == TypeInv /\ QueueInv /\ FreshInv /\ [Next]_vars => FreshInv'
<1> SUFFICES ASSUME TypeInv, QueueInv, FreshInv, [Next]_vars PROVE FreshInv'
  OBVIOUS
<1> USE DEF turnVars, subVars
<1>0. stage \in [Msgs -> Stages] /\ sub \in [Msgs -> {"none", "running", "sent", "dropped", "returned"}]
  BY DEF TypeInv, TypeOK, TurnType, SubType
<1>1. ASSUME NEW m \in Msgs, MessageStep(m) PROVE FreshInv'
  <2>1. CASE ChannelSend(m)
    <3>1. \A n \in Msgs : ResultPending(n)' => ResultPending(n)
      BY <2>1 DEF ChannelSend, Submit, bus!StartSend, ResultPending, User, Result
    <3> QED BY <1>0, <3>1, <2>1, FreshQuietStep DEF FreshQuiet, ChannelSend, Submit, Queued
  <2>2. CASE ChannelDenied(m)
    BY <1>0, <2>2, FreshQuietStep DEF FreshQuiet, ResultPending, Queued, ChannelDenied
  <2>3. CASE ChatRequest(m)
    <3>1. \A n \in Msgs : ResultPending(n)' => ResultPending(n)
      BY <2>3 DEF ChatRequest, Submit, bus!StartSend, ResultPending, User, Result
    <3> QED BY <1>0, <3>1, <2>3, FreshQuietStep DEF FreshQuiet, ChatRequest, Submit, Queued
  <2>4. CASE StreamRequest(m)
    <3>1. \A n \in Msgs : ResultPending(n)' => ResultPending(n)
      BY <2>4 DEF StreamRequest, Submit, bus!StartSend, ResultPending, User, Result
    <3> QED BY <1>0, <3>1, <2>4, FreshQuietStep DEF FreshQuiet, StreamRequest, Submit, Queued
  <2>5. CASE DropMessage(m)
    <3>1. User(m) \in parked /\ parked' \subseteq parked /\ inbound' = inbound
      BY <2>5 DEF DropMessage, bus!GiveUp
    <3>2. stage[m] = "sent"
      BY <3>1 DEF QueueInv
    <3> QED BY <1>0, <3>1, <3>2, <2>5, FreshQuietStep DEF FreshQuiet, DropMessage, Queued, ResultPending
  <2>6. CASE DropResult(m)
    <3>1. ResultPending(m)
      BY <2>6 DEF DropResult, bus!GiveUp, ResultPending
    <3>2. \A n \in Msgs : ResultPending(n)' => ResultPending(n)
      BY <2>6 DEF DropResult, bus!GiveUp, ResultPending
    <3>3. sub'[m] # "none" /\ \A n \in Msgs \ {m} : sub'[n] = sub[n]
      BY <1>0, <2>6 DEF DropResult
    <3>4. stage[m] \notin Queued /\ stage' = stage /\ transcript' = transcript
      BY <3>1, <2>6 DEF DropResult, FreshInv, NoTrace
    <3> QED BY <3>2, <3>3, <3>4 DEF FreshInv, NoTrace
  <2>7. CASE DispatchResult(m)
    <3>1. ResultPending(m)
      BY <2>7 DEF DispatchResult, bus!Receive, ResultPending, TypeInv, TypeOK, BusType
    <3>2. \A n \in Msgs : ResultPending(n)' => ResultPending(n)
      BY <2>7, TailPending DEF DispatchResult, Result, Items
    <3>3. sub'[m] # "none" /\ \A n \in Msgs \ {m} : sub'[n] = sub[n]
      BY <1>0, <2>7 DEF DispatchResult
    <3>4. stage[m] \notin Queued /\ stage' = stage /\ transcript' = transcript
      BY <3>1, <2>7 DEF DispatchResult, FreshInv, NoTrace
    <3> QED BY <3>2, <3>3, <3>4 DEF FreshInv, NoTrace
  <2>8. CASE DispatchMessage(m)
    <3>1. stage'[m] \notin Queued /\ \A n \in Msgs \ {m} : stage'[n] = stage[n]
      BY <1>0, <2>8 DEF DispatchMessage, Refuse, Queued
    <3>2. \A n \in Msgs : ResultPending(n)' => ResultPending(n)
      BY <2>8, TailPending DEF DispatchMessage, User, Items
    <3> QED BY <3>1, <3>2, <2>8, FreshQuietStep DEF FreshQuiet, DispatchMessage
  <2>9. CASE TurnFrozen(m)
    BY <1>0, <2>9, FreshQuietStep DEF FreshQuiet, ResultPending, Queued, TurnFrozen, Refuse
  <2>10. CASE TurnStart(m)
    <3>1. stage'[m] \notin Queued /\ \A n \in Msgs \ {m} : stage'[n] = stage[n]
      BY <1>0, <2>10 DEF TurnStart, Queued
    <3>2. \A n \in Msgs \ {m} : NoTrace(n) => NoTrace(n)'
      BY <2>10, AppendTrace DEF TurnStart, NoTrace
    <3>3. UNCHANGED <<inbound, parked, sub>>
      BY <2>10 DEF TurnStart
    <3> QED BY <3>1, <3>2, <3>3 DEF FreshInv, ResultPending
  <2>11. CASE EmitDelta(m)
    BY <1>0, <2>11, FreshQuietStep DEF FreshQuiet, ResultPending, Queued, EmitDelta
  <2>12. CASE Delegate(m)
    <3>1. stage[m] = "running" /\ \A n \in Msgs \ {m} : sub'[n] = sub[n]
      BY <1>0, <2>12 DEF Delegate
    <3>2. sub'[m] # "none" /\ UNCHANGED <<stage, transcript, inbound, parked>>
      BY <1>0, <2>12 DEF Delegate
    <3> QED BY <3>1, <3>2 DEF FreshInv, NoTrace, Queued, ResultPending
  <2>13. CASE (\E ok \in BOOLEAN : TurnEnd(m, ok))
    <3>0. PICK ok \in BOOLEAN : TurnEnd(m, ok)
      BY <2>13
    <3>1. stage'[m] \notin Queued /\ \A n \in Msgs \ {m} : stage'[n] = stage[n]
      BY <1>0, <3>0 DEF TurnEnd, Queued
    <3>2. \A n \in Msgs \ {m} : NoTrace(n) => NoTrace(n)'
      <4>1. CASE ok
        BY <3>0, <4>1, AppendTrace DEF TurnEnd, NoTrace
      <4>2. CASE ~ok
        <5>1. transcript' = transcript
          BY <3>0, <4>2 DEF TurnEnd, TypeInv, TypeOK, TurnType
        <5> QED BY <5>1, <3>0 DEF TurnEnd, NoTrace
      <4> QED BY <4>1, <4>2
    <3>3. UNCHANGED <<inbound, parked, sub>>
      BY <3>0 DEF TurnEnd
    <3> QED BY <3>1, <3>2, <3>3 DEF FreshInv, ResultPending
  <2>14. CASE TurnReply(m)
    BY <1>0, <2>14, FreshQuietStep DEF FreshQuiet, ResultPending, Queued, TurnReply, Refuse
  <2>15. CASE ForwardDelta(m)
    BY <1>0, <2>15, FreshQuietStep DEF FreshQuiet, ResultPending, Queued, ForwardDelta
  <2>16. CASE StreamClose(m)
    BY <1>0, <2>16, FreshQuietStep DEF FreshQuiet, ResultPending, Queued, StreamClose
  <2>17. CASE SubAgentEnd(m)
    <3>1. sub[m] # "none" /\ sub'[m] # "none" /\ \A n \in Msgs \ {m} : sub'[n] = sub[n]
      BY <1>0, <2>17 DEF SubAgentEnd
    <3>2. UNCHANGED <<stage, transcript, inbound>>
      BY <2>17 DEF SubAgentEnd
    <3>3. \A n \in Msgs \ {m} : ResultPending(n)' => ResultPending(n)
      BY <2>17 DEF SubAgentEnd, bus!StartSend, ResultPending, Result
    <3> QED BY <3>1, <3>2, <3>3 DEF FreshInv, NoTrace
  <2>18. CASE ChatRecv(m)
    BY <1>0, <2>18, FreshQuietStep DEF FreshQuiet, ResultPending, Queued, ChatRecv, TakeReply
  <2>19. CASE ClientLeaves(m)
    <3>1. parked' \subseteq parked /\ inbound' = inbound
      BY <2>19 DEF ClientLeaves, bus!Abandon
    <3>2. User(m) \in parked => stage[m] = "sent"
      BY DEF QueueInv
    <3> QED BY <1>0, <3>1, <3>2, <2>19, FreshQuietStep DEF FreshQuiet, ClientLeaves, Queued, ResultPending
  <2> QED BY <1>1, <2>1, <2>2, <2>3, <2>4, <2>5, <2>6, <2>7, <2>8, <2>9, <2>10, <2>11, <2>12, <2>13, <2>14, <2>15, <2>16, <2>17, <2>18, <2>19 DEF MessageStep
<1>2. ASSUME NEW i \in Items, AdmitItem(i) PROVE FreshInv'
  <2>1. i \in parked /\ inbound' = Append(inbound, i) /\ parked' = parked \ {i}
    BY <1>2 DEF AdmitItem, bus!Admit
  <2>2. \A k \in DOMAIN inbound' : inbound'[k] = i \/ (k \in DOMAIN inbound /\ inbound'[k] = inbound[k])
    <3>1. inbound \in Seq(Items)
      BY DEF TypeInv, TypeOK, BusType
    <3>2. /\ DOMAIN inbound' = DOMAIN inbound \cup {Len(inbound)+1}
          /\ inbound'[Len(inbound)+1] = i
          /\ \A k \in DOMAIN inbound : inbound'[k] = inbound[k]
      BY <2>1, <3>1
    <3> QED BY <3>2
  <2>3. \A m \in Msgs : ResultPending(m)' => ResultPending(m)
    BY <2>1, <2>2 DEF ResultPending
  <2> QED BY <1>2, <2>3, FreshQuietStep DEF FreshQuiet, AdmitItem
<1>3. ASSUME NEW r \in Receivers, RecvLagged(r) PROVE FreshInv'
  BY <1>3, FreshQuietStep DEF FreshQuiet, ResultPending, RecvLagged, bus!SkipLagged
<1>4. CASE ManagerRecv
  BY <1>4, FreshQuietStep DEF FreshQuiet, ResultPending, ManagerRecv
<1>5. CASE Shutdown
  <2>1. \A m \in Msgs : ~ResultPending(m)'
    BY <1>5 DEF Shutdown, bus!CloseInbound, ResultPending
  <2>2. \A m \in Msgs : (sub'[m] = "none" <=> sub[m] = "none") /\ (stage'[m] \in Queued <=> stage[m] \in Queued)
    BY <1>0, <1>5 DEF Shutdown, Queued
  <2>3. transcript' = transcript
    BY <1>5 DEF Shutdown
  <2> QED BY <2>1, <2>2, <2>3 DEF FreshInv, NoTrace
<1>6. CASE UNCHANGED vars
  BY <1>6, FreshQuietStep DEF FreshQuiet, ResultPending, vars
<1> QED BY <1>1, <1>2, <1>3, <1>4, <1>5, <1>6 DEF Next

LEMMA FreshInit == Init => FreshInv
  BY DEF Init, bus!BusInit, FreshInv, NoTrace, ResultPending, Engines

(* What send_inbound turned away, or a shutdown caught on the bus, stays    *)
(* without effect: no turn runs for it, nothing is delegated, nothing is    *)
(* answered (TurnedAwayForGood).                                            *)
THEOREM TurnedAwayStaysAway == Spec => []TurnedAwayForGood
<1>1. TypeInv /\ QueueInv /\ TurnInv /\ ReplyInv /\ FreshInv => TurnedAwayForGood
  <2> SUFFICES ASSUME QueueInv, TurnInv, ReplyInv, FreshInv, TypeInv,
                      NEW m \in Msgs, stage[m] \in {"denied", "dropped"}
               PROVE  /\ User(m) \notin parked
                      /\ \A k \in DOMAIN inbound : inbound[k] # User(m)
                      /\ RepliesTo(m) = {}
                      /\ NoTrace(m)
                      /\ \A e \in Engines : lock[e] # m
    BY DEF TurnedAwayForGood, NoTrace
  <2>1. User(m) \notin parked /\ ~OnBus(m)
    BY DEF QueueInv
  <2>2. RepliesTo(m) = {} /\ NoTrace(m)
    BY DEF ReplyInv, FreshInv, Queued
  <2>3. \A e \in Engines : lock[e] # m
    BY DispatchAssumption DEF TurnInv, MutexInv
  <2> QED BY <2>1, <2>2, <2>3 DEF OnBus
<1> QED BY <1>1, TypeInit, TypeNext, TurnInit, QueueNext, TurnNext, ReplyInit, ReplyNext,
           FreshInit, FreshNext, PTL DEF Spec

-----------------------------------------------------------------------------
(* A stream.  What its client has been sent is what the forwarder took out  *)
(* of the pipe, until the task that awaited the forwarder ends it.          *)
StreamOf(m) ==
  /\ forwarded[m] <= emitted[m]
  /\ stage[m] \in Queued => emitted[m] = 0 /\ sse[m] = <<>>
  /\ stage[m] = "new" => client[m] = "none"
  /\ client[m] = "waiting" => \A k \in DOMAIN sse[m] : sse[m][k] = "delta"
  /\ client[m] = "waiting" /\ msg[m].kind = "stream" =>
       m \in registry /\ Len(sse[m]) = forwarded[m]
  /\ client[m] = "closed" /\ sse[m] # <<>> =>
       /\ stage[m] = "replied"
       /\ Len(sse[m]) = emitted[m] + 1
       /\ sse[m][Len(sse[m])] # "delta"
  /\ \A k \in DOMAIN sse[m] : sse[m][k] # "delta" => k = Len(sse[m])

StreamInv == \A m \in Msgs : StreamOf(m)

(* A step that has no part in the stream of n. *)
StreamQuiet(n) ==
  /\ client'[n] = client[n] /\ sse'[n] = sse[n] /\ msg'[n] = msg[n]
  /\ emitted'[n] = emitted[n] /\ forwarded'[n] = forwarded[n]
  /\ n \in registry' <=> n \in registry
  /\ stage'[n] \in Queued => stage[n] \in Queued
  /\ stage'[n] = "new" => stage[n] = "new"
  /\ stage[n] = "replied" => stage'[n] = "replied"

LEMMA StreamQuietStep ==
  ASSUME NEW n \in Msgs, StreamOf(n), StreamQuiet(n) PROVE StreamOf(n)'
  BY DEF StreamOf, StreamQuiet

LEMMA PushedType ==
  ASSUME TypeInv, NEW m \in Msgs, NEW item \in {"delta", "done", "error"}, PushStream(m, item)
  PROVE  /\ \A n \in Msgs \ {m} : sse'[n] = sse[n]
         /\ m \in registry /\ client[m] = "waiting" =>
              /\ Len(sse'[m]) = Len(sse[m]) + 1
              /\ DOMAIN sse'[m] = DOMAIN sse[m] \cup {Len(sse'[m])}
              /\ sse'[m][Len(sse'[m])] = item
              /\ \A k \in DOMAIN sse[m] : sse'[m][k] = sse[m][k]
         /\ ~(m \in registry /\ client[m] = "waiting") => sse'[m] = sse[m]
<1>1. sse \in [Msgs -> Seq({"delta", "done", "error"})]
  BY DEF TypeInv, TypeOK, HttpType
<1>2. \A n \in Msgs \ {m} : sse'[n] = sse[n]
  BY <1>1 DEF PushStream
<1>3. CASE m \in registry /\ client[m] = "waiting"
  <2>1. sse'[m] = Append(sse[m], item) /\ sse[m] \in Seq({"delta", "done", "error"})
    BY <1>1, <1>3 DEF PushStream
  <2> QED BY <2>1, <1>2, <1>3
<1>4. CASE ~(m \in registry /\ client[m] = "waiting")
  <2>1. sse'[m] = sse[m]
    BY <1>1, <1>4 DEF PushStream
  <2> QED BY <2>1, <1>2, <1>4
<1> QED BY <1>3, <1>4

LEMMA ForwardStep ==
  ASSUME TypeInv, NEW m \in Msgs, StreamOf(m), ForwardDelta(m) PROVE StreamOf(m)'
<1> USE DEF turnVars, subVars
<1>1. /\ forwarded[m] < emitted[m] /\ forwarded'[m] = forwarded[m] + 1
      /\ forwarded[m] \in Nat /\ emitted[m] \in Nat
      /\ UNCHANGED <<client, registry, emitted, msg, stage>>
  BY DispatchAssumption DEF ForwardDelta, TypeInv, TypeOK, HttpType
<1>2. PushStream(m, "delta")
  BY DEF ForwardDelta
<1>3. Len(sse[m]) \in Nat /\ DOMAIN sse[m] = 1..Len(sse[m])
  BY DEF TypeInv, TypeOK, HttpType
<1>4. stage[m] \notin Queued /\ stage[m] # "new"
  BY <1>1 DEF StreamOf, Queued
<1>5. CASE m \in registry /\ client[m] = "waiting"
  <2>1. /\ Len(sse'[m]) = Len(sse[m]) + 1
        /\ DOMAIN sse'[m] = DOMAIN sse[m] \cup {Len(sse'[m])}
        /\ sse'[m][Len(sse'[m])] = "delta"
        /\ \A k \in DOMAIN sse[m] : sse'[m][k] = sse[m][k]
    BY <1>2, <1>5, PushedType
  <2>2. \A k \in DOMAIN sse'[m] : sse'[m][k] = "delta"
    BY <2>1, <1>5 DEF StreamOf
  <2> QED BY <1>1, <1>4, <1>5, <2>1, <2>2 DEF StreamOf
<1>6. CASE ~(m \in registry /\ client[m] = "waiting")
  <2>1. sse'[m] = sse[m]
    BY <1>2, <1>6, PushedType
  <2> QED BY <1>1, <1>4, <1>6, <2>1 DEF StreamOf
<1> QED BY <1>5, <1>6

LEMMA CloseStep ==
  ASSUME TypeInv, NEW m \in Msgs, StreamOf(m), StreamClose(m) PROVE StreamOf(m)'
<1> DEFINE item == IF stage[m] = "succeeded" THEN "done" ELSE "error"
<1>1. /\ forwarded[m] = emitted[m] /\ msg[m].kind = "stream"
      /\ emitted[m] \in Nat
      /\ UNCHANGED <<forwarded, emitted, msg>>
      /\ stage'[m] = "replied" /\ stage[m] \in {"succeeded", "failed"}
  BY DispatchAssumption DEF StreamClose, TypeInv, TypeOK, HttpType, TurnType
<1>2. /\ PushStream(m, item) /\ item \in {"done", "error"}
      /\ client'[m] = IF client[m] = "waiting" THEN "closed" ELSE client[m]
  BY DEF StreamClose, EndStream, TypeInv, TypeOK, HttpType
<1> HIDE DEF item
<1>3. Len(sse[m]) \in Nat /\ DOMAIN sse[m] = 1..Len(sse[m])
  BY DEF TypeInv, TypeOK, HttpType
<1>4. CASE client[m] = "waiting"
  <2>1. m \in registry /\ Len(sse[m]) = emitted[m]
    BY <1>1, <1>4 DEF StreamOf
  <2>2. /\ Len(sse'[m]) = Len(sse[m]) + 1
        /\ DOMAIN sse'[m] = DOMAIN sse[m] \cup {Len(sse'[m])}
        /\ sse'[m][Len(sse'[m])] = item
        /\ \A k \in DOMAIN sse[m] : sse'[m][k] = sse[m][k]
    BY <1>2, <1>4, <2>1, PushedType
  <2>3. \A k \in DOMAIN sse'[m] : sse'[m][k] # "delta" => k = Len(sse'[m])
    BY <2>2, <1>4 DEF StreamOf
  <2>4. client'[m] = "closed" /\ sse'[m][Len(sse'[m])] # "delta"
    BY <1>2, <1>4, <2>2
  <2> QED BY <1>1, <1>3, <2>1, <2>2, <2>3, <2>4 DEF StreamOf, Queued
<1>5. CASE client[m] # "waiting"
  <2>1. sse'[m] = sse[m] /\ client'[m] = client[m]
    BY <1>2, <1>5, PushedType
  <2> QED BY <1>1, <1>5, <2>1 DEF StreamOf, Queued
<1> QED BY <1>4, <1>5

LEMMA StreamNext == TypeInv /\ QueueInv /\ StreamInv /\ [Next]_vars => StreamInv'
<1> SUFFICES ASSUME TypeInv, QueueInv, StreamInv, [Next]_vars, NEW n \in Msgs PROVE StreamOf(n)'
  BY DEF StreamInv
<1> USE DEF turnVars, httpVars, subVars
<1>a. StreamOf(n)
  BY DEF StreamInv
<1>0. /\ stage \in [Msgs -> Stages]
      /\ msg \in [Msgs -> Envelope \cup {NoMsg}]
      /\ client \in [Msgs -> {"none", "waiting", "answered", "closed", "gone"}]
      /\ emitted \in [Msgs -> 0..MaxDeltas] /\ forwarded \in [Msgs -> 0..MaxDeltas]
      /\ sse \in [Msgs -> Seq({"delta", "done", "error"})]
  BY DEF TypeInv, TypeOK, TurnType, HttpType
<1>1. ASSUME NEW m \in Msgs, MessageStep(m) PROVE StreamOf(n)'
  <2>1. CASE ChannelSend(m)
    <3>1. n = m => msg'[n].kind = "channel" /\ sse[n] = <<>> /\ client[n] = "none"
      BY <1>0, <1>a, <2>1 DEF ChannelSend, Submit, StreamOf, Queued
    <3>2. CASE n = m
      BY <1>0, <1>a, <2>1, <3>1, <3>2 DEF StreamOf, Queued, ChannelSend, Submit
    <3>3. CASE n # m
      BY <1>0, <1>a, <2>1, <3>3, StreamQuietStep DEF StreamQuiet, Queued, ChannelSend, Submit
    <3> QED BY <3>2, <3>3
  <2>2. CASE ChannelDenied(m)
    BY <1>0, <1>a, <2>2, StreamQuietStep DEF StreamQuiet, Queued, ChannelDenied
  <2>3. CASE ChatRequest(m)
    <3>1. CASE n = m
      <4>1. stage[n] = "new" /\ sse[n] = <<>> /\ emitted[n] = 0 /\ forwarded[n] = 0
        BY <1>0, <1>a, <2>3, <3>1, DispatchAssumption DEF ChatRequest, Submit, StreamOf, Queued
      <4>2. /\ UNCHANGED <<sse, emitted, forwarded>>
            /\ client'[n] = "waiting" /\ stage'[n] = "sent"
            /\ msg'[n].kind = "chat"
        BY <1>0, <2>3, <3>1 DEF ChatRequest, Submit
      <4> QED BY <4>1, <4>2 DEF StreamOf, Queued
    <3>2. CASE n # m
      BY <1>0, <1>a, <2>3, <3>2, StreamQuietStep DEF StreamQuiet, Queued, ChatRequest, Submit
    <3> QED BY <3>1, <3>2
  <2>4. CASE StreamRequest(m)
    <3>1. CASE n = m
      <4>1. stage[n] = "new" /\ sse[n] = <<>> /\ emitted[n] = 0 /\ forwarded[n] = 0
        BY <1>0, <1>a, <2>4, <3>1, DispatchAssumption DEF StreamRequest, Submit, StreamOf, Queued
      <4>2. /\ UNCHANGED <<sse, emitted, forwarded>>
            /\ client'[n] = "waiting" /\ stage'[n] = "sent"
            /\ n \in registry'
        BY <1>0, <2>4, <3>1 DEF StreamRequest, Submit
      <4> QED BY <4>1, <4>2 DEF StreamOf, Queued
    <3>2. CASE n # m
      BY <1>0, <1>a, <2>4, <3>2, StreamQuietStep DEF StreamQuiet, Queued, StreamRequest, Submit
    <3> QED BY <3>1, <3>2
  <2>5. CASE DropMessage(m)
    <3>1. stage[m] = "sent"
      BY <2>5 DEF DropMessage, bus!GiveUp, QueueInv
    <3> QED BY <1>0, <1>a, <2>5, <3>1, StreamQuietStep DEF StreamQuiet, Queued, DropMessage
  <2>6. CASE DropResult(m)
    BY <1>0, <1>a, <2>6, StreamQuietStep DEF StreamQuiet, Queued, DropResult
  <2>7. CASE DispatchResult(m)
    BY <1>0, <1>a, <2>7, StreamQuietStep DEF StreamQuiet, Queued, DispatchResult
  <2>8. CASE DispatchMessage(m)
    <3>1. stage[m] = "sent"
      BY <2>8 DEF DispatchMessage, bus!Receive, QueueInv, OnBus, TypeInv, TypeOK, BusType
    <3> QED BY <1>0, <1>a, <2>8, <3>1, StreamQuietStep DEF StreamQuiet, Queued, DispatchMessage, Refuse
  <2>9. CASE TurnFrozen(m)
    BY <1>0, <1>a, <2>9, StreamQuietStep DEF StreamQuiet, Queued, TurnFrozen, Refuse
  <2>10. CASE TurnStart(m)
    BY <1>0, <1>a, <2>10, StreamQuietStep DEF StreamQuiet, Queued, TurnStart
  <2>11. CASE EmitDelta(m)
    <3>1. CASE n = m
      <4>1. /\ emitted'[n] = emitted[n] + 1 /\ emitted[n] \in Nat /\ forwarded[n] \in Nat
            /\ stage[n] = "running"
            /\ UNCHANGED <<stage, client, sse, forwarded, registry, msg>>
        BY <1>0, <2>11, <3>1, DispatchAssumption DEF EmitDelta
      <4> QED BY <1>a, <4>1 DEF StreamOf, Queued
    <3>2. CASE n # m
      BY <1>0, <1>a, <2>11, <3>2, StreamQuietStep DEF StreamQuiet, Queued, EmitDelta
    <3> QED BY <3>1, <3>2
  <2>12. CASE Delegate(m)
    BY <1>0, <1>a, <2>12, StreamQuietStep DEF StreamQuiet, Queued, Delegate
  <2>13. CASE (\E ok \in BOOLEAN : TurnEnd(m, ok))
    BY <1>0, <1>a, <2>13, StreamQuietStep DEF StreamQuiet, Queued, TurnEnd
  <2>14. CASE TurnReply(m)
    BY <1>0, <1>a, <2>14, StreamQuietStep DEF StreamQuiet, Queued, TurnReply, Refuse
  <2>15. CASE ForwardDelta(m)
    <3>1. CASE n = m
      BY <1>a, <2>15, <3>1, ForwardStep
    <3>2. CASE n # m
      <4>1. sse'[n] = sse[n]
        BY <1>0, <2>15, <3>2 DEF ForwardDelta, PushStream
      <4> QED BY <1>0, <1>a, <2>15, <3>2, <4>1, StreamQuietStep DEF StreamQuiet, Queued, ForwardDelta
    <3> QED BY <3>1, <3>2
  <2>16. CASE StreamClose(m)
    <3>1. CASE n = m
      BY <1>a, <2>16, <3>1, CloseStep
    <3>2. CASE n # m
      <4>1. sse'[n] = sse[n]
        BY <1>0, <2>16, <3>2 DEF StreamClose, PushStream, EndStream
      <4> QED BY <1>0, <1>a, <2>16, <3>2, <4>1, StreamQuietStep DEF StreamQuiet, Queued, StreamClose, EndStream
    <3> QED BY <3>1, <3>2
  <2>17. CASE SubAgentEnd(m)
    BY <1>0, <1>a, <2>17, StreamQuietStep DEF StreamQuiet, Queued, SubAgentEnd
  <2>18. CASE ChatRecv(m)
    <3>1. CASE n = m /\ client'[n] = "answered"
      <4>1. UNCHANGED <<stage, sse, emitted, forwarded>> /\ client[n] = "waiting"
        BY <2>18, <3>1 DEF ChatRecv, TakeReply, Awaits
      <4> QED BY <1>a, <3>1, <4>1 DEF StreamOf, Queued
    <3>2. CASE n # m \/ client'[n] # "answered"
      BY <1>0, <1>a, <2>18, <3>2, StreamQuietStep DEF StreamQuiet, Queued, ChatRecv, TakeReply
    <3> QED BY <3>1, <3>2
  <2>19. CASE ClientLeaves(m)
    <3>1. User(m) \in parked => stage[m] = "sent"
      BY DEF QueueInv
    <3>2. CASE n = m
      <4>1. /\ UNCHANGED <<sse, emitted, forwarded>> /\ client'[n] = "gone" /\ client[n] = "waiting"
            /\ stage'[n] \in Queued => stage[n] \in Queued
            /\ stage'[n] # "new"
        BY <1>0, <1>a, <2>19, <3>1, <3>2 DEF ClientLeaves, Queued, StreamOf
      <4> QED BY <1>a, <4>1 DEF StreamOf
    <3>3. CASE n # m
      BY <1>0, <1>a, <2>19, <3>3, StreamQuietStep DEF StreamQuiet, Queued, ClientLeaves
    <3> QED BY <3>2, <3>3
  <2> QED BY <1>1, <2>1, <2>2, <2>3, <2>4, <2>5, <2>6, <2>7, <2>8, <2>9, <2>10, <2>11, <2>12, <2>13, <2>14, <2>15, <2>16, <2>17, <2>18, <2>19 DEF MessageStep
<1>2. ASSUME NEW i \in Items, AdmitItem(i) PROVE StreamOf(n)'
  BY <1>2, <1>a, StreamQuietStep DEF StreamQuiet, AdmitItem
<1>3. ASSUME NEW r \in Receivers, RecvLagged(r) PROVE StreamOf(n)'
  BY <1>3, <1>a, StreamQuietStep DEF StreamQuiet, RecvLagged
<1>4. CASE ManagerRecv
  BY <1>4, <1>a, StreamQuietStep DEF StreamQuiet, ManagerRecv
<1>5. CASE Shutdown
  <2>1. User(n) \in parked => sse[n] = <<>>
    BY <1>a DEF QueueInv, StreamOf, Queued
  <2>2. /\ UNCHANGED <<sse, emitted, forwarded, msg>>
        /\ stage'[n] = IF stage[n] = "sent" THEN "dropped" ELSE stage[n]
        /\ client'[n] = IF User(n) \in parked /\ client[n] = "waiting" THEN "closed" ELSE client[n]
        /\ n \in registry' <=> n \in registry /\ User(n) \notin parked
    BY <1>5 DEF Shutdown
  <2>3. User(n) \in parked => client'[n] # "waiting"
    BY <2>2
  <2> QED BY <1>a, <2>1, <2>2, <2>3 DEF StreamOf, Queued
<1>6. CASE UNCHANGED vars
  BY <1>6, <1>a, StreamQuietStep DEF StreamQuiet, vars
<1> QED BY <1>1, <1>2, <1>3, <1>4, <1>5, <1>6 DEF Next

LEMMA StreamInit == Init => StreamInv
  BY DEF Init, StreamInv, StreamOf

-----------------------------------------------------------------------------
(* A chat request.  Nothing it has read past was its reply, for a reply to  *)
(* it carries its session and the first item with its session ends it.      *)
ChatOf(m) ==
  /\ \A i \in RepliesTo(m) : out[i].session = msg[m].session
  /\ client[m] = "waiting" /\ msg[m].kind = "chat" =>
       /\ m \in DOMAIN cursor
       /\ \A i \in RepliesTo(m) : cursor[m] < i \/ i <= bus!Overwritten

ChatInv == \A m \in Msgs : ChatOf(m)

(* A step that broadcasts nothing and leaves the request of n alone, or     *)
(* ends it.                                                                 *)
ChatQuiet(n) ==
  /\ out' = out /\ msg'[n] = msg[n]
  /\ client'[n] = "waiting" =>
       /\ client[n] = "waiting"
       /\ n \in DOMAIN cursor => n \in DOMAIN cursor' /\ cursor'[n] = cursor[n]

LEMMA ChatQuietStep ==
  ASSUME NEW n \in Msgs, ChatOf(n), ChatQuiet(n) PROVE ChatOf(n)'
  BY DEF ChatOf, ChatQuiet, RepliesTo, bus!Overwritten

(* The log grows by one item. *)
LEMMA BroadcastStep ==
  ASSUME TypeInv, NEW n \in Msgs, ChatOf(n), NEW r \in Replies, bus!Broadcast(r),
         r.reply_to = n => r.session = msg[n].session,
         UNCHANGED <<msg, client, cursor>>
  PROVE  ChatOf(n)'
<1>1. out' = Append(out, r) /\ out \in Seq(Replies)
  BY DEF bus!Broadcast, TypeInv, TypeOK, BusType
<1>2. /\ DOMAIN out' = DOMAIN out \cup {Len(out)+1}
      /\ out'[Len(out)+1] = r
      /\ \A k \in DOMAIN out : out'[k] = out[k]
      /\ Len(out') = Len(out) + 1 /\ Len(out) \in Nat /\ DOMAIN out = 1..Len(out)
  BY <1>1
<1>3. bus!Overwritten <= bus!Overwritten'
  BY <1>2, DispatchAssumption DEF bus!Overwritten
<1>4. bus!Overwritten \in Nat /\ bus!Overwritten' \in Nat
  BY <1>2, DispatchAssumption DEF bus!Overwritten
<1>5. \A i \in RepliesTo(n)' : i \in RepliesTo(n) \/ (i = Len(out) + 1 /\ r.reply_to = n)
  BY <1>2 DEF RepliesTo
<1>6. \A i \in RepliesTo(n) : i \in 1..Len(out)
  BY <1>2 DEF RepliesTo
<1>7. n \in DOMAIN cursor => cursor[n] \in 0..Len(out)
  BY DEF TypeInv, TypeOK, BusType
<1>8. \A i \in RepliesTo(n)' : out'[i].session = msg'[n].session
  BY <1>2, <1>5, <1>6 DEF ChatOf
<1>9. ASSUME client'[n] = "waiting", msg'[n].kind = "chat", NEW i \in RepliesTo(n)'
      PROVE  cursor'[n] < i \/ i <= bus!Overwritten'
  <2>1. n \in DOMAIN cursor /\ cursor[n] \in 0..Len(out) /\ cursor' = cursor
    BY <1>7, <1>9 DEF ChatOf
  <2>2. CASE i = Len(out) + 1
    BY <1>2, <2>1, <2>2
  <2>3. CASE i \in RepliesTo(n)
    <3>1. cursor[n] < i \/ i <= bus!Overwritten
      BY <1>9, <2>3 DEF ChatOf
    <3> QED BY <1>3, <1>4, <1>6, <2>1, <2>3, <3>1
  <2> QED BY <1>5, <2>2, <2>3
<1> QED BY <1>8, <1>9 DEF ChatOf

LEMMA ChatRefuseStep ==
  ASSUME TypeInv, ChatInv, NEW m \in Msgs, NEW n \in Msgs, msg[m] # NoMsg,
         NEW what \in {"killed", "limited", "frozen", "answer", "error"}, Refuse(m, what),
         UNCHANGED <<msg, client, cursor>>
  PROVE  ChatOf(n)'
<1>1. Reply(m, what) \in Replies /\ bus!Broadcast(Reply(m, what))
  BY ReplyType DEF Refuse
<1>2. Reply(m, what).reply_to = m /\ Reply(m, what).session = msg[m].session
  BY DEF Reply
<1> QED BY <1>1, <1>2, BroadcastStep DEF ChatInv

(* Opening a request: nothing has been sent for it yet. *)
LEMMA ChatSubmitStep ==
  ASSUME TypeInv, ReplyInv, ChatInv, NEW m \in Msgs, NEW n \in Msgs,
         NEW kind, NEW ch, NEW s, Submit(m, kind, ch, s), out' = out,
         n # m => client'[n] = client[n] /\ (n \in DOMAIN cursor => n \in DOMAIN cursor' /\ cursor'[n] = cursor[n]),
         client'[m] = "waiting" /\ kind = "chat" => m \in DOMAIN cursor'
  PROVE  ChatOf(n)'
<1>1. CASE n = m
  <2>1. RepliesTo(n) = {} /\ msg'[n].kind = kind
    BY <1>1 DEF Submit, ReplyInv, TypeInv, TypeOK, TurnType
  <2>2. RepliesTo(n)' = {}
    BY <2>1 DEF RepliesTo
  <2> QED BY <1>1, <2>1, <2>2 DEF ChatOf
<1>2. CASE n # m
  <2>1. msg'[n] = msg[n]
    BY <1>2 DEF Submit, TypeInv, TypeOK, TurnType
  <2> QED BY <1>2, <2>1, ChatQuietStep DEF ChatQuiet, ChatInv
<1> QED BY <1>1, <1>2

LEMMA ChatTakeStep ==
  ASSUME TypeInv, NEW m \in Msgs, ChatOf(m), ChatRecv(m) PROVE ChatOf(m)'
<1> DEFINE mine == bus!NextItem(m).session = msg[m].session
<1>1. /\ client[m] = "waiting" /\ msg[m].kind = "chat" /\ m \in DOMAIN cursor
      /\ cursor[m] < Len(out)
      /\ UNCHANGED <<out, msg>>
  BY DEF ChatRecv, TakeReply, Awaits, bus!CanRead, bus!Subscribed, turnVars
<1>2. \A i \in RepliesTo(m)' : out'[i].session = msg'[m].session
  BY <1>1 DEF ChatOf, RepliesTo
<1>3. CASE mine
  <2>1. client'[m] # "waiting"
    BY <1>3 DEF ChatRecv, TakeReply, TypeInv, TypeOK, HttpType
  <2> QED BY <1>2, <2>1 DEF ChatOf
<1>4. CASE ~mine
  <2>1. cursor' = [cursor EXCEPT ![m] = @ + 1]
    BY <1>4 DEF ChatRecv, TakeReply, bus!Advance
  <2>2. m \in DOMAIN cursor' /\ cursor'[m] = cursor[m] + 1 /\ cursor[m] \in Nat
    BY <1>1, <2>1 DEF TypeInv, TypeOK, BusType
  <2>3. ASSUME NEW i \in RepliesTo(m) PROVE cursor'[m] < i \/ i <= bus!Overwritten
    <3>1. i # cursor[m] + 1
      BY <1>4, <2>3 DEF bus!NextItem, ChatOf
    <3>2. cursor[m] < i \/ i <= bus!Overwritten
      BY <1>1, <2>3 DEF ChatOf
    <3>3. i \in Nat
      BY <2>3 DEF RepliesTo, TypeInv, TypeOK, BusType
    <3> QED BY <2>2, <3>1, <3>2, <3>3
  <2>4. RepliesTo(m)' = RepliesTo(m) /\ bus!Overwritten' = bus!Overwritten
    BY <1>1 DEF RepliesTo, bus!Overwritten
  <2> QED BY <1>2, <2>2, <2>3, <2>4 DEF ChatOf
<1> QED BY <1>3, <1>4

LEMMA ChatLaggedStep ==
  ASSUME TypeInv, NEW n \in Msgs, ChatOf(n), NEW r \in Receivers, RecvLagged(r) PROVE ChatOf(n)'
<1>1. /\ cursor' = [cursor EXCEPT ![r] = bus!Overwritten] /\ r \in DOMAIN cursor
      /\ UNCHANGED <<out, msg, client>>
  BY DEF RecvLagged, bus!SkipLagged, bus!Subscribed, httpVars
<1>2. RepliesTo(n)' = RepliesTo(n) /\ bus!Overwritten' = bus!Overwritten
  BY <1>1 DEF RepliesTo, bus!Overwritten
<1>3. bus!Overwritten \in Nat /\ \A i \in RepliesTo(n) : i \in Nat
  BY OverwrittenType DEF RepliesTo, TypeInv, TypeOK, BusType
<1>4. \A i \in RepliesTo(n) : out'[i].session = msg'[n].session
  BY <1>1 DEF ChatOf
<1>5. CASE n = r
  <2>1. cursor'[n] = bus!Overwritten /\ n \in DOMAIN cursor'
    BY <1>1, <1>5
  <2>2. \A i \in RepliesTo(n) : cursor'[n] < i \/ i <= bus!Overwritten
    BY <1>3, <2>1
  <2> QED BY <1>2, <1>4, <2>1, <2>2 DEF ChatOf
<1>6. CASE n # r
  <2>1. DOMAIN cursor' = DOMAIN cursor /\ (n \in DOMAIN cursor => cursor'[n] = cursor[n])
    BY <1>1, <1>6
  <2> QED BY <1>1, <2>1, ChatQuietStep DEF ChatQuiet
<1> QED BY <1>5, <1>6

LEMMA ChatNext ==
  TypeInv /\ QueueInv /\ ReplyInv /\ StreamInv /\ ChatInv /\ [Next]_vars => ChatInv'
<1> SUFFICES ASSUME TypeInv, QueueInv, ReplyInv, StreamInv, ChatInv, [Next]_vars,
                    NEW n \in Msgs
             PROVE  ChatOf(n)'
  BY DEF ChatInv
<1> USE DEF turnVars, httpVars, subVars
<1>a. ChatOf(n)
  BY DEF ChatInv
<1>0. client \in [Msgs -> {"none", "waiting", "answered", "closed", "gone"}]
  BY DEF TypeInv, TypeOK, HttpType
<1>1. ASSUME NEW m \in Msgs, MessageStep(m) PROVE ChatOf(n)'
  <2>1. CASE ChannelSend(m)
    <3>1. PICK ch \in Channels, s \in Sessions : Submit(m, "channel", ch, s)
      BY <2>1 DEF ChannelSend
    <3>2. UNCHANGED <<out, client, cursor>>
      BY <2>1 DEF ChannelSend
    <3> QED BY <3>1, <3>2, ChatSubmitStep
  <2>2. CASE ChannelDenied(m)
    BY <1>a, <2>2, ChatQuietStep DEF ChatQuiet, ChannelDenied
  <2>3. CASE ChatRequest(m)
    <3>1. PICK s \in Sessions : Submit(m, "chat", Gateway, s)
      BY <2>3 DEF ChatRequest
    <3>2. out' = out /\ (n # m => client'[n] = client[n])
      BY <1>0, <2>3 DEF ChatRequest
    <3>3. /\ m \in DOMAIN cursor'
          /\ n # m /\ n \in DOMAIN cursor => n \in DOMAIN cursor' /\ cursor'[n] = cursor[n]
      BY <2>3 DEF ChatRequest, bus!Subscribe
    <3> QED BY <3>1, <3>2, <3>3, ChatSubmitStep
  <2>4. CASE StreamRequest(m)
    <3>1. PICK s \in Sessions : Submit(m, "stream", Gateway, s)
      BY <2>4 DEF StreamRequest
    <3>2. UNCHANGED <<out, cursor>> /\ (n # m => client'[n] = client[n])
      BY <1>0, <2>4 DEF StreamRequest
    <3> QED BY <3>1, <3>2, ChatSubmitStep
  <2>5. CASE DropMessage(m)
    BY <1>a, <2>5, ChatQuietStep DEF ChatQuiet, DropMessage, bus!GiveUp
  <2>6. CASE DropResult(m)
    BY <1>a, <2>6, ChatQuietStep DEF ChatQuiet, DropResult, bus!GiveUp
  <2>7. CASE DispatchResult(m)
    <3>1. /\ bus!Broadcast(ResultReply(m)) /\ UNCHANGED <<msg, client, cursor>>
          /\ ResultReply(m) \in Replies /\ ResultReply(m).reply_to # n
      BY <2>7, ResultType, DispatchAssumption DEF DispatchResult, ResultReply
    <3> QED BY <1>a, <3>1, BroadcastStep
  <2>8. CASE DispatchMessage(m)
    <3>1. msg[m] # NoMsg /\ UNCHANGED <<msg, client, cursor>>
      BY <2>8 DEF DispatchMessage, bus!Receive, TypeInv, HasEnvelope, TypeOK, BusType
    <3>2. CASE \E what \in {"killed", "limited"} : Refuse(m, what)
      BY <3>1, <3>2, ChatRefuseStep
    <3>3. CASE UNCHANGED out
      BY <1>a, <3>1, <3>3, ChatQuietStep DEF ChatQuiet
    <3> QED BY <2>8, <3>2, <3>3 DEF DispatchMessage
  <2>9. CASE TurnFrozen(m)
    <3>1. msg[m] # NoMsg /\ UNCHANGED <<msg, client, cursor>>
      BY <2>9 DEF TurnFrozen, TypeInv, HasEnvelope
    <3>2. \E what \in {"killed", "limited", "frozen", "answer", "error"} : Refuse(m, what)
      BY <2>9 DEF TurnFrozen
    <3> QED BY <3>1, <3>2, ChatRefuseStep
  <2>10. CASE TurnStart(m)
    BY <1>a, <2>10, ChatQuietStep DEF ChatQuiet, TurnStart
  <2>11. CASE EmitDelta(m)
    BY <1>a, <2>11, ChatQuietStep DEF ChatQuiet, EmitDelta
  <2>12. CASE Delegate(m)
    BY <1>a, <2>12, ChatQuietStep DEF ChatQuiet, Delegate
  <2>13. CASE (\E ok \in BOOLEAN : TurnEnd(m, ok))
    BY <1>a, <2>13, ChatQuietStep DEF ChatQuiet, TurnEnd
  <2>14. CASE TurnReply(m)
    <3>1. msg[m] # NoMsg /\ UNCHANGED <<msg, client, cursor>>
      BY <2>14 DEF TurnReply, TypeInv, HasEnvelope
    <3>2. \E what \in {"killed", "limited", "frozen", "answer", "error"} : Refuse(m, what)
      BY <2>14 DEF TurnReply
    <3> QED BY <3>1, <3>2, ChatRefuseStep
  <2>15. CASE ForwardDelta(m)
    BY <1>a, <2>15, ChatQuietStep DEF ChatQuiet, ForwardDelta
  <2>16. CASE StreamClose(m)
    <3>1. client'[n] = "waiting" => client[n] = "waiting"
      BY <1>0, <2>16 DEF StreamClose, EndStream
    <3> QED BY <1>a, <2>16, <3>1, ChatQuietStep DEF ChatQuiet, StreamClose
  <2>17. CASE SubAgentEnd(m)
    BY <1>a, <2>17, ChatQuietStep DEF ChatQuiet, SubAgentEnd
  <2>18. CASE ChatRecv(m)
    <3>1. CASE n = m
      BY <1>a, <2>18, <3>1, ChatTakeStep
    <3>2. CASE n # m
      <4>1. UNCHANGED <<out, msg>> /\ client'[n] = client[n]
        BY <1>0, <2>18, <3>2 DEF ChatRecv, TakeReply
      <4>2. n \in DOMAIN cursor => n \in DOMAIN cursor' /\ cursor'[n] = cursor[n]
        BY <2>18, <3>2 DEF ChatRecv, TakeReply, bus!Advance, bus!Unsubscribe
      <4> QED BY <1>a, <4>1, <4>2, ChatQuietStep DEF ChatQuiet
    <3> QED BY <3>1, <3>2
  <2>19. CASE ClientLeaves(m)
    <3>1. CASE n = m
      <4>1. UNCHANGED <<out, msg>> /\ client'[n] = "gone"
        BY <1>0, <2>19, <3>1 DEF ClientLeaves
      <4> QED BY <1>a, <4>1, ChatQuietStep DEF ChatQuiet
    <3>2. CASE n # m
      BY <1>0, <1>a, <2>19, <3>2, ChatQuietStep DEF ChatQuiet, ClientLeaves, bus!Unsubscribe
    <3> QED BY <3>1, <3>2
  <2> QED BY <1>1, <2>1, <2>2, <2>3, <2>4, <2>5, <2>6, <2>7, <2>8, <2>9, <2>10, <2>11, <2>12, <2>13, <2>14, <2>15, <2>16, <2>17, <2>18, <2>19 DEF MessageStep
<1>2. ASSUME NEW i \in Items, AdmitItem(i) PROVE ChatOf(n)'
  BY <1>2, <1>a, ChatQuietStep DEF ChatQuiet, AdmitItem, bus!Admit
<1>3. ASSUME NEW r \in Receivers, RecvLagged(r) PROVE ChatOf(n)'
  BY <1>3, <1>a, ChatLaggedStep
<1>4. CASE ManagerRecv
  <2>1. n # Manager
    BY DispatchAssumption
  <2> QED BY <1>4, <1>a, <2>1, ChatQuietStep DEF ChatQuiet, ManagerRecv, bus!Advance
<1>5. CASE Shutdown
  <2>1. client'[n] = "waiting" => client[n] = "waiting" /\ User(n) \notin parked
    BY <1>0, <1>5 DEF Shutdown
  <2>2. n \in DOMAIN cursor /\ User(n) \notin parked => n \in DOMAIN cursor' /\ cursor'[n] = cursor[n]
    BY <1>5 DEF Shutdown
  <2> QED BY <1>5, <1>a, <2>1, <2>2, ChatQuietStep DEF ChatQuiet, Shutdown
<1>6. CASE UNCHANGED vars
  BY <1>6, <1>a, ChatQuietStep DEF ChatQuiet, vars
<1> QED BY <1>1, <1>2, <1>3, <1>4, <1>5, <1>6 DEF Next

LEMMA ChatInit == Init => ChatInv
  BY DEF Init, bus!BusInit, ChatInv, ChatOf, RepliesTo

(* What a client of the gateway sees (routes/chat.rs): a stream is deltas   *)
(* in order and one end, with every delta when it ends well in time, and    *)
(* the reply to a waiting chat request is ahead of where it reads, for any  *)
(* capacity of the broadcast and any number of requests (ClientsSeeTheirs). *)
THEOREM ClientsAreServedInOrder == Spec => []ClientsSeeTheirs
<1>1. TypeInv /\ StreamInv /\ ChatInv => ClientsSeeTheirs
  BY DEF TypeInv, StreamInv, StreamOf, ChatInv, ChatOf, ClientsSeeTheirs, StreamOrder, OwnReplyIsAhead
<1> QED BY <1>1, TypeInit, TypeNext, TurnInit, QueueNext, ReplyInit, ReplyNext,
           StreamInit, StreamNext, ChatInit, ChatNext, PTL DEF Spec

=============================================================================
