----------------------------- MODULE MessageBus -----------------------------
(***************************************************************************)
(* The bus between the channels, the gateway and the daemon                *)
(* (src/bus/queue.rs, created in src/daemon/run.rs).                       *)
(*                                                                         *)
(*  - inbound: a bounded tokio mpsc channel with one receiver, the         *)
(*    dispatch loop.  A sender that finds it full waits; a sender that     *)
(*    waits under BACKPRESSURE_TIMEOUT_MS gives up and its item is lost.   *)
(*  - outbound: a tokio broadcast channel.  It never makes a sender wait:  *)
(*    it keeps the last OutboundCapacity items, and a receiver that falls  *)
(*    further behind skips to the oldest item kept ("Lagged").             *)
(*                                                                         *)
(* The broadcast is a log and one cursor per receiver: `out` is every item *)
(* ever sent, and an item is still readable while it is among the last     *)
(* OutboundCapacity of them.                                               *)
(***************************************************************************)
EXTENDS Naturals, Sequences, FiniteSets

CONSTANTS
  Items,             \* what can be put on the inbound channel
  Receivers,         \* who can subscribe to the outbound channel
  InboundCapacity,   \* 1024 in the daemon
  OutboundCapacity   \* 1024 in the daemon

VARIABLES
  inbound,   \* items accepted and not yet received by the dispatch loop
  parked,    \* items whose sender waits for a free slot
  out,       \* every item ever sent outbound, in order
  cursor     \* receiver -> number of items of `out` it is done with

busVars == <<inbound, parked, out, cursor>>

BusInit(subscribed) ==
  /\ inbound = <<>>
  /\ parked = {}
  /\ out = <<>>
  /\ cursor = [r \in subscribed |-> 0]

-----------------------------------------------------------------------------
(* The inbound side. *)

(* A sender calls send(): it waits until the channel has room for it. *)
StartSend(i) == parked' = parked \cup {i}

Full == Len(inbound) = InboundCapacity

(* The channel gives a waiting sender a slot. *)
Admit(i) ==
  /\ i \in parked
  /\ ~Full
  /\ inbound' = Append(inbound, i)
  /\ parked' = parked \ {i}
  /\ UNCHANGED <<out, cursor>>

(* tokio::time::timeout polls the send before the clock, so the timeout    *)
(* wins only while there is no room.  The send future is dropped with the  *)
(* item in it, and the caller gets Ok(()).                                 *)
GiveUp(i) ==
  /\ i \in parked
  /\ Full
  /\ parked' = parked \ {i}
  /\ UNCHANGED <<inbound, out, cursor>>

(* A caller that is itself dropped while it waits takes its item along. *)
Abandon(i) == parked' = parked \ {i}

Receive(i) ==
  /\ inbound # <<>>
  /\ i = Head(inbound)
  /\ inbound' = Tail(inbound)

(* The receiver goes away: what it had not received is dropped, and every  *)
(* waiting sender gets an error.                                           *)
CloseInbound ==
  /\ inbound' = <<>>
  /\ parked' = {}

-----------------------------------------------------------------------------
(* The outbound side. *)

Broadcast(o) == out' = Append(out, o)

Subscribed(r) == r \in DOMAIN cursor

Subscribe(r) ==
  cursor' = [s \in DOMAIN cursor \cup {r} |-> IF s = r THEN Len(out) ELSE cursor[s]]

Unsubscribe(r) == cursor' = [s \in DOMAIN cursor \ {r} |-> cursor[s]]

(* The number of items that have been overwritten. *)
Overwritten == IF Len(out) > OutboundCapacity THEN Len(out) - OutboundCapacity ELSE 0

(* recv() returns Ok(out[cursor[r] + 1]). *)
CanRead(r) ==
  /\ Subscribed(r)
  /\ cursor[r] >= Overwritten
  /\ cursor[r] < Len(out)

NextItem(r) == out[cursor[r] + 1]

Advance(r) == cursor' = [cursor EXCEPT ![r] = @ + 1]

(* recv() returns Err(Lagged(n)): every receiver of the program goes on. *)
SkipLagged(r) ==
  /\ Subscribed(r)
  /\ cursor[r] < Overwritten
  /\ cursor' = [cursor EXCEPT ![r] = Overwritten]
  /\ UNCHANGED <<inbound, parked, out>>
=============================================================================
