------------------------------- MODULE Intake -------------------------------
(***************************************************************************)
(* What the part of a channel that takes messages in promises: a message   *)
(* that a user has sent waits at the platform until the channel hands it   *)
(* to the bus or passes it over for good, each once, and what is handed    *)
(* over is handed over in the order of arrival.  Messages are numbered by  *)
(* the platform in that order.                                             *)
(*                                                                         *)
(* No code has this shape; the channels are shown to implement it.         *)
(***************************************************************************)
EXTENDS Naturals, Sequences

CONSTANT Messages   \* a set of numbers

VARIABLES
  fate,             \* what has become of a message
  handed            \* the messages the bus was given, in order

Init == fate = [m \in Messages |-> "unsent"] /\ handed = <<>>

Waiting == {m \in Messages : fate[m] = "waiting"}

(* A message waits, unless nobody is there to keep it. *)
Arrive(m) ==
  /\ fate[m] = "unsent"
  /\ \A n \in Messages : n < m => fate[n] # "unsent"
  /\ \E f \in {"waiting", "passed over"} : fate' = [fate EXCEPT ![m] = f]
  /\ UNCHANGED handed

HandOver(m) ==
  /\ m \in Waiting
  /\ \A n \in Waiting : m <= n
  /\ fate' = [fate EXCEPT ![m] = "handed over"]
  /\ handed' = Append(handed, m)

(* A message is passed over when it is not for the bot, when its sender is *)
(* not allowed, when the bus is full, and when the process that had it     *)
(* ends; a start passes over what waited while nothing was running.        *)
PassOver(S) ==
  /\ S # {} /\ S \subseteq Waiting
  /\ fate' = [m \in Messages |-> IF m \in S THEN "passed over" ELSE fate[m]]
  /\ UNCHANGED handed

Next ==
  \/ \E m \in Messages : Arrive(m) \/ HandOver(m)
  \/ \E S \in SUBSET Waiting : PassOver(S)

Spec == Init /\ [][Next]_<<fate, handed>>
=============================================================================
