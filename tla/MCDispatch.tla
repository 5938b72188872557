----------------------------- MODULE MCDispatch -----------------------------
(* Instances of Dispatch for TLC. *)
EXTENDS Dispatch, TLC

CONSTANTS m1, m2, m3, s1, s2, tg, a1, a2

MCRoute == [c \in Channels \cup {Gateway} |-> IF c = Gateway THEN a2 ELSE a1]
OneRoute == [c \in Channels \cup {Gateway} |-> a1]

Symmetry == Permutations(Msgs)
=============================================================================
