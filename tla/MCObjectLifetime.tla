-------------------------- MODULE MCObjectLifetime --------------------------
(* Instances of ObjectLifetime for TLC: an authority a and another locality b. *)
EXTENDS ObjectLifetime

CONSTANTS a, b

HomeAsks == [l \in Locality |-> IF l = a THEN 1 ELSE 0]
BothAsk == [l \in Locality |-> 1]
=============================================================================
