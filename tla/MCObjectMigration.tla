-------------------------- MODULE MCObjectMigration --------------------------
(* Instances of ObjectMigration for TLC: the places and their localities.   *)
EXTENDS ObjectMigration

\* Locality a, which creates the object, has one or two domains, b and c one.
CONSTANTS a, b, c, a1, a2, b1, c1
Homes == [p \in Place |-> CASE p \in {a1, a2} -> a [] p = b1 -> b [] p = c1 -> c]
=============================================================================
