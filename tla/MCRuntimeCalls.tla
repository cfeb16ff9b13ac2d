-------------------------- MODULE MCRuntimeCalls --------------------------
(* Small instances of RuntimeCalls for TLC. *)
EXTENDS RuntimeCalls, TLC

CONSTANTS a, b, r1, r2

\* One call from a to b.
OneOrigin == [r \in {r1} |-> a]
OneDest == [r \in {r1} |-> b]

\* One call from a to b and one local call of a.
MixedOrigin == [r \in {r1, r2} |-> a]
MixedDest == (r1 :> b) @@ (r2 :> a)
=============================================================================
