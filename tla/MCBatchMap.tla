----------------------------- MODULE MCBatchMap -----------------------------
(* An instance of BatchMap for TLC: three items, two localities. *)
EXTENDS BatchMap
=============================================================================
