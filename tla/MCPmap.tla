------------------------------- MODULE MCPmap -------------------------------
(* Instances of Pmap for TLC: which fates the items of a run may have.     *)
EXTENDS Pmap

ResultFates == {"ok", "error", "result undecodable"}
AllFates == {"ok", "error", "panic", "task unencodable", "task undecodable",
             "result unencodable", "result undecodable"}
=============================================================================
