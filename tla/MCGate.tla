------------------------------- MODULE MCGate -------------------------------
(* Gate.tla on a few goroutines: which of them read, write and have a       *)
(* deadline is set by each configuration.                                   *)
EXTENDS Gate
=============================================================================
