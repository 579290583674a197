----------------------------- MODULE MCHistory -----------------------------
(* MCEngine's instance with the history of consecutive ticks. *)
EXTENDS EngineHistory, MCLoads
=============================================================================
