------------------------------- MODULE MCPool -------------------------------
(* PoolManager with at most two Starts, three samples and a short buffer. *)
EXTENDS PoolManager
=============================================================================
