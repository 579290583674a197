---------------------------- MODULE MCLifecycle ----------------------------
(* The life cycle has no constants: its whole state space is explored. *)
EXTENDS Lifecycle
=============================================================================
