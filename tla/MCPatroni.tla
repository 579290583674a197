----------------------------- MODULE MCPatroni -----------------------------
(* Instances of the Patroni manager for TLC. *)
EXTENDS Patroni, FiniteSets

(* The bound on processes never disables a Bootstrap: each command makes one
   at most. *)
ASSUME MaxStarts > Cardinality(Restarts \cup Reconciles)
=============================================================================
