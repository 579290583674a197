------------------------------ MODULE MCLoads ------------------------------
(* The snapshots of the engine's model-checking instances: the server takes
   5 connections, so 5, 3 and 0 active ones are high, middle and low load. *)
EXTENDS Integers

Load(role, active, max) == [role |-> role, active |-> active, max |-> max]

(* The three loads of a primary and a replica. *)
BasicLoads ==
    { Load("primary", active, 5) : active \in {5, 3, 0} } \cup { Load("replica", 0, 5) }

(* Without a middle load of the primary, but with a lowered max_connections
   and a Patroni answer that carries no role. *)
MixedLoads ==
    { Load("primary", active, 5) : active \in {5, 0} }
      \cup { Load("replica", 0, 5), Load("primary", 0, 4), Load("", 3, 5) }
=============================================================================
