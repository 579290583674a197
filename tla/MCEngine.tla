----------------------------- MODULE MCEngine -----------------------------
(* The engine on a scaled-down PgBouncer: floor and step 2 under a server of
   5 connections, so that a step up or down is cut short by the ceiling (4 to
   5) and by the floor (3 to 2); two ticks confirm a shrink, three a growth. *)
EXTENDS Engine, MCLoads
=============================================================================
