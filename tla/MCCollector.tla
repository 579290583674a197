---------------------------- MODULE MCCollector ----------------------------
(* Instances of the collector and its window for TLC.  The load plays no part
   here; the numbers tell apart what is in flight or in the window. *)
EXTENDS Collector

MCLoads == {[active |-> 3, max |-> 5]}
MCSnapshots == Readings
=============================================================================
