---------------------------- MODULE MCSignalPath ----------------------------
(* The signal path with one load, between the thresholds, so that the pool is
   only halted and restored, and with snapshots that are not numbered. *)
EXTENDS PathHistory

OneLoad == {[active |-> 3, max |-> 5]}
MCSnapshots == Readings
=============================================================================
