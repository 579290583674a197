---------------------------- MODULE MCMigration ----------------------------
(* Instances of a migration for TLC. *)
EXTENDS Migration

CONSTANTS c1, c2, c3

ThreeCommands == <<c1, c2, c3>>
=============================================================================
