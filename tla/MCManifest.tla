---------------------------- MODULE MCManifest -----------------------------
(* Two handlers that come back for any number of commands, two fields and two
   settings: enough for copies that mix two configurations. *)
EXTENDS Manifest
=============================================================================
