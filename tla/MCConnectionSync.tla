---------------------------- MODULE MCConnectionSync ----------------------------
(* Values of ConnectionSync's constants for TLC are in ConnectionSync.cfg. *)
EXTENDS ConnectionSync

=============================================================================
