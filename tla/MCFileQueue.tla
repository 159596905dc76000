----------------------------- MODULE MCFileQueue -----------------------------
(* Values of FileQueue's constants for TLC. *)
EXTENDS FileQueue

CONSTANTS c1, c2

ThreeFiles == 1..3
TwoConsumers == {c1, c2}

=============================================================================
