--------------------------- MODULE MCValidationProbes ---------------------------
(* Values of ValidationProbes' constants for TLC. *)
EXTENDS ValidationProbes, TLC

CONSTANTS leg1, leg2, test1, e1, e2

TwoLegs == {leg1, leg2}
OneTest == {test1}
TwoExecutors == {e1, e2}
Symmetry == Permutations(TwoLegs) \cup Permutations(TwoExecutors)

=============================================================================
