--------------------------- MODULE MCOrderPipeline ---------------------------
(* Values of OrderPipeline's constants for TLC. *)
EXTENDS OrderPipeline

CONSTANTS d1, d2

OneDispatcher == {d1}
TwoDispatchers == {d1, d2}

(* A Profile that translates what the broker usually reports but knows no *)
(* name for a partly filled order that was cancelled.                     *)
UsualStatuses == {"QUEUED", "WORKING", "PARTIALLY_FILLED", "FILLED", "CANCELLED", "REJECTED"}

=============================================================================
