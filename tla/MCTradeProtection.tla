--------------------------- MODULE MCTradeProtection ---------------------------
(* Values of TradeProtection's constants for TLC. *)
EXTENDS TradeProtection, TLC

CONSTANTS t1, t2

TwoThreads == {t1, t2}

(* Openings under the first permits, and a close while trading is halted.  *)
(* Openings by hand pass or fail with the same file; what lets one be      *)
(* submitted is TradeGate's subject.                                       *)
Order(m, g, o) == [mode |-> m, generation |-> g, opens |-> o]
ThreeOrders ==
  {Order("LIMITED_AUTO", 1, TRUE), Order("LIMITED_AUTO", 2, TRUE), Order("LIMITED_AUTO", 0, FALSE)}

Symmetry == Permutations(TwoThreads)

=============================================================================
