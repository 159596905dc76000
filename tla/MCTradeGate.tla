------------------------------ MODULE MCTradeGate ------------------------------
(* Values of TradeGate's constants for TLC: two openings by automation, and *)
(* a close by hand that takes two legs and has the signal of one of them.   *)
EXTENDS TradeGate, TLC

CONSTANTS t1, t2, p1, p2

Request(action, volume, m, signal) ==
  [action |-> action, volume |-> volume, mode |-> m, signal |-> signal]

TwoThreads == {t1, t2}
TwoPreviews == {p1, p2}
MixedRequests ==
  {Request("OPEN", 1, "LIMITED_AUTO", "s1"), Request("OPEN", 1, "LIMITED_AUTO", "s2"),
   Request("CLOSE", 2, "MANUAL_LIVE", "s1")}
TwoPositions == {[today |-> 1, yesterday |-> 1], [today |-> 0, yesterday |-> 2]}
Symmetry == Permutations(TwoThreads) \cup Permutations(TwoPreviews)

=============================================================================
