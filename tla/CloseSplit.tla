------------------------------- MODULE CloseSplit -------------------------------
(***************************************************************************)
(* How an order is split over the positions of today and of earlier days   *)
(* (close_split.py). An exchange wants an offset with every close, so a    *)
(* generic close becomes up to two legs, in the order of the account's     *)
(* policy. A side is the volume of one direction that may be closed.       *)
(***************************************************************************)
EXTENDS Naturals, Sequences

Sides == [today : Nat, yesterday : Nat]
ClosePolicies == {"TODAY_FIRST", "YESTERDAY_FIRST", "EXPLICIT_ONLY"}
OrderActions == {"OPEN", "CLOSE", "CLOSE_TODAY", "CLOSE_YESTERDAY"}
Offsets == {"OPEN", "CLOSE_TODAY", "CLOSE_YESTERDAY"}
Legs == [offset : Offsets, volume : Nat \ {0}]

Leg(offset, volume) == [offset |-> offset, volume |-> volume]

Closable(offset, side) == IF offset = "CLOSE_TODAY" THEN side.today ELSE side.yesterday

\* split_order refuses: too much, or no offset where one must be given.
Splittable(action, volume, side, policy) ==
  CASE action = "OPEN" -> TRUE
    [] action = "CLOSE" -> volume <= side.today + side.yesterday /\ policy # "EXPLICIT_ONLY"
    [] OTHER -> volume <= Closable(action, side)

Preferred(policy) == IF policy = "TODAY_FIRST" THEN "CLOSE_TODAY" ELSE "CLOSE_YESTERDAY"
Other(offset) == IF offset = "CLOSE_TODAY" THEN "CLOSE_YESTERDAY" ELSE "CLOSE_TODAY"

(* Mutant: the first leg takes the whole volume. *)
SplitOrderWhole(action, volume, side, policy) ==
  IF action # "CLOSE" THEN <<Leg(action, volume)>> ELSE <<Leg(Preferred(policy), volume)>>

SplitOrder(action, volume, side, policy) ==
  IF action # "CLOSE" THEN <<Leg(action, volume)>>
  ELSE LET first == Preferred(policy)
           have == Closable(first, side)
       IN  CASE have >= volume -> <<Leg(first, volume)>>
             [] have = 0 -> <<Leg(Other(first), volume)>>
             [] OTHER -> <<Leg(first, have), Leg(Other(first), volume - have)>>

=============================================================================
