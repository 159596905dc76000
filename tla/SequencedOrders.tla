--------------------------- MODULE SequencedOrders ---------------------------
(***************************************************************************)
(* What the bridge promises the owner of the account about one trade       *)
(* intent, whatever is duplicated, delayed, lost or restarted underneath:  *)
(* the intent's child orders 1..N reach the broker's order entry at most   *)
(* once each, in their order, and a later one only after every earlier one *)
(* is completely filled.                                                   *)
(*                                                                         *)
(* OrderPipeline is the Worker, the file queue and the Adapter that keep   *)
(* this promise.                                                           *)
(***************************************************************************)
EXTENDS Naturals

CONSTANT N   \* number of child orders of the intent, a positive number

Child == 1..N

VARIABLES
  attempts,   \* attempts[c]: calls of the broker's order entry for child c
  filled      \* the children the broker has filled completely

vars == <<attempts, filled>>

Init ==
  /\ attempts = [c \in Child |-> 0]
  /\ filled = {}

(* The one call of the order entry for child c. *)
Attempt(c) ==
  /\ attempts[c] = 0
  /\ \A k \in 1..(c - 1) : k \in filled
  /\ attempts' = [attempts EXCEPT ![c] = 1]
  /\ UNCHANGED filled

(* The broker fills an order it was sent. *)
Fill(c) ==
  /\ attempts[c] = 1
  /\ filled' = filled \cup {c}
  /\ UNCHANGED attempts

Next == \E c \in Child : Attempt(c) \/ Fill(c)

Spec == Init /\ [][Next]_vars

=============================================================================
