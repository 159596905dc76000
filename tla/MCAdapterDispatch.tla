-------------------------- MODULE MCAdapterDispatch --------------------------
(* Values of AdapterDispatch's constants for TLC. *)
EXTENDS AdapterDispatch

CONSTANTS a, b, o1, o2, k

OneInstance == {a}
TwoInstances == {a, b}
OneLoop == {"loop"}
TwoLoops == {"loop", "old loop"}
OneOrder == {o1}
TwoOrders == {o1, o2}
OneCancel == {k}
NoCancel == {}

=============================================================================
