---------------------------- MODULE OrderExecutor ----------------------------
(***************************************************************************)
(* What the modules that treat the Adapter as one executor of orders       *)
(* (OrderPipeline) rely on, whichever of its threads poll, tick, wait or   *)
(* are killed: orders are executed one at a time; an order is journalled   *)
(* once, by the execution that may then call the order entry; the entry is *)
(* called behind that journal, at most once for an order; and nothing but  *)
(* the end of an execution puts an order down.                             *)
(*                                                                         *)
(* AdapterDispatch is the threads that keep this promise, OrderPipeline    *)
(* the executor that needs it.                                             *)
(***************************************************************************)
EXTENDS Naturals

CONSTANT Orders

VARIABLES
  current,   \* the order in execution, as a set of at most one
  ready,     \* this execution has written its journal and not begun the call
  journal,   \* the orders with an execution journal
  called     \* called[o]: calls of the order entry for o

vars == <<current, ready, journal, called>>

Init ==
  /\ current = {} /\ ready = FALSE
  /\ journal = {}
  /\ called = [o \in Orders |-> 0]

Take(o) ==
  /\ current = {}
  /\ current' = {o}
  /\ UNCHANGED <<ready, journal, called>>

(* An order that is only observed is journalled as it is taken.            *)
Observe(o) ==
  /\ current = {} /\ o \notin journal
  /\ current' = {o}
  /\ journal' = journal \cup {o}
  /\ UNCHANGED <<ready, called>>

Journal(o) ==
  /\ current = {o} /\ o \notin journal
  /\ journal' = journal \cup {o}
  /\ ready' = TRUE
  /\ UNCHANGED <<current, called>>

Call(o) ==
  /\ current = {o} /\ ready /\ o \in journal /\ called[o] = 0
  /\ called' = [called EXCEPT ![o] = 1]
  /\ ready' = FALSE
  /\ UNCHANGED <<current, journal>>

(* The execution ends, by itself or because the process is killed.         *)
PutDown ==
  /\ current # {}
  /\ current' = {} /\ ready' = FALSE
  /\ UNCHANGED <<journal, called>>

Next ==
  \/ \E o \in Orders : Take(o) \/ Observe(o) \/ Journal(o) \/ Call(o)
  \/ PutDown

Spec == Init /\ [][Next]_vars

=============================================================================
