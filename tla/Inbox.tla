-------------------------------- MODULE Inbox --------------------------------
(***************************************************************************)
(* What the Worker's consumer of a queue folder promises the modules that  *)
(* treat the ingestion of a message as one step (OrderPipeline): a message *)
(* that has arrived is applied once or refused without any effect, and     *)
(* never both. FileQueue keeps this promise.                               *)
(***************************************************************************)
CONSTANT Files

VARIABLES
  waiting,   \* messages that have arrived and have had no effect yet
  applied,   \* messages whose effect is in the database
  refused    \* messages thrown out without an effect

vars == <<waiting, applied, refused>>

Init == waiting = {} /\ applied = {} /\ refused = {}

Arrive(f) ==
  /\ f \notin waiting \cup applied \cup refused
  /\ waiting' = waiting \cup {f}
  /\ UNCHANGED <<applied, refused>>

Apply(f) ==
  /\ f \in waiting
  /\ waiting' = waiting \ {f}
  /\ applied' = applied \cup {f}
  /\ UNCHANGED refused

Refuse(f) ==
  /\ f \in waiting
  /\ waiting' = waiting \ {f}
  /\ refused' = refused \cup {f}
  /\ UNCHANGED applied

Next == \E f \in Files : Arrive(f) \/ Apply(f) \/ Refuse(f)

Spec == Init /\ [][Next]_vars

=============================================================================
