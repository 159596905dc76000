---------------------------- MODULE ValidationProbes ----------------------------
(***************************************************************************)
(* The P0 probes: single orders sent while everything is halted, to see    *)
(* how the broker maps them. A test probe is passive and cancelled at      *)
(* once, a validation leg is meant to fill. Each has an authorization of   *)
(* its own, a file the Adapter takes away before it sends the order; one   *)
(* file per kind of probe, so that queueing a second one replaces the      *)
(* first one's authorization.                                              *)
(*                                                                         *)
(* Consoles queue probes, dispatchers write them to the queue (twice, when *)
(* one is killed or two are at work), threads of the Adapter execute them, *)
(* and the Adapter may be killed between any two steps. The gates on mode, *)
(* halt, quote, funds, position and age, at the console and at the         *)
(* Adapter, may refuse a probe at any time and are not modelled further.   *)
(***************************************************************************)
EXTENDS Naturals, FiniteSets

CONSTANTS
  TestProbes, Legs,  \* ids of the probes (authorization_id, validation_id)
  Executors,         \* threads of the Adapter
  None,
  MaxQueued,         \* bound: probes queued
  MaxCopies,         \* bound: copies of a command in the queue
  MaxFaults          \* bound: kills of the Adapter and failed writes of it

Probes == TestProbes \cup Legs
Kinds == {"TEST", "LEG"}
KindOf(c) == IF c \in Legs THEN "LEG" ELSE "TEST"

ASSUME ProbeAssumption ==
  /\ TestProbes \cap Legs = {} /\ None \notin Probes
  /\ MaxQueued \in Nat
  /\ MaxCopies \in Nat \ {0} /\ MaxFaults \in Nat

VARIABLES
  row,      \* adapter_commands: the probe's row
  file,     \* file[k]: whose authorization lies in the runtime directory
  copies,   \* copies of the command waiting in the Adapter's queue
  thread,   \* thread[e]: the probe an Adapter thread executes, and where it is
  journal,  \* the probe's journal file
  calls,    \* make_order_req calls made for it
  order,    \* its order at the broker
  answer,   \* the last status acknowledged
  claimed,  \* history: probes whose own authorization was taken for them
  excused,  \* history: probes two threads worked on at once, or whose journal
            \* could not be read when they were refused
  faults

vars == <<row, file, copies, thread, journal, calls, order, answer, claimed, excused, faults>>

Places == {"CHECK", "CLAIM", "JOURNAL", "CALL", "RETURNED", "NEGATIVE", "CANCEL", "CANCELLED",
           "ANSWER", "REFUSE", "REFUSED"}
Journals == {"NONE", "PRE_SUBMIT", "FAILED_BEFORE_SEND", "SEND_RETURNED", "CANCEL_REQUESTED"}
Answers == {"NONE", "SUBMIT_UNKNOWN", "FAILED_BEFORE_SEND", "SEND_RETURNED", "CANCEL_REQUESTED",
            "CANCEL_UNKNOWN", "ADAPTER_REJECTED"}

\* A thread: where it is, with which probe, and what it is about to answer.
Free == [at |-> "FREE", probe |-> None, says |-> "NONE"]

(* The types of the variables; while a thread works on a probe, the probe  *)
(* has been delivered.                                                     *)
TypeOK ==
  /\ row \in [Probes -> {"NONE", "AUTHORIZED", "PENDING", "DELIVERED"}]
  /\ file \in [Kinds -> Probes \cup {None}]
  /\ copies \in [Probes -> 0..MaxCopies]
  /\ thread \in [Executors -> {Free} \cup [at : Places, probe : Probes, says : Answers]]
  /\ journal \in [Probes -> Journals]
  /\ calls \in [Probes -> Nat]
  /\ order \in [Probes -> {"NONE", "WORKING", "CANCELLED"}]
  /\ answer \in [Probes -> Answers]
  /\ claimed \subseteq Probes /\ excused \subseteq Probes
  /\ faults \in 0..MaxFaults
  /\ \A e \in Executors : thread[e] # Free => row[thread[e].probe] \in {"PENDING", "DELIVERED"}

Init ==
  /\ row = [c \in Probes |-> "NONE"] /\ file = [k \in Kinds |-> None]
  /\ copies = [c \in Probes |-> 0] /\ thread = [e \in Executors |-> Free]
  /\ journal = [c \in Probes |-> "NONE"]
  /\ calls = [c \in Probes |-> 0] /\ order = [c \in Probes |-> "NONE"]
  /\ answer = [c \in Probes |-> "NONE"]
  /\ claimed = {} /\ excused = {} /\ faults = 0

-----------------------------------------------------------------------------
(* The console and the dispatchers.                                        *)

(* Mutant: the probe is handed out before its row is there. *)
WriteAuthorizationEarly(c) ==
  /\ row[c] = "NONE" /\ Cardinality({d \in Probes : row[d] # "NONE"}) < MaxQueued
  /\ row' = [row EXCEPT ![c] = "AUTHORIZED"]
  /\ file' = [file EXCEPT ![KindOf(c)] = c]
  /\ copies' = [copies EXCEPT ![c] = 1]
  /\ UNCHANGED <<thread, journal, calls, order, answer, claimed, excused, faults>>

\* The authorization is written before the row is there.
WriteAuthorization(c) ==
  /\ row[c] = "NONE" /\ Cardinality({d \in Probes : row[d] # "NONE"}) < MaxQueued
  /\ row' = [row EXCEPT ![c] = "AUTHORIZED"]
  /\ file' = [file EXCEPT ![KindOf(c)] = c]
  /\ UNCHANGED <<copies, thread, journal, calls, order, answer, claimed, excused, faults>>

\* The gates of the two kinds differ, and may be stale once they have passed.
QueueP0TestOrder(c) == c \in TestProbes /\ WriteAuthorization(c)
QueueP0ValidationLeg(c) == c \in Legs /\ WriteAuthorization(c)

InsertCommand(c) ==
  /\ row[c] = "AUTHORIZED"
  /\ row' = [row EXCEPT ![c] = "PENDING"]
  /\ UNCHANGED <<file, copies, thread, journal, calls, order, answer, claimed, excused, faults>>

(* A dispatcher that read the row before another one marked it still       *)
(* writes the command, under a new file name.                              *)
Deliver(c) ==
  /\ row[c] \in {"PENDING", "DELIVERED"} /\ copies[c] < MaxCopies
  /\ copies' = [copies EXCEPT ![c] = @ + 1]
  /\ UNCHANGED <<row, file, thread, journal, calls, order, answer, claimed, excused, faults>>

MarkDelivered(c) ==
  /\ row[c] = "PENDING"
  /\ row' = [row EXCEPT ![c] = "DELIVERED"]
  /\ UNCHANGED <<file, copies, thread, journal, calls, order, answer, claimed, excused, faults>>

-----------------------------------------------------------------------------
(* The Adapter. A thread goes from place to place; an error at any of them *)
(* leads to REFUSE, the exception path of _process_path.                   *)

At(e, place) == thread[e].at = place
Go(e, place) == thread' = [thread EXCEPT ![e].at = place]
Say(e, place, status) == thread' = [thread EXCEPT ![e].at = place, ![e].says = status]
Leave(e) == thread' = [thread EXCEPT ![e] = Free]
Probe(e) == thread[e].probe

Take(e, c) ==
  /\ thread[e] = Free /\ copies[c] > 0
  /\ copies' = [copies EXCEPT ![c] = @ - 1]
  /\ thread' = [thread EXCEPT ![e] = [at |-> "CHECK", probe |-> c, says |-> "NONE"]]
  /\ excused' = IF \E d \in Executors : Probe(d) = c THEN excused \cup {c} ELSE excused
  /\ UNCHANGED <<row, file, journal, calls, order, answer, claimed, faults>>

\* The gates may refuse; then, whether there is a journal already.
Gates(e) ==
  /\ At(e, "CHECK")
  /\ Go(e, "REFUSE") \/ (journal[Probe(e)] = "NONE" /\ Go(e, "CLAIM"))
  /\ UNCHANGED <<row, file, copies, journal, calls, order, answer, claimed, excused, faults>>

CheckTestOrder(e) == Probe(e) \in TestProbes /\ Gates(e)
CheckValidationLeg(e) == Probe(e) \in Legs /\ Gates(e)

(* Mutant: the authorization's content is not compared with the command. *)
ClaimAny(e) ==
  /\ At(e, "CLAIM")
  /\ LET held == file[KindOf(Probe(e))]
     IN  /\ file' = [file EXCEPT ![KindOf(Probe(e))] = None]
         /\ claimed' = IF held = Probe(e) THEN claimed \cup {held} ELSE claimed
         /\ IF held # None THEN Go(e, "JOURNAL") ELSE Go(e, "REFUSE")
  /\ UNCHANGED <<row, copies, journal, calls, order, answer, excused, faults>>

(* _consume_p0_authorization and _consume_p0_leg_authorization: the file   *)
(* is gone, whoever's it was and however old.                              *)
Claim(e) ==
  /\ At(e, "CLAIM")
  /\ LET held == file[KindOf(Probe(e))]
     IN  /\ file' = [file EXCEPT ![KindOf(Probe(e))] = None]
         /\ claimed' = IF held = Probe(e) THEN claimed \cup {held} ELSE claimed
         /\ Go(e, "REFUSE") \/ (held = Probe(e) /\ Go(e, "JOURNAL"))
  /\ UNCHANGED <<row, copies, journal, calls, order, answer, excused, faults>>

WriteJournal(e) ==
  /\ At(e, "JOURNAL")
  /\ journal' = [journal EXCEPT ![Probe(e)] = "PRE_SUBMIT"]
  /\ Go(e, "CALL")
  /\ UNCHANGED <<row, file, copies, calls, order, answer, claimed, excused, faults>>

(* make_order_req returns the order's id, a negative number, or nothing    *)
(* that tells whether there is an order.                                   *)
CallOrder(e) ==
  /\ At(e, "CALL")
  /\ calls' = [calls EXCEPT ![Probe(e)] = @ + 1]
  /\ \/ Go(e, "RETURNED") /\ order' = [order EXCEPT ![Probe(e)] = "WORKING"]
     \/ Go(e, "NEGATIVE") /\ UNCHANGED order
     \/ /\ Say(e, "ANSWER", "SUBMIT_UNKNOWN")
        /\ \E o \in {"NONE", "WORKING"} : order' = [order EXCEPT ![Probe(e)] = o]
  /\ UNCHANGED <<row, file, copies, journal, answer, claimed, excused, faults>>

\* A test probe goes on to its cancel, a leg to its answer.
Returned(e) ==
  /\ At(e, "RETURNED")
  /\ journal' = [journal EXCEPT ![Probe(e)] = "SEND_RETURNED"]
  /\ IF Probe(e) \in Legs THEN Say(e, "ANSWER", "SEND_RETURNED") ELSE Go(e, "CANCEL")
  /\ UNCHANGED <<row, file, copies, calls, order, answer, claimed, excused, faults>>

Negative(e) ==
  /\ At(e, "NEGATIVE")
  /\ journal' = [journal EXCEPT ![Probe(e)] = "FAILED_BEFORE_SEND"]
  /\ Say(e, "ANSWER", "FAILED_BEFORE_SEND")
  /\ UNCHANGED <<row, file, copies, calls, order, answer, claimed, excused, faults>>

\* What cancel_order returns is not looked at.
CallCancel(e) ==
  /\ At(e, "CANCEL")
  /\ \E o \in {"WORKING", "CANCELLED"} : order' = [order EXCEPT ![Probe(e)] = o]
  /\ Go(e, "CANCELLED") \/ Say(e, "ANSWER", "CANCEL_UNKNOWN")
  /\ UNCHANGED <<row, file, copies, journal, calls, answer, claimed, excused, faults>>

Cancelled(e) ==
  /\ At(e, "CANCELLED")
  /\ journal' = [journal EXCEPT ![Probe(e)] = "CANCEL_REQUESTED"]
  /\ Say(e, "ANSWER", "CANCEL_REQUESTED")
  /\ UNCHANGED <<row, file, copies, calls, order, answer, claimed, excused, faults>>

(* Mutant: a leg is refused like a test probe. *)
RefusalPlain(c) == "ADAPTER_REJECTED"

\* For a leg its journal decides; the status of a refused test probe is fixed.
Refusal(c) ==
  CASE c \notin Legs \/ journal[c] = "NONE" -> "ADAPTER_REJECTED"
    [] journal[c] = "PRE_SUBMIT" -> "SUBMIT_UNKNOWN"
    [] OTHER -> journal[c]

\* The journal is read, or cannot be read, before the refusal is written.
Refuse(e) ==
  /\ At(e, "REFUSE")
  /\ \/ Say(e, "REFUSED", Refusal(Probe(e))) /\ UNCHANGED <<excused, faults>>
     \/ /\ faults < MaxFaults /\ faults' = faults + 1
        /\ Say(e, "REFUSED", "ADAPTER_REJECTED") /\ excused' = excused \cup {Probe(e)}
  /\ UNCHANGED <<row, file, copies, journal, calls, order, answer, claimed>>

Answer(e) ==
  /\ thread[e].at \in {"ANSWER", "REFUSED"}
  /\ answer' = [answer EXCEPT ![Probe(e)] = thread[e].says]
  /\ Leave(e)
  /\ UNCHANGED <<row, file, copies, journal, calls, order, claimed, excused, faults>>

(* A write of the journal or the answer fails: an exception. The one that  *)
(* would tell of the refusal itself is given up.                           *)
WriteFails(e) ==
  /\ thread[e].at \in {"JOURNAL", "RETURNED", "NEGATIVE", "CANCELLED", "ANSWER", "REFUSED"}
  /\ faults < MaxFaults /\ faults' = faults + 1
  /\ IF At(e, "REFUSED") THEN Leave(e) ELSE Go(e, "REFUSE")
  /\ UNCHANGED <<row, file, copies, journal, calls, order, answer, claimed, excused>>

\* A restarted Adapter takes up the files it was processing.
AdapterKilled ==
  /\ faults < MaxFaults /\ faults' = faults + 1
  /\ copies' = [c \in Probes |->
       IF \E e \in Executors : thread[e].probe = c /\ copies[c] < MaxCopies
         THEN copies[c] + 1 ELSE copies[c]]
  /\ thread' = [e \in Executors |-> Free]
  /\ UNCHANGED <<row, file, journal, calls, order, answer, claimed, excused>>

Next ==
  \/ \E c \in Probes :
       \/ QueueP0TestOrder(c) \/ QueueP0ValidationLeg(c)
       \/ InsertCommand(c) \/ Deliver(c) \/ MarkDelivered(c)
  \/ \E e \in Executors :
       \/ \E c \in Probes : Take(e, c)
       \/ CheckTestOrder(e) \/ CheckValidationLeg(e) \/ Claim(e) \/ WriteJournal(e)
       \/ CallOrder(e) \/ Returned(e) \/ Negative(e) \/ CallCancel(e) \/ Cancelled(e)
       \/ Refuse(e) \/ Answer(e) \/ WriteFails(e)
  \/ AdapterKilled

Spec == Init /\ [][Next]_vars

-----------------------------------------------------------------------------
(* Properties.                                                             *)

(* Whatever is delivered twice, overwritten, killed or raced, a probe      *)
(* sends at most one order, only after its own authorization was taken     *)
(* for it, and never before a journal on disk tells of it (Adapter         *)
(* 801-839, 896-912, 1018-1032).                                           *)
OrdersAreAuthorized ==
  \A c \in Probes :
    /\ calls[c] <= 1
    /\ calls[c] = 1 \/ order[c] # "NONE" => c \in claimed /\ journal[c] # "NONE"

(* No leg of which there is an order is answered as rejected or as failed  *)
(* before sending: after a kill or an error the journal is asked first     *)
(* (Adapter 1823-1832). Excepted is a leg that two threads work on at once *)
(* (AdapterDispatch: only with two instances, or when a file's target      *)
(* cannot be read) or whose journal cannot be read; and the code does not  *)
(* promise it of a test probe.                                             *)
HonestLegs ==
  \A e \in Executors :
    (thread[e].says \in {"ADAPTER_REJECTED", "FAILED_BEFORE_SEND"} /\ Probe(e) \in Legs \ excused)
      => order[Probe(e)] = "NONE"

=============================================================================
