---------------------------- MODULE OrderPipeline ----------------------------
(***************************************************************************)
(* The life of one trade intent, from the transaction that persists it to  *)
(* the broker and back:                                                    *)
(*                                                                         *)
(*   Worker   the SQLite rows of the intent, its child orders and their    *)
(*            adapter commands (core.py), the threads that publish pending *)
(*            commands as signed files, and the ingestion of what comes    *)
(*            back (event_ingest.py);                                      *)
(*   queue    the folders "commands", "command_acks" and "events";         *)
(*   Adapter  the one command executor of the PythonGO strategy and the    *)
(*            execution journal it keeps on disk;                          *)
(*   broker   the native make_order_req and the on_order and on_cancel     *)
(*            callbacks (external, modelled from their use).               *)
(*                                                                         *)
(* Each process may be killed between any two of its steps, and each write *)
(* of a file may fail. Message ids make the application of one ack or      *)
(* event file exactly-once (FileQueue), so one ingestion is one step here. *)
(***************************************************************************)
EXTENDS Naturals, Sequences

CONSTANTS
  N,             \* child orders of the intent: the legs a close was split into
  Dispatchers,   \* threads that run dispatch_pending_commands
  StatusMap,     \* broker states the signed Profile's order_status_map translates
  MaxCrashes,    \* bound: process kills
  MaxIoFaults    \* bound: failed writes and lost callbacks

ASSUME NAssumption == N \in Nat \ {0}
ASSUME BoundAssumption == MaxCrashes \in Nat /\ MaxIoFaults \in Nat

Child == 1..N

(* The modes the pipeline treats differently: SIM_SIGNAL commands take the  *)
(* way of MANUAL_LIVE ones.                                                *)
Modes == {"OBSERVE_ONLY", "MANUAL_LIVE", "LIMITED_AUTO"}

\* States of an order at the broker; "NONE" when the broker never saw it.
BrokerState ==
  {"NONE", "ACCEPTED", "QUEUED", "WORKING", "PARTIALLY_FILLED", "FILLED",
   "PARTIALLY_FILLED_CANCELLED", "CANCELLED", "REJECTED"}

EventStatus ==
  {"QUEUED", "WORKING", "PARTIALLY_FILLED", "FILLED", "PARTIALLY_FILLED_CANCELLED",
   "CANCELLED", "REJECTED", "UNKNOWN_BROKER_STATUS"}

AckStatus ==
  {"OBSERVE_ONLY_ACKNOWLEDGED", "SEND_RETURNED", "FAILED_BEFORE_SEND",
   "SUBMIT_UNKNOWN", "ADAPTER_REJECTED"}

JournalState ==
  {"NONE", "PRE_SUBMIT", "SEND_RETURNED", "FAILED_BEFORE_SEND",
   "OBSERVE_ONLY_ACKNOWLEDGED"}

WaitingStatus == {"BLOCKED_SEQUENCE", "PENDING_DELIVERY", "SEQUENCE_ABORTED"}

ChildStatus ==
  WaitingStatus \cup EventStatus \cup
  {"ABSENT", "SEND_RETURNED", "FAILED_BEFORE_SEND", "SUBMIT_UNKNOWN",
   "OBSERVED"}

CommandStatus == WaitingStatus \cup AckStatus \cup {"ABSENT", "DELIVERED"}

IntentStatus ==
  {"ABSENT", "PERSISTED", "QUEUED", "ACTIVE", "OBSERVED", "FILLED", "CANCELLED",
   "PARTIALLY_FILLED_CANCELLED", "FAILED", "SUBMIT_UNKNOWN"}

TerminalOrderStates ==
  {"FILLED", "PARTIALLY_FILLED_CANCELLED", "CANCELLED", "REJECTED",
   "FAILED_BEFORE_SEND", "SUBMIT_UNKNOWN", "OBSERVED"}

VARIABLES
  mode,        \* execution mode of the intent, the same on both sides
  expired,     \* the TTL of the command envelopes (all signed at submit) is over
  intent,      \* trade_intents.status
  child,       \* child[c]: child_orders.status
  command,     \* command[c]: adapter_commands.status
  batch,       \* batch[d]: rows dispatcher d has read and not yet published
  unmarked,    \* unmarked[d]: the child whose file d published last and whose row
               \* it has not yet updated, or 0
  files,       \* files[c]: copies of c's command file in the commands folder,
               \* claimed (.processing-*) or not
  acks,        \* the command_acks folder, in file-name (time) order
  events,      \* the order events of the events folder, in file-name order
  journal,     \* journal[c]: state of c's execution journal, "NONE" without a file
  step,        \* where the Adapter's executor stands
  current,     \* the child it is executing, or 0
  result,      \* what make_order_req returned to it
  localPause,  \* limited_auto_pause.json exists for the intent's permit
  broker,      \* broker[c]: state of the broker's order for c
  submitted,   \* submitted[c]: calls of make_order_req for c
  crashes, ioFaults

workerVars  == <<intent, child, command>>
dispatchVars == <<batch, unmarked>>
queueVars   == <<files, acks, events>>
executorVars == <<step, current, result>>
brokerVars  == <<broker, submitted>>
vars == <<mode, expired, workerVars, dispatchVars, queueVars, journal, executorVars,
          localPause, brokerVars, crashes, ioFaults>>

TypeOK ==
  /\ mode \in Modes
  /\ expired \in BOOLEAN
  /\ intent \in IntentStatus
  /\ child \in [Child -> ChildStatus]
  /\ command \in [Child -> CommandStatus]
  /\ batch \in [Dispatchers -> SUBSET Child]
  /\ unmarked \in [Dispatchers -> 0..N]
  /\ files \in [Child -> Nat]
  /\ acks \in Seq([child : Child, status : AckStatus])
  /\ events \in Seq([child : Child, status : EventStatus])
  /\ journal \in [Child -> JournalState]
  /\ step \in {"IDLE", "PREPARED", "PRE_SUBMIT", "RETURNED", "JOURNALED",
               "ARCHIVE", "EXCEPTION", "DEAD_LETTER"}
  /\ current \in 0..N
  /\ (step = "IDLE") <=> (current = 0)
  /\ result \in {"NONE", "ORDER_ID", "MINUS_ONE", "UNCERTAIN"}
  /\ localPause \in BOOLEAN
  /\ broker \in [Child -> BrokerState]
  /\ submitted \in [Child -> Nat]
  /\ crashes \in 0..MaxCrashes
  /\ ioFaults \in 0..MaxIoFaults

Init ==
  /\ mode \in Modes
  /\ expired = FALSE
  /\ intent = "ABSENT"
  /\ child = [c \in Child |-> "ABSENT"]
  /\ command = [c \in Child |-> "ABSENT"]
  /\ batch = [d \in Dispatchers |-> {}]
  /\ unmarked = [d \in Dispatchers |-> 0]
  /\ files = [c \in Child |-> 0]
  /\ acks = <<>>
  /\ events = <<>>
  /\ journal = [c \in Child |-> "NONE"]
  /\ step = "IDLE"
  /\ current = 0
  /\ result = "NONE"
  /\ localPause = FALSE
  /\ broker = [c \in Child |-> "NONE"]
  /\ submitted = [c \in Child |-> 0]
  /\ crashes = 0
  /\ ioFaults = 0

-----------------------------------------------------------------------------
(* The Worker's transactions.                                              *)

(* submit_trade_intent, its one immediate transaction: the first child may *)
(* be delivered, the others wait for their predecessor. All envelopes are  *)
(* signed here, with the same lifetime.                                    *)
SubmitTradeIntent ==
  /\ intent = "ABSENT"
  /\ intent' = "PERSISTED"
  /\ child' = [c \in Child |-> IF c = 1 THEN "PENDING_DELIVERY" ELSE "BLOCKED_SEQUENCE"]
  /\ command' = child'
  /\ UNCHANGED <<mode, expired, dispatchVars, queueVars, journal, executorVars,
                 localPause, brokerVars, crashes, ioFaults>>

(* _aggregate_intent: the intent's status is a function of its children's. *)
(* The rows are tried in this order.                                       *)
Aggregate(ch) ==
  LET all(S)  == \A c \in Child : ch[c] \in S
      some(S) == \E c \in Child : ch[c] \in S
  IN  IF some({"SUBMIT_UNKNOWN"}) THEN "SUBMIT_UNKNOWN"
      ELSE IF all({"OBSERVED"}) THEN "OBSERVED"
      ELSE IF all({"FILLED", "OBSERVED"}) THEN "FILLED"
      ELSE IF all({"CANCELLED"}) THEN "CANCELLED"
      ELSE IF all({"FILLED", "CANCELLED", "PARTIALLY_FILLED_CANCELLED"})
        THEN "PARTIALLY_FILLED_CANCELLED"
      ELSE IF some({"REJECTED", "FAILED_BEFORE_SEND", "SEQUENCE_ABORTED"}) THEN "FAILED"
      ELSE IF some({"WORKING", "PARTIALLY_FILLED", "SEND_RETURNED"}) THEN "ACTIVE"
      ELSE "QUEUED"

(* Mutant: any end of an order at the broker releases the next. *)
ReleasesAfterCancel(status) ==
  status \in {"FILLED", "PARTIALLY_FILLED_CANCELLED", "CANCELLED", "OBSERVED"}

(* The statuses of a child that let the next child go. *)
Releases(status) == status \in {"FILLED", "OBSERVED"}

(* Mutant: the abort is not restricted to rows that are still blocked. *)
AdvanceAbortsAll(rows, c, status, aborted) ==
  LET from(S, old, to) == [k \in Child |-> IF k \in S /\ rows[k] \in old THEN to ELSE rows[k]]
  IN  IF status \notin TerminalOrderStates \/ c = N THEN rows
      ELSE IF Releases(status) THEN from({c + 1}, {"BLOCKED_SEQUENCE"}, "PENDING_DELIVERY")
      ELSE from((c + 1)..N, CommandStatus \cup ChildStatus, "SEQUENCE_ABORTED")

(* _advance_sequence on one of the tables: once child c is in a terminal   *)
(* status and has a successor, that is released or the blocked rows of     *)
(* "aborted" are aborted.                                                  *)
Advance(rows, c, status, aborted) ==
  LET from(S, to) ==
        [k \in Child |-> IF k \in S /\ rows[k] = "BLOCKED_SEQUENCE" THEN to ELSE rows[k]]
  IN  IF status \notin TerminalOrderStates \/ c = N THEN rows
      ELSE IF Releases(status) THEN from({c + 1}, "PENDING_DELIVERY")
      ELSE from(aborted, "SEQUENCE_ABORTED")

(* Mutant: the intent is aggregated before the sequence advances. *)
RecordStatusStale(c, status, commandRows) ==
  /\ child' = Advance([child EXCEPT ![c] = status], c, status, (c + 1)..N)
  /\ command' = Advance(commandRows, c, status, Child)
  /\ intent' = Aggregate([child EXCEPT ![c] = status])

(* What _command_ack and _order_event do to the rows, given the child's    *)
(* new status and the command rows after the ack: the new status replaces  *)
(* the old one whatever that was, the sequence advances, and the intent is *)
(* aggregated from the result. The child rows aborted are the later ones,  *)
(* the command rows any of the intent's.                                   *)
RecordStatus(c, status, commandRows) ==
  /\ child' = Advance([child EXCEPT ![c] = status], c, status, (c + 1)..N)
  /\ command' = Advance(commandRows, c, status, Child)
  /\ intent' = Aggregate(child')

(* _command_ack's mapping of the Adapter's statuses. *)
StatusOfAck(status) ==
  CASE status = "OBSERVE_ONLY_ACKNOWLEDGED" -> "OBSERVED"
    [] status = "ADAPTER_REJECTED" -> "REJECTED"
    [] OTHER -> status

(* The oldest acknowledgement is ingested and archived. *)
IngestCommandAck ==
  /\ acks # <<>>
  /\ LET ack == Head(acks)
     IN  RecordStatus(ack.child, StatusOfAck(ack.status),
                      [command EXCEPT ![ack.child] = ack.status])
  /\ acks' = Tail(acks)
  /\ UNCHANGED <<mode, expired, dispatchVars, files, events, journal, executorVars,
                 localPause, brokerVars, crashes, ioFaults>>

(* The oldest order or cancel event is ingested and archived. *)
IngestOrderEvent ==
  /\ events # <<>>
  /\ RecordStatus(Head(events).child, Head(events).status, command)
  /\ events' = Tail(events)
  /\ UNCHANGED <<mode, expired, dispatchVars, files, acks, journal, executorVars,
                 localPause, brokerVars, crashes, ioFaults>>

(* reconcile_terminal_evidence, run by build_runtime: by the Worker as it  *)
(* starts, and by every Console, Manager or Doctor command meanwhile.      *)
ReconcileTerminalEvidence ==
  /\ intent # "ABSENT"
  /\ intent' = Aggregate(child)
  /\ UNCHANGED <<mode, expired, child, command, dispatchVars, queueVars, journal,
                 executorVars, localPause, brokerVars, crashes, ioFaults>>

-----------------------------------------------------------------------------
(* dispatch_pending_commands, run by the queue loop and by every RPC that  *)
(* has just queued something. The rows are read outside any transaction;   *)
(* each file is published before its row is updated.                       *)

DispatchScan(d) ==
  /\ batch[d] = {} /\ unmarked[d] = 0
  /\ \E c \in Child : command[c] = "PENDING_DELIVERY"
  /\ batch' = [batch EXCEPT ![d] = {c \in Child : command[c] = "PENDING_DELIVERY"}]
  /\ UNCHANGED <<mode, expired, workerVars, unmarked, queueVars, journal, executorVars,
                 localPause, brokerVars, crashes, ioFaults>>

PublishCommand(d) ==
  /\ unmarked[d] = 0
  /\ \E c \in batch[d] :
       /\ \A k \in batch[d] : c <= k
       /\ files' = [files EXCEPT ![c] = @ + 1]
       /\ batch' = [batch EXCEPT ![d] = @ \ {c}]
       /\ unmarked' = [unmarked EXCEPT ![d] = c]
  /\ UNCHANGED <<mode, expired, workerVars, acks, events, journal, executorVars,
                 localPause, brokerVars, crashes, ioFaults>>

(* Each of the three updates applies only to the status it expects. *)
MarkDelivered(d) ==
  /\ unmarked[d] # 0
  /\ LET move(rows, from, to) ==
           [c \in Child |-> IF c = unmarked[d] /\ rows[c] = from THEN to ELSE rows[c]]
     IN  /\ command' = move(command, "PENDING_DELIVERY", "DELIVERED")
         /\ child' = move(child, "PENDING_DELIVERY", "QUEUED")
  /\ intent' = IF intent = "PERSISTED" THEN "QUEUED" ELSE intent
  /\ unmarked' = [unmarked EXCEPT ![d] = 0]
  /\ UNCHANGED <<mode, expired, batch, queueVars, journal, executorVars, localPause,
                 brokerVars, crashes, ioFaults>>

(* A write of the file or of the row fails: the call ends there. *)
DispatchFails(d) ==
  /\ ioFaults < MaxIoFaults
  /\ batch[d] # {} \/ unmarked[d] # 0
  /\ batch' = [batch EXCEPT ![d] = {}]
  /\ unmarked' = [unmarked EXCEPT ![d] = 0]
  /\ ioFaults' = ioFaults + 1
  /\ UNCHANGED <<mode, expired, workerVars, queueVars, journal, executorVars, localPause,
                 brokerVars, crashes>>

(* The Worker is killed and started again: build_runtime aggregates the    *)
(* intents, and the commands still pending are dispatched by the new loop. *)
WorkerRestart ==
  /\ crashes < MaxCrashes
  /\ crashes' = crashes + 1
  /\ batch' = [d \in Dispatchers |-> {}]
  /\ unmarked' = [d \in Dispatchers |-> 0]
  /\ intent' = IF intent = "ABSENT" THEN intent ELSE Aggregate(child)
  /\ UNCHANGED <<mode, expired, child, command, queueVars, journal, executorVars,
                 localPause, brokerVars, ioFaults>>

-----------------------------------------------------------------------------
(* The Adapter's executor: _process_path, _process_file, _execute_order.   *)
(* The poll lock (or the tick thread) admits one command at a time.        *)

Goto(s, c) == step' = s /\ current' = c

Ack(c, status) == acks' = Append(acks, [child |-> c, status |-> status])

(* Mutant: the pause is written for the wrong mode. *)
PauseManualLocally == localPause' = (localPause \/ mode = "MANUAL_LIVE")

(* _pause_auto_locally acts on limited-auto commands only. *)
PauseAutoLocally == localPause' = (localPause \/ mode = "LIMITED_AUTO")

(* Mutant: the journal's state is answered as it is. *)
RecordedAnswerRaw(state) == state

(* Mutant: an execution that did not finish is answered as not sent. *)
RecordedAnswerUnsent(state) == IF state = "PRE_SUBMIT" THEN "FAILED_BEFORE_SEND" ELSE state

(* The answer to a command whose journal already exists. *)
RecordedAnswer(state) == IF state = "PRE_SUBMIT" THEN "SUBMIT_UNKNOWN" ELSE state

(* Mutant: an unfinished execution is tried again. *)
RetryUnfinished(state) == state \notin {"NONE", "PRE_SUBMIT"}

(* The journal is what makes a second copy of a command harmless. *)
AlreadyExecuted(state) == state # "NONE"

(* A copy of c's command is taken up (or found again after a restart), its *)
(* envelope is still valid, and a journal exists: answer from the journal. *)
AnswerFromJournal(c) ==
  /\ step = "IDLE" /\ files[c] > 0
  /\ ~expired
  /\ AlreadyExecuted(journal[c])
  /\ IF journal[c] = "PRE_SUBMIT" THEN PauseAutoLocally ELSE UNCHANGED localPause
  /\ Ack(c, RecordedAnswer(journal[c]))
  /\ Goto("ARCHIVE", c)
  /\ UNCHANGED <<mode, expired, workerVars, dispatchVars, files, events, journal, result,
                 brokerVars, crashes, ioFaults>>

(* No journal, and _final_risk lets the command through. An observe-only   *)
(* command is journalled at once and never submitted.                      *)
PassFinalRisk(c) ==
  /\ step = "IDLE" /\ files[c] > 0
  /\ ~expired
  /\ ~AlreadyExecuted(journal[c])
  /\ IF mode = "OBSERVE_ONLY"
       THEN /\ journal' = [journal EXCEPT ![c] = "OBSERVE_ONLY_ACKNOWLEDGED"]
            /\ Goto("JOURNALED", c)
       ELSE /\ UNCHANGED journal
            /\ Goto("PREPARED", c)
  /\ UNCHANGED <<mode, expired, workerVars, dispatchVars, queueVars, result, localPause,
                 brokerVars, crashes, ioFaults>>

(* The envelope has expired, or there is no journal and _final_risk raises *)
(* (halt, stale quote, authorization, limits, position): nothing else has  *)
(* happened yet.                                                           *)
RefuseCommand(c) ==
  /\ step = "IDLE" /\ files[c] > 0
  /\ expired \/ ~AlreadyExecuted(journal[c])
  /\ Goto("EXCEPTION", c)
  /\ UNCHANGED <<mode, expired, workerVars, dispatchVars, queueVars, journal, result,
                 localPause, brokerVars, crashes, ioFaults>>

WritePreSubmit ==
  /\ step = "PREPARED"
  /\ journal' = [journal EXCEPT ![current] = "PRE_SUBMIT"]
  /\ Goto("PRE_SUBMIT", current)
  /\ UNCHANGED <<mode, expired, workerVars, dispatchVars, queueVars, result, localPause,
                 brokerVars, crashes, ioFaults>>

(* The native call. It returns an order id, or -1 for an order that was    *)
(* not sent, or nothing that can be classified (an exception, None, a      *)
(* boolean, a number below -1): then the broker may have the order or not. *)
MakeOrder ==
  /\ step = "PRE_SUBMIT"
  /\ submitted' = [submitted EXCEPT ![current] = @ + 1]
  /\ \E r \in {"ORDER_ID", "MINUS_ONE", "UNCERTAIN"} :
       /\ result' = r
       /\ \/ r # "MINUS_ONE" /\ broker' = [broker EXCEPT ![current] = "ACCEPTED"]
          \/ r # "ORDER_ID" /\ UNCHANGED broker
  /\ Goto("RETURNED", current)
  /\ UNCHANGED <<mode, expired, workerVars, dispatchVars, queueVars, journal, localPause,
                 crashes, ioFaults>>

(* Mutant: every return that is no order id counts as not sent. *)
ClassifiedAlways(r) == r # "NONE"

(* The return values that tell whether the order was sent. *)
Classified(r) == r \in {"ORDER_ID", "MINUS_ONE"}

(* A classified return value is journalled before it is acknowledged. *)
JournalReturn ==
  /\ step = "RETURNED" /\ Classified(result)
  /\ journal' = [journal EXCEPT ![current] =
                   IF result = "ORDER_ID" THEN "SEND_RETURNED" ELSE "FAILED_BEFORE_SEND"]
  /\ Goto("JOURNALED", current)
  /\ UNCHANGED <<mode, expired, workerVars, dispatchVars, queueVars, result, localPause,
                 brokerVars, crashes, ioFaults>>

(* An uncertain return leaves the journal as it is. *)
ReportUncertain ==
  /\ step = "RETURNED" /\ ~Classified(result)
  /\ PauseAutoLocally
  /\ Ack(current, "SUBMIT_UNKNOWN")
  /\ Goto("ARCHIVE", current)
  /\ UNCHANGED <<mode, expired, workerVars, dispatchVars, files, events, journal, result,
                 brokerVars, crashes, ioFaults>>

AckJournal ==
  /\ step = "JOURNALED"
  /\ Ack(current, journal[current])
  /\ Goto("ARCHIVE", current)
  /\ UNCHANGED <<mode, expired, workerVars, dispatchVars, files, events, journal, result,
                 localPause, brokerVars, crashes, ioFaults>>

(* Writing the journal or the ack of an accepted order fails: the handler  *)
(* treats the order as an uncertain one from here on.                      *)
PostSubmitFailure ==
  /\ ioFaults < MaxIoFaults
  /\ step \in {"RETURNED", "JOURNALED"} /\ result = "ORDER_ID"
  /\ result' = "UNCERTAIN"
  /\ Goto("RETURNED", current)
  /\ ioFaults' = ioFaults + 1
  /\ UNCHANGED <<mode, expired, workerVars, dispatchVars, queueVars, journal, localPause,
                 brokerVars, crashes>>

(* Any other failed read or write of a command is an exception that        *)
(* _process_path catches; one of the move to dead_letter leaves the file.  *)
StorageFailure ==
  /\ ioFaults < MaxIoFaults
  /\ \/ /\ \/ step \in {"PREPARED", "ARCHIVE"}
           \/ step \in {"RETURNED", "JOURNALED"} /\ result # "ORDER_ID"
        /\ Goto("EXCEPTION", current)
        /\ UNCHANGED result
     \/ /\ step = "IDLE"
        /\ \E c \in Child : files[c] > 0 /\ Goto("EXCEPTION", c)
        /\ UNCHANGED result
     \/ /\ step = "DEAD_LETTER"
        /\ Goto("IDLE", 0)
        /\ result' = "NONE"
  /\ ioFaults' = ioFaults + 1
  /\ UNCHANGED <<mode, expired, workerVars, dispatchVars, queueVars, journal, localPause,
                 brokerVars, crashes>>

(* Mutant: every exception is a rejection. *)
ClassifyAsRejected(state) == "ADAPTER_REJECTED"

(* _process_path's classification of an exception by the journal. *)
Classify(state) ==
  CASE state = "NONE" -> "ADAPTER_REJECTED"
    [] state = "PRE_SUBMIT" -> "SUBMIT_UNKNOWN"
    [] OTHER -> state

(* The exception is classified by the journal, a limited-auto permit is    *)
(* paused, and the answer written; a failure of either is swallowed. A     *)
(* journal that cannot be read, in the failure that raised the exception   *)
(* or in another, counts as none.                                          *)
ReportException ==
  /\ step = "EXCEPTION"
  /\ \/ /\ PauseAutoLocally
        /\ Ack(current, Classify(journal[current]))
        /\ UNCHANGED ioFaults
     \/ /\ ioFaults' \in {ioFaults, ioFaults + 1} \cap (1..MaxIoFaults)
        /\ PauseAutoLocally
        /\ Ack(current, Classify("NONE"))
     \/ /\ ioFaults < MaxIoFaults
        /\ ioFaults' = ioFaults + 1
        /\ PauseAutoLocally \/ UNCHANGED localPause
        /\ UNCHANGED acks
  /\ Goto("DEAD_LETTER", current)
  /\ UNCHANGED <<mode, expired, workerVars, dispatchVars, files, events, journal, result,
                 brokerVars, crashes>>

(* The claimed file leaves the folder, for archive or for dead_letter. *)
RetireFile ==
  /\ step \in {"ARCHIVE", "DEAD_LETTER"}
  /\ files' = [files EXCEPT ![current] = @ - 1]
  /\ Goto("IDLE", 0)
  /\ result' = "NONE"
  /\ UNCHANGED <<mode, expired, workerVars, dispatchVars, acks, events, journal,
                 localPause, brokerVars, crashes, ioFaults>>

(* Mutant: a claimed file is not found by the scans after the restart. *)
AdapterRestartForgets ==
  /\ crashes < MaxCrashes
  /\ crashes' = crashes + 1
  /\ files' = IF current = 0 THEN files ELSE [files EXCEPT ![current] = @ - 1]
  /\ Goto("IDLE", 0)
  /\ result' = "NONE"
  /\ UNCHANGED <<mode, expired, workerVars, dispatchVars, acks, events, journal,
                 localPause, brokerVars, ioFaults>>

(* The Adapter is killed and started again. The claimed file keeps its     *)
(* .processing-* name and is found by the next scan.                       *)
AdapterRestart ==
  /\ crashes < MaxCrashes
  /\ crashes' = crashes + 1
  /\ Goto("IDLE", 0)
  /\ result' = "NONE"
  /\ UNCHANGED <<mode, expired, workerVars, dispatchVars, queueVars, journal, localPause,
                 brokerVars, ioFaults>>

-----------------------------------------------------------------------------
(* The broker and time.                                                    *)

BrokerNext(state) ==
  CASE state = "ACCEPTED" -> {"QUEUED", "WORKING", "FILLED", "CANCELLED", "REJECTED"}
    [] state \in {"QUEUED", "WORKING"} -> {"PARTIALLY_FILLED", "FILLED", "CANCELLED"}
    [] state = "PARTIALLY_FILLED" -> {"FILLED", "PARTIALLY_FILLED_CANCELLED"}
    [] OTHER -> {}

(* _normalized_order_status *)
Normalize(state) == IF state \in StatusMap THEN state ELSE "UNKNOWN_BROKER_STATUS"

(* The statuses the callbacks of one change report, in the order they      *)
(* come: on_order's normalized one and, for a cancel, on_cancel's, which   *)
(* is CANCELLED however much had been filled.                              *)
Callbacks(state) ==
  LET onOrder == Normalize(state)
  IN  IF state \in {"CANCELLED", "PARTIALLY_FILLED_CANCELLED"}
        THEN {<<onOrder, "CANCELLED">>, <<"CANCELLED", onOrder>>}
        ELSE {<<onOrder>>}

(* The broker changes the order; the callbacks write their events, or the  *)
(* client is closed, or the write fails, and the change is never reported. *)
BrokerUpdate(c) ==
  /\ \E state \in BrokerNext(broker[c]) :
       /\ broker' = [broker EXCEPT ![c] = state]
       /\ \/ /\ \E report \in Callbacks(state) :
                  events' = events \o [i \in DOMAIN report |-> [child |-> c, status |-> report[i]]]
             /\ UNCHANGED ioFaults
          \/ /\ ioFaults < MaxIoFaults
             /\ ioFaults' = ioFaults + 1
             /\ UNCHANGED events
  /\ UNCHANGED <<mode, expired, workerVars, dispatchVars, files, acks, journal,
                 executorVars, localPause, submitted, crashes>>

(* The lifetime the envelopes were signed with runs out. *)
Expire ==
  /\ intent # "ABSENT" /\ ~expired
  /\ expired' = TRUE
  /\ UNCHANGED <<mode, workerVars, dispatchVars, queueVars, journal, executorVars,
                 localPause, brokerVars, crashes, ioFaults>>

-----------------------------------------------------------------------------

Dispatch(d) == DispatchScan(d) \/ PublishCommand(d) \/ MarkDelivered(d)

Ingest == IngestCommandAck \/ IngestOrderEvent

TakeUp(c) == AnswerFromJournal(c) \/ PassFinalRisk(c) \/ RefuseCommand(c)

Execute ==
  \/ \E c \in Child : TakeUp(c)
  \/ WritePreSubmit \/ MakeOrder \/ JournalReturn \/ ReportUncertain \/ AckJournal
  \/ ReportException \/ RetireFile

Fault ==
  \/ \E d \in Dispatchers : DispatchFails(d)
  \/ WorkerRestart \/ AdapterRestart \/ PostSubmitFailure \/ StorageFailure

Next ==
  \/ SubmitTradeIntent
  \/ \E d \in Dispatchers : Dispatch(d)
  \/ Ingest
  \/ ReconcileTerminalEvidence
  \/ Execute
  \/ Fault
  \/ \E c \in Child : BrokerUpdate(c)
  \/ Expire

Spec == Init /\ [][Next]_vars

(* The queue loop of the Worker and the background loop of the Adapter run *)
(* for ever, and a thread that has begun to deliver a batch ends it.       *)
(* Nothing else is obliged to happen: not the broker's moves, no RPC.      *)
Fairness ==
  /\ WF_vars(\E d \in Dispatchers : DispatchScan(d))
  /\ \A d \in Dispatchers : WF_vars(PublishCommand(d) \/ MarkDelivered(d))
  /\ WF_vars(IngestCommandAck) /\ WF_vars(IngestOrderEvent)
  /\ WF_vars(Execute)

FairSpec == Spec /\ Fairness

-----------------------------------------------------------------------------
(* What must hold.                                                         *)

(* The broker's order entry is called at most once for a child order,      *)
(* however often its command is delivered, its executor is killed, or its  *)
(* answer is lost (the execution journal of _execute_order).               *)
AtMostOneSubmission == \A c \in Child : submitted[c] <= 1

(* A later leg reaches the order entry only when the broker has completely *)
(* filled every earlier one (BLOCKED_SEQUENCE and _advance_sequence).      *)
SequenceRespected ==
  \A c, k \in Child : submitted[c] > 0 /\ k < c => broker[k] = "FILLED"

(* An order the broker has is never journalled as not sent: what a restart *)
(* or a duplicate answers from the journal can be trusted.                 *)
JournalNeverDeniesOrder ==
  \A c \in Child : broker[c] # "NONE" => journal[c] \in {"PRE_SUBMIT", "SEND_RETURNED"}

(* An aborted leg is aborted in both tables, and neither a thread that is  *)
(* delivering nor the folder nor the Adapter still has its command.        *)
AbortIsFinal ==
  \A c \in Child :
    /\ child[c] = "SEQUENCE_ABORTED" <=> command[c] = "SEQUENCE_ABORTED"
    /\ command[c] = "SEQUENCE_ABORTED" =>
         /\ files[c] = 0 /\ current # c
         /\ \A d \in Dispatchers : c \notin batch[d] /\ unmarked[d] # c
         /\ journal[c] = "NONE" /\ submitted[c] = 0

(* From its first update on, the intent's status is the aggregate of its   *)
(* children's, so a restart's reconcile_terminal_evidence changes nothing, *)
(* although dispatch_pending_commands writes the two without aggregating.  *)
IntentAgreesWithChildren ==
  intent \notin {"ABSENT", "PERSISTED"} => intent = Aggregate(child)

(* Once every answer and event is ingested, a child whose order the broker *)
(* has is not taken for one that is yet to be sent, was refused or failed; *)
(* without failed reads and writes, and whatever was killed meanwhile.     *)
OrdersAreAccountedFor ==
  /\ ioFaults = 0 /\ acks = <<>> /\ events = <<>>
  /\ step = "IDLE" /\ \A c \in Child : files[c] = 0
  => \A c \in Child : broker[c] # "NONE" =>
       /\ command[c] \in {"SEND_RETURNED", "SUBMIT_UNKNOWN"}
       /\ child[c] \in EventStatus \cup {"SEND_RETURNED", "SUBMIT_UNKNOWN"}

(* A limited-auto order of unknown outcome is known to the Worker, or on   *)
(* its way there, only after the Adapter has paused the permit.            *)
UnknownPausesAuto ==
  mode = "LIMITED_AUTO" /\ ~localPause =>
    /\ \A c \in Child : command[c] # "SUBMIT_UNKNOWN"
    /\ \A i \in DOMAIN acks : acks[i].status # "SUBMIT_UNKNOWN"

(* What the Worker reports of an order's end is true of the order at the   *)
(* broker: filled, ended by a cancel, sent, or never sent; and so is the   *)
(* status it aggregates for the intent (_aggregate_intent). Late, repeated *)
(* and overtaking acks and events make a row old, but never a lie of these *)
(* kinds.                                                                  *)
ReportsAreTrue ==
  LET cancelled == {"CANCELLED", "PARTIALLY_FILLED_CANCELLED"}
  IN  /\ \A c \in Child :
           /\ child[c] = "FILLED" => broker[c] = "FILLED"
           /\ child[c] \in cancelled => broker[c] \in cancelled
           /\ child[c] = "SEND_RETURNED" => broker[c] # "NONE"
           /\ child[c] = "FAILED_BEFORE_SEND" => broker[c] = "NONE"
      /\ intent = "FILLED" => \A c \in Child : broker[c] = "FILLED"
      /\ intent \in cancelled => \A c \in Child : broker[c] \in cancelled \cup {"FILLED"}
      /\ intent = "OBSERVED" => \A c \in Child : submitted[c] = 0

(* Worker, queue and Adapter together keep the promise of SequencedOrders. *)
Abstract == INSTANCE SequencedOrders
              WITH attempts <- submitted, filled <- {c \in Child : broker[c] = "FILLED"}

ImplementsSequencedOrders == Abstract!Spec

(* What the executor's steps assume of the Adapter is what AdapterDispatch *)
(* shows of its threads.                                                   *)
Executor == INSTANCE OrderExecutor
              WITH Orders <- Child,
                   current <- IF current = 0 THEN {} ELSE {current},
                   ready <- step = "PRE_SUBMIT",
                   journal <- {c \in Child : journal[c] # "NONE"},
                   called <- submitted

(* The executor of the pipeline is an OrderExecutor, whatever is killed,   *)
(* delivered twice or fails to be written.                                 *)
ImplementsOrderExecutor == Executor!Spec

(* A command that may be delivered is eventually answered, whichever       *)
(* process is killed, however late it is taken up; assuming no failed      *)
(* write (an answer whose write fails is lost for good).                   *)
EveryCommandAnswered ==
  \A c \in Child :
    command[c] = "PENDING_DELIVERY" ~> command[c] \notin {"PENDING_DELIVERY", "DELIVERED"}

-----------------------------------------------------------------------------
(* What the design says and the code does not do.                          *)

(* FILLED is a terminal state of a child order: no later report replaces   *)
(* it. _command_ack and _order_event write whatever status arrives.        *)
FilledIsFinal == [][\A c \in Child : child[c] = "FILLED" => child'[c] = "FILLED"]_vars

(* Another copy of a command that was answered ADAPTER_REJECTED returns    *)
(* that answer and submits nothing. A refusal leaves no journal, so        *)
(* _execute_order judges the copy anew.                                    *)
RejectedStaysRejected ==
  [][\A c \in Child : command[c] = "ADAPTER_REJECTED" => submitted'[c] = submitted[c]]_vars

=============================================================================
