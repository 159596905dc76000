--------------------------- MODULE OrderStatus_proofs ---------------------------
(***************************************************************************)
(* Proofs about what the rows of OrderPipeline say: that the intent agrees *)
(* with its children, that an uncertain submission is told only behind the *)
(* pause, that every order at the broker is accounted for, that what is    *)
(* reported is true, and that neither a command nor a leg is forgotten.    *)
(***************************************************************************)
EXTENDS OrderPipeline_proofs

-----------------------------------------------------------------------------
(* The aggregate.                                                          *)

(* An intent that is only persisted has children nobody has written since, *)
(* and the first update of a delivery gives it the status they aggregate to*)
AggregateInv ==
  /\ intent = "PERSISTED" => \A c \in Child : child[c] \in {"PENDING_DELIVERY", "BLOCKED_SEQUENCE"}
  /\ IntentAgreesWithChildren

LEMMA QueuedAggregate ==
  ASSUME NEW ch,
         \A c \in Child : ch[c] \in {"PENDING_DELIVERY", "BLOCKED_SEQUENCE", "QUEUED"}
  PROVE  Aggregate(ch) = "QUEUED"
<1>1. 1 \in Child BY NAssumption DEF Child
<1> QED BY <1>1 DEF Aggregate

(* A delivery moves a child between two statuses the aggregate does not    *)
(* tell apart.                                                             *)
LEMMA DeliveryKeepsAggregate ==
  ASSUME NEW ch, NEW to,
         \A c \in Child : to[c] = ch[c] \/ (ch[c] = "PENDING_DELIVERY" /\ to[c] = "QUEUED")
  PROVE  Aggregate(to) = Aggregate(ch)
<1>1. ASSUME NEW S, "PENDING_DELIVERY" \notin S, "QUEUED" \notin S
      PROVE  /\ (\A c \in Child : to[c] \in S) <=> (\A c \in Child : ch[c] \in S)
             /\ (\E c \in Child : to[c] \in S) <=> (\E c \in Child : ch[c] \in S)
  BY <1>1
<1> HIDE DEF Child
<1> QED
  <2>1. \A c \in Child : to[c] \in {"SUBMIT_UNKNOWN"} <=> ch[c] \in {"SUBMIT_UNKNOWN"} OBVIOUS
  <2>2. \A c \in Child : to[c] \in {"OBSERVED"} <=> ch[c] \in {"OBSERVED"} OBVIOUS
  <2>3. \A c \in Child : to[c] \in {"FILLED", "OBSERVED"} <=> ch[c] \in {"FILLED", "OBSERVED"} OBVIOUS
  <2>4. \A c \in Child : to[c] \in {"CANCELLED"} <=> ch[c] \in {"CANCELLED"} OBVIOUS
  <2>5. \A c \in Child : to[c] \in {"FILLED", "CANCELLED", "PARTIALLY_FILLED_CANCELLED"}
                           <=> ch[c] \in {"FILLED", "CANCELLED", "PARTIALLY_FILLED_CANCELLED"} OBVIOUS
  <2>6. \A c \in Child : to[c] \in {"REJECTED", "FAILED_BEFORE_SEND", "SEQUENCE_ABORTED"}
                           <=> ch[c] \in {"REJECTED", "FAILED_BEFORE_SEND", "SEQUENCE_ABORTED"} OBVIOUS
  <2>7. \A c \in Child : to[c] \in {"WORKING", "PARTIALLY_FILLED", "SEND_RETURNED"}
                           <=> ch[c] \in {"WORKING", "PARTIALLY_FILLED", "SEND_RETURNED"} OBVIOUS
  <2> QED BY <2>1, <2>2, <2>3, <2>4, <2>5, <2>6, <2>7 DEF Aggregate

LEMMA AggregateStep ==
  ASSUME TypeOK, AggregateInv, [Next]_vars
  PROVE  AggregateInv'
<1> USE DEF AggregateInv, IntentAgreesWithChildren
<1>1. CASE UNCHANGED <<intent, child>>
  BY <1>1
<1>2. CASE SubmitTradeIntent
  BY <1>2 DEF SubmitTradeIntent
<1>3. CASE Ingest
  <2>1. intent' = Aggregate(child') BY <1>3 DEF Ingest, IngestCommandAck, IngestOrderEvent, RecordStatus
  <2>2. intent' # "PERSISTED" BY <2>1 DEF Aggregate
  <2> QED BY <2>1, <2>2
<1>4. CASE ReconcileTerminalEvidence \/ WorkerRestart
  <2>1. child' = child /\ (intent' = Aggregate(child) \/ intent' = intent)
    BY <1>4 DEF ReconcileTerminalEvidence, WorkerRestart
  <2>2. Aggregate(child) # "PERSISTED" BY DEF Aggregate
  <2> QED BY <2>1, <2>2
<1>5. ASSUME NEW d \in Dispatchers, MarkDelivered(d) PROVE AggregateInv'
  <2>1. /\ intent' = IF intent = "PERSISTED" THEN "QUEUED" ELSE intent
        /\ \A c \in Child : \/ child'[c] = child[c]
                            \/ child[c] = "PENDING_DELIVERY" /\ child'[c] = "QUEUED"
    BY <1>5 DEF MarkDelivered
  <2>2. Aggregate(child') = Aggregate(child) BY <2>1, DeliveryKeepsAggregate
  <2>3. CASE intent = "PERSISTED"
    <3>1. \A c \in Child : child'[c] \in {"PENDING_DELIVERY", "BLOCKED_SEQUENCE", "QUEUED"}
      BY <2>1, <2>3
    <3> QED BY <2>1, <2>3, <3>1, QueuedAggregate
  <2>4. CASE intent # "PERSISTED"
    BY <2>1, <2>2, <2>4
  <2> QED BY <2>3, <2>4
<1> QED
  BY <1>1, <1>2, <1>3, <1>4, <1>5
     DEF Next, vars, workerVars, Dispatch, DispatchScan, PublishCommand, Execute, TakeUp,
         AnswerFromJournal, PassFinalRisk, RefuseCommand, WritePreSubmit, MakeOrder,
         JournalReturn, ReportUncertain, AckJournal, ReportException, RetireFile, Fault,
         DispatchFails, AdapterRestart, PostSubmitFailure, StorageFailure, BrokerUpdate, Expire

(* The status of an intent is what its children aggregate to, although     *)
(* deliveries write both without aggregating (_aggregate_intent).          *)
THEOREM AgreesWithChildren == Spec => []IntentAgreesWithChildren
<1>1. Init => AggregateInv BY DEF Init, AggregateInv, IntentAgreesWithChildren
<1>2. TypeOK /\ AggregateInv /\ [Next]_vars => AggregateInv' BY AggregateStep
<1>3. AggregateInv => IntentAgreesWithChildren BY DEF AggregateInv
<1> QED BY <1>1, <1>2, <1>3, TypeCorrect, PTL DEF Spec

-----------------------------------------------------------------------------
(* The pause.                                                              *)

LEMMA PauseMessages ==
  ASSUME NEW s, NEW status
  PROVE  (\A i \in DOMAIN s : s[i].status # status) <=> (\A m \in Messages(s) : m.status # status)
BY DEF Messages

(* An answer appended to the acks is not SUBMIT_UNKNOWN unless the permit  *)
(* is paused.                                                              *)
LEMMA AckPaused ==
  ASSUME TypeOK, UnknownPausesAuto, NEW c \in Child, NEW status \in AckStatus,
         Ack(c, status), status = "SUBMIT_UNKNOWN" => mode # "LIMITED_AUTO" \/ localPause',
         UNCHANGED <<mode, command>>, localPause => localPause'
  PROVE  UnknownPausesAuto'
<1>1. acks \in Seq(AckMessage) /\ [child |-> c, status |-> status] \in AckMessage
  BY DEF TypeOK, AckMessage
<1>2. Messages(acks') = Messages(acks) \cup {[child |-> c, status |-> status]}
  BY <1>1, AppendMessages DEF Ack
<1>3. ASSUME mode = "LIMITED_AUTO", ~localPause'
      PROVE  /\ \A k \in Child : command'[k] # "SUBMIT_UNKNOWN"
             /\ \A m \in Messages(acks') : m.status # "SUBMIT_UNKNOWN"
  <2>1. ~localPause /\ status # "SUBMIT_UNKNOWN" BY <1>3
  <2>2. \A i \in DOMAIN acks : acks[i].status # "SUBMIT_UNKNOWN" BY <1>3, <2>1 DEF UnknownPausesAuto
  <2>3. \A m \in Messages(acks) : m.status # "SUBMIT_UNKNOWN" BY <2>2 DEF Messages
  <2> QED BY <1>2, <1>3, <2>1, <2>3 DEF UnknownPausesAuto
<1>4. mode' = mode OBVIOUS
<1> QED BY <1>3, <1>4 DEF UnknownPausesAuto, Messages

(* What may set the pause never takes it back. *)
LEMMA PauseKept ==
  ASSUME PauseAutoLocally
  PROVE  /\ localPause => localPause'
         /\ mode = "LIMITED_AUTO" => localPause'
BY Zenon DEF PauseAutoLocally

LEMMA PauseStep ==
  ASSUME TypeOK, ExecutorOK, UnknownPausesAuto, [Next]_vars
  PROVE  UnknownPausesAuto'
<1>0. /\ step # "IDLE" => current \in Child
      /\ \A state \in JournalState : state # "SUBMIT_UNKNOWN"
  BY NAssumption DEF Child, TypeOK, JournalState
<1>1. CASE UNCHANGED <<mode, command, acks>> /\ (localPause => localPause')
  BY <1>1 DEF UnknownPausesAuto
<1>2. CASE SubmitTradeIntent
  BY <1>2 DEF SubmitTradeIntent, UnknownPausesAuto, queueVars
<1>3. CASE Ingest
  <2>1. ASSUME NEW c \in Child, NEW status, NEW rows \in [Child -> CommandStatus],
               \A k \in Child : rows[k] # "SUBMIT_UNKNOWN", RecordStatus(c, status, rows)
        PROVE  \A k \in Child : command'[k] # "SUBMIT_UNKNOWN"
    BY <2>1, AdvanceRow DEF RecordStatus
  <2>2. CASE IngestOrderEvent
    <3>1. events \in Seq(EventMessage) /\ events # <<>> BY <2>2 DEF IngestOrderEvent, TypeOK, EventMessage
    <3>2. Head(events) \in EventMessage BY <3>1, TailMessages
    <3>3. Head(events).child \in Child BY <3>2 DEF EventMessage
    <3>4. RecordStatus(Head(events).child, Head(events).status, command) /\ command \in [Child -> CommandStatus]
          /\ UNCHANGED <<mode, localPause, acks>>
      BY <2>2 DEF IngestOrderEvent, TypeOK
    <3> QED BY <2>1, <3>3, <3>4 DEF UnknownPausesAuto
  <2>3. CASE IngestCommandAck
    <3>1. acks \in Seq(AckMessage) /\ acks # <<>> BY <2>3 DEF IngestCommandAck, TypeOK, AckMessage
    <3>2. /\ Head(acks) \in AckMessage /\ Head(acks) \in Messages(acks)
          /\ Messages(acks') \subseteq Messages(acks)
      BY <2>3, <3>1, TailMessages DEF IngestCommandAck
    <3>3. ASSUME mode = "LIMITED_AUTO", ~localPause
          PROVE  /\ \A k \in Child : command'[k] # "SUBMIT_UNKNOWN"
                 /\ \A m \in Messages(acks') : m.status # "SUBMIT_UNKNOWN"
      <4>1. /\ \A m \in Messages(acks) : m.status # "SUBMIT_UNKNOWN"
            /\ \A k \in Child : command[k] # "SUBMIT_UNKNOWN"
        BY <3>3, PauseMessages DEF UnknownPausesAuto
      <4>2. [command EXCEPT ![Head(acks).child] = Head(acks).status] \in [Child -> CommandStatus]
        BY <3>2 DEF TypeOK, AckMessage, CommandStatus
      <4>3. \A k \in Child : [command EXCEPT ![Head(acks).child] = Head(acks).status][k] # "SUBMIT_UNKNOWN"
        BY <3>2, <4>1 DEF TypeOK, AckMessage
      <4>4. Head(acks).child \in Child BY <3>2 DEF AckMessage
      <4>5. RecordStatus(Head(acks).child, StatusOfAck(Head(acks).status),
                         [command EXCEPT ![Head(acks).child] = Head(acks).status])
        BY <2>3 DEF IngestCommandAck
      <4>6. \A k \in Child : command'[k] # "SUBMIT_UNKNOWN"
        BY <2>1, <4>2, <4>3, <4>4, <4>5
      <4> QED BY <3>2, <4>1, <4>6
    <3> QED BY <2>3, <3>3, PauseMessages DEF IngestCommandAck, UnknownPausesAuto
  <2> QED BY <1>3, <2>2, <2>3 DEF Ingest
<1>4. ASSUME NEW d \in Dispatchers, MarkDelivered(d) PROVE UnknownPausesAuto'
  BY <1>4 DEF MarkDelivered, UnknownPausesAuto, TypeOK, queueVars
<1>5. ASSUME NEW c \in Child, AnswerFromJournal(c) PROVE UnknownPausesAuto'
  <2>1. /\ journal[c] \in JournalState \ {"NONE"}
        /\ RecordedAnswer(journal[c]) = "SUBMIT_UNKNOWN" => journal[c] = "PRE_SUBMIT"
    BY <1>0, <1>5 DEF AnswerFromJournal, AlreadyExecuted, RecordedAnswer, TypeOK
  <2>2. RecordedAnswer(journal[c]) \in AckStatus BY <2>1, AnswerType
  <2>3. CASE journal[c] = "PRE_SUBMIT"
    BY <1>5, <2>2, <2>3, AckPaused, PauseKept DEF AnswerFromJournal, workerVars
  <2>4. CASE journal[c] # "PRE_SUBMIT"
    BY <1>5, <2>1, <2>2, <2>4, AckPaused DEF AnswerFromJournal, workerVars
  <2> QED BY <2>3, <2>4
<1>6. CASE ReportUncertain
  <2>1. "SUBMIT_UNKNOWN" \in AckStatus BY DEF AckStatus
  <2> QED BY <1>0, <1>6, <2>1, AckPaused, PauseKept DEF ReportUncertain, workerVars
<1>7. CASE AckJournal
  <2>1. current \in Child /\ journal[current] \in AckStatus /\ journal[current] # "SUBMIT_UNKNOWN"
    BY <1>0, <1>7 DEF AckJournal, ExecutorOK, TypeOK
  <2> QED BY <1>7, <2>1, AckPaused DEF AckJournal, workerVars
<1>8. CASE ReportException
  <2>1. CASE UNCHANGED acks
    <3>1. UNCHANGED <<mode, command>> /\ (PauseAutoLocally \/ UNCHANGED localPause)
      BY <1>8 DEF ReportException, workerVars
    <3>2. localPause => localPause' BY <3>1, PauseKept
    <3> QED BY <1>1, <2>1, <3>1, <3>2
  <2>2. ASSUME NEW state \in {journal[current], "NONE"},
               PauseAutoLocally /\ Ack(current, Classify(state))
        PROVE  UnknownPausesAuto'
    <3>1. current \in Child /\ Classify(state) \in AckStatus
      BY <1>0, <1>8, AnswerType DEF ReportException, TypeOK
    <3> QED BY <1>8, <2>2, <3>1, AckPaused, PauseKept DEF ReportException, workerVars
  <2> QED BY <1>8, <2>1, <2>2 DEF ReportException
<1> QED
  BY <1>1, <1>2, <1>3, <1>4, <1>5, <1>6, <1>7, <1>8
     DEF Next, vars, workerVars, queueVars, Dispatch, DispatchScan, PublishCommand,
         ReconcileTerminalEvidence, Execute, TakeUp, PassFinalRisk, RefuseCommand, WritePreSubmit,
         MakeOrder, JournalReturn, RetireFile, Fault, DispatchFails, WorkerRestart,
         AdapterRestart, PostSubmitFailure, StorageFailure, BrokerUpdate, Expire

(* No SUBMIT_UNKNOWN of a limited-auto order is told before the Adapter    *)
(* has paused the permit (_pause_auto_locally).                            *)
THEOREM UnknownPauses == Spec => []UnknownPausesAuto
<1>1. Init => UnknownPausesAuto BY DEF Init, UnknownPausesAuto
<1>2. TypeOK /\ ExecutorOK /\ UnknownPausesAuto /\ [Next]_vars => UnknownPausesAuto'
  BY PauseStep
<1>3. Spec => [](TypeOK /\ ExecutorOK)
  <2>1. IInv => TypeOK /\ ExecutorOK BY DEF IInv
  <2> QED BY <2>1, Inductive, PTL
<1> QED BY <1>1, <1>2, <1>3, PTL DEF Spec

-----------------------------------------------------------------------------
(* The accounts.                                                           *)

(* What the Worker may be told of an order the broker has. *)
Known == {"SEND_RETURNED", "SUBMIT_UNKNOWN"}

(* The file of c's command has still to be answered. *)
Owed(c) == files[c] > 0 /\ (current = c /\ step \in {"ARCHIVE", "DEAD_LETTER"} => files[c] > 1)

(* The last word about c, ingested or in the folder, is that it is known.  *)
Told(c) ==
  \/ /\ command[c] \in Known
     /\ \A i \in DOMAIN acks : acks[i].child = c => acks[i].status \in Known
  \/ \E i \in DOMAIN acks :
       /\ acks[i].child = c
       /\ \A j \in DOMAIN acks : i <= j /\ acks[j].child = c => acks[j].status \in Known

Shown == \A c \in Child : command[c] \in Known => child[c] \in EventStatus \cup Known

Accounts == ioFaults = 0 => \A c \in Child : broker[c] # "NONE" => Owed(c) \/ Told(c)

(* An answer that says known is the last word about its child; it does not *)
(* touch what was said of another one.                                     *)
LEMMA ToldAppend ==
  ASSUME acks \in Seq(AckMessage), NEW k \in Child, NEW status \in AckStatus, Ack(k, status),
         NEW c \in Child, command'[c] = command[c]
  PROVE  /\ k = c /\ status \in Known => Told(c)'
         /\ k # c /\ Told(c) => Told(c)'
<1> DEFINE m == [child |-> k, status |-> status]
           n == Len(acks)
<1>1. m \in AckMessage BY DEF AckMessage
<1>2. /\ n \in Nat /\ DOMAIN acks = 1..n /\ DOMAIN acks' = 1..(n + 1)
      /\ \A i \in 1..n : acks'[i] = acks[i]
      /\ acks'[n + 1] = m
  BY <1>1, AppendProperties, LenProperties DEF Ack
<1>3. m.child = k /\ m.status = status OBVIOUS
<1> HIDE DEF m, n
<1>4. ASSUME k = c, status \in Known PROVE Told(c)'
  <2>1. n + 1 \in DOMAIN acks' /\ acks'[n + 1].child = c BY <1>2, <1>3, <1>4
  <2>2. \A j \in DOMAIN acks' : n + 1 <= j /\ acks'[j].child = c => acks'[j].status \in Known
    BY <1>2, <1>3, <1>4
  <2> QED BY <2>1, <2>2 DEF Told
<1>5. ASSUME k # c, Told(c) PROVE Told(c)'
  <2>1. CASE command[c] \in Known /\ \A i \in DOMAIN acks : acks[i].child = c => acks[i].status \in Known
    <3>1. \A i \in DOMAIN acks' : acks'[i].child = c => acks'[i].status \in Known
      BY <1>2, <1>3, <1>5, <2>1
    <3> QED BY <2>1, <3>1 DEF Told
  <2>2. ASSUME NEW i \in DOMAIN acks, acks[i].child = c,
               \A j \in DOMAIN acks : i <= j /\ acks[j].child = c => acks[j].status \in Known
        PROVE  Told(c)'
    <3>1. i \in DOMAIN acks' /\ acks'[i].child = c BY <1>2, <2>2
    <3>2. \A j \in DOMAIN acks' : i <= j /\ acks'[j].child = c => acks'[j].status \in Known
      BY <1>2, <1>3, <1>5, <2>2
    <3> QED BY <3>1, <3>2 DEF Told
  <2> QED BY <1>5, <2>1, <2>2 DEF Told
<1> QED BY <1>4, <1>5

(* Ingesting the oldest answer keeps the last word. *)
LEMMA ToldTail ==
  ASSUME acks \in Seq(AckMessage), acks # <<>>, acks' = Tail(acks), NEW c \in Child,
         Head(acks).child = c => (Head(acks).status \in Known => command'[c] \in Known),
         Head(acks).child # c => (command[c] \in Known => command'[c] \in Known),
         Told(c)
  PROVE  Told(c)'
<1>1. /\ Len(acks) \in Nat \ {0} /\ Head(acks) = acks[1] /\ DOMAIN acks = 1..Len(acks)
      /\ DOMAIN acks' = 1..(Len(acks) - 1)
      /\ \A i \in 1..(Len(acks) - 1) : acks'[i] = acks[i + 1]
  BY HeadTailProperties, EmptySeq, LenProperties
<1>2. CASE command[c] \in Known /\ \A i \in DOMAIN acks : acks[i].child = c => acks[i].status \in Known
  <2>1. \A i \in DOMAIN acks' : acks'[i].child = c => acks'[i].status \in Known BY <1>1, <1>2
  <2>2. command'[c] \in Known BY <1>1, <1>2
  <2> QED BY <2>1, <2>2 DEF Told
<1>3. ASSUME NEW i \in DOMAIN acks, acks[i].child = c,
             \A j \in DOMAIN acks : i <= j /\ acks[j].child = c => acks[j].status \in Known
      PROVE  Told(c)'
  <2>1. CASE i = 1
    <3>1. \A j \in DOMAIN acks' : acks'[j].child = c => acks'[j].status \in Known
      <4> SUFFICES ASSUME NEW j \in DOMAIN acks', acks'[j].child = c PROVE acks'[j].status \in Known
        OBVIOUS
      <4>1. j + 1 \in DOMAIN acks /\ acks'[j] = acks[j + 1] /\ i <= j + 1 BY <1>1, <2>1
      <4> QED BY <1>3, <4>1
    <3>2. acks[1].status \in Known BY <1>1, <1>3, <2>1
    <3>3. command'[c] \in Known BY <1>1, <1>3, <2>1, <3>2
    <3> QED BY <3>1, <3>3 DEF Told
  <2>2. CASE i # 1
    <3>1. i - 1 \in DOMAIN acks' /\ acks'[i - 1] = acks[i] BY <1>1, <2>2
    <3>2. \A j \in DOMAIN acks' : i - 1 <= j /\ acks'[j].child = c => acks'[j].status \in Known
      <4> SUFFICES ASSUME NEW j \in DOMAIN acks', i - 1 <= j, acks'[j].child = c
                   PROVE  acks'[j].status \in Known
        OBVIOUS
      <4>1. j + 1 \in DOMAIN acks /\ acks'[j] = acks[j + 1] /\ i <= j + 1 BY <1>1
      <4> QED BY <1>3, <4>1
    <3> QED BY <1>3, <3>1, <3>2 DEF Told
  <2> QED BY <2>1, <2>2
<1> QED BY <1>2, <1>3 DEF Told

(* What an answer from the journal says of an order the broker has. *)
LEMMA AnswersKnown ==
  /\ \A state \in {"PRE_SUBMIT", "SEND_RETURNED"} :
       RecordedAnswer(state) \in Known /\ Classify(state) \in Known
  /\ "SUBMIT_UNKNOWN" \in Known
BY DEF RecordedAnswer, Classify, Known

(* Advancing the sequence leaves every row alone that is not blocked.      *)
LEMMA AdvanceKeeps ==
  ASSUME NEW rows, NEW c, NEW status, NEW aborted, NEW k \in Child, rows[k] # "BLOCKED_SEQUENCE"
  PROVE  Advance(rows, c, status, aborted)[k] = rows[k]
BY DEF Advance

LEMMA ShownStep ==
  ASSUME TypeOK, ReleaseInv, Shown, [Next]_vars
  PROVE  Shown'
<1>1. CASE UNCHANGED <<child, command>>
  BY <1>1 DEF Shown
<1>2. CASE SubmitTradeIntent
  BY <1>2 DEF SubmitTradeIntent, Shown, Known
<1>3. ASSUME NEW c \in Child, NEW status \in ChildStatus, NEW rows \in [Child -> CommandStatus],
             RecordStatus(c, status, rows), \A k \in Child : k # c => rows[k] = command[k],
             rows[c] \in Known => status \in EventStatus \cup Known
      PROVE  Shown'
  <2> DEFINE childRows == [child EXCEPT ![c] = status]
             later == (c + 1)..N
  <2>1. childRows \in [Child -> ChildStatus] BY DEF TypeOK
  <2>2. /\ child' = Advance(childRows, c, status, later)
        /\ command' = Advance(rows, c, status, Child)
    BY <1>3 DEF RecordStatus
  <2>3. ASSUME NEW k \in Child
        PROVE  childRows[k] = IF k = c THEN status ELSE child[k]
    BY DEF TypeOK
  <2> HIDE DEF childRows, later
  <2>4. ASSUME NEW k \in Child, childRows[k] # "BLOCKED_SEQUENCE" PROVE child'[k] = childRows[k]
    <3>1. Advance(childRows, c, status, later)[k] = childRows[k] BY <2>4, AdvanceKeeps
    <3> QED BY <2>2, <2>4, <3>1, Zenon
  <2>5. ASSUME NEW k \in Child, command'[k] \in Known PROVE child'[k] \in EventStatus \cup Known
    <3>1. command'[k] = rows[k] /\ rows[k] \in Known
      BY <2>2, <2>5, AdvanceRow DEF Known
    <3>2. childRows[k] \in EventStatus \cup Known
      BY <1>3, <2>3, <3>1 DEF Shown
    <3>3. childRows[k] # "BLOCKED_SEQUENCE" BY <3>2 DEF EventStatus, Known
    <3> QED BY <2>4, <3>2, <3>3
  <2> QED BY <2>5 DEF Shown
<1>4. CASE IngestCommandAck
  <2> DEFINE m == Head(acks)
             rows == [command EXCEPT ![m.child] = m.status]
  <2>1. acks \in Seq(AckMessage) /\ acks # <<>> BY <1>4 DEF IngestCommandAck, TypeOK, AckMessage
  <2>2. m \in AckMessage BY <2>1, TailMessages
  <2>3. RecordStatus(m.child, StatusOfAck(m.status), rows) BY <1>4 DEF IngestCommandAck
  <2> HIDE DEF m
  <2>4. /\ m.child \in Child /\ m.status \in CommandStatus /\ m.status \in AckStatus
        /\ StatusOfAck(m.status) \in ChildStatus
    BY <2>2 DEF AckMessage, CommandStatus, AckStatus, StatusOfAck, ChildStatus, EventStatus
  <2>5. rows \in [Child -> CommandStatus] /\ rows[m.child] = m.status
        /\ \A k \in Child : k # m.child => rows[k] = command[k]
    BY <2>4 DEF TypeOK
  <2>6. m.status \in Known => StatusOfAck(m.status) \in Known BY DEF StatusOfAck, Known
  <2> HIDE DEF rows
  <2> QED BY <1>3, <2>3, <2>4, <2>5, <2>6
<1>5. CASE IngestOrderEvent
  <2>1. events \in Seq(EventMessage) /\ events # <<>> BY <1>5 DEF IngestOrderEvent, TypeOK, EventMessage
  <2>2. Head(events) \in EventMessage BY <2>1, TailMessages
  <2>3. Head(events).child \in Child /\ Head(events).status \in EventStatus BY <2>2 DEF EventMessage
  <2>4. Head(events).status \in ChildStatus BY <2>3 DEF ChildStatus
  <2>5. RecordStatus(Head(events).child, Head(events).status, command) BY <1>5 DEF IngestOrderEvent
  <2>6. command \in [Child -> CommandStatus] BY DEF TypeOK
  <2> QED BY <1>3, <2>3, <2>4, <2>5, <2>6
<1>6. ASSUME NEW d \in Dispatchers, MarkDelivered(d) PROVE Shown'
  <2> SUFFICES ASSUME NEW c \in Child, command'[c] \in Known PROVE child'[c] \in EventStatus \cup Known
    BY DEF Shown
  <2>1. /\ command'[c] = command[c] \/ command'[c] = "DELIVERED"
        /\ child'[c] = child[c] \/ (child[c] = "PENDING_DELIVERY")
    BY <1>6 DEF MarkDelivered
  <2>2. command[c] \in Known BY <2>1 DEF Known
  <2>3. child[c] \in EventStatus \cup Known BY <2>2 DEF Shown
  <2> QED BY <2>1, <2>3 DEF EventStatus, Known
<1> QED
  BY <1>1, <1>2, <1>4, <1>5, <1>6
     DEF Next, vars, workerVars, Dispatch, DispatchScan, PublishCommand, Ingest,
         ReconcileTerminalEvidence, Execute, TakeUp, AnswerFromJournal, PassFinalRisk,
         RefuseCommand, WritePreSubmit, MakeOrder, JournalReturn, ReportUncertain, AckJournal,
         ReportException, RetireFile, Fault, DispatchFails, WorkerRestart, AdapterRestart,
         PostSubmitFailure, StorageFailure, BrokerUpdate, Expire

(* A command still to be answered stays so while nobody ends its execution;*)
(* what is told stays told while the folder is as it is.                   *)
LEMMA OwedKept ==
  ASSUME NEW c \in Child, Owed(c), UNCHANGED files,
         step' \notin {"ARCHIVE", "DEAD_LETTER"} \/ current' # c
  PROVE  Owed(c)'
BY DEF Owed

LEMMA ToldKept ==
  ASSUME NEW c \in Child, Told(c), UNCHANGED acks, command[c] \in Known => command'[c] \in Known
  PROVE  Told(c)'
BY DEF Told

(* The executor answers for k. *)
LEMMA AnswerAccounts ==
  ASSUME TypeOK, NEW c \in Child, Owed(c) \/ Told(c), NEW k \in Child, NEW status \in AckStatus,
         Ack(k, status), k = c => status \in Known, current' = k, UNCHANGED <<files, command>>
  PROVE  (Owed(c) \/ Told(c))'
<1>1. acks \in Seq(AckMessage) BY DEF TypeOK, AckMessage
<1>2. CASE k = c BY <1>1, <1>2, ToldAppend
<1>3. CASE k # c
  <2>1. Told(c) => Told(c)' BY <1>1, <1>3, ToldAppend
  <2>2. Owed(c) => Owed(c)' BY <1>3, OwedKept
  <2> QED BY <2>1, <2>2
<1> QED BY <1>2, <1>3

(* What the ingestion of a report does to the command row of a child.      *)
LEMMA RecordKeepsKnown ==
  ASSUME NEW k \in Child, NEW status, NEW rows \in [Child -> CommandStatus],
         RecordStatus(k, status, rows), NEW c \in Child, rows[c] \in Known
  PROVE  command'[c] \in Known
<1>1. rows[c] # "BLOCKED_SEQUENCE" BY DEF Known
<1>2. Advance(rows, k, status, Child)[c] = rows[c] BY <1>1, AdvanceRow
<1> QED BY <1>2 DEF RecordStatus

LEMMA IngestAccounts ==
  ASSUME TypeOK, Ingest, NEW c \in Child, Owed(c) \/ Told(c)
  PROVE  (Owed(c) \/ Told(c))'
<1>1. Owed(c) => Owed(c)'
  BY DEF Ingest, IngestCommandAck, IngestOrderEvent, Owed, executorVars
<1>2. ASSUME IngestOrderEvent, Told(c) PROVE Told(c)'
  <2>1. events \in Seq(EventMessage) /\ events # <<>> BY <1>2 DEF IngestOrderEvent, TypeOK, EventMessage
  <2>2. Head(events) \in EventMessage BY <2>1, TailMessages
  <2>3. Head(events).child \in Child BY <2>2 DEF EventMessage
  <2>4. RecordStatus(Head(events).child, Head(events).status, command) /\ UNCHANGED acks
    BY <1>2 DEF IngestOrderEvent
  <2>5. command \in [Child -> CommandStatus] BY DEF TypeOK
  <2>6. command[c] \in Known => command'[c] \in Known BY <2>3, <2>4, <2>5, RecordKeepsKnown
  <2> QED BY <1>2, <2>4, <2>6, ToldKept
<1>3. ASSUME IngestCommandAck, Told(c) PROVE Told(c)'
  <2> DEFINE m == Head(acks)
             rows == [command EXCEPT ![m.child] = m.status]
  <2>1. acks \in Seq(AckMessage) /\ acks # <<>> /\ acks' = Tail(acks)
    BY <1>3 DEF IngestCommandAck, TypeOK, AckMessage
  <2>2. m \in AckMessage BY <2>1, TailMessages
  <2>3. RecordStatus(m.child, StatusOfAck(m.status), rows) BY <1>3 DEF IngestCommandAck
  <2> HIDE DEF m
  <2>4. m.child \in Child /\ m.status \in CommandStatus
    BY <2>2 DEF AckMessage, CommandStatus
  <2>5. /\ rows \in [Child -> CommandStatus] /\ rows[m.child] = m.status
        /\ \A k \in Child : k # m.child => rows[k] = command[k]
    BY <2>4 DEF TypeOK
  <2> HIDE DEF rows
  <2>6. rows[c] \in Known => command'[c] \in Known BY <2>3, <2>4, <2>5, RecordKeepsKnown
  <2>7. /\ m.child = c => (m.status \in Known => command'[c] \in Known)
        /\ m.child # c => (command[c] \in Known => command'[c] \in Known)
    BY <2>5, <2>6
  <2> QED BY <1>3, <2>1, <2>7, ToldTail DEF m
<1> QED BY <1>1, <1>2, <1>3 DEF Ingest

LEMMA ExecuteAccounts ==
  ASSUME IInv, Execute, ~MakeOrder, ioFaults' = 0, NEW c \in Child, broker[c] # "NONE", Owed(c) \/ Told(c)
  PROVE  (Owed(c) \/ Told(c))'
<1>0. /\ step # "IDLE" => current \in Child
      /\ journal[c] \in {"PRE_SUBMIT", "SEND_RETURNED"}
      /\ TypeOK /\ ExecutorOK
  BY NAssumption DEF Child, IInv, TypeOK, SubmissionInv, JournalNeverDeniesOrder
<1>1. ASSUME NEW k \in Child, AnswerFromJournal(k) PROVE (Owed(c) \/ Told(c))'
  <2>1. RecordedAnswer(journal[k]) \in AckStatus
    BY <1>0, <1>1, AnswerType DEF AnswerFromJournal, AlreadyExecuted, TypeOK
  <2>2. k = c => RecordedAnswer(journal[k]) \in Known BY <1>0, AnswersKnown
  <2>3. Ack(k, RecordedAnswer(journal[k])) /\ current' = k /\ UNCHANGED <<files, command>>
    BY <1>1 DEF AnswerFromJournal, Goto, workerVars
  <2> QED BY <1>0, <2>1, <2>2, <2>3, AnswerAccounts
<1>2. ASSUME NEW k \in Child, PassFinalRisk(k) \/ RefuseCommand(k) PROVE (Owed(c) \/ Told(c))'
  <2>1. UNCHANGED <<files, acks, command>> /\ step' \notin {"ARCHIVE", "DEAD_LETTER"}
    BY <1>2 DEF PassFinalRisk, RefuseCommand, Goto, queueVars, workerVars
  <2> QED BY <2>1, OwedKept, ToldKept
<1>3. CASE WritePreSubmit \/ JournalReturn
  <2>1. UNCHANGED <<files, acks, command>> /\ step' \notin {"ARCHIVE", "DEAD_LETTER"}
    BY <1>3 DEF WritePreSubmit, JournalReturn, Goto, queueVars, workerVars
  <2> QED BY <2>1, OwedKept, ToldKept
<1>4. CASE ReportUncertain
  <2>1. current \in Child /\ current' = current /\ Ack(current, "SUBMIT_UNKNOWN")
        /\ UNCHANGED <<files, command>>
    BY <1>0, <1>4 DEF ReportUncertain, Goto, workerVars
  <2>2. "SUBMIT_UNKNOWN" \in AckStatus BY DEF AckStatus
  <2> QED BY <1>0, <2>1, <2>2, AnswersKnown, AnswerAccounts
<1>5. CASE AckJournal
  <2>1. /\ current \in Child /\ current' = current /\ Ack(current, journal[current])
        /\ journal[current] \in AckStatus /\ UNCHANGED <<files, command>>
    BY <1>0, <1>5 DEF AckJournal, Goto, workerVars, ExecutorOK
  <2>2. current = c => journal[current] \in Known BY <1>0, <2>1 DEF AckStatus, Known
  <2> QED BY <1>0, <2>1, <2>2, AnswerAccounts
<1>6. CASE ReportException
  <2>1. /\ current \in Child /\ current' = current /\ UNCHANGED <<files, command>>
        /\ Ack(current, Classify(journal[current])) \/ ioFaults' \in 1..MaxIoFaults
             \/ ioFaults' = ioFaults + 1
    BY <1>0, <1>6 DEF ReportException, Goto, workerVars
  <2>2. Ack(current, Classify(journal[current])) BY <1>0, <2>1, BoundAssumption DEF TypeOK
  <2>3. Classify(journal[current]) \in AckStatus BY <1>0, <2>1, AnswerType DEF TypeOK
  <2>4. current = c => Classify(journal[current]) \in Known BY <1>0, AnswersKnown
  <2> QED BY <1>0, <2>1, <2>2, <2>3, <2>4, AnswerAccounts
<1>7. CASE RetireFile
  <2>1. /\ files' = [files EXCEPT ![current] = @ - 1] /\ step' = "IDLE"
        /\ step \in {"ARCHIVE", "DEAD_LETTER"} /\ UNCHANGED <<acks, command>>
    BY <1>7 DEF RetireFile, Goto, workerVars
  <2>2. current \in Child /\ files \in [Child -> Nat] BY <1>0, <2>1 DEF TypeOK
  <2>3. Owed(c) => Owed(c)' BY <2>1, <2>2 DEF Owed
  <2> QED BY <2>1, <2>3, ToldKept
<1> QED BY <1>1, <1>2, <1>3, <1>4, <1>5, <1>6, <1>7 DEF Execute, TakeUp

(* A failed write is never taken back.                                     *)
LEMMA FaultsGrow ==
  ASSUME TypeOK, [Next]_vars, ioFaults' = 0
  PROVE  ioFaults = 0
<1>0. ioFaults \in Nat BY BoundAssumption DEF TypeOK
<1>1. ioFaults' = ioFaults \/ ioFaults' = ioFaults + 1
  BY DEF Next, vars, Dispatch, DispatchScan, PublishCommand, MarkDelivered, Ingest,
         IngestCommandAck, IngestOrderEvent, SubmitTradeIntent, ReconcileTerminalEvidence,
         Execute, TakeUp, AnswerFromJournal, PassFinalRisk, RefuseCommand, WritePreSubmit,
         MakeOrder, JournalReturn, ReportUncertain, AckJournal, ReportException, RetireFile,
         Fault, DispatchFails, WorkerRestart, AdapterRestart, PostSubmitFailure,
         StorageFailure, BrokerUpdate, Expire
<1> QED BY <1>0, <1>1

LEMMA AccountsStep ==
  ASSUME IInv, Accounts, [Next]_vars
  PROVE  Accounts'
<1>0. TypeOK /\ ExecutorOK /\ ioFaults \in Nat BY BoundAssumption DEF IInv, TypeOK
<1> SUFFICES ASSUME ioFaults' = 0, NEW c \in Child, broker'[c] # "NONE"
             PROVE  (Owed(c) \/ Told(c))'
  BY DEF Accounts
<1>1. CASE MakeOrder
  <2>1. /\ current \in Child /\ files[current] > 0 /\ step' = "RETURNED"
        /\ UNCHANGED <<files, acks, command, ioFaults>>
        /\ \A k \in Child : k # current => broker'[k] = broker[k]
    BY <1>0, <1>1, NAssumption
       DEF MakeOrder, Goto, TypeOK, ExecutorOK, Child, queueVars, workerVars
  <2>2. CASE c = current BY <2>1, <2>2 DEF Owed
  <2>3. CASE c # current
    <3>1. Owed(c) \/ Told(c) BY <2>1, <2>3 DEF Accounts
    <3> QED BY <2>1, <3>1, OwedKept, ToldKept
  <2> QED BY <2>2, <2>3
<1>2. ASSUME NEW k \in Child, BrokerUpdate(k) PROVE (Owed(c) \/ Told(c))'
  <2>1. PICK state \in BrokerNext(broker[k]) : broker' = [broker EXCEPT ![k] = state]
    BY <1>2 DEF BrokerUpdate
  <2>2. broker[k] # "NONE" BY <2>1 DEF BrokerNext
  <2>3. broker[c] # "NONE" BY <1>0, <2>1, <2>2 DEF TypeOK
  <2>4. ioFaults = 0 BY <1>0, <1>2 DEF BrokerUpdate
  <2>5. Owed(c) \/ Told(c) BY <2>3, <2>4 DEF Accounts
  <2>6. UNCHANGED <<files, acks, command, step, current>>
    BY <1>2 DEF BrokerUpdate, workerVars, executorVars
  <2>7. Told(c) => Told(c)' BY <2>6, ToldKept
  <2>8. Owed(c) => Owed(c)' BY <2>6 DEF Owed
  <2> QED BY <2>5, <2>7, <2>8
<1>3. CASE ~MakeOrder /\ UNCHANGED broker /\ ioFaults = 0
  <2>1. broker[c] # "NONE" /\ (Owed(c) \/ Told(c)) BY <1>3 DEF Accounts
  <2>2. CASE SubmitTradeIntent
    <3>1. submitted[c] = 1 BY <2>1 DEF IInv, SubmissionInv
    <3>2. FALSE BY <2>2, <3>1 DEF SubmitTradeIntent, IInv, ReleaseInv, Released, Held
    <3> QED BY <3>2
  <2>3. CASE Ingest BY <1>0, <2>1, <2>3, IngestAccounts
  <2>4. CASE Execute BY <1>3, <2>1, <2>4, ExecuteAccounts
  <2>5. ASSUME NEW d \in Dispatchers, PublishCommand(d) PROVE (Owed(c) \/ Told(c))'
    <3>1. PICK k \in batch[d] : files' = [files EXCEPT ![k] = @ + 1] BY <2>5 DEF PublishCommand
    <3>2. k \in Child /\ files \in [Child -> Nat] BY <1>0, <2>5, <3>1 DEF TypeOK
    <3>3. UNCHANGED <<acks, command, step, current>>
      BY <2>5 DEF PublishCommand, workerVars, executorVars
    <3>4. Owed(c) => Owed(c)' BY <3>1, <3>2, <3>3 DEF Owed
    <3> QED BY <2>1, <3>3, <3>4, ToldKept
  <2>6. ASSUME NEW d \in Dispatchers, MarkDelivered(d) PROVE (Owed(c) \/ Told(c))'
    <3>1. UNCHANGED <<files, acks, step, current>>
          /\ (command[c] = "PENDING_DELIVERY" \/ command'[c] = command[c])
      BY <1>0, <2>6 DEF MarkDelivered, queueVars, executorVars
    <3>2. Owed(c) => Owed(c)' BY <3>1 DEF Owed
    <3>3. command[c] \in Known => command'[c] \in Known BY <3>1 DEF Known
    <3> QED BY <2>1, <3>1, <3>2, <3>3, ToldKept
  <2>7. CASE AdapterRestart
    <3>1. UNCHANGED <<files, acks, command>> /\ step' = "IDLE"
      BY <2>7 DEF AdapterRestart, Goto, queueVars, workerVars
    <3> QED BY <2>1, <3>1, OwedKept, ToldKept
  <2>8. CASE UNCHANGED <<files, acks, command, step, current>>
    <3>1. Owed(c) => Owed(c)' BY <2>8 DEF Owed
    <3> QED BY <2>1, <2>8, <3>1, ToldKept
  <2>9. ASSUME NEW d \in Dispatchers, DispatchScan(d) PROVE UNCHANGED <<files, acks, command, step, current>>
    BY <2>9 DEF DispatchScan, workerVars, queueVars, executorVars
  <2>10. CASE ReconcileTerminalEvidence \/ WorkerRestart \/ Expire \/ UNCHANGED vars
    BY <2>8, <2>10 DEF ReconcileTerminalEvidence, WorkerRestart, Expire, vars, workerVars, queueVars, executorVars
  <2>11. CASE (\E d \in Dispatchers : DispatchFails(d)) \/ PostSubmitFailure \/ StorageFailure
    BY <1>0, <1>3, <2>11 DEF DispatchFails, PostSubmitFailure, StorageFailure
  <2>12. ASSUME NEW k \in Child, BrokerUpdate(k) PROVE (Owed(c) \/ Told(c))' BY <1>2, <2>12
  <2> QED BY <1>3, <2>2, <2>3, <2>4, <2>5, <2>6, <2>7, <2>8, <2>9, <2>10, <2>11, <2>12 DEF Next, Dispatch, Fault
<1>4. \/ MakeOrder \/ \E k \in Child : BrokerUpdate(k)
      \/ UNCHANGED broker
  BY DEF Next, vars, brokerVars, Dispatch, DispatchScan, PublishCommand, MarkDelivered, Ingest,
         IngestCommandAck, IngestOrderEvent, SubmitTradeIntent, ReconcileTerminalEvidence,
         Execute, TakeUp, AnswerFromJournal, PassFinalRisk, RefuseCommand, WritePreSubmit,
         JournalReturn, ReportUncertain, AckJournal, ReportException, RetireFile, Fault,
         DispatchFails, WorkerRestart, AdapterRestart, PostSubmitFailure, StorageFailure, Expire
<1>5. ioFaults = 0
  BY <1>0, FaultsGrow
<1> QED BY <1>1, <1>2, <1>3, <1>4, <1>5

(* Once everything is ingested, an order the broker has is known as sent   *)
(* or as uncertain (command_acks and _process_path's classification),      *)
(* whatever was killed, duplicated or ingested out of order.               *)
THEOREM AccountedFor == Spec => []OrdersAreAccountedFor
<1>1. Init => Shown /\ Accounts BY DEF Init, Shown, Accounts, Known
<1>2. IInv /\ Shown /\ Accounts /\ [Next]_vars => (Shown /\ Accounts)'
  <2>1. IInv => TypeOK /\ ReleaseInv BY DEF IInv
  <2> QED BY <2>1, ShownStep, AccountsStep
<1>3. Shown /\ Accounts => OrdersAreAccountedFor
  <2> SUFFICES ASSUME Shown, Accounts, ioFaults = 0, acks = <<>>, NEW c \in Child, files[c] = 0,
                      broker[c] # "NONE"
               PROVE  /\ command[c] \in {"SEND_RETURNED", "SUBMIT_UNKNOWN"}
                      /\ child[c] \in EventStatus \cup {"SEND_RETURNED", "SUBMIT_UNKNOWN"}
    BY DEF OrdersAreAccountedFor
  <2>1. Told(c) BY DEF Accounts, Owed
  <2>2. DOMAIN acks = {} OBVIOUS
  <2>3. command[c] \in Known BY <2>1, <2>2 DEF Told
  <2> QED BY <2>3 DEF Shown, Known
<1> QED BY <1>1, <1>2, <1>3, Inductive, PTL DEF Spec

-----------------------------------------------------------------------------
(* The truth of what is reported.                                          *)

Cancelled == {"CANCELLED", "PARTIALLY_FILLED_CANCELLED"}

(* What a status says of an order that is b at the broker and whose        *)
(* execution journal is j.                                                 *)
TrueOf(status, b, j) ==
  /\ status = "FILLED" => b = "FILLED"
  /\ status \in Cancelled => b \in Cancelled
  /\ status = "SEND_RETURNED" => b # "NONE"
  /\ status = "FAILED_BEFORE_SEND" => j = "FAILED_BEFORE_SEND"
  /\ status = "OBSERVED" => j = "OBSERVE_ONLY_ACKNOWLEDGED"

(* The journal says an order was sent only if the broker has it, and is    *)
(* closed once: only behind the return of the call it was opened for.      *)
JournalInv ==
  /\ \A c \in Child : journal[c] = "SEND_RETURNED" => broker[c] # "NONE"
  /\ step = "RETURNED" /\ result \in {"ORDER_ID", "MINUS_ONE"} => journal[current] = "PRE_SUBMIT"
  /\ step = "RETURNED" /\ result = "ORDER_ID" => broker[current] # "NONE"

JournalMoves(c) ==
  \/ journal'[c] = journal[c]
  \/ journal[c] = "NONE" /\ journal'[c] \in {"PRE_SUBMIT", "OBSERVE_ONLY_ACKNOWLEDGED"}
  \/ journal[c] = "PRE_SUBMIT" /\ journal'[c] \in {"SEND_RETURNED", "FAILED_BEFORE_SEND"}

BrokerKeeps(c) ==
  /\ broker[c] # "NONE" => broker'[c] # "NONE"
  /\ broker[c] = "FILLED" => broker'[c] = "FILLED"
  /\ broker[c] \in Cancelled => broker'[c] \in Cancelled

LEMMA JournalStep ==
  ASSUME TypeOK, SubmissionInv, JournalInv, [Next]_vars
  PROVE  /\ JournalInv'
         /\ \A c \in Child : JournalMoves(c) /\ BrokerKeeps(c)
<1>0. (step # "IDLE" => current \in Child) /\ 0 \notin Child
  BY NAssumption DEF Child, TypeOK
<1> USE DEF JournalInv, JournalMoves, BrokerKeeps
<1>1. CASE UNCHANGED <<journal, executorVars, brokerVars>>
  BY <1>1 DEF executorVars, brokerVars
<1>2. ASSUME NEW c \in Child, PassFinalRisk(c)
      PROVE  JournalInv' /\ \A k \in Child : JournalMoves(k) /\ BrokerKeeps(k)
  <2>1. /\ journal[c] = "NONE" /\ step' # "RETURNED" /\ UNCHANGED broker
        /\ \/ journal' = journal
           \/ journal' = [journal EXCEPT ![c] = "OBSERVE_ONLY_ACKNOWLEDGED"]
    BY <1>2 DEF PassFinalRisk, AlreadyExecuted, Goto, brokerVars
  <2> QED BY <2>1 DEF TypeOK
<1>3. CASE WritePreSubmit
  <2>1. /\ current \in Child /\ journal[current] = "NONE" /\ step' # "RETURNED"
        /\ journal' = [journal EXCEPT ![current] = "PRE_SUBMIT"] /\ UNCHANGED broker
    BY <1>0, <1>3 DEF WritePreSubmit, SubmissionInv, Goto, brokerVars
  <2> QED BY <2>1 DEF TypeOK
<1>4. CASE MakeOrder
  <2>1. /\ current \in Child /\ journal[current] = "PRE_SUBMIT" /\ broker[current] = "NONE"
        /\ UNCHANGED <<journal, current>>
        /\ \/ broker' = [broker EXCEPT ![current] = "ACCEPTED"]
           \/ broker' = broker /\ result' # "ORDER_ID"
    BY <1>0, <1>4 DEF MakeOrder, SubmissionInv, Goto
  <2> QED BY <2>1 DEF TypeOK, Cancelled
<1>5. CASE JournalReturn
  <2>1. /\ current \in Child /\ journal[current] = "PRE_SUBMIT" /\ step' # "RETURNED"
        /\ UNCHANGED broker
        /\ journal' = [journal EXCEPT ![current] =
                         IF result = "ORDER_ID" THEN "SEND_RETURNED" ELSE "FAILED_BEFORE_SEND"]
        /\ result = "ORDER_ID" => broker[current] # "NONE"
    BY <1>0, <1>5 DEF JournalReturn, Classified, Goto, brokerVars
  <2> QED BY <2>1 DEF TypeOK
<1>6. ASSUME NEW c \in Child, AnswerFromJournal(c) \/ RefuseCommand(c)
      PROVE  JournalInv' /\ \A k \in Child : JournalMoves(k) /\ BrokerKeeps(k)
  BY <1>6 DEF AnswerFromJournal, RefuseCommand, Goto, brokerVars
<1>7. CASE ReportUncertain \/ AckJournal \/ ReportException \/ RetireFile
  BY <1>7 DEF ReportUncertain, AckJournal, ReportException, RetireFile, Goto, brokerVars
<1>8. CASE AdapterRestart \/ PostSubmitFailure \/ StorageFailure
  BY <1>8 DEF AdapterRestart, PostSubmitFailure, StorageFailure, Goto, brokerVars
<1>9. ASSUME NEW c \in Child, BrokerUpdate(c)
      PROVE  JournalInv' /\ \A k \in Child : JournalMoves(k) /\ BrokerKeeps(k)
  <2>1. PICK state \in BrokerNext(broker[c]) : broker' = [broker EXCEPT ![c] = state]
    BY <1>9 DEF BrokerUpdate
  <2>2. state # "NONE" /\ broker[c] # "FILLED" /\ broker[c] \notin Cancelled
    BY <2>1 DEF BrokerNext, Cancelled
  <2>3. UNCHANGED <<journal, executorVars>> BY <1>9 DEF BrokerUpdate
  <2> QED BY <2>1, <2>2, <2>3 DEF TypeOK, executorVars
<1> QED
  BY <1>1, <1>2, <1>3, <1>4, <1>5, <1>6, <1>7, <1>8, <1>9
     DEF Next, vars, Dispatch, DispatchScan, PublishCommand, MarkDelivered, Ingest,
         IngestCommandAck, IngestOrderEvent, SubmitTradeIntent, ReconcileTerminalEvidence,
         Execute, TakeUp, Fault, DispatchFails, WorkerRestart, Expire, executorVars, brokerVars

LEMMA JournalHolds == Spec => []JournalInv
<1>1. Init => JournalInv BY DEF Init, JournalInv
<1>2. IInv /\ JournalInv /\ [Next]_vars => JournalInv' BY JournalStep DEF IInv
<1> QED BY <1>1, <1>2, Inductive, PTL DEF Spec

(* An execution journal is opened once and closed once, and what it then   *)
(* says is never changed or removed (_write_journal): a restart, a copy of *)
(* the command or a failed write cannot reopen an execution.               *)
THEOREM JournalForward == Spec => [][\A c \in Child : JournalMoves(c)]_vars
<1>1. IInv /\ JournalInv /\ [Next]_vars => [\A c \in Child : JournalMoves(c)]_vars
  BY JournalStep DEF IInv
<1> QED BY <1>1, Inductive, JournalHolds, PTL DEF Spec

(* Every row and every message on its way is true, and so is everything    *)
(* the journals have to answer.                                            *)
TruthInv ==
  /\ \A c \in Child : TrueOf(child[c], broker[c], journal[c])
  /\ \A m \in Messages(acks) :
       TrueOf(StatusOfAck(m.status), broker[m.child], journal[m.child])
  /\ \A m \in Messages(events) : TrueOf(m.status, broker[m.child], journal[m.child])

(* What is true of an order stays true of it. *)
LEMMA TruthLasts ==
  ASSUME TypeOK, SubmissionInv, JournalInv, [Next]_vars
  PROVE  \A c \in Child : \A s :
           TrueOf(s, broker[c], journal[c]) => TrueOf(s, broker'[c], journal'[c])
BY JournalStep DEF JournalMoves, BrokerKeeps, TrueOf

(* What the executor answers out of a journal is true.                     *)
LEMMA AnswersTrue ==
  ASSUME TypeOK, JournalInv, NEW c \in Child
  PROVE  /\ TrueOf(StatusOfAck(RecordedAnswer(journal[c])), broker[c], journal[c])
         /\ TrueOf(StatusOfAck(Classify(journal[c])), broker[c], journal[c])
         /\ TrueOf(StatusOfAck(Classify("NONE")), broker[c], journal[c])
         /\ journal[c] \in AckStatus => TrueOf(StatusOfAck(journal[c]), broker[c], journal[c])
         /\ TrueOf(StatusOfAck("SUBMIT_UNKNOWN"), broker[c], journal[c])
<1>1. /\ StatusOfAck("OBSERVE_ONLY_ACKNOWLEDGED") = "OBSERVED"
      /\ StatusOfAck("ADAPTER_REJECTED") = "REJECTED"
      /\ \A a \in {"NONE", "SEND_RETURNED", "FAILED_BEFORE_SEND", "SUBMIT_UNKNOWN"} :
           StatusOfAck(a) = a
  BY DEF StatusOfAck
<1>2. journal[c] \in JournalState BY DEF TypeOK
<1>3. TrueOf(StatusOfAck("SUBMIT_UNKNOWN"), broker[c], journal[c])
  BY <1>1 DEF TrueOf, Cancelled
<1>4. TrueOf(StatusOfAck(Classify("NONE")), broker[c], journal[c])
  BY <1>1 DEF TrueOf, Cancelled, Classify
<1>5. CASE journal[c] = "NONE"
  BY <1>1, <1>3, <1>4, <1>5 DEF TrueOf, Cancelled, RecordedAnswer, Classify, AckStatus
<1>6. CASE journal[c] = "PRE_SUBMIT"
  BY <1>1, <1>3, <1>4, <1>6 DEF RecordedAnswer, Classify, AckStatus
<1>7. CASE journal[c] \in {"SEND_RETURNED", "FAILED_BEFORE_SEND", "OBSERVE_ONLY_ACKNOWLEDGED"}
  <2>1. RecordedAnswer(journal[c]) = journal[c] /\ Classify(journal[c]) = journal[c]
    BY <1>7 DEF RecordedAnswer, Classify
  <2>2. TrueOf(StatusOfAck(journal[c]), broker[c], journal[c])
    BY <1>1, <1>7 DEF JournalInv, TrueOf, Cancelled
  <2> QED BY <1>3, <1>4, <2>1, <2>2
<1> QED BY <1>2, <1>5, <1>6, <1>7 DEF JournalState

(* A report that is true leaves true rows.                                 *)
LEMMA RecordsTruth ==
  ASSUME TypeOK, TruthInv, NEW c \in Child, NEW status \in ChildStatus, NEW rows,
         RecordStatus(c, status, rows), TrueOf(status, broker[c], journal[c])
  PROVE  \A k \in Child : TrueOf(child'[k], broker[k], journal[k])
<1> DEFINE childRows == [child EXCEPT ![c] = status]
           later == (c + 1)..N
<1>1. childRows \in [Child -> ChildStatus] BY DEF TypeOK
<1>2. child' = Advance(childRows, c, status, later) BY DEF RecordStatus
<1>3. ASSUME NEW k \in Child PROVE TrueOf(childRows[k], broker[k], journal[k])
  BY DEF TypeOK, TruthInv
<1> HIDE DEF childRows, later
<1>4. ASSUME NEW k \in Child
      PROVE  child'[k] = childRows[k] \/ child'[k] \in {"PENDING_DELIVERY", "SEQUENCE_ABORTED"}
  BY <1>1, <1>2, AdvanceRow
<1> QED BY <1>3, <1>4 DEF TrueOf, Cancelled

(* A true answer is appended to true answers.                              *)
LEMMA AckTrue ==
  ASSUME TypeOK, TruthInv, NEW c \in Child, NEW status \in AckStatus, Ack(c, status),
         UNCHANGED <<child, events, broker, journal>>,
         TrueOf(StatusOfAck(status), broker[c], journal[c])
  PROVE  TruthInv'
<1>1. acks \in Seq(AckMessage) /\ [child |-> c, status |-> status] \in AckMessage
  BY DEF TypeOK, AckMessage
<1>2. Messages(acks') = Messages(acks) \cup {[child |-> c, status |-> status]}
  BY <1>1, AppendMessages DEF Ack
<1>3. \A m \in Messages(acks') : TrueOf(StatusOfAck(m.status), broker[m.child], journal[m.child])
  BY <1>2 DEF TruthInv
<1>4. \A m \in Messages(events') : TrueOf(m.status, broker[m.child], journal[m.child])
  BY DEF TruthInv
<1> QED BY <1>3, <1>4 DEF TruthInv

(* The callbacks report what happened.                                     *)
LEMMA CallbacksTrue ==
  ASSUME NEW old, NEW state \in BrokerNext(old), NEW report \in Callbacks(state),
         NEW i \in DOMAIN report, NEW j
  PROVE  TrueOf(report[i], state, j)
<1>1. /\ Normalize(state) \in {state, "UNKNOWN_BROKER_STATUS"}
      /\ state \in {"QUEUED", "WORKING", "FILLED", "CANCELLED", "REJECTED", "PARTIALLY_FILLED",
                    "PARTIALLY_FILLED_CANCELLED"}
  BY DEF Normalize, BrokerNext
<1>2. report[i] = Normalize(state) \/ (report[i] = "CANCELLED" /\ state \in Cancelled)
  BY DEF Callbacks, Cancelled
<1> QED BY <1>1, <1>2 DEF TrueOf, Cancelled

LEMMA TruthStep ==
  ASSUME IInv, JournalInv, TruthInv, [Next]_vars
  PROVE  TruthInv'
<1> USE DEF IInv
<1>0. /\ step # "IDLE" => current \in Child
      /\ \A m \in Messages(acks) \cup Messages(events) : m.child \in Child
  BY NAssumption, MessageChild DEF Child, TypeOK
<1>1. /\ \A c \in Child : TrueOf(child[c], broker'[c], journal'[c])
      /\ \A m \in Messages(acks) :
           TrueOf(StatusOfAck(m.status), broker'[m.child], journal'[m.child])
      /\ \A m \in Messages(events) : TrueOf(m.status, broker'[m.child], journal'[m.child])
  BY <1>0, TruthLasts DEF TruthInv
<1>2. ASSUME UNCHANGED <<acks, events>>,
             \A c \in Child : \/ child'[c] = child[c]
                              \/ child'[c] \in {"PENDING_DELIVERY", "BLOCKED_SEQUENCE", "QUEUED"}
      PROVE  TruthInv'
  <2>1. \A c \in Child : TrueOf(child'[c], broker'[c], journal'[c])
    BY <1>1, <1>2 DEF TrueOf, Cancelled
  <2> QED BY <1>1, <1>2, <2>1 DEF TruthInv
<1>3. ASSUME NEW c \in Child, BrokerUpdate(c) PROVE TruthInv'
  <2>1. PICK state \in BrokerNext(broker[c]) :
          /\ broker' = [broker EXCEPT ![c] = state]
          /\ \/ \E report \in Callbacks(state) :
                  events' = events \o [i \in DOMAIN report |-> [child |-> c, status |-> report[i]]]
             \/ UNCHANGED events
    BY <1>3 DEF BrokerUpdate
  <2>2. UNCHANGED <<child, acks, journal>> BY <1>3 DEF BrokerUpdate, workerVars
  <2>3. broker[c] \in BrokerState /\ broker'[c] = state BY <2>1 DEF TypeOK
  <2>4. \A m \in Messages(events') :
          m \in Messages(events) \/ (m.child = c /\ TrueOf(m.status, state, journal[c]))
    <3>1. CASE UNCHANGED events BY <3>1
    <3>2. ASSUME NEW report \in Callbacks(state),
                 events' = events \o [i \in DOMAIN report |-> [child |-> c, status |-> report[i]]]
          PROVE  \A m \in Messages(events') :
                   m \in Messages(events) \/ (m.child = c /\ TrueOf(m.status, state, journal[c]))
      <4> DEFINE written == [i \in DOMAIN report |-> [child |-> c, status |-> report[i]]]
      <4>1. events \in Seq(EventMessage) BY DEF TypeOK, EventMessage
      <4>2. written \in Seq(EventMessage) BY <2>3, ReportType
      <4>3. \A i \in DOMAIN report : TrueOf(report[i], state, journal[c]) BY CallbacksTrue
      <4>4. \A m \in Messages(written) : m.child = c /\ TrueOf(m.status, state, journal[c])
        BY <4>3 DEF Messages
      <4>5. events' = events \o written BY <3>2
      <4> HIDE DEF written
      <4> QED BY <4>1, <4>2, <4>4, <4>5, ConcatMessages
    <3> QED BY <2>1, <3>1, <3>2
  <2>5. \A m \in Messages(events') : TrueOf(m.status, broker'[m.child], journal'[m.child])
    BY <1>1, <2>2, <2>3, <2>4
  <2> QED BY <1>1, <2>2, <2>5 DEF TruthInv
<1>4. ASSUME NEW c \in Child, AnswerFromJournal(c) PROVE TruthInv'
  <2>1. RecordedAnswer(journal[c]) \in AckStatus
    BY <1>4, AnswerType DEF AnswerFromJournal, AlreadyExecuted, TypeOK
  <2> QED BY <1>4, <2>1, AckTrue, AnswersTrue DEF AnswerFromJournal, workerVars, brokerVars
<1>5. CASE ReportUncertain
  <2>1. "SUBMIT_UNKNOWN" \in AckStatus /\ current \in Child BY <1>0, <1>5 DEF AckStatus, ReportUncertain
  <2> QED BY <1>5, <2>1, AckTrue, AnswersTrue DEF ReportUncertain, workerVars, brokerVars
<1>6. CASE AckJournal
  <2>1. current \in Child /\ journal[current] \in AckStatus
    BY <1>0, <1>6 DEF AckJournal, ExecutorOK
  <2> QED BY <1>6, <2>1, AckTrue, AnswersTrue DEF AckJournal, workerVars, brokerVars
<1>7. CASE ReportException
  <2>1. ASSUME NEW state \in {journal[current], "NONE"}, Ack(current, Classify(state))
        PROVE  TruthInv'
    <3>1. current \in Child /\ Classify(state) \in AckStatus
      BY <1>0, <1>7, AnswerType DEF ReportException, TypeOK
    <3> QED BY <1>7, <2>1, <3>1, AckTrue, AnswersTrue DEF ReportException, workerVars, brokerVars
  <2>2. CASE UNCHANGED acks
    BY <1>2, <1>7, <2>2 DEF ReportException, workerVars
  <2> QED BY <1>7, <2>1, <2>2 DEF ReportException
<1>8. CASE IngestCommandAck
  <2> DEFINE m == Head(acks)
  <2>1. acks \in Seq(AckMessage) /\ acks # <<>> BY <1>8 DEF IngestCommandAck, TypeOK, AckMessage
  <2>2. /\ m \in AckMessage /\ m \in Messages(acks) /\ Messages(acks') \subseteq Messages(acks)
        /\ UNCHANGED <<events, broker, journal>>
    BY <1>8, <2>1, TailMessages DEF IngestCommandAck, brokerVars
  <2>3. PICK rows : RecordStatus(m.child, StatusOfAck(m.status), rows) BY <1>8 DEF IngestCommandAck
  <2>4. TrueOf(StatusOfAck(m.status), broker[m.child], journal[m.child]) BY <2>2 DEF TruthInv
  <2> HIDE DEF m
  <2>5. m.child \in Child /\ StatusOfAck(m.status) \in ChildStatus
    BY <2>2 DEF AckMessage, AckStatus, StatusOfAck, ChildStatus, EventStatus
  <2>6. \A k \in Child : TrueOf(child'[k], broker[k], journal[k])
    BY <2>3, <2>4, <2>5, RecordsTruth
  <2> QED BY <1>1, <2>2, <2>6 DEF TruthInv
<1>9. CASE IngestOrderEvent
  <2> DEFINE m == Head(events)
  <2>1. events \in Seq(EventMessage) /\ events # <<>> BY <1>9 DEF IngestOrderEvent, TypeOK, EventMessage
  <2>2. /\ m \in EventMessage /\ m \in Messages(events) /\ Messages(events') \subseteq Messages(events)
        /\ UNCHANGED <<acks, broker, journal>>
    BY <1>9, <2>1, TailMessages DEF IngestOrderEvent, brokerVars
  <2>3. RecordStatus(m.child, m.status, command) BY <1>9 DEF IngestOrderEvent
  <2>4. TrueOf(m.status, broker[m.child], journal[m.child]) BY <2>2 DEF TruthInv
  <2> HIDE DEF m
  <2>5. m.child \in Child /\ m.status \in ChildStatus
    BY <2>2 DEF EventMessage, ChildStatus
  <2>6. \A k \in Child : TrueOf(child'[k], broker[k], journal[k])
    BY <2>3, <2>4, <2>5, RecordsTruth
  <2> QED BY <1>1, <2>2, <2>6 DEF TruthInv
<1>10. CASE SubmitTradeIntent \/ \E d \in Dispatchers : MarkDelivered(d)
  BY <1>2, <1>10 DEF SubmitTradeIntent, MarkDelivered, queueVars
<1>11. CASE UNCHANGED <<child, acks, events>>
  BY <1>2, <1>11
<1> QED
  BY <1>3, <1>4, <1>5, <1>6, <1>7, <1>8, <1>9, <1>10, <1>11
     DEF Next, vars, workerVars, queueVars, Dispatch, DispatchScan, PublishCommand, Ingest,
         ReconcileTerminalEvidence, Execute, TakeUp, PassFinalRisk, RefuseCommand, WritePreSubmit,
         MakeOrder, JournalReturn, RetireFile, Fault, DispatchFails, WorkerRestart,
         AdapterRestart, PostSubmitFailure, StorageFailure, Expire

LEMMA TruthImpliesReports ==
  ASSUME IInv, AggregateInv, TruthInv
  PROVE  ReportsAreTrue
<1> USE DEF IInv, TruthInv, TrueOf, Cancelled
<1>1. ASSUME NEW c \in Child
      PROVE  /\ child[c] = "FAILED_BEFORE_SEND" => broker[c] = "NONE"
             /\ child[c] = "OBSERVED" => mode = "OBSERVE_ONLY"
             /\ mode = "OBSERVE_ONLY" => submitted[c] = 0 /\ broker[c] = "NONE"
  BY DEF SubmissionInv, JournalNeverDeniesOrder
<1>2. 1 \in Child BY NAssumption DEF Child
<1>3. ASSUME intent = "FILLED" PROVE \A c \in Child : broker[c] = "FILLED"
  <2>1. Aggregate(child) = "FILLED" BY <1>3 DEF AggregateInv, IntentAgreesWithChildren
  <2>2. (\A c \in Child : child[c] \in {"FILLED", "OBSERVED"})
        /\ ~(\A c \in Child : child[c] \in {"OBSERVED"})
    BY <2>1 DEF Aggregate
  <2>3. PICK k \in Child : child[k] = "FILLED" BY <2>2
  <2>4. mode # "OBSERVE_ONLY" BY <1>1, <2>3
  <2> QED BY <1>1, <2>2, <2>4
<1>4. ASSUME intent \in Cancelled PROVE \A c \in Child : broker[c] \in Cancelled \cup {"FILLED"}
  <2>1. Aggregate(child) \in Cancelled BY <1>4 DEF AggregateInv, IntentAgreesWithChildren
  <2>2. \A c \in Child : child[c] \in {"FILLED", "CANCELLED", "PARTIALLY_FILLED_CANCELLED"}
    BY <2>1 DEF Aggregate
  <2> QED BY <2>2
<1>5. ASSUME intent = "OBSERVED" PROVE \A c \in Child : submitted[c] = 0
  <2>1. Aggregate(child) = "OBSERVED" BY <1>5 DEF AggregateInv, IntentAgreesWithChildren
  <2>2. \A c \in Child : child[c] = "OBSERVED" BY <2>1 DEF Aggregate
  <2> QED BY <1>1, <1>2, <2>2
<1> QED BY <1>1, <1>3, <1>4, <1>5 DEF ReportsAreTrue

(* What the Worker says of an order's end, or of the intent's, is so at    *)
(* the broker, whatever was killed, told twice, overtaken or lost.         *)
THEOREM ReportsTrue == Spec => []ReportsAreTrue
<1>1. Init => TruthInv BY DEF Init, TruthInv, TrueOf, Cancelled, Messages
<1>2. IInv /\ JournalInv /\ TruthInv /\ [Next]_vars => TruthInv' BY TruthStep
<1>3. Init => AggregateInv BY DEF Init, AggregateInv, IntentAgreesWithChildren
<1>4. IInv /\ AggregateInv /\ [Next]_vars => AggregateInv' BY AggregateStep DEF IInv
<1>5. IInv /\ AggregateInv /\ TruthInv => ReportsAreTrue BY TruthImpliesReports
<1> QED BY <1>1, <1>2, <1>3, <1>4, <1>5, Inductive, JournalHolds, PTL DEF Spec

-----------------------------------------------------------------------------
(* No command is forgotten: what the liveness of the bridge rests on.      *)

(* Somebody has published c's command.                                     *)
Published(c) == command[c] = "DELIVERED" \/ \E d \in Dispatchers : unmarked[d] = c

(* The Adapter has answered c's command; the answer is in the row or in    *)
(* the folder.                                                             *)
Answered(c) == command[c] \in AckStatus \/ \E m \in Messages(acks) : m.child = c

(* A published command that is not answered is still in the folder or in   *)
(* execution: neither a kill nor a second copy nor a late mark of delivery *)
(* makes the bridge wait for an answer nobody is going to give. Only a     *)
(* failed write can (adapter:1834).                                        *)
NoneForgotten ==
  ioFaults = 0 => \A c \in Child : Published(c) => Owed(c) \/ Answered(c)

(* A leg is held back only while the one before it may still end: whatever *)
(* ends that one releases or aborts it in the same transaction.            *)
NoneStranded ==
  \A c \in Child : c > 1 /\ child[c] = "BLOCKED_SEQUENCE" =>
    child[c - 1] \notin TerminalOrderStates \cup {"SEQUENCE_ABORTED", "ABSENT"}

LEMMA AnsweredStep ==
  ASSUME IInv, [Next]_vars, NEW c \in Child, Answered(c)
  PROVE  Answered(c)'
<1>0. TypeOK /\ ReleaseInv BY DEF IInv
<1>1. /\ acks \in Seq(AckMessage)
      /\ \A s \in AckStatus : s \notin {"BLOCKED_SEQUENCE", "PENDING_DELIVERY", "ABSENT"}
  BY <1>0 DEF TypeOK, AckMessage, AckStatus
<1>2. CASE UNCHANGED <<acks, command>>
  BY <1>2 DEF Answered
<1>3. ASSUME NEW k \in Child, NEW status \in AckStatus, Ack(k, status), UNCHANGED command
      PROVE  Answered(c)'
  <2>1. [child |-> k, status |-> status] \in AckMessage BY DEF AckMessage
  <2>2. Messages(acks) \subseteq Messages(acks')
    BY <1>1, <1>3, <2>1, AppendMessages DEF Ack
  <2> QED BY <1>3, <2>2 DEF Answered
<1>4. ASSUME NEW k \in Child, NEW status, NEW rows \in [Child -> CommandStatus],
             RecordStatus(k, status, rows), rows[c] \in AckStatus
      PROVE  Answered(c)'
  <2>1. rows[c] # "BLOCKED_SEQUENCE" BY <1>1, <1>4
  <2>2. Advance(rows, k, status, Child)[c] = rows[c] BY <2>1, AdvanceKeeps
  <2> QED BY <1>4, <2>2 DEF RecordStatus, Answered
<1>5. CASE IngestCommandAck
  <2> DEFINE m == Head(acks)
             rows == [command EXCEPT ![m.child] = m.status]
  <2>1. acks # <<>> /\ acks' = Tail(acks) BY <1>5 DEF IngestCommandAck
  <2>2. m \in AckMessage BY <1>1, <2>1, TailMessages
  <2>3. RecordStatus(m.child, StatusOfAck(m.status), rows) BY <1>5 DEF IngestCommandAck
  <2>4. \A x \in Messages(acks) : x = m \/ x \in Messages(acks')
    <3>1. /\ Len(acks) \in Nat \ {0} /\ Head(acks) = acks[1] /\ DOMAIN acks = 1..Len(acks)
          /\ DOMAIN acks' = 1..(Len(acks) - 1)
          /\ \A i \in 1..(Len(acks) - 1) : acks'[i] = acks[i + 1]
      BY <1>1, <2>1, HeadTailProperties, EmptySeq, LenProperties
    <3>2. ASSUME NEW i \in DOMAIN acks, i # 1 PROVE acks[i] \in Messages(acks')
      <4>1. i - 1 \in DOMAIN acks' /\ acks'[i - 1] = acks[i] BY <3>1, <3>2
      <4> QED BY <4>1 DEF Messages
    <3> QED BY <3>1, <3>2 DEF Messages
  <2> HIDE DEF m
  <2>5. m.child \in Child /\ m.status \in AckStatus /\ m.status \in CommandStatus
    BY <2>2 DEF AckMessage, CommandStatus
  <2>6. /\ rows \in [Child -> CommandStatus] /\ rows[m.child] = m.status
        /\ \A k \in Child : k # m.child => rows[k] = command[k]
    BY <1>0, <2>5 DEF TypeOK
  <2> HIDE DEF rows
  <2>7. CASE rows[c] \in AckStatus BY <1>4, <2>3, <2>5, <2>6, <2>7
  <2>8. CASE rows[c] \notin AckStatus
    <3>1. c # m.child /\ command[c] \notin AckStatus BY <2>5, <2>6, <2>8
    <3> QED BY <2>4, <3>1 DEF Answered
  <2> QED BY <2>7, <2>8
<1>6. CASE IngestOrderEvent
  <2>1. events \in Seq(EventMessage) /\ events # <<>> BY <1>0, <1>6 DEF IngestOrderEvent, TypeOK, EventMessage
  <2>2. Head(events) \in EventMessage BY <2>1, TailMessages
  <2>3. Head(events).child \in Child BY <2>2 DEF EventMessage
  <2>4. RecordStatus(Head(events).child, Head(events).status, command) /\ UNCHANGED acks
    BY <1>6 DEF IngestOrderEvent
  <2>5. command \in [Child -> CommandStatus] BY <1>0 DEF TypeOK
  <2>6. CASE command[c] \in AckStatus BY <1>4, <2>3, <2>4, <2>5, <2>6
  <2>7. CASE command[c] \notin AckStatus BY <2>4, <2>7 DEF Answered
  <2> QED BY <2>6, <2>7
<1>7. CASE SubmitTradeIntent
  <2>1. command[c] = "ABSENT" /\ UNCHANGED acks
    BY <1>0, <1>7 DEF SubmitTradeIntent, ReleaseInv, queueVars
  <2> QED BY <1>1, <2>1 DEF Answered
<1>8. ASSUME NEW d \in Dispatchers, MarkDelivered(d) PROVE Answered(c)'
  <2>1. UNCHANGED acks /\ (command[c] = "PENDING_DELIVERY" \/ command'[c] = command[c])
    BY <1>0, <1>8 DEF MarkDelivered, queueVars, TypeOK
  <2> QED BY <1>1, <2>1 DEF Answered
<1>9. ASSUME Execute PROVE Answered(c)'
  <2>0. step # "IDLE" => current \in Child BY <1>0, NAssumption DEF TypeOK, Child
  <2>1. ASSUME NEW k \in Child, AnswerFromJournal(k) PROVE Answered(c)'
    <3>1. RecordedAnswer(journal[k]) \in AckStatus
      BY <1>0, <2>1, AnswerType DEF AnswerFromJournal, AlreadyExecuted, TypeOK
    <3> QED BY <1>3, <2>1, <3>1 DEF AnswerFromJournal, workerVars
  <2>2. CASE ReportUncertain
    BY <1>3, <2>0, <2>2 DEF ReportUncertain, AckStatus, workerVars
  <2>3. CASE AckJournal
    BY <1>3, <2>0, <2>3 DEF AckJournal, IInv, ExecutorOK, workerVars
  <2>4. CASE ReportException
    <3>1. ASSUME NEW state \in {journal[current], "NONE"}, Ack(current, Classify(state))
          PROVE  Answered(c)'
      <4>1. current \in Child /\ Classify(state) \in AckStatus
        BY <1>0, <2>0, <2>4, AnswerType DEF ReportException, TypeOK
      <4> QED BY <1>3, <2>4, <3>1, <4>1 DEF ReportException, workerVars
    <3>2. CASE UNCHANGED acks BY <1>2, <2>4, <3>2 DEF ReportException, workerVars
    <3> QED BY <2>4, <3>1, <3>2 DEF ReportException
  <2> QED BY <1>2, <1>9, <2>1, <2>2, <2>3, <2>4
          DEF Execute, TakeUp, PassFinalRisk, RefuseCommand, WritePreSubmit, MakeOrder,
              JournalReturn, RetireFile, queueVars, workerVars
<1> QED
  BY <1>2, <1>5, <1>6, <1>7, <1>8, <1>9
     DEF Next, vars, workerVars, queueVars, Dispatch, DispatchScan, PublishCommand, Ingest,
         ReconcileTerminalEvidence, Fault, DispatchFails, WorkerRestart, AdapterRestart,
         PostSubmitFailure, StorageFailure, BrokerUpdate, Expire

(* A command that was owed an answer is still owed it, or has it.          *)
LEMMA OwedStep ==
  ASSUME IInv, [Next]_vars, ioFaults = 0, ioFaults' = 0, NEW c \in Child, Owed(c)
  PROVE  (Owed(c) \/ Answered(c))'
<1>0. /\ TypeOK /\ ExecutorOK
      /\ step # "IDLE" => current \in Child
  BY NAssumption DEF IInv, TypeOK, Child
<1>1. ASSUME NEW k \in Child, NEW status \in AckStatus, Ack(k, status), current' = k,
             UNCHANGED files
      PROVE  (Owed(c) \/ Answered(c))'
  <2>1. CASE k # c BY <1>1, <2>1, OwedKept
  <2>2. CASE k = c
    <3>1. acks \in Seq(AckMessage) BY <1>0 DEF TypeOK, AckMessage
    <3>2. [child |-> k, status |-> status] \in AckMessage BY DEF AckMessage
    <3>3. [child |-> k, status |-> status] \in Messages(acks')
      BY <1>1, <3>1, <3>2, AppendMessages DEF Ack
    <3> QED BY <2>2, <3>3 DEF Answered
  <2> QED BY <2>1, <2>2
<1>2. CASE UNCHANGED <<files, step, current>>
  BY <1>2 DEF Owed
<1>3. CASE UNCHANGED files /\ step' \notin {"ARCHIVE", "DEAD_LETTER"}
  BY <1>3, OwedKept
<1>4. ASSUME NEW k \in Child, AnswerFromJournal(k) PROVE (Owed(c) \/ Answered(c))'
  <2>1. RecordedAnswer(journal[k]) \in AckStatus
    BY <1>0, <1>4, AnswerType DEF AnswerFromJournal, AlreadyExecuted, TypeOK
  <2> QED BY <1>1, <1>4, <2>1 DEF AnswerFromJournal, Goto
<1>5. CASE ReportUncertain
  BY <1>0, <1>1, <1>5 DEF ReportUncertain, Goto, AckStatus
<1>6. CASE AckJournal
  BY <1>0, <1>1, <1>6 DEF AckJournal, Goto, ExecutorOK
<1>7. CASE ReportException
  <2>1. /\ current \in Child /\ current' = current /\ UNCHANGED files
        /\ Ack(current, Classify(journal[current])) \/ ioFaults' = ioFaults + 1
    BY <1>0, <1>7 DEF ReportException, Goto
  <2>2. Classify(journal[current]) \in AckStatus BY <1>0, <2>1, AnswerType DEF TypeOK
  <2> QED BY <1>1, <2>1, <2>2
<1>8. CASE RetireFile
  <2>1. /\ files' = [files EXCEPT ![current] = @ - 1] /\ step' = "IDLE"
        /\ step \in {"ARCHIVE", "DEAD_LETTER"} /\ current \in Child
    BY <1>0, <1>8 DEF RetireFile, Goto
  <2> QED BY <1>0, <2>1 DEF Owed, TypeOK
<1>9. ASSUME NEW d \in Dispatchers, PublishCommand(d) PROVE Owed(c)'
  <2>1. PICK k \in batch[d] : files' = [files EXCEPT ![k] = @ + 1] BY <1>9 DEF PublishCommand
  <2>2. k \in Child /\ files \in [Child -> Nat] BY <1>0, <1>9, <2>1 DEF TypeOK
  <2> QED BY <1>9, <2>1, <2>2 DEF PublishCommand, Owed, executorVars
<1>10. CASE PostSubmitFailure \/ StorageFailure \/ \E d \in Dispatchers : DispatchFails(d)
  BY <1>10 DEF PostSubmitFailure, StorageFailure, DispatchFails
<1> QED
  BY <1>2, <1>3, <1>4, <1>5, <1>6, <1>7, <1>8, <1>9, <1>10
     DEF Next, vars, workerVars, queueVars, executorVars, Goto, Dispatch, DispatchScan, MarkDelivered,
         Ingest, IngestCommandAck, IngestOrderEvent, SubmitTradeIntent,
         ReconcileTerminalEvidence, Execute, TakeUp, PassFinalRisk, RefuseCommand,
         WritePreSubmit, MakeOrder, JournalReturn, Fault, WorkerRestart, AdapterRestart,
         BrokerUpdate, Expire

(* What becomes published was published before, or is so by a new file.    *)
LEMMA PublishedStep ==
  ASSUME IInv, [Next]_vars, NEW c \in Child, Published(c)'
  PROVE  Published(c) \/ Owed(c)'
<1>0. TypeOK /\ ExecutorOK /\ 0 \notin Child BY DEF IInv, Child
<1>1. CASE UNCHANGED <<command, unmarked>>
  BY <1>1 DEF Published
<1>2. ASSUME NEW k \in Child, NEW status, NEW rows \in [Child -> CommandStatus],
             RecordStatus(k, status, rows), rows[c] = "DELIVERED" => command[c] = "DELIVERED",
             UNCHANGED unmarked
      PROVE  Published(c)
  <2>1. Advance(rows, k, status, Child)[c] = "DELIVERED" => rows[c] = "DELIVERED"
    BY <1>2, AdvanceRow
  <2> QED BY <1>2, <2>1 DEF RecordStatus, Published
<1>3. CASE IngestCommandAck
  <2> DEFINE m == Head(acks)
             rows == [command EXCEPT ![m.child] = m.status]
  <2>1. acks \in Seq(AckMessage) /\ acks # <<>>
    BY <1>0, <1>3 DEF IngestCommandAck, TypeOK, AckMessage
  <2>2. m \in AckMessage BY <2>1, TailMessages
  <2>3. RecordStatus(m.child, StatusOfAck(m.status), rows) /\ UNCHANGED unmarked
    BY <1>3 DEF IngestCommandAck, dispatchVars
  <2> HIDE DEF m
  <2>4. m.child \in Child /\ m.status # "DELIVERED" /\ m.status \in CommandStatus
    BY <2>2 DEF AckMessage, AckStatus, CommandStatus
  <2>5. /\ rows \in [Child -> CommandStatus]
        /\ rows[c] = "DELIVERED" => command[c] = "DELIVERED"
    BY <1>0, <2>4 DEF TypeOK
  <2> HIDE DEF rows
  <2> QED BY <1>2, <2>3, <2>4, <2>5
<1>4. CASE IngestOrderEvent
  <2>1. events \in Seq(EventMessage) /\ events # <<>> BY <1>0, <1>4 DEF IngestOrderEvent, TypeOK, EventMessage
  <2>2. Head(events) \in EventMessage BY <2>1, TailMessages
  <2>3. Head(events).child \in Child /\ command \in [Child -> CommandStatus]
    BY <1>0, <2>2 DEF EventMessage, TypeOK
  <2>4. RecordStatus(Head(events).child, Head(events).status, command) /\ UNCHANGED unmarked
    BY <1>4 DEF IngestOrderEvent, dispatchVars
  <2> QED BY <1>2, <2>3, <2>4
<1>5. CASE SubmitTradeIntent
  <2>1. command'[c] # "DELIVERED" /\ UNCHANGED unmarked
    BY <1>5 DEF SubmitTradeIntent, dispatchVars
  <2> QED BY <2>1 DEF Published
<1>6. ASSUME NEW d \in Dispatchers, MarkDelivered(d) PROVE Published(c)
  <2>1. /\ command'[c] = command[c] \/ unmarked[d] = c
        /\ \A e \in Dispatchers : unmarked'[e] \in {0, unmarked[e]}
    BY <1>0, <1>6 DEF MarkDelivered, TypeOK
  <2> QED BY <1>0, <2>1 DEF Published
<1>7. ASSUME NEW d \in Dispatchers, PublishCommand(d) PROVE Published(c) \/ Owed(c)'
  <2>1. PICK k \in batch[d] :
          /\ files' = [files EXCEPT ![k] = @ + 1]
          /\ unmarked' = [unmarked EXCEPT ![d] = k]
    BY <1>7 DEF PublishCommand
  <2>2. /\ k \in Child /\ files \in [Child -> Nat] /\ UNCHANGED <<command, step, current>>
        /\ current = k /\ step # "IDLE" => files[k] > 0
    BY <1>0, <1>7, <2>1 DEF PublishCommand, workerVars, executorVars, TypeOK, ExecutorOK
  <2>3. CASE k = c BY <2>1, <2>2, <2>3 DEF Owed
  <2>4. CASE k # c BY <1>0, <2>1, <2>2, <2>4 DEF Published, TypeOK
  <2> QED BY <2>3, <2>4
<1>8. CASE WorkerRestart \/ \E d \in Dispatchers : DispatchFails(d)
  <2>1. command' = command /\ \A d \in Dispatchers : unmarked'[d] \in {0, unmarked[d]}
    BY <1>0, <1>8 DEF WorkerRestart, DispatchFails, workerVars, TypeOK
  <2> QED BY <1>0, <2>1 DEF Published
<1> QED
  BY <1>1, <1>3, <1>4, <1>5, <1>6, <1>7, <1>8
     DEF Next, vars, workerVars, dispatchVars, Dispatch, DispatchScan, Ingest,
         ReconcileTerminalEvidence, Execute, TakeUp, AnswerFromJournal, PassFinalRisk,
         RefuseCommand, WritePreSubmit, MakeOrder, JournalReturn, ReportUncertain, AckJournal,
         ReportException, RetireFile, Fault, AdapterRestart, PostSubmitFailure,
         StorageFailure, BrokerUpdate, Expire

(* A published command whose answer is neither in its row nor in the       *)
(* folder is still to be executed (_process_path keeps its file until      *)
(* the answer is written, publication precedes the mark of delivery): what *)
(* EveryCommandAnswered rests on, for any legs, dispatchers and kills.     *)
THEOREM NoCommandForgotten == Spec => []NoneForgotten
<1>1. Init => NoneForgotten
  BY DEF Init, NoneForgotten, Published, Child
<1>2. IInv /\ NoneForgotten /\ [Next]_vars => NoneForgotten'
  <2> SUFFICES ASSUME IInv, NoneForgotten, [Next]_vars, ioFaults' = 0, NEW c \in Child, Published(c)'
               PROVE  (Owed(c) \/ Answered(c))'
    BY DEF NoneForgotten
  <2>1. ioFaults = 0 BY FaultsGrow DEF IInv
  <2>2. Published(c) \/ Owed(c)' BY PublishedStep
  <2>3. CASE Published(c)
    <3>1. Owed(c) \/ Answered(c) BY <2>1, <2>3 DEF NoneForgotten
    <3> QED BY <2>1, <3>1, OwedStep, AnsweredStep
  <2> QED BY <2>2, <2>3
<1> QED BY <1>1, <1>2, Inductive, PTL DEF Spec

(* A report about a leg ends the wait of the next one, or is not its end.  *)
LEMMA RecordStrands ==
  ASSUME TypeOK, NoneStranded, NEW k \in Child, NEW status \in ChildStatus, NEW rows,
         status \notin {"BLOCKED_SEQUENCE", "SEQUENCE_ABORTED", "ABSENT"},
         RecordStatus(k, status, rows)
  PROVE  NoneStranded'
<1> DEFINE childRows == [child EXCEPT ![k] = status]
           later == (k + 1)..N
<1>0. N \in Nat /\ Child = 1..N BY NAssumption DEF Child
<1>1. /\ childRows \in [Child -> ChildStatus] /\ child' = Advance(childRows, k, status, later)
      /\ \A j \in Child : childRows[j] = IF j = k THEN status ELSE child[j]
      /\ \A j \in Child : j \in later <=> j > k
  BY <1>0 DEF TypeOK, RecordStatus
<1> HIDE DEF childRows, later
<1> SUFFICES ASSUME NEW c \in Child, c > 1, child'[c] = "BLOCKED_SEQUENCE"
             PROVE  child'[c - 1] \notin TerminalOrderStates \cup {"SEQUENCE_ABORTED", "ABSENT"}
  BY DEF NoneStranded
<1>2. c - 1 \in Child /\ c # k /\ child[c] = "BLOCKED_SEQUENCE" /\ childRows[c] = "BLOCKED_SEQUENCE"
  <2>1. c - 1 \in Child BY <1>0
  <2>2. childRows[c] = "BLOCKED_SEQUENCE"
    <3>1. CASE childRows[c] # "BLOCKED_SEQUENCE"
      <4>1. child'[c] = childRows[c] BY <1>1, <3>1, AdvanceKeeps
      <4> QED BY <3>1, <4>1
    <3> QED BY <3>1
  <2> QED BY <1>1, <2>1, <2>2
<1>3. child[c - 1] \notin TerminalOrderStates \cup {"SEQUENCE_ABORTED", "ABSENT"}
  BY <1>2 DEF NoneStranded
<1>4. child'[c] = IF status \notin TerminalOrderStates \/ k = N THEN childRows[c]
                  ELSE IF Releases(status)
                    THEN IF c = k + 1 THEN "PENDING_DELIVERY" ELSE childRows[c]
                  ELSE IF c \in later THEN "SEQUENCE_ABORTED" ELSE childRows[c]
  BY <1>1, <1>2, AdvanceRow
<1>5. \/ child'[c - 1] = childRows[c - 1]
      \/ child'[c - 1] = "PENDING_DELIVERY"
      \/ /\ c - 1 \in later /\ status \in TerminalOrderStates /\ k # N /\ ~Releases(status)
  BY <1>1, <1>2, AdvanceRow
<1>6. CASE c - 1 = k
  <2>1. status \notin TerminalOrderStates
    <3>1. c = k + 1 /\ k # N /\ c \in later BY <1>0, <1>1, <1>6
    <3> QED BY <1>4, <3>1
  <2>2. child'[c - 1] = status \/ child'[c - 1] = "PENDING_DELIVERY" BY <1>1, <1>2, <1>5, <1>6, <2>1
  <2> QED BY <2>1, <2>2 DEF TerminalOrderStates
<1>7. CASE c - 1 # k
  <2>1. ~(c - 1 \in later /\ status \in TerminalOrderStates /\ k # N /\ ~Releases(status))
    <3>1. c - 1 \in later => c \in later BY <1>0, <1>1, <1>2
    <3> QED BY <1>4, <3>1
  <2>2. child'[c - 1] = child[c - 1] \/ child'[c - 1] = "PENDING_DELIVERY"
    BY <1>1, <1>2, <1>5, <1>7, <2>1
  <2> QED BY <1>3, <2>2 DEF TerminalOrderStates
<1> QED BY <1>6, <1>7

(* No leg waits for one that has ended: filled, cancelled, refused, failed,*)
(* unknown or aborted (_advance_sequence), in whatever order the reports   *)
(* come and whoever is killed.                                             *)
THEOREM NoLegStranded == Spec => []NoneStranded
<1>1. Init => NoneStranded BY DEF Init, NoneStranded
<1>2. IInv /\ NoneStranded /\ [Next]_vars => NoneStranded'
  <2> SUFFICES ASSUME IInv, NoneStranded, [Next]_vars PROVE NoneStranded' OBVIOUS
  <2>0. TypeOK /\ N \in Nat /\ Child = 1..N BY NAssumption DEF IInv, Child
  <2>1. CASE UNCHANGED child BY <2>1 DEF NoneStranded
  <2>2. CASE SubmitTradeIntent
    BY <2>0, <2>2 DEF SubmitTradeIntent, NoneStranded, TerminalOrderStates
  <2>3. CASE IngestCommandAck
    <3> DEFINE m == Head(acks)
    <3>1. acks \in Seq(AckMessage) /\ acks # <<>>
      BY <2>0, <2>3 DEF IngestCommandAck, TypeOK, AckMessage
    <3>2. m \in AckMessage BY <3>1, TailMessages
    <3>3. PICK rows : RecordStatus(m.child, StatusOfAck(m.status), rows)
      BY <2>3 DEF IngestCommandAck
    <3> HIDE DEF m
    <3>4. /\ m.child \in Child /\ StatusOfAck(m.status) \in ChildStatus
          /\ StatusOfAck(m.status) \notin {"BLOCKED_SEQUENCE", "SEQUENCE_ABORTED", "ABSENT"}
      BY <3>2 DEF AckMessage, AckStatus, StatusOfAck, ChildStatus, EventStatus
    <3> QED BY <2>0, <3>3, <3>4, RecordStrands
  <2>4. CASE IngestOrderEvent
    <3>1. events \in Seq(EventMessage) /\ events # <<>>
      BY <2>0, <2>4 DEF IngestOrderEvent, TypeOK, EventMessage
    <3>2. Head(events) \in EventMessage BY <3>1, TailMessages
    <3>3. /\ Head(events).child \in Child /\ Head(events).status \in ChildStatus
          /\ Head(events).status \notin {"BLOCKED_SEQUENCE", "SEQUENCE_ABORTED", "ABSENT"}
      BY <3>2 DEF EventMessage, EventStatus, ChildStatus
    <3>4. RecordStatus(Head(events).child, Head(events).status, command)
      BY <2>4 DEF IngestOrderEvent
    <3> QED BY <2>0, <3>3, <3>4, RecordStrands
  <2>5. ASSUME NEW d \in Dispatchers, MarkDelivered(d) PROVE NoneStranded'
    <3>1. \A c \in Child : child'[c] = child[c] \/ child'[c] = "QUEUED"
      BY <2>0, <2>5 DEF MarkDelivered, TypeOK
    <3>2. \A c \in Child : c > 1 => c - 1 \in Child BY <2>0
    <3> QED BY <3>1, <3>2 DEF NoneStranded, TerminalOrderStates
  <2> QED
    BY <2>1, <2>2, <2>3, <2>4, <2>5
       DEF Next, vars, workerVars, Dispatch, DispatchScan, PublishCommand, Ingest,
           ReconcileTerminalEvidence, Execute, TakeUp, AnswerFromJournal, PassFinalRisk,
           RefuseCommand, WritePreSubmit, MakeOrder, JournalReturn, ReportUncertain, AckJournal,
           ReportException, RetireFile, Fault, DispatchFails, WorkerRestart, AdapterRestart,
           PostSubmitFailure, StorageFailure, BrokerUpdate, Expire
<1> QED BY <1>1, <1>2, Inductive, PTL DEF Spec

=============================================================================
