------------------------- MODULE OrderPipeline_proofs -------------------------
(***************************************************************************)
(* Proofs about OrderPipeline, for any number of child orders, any set of  *)
(* dispatching threads, any Profile and any number of faults.              *)
(***************************************************************************)
EXTENDS OrderPipeline, SequenceTheorems, TLAPS

AckMessage == [child : Child, status : AckStatus]
EventMessage == [child : Child, status : EventStatus]

(* The elements of a sequence. *)
Messages(s) == {s[i] : i \in DOMAIN s}

(* What appending, concatenating and taking the head away do to them. *)
LEMMA AppendMessages ==
  ASSUME NEW S, NEW s \in Seq(S), NEW e \in S
  PROVE  /\ Append(s, e) \in Seq(S)
         /\ Messages(Append(s, e)) = Messages(s) \cup {e}
<1>1. /\ Append(s, e) \in Seq(S) /\ Len(Append(s, e)) = Len(s) + 1 /\ Len(s) \in Nat
      /\ \A i \in 1..Len(s) : Append(s, e)[i] = s[i]
      /\ Append(s, e)[Len(s) + 1] = e
  BY AppendProperties, LenProperties
<1>2. DOMAIN s = 1..Len(s) /\ DOMAIN Append(s, e) = 1..(Len(s) + 1)
  BY <1>1, LenProperties
<1>3. ASSUME NEW m PROVE m \in Messages(Append(s, e)) <=> m \in Messages(s) \cup {e}
  <2>1. ASSUME NEW i \in 1..(Len(s) + 1), m = Append(s, e)[i]
        PROVE  m \in Messages(s) \cup {e}
    <3>1. CASE i = Len(s) + 1 BY <3>1, <2>1, <1>1
    <3>2. CASE i # Len(s) + 1
      <4>1. i \in 1..Len(s) BY <3>2, <1>1
      <4> QED BY <4>1, <2>1, <1>1, <1>2 DEF Messages
    <3> QED BY <3>1, <3>2
  <2>2. ASSUME NEW i \in 1..Len(s), m = s[i] PROVE m \in Messages(Append(s, e))
    <3>1. i \in 1..(Len(s) + 1) BY <1>1
    <3> QED BY <3>1, <2>2, <1>1, <1>2 DEF Messages
  <2>3. e \in Messages(Append(s, e))
    <3>1. Len(s) + 1 \in 1..(Len(s) + 1) BY <1>1
    <3> QED BY <3>1, <1>1, <1>2 DEF Messages
  <2> QED BY <2>1, <2>2, <2>3, <1>2 DEF Messages
<1> QED BY <1>1, <1>3

LEMMA MessagesType ==
  ASSUME NEW S, NEW s \in Seq(S)
  PROVE  Messages(s) \subseteq S
BY LenProperties, ElementOfSeq DEF Messages

LEMMA TailMessages ==
  ASSUME NEW S, NEW s \in Seq(S), s # <<>>
  PROVE  /\ Head(s) \in S /\ Head(s) \in Messages(s)
         /\ Tail(s) \in Seq(S)
         /\ Messages(Tail(s)) \subseteq Messages(s)
<1>1. /\ Head(s) \in S /\ Tail(s) \in Seq(S) /\ Len(Tail(s)) = Len(s) - 1
      /\ \A i \in 1..Len(Tail(s)) : Tail(s)[i] = s[i + 1]
  BY HeadTailProperties
<1>2. /\ Len(s) \in Nat \ {0} /\ Head(s) = s[1]
      /\ DOMAIN s = 1..Len(s) /\ DOMAIN Tail(s) = 1..Len(Tail(s))
  BY <1>1, EmptySeq, LenProperties
<1>3. Head(s) \in Messages(s)
  <2>1. 1 \in DOMAIN s BY <1>2
  <2> QED BY <2>1, <1>2 DEF Messages
<1>4. ASSUME NEW i \in DOMAIN Tail(s) PROVE Tail(s)[i] \in Messages(s)
  <2>1. i + 1 \in DOMAIN s /\ Tail(s)[i] = s[i + 1] BY <1>1, <1>2
  <2> QED BY <2>1 DEF Messages
<1> QED BY <1>1, <1>3, <1>4 DEF Messages

LEMMA ConcatMessages ==
  ASSUME NEW S, NEW s \in Seq(S), NEW t \in Seq(S)
  PROVE  /\ s \o t \in Seq(S)
         /\ Messages(s \o t) \subseteq Messages(s) \cup Messages(t)
<1>1. /\ s \o t \in Seq(S) /\ Len(s \o t) = Len(s) + Len(t)
      /\ \A i \in 1..(Len(s) + Len(t)) :
           (s \o t)[i] = IF i <= Len(s) THEN s[i] ELSE t[i - Len(s)]
  BY ConcatProperties
<1>2. /\ Len(s) \in Nat /\ Len(t) \in Nat
      /\ DOMAIN s = 1..Len(s) /\ DOMAIN t = 1..Len(t)
      /\ DOMAIN (s \o t) = 1..(Len(s) + Len(t))
  BY <1>1, LenProperties
<1>3. ASSUME NEW i \in 1..(Len(s) + Len(t)) PROVE (s \o t)[i] \in Messages(s) \cup Messages(t)
  <2>1. CASE i <= Len(s)
    <3>1. i \in DOMAIN s /\ (s \o t)[i] = s[i] BY <2>1, <1>1, <1>2
    <3> QED BY <3>1 DEF Messages
  <2>2. CASE ~(i <= Len(s))
    <3>1. i - Len(s) \in DOMAIN t /\ (s \o t)[i] = t[i - Len(s)] BY <2>2, <1>1, <1>2
    <3> QED BY <3>1 DEF Messages
  <2> QED BY <2>1, <2>2
<1> QED BY <1>1, <1>2, <1>3 DEF Messages

-----------------------------------------------------------------------------
(* Type correctness.                                                       *)

(* What TypeOK rests on: the executor keeps the file it has claimed until  *)
(* it retires it, calls and returns with a journal, and acknowledges that  *)
(* only once it is an answer.                                              *)
ExecutorOK ==
  /\ step # "IDLE" => files[current] > 0
  /\ step \in {"PRE_SUBMIT", "RETURNED"} => journal[current] # "NONE"
  /\ step = "JOURNALED" => journal[current] \in AckStatus

(* Aggregating and advancing stay within the statuses. *)
LEMMA AggregateType == \A ch : Aggregate(ch) \in IntentStatus
BY DEF Aggregate, IntentStatus

LEMMA AdvanceType ==
  ASSUME NEW S, NEW rows \in [Child -> S], NEW c \in Child, NEW status, NEW aborted,
         "PENDING_DELIVERY" \in S, "SEQUENCE_ABORTED" \in S
  PROVE  Advance(rows, c, status, aborted) \in [Child -> S]
BY DEF Advance

LEMMA RecordStatusType ==
  ASSUME TypeOK, NEW c \in Child, NEW status \in ChildStatus,
         NEW commandRows \in [Child -> CommandStatus],
         RecordStatus(c, status, commandRows)
  PROVE  /\ child' \in [Child -> ChildStatus]
         /\ command' \in [Child -> CommandStatus]
         /\ intent' \in IntentStatus
<1>1. [child EXCEPT ![c] = status] \in [Child -> ChildStatus] BY DEF TypeOK
<1>2. /\ {"PENDING_DELIVERY", "SEQUENCE_ABORTED"} \subseteq ChildStatus
      /\ {"PENDING_DELIVERY", "SEQUENCE_ABORTED"} \subseteq CommandStatus
  BY DEF ChildStatus, CommandStatus, WaitingStatus
<1>3. child' \in [Child -> ChildStatus] BY <1>1, <1>2, AdvanceType DEF RecordStatus
<1>4. command' \in [Child -> CommandStatus] BY <1>2, AdvanceType DEF RecordStatus
<1>5. intent' \in IntentStatus BY AggregateType DEF RecordStatus
<1> QED BY <1>3, <1>4, <1>5

(* The executor always answers with a status of the protocol. *)
LEMMA AckType ==
  ASSUME TypeOK, NEW c \in Child, NEW status \in AckStatus, Ack(c, status)
  PROVE  acks' \in Seq(AckMessage) /\ acks' \in Seq([child : Child, status : AckStatus])
<1>1. [child |-> c, status |-> status] \in AckMessage BY DEF AckMessage
<1>2. acks \in Seq(AckMessage) BY DEF TypeOK, AckMessage
<1> QED BY <1>1, <1>2, AppendMessages DEF Ack, AckMessage

LEMMA AnswerType ==
  /\ \A state \in JournalState \ {"NONE"} :
       RecordedAnswer(state) \in AckStatus
  /\ \A state \in JournalState : Classify(state) \in AckStatus
  /\ Classify("NONE") \in AckStatus
BY DEF RecordedAnswer, Classify, JournalState, AckStatus

(* The reports of a change at the broker are order events. *)
LEMMA ReportType ==
  ASSUME NEW c \in Child, NEW old \in BrokerState, NEW state \in BrokerNext(old),
         NEW report \in Callbacks(state)
  PROVE  /\ state \in BrokerState \ {"NONE"}
         /\ [i \in DOMAIN report |-> [child |-> c, status |-> report[i]]] \in Seq(EventMessage)
         /\ \A i \in DOMAIN report : report[i] = "FILLED" => state = "FILLED"
<1>1. state \in {"QUEUED", "WORKING", "FILLED", "CANCELLED", "REJECTED", "PARTIALLY_FILLED",
                 "PARTIALLY_FILLED_CANCELLED"}
  BY DEF BrokerNext, BrokerState
<1>2. Normalize(state) \in EventStatus /\ (Normalize(state) = "FILLED" => state = "FILLED")
  BY <1>1 DEF Normalize, EventStatus
<1>3. \/ report = <<Normalize(state)>>
      \/ report = <<Normalize(state), "CANCELLED">>
      \/ report = <<"CANCELLED", Normalize(state)>>
  BY DEF Callbacks
<1>4. "CANCELLED" \in EventStatus BY DEF EventStatus
<1>5. report \in Seq(EventStatus)
  <2>1. CASE report = <<Normalize(state)>> BY <2>1, <1>2
  <2>2. CASE report = <<Normalize(state), "CANCELLED">> BY <2>2, <1>2, <1>4
  <2>3. CASE report = <<"CANCELLED", Normalize(state)>> BY <2>3, <1>2, <1>4
  <2> QED BY <1>3, <2>1, <2>2, <2>3
<1>6. DOMAIN report = 1..Len(report) /\ Len(report) \in Nat BY <1>5
<1>7. \A i \in DOMAIN report : report[i] \in EventStatus BY <1>5
<1>8. \A i \in DOMAIN report : report[i] = "FILLED" => state = "FILLED"
  BY <1>2, <1>3
<1>9. [i \in DOMAIN report |-> [child |-> c, status |-> report[i]]] \in Seq(EventMessage)
  BY <1>6, <1>7 DEF EventMessage
<1> QED BY <1>1, <1>8, <1>9 DEF BrokerState

(* TypeOK is inductive. *)
LEMMA TypeInit == Init => TypeOK
<1> SUFFICES ASSUME Init PROVE TypeOK OBVIOUS
<1>1. acks \in Seq([child : Child, status : AckStatus])
      /\ events \in Seq([child : Child, status : EventStatus])
  BY DEF Init
<1>2. /\ intent \in IntentStatus /\ child \in [Child -> ChildStatus]
      /\ command \in [Child -> CommandStatus] /\ journal \in [Child -> JournalState]
      /\ broker \in [Child -> BrokerState]
  BY DEF Init, IntentStatus, ChildStatus, CommandStatus, JournalState, BrokerState
<1>3. /\ batch \in [Dispatchers -> SUBSET Child] /\ unmarked \in [Dispatchers -> 0..N]
      /\ files \in [Child -> Nat] /\ submitted \in [Child -> Nat]
      /\ current \in 0..N /\ (step = "IDLE") <=> (current = 0)
      /\ crashes \in 0..MaxCrashes /\ ioFaults \in 0..MaxIoFaults
  BY NAssumption, BoundAssumption DEF Init
<1> QED BY <1>1, <1>2, <1>3 DEF Init, TypeOK

LEMMA WorkerType ==
  ASSUME TypeOK,
         SubmitTradeIntent \/ IngestCommandAck \/ IngestOrderEvent
           \/ ReconcileTerminalEvidence \/ WorkerRestart
  PROVE  TypeOK'
<1>1. CASE SubmitTradeIntent
  <2>1. child' \in [Child -> {"PENDING_DELIVERY", "BLOCKED_SEQUENCE"}] /\ command' = child'
    BY <1>1 DEF SubmitTradeIntent
  <2>2. child' \in [Child -> ChildStatus] /\ command' \in [Child -> CommandStatus]
    BY <2>1 DEF ChildStatus, CommandStatus, WaitingStatus
  <2> QED BY <1>1, <2>2
          DEF SubmitTradeIntent, TypeOK, IntentStatus, dispatchVars, queueVars, executorVars,
              brokerVars
<1>2. CASE IngestCommandAck
  <2> DEFINE ack == Head(acks)
  <2>1. ack \in AckMessage /\ acks' \in Seq(AckMessage)
    BY <1>2, TailMessages DEF IngestCommandAck, TypeOK, AckMessage
  <2>2. ack.child \in Child /\ ack.status \in CommandStatus
        /\ StatusOfAck(ack.status) \in ChildStatus
    BY <2>1 DEF AckMessage, CommandStatus, AckStatus, StatusOfAck, ChildStatus, EventStatus
  <2>3. [command EXCEPT ![ack.child] = ack.status] \in [Child -> CommandStatus]
    BY <2>2 DEF TypeOK
  <2>4. RecordStatus(ack.child, StatusOfAck(ack.status),
                     [command EXCEPT ![ack.child] = ack.status])
    BY <1>2 DEF IngestCommandAck
  <2> HIDE DEF ack
  <2>5. /\ child' \in [Child -> ChildStatus] /\ command' \in [Child -> CommandStatus]
        /\ intent' \in IntentStatus
    BY <2>2, <2>3, <2>4, RecordStatusType
  <2> QED BY <1>2, <2>1, <2>5
          DEF IngestCommandAck, TypeOK, AckMessage, dispatchVars, executorVars, brokerVars
<1>3. CASE IngestOrderEvent
  <2> DEFINE event == Head(events)
  <2>1. event \in EventMessage /\ events' \in Seq(EventMessage)
    BY <1>3, TailMessages DEF IngestOrderEvent, TypeOK, EventMessage
  <2>2. event.child \in Child /\ event.status \in ChildStatus
    BY <2>1 DEF EventMessage, ChildStatus
  <2>3. RecordStatus(event.child, event.status, command) BY <1>3 DEF IngestOrderEvent
  <2> HIDE DEF event
  <2>4. command \in [Child -> CommandStatus] BY DEF TypeOK
  <2>5. /\ child' \in [Child -> ChildStatus] /\ command' \in [Child -> CommandStatus]
        /\ intent' \in IntentStatus
    BY <2>2, <2>3, <2>4, RecordStatusType
  <2> QED BY <1>3, <2>1, <2>5
          DEF IngestOrderEvent, TypeOK, EventMessage, dispatchVars, executorVars, brokerVars
<1>4. CASE ReconcileTerminalEvidence
  BY <1>4, AggregateType
     DEF ReconcileTerminalEvidence, TypeOK, dispatchVars, queueVars, executorVars, brokerVars
<1>5. CASE WorkerRestart
  <2>1. intent' \in IntentStatus BY <1>5, AggregateType DEF WorkerRestart, TypeOK
  <2>2. batch' \in [Dispatchers -> SUBSET Child] /\ unmarked' \in [Dispatchers -> 0..N]
    BY <1>5, NAssumption DEF WorkerRestart
  <2>3. crashes' \in 0..MaxCrashes BY <1>5, BoundAssumption DEF WorkerRestart, TypeOK
  <2> QED BY <1>5, <2>1, <2>2, <2>3 DEF WorkerRestart, TypeOK, queueVars, executorVars, brokerVars
<1> QED BY <1>1, <1>2, <1>3, <1>4, <1>5

LEMMA DispatchType ==
  ASSUME TypeOK, NEW d \in Dispatchers, Dispatch(d) \/ DispatchFails(d)
  PROVE  TypeOK'
<1>1. CASE DispatchScan(d)
  BY <1>1 DEF DispatchScan, TypeOK, workerVars, queueVars, executorVars, brokerVars
<1>2. CASE PublishCommand(d)
  <2>1. PICK c \in batch[d] : /\ files' = [files EXCEPT ![c] = @ + 1]
                              /\ batch' = [batch EXCEPT ![d] = @ \ {c}]
                              /\ unmarked' = [unmarked EXCEPT ![d] = c]
    BY <1>2 DEF PublishCommand
  <2>2. c \in Child /\ c \in 0..N BY <2>1, NAssumption DEF TypeOK, Child
  <2>3. /\ files' \in [Child -> Nat] /\ batch' \in [Dispatchers -> SUBSET Child]
        /\ unmarked' \in [Dispatchers -> 0..N]
    BY <2>1, <2>2 DEF TypeOK
  <2> QED BY <1>2, <2>3 DEF PublishCommand, TypeOK, workerVars, executorVars, brokerVars
<1>3. CASE MarkDelivered(d)
  <2>1. command' \in [Child -> CommandStatus] /\ child' \in [Child -> ChildStatus]
    BY <1>3 DEF MarkDelivered, TypeOK, CommandStatus, ChildStatus, EventStatus
  <2> QED BY <1>3, <2>1, NAssumption
          DEF MarkDelivered, TypeOK, IntentStatus, queueVars, executorVars, brokerVars
<1>4. CASE DispatchFails(d)
  BY <1>4, NAssumption, BoundAssumption
     DEF DispatchFails, TypeOK, workerVars, queueVars, executorVars, brokerVars
<1> QED BY <1>1, <1>2, <1>3, <1>4 DEF Dispatch

LEMMA ExecuteType ==
  ASSUME TypeOK, ExecutorOK, Execute \/ AdapterRestart \/ PostSubmitFailure \/ StorageFailure
  PROVE  TypeOK'
<1>0. 0 \notin Child /\ Child \subseteq 0..N /\ (step # "IDLE" => current \in Child)
  BY NAssumption DEF Child, TypeOK
<1>1. ASSUME NEW c \in Child, AnswerFromJournal(c) PROVE TypeOK'
  <2>1. RecordedAnswer(journal[c]) \in AckStatus
    BY <1>1, AnswerType DEF AnswerFromJournal, AlreadyExecuted, TypeOK
  <2>2. acks' \in Seq([child : Child, status : AckStatus])
    BY <1>1, <2>1, AckType DEF AnswerFromJournal
  <2> QED BY <1>0, <1>1, <2>2
          DEF AnswerFromJournal, PauseAutoLocally, Goto, TypeOK, workerVars, dispatchVars,
              brokerVars
<1>2. ASSUME NEW c \in Child, PassFinalRisk(c) PROVE TypeOK'
  <2>1. journal' \in [Child -> JournalState]
    BY <1>2 DEF PassFinalRisk, TypeOK, JournalState
  <2> QED BY <1>0, <1>2, <2>1
          DEF PassFinalRisk, Goto, TypeOK, workerVars, dispatchVars, queueVars, brokerVars
<1>3. ASSUME NEW c \in Child, RefuseCommand(c) PROVE TypeOK'
  BY <1>0, <1>3
     DEF RefuseCommand, Goto, TypeOK, workerVars, dispatchVars, queueVars, brokerVars
<1>4. CASE WritePreSubmit
  <2>1. journal' \in [Child -> JournalState] BY <1>4 DEF WritePreSubmit, TypeOK, JournalState
  <2> QED BY <1>0, <1>4, <2>1
          DEF WritePreSubmit, Goto, TypeOK, workerVars, dispatchVars, queueVars, brokerVars
<1>5. CASE MakeOrder
  <2>1. /\ submitted' \in [Child -> Nat] /\ broker' \in [Child -> BrokerState]
        /\ result' \in {"NONE", "ORDER_ID", "MINUS_ONE", "UNCERTAIN"}
    BY <1>0, <1>5 DEF MakeOrder, TypeOK, BrokerState
  <2> QED BY <1>0, <1>5, <2>1
          DEF MakeOrder, Goto, TypeOK, workerVars, dispatchVars, queueVars
<1>6. CASE JournalReturn
  <2>1. journal' \in [Child -> JournalState] BY <1>6 DEF JournalReturn, TypeOK, JournalState
  <2> QED BY <1>0, <1>6, <2>1
          DEF JournalReturn, Goto, TypeOK, workerVars, dispatchVars, queueVars, brokerVars
<1>7. CASE ReportUncertain
  <2>1. acks' \in Seq([child : Child, status : AckStatus])
    BY <1>0, <1>7, AckType DEF ReportUncertain, AckStatus
  <2> QED BY <1>0, <1>7, <2>1
          DEF ReportUncertain, PauseAutoLocally, Goto, TypeOK, workerVars, dispatchVars,
              brokerVars
<1>8. CASE AckJournal
  <2>1. acks' \in Seq([child : Child, status : AckStatus])
    BY <1>0, <1>8, AckType DEF AckJournal, ExecutorOK
  <2> QED BY <1>0, <1>8, <2>1
          DEF AckJournal, Goto, TypeOK, workerVars, dispatchVars, brokerVars
<1>9. CASE ReportException
  <2>1. Classify(journal[current]) \in AckStatus
    BY <1>0, <1>9, AnswerType DEF ReportException, TypeOK
  <2>2. acks' \in Seq([child : Child, status : AckStatus])
    BY <1>0, <1>9, <2>1, AnswerType, AckType DEF ReportException, TypeOK
  <2>3. ioFaults' \in 0..MaxIoFaults BY <1>9, BoundAssumption DEF ReportException, TypeOK
  <2> QED BY <1>0, <1>9, <2>2, <2>3
          DEF ReportException, PauseAutoLocally, Goto, TypeOK, workerVars, dispatchVars,
              brokerVars
<1>10. CASE RetireFile
  <2>1. files' \in [Child -> Nat]
    BY <1>0, <1>10 DEF RetireFile, TypeOK, ExecutorOK
  <2> QED BY <1>0, <1>10, <2>1, NAssumption
          DEF RetireFile, Goto, TypeOK, workerVars, dispatchVars, brokerVars
<1>11. CASE AdapterRestart
  BY <1>11, NAssumption, BoundAssumption
     DEF AdapterRestart, Goto, TypeOK, workerVars, dispatchVars, queueVars, brokerVars
<1>12. CASE PostSubmitFailure
  BY <1>0, <1>12, BoundAssumption
     DEF PostSubmitFailure, Goto, TypeOK, workerVars, dispatchVars, queueVars, brokerVars
<1>13. CASE StorageFailure
  BY <1>0, <1>13, NAssumption, BoundAssumption
     DEF StorageFailure, Goto, TypeOK, workerVars, dispatchVars, queueVars, brokerVars
<1> QED BY <1>1, <1>2, <1>3, <1>4, <1>5, <1>6, <1>7, <1>8, <1>9, <1>10, <1>11, <1>12, <1>13
        DEF Execute, TakeUp

LEMMA BrokerType ==
  ASSUME TypeOK, Expire \/ \E c \in Child : BrokerUpdate(c)
  PROVE  TypeOK'
<1>1. CASE Expire
  BY <1>1 DEF Expire, TypeOK, workerVars, dispatchVars, queueVars, executorVars, brokerVars
<1>2. ASSUME NEW c \in Child, BrokerUpdate(c) PROVE TypeOK'
  <2>1. PICK state \in BrokerNext(broker[c]) :
          /\ broker' = [broker EXCEPT ![c] = state]
          /\ \/ /\ \E report \in Callbacks(state) :
                     events' = events \o [i \in DOMAIN report |->
                                            [child |-> c, status |-> report[i]]]
                /\ UNCHANGED ioFaults
             \/ /\ ioFaults < MaxIoFaults
                /\ ioFaults' = ioFaults + 1
                /\ UNCHANGED events
    BY <1>2 DEF BrokerUpdate
  <2>2. broker' \in [Child -> BrokerState]
    <3>1. state \in BrokerState
      BY <2>1 DEF BrokerNext, BrokerState
    <3> QED BY <2>1, <3>1 DEF TypeOK
  <2>3. events' \in Seq([child : Child, status : EventStatus])
    <3>1. events \in Seq(EventMessage) BY DEF TypeOK, EventMessage
    <3>2. ASSUME NEW report \in Callbacks(state)
          PROVE  events \o [i \in DOMAIN report |-> [child |-> c, status |-> report[i]]]
                   \in Seq(EventMessage)
      <4>1. broker[c] \in BrokerState BY DEF TypeOK
      <4>2. [i \in DOMAIN report |-> [child |-> c, status |-> report[i]]] \in Seq(EventMessage)
        BY <4>1, ReportType
      <4> QED BY <3>1, <4>2, ConcatMessages
    <3> QED BY <2>1, <3>1, <3>2 DEF EventMessage
  <2>4. ioFaults' \in 0..MaxIoFaults BY <2>1, BoundAssumption DEF TypeOK
  <2> QED BY <1>2, <2>2, <2>3, <2>4
          DEF BrokerUpdate, TypeOK, workerVars, dispatchVars, executorVars
<1> QED BY <1>1, <1>2

LEMMA ExecutorStep ==
  ASSUME TypeOK, ExecutorOK, [Next]_vars
  PROVE  ExecutorOK'
<1>0. step # "IDLE" => current \in Child
  BY NAssumption DEF Child, TypeOK
<1>1. CASE UNCHANGED <<step, current, files, journal>>
  BY <1>1 DEF ExecutorOK
<1>2. ASSUME NEW d \in Dispatchers, PublishCommand(d) PROVE ExecutorOK'
  <2>1. PICK c \in batch[d] : files' = [files EXCEPT ![c] = @ + 1] BY <1>2 DEF PublishCommand
  <2>2. \A k \in Child : files[k] > 0 => files'[k] > 0 BY <2>1 DEF TypeOK
  <2> QED BY <1>0, <1>2, <2>2 DEF PublishCommand, ExecutorOK, executorVars
<1>3. CASE Execute
  <2>1. ASSUME NEW c \in Child, TakeUp(c) PROVE ExecutorOK'
    BY <2>1 DEF TakeUp, AnswerFromJournal, PassFinalRisk, RefuseCommand, ExecutorOK, Goto,
                TypeOK, AckStatus, queueVars
  <2>2. CASE WritePreSubmit \/ MakeOrder \/ ReportUncertain \/ AckJournal \/ ReportException
              \/ RetireFile
    BY <1>0, <2>2 DEF TypeOK, WritePreSubmit, MakeOrder, ReportUncertain, AckJournal, ReportException,
                RetireFile, ExecutorOK, Goto, queueVars
  <2>3. CASE JournalReturn
    BY <1>0, <2>3 DEF JournalReturn, ExecutorOK, Goto, TypeOK, AckStatus, queueVars
  <2> QED BY <1>3, <2>1, <2>2, <2>3 DEF Execute
<1>4. CASE AdapterRestart \/ PostSubmitFailure \/ StorageFailure
  BY <1>4 DEF AdapterRestart, PostSubmitFailure, StorageFailure, ExecutorOK, Goto, queueVars,
              AckStatus
<1> QED
  BY <1>1, <1>2, <1>3, <1>4
     DEF Next, vars, Dispatch, DispatchScan, MarkDelivered, Ingest, IngestCommandAck,
         IngestOrderEvent, SubmitTradeIntent, ReconcileTerminalEvidence, Fault, DispatchFails,
         WorkerRestart, BrokerUpdate, Expire, queueVars, executorVars

LEMMA TypeStep == TypeOK /\ ExecutorOK /\ [Next]_vars => TypeOK' /\ ExecutorOK'
<1> SUFFICES ASSUME TypeOK, ExecutorOK, [Next]_vars PROVE TypeOK' /\ ExecutorOK'
  OBVIOUS
<1>1. CASE UNCHANGED vars
  BY <1>1 DEF vars, workerVars, dispatchVars, queueVars, executorVars, brokerVars, TypeOK,
              ExecutorOK
<1>2. CASE Next
  BY <1>2, WorkerType, DispatchType, ExecuteType, BrokerType, ExecutorStep
     DEF Next, Ingest, Fault
<1> QED BY <1>1, <1>2

(* Every reachable state has the type of the model. *)
THEOREM TypeCorrect == Spec => []TypeOK
<1>1. Init => TypeOK /\ ExecutorOK BY TypeInit DEF Init, ExecutorOK
<1> QED BY <1>1, TypeStep, PTL DEF Spec

-----------------------------------------------------------------------------
(* The inductive invariant.                                                *)

(* Where the executor stands, the journal and the broker agree: the order  *)
(* entry is still ahead only while there is no journal, and once it is     *)
(* behind there always is one. Observed intents never get that far.        *)
SubmissionInv ==
  /\ \A c \in Child :
       /\ submitted[c] \in {0, 1}
       /\ submitted[c] = 1 => journal[c] # "NONE" /\ mode # "OBSERVE_ONLY"
       /\ submitted[c] = 0 => broker[c] = "NONE"
       /\ journal[c] = "OBSERVE_ONLY_ACKNOWLEDGED" => mode = "OBSERVE_ONLY"
  /\ JournalNeverDeniesOrder
  /\ step = "PREPARED" => journal[current] = "NONE" /\ mode # "OBSERVE_ONLY"
  /\ step = "PRE_SUBMIT" =>
       journal[current] = "PRE_SUBMIT" /\ submitted[current] = 0 /\ mode # "OBSERVE_ONLY"
  /\ step = "RETURNED" /\ result = "MINUS_ONE" => broker[current] = "NONE"

Held == {"ABSENT", "BLOCKED_SEQUENCE", "SEQUENCE_ABORTED"}

(* The sequence has let child c go. Nothing takes that back. *)
Released(c) == command[c] \notin Held

(* Whatever exists of a command outside its row, or came of it, exists     *)
(* only after its release; the legs are released in order, and each one    *)
(* only when the broker has filled those before it.                        *)
ReleaseInv ==
  /\ intent = "ABSENT" => \A c \in Child : command[c] = "ABSENT"
  /\ \A c \in Child :
       /\ files[c] > 0 \/ journal[c] # "NONE" \/ submitted[c] = 1 => Released(c)
       /\ \A d \in Dispatchers : c \in batch[d] \/ unmarked[d] = c => Released(c)
       /\ \A h \in Held : child[c] = h <=> command[c] = h
       /\ \A k \in Child : Released(c) /\ k < c =>
            Released(k) /\ (mode # "OBSERVE_ONLY" => broker[k] = "FILLED")
  /\ \A m \in Messages(acks) :
       /\ Released(m.child)
       /\ m.status = "OBSERVE_ONLY_ACKNOWLEDGED" => mode = "OBSERVE_ONLY"
  /\ \A m \in Messages(events) :
       /\ submitted[m.child] = 1
       /\ m.status = "FILLED" => broker[m.child] = "FILLED"

IInv == TypeOK /\ ExecutorOK /\ SubmissionInv /\ ReleaseInv

LEMMA SubmissionStep ==
  ASSUME TypeOK, SubmissionInv, [Next]_vars
  PROVE  SubmissionInv'
<1>0. (step # "IDLE" => current \in Child) /\ 0 \notin Child
  BY NAssumption DEF Child, TypeOK
<1> USE DEF SubmissionInv, JournalNeverDeniesOrder
<1>1. CASE UNCHANGED <<mode, journal, executorVars, brokerVars>>
  BY <1>1 DEF executorVars, brokerVars
<1>2. ASSUME NEW c \in Child, PassFinalRisk(c) PROVE SubmissionInv'
  <2>1. journal[c] = "NONE" BY <1>2 DEF PassFinalRisk, AlreadyExecuted
  <2>2. submitted[c] = 0 /\ broker[c] = "NONE" BY <2>1
  <2>3. CASE mode = "OBSERVE_ONLY"
    BY <1>2, <2>1, <2>2, <2>3 DEF PassFinalRisk, Goto, TypeOK, brokerVars
  <2>4. CASE mode # "OBSERVE_ONLY"
    BY <1>2, <2>1, <2>2, <2>4 DEF PassFinalRisk, Goto, TypeOK, brokerVars
  <2> QED BY <2>3, <2>4
<1>3. CASE WritePreSubmit
  <2>1. journal[current] = "NONE" /\ submitted[current] = 0 BY <1>0, <1>3 DEF WritePreSubmit
  <2> QED BY <1>0, <1>3, <2>1 DEF WritePreSubmit, Goto, TypeOK, brokerVars
<1>4. CASE MakeOrder
  <2>1. /\ current \in Child /\ journal[current] = "PRE_SUBMIT" /\ submitted[current] = 0
        /\ broker[current] = "NONE" /\ mode # "OBSERVE_ONLY"
    BY <1>0, <1>4 DEF MakeOrder
  <2>2. /\ submitted' = [submitted EXCEPT ![current] = 1]
        /\ \A c \in Child : c # current => broker'[c] = broker[c]
        /\ result' = "MINUS_ONE" => broker' = broker
        /\ step' = "RETURNED" /\ UNCHANGED <<mode, journal, current>>
    BY <1>4, <2>1 DEF MakeOrder, Goto, TypeOK
  <2> QED BY <2>1, <2>2 DEF TypeOK
<1>5. CASE JournalReturn
  <2>1. current \in Child BY <1>0, <1>5 DEF JournalReturn
  <2>2. result = "ORDER_ID" \/ broker[current] = "NONE"
    BY <1>5 DEF JournalReturn, Classified
  <2> QED BY <1>5, <2>1, <2>2 DEF JournalReturn, Goto, TypeOK, brokerVars
<1>6. ASSUME NEW c \in Child, AnswerFromJournal(c) \/ RefuseCommand(c) PROVE SubmissionInv'
  BY <1>6 DEF AnswerFromJournal, RefuseCommand, Goto, brokerVars
<1>7. CASE ReportUncertain \/ AckJournal \/ ReportException \/ RetireFile
  BY <1>7 DEF ReportUncertain, AckJournal, ReportException, RetireFile, Goto, brokerVars
<1>8. CASE AdapterRestart \/ PostSubmitFailure \/ StorageFailure
  BY <1>8 DEF AdapterRestart, PostSubmitFailure, StorageFailure, Goto, brokerVars
<1>9. ASSUME NEW c \in Child, BrokerUpdate(c) PROVE SubmissionInv'
  <2>1. PICK state \in BrokerNext(broker[c]) : broker' = [broker EXCEPT ![c] = state]
    BY <1>9 DEF BrokerUpdate
  <2>2. broker[c] # "NONE" BY <2>1 DEF BrokerNext
  <2> QED BY <1>9, <2>1, <2>2 DEF BrokerUpdate, TypeOK, executorVars
<1> QED
  BY <1>1, <1>2, <1>3, <1>4, <1>5, <1>6, <1>7, <1>8, <1>9
     DEF Next, vars, Dispatch, DispatchScan, PublishCommand, MarkDelivered, Ingest,
         IngestCommandAck, IngestOrderEvent, SubmitTradeIntent, ReconcileTerminalEvidence,
         Execute, TakeUp, Fault, DispatchFails, WorkerRestart, Expire, executorVars,
         brokerVars

(* What advancing the sequence does to one row. *)
LEMMA AdvanceRow ==
  ASSUME NEW S, NEW rows \in [Child -> S], NEW c \in Child, NEW status, NEW aborted,
         NEW k \in Child
  PROVE  Advance(rows, c, status, aborted)[k] =
           IF rows[k] # "BLOCKED_SEQUENCE" \/ status \notin TerminalOrderStates \/ c = N
             THEN rows[k]
           ELSE IF Releases(status)
             THEN IF k = c + 1 THEN "PENDING_DELIVERY" ELSE rows[k]
           ELSE IF k \in aborted THEN "SEQUENCE_ABORTED" ELSE rows[k]
BY DEF Advance

(* A report about a released child takes no release back, lets at most the *)
(* next child go, and keeps the two tables in step.                        *)
LEMMA RecordStatusReleases ==
  ASSUME TypeOK, ReleaseInv, NEW c \in Child, Released(c),
         NEW status \in ChildStatus \ Held,
         NEW commandRows \in [Child -> CommandStatus],
         commandRows[c] \notin Held,
         \A k \in Child : k # c => commandRows[k] = command[k],
         RecordStatus(c, status, commandRows)
  PROVE  /\ \A k \in Child : Released(k) => Released(k)'
         /\ \A k \in Child : Released(k)' => Released(k) \/ (k = c + 1 /\ Releases(status))
         /\ \A k \in Child : \A h \in Held : child'[k] = h <=> command'[k] = h
<1> DEFINE childRows == [child EXCEPT ![c] = status]
           later == (c + 1)..N
<1>1. childRows \in [Child -> ChildStatus] BY DEF TypeOK
<1>2. /\ child' = Advance(childRows, c, status, later)
      /\ command' = Advance(commandRows, c, status, Child)
  BY DEF RecordStatus
<1>3. ASSUME NEW k \in Child
      PROVE  /\ k = c => childRows[k] \notin Held /\ commandRows[k] \notin Held
             /\ k # c => childRows[k] = child[k] /\ commandRows[k] = command[k]
             /\ k < c => commandRows[k] \notin Held
             /\ \A h \in Held : childRows[k] = h <=> commandRows[k] = h
  BY DEF TypeOK, ReleaseInv, Released, Child
<1> HIDE DEF childRows, later
<1>4. ASSUME NEW k \in Child
      PROVE  /\ Released(k) => Released(k)'
             /\ Released(k)' => Released(k) \/ (k = c + 1 /\ Releases(status))
             /\ \A h \in Held : child'[k] = h <=> command'[k] = h
  <2>1. command'[k] = IF \/ commandRows[k] # "BLOCKED_SEQUENCE"
                         \/ status \notin TerminalOrderStates \/ c = N
                        THEN commandRows[k]
                      ELSE IF Releases(status)
                        THEN IF k = c + 1 THEN "PENDING_DELIVERY" ELSE commandRows[k]
                      ELSE "SEQUENCE_ABORTED"
    BY <1>2, AdvanceRow
  <2>2. child'[k] = IF \/ childRows[k] # "BLOCKED_SEQUENCE"
                       \/ status \notin TerminalOrderStates \/ c = N
                      THEN childRows[k]
                    ELSE IF Releases(status)
                      THEN IF k = c + 1 THEN "PENDING_DELIVERY" ELSE childRows[k]
                    ELSE IF k \in later THEN "SEQUENCE_ABORTED" ELSE childRows[k]
    BY <1>1, <1>2, AdvanceRow
  <2>3. commandRows[k] = "BLOCKED_SEQUENCE" => k \in later
    <3>1. commandRows[k] = "BLOCKED_SEQUENCE" => k # c /\ ~(k < c) BY <1>3 DEF Held
    <3> QED BY <3>1, NAssumption DEF Child, later
  <2>4. "BLOCKED_SEQUENCE" \in Held /\ "SEQUENCE_ABORTED" \in Held /\ "PENDING_DELIVERY" \notin Held
    BY DEF Held
  <2>5. Released(k) => Released(k)'
    BY <1>3, <2>1, <2>4 DEF Released
  <2>6. Released(k)' => Released(k) \/ (k = c + 1 /\ Releases(status))
    BY <1>3, <2>1, <2>4 DEF Released
  <2>7. \A h \in Held : child'[k] = h <=> command'[k] = h
    <3>1. CASE commandRows[k] = "BLOCKED_SEQUENCE"
      <4>1. childRows[k] = "BLOCKED_SEQUENCE" BY <1>3, <2>4, <3>1
      <4> QED BY <2>1, <2>2, <2>3, <3>1, <4>1
    <3>2. CASE commandRows[k] # "BLOCKED_SEQUENCE"
      <4>1. childRows[k] # "BLOCKED_SEQUENCE" BY <1>3, <2>4, <3>2
      <4> QED BY <1>3, <2>1, <2>2, <3>2, <4>1
    <3> QED BY <3>1, <3>2
  <2> QED BY <2>5, <2>6, <2>7
<1> QED BY <1>4

LEMMA MessageChild ==
  ASSUME TypeOK
  PROVE  \A m \in Messages(acks) \cup Messages(events) : m.child \in Child
<1>1. acks \in Seq(AckMessage) /\ events \in Seq(EventMessage)
  BY DEF TypeOK, AckMessage, EventMessage
<1>2. Messages(acks) \subseteq AckMessage /\ Messages(events) \subseteq EventMessage
  BY <1>1, MessagesType
<1> QED BY <1>2 DEF AckMessage, EventMessage

(* An acknowledgement about a released child, written while nothing else   *)
(* changes that ReleaseInv reads.                                          *)
LEMMA AckReleases ==
  ASSUME IInv, NEW c \in Child, Released(c), NEW status \in AckStatus, Ack(c, status),
         status = "OBSERVE_ONLY_ACKNOWLEDGED" => mode = "OBSERVE_ONLY",
         UNCHANGED <<mode, workerVars, dispatchVars, files, events, journal, brokerVars>>
  PROVE  ReleaseInv'
<1>1. acks \in Seq(AckMessage) BY DEF IInv, TypeOK, AckMessage
<1>2. [child |-> c, status |-> status] \in AckMessage BY DEF AckMessage
<1>3. Messages(acks') = Messages(acks) \cup {[child |-> c, status |-> status]}
  BY <1>1, <1>2, AppendMessages DEF Ack
<1> QED BY <1>3 DEF IInv, ReleaseInv, Released, workerVars, dispatchVars, brokerVars

LEMMA WorkerReleases ==
  ASSUME IInv, SubmitTradeIntent \/ Ingest \/ ReconcileTerminalEvidence \/ WorkerRestart
  PROVE  ReleaseInv'
<1> USE DEF IInv
<1>1. CASE SubmitTradeIntent
  <2>1. \A c \in Child : ~Released(c) BY <1>1 DEF SubmitTradeIntent, ReleaseInv, Released, Held
  <2>2. \A c \in Child : child'[c] = command'[c] /\ (Released(c)' => c = 1)
    BY <1>1 DEF SubmitTradeIntent, Released, Held
  <2>3. intent' # "ABSENT" BY <1>1 DEF SubmitTradeIntent
  <2>4. \A k \in Child : ~(k < 1) BY DEF Child
  <2>6. \A m \in Messages(acks) \cup Messages(events) : m.child \in Child
    BY MessageChild
  <2>7. UNCHANGED <<mode, batch, unmarked, files, acks, events, journal, broker, submitted>>
    BY <1>1 DEF SubmitTradeIntent, dispatchVars, queueVars, brokerVars
  <2> QED BY <2>1, <2>2, <2>3, <2>4, <2>6, <2>7 DEF ReleaseInv
<1>2. CASE IngestCommandAck
  <2> DEFINE ack == Head(acks)
             answered == [command EXCEPT ![ack.child] = ack.status]
  <2>1. acks \in Seq(AckMessage) BY DEF TypeOK, AckMessage
  <2>2. ack \in AckMessage /\ ack \in Messages(acks) /\ Messages(acks') \subseteq Messages(acks)
    BY <1>2, <2>1, TailMessages DEF IngestCommandAck
  <2>3. /\ ack.child \in Child /\ ack.status \in CommandStatus \ Held
        /\ StatusOfAck(ack.status) \in ChildStatus \ Held
        /\ Releases(StatusOfAck(ack.status)) => ack.status = "OBSERVE_ONLY_ACKNOWLEDGED"
    BY <2>2 DEF AckMessage, CommandStatus, AckStatus, StatusOfAck, ChildStatus, EventStatus,
                Held, Releases
  <2>4. Released(ack.child) /\ (Releases(StatusOfAck(ack.status)) => mode = "OBSERVE_ONLY")
    BY <2>2, <2>3 DEF ReleaseInv
  <2>5. RecordStatus(ack.child, StatusOfAck(ack.status), answered)
    BY <1>2 DEF IngestCommandAck
  <2>6. /\ answered \in [Child -> CommandStatus] /\ answered[ack.child] \notin Held
        /\ \A k \in Child : k # ack.child => answered[k] = command[k]
    BY <2>3 DEF TypeOK
  <2>7. intent # "ABSENT" /\ intent' # "ABSENT"
    BY <2>3, <2>4, <2>5 DEF ReleaseInv, Released, Held, RecordStatus, Aggregate
  <2>8. UNCHANGED <<mode, batch, unmarked, files, events, journal, broker, submitted>>
    BY <1>2 DEF IngestCommandAck, dispatchVars, brokerVars
  <2> HIDE DEF ack, answered
  <2>9. /\ \A k \in Child : Released(k) => Released(k)'
        /\ \A k \in Child : Released(k)' => \/ Released(k)
                                            \/ k = ack.child + 1 /\ mode = "OBSERVE_ONLY"
        /\ \A k \in Child : \A h \in Held : child'[k] = h <=> command'[k] = h
    BY <2>3, <2>4, <2>5, <2>6, RecordStatusReleases
  <2>10. \A c, k \in Child : Released(c)' /\ k < c =>
           Released(k)' /\ (mode # "OBSERVE_ONLY" => broker[k] = "FILLED")
    BY <2>3, <2>4, <2>9 DEF ReleaseInv, Child
  <2>11. \A m \in Messages(acks) \cup Messages(events) : m.child \in Child
    BY MessageChild
  <2> QED BY <2>2, <2>7, <2>8, <2>9, <2>10, <2>11 DEF ReleaseInv
<1>3. CASE IngestOrderEvent
  <2> DEFINE event == Head(events)
  <2>1. events \in Seq(EventMessage) BY DEF TypeOK, EventMessage
  <2>2. /\ event \in EventMessage /\ event \in Messages(events)
        /\ Messages(events') \subseteq Messages(events)
    BY <1>3, <2>1, TailMessages DEF IngestOrderEvent
  <2>3. /\ event.child \in Child /\ event.status \in ChildStatus \ Held
        /\ Releases(event.status) => event.status = "FILLED"
    BY <2>2 DEF EventMessage, ChildStatus, EventStatus, Held, Releases
  <2>4. Released(event.child) /\ (Releases(event.status) => broker[event.child] = "FILLED")
    BY <2>2, <2>3 DEF ReleaseInv
  <2>5. RecordStatus(event.child, event.status, command) BY <1>3 DEF IngestOrderEvent
  <2>6. command \in [Child -> CommandStatus] /\ command[event.child] \notin Held
    BY <2>4 DEF TypeOK, Released
  <2>7. intent # "ABSENT" /\ intent' # "ABSENT"
    BY <2>3, <2>4, <2>5 DEF ReleaseInv, Released, Held, RecordStatus, Aggregate
  <2>8. UNCHANGED <<mode, batch, unmarked, files, acks, journal, broker, submitted>>
    BY <1>3 DEF IngestOrderEvent, dispatchVars, brokerVars
  <2> HIDE DEF event
  <2>9. /\ \A k \in Child : Released(k) => Released(k)'
        /\ \A k \in Child : Released(k)' =>
             Released(k) \/ (k = event.child + 1 /\ broker[event.child] = "FILLED")
        /\ \A k \in Child : \A h \in Held : child'[k] = h <=> command'[k] = h
    BY <2>3, <2>4, <2>5, <2>6, RecordStatusReleases
  <2>10. \A c, k \in Child : Released(c)' /\ k < c =>
           Released(k)' /\ (mode # "OBSERVE_ONLY" => broker[k] = "FILLED")
    <3> SUFFICES ASSUME NEW c \in Child, NEW k \in Child, Released(c)', k < c
                 PROVE  Released(k)' /\ (mode # "OBSERVE_ONLY" => broker[k] = "FILLED")
      OBVIOUS
    <3>1. CASE Released(c) BY <2>9, <3>1 DEF ReleaseInv
    <3>2. CASE c = event.child + 1 /\ broker[event.child] = "FILLED"
      <4>1. k = event.child \/ k < event.child BY <2>3, <3>2 DEF Child
      <4> QED BY <2>3, <2>4, <2>9, <3>2, <4>1 DEF ReleaseInv
    <3> QED BY <2>9, <3>1, <3>2
  <2>11. \A m \in Messages(acks) \cup Messages(events) : m.child \in Child
    BY MessageChild
  <2> QED BY <2>2, <2>7, <2>8, <2>9, <2>10, <2>11 DEF ReleaseInv
<1>4. CASE ReconcileTerminalEvidence
  <2>1. intent # "ABSENT" /\ intent' # "ABSENT"
    BY <1>4 DEF ReconcileTerminalEvidence, Aggregate
  <2> QED BY <1>4, <2>1 DEF ReconcileTerminalEvidence, ReleaseInv, Released, dispatchVars, queueVars, brokerVars
<1>5. CASE WorkerRestart
  <2>1. intent' = "ABSENT" => intent = "ABSENT" BY <1>5 DEF WorkerRestart, Aggregate
  <2>2. \A d \in Dispatchers : batch'[d] = {} /\ unmarked'[d] = 0 BY <1>5 DEF WorkerRestart
  <2> QED BY <1>5, <2>1, <2>2, NAssumption
          DEF WorkerRestart, ReleaseInv, Released, Child, queueVars, brokerVars
<1> QED BY <1>1, <1>2, <1>3, <1>4, <1>5 DEF Ingest

LEMMA DispatchReleases ==
  ASSUME IInv, NEW d \in Dispatchers, Dispatch(d) \/ DispatchFails(d)
  PROVE  ReleaseInv'
<1> USE DEF IInv
<1>1. CASE DispatchScan(d)
  <2>1. \A c \in batch'[d] : Released(c)
    BY <1>1 DEF DispatchScan, TypeOK, Released, Held
  <2>2. \A e \in Dispatchers : e # d => batch'[e] = batch[e]
    BY <1>1 DEF DispatchScan, TypeOK
  <2> QED BY <1>1, <2>1, <2>2
          DEF DispatchScan, ReleaseInv, Released, workerVars, queueVars, brokerVars
<1>2. CASE PublishCommand(d)
  <2>1. PICK c \in batch[d] : /\ files' = [files EXCEPT ![c] = @ + 1]
                              /\ batch' = [batch EXCEPT ![d] = @ \ {c}]
                              /\ unmarked' = [unmarked EXCEPT ![d] = c]
    BY <1>2 DEF PublishCommand
  <2>2. c \in Child /\ Released(c) BY <2>1 DEF TypeOK, ReleaseInv
  <2>3. /\ \A k \in Child : files'[k] > 0 => k = c \/ files[k] > 0
        /\ \A k \in Child, e \in Dispatchers :
             k \in batch'[e] \/ unmarked'[e] = k => k = c \/ k \in batch[e] \/ unmarked[e] = k
    BY <2>1 DEF TypeOK
  <2> QED BY <1>2, <2>2, <2>3 DEF PublishCommand, ReleaseInv, Released, workerVars, brokerVars
<1>3. CASE MarkDelivered(d)
  <2>1. \A c \in Child : \/ command'[c] = command[c]
                         \/ command[c] \notin Held /\ command'[c] \notin Held
    BY <1>3 DEF MarkDelivered, Held
  <2>2. \A c \in Child : \/ child'[c] = child[c]
                         \/ child[c] \notin Held /\ child'[c] \notin Held
    BY <1>3 DEF MarkDelivered, Held
  <2>3. /\ \A c \in Child : Released(c)' <=> Released(c)
        /\ \A c \in Child : \A h \in Held : child'[c] = h <=> command'[c] = h
    BY <2>1, <2>2 DEF Released, ReleaseInv
  <2>4. intent' = "ABSENT" => intent = "ABSENT" BY <1>3 DEF MarkDelivered
  <2>5. intent = "ABSENT" => \A c \in Child : command'[c] = "ABSENT"
    BY <2>1 DEF ReleaseInv, Held
  <2>6. \A e \in Dispatchers, c \in Child :
          c \in batch'[e] \/ unmarked'[e] = c => c \in batch[e] \/ unmarked[e] = c
    BY <1>3, NAssumption DEF MarkDelivered, TypeOK, Child
  <2>7. UNCHANGED <<mode, files, acks, events, journal, broker, submitted>>
    BY <1>3 DEF MarkDelivered, queueVars, brokerVars
  <2>8. \A m \in Messages(acks) : m.child \in Child BY MessageChild
  <2> QED BY <2>3, <2>4, <2>5, <2>6, <2>7, <2>8 DEF ReleaseInv
<1>4. CASE DispatchFails(d)
  <2>1. \A e \in Dispatchers, c \in Child :
          c \in batch'[e] \/ unmarked'[e] = c => c \in batch[e] \/ unmarked[e] = c
    BY <1>4, NAssumption DEF DispatchFails, TypeOK, Child
  <2> QED BY <1>4, <2>1
          DEF DispatchFails, ReleaseInv, Released, workerVars, queueVars, brokerVars
<1> QED BY <1>1, <1>2, <1>3, <1>4 DEF Dispatch

LEMMA ExecuteReleases ==
  ASSUME IInv, Execute \/ AdapterRestart \/ PostSubmitFailure \/ StorageFailure
  PROVE  ReleaseInv'
<1> USE DEF IInv
<1>0. /\ step # "IDLE" => current \in Child /\ Released(current)
      /\ \A c \in Child : files[c] > 0 => Released(c)
  BY NAssumption DEF Child, TypeOK, ExecutorOK, ReleaseInv
<1>1. ASSUME NEW c \in Child, AnswerFromJournal(c) PROVE ReleaseInv'
  <2>1. RecordedAnswer(journal[c]) \in AckStatus
    BY <1>1, AnswerType DEF AnswerFromJournal, AlreadyExecuted, TypeOK
  <2>2. RecordedAnswer(journal[c]) = "OBSERVE_ONLY_ACKNOWLEDGED" => mode = "OBSERVE_ONLY"
    BY DEF RecordedAnswer, SubmissionInv
  <2> QED BY <1>0, <1>1, <2>1, <2>2, AckReleases DEF AnswerFromJournal
<1>2. ASSUME NEW c \in Child, PassFinalRisk(c) \/ RefuseCommand(c) PROVE ReleaseInv'
  <2>1. \A k \in Child : journal'[k] # "NONE" => k = c \/ journal[k] # "NONE"
    BY <1>2 DEF PassFinalRisk, RefuseCommand, TypeOK
  <2>2. Released(c) BY <1>0, <1>2 DEF PassFinalRisk, RefuseCommand
  <2> QED BY <1>2, <2>1, <2>2
          DEF PassFinalRisk, RefuseCommand, ReleaseInv, Released, workerVars, dispatchVars,
              queueVars, brokerVars
<1>3. CASE WritePreSubmit \/ JournalReturn
  <2>1. \A k \in Child : journal'[k] # "NONE" => k = current \/ journal[k] # "NONE"
    BY <1>3 DEF WritePreSubmit, JournalReturn, TypeOK
  <2>2. Released(current) BY <1>0, <1>3 DEF WritePreSubmit, JournalReturn
  <2> QED BY <1>3, <2>1, <2>2
          DEF WritePreSubmit, JournalReturn, ReleaseInv, Released, workerVars, dispatchVars,
              queueVars, brokerVars
<1>4. CASE MakeOrder
  <2>1. /\ current \in Child /\ Released(current)
        /\ submitted[current] = 0 /\ broker[current] = "NONE"
    BY <1>0, <1>4 DEF MakeOrder, SubmissionInv
  <2>2. /\ \A k \in Child : k # current => submitted'[k] = submitted[k] /\ broker'[k] = broker[k]
        /\ submitted'[current] = 1
    BY <1>4, <2>1 DEF MakeOrder, TypeOK
  <2>3. /\ \A k \in Child : broker[k] = "FILLED" => broker'[k] = "FILLED"
        /\ \A k \in Child : submitted[k] = 1 => submitted'[k] = 1
        /\ \A k \in Child : submitted'[k] = 1 => submitted[k] = 1 \/ k = current
    BY <2>1, <2>2
  <2>4. \A m \in Messages(events) : m.child \in Child BY MessageChild
  <2>5. UNCHANGED <<mode, intent, child, command, batch, unmarked, files, acks, events, journal>>
    BY <1>4 DEF MakeOrder, workerVars, dispatchVars, queueVars
  <2> QED BY <2>1, <2>3, <2>4, <2>5 DEF ReleaseInv, Released
<1>5. CASE ReportUncertain
  BY <1>0, <1>5, AckReleases DEF ReportUncertain, AckStatus
<1>6. CASE AckJournal
  <2>1. journal[current] \in AckStatus BY <1>6 DEF AckJournal, ExecutorOK
  <2>2. journal[current] = "OBSERVE_ONLY_ACKNOWLEDGED" => mode = "OBSERVE_ONLY"
    BY <1>0, <1>6 DEF AckJournal, SubmissionInv
  <2> QED BY <1>0, <1>6, <2>1, <2>2, AckReleases DEF AckJournal
<1>7. CASE ReportException
  <2>1. Classify(journal[current]) \in AckStatus
    BY <1>0, <1>7, AnswerType DEF ReportException, TypeOK
  <2>2. Classify(journal[current]) = "OBSERVE_ONLY_ACKNOWLEDGED" => mode = "OBSERVE_ONLY"
    BY <1>0, <1>7 DEF ReportException, Classify, TypeOK, JournalState, SubmissionInv
  <2>3. CASE Ack(current, Classify(journal[current]))
    BY <1>0, <1>7, <2>1, <2>2, <2>3, AckReleases DEF ReportException
  <2>4. CASE Ack(current, Classify("NONE"))
    <3>1. Classify("NONE") \in AckStatus /\ Classify("NONE") # "OBSERVE_ONLY_ACKNOWLEDGED"
      BY AnswerType DEF Classify
    <3> QED BY <1>0, <1>7, <2>4, <3>1, AckReleases DEF ReportException
  <2>5. CASE UNCHANGED acks
    BY <1>7, <2>5
       DEF ReportException, ReleaseInv, Released, workerVars, dispatchVars, brokerVars
  <2> QED BY <1>7, <2>3, <2>4, <2>5 DEF ReportException
<1>8. CASE RetireFile
  <2>1. \A k \in Child : files'[k] > 0 => files[k] > 0
    BY <1>8 DEF RetireFile, TypeOK
  <2> QED BY <1>8, <2>1
          DEF RetireFile, ReleaseInv, Released, workerVars, dispatchVars, brokerVars
<1>9. CASE AdapterRestart \/ PostSubmitFailure \/ StorageFailure
  BY <1>9 DEF AdapterRestart, PostSubmitFailure, StorageFailure, ReleaseInv, Released,
              workerVars, dispatchVars, queueVars, brokerVars
<1> QED BY <1>1, <1>2, <1>3, <1>4, <1>5, <1>6, <1>7, <1>8, <1>9 DEF Execute, TakeUp

LEMMA BrokerReleases ==
  ASSUME IInv, NEW c \in Child, BrokerUpdate(c)
  PROVE  ReleaseInv'
<1> USE DEF IInv
<1>1. PICK state \in BrokerNext(broker[c]) :
        /\ broker' = [broker EXCEPT ![c] = state]
        /\ \/ \E report \in Callbacks(state) :
                events' = events \o [i \in DOMAIN report |->
                                       [child |-> c, status |-> report[i]]]
           \/ UNCHANGED events
  BY DEF BrokerUpdate
<1>2. broker[c] \in BrokerState /\ submitted[c] = 1 /\ broker[c] # "FILLED"
  BY <1>1 DEF TypeOK, BrokerNext, SubmissionInv
<1>3. \A k \in Child : broker[k] = "FILLED" => broker'[k] = "FILLED"
  BY <1>1, <1>2 DEF TypeOK
<1>4. broker'[c] = state BY <1>1 DEF TypeOK
<1>5. \A m \in Messages(events') :
        \/ m \in Messages(events)
        \/ m.child = c /\ (m.status = "FILLED" => state = "FILLED")
  <2>1. CASE UNCHANGED events BY <2>1
  <2>2. ASSUME NEW report \in Callbacks(state),
               events' = events \o [i \in DOMAIN report |->
                                      [child |-> c, status |-> report[i]]]
        PROVE  \A m \in Messages(events') :
                 \/ m \in Messages(events)
                 \/ m.child = c /\ (m.status = "FILLED" => state = "FILLED")
    <3> DEFINE written == [i \in DOMAIN report |-> [child |-> c, status |-> report[i]]]
    <3>1. events \in Seq(EventMessage) BY DEF TypeOK, EventMessage
    <3>2. /\ written \in Seq(EventMessage)
          /\ \A i \in DOMAIN report : report[i] = "FILLED" => state = "FILLED"
      BY <1>2, ReportType
    <3>3. \A m \in Messages(written) : m.child = c /\ (m.status = "FILLED" => state = "FILLED")
      BY <3>2 DEF Messages
    <3>4. events' = events \o written BY <2>2
    <3> HIDE DEF written
    <3> QED BY <3>1, <3>2, <3>3, <3>4, ConcatMessages
  <2> QED BY <1>1, <2>1, <2>2
<1>6. UNCHANGED <<mode, intent, child, command, batch, unmarked, files, acks, journal, submitted>>
  BY DEF BrokerUpdate, workerVars, dispatchVars
<1>7. \A m \in Messages(events) : m.child \in Child BY MessageChild
<1> QED BY <1>2, <1>3, <1>4, <1>5, <1>6, <1>7 DEF ReleaseInv, Released

LEMMA InductiveInit == Init => IInv
<1> SUFFICES ASSUME Init PROVE IInv OBVIOUS
<1>1. TypeOK BY TypeInit
<1>2. ExecutorOK /\ SubmissionInv
  BY DEF Init, ExecutorOK, SubmissionInv, JournalNeverDeniesOrder
<1>3. Messages(acks) = {} /\ Messages(events) = {} BY DEF Init, Messages
<1>4. ReleaseInv BY <1>3, NAssumption DEF Init, ReleaseInv, Released, Held, Child
<1> QED BY <1>1, <1>2, <1>4 DEF IInv

LEMMA InductiveStep == IInv /\ [Next]_vars => IInv'
<1> SUFFICES ASSUME IInv, [Next]_vars PROVE IInv' OBVIOUS
<1>1. TypeOK' /\ ExecutorOK' BY TypeStep DEF IInv
<1>2. SubmissionInv' BY SubmissionStep DEF IInv
<1>3. ReleaseInv'
  <2>1. CASE UNCHANGED vars
    BY <2>1 DEF IInv, ReleaseInv, Released, vars, workerVars, dispatchVars, queueVars, brokerVars
  <2>2. CASE Expire
    BY <2>2 DEF Expire, IInv, ReleaseInv, Released, workerVars, dispatchVars, queueVars,
                brokerVars
  <2>3. CASE Next /\ ~Expire
    BY <2>3, WorkerReleases, DispatchReleases, ExecuteReleases, BrokerReleases
       DEF Next, Fault
  <2> QED BY <2>1, <2>2, <2>3
<1> QED BY <1>1, <1>2, <1>3 DEF IInv

THEOREM Inductive == Spec => []IInv
BY InductiveInit, InductiveStep, PTL DEF Spec

-----------------------------------------------------------------------------
(* What follows.                                                           *)

(* At most one call of the order entry per child order (_execute_order and *)
(* its journal), whatever is duplicated, killed or lost.                   *)
THEOREM AtMostOnce == Spec => []AtMostOneSubmission
<1>1. IInv => AtMostOneSubmission BY DEF IInv, SubmissionInv, AtMostOneSubmission
<1> QED BY <1>1, Inductive, PTL

(* A later leg is submitted only when the broker has filled every earlier  *)
(* one (BLOCKED_SEQUENCE and _advance_sequence), with any number of legs.  *)
THEOREM InSequence == Spec => []SequenceRespected
<1>1. IInv => SequenceRespected
  BY DEF IInv, TypeOK, SubmissionInv, ReleaseInv, SequenceRespected
<1> QED BY <1>1, Inductive, PTL

(* An order that exists is never journalled as unsent. *)
THEOREM JournalTruthful == Spec => []JournalNeverDeniesOrder
<1>1. IInv => JournalNeverDeniesOrder BY DEF IInv, SubmissionInv
<1> QED BY <1>1, Inductive, PTL

(* An aborted leg is aborted everywhere and was never on its way. *)
THEOREM AbortFinal == Spec => []AbortIsFinal
<1>1. ASSUME IInv PROVE AbortIsFinal
  <2> SUFFICES ASSUME NEW c \in Child
               PROVE  /\ child[c] = "SEQUENCE_ABORTED" <=> command[c] = "SEQUENCE_ABORTED"
                      /\ command[c] = "SEQUENCE_ABORTED" =>
                           /\ files[c] = 0 /\ current # c
                           /\ \A d \in Dispatchers : c \notin batch[d] /\ unmarked[d] # c
                           /\ journal[c] = "NONE" /\ submitted[c] = 0
    BY DEF AbortIsFinal
  <2>1. "SEQUENCE_ABORTED" \in Held BY DEF Held
  <2>2. files[c] \in Nat /\ submitted[c] \in {0, 1} BY <1>1 DEF IInv, TypeOK, SubmissionInv
  <2>3. current = c => files[c] > 0
    BY <1>1, NAssumption DEF IInv, TypeOK, ExecutorOK, Child
  <2> QED BY <1>1, <2>1, <2>2, <2>3 DEF IInv, ReleaseInv, Released
<1> QED BY <1>1, Inductive, PTL

(* The pipeline implements SequencedOrders: every step is a submission it  *)
(* allows, a fill of what was submitted, or changes nothing it speaks of.  *)
LEMMA RefinementInit == Init => Abstract!Init
BY DEF Init, Abstract!Init, Abstract!Child, Child

LEMMA RefinementStep == IInv /\ IInv' /\ [Next]_vars => [Abstract!Next]_(Abstract!vars)
<1> SUFFICES ASSUME IInv, IInv', [Next]_vars PROVE [Abstract!Next]_(Abstract!vars)
  OBVIOUS
<1> USE DEF Abstract!vars, Abstract!Child
<1>1. CASE UNCHANGED brokerVars BY <1>1 DEF brokerVars
<1>2. CASE MakeOrder
  <2>1. current \in Child /\ submitted[current] = 0 /\ broker[current] = "NONE"
    BY <1>2, NAssumption DEF MakeOrder, IInv, TypeOK, Child, SubmissionInv
  <2>2. /\ submitted' = [submitted EXCEPT ![current] = 1]
        /\ \/ broker' = broker \/ broker' = [broker EXCEPT ![current] = "ACCEPTED"]
    BY <1>2, <2>1 DEF MakeOrder, IInv, TypeOK
  <2>3. \A k \in Child : broker'[k] = "FILLED" <=> broker[k] = "FILLED"
    BY <2>1, <2>2 DEF IInv, TypeOK
  <2>4. \A k \in Child : k < current => broker[k] = "FILLED"
    BY <2>1, <2>2, <2>3 DEF IInv, TypeOK, SubmissionInv, ReleaseInv
  <2>5. Abstract!Attempt(current)
    BY <2>1, <2>2, <2>3, <2>4, NAssumption DEF Abstract!Attempt, Child
  <2> QED BY <2>1, <2>5 DEF Abstract!Next, Child
<1>3. ASSUME NEW c \in Child, BrokerUpdate(c) PROVE [Abstract!Next]_(Abstract!vars)
  <2>1. PICK state \in BrokerNext(broker[c]) : broker' = [broker EXCEPT ![c] = state]
    BY <1>3 DEF BrokerUpdate
  <2>2. broker[c] # "NONE" /\ broker[c] # "FILLED" BY <2>1 DEF BrokerNext
  <2>3. submitted[c] = 1 /\ submitted' = submitted
    BY <1>3, <2>2 DEF BrokerUpdate, IInv, SubmissionInv
  <2>4. CASE state = "FILLED"
    <3>1. {k \in Child : broker'[k] = "FILLED"} = {k \in Child : broker[k] = "FILLED"} \cup {c}
      BY <2>1, <2>4 DEF IInv, TypeOK
    <3>2. Abstract!Fill(c) BY <2>3, <3>1 DEF Abstract!Fill
    <3> QED BY <3>2 DEF Abstract!Next, Child
  <2>5. CASE state # "FILLED"
    <3>1. {k \in Child : broker'[k] = "FILLED"} = {k \in Child : broker[k] = "FILLED"}
      BY <2>1, <2>2, <2>5 DEF IInv, TypeOK
    <3> QED BY <2>3, <3>1
  <2> QED BY <2>4, <2>5
<1> QED
  BY <1>1, <1>2, <1>3
     DEF Next, vars, Dispatch, DispatchScan, PublishCommand, MarkDelivered, Ingest,
         IngestCommandAck, IngestOrderEvent, SubmitTradeIntent, ReconcileTerminalEvidence,
         Execute, TakeUp, AnswerFromJournal, PassFinalRisk, RefuseCommand, WritePreSubmit,
         JournalReturn, ReportUncertain, AckJournal, ReportException, RetireFile, Fault,
         DispatchFails, WorkerRestart, AdapterRestart, PostSubmitFailure, StorageFailure,
         Expire, brokerVars

(* The detailed specification keeps the abstract promise. *)
THEOREM Refinement == Spec => ImplementsSequencedOrders
<1>1. Spec => []IInv BY Inductive
<1> QED BY <1>1, RefinementInit, RefinementStep, PTL
        DEF Spec, ImplementsSequencedOrders, Abstract!Spec

-----------------------------------------------------------------------------
(* The executor of the pipeline is the one AdapterDispatch provides.       *)

InHand == IF current = 0 THEN {} ELSE {current}
Journalled == {c \in Child : journal[c] # "NONE"}

LEMMA StepTake ==
  ASSUME NEW c \in Child, InHand = {}, InHand' = {c},
         step # "PRE_SUBMIT", step' # "PRE_SUBMIT", Journalled' = Journalled, submitted' = submitted
  PROVE  Executor!Next
<1>1. Executor!Take(c) BY DEF Executor!Take, InHand, Journalled
<1> QED BY <1>1 DEF Executor!Next

LEMMA StepObserve ==
  ASSUME NEW c \in Child, InHand = {}, InHand' = {c}, step # "PRE_SUBMIT", step' # "PRE_SUBMIT",
         c \notin Journalled, Journalled' = Journalled \cup {c}, submitted' = submitted
  PROVE  Executor!Next
<1>1. Executor!Observe(c) BY DEF Executor!Observe, InHand, Journalled
<1> QED BY <1>1 DEF Executor!Next

LEMMA StepJournal ==
  ASSUME NEW c \in Child, InHand = {c}, InHand' = {c}, step' = "PRE_SUBMIT",
         c \notin Journalled, Journalled' = Journalled \cup {c}, submitted' = submitted
  PROVE  Executor!Next
<1>1. Executor!Journal(c) BY DEF Executor!Journal, InHand, Journalled
<1> QED BY <1>1 DEF Executor!Next

LEMMA StepCall ==
  ASSUME NEW c \in Child, InHand = {c}, InHand' = {c}, step = "PRE_SUBMIT", step' # "PRE_SUBMIT",
         c \in Journalled, Journalled' = Journalled,
         submitted[c] = 0, submitted' = [submitted EXCEPT ![c] = 1]
  PROVE  Executor!Next
<1>1. Executor!Call(c) BY DEF Executor!Call, InHand, Journalled
<1> QED BY <1>1 DEF Executor!Next

LEMMA StepPutDown ==
  ASSUME InHand # {}, InHand' = {}, step' # "PRE_SUBMIT", Journalled' = Journalled,
         submitted' = submitted
  PROVE  Executor!Next
<1>1. Executor!PutDown BY DEF Executor!PutDown, InHand, Journalled
<1> QED BY <1>1 DEF Executor!Next

LEMMA StepNone ==
  ASSUME current' = current, step = "PRE_SUBMIT" <=> step' = "PRE_SUBMIT",
         Journalled' = Journalled, submitted' = submitted
  PROVE  UNCHANGED Executor!vars
BY DEF Executor!vars, Journalled

LEMMA ExecutorRefines ==
  ASSUME IInv, [Next]_vars
  PROVE  Executor!Next \/ UNCHANGED Executor!vars
<1>0. /\ (step = "IDLE" <=> InHand = {}) /\ 0 \notin Child
      /\ step # "IDLE" => current \in Child /\ InHand = {current}
  BY NAssumption DEF IInv, TypeOK, Child, InHand
<1> USE DEF Goto, brokerVars
<1>1. CASE UNCHANGED <<journal, executorVars, submitted>>
  BY <1>1, StepNone DEF executorVars, Journalled
<1>2. ASSUME NEW c \in Child, AnswerFromJournal(c) \/ RefuseCommand(c) PROVE Executor!Next
  <2>1. /\ step = "IDLE" /\ current' = c /\ step' # "PRE_SUBMIT"
        /\ journal' = journal /\ submitted' = submitted
    BY <1>2 DEF AnswerFromJournal, RefuseCommand
  <2>2. InHand' = {c} BY <1>0, <2>1 DEF InHand
  <2> QED BY <1>0, <2>1, <2>2, StepTake DEF Journalled
<1>3. ASSUME NEW c \in Child, PassFinalRisk(c) PROVE Executor!Next
  <2>1. /\ step = "IDLE" /\ current' = c /\ step' # "PRE_SUBMIT" /\ submitted' = submitted
        /\ journal[c] = "NONE"
    BY <1>3 DEF PassFinalRisk, AlreadyExecuted
  <2>2. InHand' = {c} BY <1>0, <2>1 DEF InHand
  <2>3. CASE journal' = journal
    BY <1>0, <2>1, <2>2, <2>3, StepTake DEF Journalled
  <2>4. CASE journal' = [journal EXCEPT ![c] = "OBSERVE_ONLY_ACKNOWLEDGED"]
    <3>1. c \notin Journalled BY <2>1 DEF Journalled
    <3>2. Journalled' = Journalled \cup {c} BY <2>4 DEF Journalled, IInv, TypeOK
    <3> QED BY <1>0, <2>1, <2>2, <3>1, <3>2, StepObserve
  <2> QED BY <1>3, <2>3, <2>4 DEF PassFinalRisk
<1>4. CASE WritePreSubmit
  <2>1. /\ current \in Child /\ InHand = {current} /\ InHand' = {current}
        /\ journal[current] = "NONE"
        /\ journal' = [journal EXCEPT ![current] = "PRE_SUBMIT"]
        /\ step' = "PRE_SUBMIT" /\ submitted' = submitted
    BY <1>0, <1>4 DEF WritePreSubmit, IInv, SubmissionInv, InHand
  <2>2. current \notin Journalled BY <2>1 DEF Journalled
  <2>3. Journalled' = Journalled \cup {current} BY <2>1 DEF Journalled, IInv, TypeOK
  <2> QED BY <2>1, <2>2, <2>3, StepJournal
<1>5. CASE MakeOrder
  <2>1. /\ current \in Child /\ InHand = {current} /\ InHand' = {current}
        /\ step = "PRE_SUBMIT" /\ step' # "PRE_SUBMIT"
        /\ journal[current] # "NONE" /\ journal' = journal /\ submitted[current] = 0
    BY <1>0, <1>5 DEF MakeOrder, IInv, SubmissionInv, InHand
  <2>2. submitted' = [submitted EXCEPT ![current] = 1]
    BY <1>5, <2>1 DEF MakeOrder, IInv, TypeOK
  <2>3. current \in Journalled /\ Journalled' = Journalled BY <2>1 DEF Journalled
  <2> QED BY <2>1, <2>2, <2>3, StepCall
<1>6. CASE JournalReturn
  <2>1. /\ current \in Child /\ current' = current /\ step # "PRE_SUBMIT" /\ step' # "PRE_SUBMIT"
        /\ submitted' = submitted
    BY <1>0, <1>6 DEF JournalReturn
  <2>2. journal[current] # "NONE"
    BY <1>6 DEF JournalReturn, IInv, ExecutorOK
  <2>3. Journalled' = Journalled
    BY <1>6, <2>1, <2>2 DEF JournalReturn, Journalled, IInv, TypeOK
  <2> QED BY <2>1, <2>3, StepNone
<1>7. CASE ReportUncertain \/ AckJournal \/ ReportException \/ PostSubmitFailure
  <2>1. /\ current' = current /\ step # "PRE_SUBMIT" /\ step' # "PRE_SUBMIT"
        /\ submitted' = submitted /\ journal' = journal
    BY <1>7 DEF ReportUncertain, AckJournal, ReportException, PostSubmitFailure
  <2> QED BY <2>1, StepNone DEF Journalled
<1>8. CASE RetireFile \/ AdapterRestart \/ StorageFailure
  <2>1. /\ submitted' = submitted /\ journal' = journal /\ step' # "PRE_SUBMIT"
        /\ \/ current' = 0
           \/ step # "PRE_SUBMIT" /\ current' = current
           \/ step = "IDLE" /\ current' \in Child
    BY <1>8 DEF RetireFile, AdapterRestart, StorageFailure
  <2>2. Journalled' = Journalled BY <2>1 DEF Journalled
  <2>3. CASE current' = 0
    <3>1. InHand' = {} BY <2>3 DEF InHand
    <3>2. CASE InHand # {} BY <2>1, <2>2, <3>1, <3>2, StepPutDown
    <3>3. CASE InHand = {}
      <4>1. current = 0 /\ step # "PRE_SUBMIT" BY <1>0, <3>3 DEF InHand
      <4> QED BY <2>1, <2>2, <2>3, <4>1, StepNone
    <3> QED BY <3>2, <3>3
  <2>4. CASE step # "PRE_SUBMIT" /\ current' = current BY <2>1, <2>2, <2>4, StepNone
  <2>5. CASE step = "IDLE" /\ current' \in Child
    <3>1. InHand' = {current'} BY <1>0, <2>5 DEF InHand
    <3> QED BY <1>0, <2>1, <2>2, <2>5, <3>1, StepTake
  <2> QED BY <2>1, <2>3, <2>4, <2>5
<1>9. ASSUME NEW c \in Child, BrokerUpdate(c) PROVE UNCHANGED <<journal, executorVars, submitted>>
  BY <1>9 DEF BrokerUpdate
<1> QED
  BY <1>1, <1>2, <1>3, <1>4, <1>5, <1>6, <1>7, <1>8, <1>9
     DEF Next, vars, Dispatch, DispatchScan, PublishCommand, MarkDelivered, Ingest,
         IngestCommandAck, IngestOrderEvent, SubmitTradeIntent, ReconcileTerminalEvidence,
         Execute, TakeUp, Fault, DispatchFails, WorkerRestart, Expire

(* The pipeline's executor is an OrderExecutor, the contract that          *)
(* AdapterDispatch shows of the Adapter's threads: what the two models     *)
(* take and give of each other is the same.                                *)
THEOREM ExecutorRefinement == Spec => ImplementsOrderExecutor
<1>1. Init => Executor!Init BY DEF Init, Executor!Init
<1>2. IInv /\ [Next]_vars => [Executor!Next]_(Executor!vars) BY ExecutorRefines
<1> QED BY <1>1, <1>2, Inductive, PTL DEF Spec, ImplementsOrderExecutor, Executor!Spec

=============================================================================
