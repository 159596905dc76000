--------------------------- MODULE FileQueue_proofs ---------------------------
(***************************************************************************)
(* Proofs about FileQueue, for any files, any contents and stamps, any set *)
(* of consumers and any number of interruptions. IInv ties effects and     *)
(* places to what is recorded; Frontier is about files published in the    *)
(* order of their names.                                                   *)
(***************************************************************************)
EXTENDS FileQueue, FiniteSetTheorems, WellFoundedInduction, TLAPS

(* A non-empty set of files has a first one. *)
LEMMA FirstFile ==
  ASSUME NEW T, T \subseteq Files, T # {}
  PROVE  \E f \in T : \A g \in T : f <= g
<1> DEFINE Less == {ss \in Nat \X Nat : ss[1] < ss[2]}
<1>1. T \subseteq Nat BY FilesAssumption
<1>2. IsWellFoundedOn(Less, Nat) BY NatLessThanWellFounded DEF OpToRel
<1>3. PICK f \in T : \A g \in T : ~(<<g, f>> \in Less)
  <2> HIDE DEF Less
  <2> QED BY <1>1, <1>2, WFMin
<1>4. ASSUME NEW g \in T PROVE f <= g
  <2>1. f \in Nat /\ g \in Nat BY <1>1
  <2>2. g < f => <<g, f>> \in Less BY <2>1
  <2> QED BY <2>1, <2>2, <1>3
<1> QED BY <1>4

LEMMA CurrentInTodo ==
  ASSUME NEW c \in Consumers, todo[c] \subseteq Files, todo[c] # {}
  PROVE  Current(c) \in todo[c]
BY FirstFile DEF Current

(* What can change the file a consumer is at. *)
LEMMA CurrentUnchanged ==
  ASSUME NEW c \in Consumers, todo'[c] = todo[c]
  PROVE  Current(c)' = Current(c)
BY DEF Current

-----------------------------------------------------------------------------

LEMMA TypeInit == Init => TypeOK
BY FilesAssumption, NoOneAssumption, LimitAssumption DEF Init, TypeOK, Contents

LEMMA TypeStep == TypeOK /\ [Next]_vars => TypeOK'
<1> SUFFICES ASSUME TypeOK, [Next]_vars PROVE TypeOK'
  OBVIOUS
<1> USE FilesAssumption, NoOneAssumption, LimitAssumption
<1> USE DEF TypeOK, fileVars, databaseVars, consumerVars
<1>1. ASSUME NEW f \in Files, Publish(f) PROVE TypeOK'
  BY <1>1 DEF Publish
<1>2. ASSUME NEW f \in Files, Expire(f) PROVE TypeOK'
  BY <1>2 DEF Expire
<1>3. ASSUME NEW c \in Consumers, BeginScan(c) PROVE TypeOK'
  BY <1>3 DEF BeginScan, Listed, InFolder
<1>4. ASSUME NEW c \in Consumers, Validate(c) PROVE TypeOK'
  BY <1>4 DEF Validate
<1>5. ASSUME NEW c \in Consumers, DeadLetterInvalid(c) PROVE TypeOK'
  BY <1>5 DEF DeadLetterInvalid, Move, NextFile
<1>6. ASSUME NEW c \in Consumers, Handle(c) PROVE TypeOK'
  <2>1. Current(c) \in Files BY <1>6, CurrentInTodo DEF Handle
  <2>2. heartbeat' \in Files \cup {0}
    BY <1>6, <2>1 DEF Handle, RecordedHeartbeat
  <2>3. inbound' \subseteq Files
    <3>1. inbound' = inbound \cup {Current(c)} \/ inbound' = inbound
      BY <1>6 DEF Handle
    <3> QED BY <2>1, <3>1
  <2>4. applied' \in [Files -> Nat]
    BY <1>6, <2>1 DEF Handle
  <2>5. /\ pc' = [pc EXCEPT ![c] = "HANDLED"] /\ pc[c] = "VALIDATED"
        /\ UNCHANGED <<content, occurred, unread, place, expired, owner, todo, interruptions>>
    BY <1>6 DEF Handle
  <2> QED BY <2>2, <2>3, <2>4, <2>5
<1>7. ASSUME NEW c \in Consumers, DeadLetterRejected(c) PROVE TypeOK'
  BY <1>7 DEF DeadLetterRejected, Move, NextFile
<1>8. ASSUME NEW c \in Consumers, Archive(c) PROVE TypeOK'
  BY <1>8 DEF Archive, Move, NextFile
<1>9. ASSUME NEW c \in Consumers, EndScan(c) PROVE TypeOK'
  BY <1>9 DEF EndScan
<1>10. ASSUME NEW c \in Consumers, Interrupted(c) PROVE TypeOK'
  BY <1>10 DEF Interrupted
<1>11. ASSUME NEW c \in Consumers, ReadFails(c) PROVE TypeOK'
  <2>1. Current(c) \in Files BY <1>11, CurrentInTodo DEF ReadFails
  <2>2. /\ place' = [place EXCEPT ![Current(c)] = "DEAD_LETTER"]
        /\ unread' = unread \cup {Current(c)}
        /\ pc[c] = "SCAN" /\ pc' = [pc EXCEPT ![c] = "SCAN"]
        /\ todo' = [todo EXCEPT ![c] = @ \ {Current(c)}]
        /\ interruptions' = interruptions + 1 /\ interruptions < MaxInterruptions
        /\ UNCHANGED <<content, occurred, expired, owner, inbound, applied, heartbeat>>
    BY <1>11 DEF ReadFails, Move, NextFile
  <2>3. interruptions' \in 0..MaxInterruptions BY <2>2
  <2>4. unread' \subseteq Files BY <2>1, <2>2
  <2>5. place' \in [Files -> {"ABSENT", "FOLDER", "ARCHIVE", "DEAD_LETTER"}] BY <2>2
  <2>6. todo' \in [Consumers -> SUBSET Files] /\ pc' \in [Consumers -> {"IDLE", "SCAN", "VALIDATED", "HANDLED"}]
    BY <2>2
  <2>7. ASSUME NEW d \in Consumers
        PROVE  /\ pc'[d] # "IDLE" <=> owner' = d
               /\ pc'[d] = "IDLE" => todo'[d] = {}
               /\ pc'[d] \in {"VALIDATED", "HANDLED"} => todo'[d] # {}
    <3>1. CASE d = c BY <2>2, <3>1
    <3>2. CASE d # c BY <2>2, <3>2
    <3> QED BY <3>1, <3>2
  <2> QED BY <2>2, <2>3, <2>4, <2>5, <2>6, <2>7
<1>12. CASE UNCHANGED vars
  BY <1>12 DEF vars
<1> QED
  BY <1>1, <1>2, <1>3, <1>4, <1>5, <1>6, <1>7, <1>8, <1>9, <1>10, <1>11, <1>12
  DEF Next, Consume

(* The folder, the database and the consumers keep their types, and only   *)
(* the holder of the lock is scanning.                                     *)
THEOREM TypeCorrect == Spec => []TypeOK
BY TypeInit, TypeStep, PTL DEF Spec

-----------------------------------------------------------------------------
(* The database and the folders agree: a message has been applied exactly  *)
(* when it is recorded, and only a message that is or was in the folder    *)
(* can be. The files the scanning consumer has yet to handle are there,    *)
(* and it is HANDLED only at a recorded message.                           *)

Recorded ==
  /\ \A f \in Files : applied[f] = IF f \in inbound THEN 1 ELSE 0
  /\ \A f \in inbound : place[f] # "ABSENT"
  /\ \A f \in Files : place[f] = "ARCHIVE" => f \in inbound

Scanning ==
  /\ ScansDoNotCollide
  /\ \A c \in Consumers : pc[c] = "HANDLED" => Current(c) \in inbound

IInv == TypeOK /\ Recorded /\ Scanning

LEMMA InvInit == Init => IInv
<1> SUFFICES ASSUME Init PROVE Recorded /\ Scanning
  BY TypeInit DEF IInv
<1> QED BY DEF Init, Recorded, Scanning, ScansDoNotCollide

(* Only the holder of the lock has files left to handle. *)
LEMMA OthersIdle ==
  ASSUME TypeOK, NEW c \in Consumers, pc[c] # "IDLE", NEW d \in Consumers, d # c
  PROVE  pc[d] = "IDLE" /\ todo[d] = {}
BY DEF TypeOK

(* Moving the current file away, once it is either recorded or refused. *)
LEMMA MoveKeepsInv ==
  ASSUME IInv, NEW c \in Consumers, NEW folder \in {"ARCHIVE", "DEAD_LETTER"},
         pc[c] # "IDLE", todo[c] # {},
         Move(Current(c), folder), NextFile(c), UNCHANGED databaseVars,
         folder = "ARCHIVE" => Current(c) \in inbound
  PROVE  Recorded' /\ Scanning'
<1> DEFINE f == Current(c)
<1>1. todo[c] \subseteq Files /\ f \in todo[c]
  BY CurrentInTodo DEF IInv, TypeOK
<1>2. /\ place' = [place EXCEPT ![f] = folder]
      /\ pc' = [pc EXCEPT ![c] = "SCAN"]
      /\ todo' = [todo EXCEPT ![c] = @ \ {f}]
      /\ inbound' = inbound /\ applied' = applied
      /\ folder = "ARCHIVE" => f \in inbound
  BY DEF Move, NextFile, databaseVars
<1>3. Recorded'
  <2> HIDE DEF f
  <2> QED BY <1>1, <1>2 DEF IInv, TypeOK, Recorded
<1>4. ScansDoNotCollide'
  <2>1. ASSUME NEW d \in Consumers, d # c PROVE todo'[d] = {}
    BY <2>1, <1>2, OthersIdle DEF IInv, TypeOK
  <2>2. todo'[c] \subseteq InFolder'
    <3> HIDE DEF f
    <3> QED BY <1>1, <1>2 DEF IInv, TypeOK, Scanning, ScansDoNotCollide, InFolder
  <2> QED BY <2>1, <2>2 DEF ScansDoNotCollide
<1>5. ASSUME NEW d \in Consumers, pc'[d] = "HANDLED" PROVE FALSE
  BY <1>5, <1>2, OthersIdle DEF IInv, TypeOK
<1> QED BY <1>3, <1>4, <1>5 DEF Scanning

LEMMA InvStep == IInv /\ [Next]_vars => IInv'
<1> SUFFICES ASSUME IInv, [Next]_vars PROVE Recorded' /\ Scanning'
  BY TypeStep DEF IInv
<1> USE DEF IInv, TypeOK, fileVars, databaseVars, consumerVars
<1>0. ASSUME UNCHANGED <<pc, todo, inbound, applied>>,
             NEW f \in Files, place[f] = "ABSENT" \/ UNCHANGED place,
             \A g \in Files : place[g] # "ABSENT" => place'[g] = place[g],
             place'[f] # "ARCHIVE" \/ UNCHANGED place,
             place' \in [Files -> {"ABSENT", "FOLDER", "ARCHIVE", "DEAD_LETTER"}],
             \A g \in Files \ {f} : place'[g] = place[g]
      PROVE  Recorded' /\ Scanning'
  <2>1. \A c \in Consumers : Current(c)' = Current(c)
    BY <1>0, CurrentUnchanged
  <2>2. Recorded' BY <1>0 DEF Recorded
  <2>3. ScansDoNotCollide' BY <1>0 DEF Scanning, ScansDoNotCollide, InFolder
  <2> QED BY <1>0, <2>1, <2>2, <2>3 DEF Scanning
<1>1. ASSUME NEW f \in Files, Publish(f) PROVE Recorded' /\ Scanning'
  BY <1>1, <1>0 DEF Publish
<1>2. ASSUME NEW f \in Files, Expire(f) PROVE Recorded' /\ Scanning'
  BY <1>2, <1>0 DEF Expire
<1>3. ASSUME NEW c \in Consumers, BeginScan(c) PROVE Recorded' /\ Scanning'
  <2>1. Recorded' BY <1>3 DEF BeginScan, Recorded
  <2>2. ScansDoNotCollide'
    BY <1>3 DEF BeginScan, Scanning, ScansDoNotCollide, Listed, InFolder
  <2>3. ASSUME NEW d \in Consumers, pc'[d] = "HANDLED" PROVE Current(d)' \in inbound'
    <3>1. d # c /\ pc[d] = "HANDLED" BY <2>3, <1>3 DEF BeginScan
    <3>2. owner = d BY <3>1
    <3> QED BY <3>2, <1>3, NoOneAssumption DEF BeginScan
  <2> QED BY <2>1, <2>2, <2>3 DEF Scanning
<1>4. ASSUME NEW c \in Consumers, Validate(c) PROVE Recorded' /\ Scanning'
  <2>1. Recorded' BY <1>4 DEF Validate, Recorded
  <2>2. ScansDoNotCollide' BY <1>4 DEF Validate, Scanning, ScansDoNotCollide, InFolder
  <2>3. ASSUME NEW d \in Consumers, pc'[d] = "HANDLED" PROVE FALSE
    BY <2>3, <1>4, OthersIdle DEF Validate
  <2> QED BY <2>1, <2>2, <2>3 DEF Scanning
<1>5. ASSUME NEW c \in Consumers, DeadLetterInvalid(c) PROVE Recorded' /\ Scanning'
  BY <1>5, MoveKeepsInv DEF DeadLetterInvalid
<1>6. ASSUME NEW c \in Consumers, Handle(c) PROVE Recorded' /\ Scanning'
  <2> DEFINE f == Current(c)
  <2>1. f \in todo[c] /\ f \in Files BY <1>6, CurrentInTodo DEF Handle
  <2>2. place[f] = "FOLDER" BY <2>1 DEF Scanning, ScansDoNotCollide, InFolder
  <2>3. /\ IF f \notin inbound
             THEN inbound' = inbound \cup {f} /\ applied' = [applied EXCEPT ![f] = @ + 1]
             ELSE inbound' = inbound /\ applied' = applied
        /\ pc' = [pc EXCEPT ![c] = "HANDLED"]
        /\ UNCHANGED <<place, todo>>
    BY <1>6 DEF Handle, New
  <2>4. Recorded'
    <3> HIDE DEF f
    <3> QED BY <2>1, <2>2, <2>3 DEF Recorded
  <2>5. ScansDoNotCollide' BY <2>3 DEF Scanning, ScansDoNotCollide, InFolder
  <2>6. ASSUME NEW d \in Consumers, pc'[d] = "HANDLED" PROVE Current(d)' \in inbound'
    <3>1. d = c BY <2>6, <2>3, <1>6, OthersIdle DEF Handle
    <3>2. Current(d)' = f BY <3>1, <2>3, CurrentUnchanged
    <3> QED BY <3>2, <2>3
  <2> QED BY <2>4, <2>5, <2>6 DEF Scanning
<1>7. ASSUME NEW c \in Consumers, DeadLetterRejected(c) PROVE Recorded' /\ Scanning'
  BY <1>7, MoveKeepsInv DEF DeadLetterRejected
<1>8. ASSUME NEW c \in Consumers, Archive(c) PROVE Recorded' /\ Scanning'
  BY <1>8, MoveKeepsInv DEF Archive, Scanning
<1>9. ASSUME NEW c \in Consumers, EndScan(c) PROVE Recorded' /\ Scanning'
  <2>1. Recorded' BY <1>9 DEF EndScan, Recorded
  <2>2. ScansDoNotCollide' BY <1>9 DEF EndScan, Scanning, ScansDoNotCollide, InFolder
  <2>3. ASSUME NEW d \in Consumers, pc'[d] = "HANDLED" PROVE FALSE
    BY <2>3, <1>9, OthersIdle DEF EndScan
  <2> QED BY <2>1, <2>2, <2>3 DEF Scanning
<1>10. ASSUME NEW c \in Consumers, Interrupted(c) PROVE Recorded' /\ Scanning'
  <2>1. Recorded' BY <1>10 DEF Interrupted, Recorded
  <2>2. ScansDoNotCollide' BY <1>10 DEF Interrupted, Scanning, ScansDoNotCollide, InFolder
  <2>3. ASSUME NEW d \in Consumers, pc'[d] = "HANDLED" PROVE FALSE
    BY <2>3, <1>10, OthersIdle DEF Interrupted
  <2> QED BY <2>1, <2>2, <2>3 DEF Scanning
<1>11. ASSUME NEW c \in Consumers, ReadFails(c) PROVE Recorded' /\ Scanning'
  BY <1>11, MoveKeepsInv DEF ReadFails
<1>12. CASE UNCHANGED vars
  <2>1. \A c \in Consumers : Current(c)' = Current(c)
    BY <1>12, CurrentUnchanged DEF vars
  <2> QED BY <1>12, <2>1 DEF vars, Recorded, Scanning, ScansDoNotCollide, InFolder
<1> QED
  BY <1>1, <1>2, <1>3, <1>4, <1>5, <1>6, <1>7, <1>8, <1>9, <1>10, <1>11, <1>12
  DEF Next, Consume

THEOREM Inductive == Spec => []IInv
BY InvInit, InvStep, PTL DEF Spec

(* A message has its effect at most once, for any number of consumers and  *)
(* interruptions.                                                          *)
THEOREM AppliedOnce == Spec => []AppliedAtMostOnce
<1>1. IInv => AppliedAtMostOnce BY DEF IInv, Recorded, AppliedAtMostOnce
<1> QED BY <1>1, Inductive, PTL

(* No consumer comes to a file that another one has moved away. *)
THEOREM NoCollision == Spec => []ScansDoNotCollide
<1>1. IInv => ScansDoNotCollide BY DEF IInv, Scanning
<1> QED BY <1>1, Inductive, PTL

-----------------------------------------------------------------------------
(* What is thrown out, and the heartbeat row.                              *)

LEMMA DeadLetterStep ==
  TypeOK /\ DeadLetterOnlyRefused /\ [Next]_vars => DeadLetterOnlyRefused'
<1> SUFFICES ASSUME TypeOK, DeadLetterOnlyRefused, [Next]_vars
             PROVE  DeadLetterOnlyRefused'
  OBVIOUS
<1> USE DEF TypeOK, DeadLetterOnlyRefused, fileVars, consumerVars
<1>1. CASE UNCHANGED <<content, place, unread>> /\ expired \subseteq expired'
  BY <1>1
<1>2. ASSUME NEW f \in Files, Publish(f) PROVE DeadLetterOnlyRefused'
  BY <1>2 DEF Publish
<1>3. ASSUME NEW f \in Files, Expire(f) PROVE DeadLetterOnlyRefused'
  BY <1>3, <1>1 DEF Expire
<1>4. ASSUME NEW c \in Consumers, NEW folder \in {"ARCHIVE", "DEAD_LETTER"},
             Move(Current(c), folder), UNCHANGED <<content, expired>>,
             todo[c] # {}, unread \subseteq unread',
             folder = "DEAD_LETTER" =>
               \/ ~Accepts(Current(c)) \/ content[Current(c)] = "REJECTED"
               \/ Current(c) \in unread'
      PROVE  DeadLetterOnlyRefused'
  <2> DEFINE f == Current(c)
  <2>1. f \in Files BY <1>4, CurrentInTodo
  <2>2. /\ place' = [place EXCEPT ![f] = folder]
        /\ folder = "DEAD_LETTER" =>
             \/ f \in unread' \/ content[f] \in {"MALFORMED", "REJECTED"}
             \/ content[f] = "EVENT" /\ f \in expired
    BY <1>4, <2>1 DEF Move, Accepts, Contents
  <2> HIDE DEF f
  <2> QED BY <1>4, <2>1, <2>2
<1>5. ASSUME NEW c \in Consumers, Consume(c) PROVE DeadLetterOnlyRefused'
  <2>1. CASE Validate(c) \/ EndScan(c) BY <2>1, <1>1 DEF Validate, EndScan
  <2>2. CASE Handle(c) BY <2>2, <1>1 DEF Handle
  <2>3. CASE DeadLetterInvalid(c) BY <2>3, <1>4 DEF DeadLetterInvalid
  <2>4. CASE DeadLetterRejected(c) BY <2>4, <1>4 DEF DeadLetterRejected
  <2>5. CASE Archive(c) BY <2>5, <1>4 DEF Archive
  <2> QED BY <1>5, <2>1, <2>2, <2>3, <2>4, <2>5 DEF Consume
<1>6. ASSUME NEW c \in Consumers, BeginScan(c) \/ Interrupted(c)
      PROVE  DeadLetterOnlyRefused'
  BY <1>6, <1>1 DEF BeginScan, Interrupted
<1>7. ASSUME NEW c \in Consumers, ReadFails(c) PROVE DeadLetterOnlyRefused'
  BY <1>7, <1>4 DEF ReadFails
<1>8. CASE UNCHANGED vars BY <1>8, <1>1 DEF vars
<1> QED BY <1>2, <1>3, <1>5, <1>6, <1>7, <1>8 DEF Next

(* A failed transaction never puts its message away: what is thrown out    *)
(* was refused, had expired or could not be read.                          *)
THEOREM OnlyRefusedThrownOut == Spec => []DeadLetterOnlyRefused
<1>1. Init => DeadLetterOnlyRefused BY DEF Init, DeadLetterOnlyRefused
<1> QED BY <1>1, DeadLetterStep, TypeCorrect, PTL DEF Spec

LEMMA HeartbeatStep ==
  TypeOK /\ HeartbeatIsNewest /\ [Next]_vars => HeartbeatIsNewest'
<1> SUFFICES ASSUME TypeOK, HeartbeatIsNewest, [Next]_vars PROVE HeartbeatIsNewest'
  OBVIOUS
<1> DEFINE stamps == {occurred[f] : f \in {g \in inbound : content[g] = "HEARTBEAT"}}
<1>1. CASE UNCHANGED <<inbound, heartbeat, content, occurred>>
  BY <1>1 DEF HeartbeatIsNewest
<1>2. ASSUME NEW c \in Consumers, Handle(c) PROVE HeartbeatIsNewest'
  <2> DEFINE f == Current(c)
  <2>1. f \in Files BY <1>2, CurrentInTodo DEF Handle, TypeOK
  <2>2. UNCHANGED <<content, occurred>> BY <1>2 DEF Handle, fileVars
  <2>3. CASE ~New(f) BY <2>3, <1>2, <1>1, <2>2 DEF Handle, databaseVars
  <2>4. CASE New(f)
    <3>1. inbound' = inbound \cup {f} /\ heartbeat' = RecordedHeartbeat(f)
      BY <2>4, <1>2 DEF Handle
    <3> HIDE DEF f
    <3>2. CASE content[f] # "HEARTBEAT"
      <4>1. stamps' = stamps /\ heartbeat' = heartbeat
        BY <3>1, <3>2, <2>2 DEF RecordedHeartbeat
      <4> QED BY <4>1 DEF HeartbeatIsNewest
    <3>3. CASE content[f] = "HEARTBEAT"
      <4>1. stamps' = stamps \cup {occurred[f]}
        BY <3>1, <3>3, <2>2
      <4>2. stamps \subseteq Nat /\ occurred[f] \in Nat \ {0} /\ heartbeat \in Nat
        <5>1. occurred \in [Files -> Files] /\ inbound \subseteq Files /\ heartbeat \in Files \cup {0}
          BY DEF TypeOK
        <5>2. \A g \in inbound : occurred[g] \in Nat
          BY <5>1, FilesAssumption
        <5>3. stamps \subseteq Nat BY <5>2
        <5>4. occurred[f] \in Nat \ {0} BY <5>1, <2>1, FilesAssumption
        <5>5. heartbeat \in Nat BY <5>1, FilesAssumption
        <5> QED BY <5>3, <5>4, <5>5
      <4>3. heartbeat' = IF occurred[f] >= heartbeat THEN occurred[f] ELSE heartbeat
        BY <3>1, <3>3 DEF RecordedHeartbeat
      <4>4. IF stamps = {} THEN heartbeat = 0
            ELSE heartbeat \in stamps /\ \A s \in stamps : s <= heartbeat
        BY DEF HeartbeatIsNewest
      <4>5. heartbeat' \in stamps' /\ \A s \in stamps' : s <= heartbeat'
        <5> HIDE DEF stamps
        <5> QED BY <4>1, <4>2, <4>3, <4>4
      <4> QED BY <4>1, <4>5 DEF HeartbeatIsNewest
    <3> QED BY <3>2, <3>3
  <2> QED BY <2>3, <2>4
<1>3. ASSUME NEW c \in Consumers, Consume(c), ~Handle(c) PROVE HeartbeatIsNewest'
  BY <1>3, <1>1
  DEF Consume, Validate, DeadLetterInvalid, DeadLetterRejected, Archive, EndScan,
      fileVars, databaseVars
<1>4. ASSUME NEW f \in Files, Publish(f) \/ Expire(f) PROVE HeartbeatIsNewest'
  BY <1>4, <1>1 DEF Publish, Expire, fileVars, databaseVars
<1>5. ASSUME NEW c \in Consumers, BeginScan(c) \/ Interrupted(c) \/ ReadFails(c)
      PROVE  HeartbeatIsNewest'
  BY <1>5, <1>1 DEF BeginScan, Interrupted, ReadFails, fileVars, databaseVars
<1>6. CASE UNCHANGED vars
  BY <1>6, <1>1 DEF vars, fileVars, databaseVars
<1> QED BY <1>2, <1>3, <1>4, <1>5, <1>6 DEF Next

(* The heartbeat row is the newest heartbeat ingested, in whatever order   *)
(* heartbeats are stamped, published and consumed.                         *)
THEOREM NewestHeartbeat == Spec => []HeartbeatIsNewest
<1>1. Init => HeartbeatIsNewest BY DEF Init, HeartbeatIsNewest
<1> QED BY <1>1, HeartbeatStep, TypeCorrect, PTL DEF Spec

-----------------------------------------------------------------------------
(* FileQueue implements Inbox. *)

LEMMA PromiseInit == Init => Promise!Init
BY DEF Init, Promise!Init, InFolder, InDeadLetter

LEMMA PromiseStep == IInv /\ [Next]_vars => [Promise!Next]_Promise!vars
<1> SUFFICES ASSUME IInv, [Next]_vars PROVE Promise!Next \/ UNCHANGED Promise!vars
  OBVIOUS
<1> USE DEF fileVars, databaseVars, consumerVars
<1>1. CASE UNCHANGED <<place, inbound>>
  BY <1>1 DEF Promise!vars, InFolder, InDeadLetter
<1>2. ASSUME NEW f \in Files, Publish(f) PROVE Promise!Next
  <2>1. Promise!Arrive(f)
    BY <1>2 DEF IInv, TypeOK, Recorded, Publish, Promise!Arrive, InFolder, InDeadLetter
  <2> QED BY <2>1 DEF Promise!Next
<1>3. ASSUME NEW c \in Consumers, Handle(c) PROVE Promise!Next \/ UNCHANGED Promise!vars
  <2> DEFINE f == Current(c)
  <2>1. f \in Files /\ place[f] = "FOLDER"
    BY <1>3, CurrentInTodo DEF Handle, IInv, TypeOK, Scanning, ScansDoNotCollide, InFolder
  <2>2. place' = place BY <1>3 DEF Handle
  <2>3. CASE ~New(f) BY <2>3, <1>3, <1>1, <2>2 DEF Handle
  <2>4. CASE New(f)
    <3>1. inbound' = inbound \cup {f} /\ f \notin inbound BY <2>4, <1>3 DEF Handle, New
    <3> HIDE DEF f
    <3>2. Promise!Apply(f) BY <2>1, <2>2, <3>1 DEF Promise!Apply, InFolder, InDeadLetter
    <3> QED BY <2>1, <3>2 DEF Promise!Next
  <2> QED BY <2>3, <2>4
<1>4. ASSUME NEW c \in Consumers, NEW folder \in {"ARCHIVE", "DEAD_LETTER"},
             pc[c] # "IDLE", todo[c] # {}, Move(Current(c), folder), inbound' = inbound,
             folder = "ARCHIVE" => Current(c) \in inbound
      PROVE  Promise!Next \/ UNCHANGED Promise!vars
  <2>1. PICK f \in Files : f = Current(c) /\ place[f] = "FOLDER"
    BY <1>4, CurrentInTodo DEF IInv, TypeOK, Scanning, ScansDoNotCollide, InFolder
  <2>2. place' = [place EXCEPT ![f] = folder] /\ (folder = "ARCHIVE" => f \in inbound)
    BY <1>4, <2>1 DEF Move
  <2>3. place \in [Files -> {"ABSENT", "FOLDER", "ARCHIVE", "DEAD_LETTER"}]
    BY DEF IInv, TypeOK
  <2>4. CASE f \in inbound
    BY <1>4, <2>1, <2>2, <2>3, <2>4 DEF Promise!vars, InFolder, InDeadLetter
  <2>5. CASE f \notin inbound
    <3>1. Promise!Refuse(f)
      <4>1. place' = [place EXCEPT ![f] = "DEAD_LETTER"] BY <2>2, <2>5
      <4>2. InFolder' = InFolder \ {f} BY <4>1, <2>1, <2>3 DEF InFolder
      <4>3. InDeadLetter' = InDeadLetter \cup {f} BY <4>1, <2>1, <2>3 DEF InDeadLetter
      <4>4. f \in InFolder \ inbound BY <2>1, <2>5 DEF InFolder
      <4> QED BY <1>4, <4>2, <4>3, <4>4, <2>5 DEF Promise!Refuse
    <3>2. Promise!Next BY <2>1, <3>1 DEF Promise!Next
    <3> QED BY <3>2
  <2> QED BY <2>4, <2>5
<1>5. ASSUME NEW c \in Consumers, Consume(c) PROVE Promise!Next \/ UNCHANGED Promise!vars
  <2>1. CASE Validate(c) \/ EndScan(c) BY <2>1, <1>1 DEF Validate, EndScan
  <2>2. CASE Handle(c) BY <2>2, <1>3
  <2>3. CASE DeadLetterInvalid(c) BY <2>3, <1>4 DEF DeadLetterInvalid
  <2>4. CASE DeadLetterRejected(c)
    BY <2>4, <1>4 DEF DeadLetterRejected, IInv, TypeOK
  <2>5. CASE Archive(c) BY <2>5, <1>4 DEF Archive, IInv, TypeOK, Scanning
  <2> QED BY <1>5, <2>1, <2>2, <2>3, <2>4, <2>5 DEF Consume
<1>6. ASSUME NEW f \in Files, Expire(f) PROVE UNCHANGED Promise!vars
  BY <1>6, <1>1 DEF Expire, Promise!vars, InFolder, InDeadLetter
<1>7. ASSUME NEW c \in Consumers, BeginScan(c) \/ Interrupted(c)
      PROVE  UNCHANGED Promise!vars
  BY <1>7 DEF BeginScan, Interrupted, Promise!vars, InFolder, InDeadLetter
<1>8. ASSUME NEW c \in Consumers, ReadFails(c)
      PROVE  Promise!Next \/ UNCHANGED Promise!vars
  BY <1>8, <1>4 DEF ReadFails
<1>9. CASE UNCHANGED vars BY <1>9, <1>1 DEF vars
<1> QED BY <1>2, <1>5, <1>6, <1>7, <1>8, <1>9 DEF Next

(* Recording a message and applying it are one step, and no message is     *)
(* both applied and refused: FileQueue is an Inbox.                        *)
THEOREM Refinement == Spec => ImplementsInbox
<1>1. Spec => Promise!Spec
  BY PromiseInit, PromiseStep, Inductive, PTL DEF Spec, Promise!Spec
<1> QED BY <1>1 DEF ImplementsInbox

-----------------------------------------------------------------------------
(* The order in which messages take effect. The files of one writer, or of *)
(* writers that wait for each other, are published in the order of their   *)
(* names; those of other writers come in between in any order.             *)

InLine(L) == \A f, g \in L : f < g /\ place[f] = "ABSENT" => place[g] = "ABSENT"

(* What a scan has yet to handle is all there is up to its last file.      *)
Frontier(L) ==
  \A c \in Consumers : \A f \in todo[c] \cap L, g \in InFolder \cap L : g < f => g \in todo[c]

(* A listing leaves no file out that comes before one it holds.            *)
LEMMA ListedIsPrefix ==
  ASSUME TypeOK, NEW f \in Listed, NEW g \in InFolder, g < f
  PROVE  g \in Listed
<1> DEFINE Before == {k \in InFolder : k < f}
           Earlier == {k \in InFolder : k < g}
<1>1. InFolder \subseteq Nat /\ f \in InFolder /\ f \in Nat /\ g \in Nat
  BY FilesAssumption DEF InFolder, Listed
<1>2. Before \in SUBSET Nat /\ Earlier \in SUBSET Before /\ \A s \in Before : s <= f
  <2>1. \A s \in Before : s \in Nat /\ s <= f BY <1>1
  <2>2. \A s \in Earlier : s \in Before BY <1>1
  <2> HIDE DEF Before, Earlier
  <2> QED BY <2>1, <2>2
<1>3. Cardinality(Before) < Limit
  BY DEF Listed
<1> HIDE DEF Before, Earlier
<1>4. IsFiniteSet(Before)
  BY <1>1, <1>2, FS_BoundedSetOfNaturals
<1>5. IsFiniteSet(Earlier) /\ Cardinality(Earlier) <= Cardinality(Before)
  BY <1>2, <1>4, FS_Subset
<1>6. Cardinality(Before) \in Nat /\ Cardinality(Earlier) \in Nat
  BY <1>4, <1>5, FS_CardinalityType
<1>7. Cardinality(Earlier) < Limit
  BY <1>3, <1>5, <1>6, LimitAssumption
<1> QED BY <1>7 DEF Listed, Earlier

(* Once its first file is moved away, the rest of a list is still all      *)
(* there is up to its last file.                                           *)
LEMMA MoveKeepsFrontier ==
  ASSUME IInv, NEW L, L \subseteq Files, Frontier(L), NEW c \in Consumers,
         NEW folder \in {"ARCHIVE", "DEAD_LETTER"},
         todo[c] # {}, Move(Current(c), folder), NextFile(c)
  PROVE  Frontier(L)'
<1> DEFINE f == Current(c)
<1>1. f \in todo[c] /\ f \in Files BY CurrentInTodo DEF IInv, TypeOK
<1>2. /\ place' = [place EXCEPT ![f] = folder]
      /\ todo' = [todo EXCEPT ![c] = @ \ {f}]
  BY DEF Move, NextFile
<1> HIDE DEF f
<1>3. InFolder' = InFolder \ {f} BY <1>1, <1>2 DEF InFolder, IInv, TypeOK
<1>4. \A d \in Consumers : todo'[d] = IF d = c THEN todo[d] \ {f} ELSE todo[d]
  BY <1>2 DEF IInv, TypeOK
<1> QED BY <1>3, <1>4 DEF Frontier

LEMMA FrontierStep ==
  ASSUME NEW L, L \subseteq Files
  PROVE  IInv /\ Frontier(L) /\ InLine(L) /\ [Next]_vars => Frontier(L)'
<1> SUFFICES ASSUME IInv, Frontier(L), InLine(L), [Next]_vars PROVE Frontier(L)'
  OBVIOUS
<1> USE DEF fileVars, databaseVars, consumerVars
<1>1. CASE UNCHANGED <<place, todo>> BY <1>1 DEF Frontier, InFolder
<1>2. ASSUME NEW g \in Files, Publish(g) PROVE Frontier(L)'
  <2>1. place[g] = "ABSENT" /\ todo' = todo /\ InFolder' = InFolder \cup {g}
    BY <1>2 DEF Publish, InFolder, IInv, TypeOK
  <2>2. ASSUME NEW c \in Consumers, NEW f \in todo[c] \cap L, g \in L, g < f PROVE FALSE
    <3>1. place[f] = "FOLDER" BY DEF IInv, Scanning, ScansDoNotCollide, InFolder
    <3> QED BY <2>1, <2>2, <3>1 DEF InLine
  <2> QED BY <2>1, <2>2 DEF Frontier
<1>3. ASSUME NEW c \in Consumers, BeginScan(c) PROVE Frontier(L)'
  <2>1. todo' = [todo EXCEPT ![c] = Listed] /\ InFolder' = InFolder
    BY <1>3 DEF BeginScan, InFolder
  <2>2. \A f \in Listed, g \in InFolder : g < f => g \in Listed
    BY ListedIsPrefix DEF IInv
  <2> QED BY <2>1, <2>2 DEF Frontier, IInv, TypeOK
<1>4. ASSUME NEW c \in Consumers,
             DeadLetterInvalid(c) \/ DeadLetterRejected(c) \/ Archive(c) \/ ReadFails(c)
      PROVE  Frontier(L)'
  <2>1. todo[c] # {}
    BY <1>4 DEF DeadLetterInvalid, DeadLetterRejected, Archive, ReadFails, IInv, TypeOK
  <2> QED BY <1>4, <2>1, MoveKeepsFrontier
        DEF DeadLetterInvalid, DeadLetterRejected, Archive, ReadFails
<1>5. ASSUME NEW c \in Consumers, Interrupted(c) PROVE Frontier(L)'
  BY <1>5 DEF Interrupted, Frontier, InFolder, IInv, TypeOK
<1>6. ASSUME NEW c \in Consumers, Validate(c) \/ Handle(c) \/ EndScan(c) PROVE Frontier(L)'
  BY <1>1, <1>6 DEF Validate, Handle, EndScan
<1>7. ASSUME NEW f \in Files, Expire(f) PROVE Frontier(L)'
  BY <1>1, <1>7 DEF Expire
<1>8. CASE UNCHANGED vars BY <1>1, <1>8 DEF vars
<1> QED BY <1>2, <1>3, <1>4, <1>5, <1>6, <1>7, <1>8 DEF Next, Consume

(* Messages that are published in the order of their names take effect in  *)
(* that order: each only after all earlier ones are applied or refused,    *)
(* whichever consumers take part and wherever they are interrupted (the    *)
(* sorted listing under the lock). OrderPipeline takes the folders of the  *)
(* Adapter's answers and events as such lines.                             *)
THEOREM AppliedInOrder ==
  ASSUME NEW L, L \subseteq Files
  PROVE  Spec /\ []InLine(L) =>
           [][\A f \in (inbound' \ inbound) \cap L, g \in L :
                g < f => g \in inbound \/ place[g] = "DEAD_LETTER"]_vars
<1> DEFINE Ordered == \A f \in (inbound' \ inbound) \cap L, g \in L :
                        g < f => g \in inbound \/ place[g] = "DEAD_LETTER"
<1>1. Init => Frontier(L) BY DEF Init, Frontier
<1>2. IInv /\ Frontier(L) /\ InLine(L) /\ [Next]_vars => [Ordered]_vars
  <2> SUFFICES ASSUME IInv, Frontier(L), InLine(L), Next,
                      NEW f \in (inbound' \ inbound) \cap L, NEW g \in L, g < f
               PROVE  g \in inbound \/ place[g] = "DEAD_LETTER"
    BY DEF vars, databaseVars
  <2> USE DEF fileVars, databaseVars, consumerVars
  <2>1. PICK c \in Consumers : Handle(c)
    <3>1. \A h \in Files : ~Publish(h) /\ ~Expire(h) BY DEF Publish, Expire
    <3>2. \A c \in Consumers : ~BeginScan(c) /\ ~Validate(c) /\ ~DeadLetterInvalid(c)
             /\ ~DeadLetterRejected(c) /\ ~Archive(c) /\ ~EndScan(c) /\ ~Interrupted(c) /\ ~ReadFails(c)
      BY DEF BeginScan, Validate, DeadLetterInvalid, DeadLetterRejected, Archive, EndScan,
             Interrupted, ReadFails
    <3> QED BY <3>1, <3>2 DEF Next, Consume
  <2>2. f = Current(c) BY <2>1 DEF Handle
  <2>3. f \in todo[c] /\ \A h \in todo[c] : f <= h
    BY <2>1, <2>2, FirstFile DEF Handle, IInv, TypeOK, Current
  <2>4. f \in Nat /\ g \in Nat /\ g \in Files BY FilesAssumption
  <2>5. g \notin todo[c] BY <2>3, <2>4
  <2>6. place[g] # "FOLDER" BY <2>3, <2>4, <2>5 DEF Frontier, InFolder
  <2>7. place[f] = "FOLDER" BY <2>3 DEF IInv, Scanning, ScansDoNotCollide, InFolder
  <2>8. place[g] # "ABSENT" BY <2>7 DEF InLine
  <2> QED BY <2>4, <2>6, <2>8 DEF IInv, TypeOK, Recorded
<1>3. IInv /\ Frontier(L) /\ InLine(L) /\ [Next]_vars => Frontier(L)'
  BY FrontierStep
<1> HIDE DEF Ordered
<1>4. Spec /\ []InLine(L) => [][Ordered]_vars
  BY <1>1, <1>2, <1>3, Inductive, PTL DEF Spec
<1> QED BY <1>4 DEF Ordered

=============================================================================
