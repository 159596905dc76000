------------------------------ MODULE FileQueue ------------------------------
(***************************************************************************)
(* One folder of the file queue on the Worker's side (command_acks,        *)
(* control_acks or events): FileQueue.consume with the handler the         *)
(* EventIngester gives it. The queue loop, RPC threads and the processes   *)
(* of the Console and the Manager consume the same folder; an OS lock per  *)
(* folder keeps them apart. A consumer may be killed, and a database or    *)
(* file operation may fail, between any two of its steps.                  *)
(***************************************************************************)
EXTENDS Integers, FiniteSets

CONSTANTS
  Files,             \* message files, numbered in the order of their names
  Consumers,         \* threads and processes that scan the folder
  NoOne,             \* holds the lock when it is free
  Limit,             \* files one scan handles at most
  MaxInterruptions   \* bound: kills of a consumer, failed operations and reads

ASSUME FilesAssumption == Files \subseteq Nat \ {0}
ASSUME NoOneAssumption == NoOne \notin Consumers
ASSUME LimitAssumption == Limit \in Nat \ {0} /\ MaxInterruptions \in Nat

(* What the file holds: a heartbeat, another message of its type, one that *)
(* validate_envelope refuses, one that the handler refuses (BridgeError).  *)
Contents == {"HEARTBEAT", "EVENT", "MALFORMED", "REJECTED"}

VARIABLES
  content,        \* content[f]
  occurred,       \* occurred[f]: when the writer of f stamped its payload
  place,          \* place[f]: the folder f is in
  expired,        \* the files whose envelope has expired
  unread,         \* the files a consumer failed to read, although they were there
  owner,          \* who holds the folder's lock
  pc,             \* pc[c]: where consumer c stands
  todo,           \* todo[c]: the listed files it has yet to handle
  inbound,        \* the messages recorded in inbound_events
  applied,        \* applied[f]: how often f's effect was committed
  heartbeat,      \* heartbeats.occurred_at, 0 without a row
  interruptions

fileVars == <<content, occurred, unread>>
databaseVars == <<inbound, applied, heartbeat>>
consumerVars == <<owner, pc, todo>>
vars == <<fileVars, place, expired, consumerVars, databaseVars, interruptions>>

TypeOK ==
  /\ content \in [Files -> Contents]
  /\ occurred \in [Files -> Files]
  /\ place \in [Files -> {"ABSENT", "FOLDER", "ARCHIVE", "DEAD_LETTER"}]
  /\ expired \subseteq Files
  /\ unread \subseteq Files
  /\ owner \in Consumers \cup {NoOne}
  /\ pc \in [Consumers -> {"IDLE", "SCAN", "VALIDATED", "HANDLED"}]
  /\ todo \in [Consumers -> SUBSET Files]
  /\ inbound \subseteq Files
  /\ applied \in [Files -> Nat]
  /\ heartbeat \in Files \cup {0}
  /\ interruptions \in 0..MaxInterruptions
  /\ \A c \in Consumers :
       /\ pc[c] # "IDLE" <=> owner = c
       /\ pc[c] = "IDLE" => todo[c] = {}
       /\ pc[c] \in {"VALIDATED", "HANDLED"} => todo[c] # {}

(* A writer stamps the payload, names the file and publishes it in three   *)
(* steps, and several threads write: the stamps, the names and the         *)
(* publications of different files come in any order. (Only the stamp of a *)
(* heartbeat is read: the others are all alike.)                           *)
Init ==
  /\ content \in [Files -> Contents]
  /\ occurred \in [Files -> Files]
  /\ \A f \in Files : content[f] # "HEARTBEAT" => occurred[f] = f
  /\ place = [f \in Files |-> "ABSENT"]
  /\ expired = {}
  /\ unread = {}
  /\ owner = NoOne
  /\ pc = [c \in Consumers |-> "IDLE"]
  /\ todo = [c \in Consumers |-> {}]
  /\ inbound = {}
  /\ applied = [f \in Files |-> 0]
  /\ heartbeat = 0
  /\ interruptions = 0

InFolder == {f \in Files : place[f] = "FOLDER"}
InDeadLetter == {f \in Files : place[f] = "DEAD_LETTER"}

-----------------------------------------------------------------------------
(* The writers and time.                                                   *)

(* FileQueue.write and the Adapter's _write_event: the temporary file      *)
(* becomes visible under its name at once and completely.                  *)
Publish(f) ==
  /\ place[f] = "ABSENT"
  /\ place' = [place EXCEPT ![f] = "FOLDER"]
  /\ UNCHANGED <<fileVars, expired, consumerVars, databaseVars, interruptions>>

(* The age of a file that is refused anyway does not matter. *)
Expire(f) ==
  /\ place[f] = "FOLDER" /\ f \notin expired
  /\ content[f] \in {"HEARTBEAT", "EVENT"}
  /\ expired' = expired \cup {f}
  /\ UNCHANGED <<fileVars, place, consumerVars, databaseVars, interruptions>>

-----------------------------------------------------------------------------
(* The consumer. It goes through the files it listed in their order.       *)

Current(c) == CHOOSE f \in todo[c] : \A g \in todo[c] : f <= g

(* The first files of the folder, as many as one scan may handle. *)
Listed == {f \in InFolder : Cardinality({g \in InFolder : g < f}) < Limit}

(* Mutant: the lock is shared. *)
BeginScanShared(c) ==
  /\ pc[c] = "IDLE"
  /\ InFolder # {}
  /\ owner' = c
  /\ pc' = [pc EXCEPT ![c] = "SCAN"]
  /\ todo' = [todo EXCEPT ![c] = Listed]
  /\ UNCHANGED <<fileVars, place, expired, databaseVars, interruptions>>

(* The lock is free: it is taken and the folder listed. A scan that finds  *)
(* the lock taken, or the folder empty, changes nothing.                   *)
BeginScan(c) ==
  /\ pc[c] = "IDLE"
  /\ owner = NoOne
  /\ InFolder # {}
  /\ owner' = c
  /\ pc' = [pc EXCEPT ![c] = "SCAN"]
  /\ todo' = [todo EXCEPT ![c] = Listed]
  /\ UNCHANGED <<fileVars, place, expired, databaseVars, interruptions>>

(* validate_envelope; a heartbeat is accepted after its expiry.            *)
Accepts(f) == content[f] # "MALFORMED" /\ (f \in expired => content[f] = "HEARTBEAT")

Move(f, folder) == place' = [place EXCEPT ![f] = folder]

NextFile(c) ==
  /\ pc' = [pc EXCEPT ![c] = "SCAN"]
  /\ todo' = [todo EXCEPT ![c] = @ \ {Current(c)}]
  /\ UNCHANGED owner

Validate(c) ==
  /\ pc[c] = "SCAN" /\ todo[c] # {}
  /\ Accepts(Current(c))
  /\ pc' = [pc EXCEPT ![c] = "VALIDATED"]
  /\ UNCHANGED <<fileVars, place, expired, owner, todo, databaseVars, interruptions>>

DeadLetterInvalid(c) ==
  /\ pc[c] = "SCAN" /\ todo[c] # {}
  /\ ~Accepts(Current(c))
  /\ Move(Current(c), "DEAD_LETTER")
  /\ NextFile(c)
  /\ UNCHANGED <<fileVars, expired, databaseVars, interruptions>>

(* getsize, open or read fails: whatever is raised before the handler runs *)
(* counts as a refusal of the message.                                     *)
ReadFails(c) ==
  /\ interruptions < MaxInterruptions
  /\ pc[c] = "SCAN" /\ todo[c] # {}
  /\ interruptions' = interruptions + 1
  /\ unread' = unread \cup {Current(c)}
  /\ Move(Current(c), "DEAD_LETTER")
  /\ NextFile(c)
  /\ UNCHANGED <<content, occurred, expired, databaseVars>>

(* Mutant: the row of inbound_events is not looked at. *)
NewAlways(f) == TRUE

(* INSERT OR IGNORE INTO inbound_events inserted a row. *)
New(f) == f \notin inbound

(* Mutant: the last heartbeat ingested is the one recorded. *)
RecordedHeartbeatLast(f) == IF content[f] = "HEARTBEAT" THEN occurred[f] ELSE heartbeat

(* _heartbeat keeps the row when the new heartbeat is older. *)
RecordedHeartbeat(f) ==
  IF content[f] = "HEARTBEAT" /\ occurred[f] >= heartbeat THEN occurred[f] ELSE heartbeat

(* The handler's transaction: the message is recorded and applied, or was  *)
(* already recorded and is left alone.                                     *)
Handle(c) ==
  LET f == Current(c)
  IN  /\ pc[c] = "VALIDATED"
      /\ content[f] # "REJECTED"
      /\ IF New(f)
           THEN /\ inbound' = inbound \cup {f}
                /\ applied' = [applied EXCEPT ![f] = @ + 1]
                /\ heartbeat' = RecordedHeartbeat(f)
           ELSE UNCHANGED databaseVars
      /\ pc' = [pc EXCEPT ![c] = "HANDLED"]
      /\ UNCHANGED <<fileVars, place, expired, owner, todo, interruptions>>

(* The handler raises BridgeError and the transaction is rolled back. *)
DeadLetterRejected(c) ==
  /\ pc[c] = "VALIDATED"
  /\ content[Current(c)] = "REJECTED"
  /\ Move(Current(c), "DEAD_LETTER")
  /\ NextFile(c)
  /\ UNCHANGED <<fileVars, expired, databaseVars, interruptions>>

Archive(c) ==
  /\ pc[c] = "HANDLED"
  /\ Move(Current(c), "ARCHIVE")
  /\ NextFile(c)
  /\ UNCHANGED <<fileVars, expired, databaseVars, interruptions>>

EndScan(c) ==
  /\ pc[c] = "SCAN" /\ todo[c] = {}
  /\ pc' = [pc EXCEPT ![c] = "IDLE"]
  /\ owner' = NoOne
  /\ UNCHANGED <<fileVars, place, expired, todo, databaseVars, interruptions>>

(* Mutant: a file whose handler failed is put away. *)
InterruptedDeadLetters(c) ==
  /\ interruptions < MaxInterruptions
  /\ pc[c] # "IDLE"
  /\ interruptions' = interruptions + 1
  /\ pc' = [pc EXCEPT ![c] = "IDLE"]
  /\ todo' = [todo EXCEPT ![c] = {}]
  /\ owner' = NoOne
  /\ IF pc[c] = "VALIDATED" THEN Move(Current(c), "DEAD_LETTER") ELSE UNCHANGED place
  /\ UNCHANGED <<fileVars, expired, databaseVars>>

(* Mutant: a file is put into the archive whatever became of it. *)
InterruptedArchives(c) ==
  /\ interruptions < MaxInterruptions
  /\ pc[c] # "IDLE"
  /\ interruptions' = interruptions + 1
  /\ pc' = [pc EXCEPT ![c] = "IDLE"]
  /\ todo' = [todo EXCEPT ![c] = {}]
  /\ owner' = NoOne
  /\ IF pc[c] = "VALIDATED" THEN Move(Current(c), "ARCHIVE") ELSE UNCHANGED place
  /\ UNCHANGED <<fileVars, expired, databaseVars>>

(* Mutant: the lock outlives its holder. *)
InterruptedKeepsLock(c) ==
  /\ interruptions < MaxInterruptions
  /\ pc[c] # "IDLE"
  /\ interruptions' = interruptions + 1
  /\ pc' = [pc EXCEPT ![c] = "IDLE"]
  /\ todo' = [todo EXCEPT ![c] = {}]
  /\ UNCHANGED <<fileVars, place, expired, owner, databaseVars>>

(* The consumer is killed, or its next operation (a move, the transaction) *)
(* raises something else than BridgeError: the scan ends there, the lock   *)
(* is released, the file stays.                                            *)
Interrupted(c) ==
  /\ interruptions < MaxInterruptions
  /\ pc[c] # "IDLE"
  /\ interruptions' = interruptions + 1
  /\ pc' = [pc EXCEPT ![c] = "IDLE"]
  /\ todo' = [todo EXCEPT ![c] = {}]
  /\ owner' = NoOne
  /\ UNCHANGED <<fileVars, place, expired, databaseVars>>

-----------------------------------------------------------------------------

Consume(c) ==
  \/ Validate(c) \/ DeadLetterInvalid(c)
  \/ Handle(c) \/ DeadLetterRejected(c)
  \/ Archive(c) \/ EndScan(c)

Next ==
  \/ \E f \in Files : Publish(f) \/ Expire(f)
  \/ \E c \in Consumers : BeginScan(c) \/ Consume(c) \/ Interrupted(c) \/ ReadFails(c)

Spec == Init /\ [][Next]_vars

(* The queue loop scans for ever, so a free lock is taken again; a scan    *)
(* that has begun goes on.                                                 *)
FairSpec ==
  /\ Spec
  /\ WF_vars(\E c \in Consumers : BeginScan(c))
  /\ \A c \in Consumers : WF_vars(Consume(c))

-----------------------------------------------------------------------------

(* A message has its effect at most once, whoever consumes the folder and  *)
(* wherever a consumer is killed (inbound_events in the same transaction). *)
AppliedAtMostOnce == \A f \in Files : applied[f] <= 1

(* What is thrown out was refused for what it is or for its age, or could  *)
(* not be read: a failed transaction leaves its message in the folder. A   *)
(* heartbeat is not thrown out for its age.                                *)
DeadLetterOnlyRefused ==
  \A f \in Files :
    place[f] = "DEAD_LETTER" =>
      \/ f \in unread
      \/ content[f] \in {"MALFORMED", "REJECTED"}
      \/ content[f] = "EVENT" /\ f \in expired

(* No consumer comes to a file that another one has moved away, which      *)
(* would end its scan with an exception, and that halts trading.           *)
ScansDoNotCollide == \A c \in Consumers : todo[c] \subseteq InFolder

(* The heartbeat row is the newest heartbeat ingested, in whatever order   *)
(* the heartbeats were published and consumed.                             *)
HeartbeatIsNewest ==
  LET stamps == {occurred[f] : f \in {g \in inbound : content[g] = "HEARTBEAT"}}
  IN  IF stamps = {} THEN heartbeat = 0
      ELSE heartbeat \in stamps /\ \A s \in stamps : s <= heartbeat

(* Recording and applying are one step: FileQueue is an Inbox. *)
Promise == INSTANCE Inbox
             WITH waiting <- InFolder \ inbound, applied <- inbound,
                  refused <- InDeadLetter \ inbound

ImplementsInbox == Promise!Spec

(* Whatever is published leaves the folder, as long as the operations that *)
(* fail do not fail for ever.                                              *)
EveryFileRetired ==
  \A f \in Files : place[f] = "FOLDER" ~> place[f] \in {"ARCHIVE", "DEAD_LETTER"}

=============================================================================
