----------------------------- MODULE ConnectionSync -----------------------------
(***************************************************************************)
(* How the Worker comes by fresh snapshots after the Adapter has connected *)
(* or restarted, in either boot order (connection_sync.py), and what a     *)
(* reconciliation run makes of them (reconciliation.py). One account.      *)
(*                                                                         *)
(* The runtime loop asks the Adapter to synchronize and asks again after a *)
(* timeout; the Adapter emits snapshots and an answer; the loop takes them *)
(* in. Timestamps are only compared with the creation of the loop's        *)
(* command and the start of a run, so a snapshot stands for the marks of   *)
(* those that were there when it was captured. Only the loop's newest      *)
(* command, "MINE", is told apart: superseded ones, and those of a         *)
(* reconciliation or a tool, are "OTHER". Runs are numbered as they start. *)
(*                                                                         *)
(* Orders come and end as in OrderPipeline: whether one is active when the *)
(* code asks (ACTIVE_CHILD_STATES) is taken as arbitrary. Kills, failures  *)
(* and delays are counted as disturbances.                                 *)
(***************************************************************************)
EXTENDS Naturals

CONSTANTS
  MaxRuns,         \* bound: reconciliation runs
  MaxDisturbances  \* bound: kills, failures, changes of configuration, delays

ASSUME SyncAssumption == MaxRuns \in Nat /\ MaxDisturbances \in Nat

Kinds == {"ACCOUNT", "POSITION"}
Runs == 1..MaxRuns
Sync == 0                  \* the mark of the loop's command
Marks == Runs \cup {Sync}  \* what a snapshot may have been captured after

VARIABLES
  up, session,   \* the Adapter: started, and the id of that start
  matching,      \* its mode and margin policy are those of the Worker
  health,        \* heartbeats: what pythongo_health makes of the newest one
  known,         \* states[alias]["session_id"], 0 if there is none
  message,       \* status of the command states[alias]["message_id"] names
  timer,         \* what has passed since: its retry_interval, its ttl
  queue,         \* commands in the Adapter's control folder
  work,          \* the command the Adapter executes, and how far it is
  acks,          \* answers to MINE on their way
  flight,        \* flight[k]: what the snapshots of kind k on their way are after
  evidence,      \* evidence[k]: what those in the database are after
  run,           \* reconciliation_runs; OPEN: REQUESTED or WAITING_FOR_SNAPSHOTS
  required,      \* system_state: reconciliation_required
  disturbances

adapterVars == <<up, session, matching, queue, work>>
loopVars == <<known, message, timer>>
pathVars == <<acks, flight, evidence>>
runVars == <<run, required>>
vars == <<adapterVars, health, loopVars, pathVars, runVars, disturbances>>

Idle == [command |-> "NONE", step |-> "NONE"]
Executions == [command : {"MINE", "OTHER"}, step : {"ACCOUNT", "POSITION", "ACK", "ARCHIVE"}]

(* Runs start in their order; a set flag has a run behind it that is open, *)
(* or one in MANUAL_REVIEW, which scan_once does not take up again: the    *)
(* operator asks for another; and an open run lost its flag to no other    *)
(* cause than a run that COMPLETED.                                        *)
RunsBehindFlag ==
  /\ \A q \in Runs, r \in Runs : q < r /\ run[r] # "NONE" => run[q] # "NONE"
  /\ required => \E r \in Runs : run[r] \in {"OPEN", "MANUAL_REVIEW"}
  /\ (\E r \in Runs : run[r] = "OPEN") => required \/ \E r \in Runs : run[r] = "COMPLETED"

(* The types of the variables, and the runs behind the flag.               *)
TypeOK ==
  /\ up \in BOOLEAN /\ session \in Nat /\ matching \in BOOLEAN
  /\ health \in [phase : {"AWAY", "MISMATCH", "CONNECTED"}, session : Nat]
  /\ known \in Nat
  /\ message \in {"NONE", "PENDING_DELIVERY", "DELIVERED", "SYNC_COMPLETED", "ADAPTER_REJECTED"}
  /\ timer \in {"NONE", "RETRY", "TTL"}
  /\ queue \subseteq {"MINE", "OTHER"}
  /\ work \in {Idle} \cup Executions
  /\ acks \subseteq {"SYNC_COMPLETED", "ADAPTER_REJECTED"}
  /\ flight \in [Kinds -> SUBSET Marks] /\ evidence \in [Kinds -> SUBSET Marks]
  /\ run \in [Runs -> {"NONE", "OPEN", "MANUAL_REVIEW", "COMPLETED"}]
  /\ required \in BOOLEAN
  /\ disturbances \in 0..MaxDisturbances
  /\ RunsBehindFlag

\* Either program may be the first one; a database starts without orders.
Init ==
  /\ up = FALSE /\ session = 0 /\ matching = TRUE
  /\ health = [phase |-> "AWAY", session |-> 0]
  /\ known = 0 /\ message = "NONE" /\ timer = "NONE"
  /\ queue = {} /\ work = Idle
  /\ acks = {} /\ flight = [k \in Kinds |-> {}] /\ evidence = [k \in Kinds |-> {}]
  /\ run = [r \in Runs |-> "NONE"] /\ required = FALSE
  /\ disturbances = 0

Disturb == disturbances < MaxDisturbances /\ disturbances' = disturbances + 1
Calm == UNCHANGED disturbances

-----------------------------------------------------------------------------
(* The Adapter.                                                            *)

AdapterStarts ==
  /\ ~up /\ up' = TRUE /\ session' = session + 1
  /\ Calm /\ UNCHANGED <<matching, queue, work, health, loopVars, pathVars, runVars>>

\* The command it was executing is taken up again after the next start.
AdapterStops ==
  /\ up /\ up' = FALSE /\ work' = Idle
  /\ Disturb /\ UNCHANGED <<session, matching, queue, health, loopVars, pathVars, runVars>>

Reconfigure ==
  /\ matching' = ~matching
  /\ Disturb
  /\ UNCHANGED <<up, session, queue, work, health, loopVars, pathVars, runVars>>

TakeSync(c) ==
  /\ up /\ work = Idle /\ c \in queue /\ ~(c = "MINE" /\ timer = "TTL")
  /\ work' = [command |-> c, step |-> "ACCOUNT"]
  /\ Calm /\ UNCHANGED <<up, session, matching, queue, health, loopVars, pathVars, runVars>>

Answered(c, status) == acks' = IF c = "MINE" THEN acks \cup {status} ELSE acks

\* _verify_envelope: the command came too late.
RefuseSync(c) ==
  /\ up /\ work = Idle /\ c \in queue /\ (c = "MINE" => timer = "TTL")
  /\ queue' = queue \ {c} /\ Answered(c, "ADAPTER_REJECTED")
  /\ Calm
  /\ UNCHANGED <<up, session, matching, work, health, loopVars, flight, evidence, runVars>>

\* captured_at is read before the data, which is at least as new.
Existing == {r \in Runs : run[r] # "NONE"} \cup (IF message # "NONE" THEN {Sync} ELSE {})

\* _emit_account; _emit_positions, whose two snapshots count for one. What the
\* database has already is no news.
Emit(kind, next) ==
  /\ work.step = kind
  /\ flight' = [flight EXCEPT ![kind] = @ \cup (Existing \ evidence[kind])]
  /\ work' = [work EXCEPT !.step = next]
  /\ Calm
  /\ UNCHANGED <<up, session, matching, queue, health, loopVars, acks, evidence, runVars>>

AckSync ==
  /\ work.step = "ACK"
  /\ Answered(work.command, "SYNC_COMPLETED")
  /\ work' = [work EXCEPT !.step = "ARCHIVE"]
  /\ Calm
  /\ UNCHANGED <<up, session, matching, queue, health, loopVars, flight, evidence, runVars>>

Archive ==
  /\ work.step = "ARCHIVE"
  /\ queue' = queue \ {work.command} /\ work' = Idle
  /\ Calm /\ UNCHANGED <<up, session, matching, health, loopVars, pathVars, runVars>>

\* An error while it is executed; its answer may fail as well.
SyncFails ==
  /\ work.step \in {"ACCOUNT", "POSITION", "ACK"}
  /\ queue' = queue \ {work.command} /\ work' = Idle
  /\ Answered(work.command, "ADAPTER_REJECTED") \/ UNCHANGED acks
  /\ Disturb
  /\ UNCHANGED <<up, session, matching, health, loopVars, flight, evidence, runVars>>

-----------------------------------------------------------------------------
(* The Worker's runtime loop.                                              *)

\* The heartbeat of the running Adapter is ingested.
Heartbeat ==
  /\ up
  /\ health' = [phase |-> IF matching THEN "CONNECTED" ELSE "MISMATCH", session |-> session]
  /\ Calm /\ UNCHANGED <<adapterVars, loopVars, pathVars, runVars>>

\* It says STOPPED, or is more than 15 seconds old.
HeartbeatAges ==
  /\ health' = [health EXCEPT !.phase = "AWAY"]
  /\ IF up THEN Disturb ELSE Calm
  /\ UNCHANGED <<adapterVars, loopVars, pathVars, runVars>>

(* One pass of EventIngester.scan_once. The answers are read first, so     *)
(* that an answer does not overtake its snapshots unless these are more    *)
(* than a pass takes in, a delay; answers written after they were read are *)
(* left for the next pass. Snapshots are taken in the order of their       *)
(* files, and the later ones are after the more runs.                      *)
Ingest(answered, taken) ==
  /\ IF answered THEN acks # {} /\ message' \in acks /\ acks' = {}
                 ELSE UNCHANGED <<message, acks>>
  /\ \A k \in Kinds, r \in Runs : r \in taken[k] => flight[k] \cap (1..r) \subseteq taken[k]
  /\ flight' = [k \in Kinds |-> flight[k] \ taken[k]]
  /\ evidence' = [k \in Kinds |-> evidence[k] \cup taken[k]]
  /\ IF taken = flight THEN Calm ELSE Disturb
  /\ UNCHANGED <<adapterVars, health, known, timer, runVars>>

\* dispatch_pending_commands; killed, or answered, before the row is marked.
Dispatch ==
  /\ message = "PENDING_DELIVERY" /\ "MINE" \notin queue
  /\ queue' = queue \cup {"MINE"}
  /\ \/ message' = "DELIVERED" /\ Calm
     \/ message' = message /\ Disturb
  /\ UNCHANGED <<up, session, matching, work, health, known, timer, pathVars, runVars>>

\* A sync command of a reconciliation or of a tool.
QueueOther ==
  /\ queue' = queue \cup {"OTHER"}
  /\ Calm /\ UNCHANGED <<up, session, matching, work, health, loopVars, pathVars, runVars>>

\* The command states[alias] names is no longer told apart from the others.
Forget ==
  /\ queue' = IF "MINE" \in queue \/ message = "PENDING_DELIVERY"
                THEN (queue \ {"MINE"}) \cup {"OTHER"} ELSE queue
  /\ work' = IF work = Idle THEN Idle ELSE [work EXCEPT !.command = "OTHER"]
  /\ acks' = {} /\ timer' = "NONE"
  /\ flight' = [k \in Kinds |-> flight[k] \ {Sync}]
  /\ evidence' = [k \in Kinds |-> evidence[k] \ {Sync}]

\* _completed: answered, and the newest snapshots are captured after it was created.
Completed == message = "SYNC_COMPLETED" /\ \A k \in Kinds : Sync \in evidence[k]

\* It has not been answered.
Unanswered == message \in {"PENDING_DELIVERY", "DELIVERED"}

(* Mutant: a command that was delivered is waited for without end.         *)
DueIfAnswered == ~Unanswered /\ timer # "NONE"

\* An unanswered command is repeated only after it has expired.
Due == IF Unanswered THEN timer = "TTL" ELSE timer # "NONE"

(* AdapterConnectionSync.scan_once, without or with a request.             *)
SyncWaits ==
  /\ health.phase # "CONNECTED" /\ message # "NONE"
  /\ Forget /\ message' = "NONE"
  /\ Calm /\ UNCHANGED <<up, session, matching, health, known, runVars>>

SyncRequests ==
  /\ health.phase = "CONNECTED"
  /\ known # health.session \/ message = "NONE" \/ (~Completed /\ Due)
  /\ Forget /\ message' = "PENDING_DELIVERY" /\ known' = health.session
  /\ Calm /\ UNCHANGED <<up, session, matching, health, runVars>>

Fresh(r) == \A k \in Kinds : r \in evidence[k]

(* Mutant: a scan looks at the newest run only.                            *)
ReconcileNewest(active) ==
  /\ run' = [r \in Runs |->
       IF run[r] = "OPEN" /\ Fresh(r) /\ \A q \in Runs : run[q] = "OPEN" => q <= r
         THEN IF active THEN "MANUAL_REVIEW" ELSE "COMPLETED"
         ELSE run[r]]
  /\ required' = (required /\ \A r \in Runs : run'[r] = "COMPLETED" => run[r] = "COMPLETED")
  /\ Calm /\ UNCHANGED <<adapterVars, health, loopVars, pathVars>>

(* Reconciler.scan_once: one transaction for all open runs, those that     *)
(* wait for their snapshots again and again; each that completes clears    *)
(* the flag they share.                                                    *)
Reconcile(active) ==
  /\ run' = [r \in Runs |->
       IF run[r] = "OPEN" /\ Fresh(r)
         THEN IF active THEN "MANUAL_REVIEW" ELSE "COMPLETED"
         ELSE run[r]]
  /\ required' = (required /\ \A r \in Runs : run'[r] = "COMPLETED" => run[r] = "COMPLETED")
  /\ Calm /\ UNCHANGED <<adapterVars, health, loopVars, pathVars>>

-----------------------------------------------------------------------------
(* Reconciliations, and time.                                              *)

\* r is the next run to start.
NextRun(r) == run[r] = "NONE" /\ \A q \in 1..(r - 1) : run[q] # "NONE"

\* The transaction of request_reconciliation; its command is QueueOther's.
RequestReconciliation(r) ==
  /\ NextRun(r)
  /\ run' = [run EXCEPT ![r] = "OPEN"] /\ required' = TRUE
  /\ Calm /\ UNCHANGED <<adapterVars, health, loopVars, pathVars>>

(* Mutant: no run is started if there has been one already.                *)
NeedsRunOnce == \A r \in Runs : run[r] = "NONE"

NeedsRun == \A r \in Runs : run[r] \notin {"OPEN", "MANUAL_REVIEW"}

(* The Worker is killed and started again: require_on_startup, and a loop  *)
(* that knows of no command.                                               *)
RestartWorker(active) ==
  /\ Forget /\ message' = "NONE" /\ known' = 0
  /\ required' = (required \/ active)
  /\ IF active /\ NeedsRun
       THEN \E r \in Runs : NextRun(r) /\ run' = [run EXCEPT ![r] = "OPEN"]
       ELSE UNCHANGED run
  /\ Disturb /\ UNCHANGED <<up, session, matching, health>>

(* Time since the command was sent counts only where the code asks for it: *)
(* retry_interval once it is answered, without its snapshots,              *)
RetryElapses ==
  /\ message # "NONE" /\ ~Unanswered /\ ~Completed
  /\ timer = "NONE" /\ timer' = "RETRY"
  /\ Calm /\ UNCHANGED <<adapterVars, health, known, message, pathVars, runVars>>

(* and the ttl until then, and while it is in the folder. As long as a     *)
(* running Adapter could still answer in time, that is a delay.            *)
TtlElapses ==
  /\ Unanswered \/ "MINE" \in queue
  /\ timer # "TTL" /\ timer' = "TTL"
  /\ IF up /\ (message = "PENDING_DELIVERY" \/ "MINE" \in queue \/ acks # {})
       THEN Disturb ELSE Calm
  /\ UNCHANGED <<adapterVars, health, known, message, pathVars, runVars>>

Next ==
  \/ AdapterStarts \/ AdapterStops \/ Reconfigure
  \/ \E c \in {"MINE", "OTHER"} : TakeSync(c) \/ RefuseSync(c)
  \/ Emit("ACCOUNT", "POSITION") \/ Emit("POSITION", "ACK") \/ AckSync \/ Archive \/ SyncFails
  \/ Heartbeat \/ HeartbeatAges
  \/ \E answered \in BOOLEAN, a \in SUBSET flight["ACCOUNT"], p \in SUBSET flight["POSITION"] :
       Ingest(answered, [k \in Kinds |-> IF k = "ACCOUNT" THEN a ELSE p])
  \/ Dispatch \/ QueueOther \/ SyncWaits \/ SyncRequests
  \/ \E r \in Runs : RequestReconciliation(r)
  \/ \E active \in BOOLEAN : Reconcile(active) \/ RestartWorker(active)
  \/ RetryElapses \/ TtlElapses

(* The Worker's loop makes each of its passes again and again, the         *)
(* Adapter's own loop goes on, time passes, and the Adapter goes through   *)
(* the control folder oldest file first, so that no stream of other        *)
(* commands keeps it from MINE.                                            *)
Fairness ==
  /\ WF_vars(Heartbeat)
  /\ WF_vars(Ingest(acks # {}, flight))
  /\ WF_vars(Dispatch)
  /\ WF_vars(SyncWaits \/ SyncRequests)
  /\ WF_vars(\E active \in BOOLEAN : Reconcile(active))
  /\ SF_vars(TakeSync("MINE")) /\ SF_vars(RefuseSync("MINE"))
  /\ WF_vars(Emit("ACCOUNT", "POSITION") \/ Emit("POSITION", "ACK") \/ AckSync \/ Archive)
  /\ WF_vars(RetryElapses \/ TtlElapses)

Spec == Init /\ [][Next]_vars /\ Fairness

-----------------------------------------------------------------------------
(* Properties.                                                             *)

(* In whatever order the programs are started, killed and restarted, and   *)
(* whatever commands and answers are lost or late, once an Adapter with    *)
(* the right configuration stays up it is synchronized: there are          *)
(* snapshots captured after its command, for this very session of it       *)
(* (connection_sync.py 40-72).                                             *)
SyncedAfterConnect ==
  <>[](up /\ matching) => <>[](Completed /\ known = session)

(* A reconciliation ends: once an Adapter with the right configuration     *)
(* stays up, a run that is open when the loop has no command of its own,   *)
(* as after every restart of the Worker, gets snapshots captured after its *)
(* start, whatever was lost or late, and COMPLETED or MANUAL_REVIEW        *)
(* (reconciliation.py 49-88). One requested later has only its own sync,   *)
(* which nobody repeats.                                                   *)
RunsEnd ==
  <>[](up /\ matching) =>
    \A r \in Runs : run[r] = "OPEN" /\ message = "NONE" ~> run[r] # "OPEN"

=============================================================================
