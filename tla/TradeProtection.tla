---------------------------- MODULE TradeProtection ----------------------------
(***************************************************************************)
(* Who may open positions, and how that is taken back. Three programs      *)
(* share the decision:                                                     *)
(*                                                                         *)
(*   Worker   RPC threads that grant and revoke (core.py), the runtime     *)
(*            loop that renews the simulation lease and fails closed, and  *)
(*            the main thread that revokes at startup and at shutdown      *)
(*            (worker.py);                                                 *)
(*   console  a process of its own: mode changes, the end of a halt, the   *)
(*            binding of an account, and core's halt and approval of a     *)
(*            preview, with or without a Worker (console.py);              *)
(*   Adapter  reads only files: local_authorization.json, local_halt.json  *)
(*            and, at its start, its configuration.                        *)
(*                                                                         *)
(* The database is changed in transactions; the files are written by the   *)
(* same operation before, within or after its transaction, so operations   *)
(* of two actors may write in another order than they committed. What is   *)
(* granted ends with time: a permit and the file of it at one moment, a    *)
(* window for manual trading and each file of it at the moments of their   *)
(* own grants. Heartbeats and snapshots, which may be old, and the         *)
(* reconciliation flag are taken as arbitrary where the code asks for them;*)
(* the pause the Adapter sets for itself is in OrderPipeline. One account. *)
(***************************************************************************)
EXTENDS Naturals, FiniteSets

CONSTANTS
  Threads,       \* RPC threads of the Worker
  Loop, Main,    \* its runtime loop and its main thread
  Console,       \* the console process
  MaxTerm,       \* bound: the longest term of a grant of manual trading
  MaxGeneration, \* bound: operations that take a new automatic generation
  Orders,        \* the commands that may be submitted
  MaxQueue,      \* bound: commands queued or passed
  MaxFaults      \* bound: kills of a process and failed file writes

Modes == {"OBSERVE_ONLY", "SIM_SIGNAL", "MANUAL_LIVE", "LIMITED_AUTO"}

Actors == Threads \cup {Loop, Main, Console}

ASSUME ActorAssumption ==
  /\ Loop \notin Threads /\ Main \notin Threads /\ Console \notin Threads
  /\ Loop # Main /\ Loop # Console /\ Main # Console
ASSUME BoundAssumption ==
  /\ MaxTerm \in Nat \ {0} /\ MaxGeneration \in Nat \ {0}
  /\ MaxQueue \in Nat /\ MaxFaults \in Nat

(* The contents of local_authorization.json, or a write of an actor that   *)
(* is still to be done: "IDLE" is none, "HALT" is local_halt.json. A file  *)
(* whose live_until is past says NONE; a MANUAL one has a term left.       *)
Authorizations ==
  [type : {"NONE", "LEASE"}, generation : {0}]
    \cup [type : {"MANUAL"}, term : 1..MaxTerm]
    \cup [type : {"PERMIT", "PAUSE"}, generation : 0..MaxGeneration]
Writes == Authorizations \cup [type : {"IDLE", "HALT"}, generation : {0}]

Plain(type) == [type |-> type, generation |-> 0]
Permit(g) == [type |-> "PERMIT", generation |-> g]
Manual(n) == [type |-> "MANUAL", term |-> n]

\* What lets an opening pass.
Grants == {"LEASE", "MANUAL", "PERMIT"}

(* A command in the queue; generation is 0 without a permit. OBSERVE_ONLY  *)
(* ones are left out: the Adapter only acknowledges them.                  *)
Commands == [mode : Modes \ {"OBSERVE_ONLY"}, generation : 0..MaxGeneration, opens : BOOLEAN]

ASSUME OrderAssumption == Orders \subseteq Commands

VARIABLES
  mode, halted, kind,  \* system_state: mode, halted, trade_protection_kind
  generation,          \* system_state: auto_generation
  live,                \* the auto_permits that are ACTIVE or PAUSED and not expired
  manual,              \* an unused approval or a timed session is there
  window,              \* the time left to live_until, 0 when it is past
  authorization,       \* local_authorization.json
  haltFile,            \* local_halt.json says halted
  diskMode,            \* pythongo_mode in the Adapter's configuration file
  verified,            \* the mapping Profile is signed
  bound,               \* the account's investor is bound
  worker,              \* where the Worker's process stands
  pending,             \* pending[a]: the file write actor a's operation still owes
  pausing,             \* the thread whose transaction is about to pause the permit,
                       \* its file written and the database locked: a set of at most one
  console,             \* where the console's operation stands
  target,              \* the mode it is to select, OBSERVE_ONLY between operations
  adapterMode,         \* the mode the running Adapter has loaded
  queue,               \* commands on their way to the Adapter
  checked,             \* the command that passed _final_risk and is not yet
                       \* submitted: a set of at most one
  \* History:
  epoch,               \* generation the last startup of the Worker took
  lateOpenings,        \* openings submitted while local_halt.json is set
  overtaken,           \* who owes the file of a grant that a later transaction followed
  authorizationMark,   \* how the authorization file came to say what it says
  haltMark,            \* the same of the halt file
  faults

database == <<mode, halted, kind, generation, live, manual, window>>
files == <<authorization, haltFile, diskMode, verified, bound>>
owed == <<pending, pausing, overtaken>>
consoleVars == <<console, target>>
adapterVars == <<adapterMode, queue, checked>>
history == <<epoch, lateOpenings, authorizationMark, haltMark, faults>>
vars == <<database, files, worker, owed, consoleVars, adapterVars, history>>

\* The actor owes no file.
Idle(a) == pending[a].type = "IDLE"

DatabaseOK ==
  /\ mode \in Modes /\ halted \in BOOLEAN
  /\ kind \in {"NONE", "SETUP_LOCK", "INCIDENT_HALT", "ACCOUNT_CHANGE"}
  /\ generation \in 0..MaxGeneration
  /\ live \subseteq [generation : 0..MaxGeneration, status : {"ACTIVE", "PAUSED"}]
  /\ manual \in BOOLEAN /\ window \in 0..MaxTerm

FilesOK ==
  /\ authorization \in Authorizations
  /\ haltFile \in BOOLEAN /\ verified \in BOOLEAN /\ bound \in BOOLEAN
  /\ diskMode \in Modes

(* A process that is down owes nothing; the console owes the file of the   *)
(* protection or core operation it is in, and no other.                    *)
ActorsOK ==
  /\ worker \in {"DOWN", "STARTING", "UP", "STOPPING"}
  /\ pending \in [Actors -> Writes]
  /\ pausing \subseteq {t \in Threads : Idle(t)} /\ overtaken \subseteq Actors
  /\ console \in {"IDLE", "CORE", "REMOVED", "MODE_SET", "CLEARED", "CLEAR_SYNC", "UNHALT",
                  "BIND_LOCKED", "BIND_PROTECT", "BIND_FILES"}
  /\ target \in Modes
  /\ worker \in {"DOWN", "STARTING"} => pausing = {}
  /\ worker = "DOWN" => \A a \in Actors \ {Console} : Idle(a)
  /\ pending[Console].type \in CASE console = "BIND_PROTECT" -> {"HALT"}
                                 [] console = "CORE" -> {"HALT", "MANUAL", "NONE"}
                                 [] OTHER -> {"IDLE"}

AdapterOK ==
  /\ adapterMode \in Modes
  /\ queue \subseteq Commands
  /\ checked \subseteq Commands /\ \A c, d \in checked : c = d

HistoryOK ==
  /\ epoch \in 0..MaxGeneration
  /\ lateOpenings \in Nat
  /\ authorizationMark \in {"CURRENT", "OVERTAKEN", "PAUSED_OVER", "LEFT", "LOST"}
  /\ haltMark \in {"CURRENT", "CLEARED_OVER", "LOST"}
  /\ faults \in 0..MaxFaults

(* The types, and what a program that has ended has left undone.           *)
TypeOK == DatabaseOK /\ FilesOK /\ ActorsOK /\ AdapterOK /\ HistoryOK

(* The Worker serves and no operation is under way: nothing is granted and *)
(* the account may still have to be bound, or the console has selected     *)
(* LIMITED_AUTO and a first permit is in force. Generations count from the *)
(* Worker's startup.                                                       *)
Init ==
  /\ \/ /\ mode = "OBSERVE_ONLY" /\ bound \in BOOLEAN
        /\ live = {} /\ authorization = Plain("NONE")
     \/ /\ mode = "LIMITED_AUTO" /\ bound = TRUE
        /\ live = {[generation |-> 1, status |-> "ACTIVE"]} /\ authorization = Permit(1)
  /\ verified = bound
  /\ halted = FALSE /\ kind = "NONE"
  /\ generation = 1 /\ epoch = 0
  /\ manual = FALSE /\ window = 0
  /\ haltFile = FALSE
  /\ diskMode = mode /\ adapterMode = mode /\ target = "OBSERVE_ONLY"
  /\ worker = "UP"
  /\ pending = [a \in Actors |-> Plain("IDLE")]
  /\ pausing = {} /\ overtaken = {}
  /\ console = "IDLE"
  /\ queue = {} /\ checked = {}
  /\ lateOpenings = 0
  /\ authorizationMark = "CURRENT" /\ haltMark = "CURRENT"
  /\ faults = 0

-----------------------------------------------------------------------------
(* What the operations share.                                              *)

Owe(a, w) == pending' = [pending EXCEPT ![a] = w]

\* A write of the authorization file, or its removal by clear_halt, is to come.
OwesAuthorization(a) ==
  pending[a].type \notin {"IDLE", "HALT"} \/ (a = Console /\ console = "CLEARED")

\* RPC threads and the loop run while the Worker does, to the end of a shutdown.
Serving(t) ==
  worker \in {"UP", "STOPPING"} /\ t \in Threads \cup {Loop} /\ Idle(t) /\ t \notin pausing

ConsoleIdle == console = "IDLE" /\ Idle(Console)

\* An operation of core, called in the Worker or by the console in a process of its own.
Calls(a) ==
  \/ Serving(a) /\ UNCHANGED console
  \/ a = Console /\ ConsoleIdle /\ console' = "CORE"

\* Grants of others whose file is still owed come before what a commits.
Overtakes(a) ==
  overtaken' = (overtaken \ {a}) \cup {b \in Actors \ {a} : pending[b].type \in Grants}

\* A transaction of a that changes what is granted: the database was not locked.
Commit(a) == pausing = {} /\ UNCHANGED pausing /\ Overtakes(a)

\* _next_auto_generation.
NextGeneration == generation < MaxGeneration /\ generation' = generation + 1

\* Every permit, approval and session is taken back and the window closed.
WithdrawAll == NextGeneration /\ live' = {} /\ manual' = FALSE /\ window' = 0

ActivePermits == {p \in live : p.status = "ACTIVE" /\ p.generation = generation}
PausedPermits == {p \in live : p.status = "PAUSED"}

(* The database backs what an authorization file says.                     *)
Backed(w) ==
  CASE w.type = "PERMIT" -> \E p \in ActivePermits : p.generation = w.generation
    [] w.type = "MANUAL" -> mode = "MANUAL_LIVE" /\ w.term <= window
    [] w.type = "LEASE" -> mode = "SIM_SIGNAL" /\ ~halted
    [] OTHER -> TRUE

\* _activate_trade_protection, its transaction; the halt file is owed.
Protect(a, k) ==
  /\ Commit(a)
  /\ halted' = TRUE /\ kind' = k
  /\ WithdrawAll
  /\ Owe(a, Plain("HALT"))
  /\ UNCHANGED mode

-----------------------------------------------------------------------------
(* The Worker's grants and revocations.                                    *)

(* Mutant: an earlier permit stays in force beside the new one. *)
AuthorizeAutoAdds(t) ==
  /\ Serving(t) /\ Commit(t) /\ mode = "LIMITED_AUTO" /\ ~halted
  /\ NextGeneration
  /\ live' = live \cup {[generation |-> generation', status |-> "ACTIVE"]}
  /\ Owe(t, Permit(generation'))
  /\ UNCHANGED <<mode, halted, kind, manual, window>>
  /\ UNCHANGED <<files, worker, consoleVars, adapterVars, history>>

AuthorizeAuto(t) ==
  /\ Serving(t) /\ Commit(t) /\ mode = "LIMITED_AUTO" /\ ~halted
  /\ NextGeneration
  /\ live' = {[generation |-> generation', status |-> "ACTIVE"]}
  /\ Owe(t, Permit(generation'))
  /\ UNCHANGED <<mode, halted, kind, manual, window>>
  /\ UNCHANGED <<files, worker, consoleVars, adapterVars, history>>

ResumeAuto(t) ==
  /\ Serving(t) /\ Commit(t) /\ mode = "LIMITED_AUTO" /\ ~halted
  /\ NextGeneration
  /\ \E p \in PausedPermits :
       live' = (live \ {p}) \cup {[generation |-> generation', status |-> "ACTIVE"]}
  /\ Owe(t, Permit(generation'))
  /\ UNCHANGED <<mode, halted, kind, manual, window>>
  /\ UNCHANGED <<files, worker, consoleVars, adapterVars, history>>

(* _pause_active_auto_permit writes the file within its transaction, and   *)
(* only then the row: another thread's file may come between, and the      *)
(* transaction may fail or its process be killed.                          *)
PauseFile(t) ==
  /\ Serving(t) /\ pausing = {}
  /\ \E p \in ActivePermits :
       authorization' = [type |-> "PAUSE", generation |-> p.generation]
  /\ pausing' = {t}
  /\ authorizationMark' = "CURRENT"
  /\ UNCHANGED <<database, haltFile, diskMode, verified, bound, worker, pending, overtaken,
                 consoleVars, adapterVars, epoch, lateOpenings, haltMark, faults>>

PauseCommits(t) ==
  /\ pausing = {t} /\ pausing' = {}
  /\ Overtakes(t)
  /\ live' = (live \ ActivePermits) \cup {[p EXCEPT !.status = "PAUSED"] : p \in ActivePermits}
  /\ authorizationMark' =
       IF authorization.type = "PERMIT" THEN "PAUSED_OVER" ELSE authorizationMark
  /\ UNCHANGED <<mode, halted, kind, generation, manual, window, files, worker, pending,
                 consoleVars, adapterVars, epoch, lateOpenings, haltMark, faults>>

PauseFails(t) ==
  /\ pausing = {t} /\ pausing' = {}
  /\ faults < MaxFaults /\ faults' = faults + 1
  /\ UNCHANGED <<database, files, worker, pending, overtaken, consoleVars, adapterVars, epoch,
                 lateOpenings, authorizationMark, haltMark>>

RevokeAuto(t) ==
  /\ Serving(t) /\ Commit(t)
  /\ NextGeneration
  /\ IF live = {} THEN UNCHANGED live ELSE \E p \in live : live' = live \ {p}
  /\ Owe(t, Plain("NONE"))
  /\ UNCHANGED <<mode, halted, kind, manual, window>>
  /\ UNCHANGED <<files, worker, consoleVars, adapterVars, history>>

(* Mutant: every file of a manual grant runs for the longest term. *)
AuthorizeManualLonger(a) ==
  /\ Calls(a) /\ Commit(a) /\ mode = "MANUAL_LIVE"
  /\ \E n \in 1..MaxTerm : window' = n /\ Owe(a, Manual(MaxTerm))
  /\ manual' = TRUE
  /\ UNCHANGED <<mode, halted, kind, generation, live>>
  /\ UNCHANGED <<files, worker, target, adapterVars, history>>

(* authorize_manual_session, and authorize_manual_trade for one preview:   *)
(* while halted for a close only (which closes is the gate's business).    *)
(* Each sets live_until anew and then writes a file that ends with it.     *)
AuthorizeManual(a) ==
  /\ Calls(a) /\ Commit(a) /\ mode = "MANUAL_LIVE"
  /\ \E n \in 1..MaxTerm : window' = n /\ Owe(a, Manual(n))
  /\ manual' = TRUE
  /\ UNCHANGED <<mode, halted, kind, generation, live>>
  /\ UNCHANGED <<files, worker, target, adapterVars, history>>

RevokeManual(t) ==
  /\ Serving(t) /\ Commit(t)
  /\ manual' = FALSE /\ window' = 0
  /\ Owe(t, Plain("NONE"))
  /\ UNCHANGED <<mode, halted, kind, generation, live>>
  /\ UNCHANGED <<files, worker, consoleVars, adapterVars, history>>

(* halt_trading, by a caller, by the loop after its first error or by the  *)
(* console. A POLICY_REVIEW protection differs from it in its name only.   *)
Halt(a) ==
  /\ Calls(a)
  /\ Protect(a, "INCIDENT_HALT")
  /\ UNCHANGED <<files, worker, target, adapterVars, history>>

(* The loop cannot reach the database: it sets the halt file alone.        *)
FailClosed ==
  /\ Serving(Loop) /\ faults < MaxFaults
  /\ faults' = faults + 1
  /\ haltFile' = TRUE /\ haltMark' = "CURRENT"
  /\ UNCHANGED <<database, authorization, diskMode, verified, bound, worker, owed,
                 consoleVars, adapterVars, epoch, lateOpenings, authorizationMark>>

(* refresh_simulation_lease decides on what it reads and writes later.     *)
RefreshLease ==
  /\ Serving(Loop) /\ mode = "SIM_SIGNAL" /\ ~halted
  /\ Owe(Loop, Plain("LEASE"))
  /\ UNCHANGED <<database, pausing, overtaken, files, worker, consoleVars, adapterVars, history>>

-----------------------------------------------------------------------------
(* The Worker's process.                                                   *)

(* Mutant: the startup takes everything back in the database only. *)
StartKeepsFile ==
  /\ worker = "DOWN" /\ Commit(Main)
  /\ WithdrawAll
  /\ worker' = "UP" /\ epoch' = generation'
  /\ UNCHANGED <<mode, halted, kind, files, pending, consoleVars, adapterVars,
                 lateOpenings, authorizationMark, haltMark, faults>>

(* revoke_startup_authorizations: at startup before anything is served, at *)
(* shutdown while calls in progress may still be answered.                 *)
Start ==
  /\ worker = "DOWN" /\ Commit(Main)
  /\ WithdrawAll
  /\ worker' = "STARTING" /\ epoch' = generation'
  /\ Owe(Main, Plain("NONE"))
  /\ UNCHANGED <<mode, halted, kind, files, consoleVars, adapterVars, lateOpenings,
                 authorizationMark, haltMark, faults>>

Stop ==
  /\ worker = "UP" /\ Commit(Main)
  /\ WithdrawAll
  /\ worker' = "STOPPING"
  /\ Owe(Main, Plain("NONE"))
  /\ UNCHANGED <<mode, halted, kind, files, consoleVars, adapterVars, history>>

(* The writes the actors of a dying process owe are never done.            *)
Abandon(A) ==
  /\ pending' = [a \in Actors |-> IF a \in A THEN Plain("IDLE") ELSE pending[a]]
  /\ pausing' = pausing \ A /\ overtaken' = overtaken \ A
  /\ haltMark' = IF halted /\ ~haltFile /\ \E a \in A : pending[a].type = "HALT"
                   THEN "LOST" ELSE haltMark
  /\ authorizationMark' =
       IF ~Backed(authorization) /\ \E a \in A \ overtaken : OwesAuthorization(a)
         THEN "LOST" ELSE authorizationMark

WorkerKilled ==
  /\ worker # "DOWN" /\ faults < MaxFaults
  /\ faults' = faults + 1
  /\ worker' = "DOWN"
  /\ Abandon(Actors \ {Console})
  /\ UNCHANGED <<database, files, consoleVars, adapterVars, epoch, lateOpenings>>

(* Mutant: what a thread still has to write survives the shutdown. *)
ExitUnjoined ==
  /\ worker = "STOPPING" /\ Idle(Main)
  /\ worker' = "DOWN"
  /\ UNCHANGED <<database, files, owed, consoleVars, adapterVars, history>>

\* The last step of a shutdown: the threads end with the process.
Exit ==
  /\ worker = "STOPPING" /\ Idle(Main)
  /\ worker' = "DOWN"
  /\ Abandon(Threads \cup {Loop, Main})
  /\ UNCHANGED <<database, files, consoleVars, adapterVars, epoch, lateOpenings, faults>>

-----------------------------------------------------------------------------
(* The files the operations owe.                                           *)

AfterWrite(a) ==
  /\ worker' = IF a = Main /\ worker = "STARTING" THEN "UP" ELSE worker
  /\ console' = CASE a = Console /\ console = "BIND_PROTECT" -> "BIND_FILES"
                   [] a = Console /\ console = "CORE" -> "IDLE"
                   [] OTHER -> console
  /\ Owe(a, Plain("IDLE"))
  /\ overtaken' = overtaken \ {a} /\ UNCHANGED pausing

WriteAuthorization(a) ==
  /\ pending[a].type \notin {"IDLE", "HALT"}
  /\ authorization' = pending[a]
  /\ authorizationMark' =
       IF a \in overtaken /\ ~Backed(pending[a]) THEN "OVERTAKEN" ELSE "CURRENT"
  /\ AfterWrite(a)
  /\ UNCHANGED <<database, haltFile, diskMode, verified, bound, target, adapterVars,
                 epoch, lateOpenings, haltMark, faults>>

WriteHalt(a) ==
  /\ pending[a].type = "HALT"
  /\ haltFile' = TRUE /\ haltMark' = "CURRENT"
  /\ AfterWrite(a)
  /\ UNCHANGED <<database, authorization, diskMode, verified, bound, target, adapterVars,
                 epoch, lateOpenings, authorizationMark, faults>>

(* A failed write of the halt file is reported and passed over; one of the *)
(* authorization fails the call, and at startup the Worker.                *)
WriteFails(a) ==
  /\ ~Idle(a) /\ faults < MaxFaults
  /\ faults' = faults + 1
  /\ worker' = IF a = Main /\ worker = "STARTING" THEN "DOWN" ELSE worker
  /\ console' = IF a = Console THEN "IDLE" ELSE console
  /\ Abandon({a})
  /\ UNCHANGED <<database, files, target, adapterVars, epoch, lateOpenings>>

-----------------------------------------------------------------------------
(* What ends with time.                                                    *)

\* The file says w from now on, by no write.
Fades(w) ==
  /\ authorization' = w
  /\ authorizationMark' = IF w.type = "NONE" THEN "CURRENT" ELSE authorizationMark
  /\ UNCHANGED <<haltFile, diskMode, verified, bound, worker, pausing, overtaken, consoleVars,
                 adapterVars, epoch, lateOpenings, haltMark, faults>>

\* w when it has one unit of time less.
Aged(w) ==
  CASE w.type = "MANUAL" /\ w.term > 1 -> Manual(w.term - 1)
    [] w.type = "MANUAL" /\ w.term <= 1 -> Plain("NONE")
    [] OTHER -> w

\* live_until comes nearer, and with it the end of each manual file, written or owed.
TimePasses ==
  /\ window' = IF window > 0 THEN window - 1 ELSE 0
  /\ Fades(Aged(authorization))
  /\ pending' = [a \in Actors |-> Aged(pending[a])]
  /\ UNCHANGED <<mode, halted, kind, generation, live, manual>>

(* A permit expires with every file that was written from its row, as the  *)
(* files carry the row's expires_at.                                       *)
PermitExpires(g) ==
  LET Expired(w) ==
        IF w.type \in {"PERMIT", "PAUSE"} /\ w.generation = g THEN Plain("NONE") ELSE w
  IN  /\ live' = {p \in live : p.generation # g}
      /\ Fades(Expired(authorization))
      /\ pending' = [a \in Actors |-> Expired(pending[a])]
      /\ UNCHANGED <<mode, halted, kind, generation, manual, window>>

\* The lease is for seconds, and renewed while the simulation goes on.
LeaseExpires ==
  /\ authorization.type = "LEASE"
  /\ Fades(Plain("NONE"))
  /\ UNCHANGED <<database, pending>>

\* The approval's time to live or the timed session ends, live_until or not.
ManualEnds ==
  /\ manual /\ manual' = FALSE
  /\ UNCHANGED <<mode, halted, kind, generation, live, window, files, worker, owed, consoleVars,
                 adapterVars, history>>

-----------------------------------------------------------------------------
(* The console.                                                            *)

(* set_mode removes the authorization files before its transaction and     *)
(* writes the Adapter's configuration after it.                            *)
RemoveForMode(m) ==
  /\ ConsoleIdle
  /\ m # "OBSERVE_ONLY" => verified
  /\ authorization' = Plain("NONE") /\ authorizationMark' = "CURRENT"
  /\ console' = "REMOVED" /\ target' = m
  /\ UNCHANGED <<database, haltFile, diskMode, verified, bound, worker, owed,
                 adapterVars, epoch, lateOpenings, haltMark, faults>>

(* Mutant: a mode change leaves the grants of the old mode in place. *)
SetModeKeeps ==
  /\ console = "REMOVED" /\ Commit(Console)
  /\ target # "OBSERVE_ONLY" => ~halted /\ kind = "NONE"
  /\ mode' = target
  /\ console' = "MODE_SET"
  /\ UNCHANGED <<halted, kind, generation, live, manual, window, files, worker, pending,
                 target, adapterVars, history>>

SetMode ==
  /\ console = "REMOVED" /\ Commit(Console)
  /\ target # "OBSERVE_ONLY" => ~halted /\ kind = "NONE"
  /\ mode' = target
  /\ WithdrawAll
  /\ console' = "MODE_SET"
  /\ authorizationMark' = IF authorization.type \in Grants THEN "LEFT" ELSE authorizationMark
  /\ UNCHANGED <<halted, kind, files, worker, pending, target, adapterVars, epoch,
                 lateOpenings, haltMark, faults>>

SetModeRefused ==
  /\ console = "REMOVED"
  /\ target # "OBSERVE_ONLY" /\ (halted \/ kind # "NONE")
  /\ console' = "IDLE" /\ target' = "OBSERVE_ONLY"
  /\ UNCHANGED <<database, files, worker, owed, adapterVars, history>>

SyncMode ==
  /\ console = "MODE_SET"
  /\ diskMode' = target
  /\ console' = "IDLE" /\ target' = "OBSERVE_ONLY"
  /\ UNCHANGED <<database, authorization, haltFile, verified, bound, worker, owed,
                 adapterVars, history>>

\* The end of a halt, in the database: in OBSERVE_ONLY and with nothing granted.
ClearRows ==
  /\ Commit(Console)
  /\ halted' = FALSE /\ kind' = "NONE" /\ mode' = "OBSERVE_ONLY"
  /\ WithdrawAll

(* clear_halt: the transaction, then the three files.                      *)
ClearHalt ==
  /\ ConsoleIdle
  /\ ClearRows
  /\ console' = "CLEARED"
  /\ UNCHANGED <<files, worker, pending, target, adapterVars, history>>

ClearRemoves ==
  /\ console = "CLEARED"
  /\ authorization' = Plain("NONE") /\ authorizationMark' = "CURRENT"
  /\ console' = "CLEAR_SYNC"
  /\ UNCHANGED <<database, haltFile, diskMode, verified, bound, worker, owed, target,
                 adapterVars, epoch, lateOpenings, haltMark, faults>>

ClearSyncs ==
  /\ console = "CLEAR_SYNC"
  /\ diskMode' = "OBSERVE_ONLY"
  /\ console' = "UNHALT"
  /\ UNCHANGED <<database, authorization, haltFile, verified, bound, worker, owed,
                 target, adapterVars, history>>

ClearUnhalts ==
  /\ console = "UNHALT"
  /\ haltFile' = FALSE
  /\ haltMark' = IF halted THEN "CLEARED_OVER" ELSE "CURRENT"
  /\ lateOpenings' = 0
  /\ console' = "IDLE"
  /\ UNCHANGED <<database, authorization, diskMode, verified, bound, worker, owed,
                 target, adapterVars, epoch, authorizationMark, faults>>

(* Mutant: the entry for the first trade does not look at the protection. *)
FirstTradeReadyAnyKind == mode = "OBSERVE_ONLY" /\ verified /\ bound

(* enable_first_trade is clear_halt for a SETUP_LOCK only: its conditions  *)
(* and its files are under the lock of its transaction, which may still    *)
(* fail after the files are written.                                       *)
FirstTradeReady ==
  kind = "SETUP_LOCK" /\ ~halted /\ mode = "OBSERVE_ONLY" /\ verified /\ bound

EnableFirstTrade ==
  /\ ConsoleIdle
  /\ FirstTradeReady
  /\ authorization' = Plain("NONE") /\ authorizationMark' = "CURRENT"
  /\ diskMode' = "OBSERVE_ONLY"
  /\ haltFile' = FALSE /\ lateOpenings' = 0
  /\ \/ ClearRows /\ UNCHANGED faults
     \/ pausing = {} /\ faults < MaxFaults /\ faults' = faults + 1 /\ UNCHANGED <<database, owed>>
  /\ UNCHANGED <<verified, bound, worker, pending, consoleVars, adapterVars, epoch,
                 haltMark>>

(* bind_investor: the first binding locks the Adapter and then notes a     *)
(* SETUP_LOCK; any other is an ACCOUNT_CHANGE protection. The Profile is   *)
(* unverified before the binding is written.                               *)
BindLocks ==
  /\ ConsoleIdle /\ ~bound /\ ~halted
  /\ haltFile' = TRUE /\ haltMark' = "CURRENT"
  /\ console' = "BIND_LOCKED"
  /\ UNCHANGED <<database, authorization, diskMode, verified, bound, worker, owed,
                 target, adapterVars, epoch, lateOpenings, authorizationMark, faults>>

BindSetup ==
  /\ console = "BIND_LOCKED" /\ Commit(Console)
  /\ halted' = FALSE /\ kind' = "SETUP_LOCK" /\ mode' = "OBSERVE_ONLY"
  /\ console' = "BIND_FILES"
  /\ UNCHANGED <<generation, live, manual, window, files, worker, pending, target,
                 adapterVars, history>>

BindChange ==
  /\ ConsoleIdle /\ (bound \/ halted)
  /\ Protect(Console, "ACCOUNT_CHANGE")
  /\ console' = "BIND_PROTECT"
  /\ UNCHANGED <<files, worker, target, adapterVars, history>>

BindFiles ==
  /\ console = "BIND_FILES"
  /\ verified' = FALSE /\ bound' = TRUE
  /\ console' = "IDLE"
  /\ UNCHANGED <<database, authorization, haltFile, diskMode, worker, owed, target,
                 adapterVars, history>>

\* The Profile of the bound account is signed again after its validation.
SignProfile ==
  /\ ConsoleIdle /\ bound /\ ~verified
  /\ verified' = TRUE
  /\ UNCHANGED <<database, authorization, haltFile, diskMode, bound, worker, owed,
                 consoleVars, adapterVars, history>>

ConsoleKilled ==
  /\ console # "IDLE" /\ faults < MaxFaults
  /\ faults' = faults + 1
  /\ console' = "IDLE" /\ target' = "OBSERVE_ONLY"
  /\ Abandon({Console})
  /\ UNCHANGED <<database, files, worker, adapterVars, epoch, lateOpenings>>

-----------------------------------------------------------------------------
(* Commands and the Adapter.                                               *)

(* _check_submit_authorization: what the command is bound to when the      *)
(* Worker accepts it. Nothing but closes while halted; without a halt a    *)
(* permit (a paused one for closes), a session or an approval, or, in      *)
(* simulation, nothing.                                                    *)
Accepts(c) ==
  /\ c.mode = mode
  /\ IF halted THEN ~c.opens /\ c.generation = 0
     ELSE CASE mode = "LIMITED_AUTO" ->
                 \E p \in live : /\ p.generation = generation /\ c.generation = p.generation
                                 /\ c.opens => p.status = "ACTIVE"
            [] mode = "MANUAL_LIVE" -> c.generation = 0 /\ window > 0 /\ manual
            [] mode = "SIM_SIGNAL" -> c.generation = 0
            [] OTHER -> FALSE

Submit(t, c) ==
  /\ Serving(t) /\ pausing = {}
  /\ Accepts(c) /\ Cardinality(queue \cup checked) < MaxQueue
  /\ queue' = queue \cup {c}
  /\ manual' \in {manual, FALSE}   \* an approval is used up, a session is not
  /\ UNCHANGED <<mode, halted, kind, generation, live, window, files, worker, owed,
                 consoleVars, adapterMode, checked, history>>

\* _local_authorized with _validate_auto_authorization, as the file is now.
LocallyAuthorized(c) ==
  CASE c.mode = "SIM_SIGNAL" -> authorization.type = "LEASE"
    [] c.mode = "MANUAL_LIVE" -> authorization.type = "MANUAL"
    [] c.mode = "LIMITED_AUTO" ->
         /\ authorization.type \in {"PERMIT", "PAUSE"}
         /\ authorization.generation = c.generation
         /\ c.opens => authorization.type = "PERMIT"
    [] OTHER -> FALSE

(* Mutant: the Adapter's last check leaves out the halt file. *)
PassesFinalRiskHalted(c) == c.mode = adapterMode /\ verified /\ LocallyAuthorized(c)

\* _final_risk: a halted Adapter lets strict closes through without any grant.
PassesFinalRisk(c) ==
  /\ c.mode = adapterMode
  /\ verified
  /\ IF haltFile THEN ~c.opens ELSE LocallyAuthorized(c)

Check(c) ==
  /\ checked = {} /\ c \in queue
  /\ PassesFinalRisk(c)
  /\ queue' = queue \ {c}
  /\ checked' = {c}
  /\ UNCHANGED <<database, files, worker, owed, consoleVars, adapterMode,
                 history>>

\* A command is refused, or its time to live is over.
Drop(c) ==
  /\ c \in queue
  /\ queue' = queue \ {c}
  /\ UNCHANGED <<database, files, worker, owed, consoleVars, adapterMode,
                 checked, history>>

\* make_order_req.
CallOrder(c) ==
  /\ checked = {c}
  /\ checked' = {}
  /\ lateOpenings' = IF c.opens /\ haltFile THEN lateOpenings + 1 ELSE lateOpenings
  /\ UNCHANGED <<database, files, worker, owed, consoleVars, adapterMode, queue, epoch,
                 authorizationMark, haltMark, faults>>

\* The client restarts the strategy, which loads its configuration.
AdapterRestart ==
  /\ adapterMode' = diskMode
  /\ checked' = {}
  /\ UNCHANGED <<database, files, worker, owed, consoleVars, queue, history>>

-----------------------------------------------------------------------------
(* Properties.                                                             *)

(* The generation fences permits: there is never more than one that is     *)
(* ACTIVE or PAUSED, and it was granted by the newest grant or revocation, *)
(* whichever operations of Worker and console interleave.                  *)
LivePermitIsNewest ==
  \A p \in live : live = {p} /\ p.generation = generation

(* A halt that is committed reaches the Adapter: while the database is     *)
(* halted the halt file is set, or its write is still owed, or that write  *)
(* failed, or a clear_halt begun before the halt wrote its file after it.  *)
(* The entry for the first trade is no such exception.                     *)
HaltReachesAdapter ==
  halted /\ ~haltFile =>
    \/ \E a \in Actors : pending[a].type = "HALT"
    \/ haltMark \in {"CLEARED_OVER", "LOST"}

\* Who changed the grants in the database last has not yet changed the files.
ChangeOwed == \E a \in Actors \ overtaken : OwesAuthorization(a)

(* Without a halt (HaltReachesAdapter says what is left of one), what the  *)
(* Adapter would let through for an opening is granted in the database and *)
(* ends no later there, or the file of the last change is on its way, or   *)
(* the file is one of the known stale ones: written by a grant after a     *)
(* later transaction of another actor committed, by a grant between the    *)
(* file and the commit of a pause, by a grant between the removal and the  *)
(* commit of a mode change, or not replaced because the write failed. No   *)
(* other order of commits, writes and ends of terms leaves one.            *)
OnlyGrantedOpenings ==
  ~halted /\ ~haltFile /\ authorization.type \in Grants /\ authorizationMark = "CURRENT" =>
    Backed(authorization) \/ ChangeOwed

(* While local_halt.json is set, at most one opening is submitted: the one *)
(* that had passed _final_risk when the file was written.                  *)
OneLateOpening == lateOpenings <= 1

(* A restart of the Worker fences permits for good: once it serves, no     *)
(* opening bound to a permit of before the restart passes the Adapter,     *)
(* whatever was still queued and whoever was about to write a file.        *)
RestartFencesPermits ==
  [][\A c \in Commands :
       worker = "UP" /\ Check(c) /\ c.opens /\ c.mode = "LIMITED_AUTO"
         => c.generation > epoch]_vars

(* Openings with real money are authorised as Authority describes it.      *)
Holder ==
  CASE halted -> "NONE"
    [] ~halted /\ mode = "LIMITED_AUTO" /\ ActivePermits # {} -> "PERMIT"
    [] ~halted /\ mode = "MANUAL_LIVE" /\ window > 0 /\ manual -> "MANUAL"
    [] OTHER -> "NONE"

Contract == INSTANCE Authority WITH holder <- Holder, fence <- generation, stopped <- halted

ImplementsAuthority == Contract!Spec

-----------------------------------------------------------------------------

Operate(t) ==
  \/ AuthorizeAuto(t) \/ ResumeAuto(t) \/ RevokeAuto(t)
  \/ PauseFile(t) \/ PauseCommits(t) \/ PauseFails(t)
  \/ AuthorizeManual(t) \/ RevokeManual(t)
  \/ Halt(t)
  \/ \E c \in Orders : Submit(t, c)

Process == Start \/ Stop \/ WorkerKilled \/ Exit \/ FailClosed \/ RefreshLease

Pass == TimePasses \/ LeaseExpires \/ ManualEnds \/ \E g \in 1..MaxGeneration : PermitExpires(g)

WriteFile(a) == WriteAuthorization(a) \/ WriteHalt(a) \/ WriteFails(a)

Administer ==
  \/ \E m \in Modes : RemoveForMode(m)
  \/ SetMode \/ SetModeRefused \/ SyncMode
  \/ ClearHalt \/ ClearRemoves \/ ClearSyncs \/ ClearUnhalts
  \/ EnableFirstTrade
  \/ BindLocks \/ BindSetup \/ BindChange \/ BindFiles \/ SignProfile
  \/ Halt(Console) \/ AuthorizeManual(Console)
  \/ ConsoleKilled

Execute == \E c \in Commands : Check(c) \/ Drop(c) \/ CallOrder(c)

\* What may go on beside the Adapter's executor, and the executor's own steps.
Around ==
  (\E t \in Threads : Operate(t)) \/ Process \/ Pass \/ (\E a \in Actors : WriteFile(a)) \/ Administer

Next == Around \/ Execute \/ AdapterRestart

Spec == Init /\ [][Next]_vars

=============================================================================
