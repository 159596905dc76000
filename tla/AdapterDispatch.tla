--------------------------- MODULE AdapterDispatch ---------------------------
(***************************************************************************)
(* How the strategy instances on the Adapter's side share the command      *)
(* folders and which thread executes which command: poll_commands, the     *)
(* claim of a file by renaming it, the tick dispatch queue and on_tick.    *)
(*                                                                         *)
(* The threads of an instance that poll are its background loop and the    *)
(* client's thread, which runs on_start and on_tick. Under                 *)
(* TIMER_DISPATCH whoever polls executes what it finds; under              *)
(* TICK_DISPATCH the commands folder is only queued by the poll and        *)
(* executed by the ticks of the client's thread, while the control folder  *)
(* (cancels) is still executed by the poll.                                *)
(*                                                                         *)
(* OrderPipeline assumes what is shown here: one executor at a time, each  *)
(* file taken up until it is retired.                                      *)
(***************************************************************************)
EXTENDS Naturals, FiniteSets

CONSTANTS
  Instances,      \* strategy instances started on the account's folders
  Loops,          \* background loops of an instance: its own one and, as on_stop
                  \* and on_start wait two seconds only, one that still runs
  Orders,         \* order files (commands folder)
  Cancels,        \* cancel files (control folder)
  MaxRestarts,    \* bound: kills of an instance, polls that an exception ends
  MaxReadFaults   \* bound: reads that fail although the file is there

ASSUME FilesAssumption == Orders \cap Cancels = {}
ASSUME BoundAssumption == MaxRestarts \in Nat /\ MaxReadFaults \in Nat

Files == Orders \cup Cancels
Thread == Instances \X (Loops \cup {"client"})
Instance(t) == t[1]
Client(i) == <<i, "client">>

VARIABLES
  mode,        \* command_dispatch_mode
  place,       \* place[f]: "INBOX" under its .json name, "CLAIMED" under its
               \* .processing-* name, "RETIRED" in archive or dead_letter
  journal,     \* the orders with an execution journal
  called,      \* called[f]: trading calls begun for f
  pollLock,    \* pollLock[i]: the thread that is in poll_commands, or none
  pending,     \* pending[i]: the claimed files waiting for their tick
  step,        \* step[t]: where thread t stands
  skip,        \* skip[t]: the pending files when t began to poll
  paths,       \* paths[t]: the listed paths t has yet to go through
  work,        \* work[t]: the claimed file t is processing, if any
  restarts, readFaults

threadVars == <<pollLock, pending, step, skip, paths, work>>
vars == <<mode, place, journal, called, threadVars, restarts, readFaults>>

(* A path of a listing: the file and whether it had been claimed by then. *)
Path == [file : Files, claimed : BOOLEAN]

Executing == {"READ", "PASSED", "JOURNALED", "CALLING", "DONE"}

NoThread == <<>>
NoFile == {}

TypeOK ==
  /\ mode \in {"TIMER_DISPATCH", "TICK_DISPATCH"}
  /\ place \in [Files -> {"ABSENT", "INBOX", "CLAIMED", "RETIRED"}]
  /\ journal \subseteq Orders
  /\ called \in [Files -> Nat]
  /\ pollLock \in [Instances -> Thread \cup {NoThread}]
  /\ pending \in [Instances -> SUBSET Orders]
  /\ step \in [Thread -> {"IDLE", "LIST", "WALK"} \cup Executing]
  /\ skip \in [Thread -> SUBSET Orders]
  /\ paths \in [Thread -> SUBSET Path]
  /\ work \in [Thread -> {{f} : f \in Files} \cup {NoFile}]
  /\ \A t \in Thread : /\ step[t] \in Executing <=> work[t] # NoFile
                       /\ step[t] = "PASSED" => work[t] \subseteq Orders
  /\ restarts \in 0..MaxRestarts
  /\ readFaults \in 0..MaxReadFaults

Init ==
  /\ mode \in {"TIMER_DISPATCH", "TICK_DISPATCH"}
  /\ place = [f \in Files |-> "ABSENT"]
  /\ journal = {}
  /\ called = [f \in Files |-> 0]
  /\ pollLock = [i \in Instances |-> NoThread]
  /\ pending = [i \in Instances |-> {}]
  /\ step = [t \in Thread |-> "IDLE"]
  /\ skip = [t \in Thread |-> {}]
  /\ paths = [t \in Thread |-> {}]
  /\ work = [t \in Thread |-> NoFile]
  /\ restarts = 0
  /\ readFaults = 0

(* The Worker publishes a command. *)
Publish(f) ==
  /\ place[f] = "ABSENT"
  /\ place' = [place EXCEPT ![f] = "INBOX"]
  /\ UNCHANGED <<mode, journal, called, threadVars, restarts, readFaults>>

-----------------------------------------------------------------------------
(* poll_commands.                                                          *)

(* Mutant: the poll does not ask for the lock. *)
BeginPollUnlocked(t) ==
  /\ step[t] = "IDLE"
  /\ pollLock' = [pollLock EXCEPT ![Instance(t)] = t]
  /\ skip' = [skip EXCEPT ![t] = pending[Instance(t)]]
  /\ step' = [step EXCEPT ![t] = "LIST"]
  /\ UNCHANGED <<mode, place, journal, called, pending, paths, work, restarts, readFaults>>

(* The lock is free; the pending files are read before the folders. A poll *)
(* that finds the lock taken does nothing.                                 *)
BeginPoll(t) ==
  /\ step[t] = "IDLE"
  /\ pollLock[Instance(t)] = NoThread
  /\ pollLock' = [pollLock EXCEPT ![Instance(t)] = t]
  /\ skip' = [skip EXCEPT ![t] = pending[Instance(t)]]
  /\ step' = [step EXCEPT ![t] = "LIST"]
  /\ UNCHANGED <<mode, place, journal, called, pending, paths, work, restarts, readFaults>>

(* Mutant: files claimed before a restart are not looked for. *)
QueueFilesUnclaimed == {f \in Files : place[f] = "INBOX"}

(* _is_queue_file: new files and claimed ones. *)
QueueFiles == {f \in Files : place[f] \in {"INBOX", "CLAIMED"}}

ListFolders(t) ==
  /\ step[t] = "LIST"
  /\ paths' = [paths EXCEPT ![t] =
                 {[file |-> f, claimed |-> place[f] = "CLAIMED"] : f \in QueueFiles \ skip[t]}]
  /\ skip' = [skip EXCEPT ![t] = {}]
  /\ step' = [step EXCEPT ![t] = "WALK"]
  /\ UNCHANGED <<mode, place, journal, called, pollLock, pending, work, restarts, readFaults>>

(* The path still names a file: what was listed as new has not been        *)
(* claimed by anyone else since, what was listed as claimed is not retired.*)
Found(p) == place[p.file] = IF p.claimed THEN "CLAIMED" ELSE "INBOX"

(* Whether the poll hands the file over to a tick. *)
ForTick(p) == mode = "TICK_DISPATCH" /\ p.file \in Orders

Leave(t, p) == paths' = [paths EXCEPT ![t] = @ \ {p}]

Claim(p) == place' = [place EXCEPT ![p.file] = "CLAIMED"]

SkipPath(t) ==
  /\ step[t] = "WALK"
  /\ \E p \in paths[t] : ~Found(p) /\ Leave(t, p)
  /\ UNCHANGED <<mode, place, journal, called, pollLock, pending, step, skip, work,
                 restarts, readFaults>>

(* _queue_tick_dispatch; a path is queued once. *)
QueueForTick(t) ==
  /\ step[t] = "WALK"
  /\ \E p \in paths[t] :
       /\ Found(p) /\ ForTick(p)
       /\ Leave(t, p)
       /\ Claim(p)
       /\ pending' = [pending EXCEPT ![Instance(t)] = @ \cup {p.file}]
  /\ UNCHANGED <<mode, journal, called, pollLock, step, skip, work, restarts, readFaults>>

StartWork(t, f) ==
  /\ work' = [work EXCEPT ![t] = {f}]
  /\ step' = [step EXCEPT ![t] = "READ"]

(* _process_path on a file the poll executes itself. *)
TakePath(t) ==
  /\ step[t] = "WALK"
  /\ \E p \in paths[t] :
       /\ Found(p) /\ ~ForTick(p)
       /\ Leave(t, p)
       /\ Claim(p)
       /\ StartWork(t, p.file)
  /\ UNCHANGED <<mode, journal, called, pollLock, pending, skip, restarts, readFaults>>

(* The target of a command cannot be read: it is processed at once, on the *)
(* polling thread.                                                         *)
ReadFault(t) ==
  /\ readFaults < MaxReadFaults
  /\ step[t] = "WALK"
  /\ \E p \in paths[t] :
       /\ Found(p) /\ ForTick(p)
       /\ Leave(t, p)
       /\ Claim(p)
       /\ StartWork(t, p.file)
  /\ readFaults' = readFaults + 1
  /\ UNCHANGED <<mode, journal, called, pollLock, pending, skip, restarts>>

EndPoll(t) ==
  /\ step[t] = "WALK" /\ paths[t] = {}
  /\ pollLock' = [pollLock EXCEPT ![Instance(t)] = NoThread]
  /\ step' = [step EXCEPT ![t] = "IDLE"]
  /\ UNCHANGED <<mode, place, journal, called, pending, skip, paths, work, restarts,
                 readFaults>>

(* A listing or a rename raises: the poll ends and gives the lock back. *)
PollAborts(t) ==
  /\ restarts < MaxRestarts
  /\ step[t] \in {"LIST", "WALK"}
  /\ restarts' = restarts + 1
  /\ pollLock' = [pollLock EXCEPT ![Instance(t)] = NoThread]
  /\ step' = [step EXCEPT ![t] = "IDLE"]
  /\ skip' = [skip EXCEPT ![t] = {}]
  /\ paths' = [paths EXCEPT ![t] = {}]
  /\ UNCHANGED <<mode, place, journal, called, pending, work, readFaults>>

(* on_tick, on the client's thread: the tick of a contract takes one       *)
(* pending command of that contract, if its file is still there.           *)
DrainTick(i) ==
  /\ mode = "TICK_DISPATCH"
  /\ step[Client(i)] = "IDLE"
  /\ \E f \in pending[i] :
       /\ pending' = [pending EXCEPT ![i] = @ \ {f}]
       /\ IF place[f] = "CLAIMED" THEN StartWork(Client(i), f) ELSE UNCHANGED <<work, step>>
  /\ UNCHANGED <<mode, place, journal, called, pollLock, skip, paths, restarts, readFaults>>

-----------------------------------------------------------------------------
(* _process_file, _execute_order and _execute_cancel, as far as they matter*)
(* for who calls what when. (An observed order calls nothing; OrderPipeline*)
(* has it.)                                                                *)

(* Mutant: the work is not put down. *)
BackKeepsWork(t) ==
  /\ step' = [step EXCEPT ![t] = IF pollLock[Instance(t)] = t THEN "WALK" ELSE "IDLE"]
  /\ UNCHANGED work

(* The thread goes on with its poll, or returns from the tick. *)
Back(t) ==
  /\ step' = [step EXCEPT ![t] = IF pollLock[Instance(t)] = t THEN "WALK" ELSE "IDLE"]
  /\ work' = [work EXCEPT ![t] = NoFile]

Proceed(t, to) == step' = [step EXCEPT ![t] = to] /\ UNCHANGED work

(* The file was retired by someone else in the meantime. *)
FileVanished(t) ==
  /\ step[t] = "READ"
  /\ \E f \in work[t] : place[f] # "CLAIMED"
  /\ Back(t)
  /\ UNCHANGED <<mode, place, journal, called, pollLock, pending, skip, paths, restarts,
                 readFaults>>

(* Mutant: a journal does not keep an order from being executed. *)
ExecutedNever(f) == FALSE

Executed(f) == f \in journal

(* Answered from the journal, or refused. *)
AnswerOnly(t) ==
  /\ step[t] = "READ"
  /\ \E f \in work[t] : place[f] = "CLAIMED"
  /\ Proceed(t, "DONE")
  /\ UNCHANGED <<mode, place, journal, called, pollLock, pending, skip, paths, restarts,
                 readFaults>>

(* An order passes when it has no journal; a cancel goes straight to the   *)
(* native call.                                                            *)
Pass(t) ==
  /\ step[t] = "READ"
  /\ \E f \in work[t] :
       /\ place[f] = "CLAIMED"
       /\ \/ f \in Orders /\ ~Executed(f) /\ Proceed(t, "PASSED")
          \/ f \in Cancels /\ Proceed(t, "JOURNALED")
  /\ UNCHANGED <<mode, place, journal, called, pollLock, pending, skip, paths, restarts,
                 readFaults>>

WriteJournal(t) ==
  /\ step[t] = "PASSED"
  /\ journal' = journal \cup work[t]
  /\ Proceed(t, "JOURNALED")
  /\ UNCHANGED <<mode, place, called, pollLock, pending, skip, paths, restarts, readFaults>>

(* make_order_req or cancel_order. *)
BeginCall(t) ==
  /\ step[t] = "JOURNALED"
  /\ called' = [f \in Files |-> IF f \in work[t] THEN called[f] + 1 ELSE called[f]]
  /\ Proceed(t, "CALLING")
  /\ UNCHANGED <<mode, place, journal, pollLock, pending, skip, paths, restarts, readFaults>>

EndCall(t) ==
  /\ step[t] = "CALLING"
  /\ Proceed(t, "DONE")
  /\ UNCHANGED <<mode, place, journal, called, pollLock, pending, skip, paths, restarts,
                 readFaults>>

(* _archive or _dead_letter; that the file is gone is ignored. *)
Retire(t) ==
  /\ step[t] = "DONE"
  /\ place' = [f \in Files |-> IF f \in work[t] THEN "RETIRED" ELSE place[f]]
  /\ Back(t)
  /\ UNCHANGED <<mode, journal, called, pollLock, pending, skip, paths, restarts, readFaults>>

-----------------------------------------------------------------------------

(* An instance is killed and started again. What it had in memory is lost; *)
(* the files it had claimed keep their names.                              *)
Restart(i) ==
  LET forget(function, value) ==
        [t \in Thread |-> IF Instance(t) = i THEN value ELSE function[t]]
  IN  /\ restarts < MaxRestarts
      /\ restarts' = restarts + 1
      /\ pollLock' = [pollLock EXCEPT ![i] = NoThread]
      /\ pending' = [pending EXCEPT ![i] = {}]
      /\ step' = forget(step, "IDLE")
      /\ skip' = forget(skip, {})
      /\ paths' = forget(paths, {})
      /\ work' = forget(work, NoFile)
      /\ UNCHANGED <<mode, place, journal, called, readFaults>>

Walk(t) ==
  \/ ListFolders(t) \/ SkipPath(t) \/ QueueForTick(t) \/ TakePath(t) \/ EndPoll(t)

Process(t) ==
  \/ FileVanished(t) \/ AnswerOnly(t) \/ Pass(t) \/ WriteJournal(t)
  \/ BeginCall(t) \/ EndCall(t) \/ Retire(t)

Next ==
  \/ \E f \in Files : Publish(f)
  \/ \E t \in Thread : BeginPoll(t) \/ Walk(t) \/ Process(t) \/ ReadFault(t)
                       \/ PollAborts(t)
  \/ \E i \in Instances : DrainTick(i) \/ Restart(i)

Spec == Init /\ [][Next]_vars

(* A background loop polls for ever, no native call hangs, and the         *)
(* contracts of the pending commands keep ticking. That is strong fairness:*)
(* a tick may find the client's thread in a poll, but every tick ends with *)
(* the drain of its contract, so the polls of the ticks cannot starve it.  *)
FairSpec ==
  /\ Spec
  /\ \A i \in Instances : WF_vars(\E l \in Loops : BeginPoll(<<i, l>>))
  /\ \A t \in Thread : WF_vars(Walk(t) \/ Process(t))
  /\ \A i \in Instances : SF_vars(DrainTick(i))

-----------------------------------------------------------------------------

(* Within an instance, orders are executed one at a time, in both dispatch *)
(* modes and whichever of its threads poll, and under TIMER_DISPATCH so are*)
(* cancels; as long as no read of a file that is there fails.              *)
OneExecutor ==
  readFaults = 0 =>
    \A t, u \in Thread :
      /\ t # u /\ Instance(t) = Instance(u)
      /\ step[t] \in Executing /\ step[u] \in Executing
      => mode = "TICK_DISPATCH" /\ (work[t] \cup work[u]) \cap Cancels # {}

SingleInstance == \A i, j \in Instances : i = j

(* Whatever is listed, claimed, queued and recovered twice, an instance    *)
(* that is alone on its folders calls the order entry at most once for an  *)
(* order.                                                                  *)
CalledOnce ==
  SingleInstance /\ readFaults = 0 => \A f \in Orders : called[f] <= 1

(* The order that is in execution on some thread, its journal and its call,*)
(* as the one executor the other modules take the threads for.             *)
Executor == INSTANCE OrderExecutor
              WITH current <- UNION {work[t] \cap Orders : t \in Thread},
                   ready <- \E t \in Thread : step[t] = "JOURNALED" /\ work[t] \cap Orders # {},
                   called <- [o \in Orders |-> called[o]]

(* The threads of an instance that is alone on its folders are together one*)
(* OrderExecutor, through kills and aborted polls and as long as no read of*)
(* a file that is there fails (poll_commands, on_tick, _execute_order).    *)
ImplementsOrderExecutor ==
  /\ Executor!Init
  /\ [][SingleInstance /\ readFaults' = 0 => Executor!Next]_(Executor!vars)

(* Every published command is executed, answered or refused, also when the *)
(* instance is killed after it had claimed the file.                       *)
EveryCommandRetired == \A f \in Files : place[f] = "INBOX" ~> place[f] = "RETIRED"

-----------------------------------------------------------------------------
(* What the design says and the code does not do.                          *)

(* No two threads are in a trading call at once. *)
OneTradingCall ==
  \A t, u \in Thread : t # u => ~(step[t] = "CALLING" /\ step[u] = "CALLING")

(* The claim keeps two instances from executing the same order. *)
ClaimedOnce == \A f \in Orders : called[f] <= 1

=============================================================================
