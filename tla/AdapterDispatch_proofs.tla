------------------------ MODULE AdapterDispatch_proofs ------------------------
(***************************************************************************)
(* Proofs about AdapterDispatch, for any instances, any number of polling  *)
(* loops in them, any files, kills and failed reads.                       *)
(***************************************************************************)
EXTENDS AdapterDispatch, TLAPS

LEMMA ThreadsOfInstances ==
  /\ \A t \in Thread : Instance(t) \in Instances /\ t # NoThread
  /\ \A i \in Instances : Client(i) \in Thread /\ Instance(Client(i)) = i
BY DEF Thread, Instance, Client, NoThread

-----------------------------------------------------------------------------

LEMMA TypeInit == Init => TypeOK
BY BoundAssumption DEF Init, TypeOK, Executing, NoFile

LEMMA TypeStep == TypeOK /\ [Next]_vars => TypeOK'
<1> SUFFICES ASSUME TypeOK, [Next]_vars PROVE TypeOK'
  OBVIOUS
<1> USE BoundAssumption, ThreadsOfInstances
<1> USE DEF TypeOK, threadVars
<1>1. ASSUME NEW f \in Files, Publish(f) PROVE TypeOK'
  BY <1>1 DEF Publish
<1>2. ASSUME NEW t \in Thread, BeginPoll(t) PROVE TypeOK'
  BY <1>2 DEF BeginPoll, Executing
<1>3. ASSUME NEW t \in Thread, ListFolders(t) PROVE TypeOK'
  <2> DEFINE listed == {[file |-> f, claimed |-> place[f] = "CLAIMED"] : f \in QueueFiles \ skip[t]}
  <2>1. ASSUME NEW f \in Files
        PROVE  [file |-> f, claimed |-> place[f] = "CLAIMED"] \in Path
    BY DEF Path
  <2>2. listed \subseteq Path BY <2>1 DEF QueueFiles
  <2>3. paths' \in [Thread -> SUBSET Path]
    <3>1. paths' = [paths EXCEPT ![t] = listed] BY <1>3 DEF ListFolders
    <3> HIDE DEF listed
    <3> QED BY <2>2, <3>1
  <2> QED BY <1>3, <2>3 DEF ListFolders, Executing
<1>4. ASSUME NEW t \in Thread, SkipPath(t) PROVE TypeOK'
  BY <1>4 DEF SkipPath, Leave
<1>5. ASSUME NEW t \in Thread, QueueForTick(t) PROVE TypeOK'
  BY <1>5 DEF QueueForTick, Leave, Claim, ForTick, Path
<1>6. ASSUME NEW t \in Thread, TakePath(t) PROVE TypeOK'
  BY <1>6 DEF TakePath, Leave, Claim, Path, StartWork, Executing, NoFile
<1>7. ASSUME NEW t \in Thread, ReadFault(t) PROVE TypeOK'
  BY <1>7 DEF ReadFault, Leave, Claim, Path, StartWork, Executing, NoFile
<1>8. ASSUME NEW t \in Thread, EndPoll(t) PROVE TypeOK'
  BY <1>8 DEF EndPoll, Executing
<1>9. ASSUME NEW i \in Instances, DrainTick(i) PROVE TypeOK'
  <2> DEFINE t == Client(i)
  <2>1. t \in Thread OBVIOUS
  <2>2. PICK f \in pending[i] :
          /\ pending' = [pending EXCEPT ![i] = @ \ {f}]
          /\ IF place[f] = "CLAIMED" THEN StartWork(t, f) ELSE UNCHANGED <<work, step>>
    BY <1>9 DEF DrainTick
  <2>3. f \in Files BY DEF Files
  <2>4. UNCHANGED <<mode, place, journal, called, pollLock, skip, paths, restarts, readFaults>>
    BY <1>9 DEF DrainTick
  <2> HIDE DEF t
  <2>5. CASE place[f] = "CLAIMED"
    <3>1. work' = [work EXCEPT ![t] = {f}] /\ step' = [step EXCEPT ![t] = "READ"]
      BY <2>2, <2>5 DEF StartWork
    <3> QED BY <2>1, <2>2, <2>3, <2>4, <3>1 DEF Executing, NoFile
  <2>6. CASE place[f] # "CLAIMED" BY <2>2, <2>4, <2>6
  <2> QED BY <2>5, <2>6
<1>10. ASSUME NEW t \in Thread, FileVanished(t) \/ Retire(t) PROVE TypeOK'
  BY <1>10 DEF FileVanished, Retire, Back, Executing, NoFile
<1>11. ASSUME NEW t \in Thread, AnswerOnly(t) PROVE TypeOK'
  BY <1>11 DEF AnswerOnly, Proceed, Executing
<1>12. ASSUME NEW t \in Thread, Pass(t) PROVE TypeOK'
  BY <1>12 DEF Pass, Proceed, Executing
<1>13. ASSUME NEW t \in Thread, WriteJournal(t) PROVE TypeOK'
  BY <1>13 DEF WriteJournal, Proceed, Executing
<1>14. ASSUME NEW t \in Thread, BeginCall(t) PROVE TypeOK'
  BY <1>14 DEF BeginCall, Proceed, Executing
<1>15. ASSUME NEW t \in Thread, EndCall(t) PROVE TypeOK'
  BY <1>15 DEF EndCall, Proceed, Executing
<1>16. ASSUME NEW i \in Instances, Restart(i) PROVE TypeOK'
  BY <1>16 DEF Restart, Executing, NoFile
<1>17. ASSUME NEW t \in Thread, PollAborts(t) PROVE TypeOK'
  BY <1>17 DEF PollAborts, Executing
<1>18. CASE UNCHANGED vars BY <1>18 DEF vars
<1> QED
  BY <1>1, <1>2, <1>3, <1>4, <1>5, <1>6, <1>7, <1>8, <1>9, <1>10, <1>11, <1>12, <1>13,
     <1>14, <1>15, <1>16, <1>17, <1>18
  DEF Next, Walk, Process

(* Files, locks, queues and threads keep their types. *)
THEOREM TypeCorrect == Spec => []TypeOK
BY TypeInit, TypeStep, PTL DEF Spec

-----------------------------------------------------------------------------
(* Why orders are executed one at a time. A thread that goes through a     *)
(* listing holds the lock. A thread that executes either holds the lock of *)
(* its instance, and is then at a cancel if a tick was to have the orders, *)
(* or is the client's thread in a tick.                                    *)

Polling == \A t \in Thread : step[t] \in {"LIST", "WALK"} => pollLock[Instance(t)] = t

InPoll(t) ==
  /\ pollLock[Instance(t)] = t
  /\ mode = "TICK_DISPATCH" /\ readFaults = 0 => work[t] \cap Orders = {}

InTick(t) == mode = "TICK_DISPATCH" /\ t = Client(Instance(t))

Serial == \A t \in Thread : step[t] \in Executing => InPoll(t) \/ InTick(t)

Locking == Polling /\ Serial

LEMMA LockingInit == Init => Locking
BY DEF Init, Locking, Polling, Serial, Executing

(* A thread other than t keeps its place while t moves on. *)
LEMMA ExecutorMoves ==
  ASSUME TypeOK, Locking, NEW t \in Thread, step[t] \in Executing,
         \A u \in Thread : u # t => step'[u] = step[u],
         step'[t] \in Executing, UNCHANGED <<mode, pollLock, work, readFaults>>
  PROVE  Locking'
BY DEF Locking, Polling, Serial, InPoll, InTick, Executing

LEMMA LockingStep == TypeOK /\ Locking /\ [Next]_vars => Locking'
<1> SUFFICES ASSUME TypeOK, Locking, [Next]_vars PROVE Locking'
  OBVIOUS
<1> USE ThreadsOfInstances DEF TypeOK, threadVars
<1> USE DEF Locking, Polling, Serial
<1>1. CASE UNCHANGED <<mode, pollLock, step, work, readFaults>>
  BY <1>1 DEF InPoll, InTick
<1>2. ASSUME NEW t \in Thread, BeginPoll(t) PROVE Locking'
  BY <1>2 DEF BeginPoll, InPoll, InTick, Executing
<1>3. ASSUME NEW t \in Thread, ListFolders(t) PROVE Locking'
  BY <1>3 DEF ListFolders, InPoll, InTick, Executing
<1>4. ASSUME NEW t \in Thread, NEW p \in Path, step[t] = "WALK", StartWork(t, p.file),
             UNCHANGED <<mode, pollLock>>,
             \/ ~ForTick(p) /\ readFaults' = readFaults
             \/ readFaults' # 0
      PROVE  Locking'
  <2>1. /\ work' = [work EXCEPT ![t] = {p.file}]
        /\ step' = [step EXCEPT ![t] = "READ"]
    BY <1>4 DEF StartWork
  <2>2. pollLock[Instance(t)] = t BY <1>4
  <2>3. InPoll(t)' BY <1>4, <2>1, <2>2 DEF ForTick, InPoll
  <2>4. ASSUME NEW u \in Thread, u # t, step'[u] \in Executing PROVE (InPoll(u) \/ InTick(u))'
    <3>1. InPoll(u) \/ InTick(u) BY <2>1, <2>4
    <3>2. work'[u] = work[u] BY <2>1, <2>4
    <3> QED BY <1>4, <3>1, <3>2 DEF InPoll, InTick
  <2>5. Polling' BY <1>4, <2>1
  <2> QED BY <2>3, <2>4, <2>5
<1>5. ASSUME NEW t \in Thread, TakePath(t) PROVE Locking'
  BY <1>5, <1>4 DEF TakePath
<1>6. ASSUME NEW t \in Thread, ReadFault(t) PROVE Locking'
  <2>1. readFaults' # 0 BY <1>6 DEF ReadFault
  <2> QED BY <1>6, <1>4, <2>1 DEF ReadFault
<1>7. ASSUME NEW t \in Thread, EndPoll(t) \/ PollAborts(t) PROVE Locking'
  BY <1>7 DEF EndPoll, PollAborts, InPoll, InTick, Executing
<1>8. ASSUME NEW i \in Instances, DrainTick(i) PROVE Locking'
  BY <1>8 DEF DrainTick, StartWork, InPoll, InTick, Executing
<1>9. ASSUME NEW t \in Thread, FileVanished(t) \/ Retire(t) PROVE Locking'
  BY <1>9 DEF FileVanished, Retire, Back, InPoll, InTick, Executing
<1>10. ASSUME NEW t \in Thread,
              AnswerOnly(t) \/ Pass(t) \/ WriteJournal(t) \/ BeginCall(t) \/ EndCall(t)
       PROVE  Locking'
  BY <1>10, ExecutorMoves
  DEF AnswerOnly, Pass, WriteJournal, BeginCall, EndCall, Proceed, Executing
<1>11. ASSUME NEW i \in Instances, Restart(i) PROVE Locking'
  BY <1>11 DEF Restart, InPoll, InTick, Executing
<1>12. ASSUME NEW t \in Thread, SkipPath(t) \/ QueueForTick(t) PROVE Locking'
  BY <1>12, <1>1 DEF SkipPath, QueueForTick
<1>13. ASSUME NEW f \in Files, Publish(f) PROVE Locking'
  BY <1>13, <1>1 DEF Publish
<1>14. CASE UNCHANGED vars BY <1>14, <1>1 DEF vars
<1> QED
  BY <1>2, <1>3, <1>5, <1>6, <1>7, <1>8, <1>9, <1>10, <1>11, <1>12, <1>13, <1>14
  DEF Next, Walk, Process

LEMMA LockingImpliesOneExecutor == TypeOK /\ Locking => OneExecutor
<1> SUFFICES ASSUME TypeOK, Locking, readFaults = 0,
                    NEW t \in Thread, NEW u \in Thread, t # u, Instance(t) = Instance(u),
                    step[t] \in Executing, step[u] \in Executing
             PROVE  mode = "TICK_DISPATCH" /\ (work[t] \cup work[u]) \cap Cancels # {}
  BY DEF OneExecutor
<1>1. ASSUME NEW v \in Thread, step[v] \in Executing, InPoll(v), mode = "TICK_DISPATCH"
      PROVE  work[v] \cap Cancels # {}
  <2>1. PICK f \in Files : work[v] = {f} BY <1>1 DEF TypeOK, NoFile
  <2> QED BY <1>1, <2>1 DEF InPoll, Files
<1>2. InPoll(t) \/ InTick(t) BY DEF Locking, Serial
<1>3. InPoll(u) \/ InTick(u) BY DEF Locking, Serial
<1>4. ~(InPoll(t) /\ InPoll(u)) BY DEF InPoll
<1>5. ~(InTick(t) /\ InTick(u)) BY DEF InTick
<1> QED BY <1>1, <1>2, <1>3, <1>4, <1>5 DEF InTick

(* Within an instance no two threads execute orders at once, and under     *)
(* TIMER_DISPATCH no two threads execute anything at once.                 *)
THEOREM Serialised == Spec => []OneExecutor
BY TypeCorrect, LockingInit, LockingStep, LockingImpliesOneExecutor, PTL DEF Spec

-----------------------------------------------------------------------------
(* Why the order entry is called once: an order is journalled between the  *)
(* look at its journal and the call, and nobody else executes it meanwhile.*)

Journalled ==
  SingleInstance /\ readFaults = 0 =>
    /\ \A f \in Orders : called[f] = 0 \/ (called[f] = 1 /\ f \in journal)
    /\ \A t \in Thread : \A f \in work[t] \cap Orders :
         /\ step[t] = "PASSED" => f \notin journal
         /\ step[t] = "JOURNALED" => f \in journal /\ called[f] = 0

IInv == TypeOK /\ Locking /\ Journalled

LEMMA JournalledInit == Init => Journalled
<1> SUFFICES ASSUME Init PROVE Journalled
  OBVIOUS
<1>1. \A f \in Orders : called[f] = 0 BY DEF Init, Files
<1>2. \A t \in Thread : work[t] = {} BY DEF Init, NoFile
<1> QED BY <1>1, <1>2 DEF Journalled

(* While t executes the order f, no other thread executes an order. *)
LEMMA SoleExecutor ==
  ASSUME TypeOK, Locking, SingleInstance, readFaults = 0,
         NEW t \in Thread, step[t] \in Executing,
         NEW f \in Orders, f \in work[t],
         NEW u \in Thread, u # t, step[u] \in Executing
  PROVE  work[u] \cap Orders = {}
<1>1. Instance(t) = Instance(u) BY ThreadsOfInstances DEF SingleInstance
<1>2. (work[t] \cup work[u]) \cap Cancels # {}
  BY <1>1, LockingImpliesOneExecutor DEF OneExecutor
<1>3. PICK g \in Files : work[u] = {g} BY DEF TypeOK, NoFile
<1>4. PICK h \in Files : work[t] = {h} BY DEF TypeOK, NoFile
<1> QED BY <1>2, <1>3, <1>4, FilesAssumption DEF Files

LEMMA JournalledStep == IInv /\ [Next]_vars => Journalled'
<1> SUFFICES ASSUME TypeOK, Locking, Journalled, [Next]_vars,
                    SingleInstance, readFaults' = 0
             PROVE  /\ \A f \in Orders : called'[f] = 0 \/ (called'[f] = 1 /\ f \in journal')
                    /\ \A t \in Thread : \A f \in work'[t] \cap Orders :
                         /\ step'[t] = "PASSED" => f \notin journal'
                         /\ step'[t] = "JOURNALED" => f \in journal' /\ called'[f] = 0
  BY DEF IInv, Journalled, SingleInstance
<1> DEFINE Calls == \A f \in Orders : called'[f] = 0 \/ (called'[f] = 1 /\ f \in journal')
<1> DEFINE At(t) == \A f \in work'[t] \cap Orders :
                      /\ step'[t] = "PASSED" => f \notin journal'
                      /\ step'[t] = "JOURNALED" => f \in journal' /\ called'[f] = 0
<1> USE ThreadsOfInstances DEF TypeOK, threadVars
<1>0. readFaults = 0
  BY DEF Next, Walk, Process, vars, Publish, BeginPoll, ListFolders, SkipPath, QueueForTick,
         TakePath, ReadFault, EndPoll, DrainTick, FileVanished, AnswerOnly, Pass,
         WriteJournal, BeginCall, EndCall, Retire, Restart, PollAborts
<1>1. ASSUME UNCHANGED <<journal, called>>,
             \A t \in Thread : \/ step'[t] \notin {"PASSED", "JOURNALED"}
                              \/ (step'[t] = step[t] /\ work'[t] = work[t])
      PROVE  Calls /\ \A t \in Thread : At(t)
  BY <1>0, <1>1 DEF Journalled
<1>2. ASSUME NEW t \in Thread, Pass(t) PROVE Calls /\ \A u \in Thread : At(u)
  <2>1. UNCHANGED <<journal, called, work>> BY <1>2 DEF Pass, Proceed
  <2>2. ASSUME NEW u \in Thread, u # t PROVE At(u)
    BY <1>0, <1>2, <2>1, <2>2 DEF Pass, Proceed, Journalled
  <2>3. PICK f \in work[t] :
          \/ f \in Orders /\ f \notin journal /\ step' = [step EXCEPT ![t] = "PASSED"]
          \/ f \in Cancels /\ step' = [step EXCEPT ![t] = "JOURNALED"]
    BY <1>2 DEF Pass, Proceed, Executed
  <2>4. work[t] = {f} BY <2>3 DEF NoFile
  <2>5. At(t) BY <2>1, <2>3, <2>4, FilesAssumption
  <2>6. Calls BY <1>0, <2>1 DEF Journalled
  <2> QED BY <2>2, <2>5, <2>6
<1>3. ASSUME NEW t \in Thread, WriteJournal(t) PROVE Calls /\ \A u \in Thread : At(u)
  <2>1. /\ journal' = journal \cup work[t] /\ UNCHANGED <<called, work>>
        /\ step[t] = "PASSED" /\ step' = [step EXCEPT ![t] = "JOURNALED"]
    BY <1>3 DEF WriteJournal, Proceed
  <2>2. At(t) BY <1>0, <2>1 DEF Journalled
  <2>3. ASSUME NEW u \in Thread, u # t PROVE At(u)
    <3> SUFFICES ASSUME NEW f \in work[u] \cap Orders, step[u] \in {"PASSED", "JOURNALED"}
                 PROVE  /\ step[u] = "PASSED" => f \notin journal'
                        /\ step[u] = "JOURNALED" => f \in journal' /\ called'[f] = 0
      BY <2>1, <2>3
    <3>1. work[t] \cap Orders = {}
      BY <1>0, <2>1, <2>3, SoleExecutor DEF Executing
    <3> QED BY <1>0, <2>1, <3>1 DEF Journalled
  <2>4. Calls BY <1>0, <2>1 DEF Journalled
  <2> QED BY <2>2, <2>3, <2>4
<1>4. ASSUME NEW t \in Thread, BeginCall(t) PROVE Calls /\ \A u \in Thread : At(u)
  <2>1. /\ called' = [f \in Files |-> IF f \in work[t] THEN called[f] + 1 ELSE called[f]]
        /\ UNCHANGED <<journal, work>>
        /\ step[t] = "JOURNALED" /\ step' = [step EXCEPT ![t] = "CALLING"]
    BY <1>4 DEF BeginCall, Proceed
  <2>2. At(t) BY <2>1
  <2>3. ASSUME NEW u \in Thread, u # t PROVE At(u)
    <3> SUFFICES ASSUME NEW f \in work[u] \cap Orders, step[u] \in {"PASSED", "JOURNALED"}
                 PROVE  /\ step[u] = "PASSED" => f \notin journal
                        /\ step[u] = "JOURNALED" => f \in journal /\ called'[f] = 0
      BY <2>1, <2>3
    <3>1. work[t] \cap Orders = {}
      BY <1>0, <2>1, <2>3, SoleExecutor DEF Executing
    <3> QED BY <1>0, <2>1, <3>1 DEF Journalled, Files
  <2>4. Calls BY <1>0, <2>1 DEF Journalled, Files
  <2> QED BY <2>2, <2>3, <2>4
<1>5. ASSUME NEW t \in Thread,
             \/ BeginPoll(t) \/ ListFolders(t) \/ EndPoll(t) \/ PollAborts(t)
             \/ FileVanished(t) \/ AnswerOnly(t) \/ EndCall(t) \/ Retire(t)
      PROVE  Calls /\ \A u \in Thread : At(u)
  <2>1. UNCHANGED <<journal, called>>
    BY <1>5
    DEF BeginPoll, ListFolders, EndPoll, PollAborts, FileVanished, AnswerOnly, EndCall, Retire
  <2>2. ASSUME NEW u \in Thread, u # t PROVE step'[u] = step[u] /\ work'[u] = work[u]
    BY <1>5, <2>2
    DEF BeginPoll, ListFolders, EndPoll, PollAborts, FileVanished, AnswerOnly, EndCall, Retire,
        Back, Proceed
  <2>3. step'[t] \notin {"PASSED", "JOURNALED"}
    BY <1>5
    DEF BeginPoll, ListFolders, EndPoll, PollAborts, FileVanished, AnswerOnly, EndCall, Retire,
        Back, Proceed
  <2>4. \A u \in Thread : \/ step'[u] \notin {"PASSED", "JOURNALED"}
                           \/ (step'[u] = step[u] /\ work'[u] = work[u])
    BY <2>2, <2>3
  <2> QED BY <1>1, <2>1, <2>4
<1>6. ASSUME NEW t \in Thread, SkipPath(t) \/ QueueForTick(t)
      PROVE  Calls /\ \A u \in Thread : At(u)
  BY <1>6, <1>1 DEF SkipPath, QueueForTick
<1>7. ASSUME NEW t \in Thread, TakePath(t) \/ ReadFault(t)
      PROVE  Calls /\ \A u \in Thread : At(u)
  <2>1. UNCHANGED <<journal, called>> BY <1>7 DEF TakePath, ReadFault
  <2>2. PICK f : StartWork(t, f) BY <1>7 DEF TakePath, ReadFault
  <2>3. ASSUME NEW u \in Thread, u # t PROVE step'[u] = step[u] /\ work'[u] = work[u]
    BY <2>2, <2>3 DEF StartWork
  <2>4. step'[t] \notin {"PASSED", "JOURNALED"} BY <2>2 DEF StartWork
  <2>5. \A u \in Thread : \/ step'[u] \notin {"PASSED", "JOURNALED"}
                           \/ (step'[u] = step[u] /\ work'[u] = work[u])
    BY <2>3, <2>4
  <2> QED BY <1>1, <2>1, <2>5
<1>8. ASSUME NEW i \in Instances, DrainTick(i) PROVE Calls /\ \A u \in Thread : At(u)
  <2> DEFINE t == Client(i)
  <2>1. UNCHANGED <<journal, called>> BY <1>8 DEF DrainTick
  <2>2. PICK f : StartWork(t, f) \/ UNCHANGED <<work, step>> BY <1>8 DEF DrainTick
  <2>3. t \in Thread OBVIOUS
  <2> HIDE DEF t
  <2>4. CASE UNCHANGED <<work, step>> BY <1>1, <2>1, <2>4
  <2>5. CASE StartWork(t, f)
    <3>1. /\ step' = [step EXCEPT ![t] = "READ"]
          /\ work' = [work EXCEPT ![t] = {f}]
      BY <2>5 DEF StartWork
    <3>2. \A u \in Thread : \/ step'[u] \notin {"PASSED", "JOURNALED"}
                             \/ (step'[u] = step[u] /\ work'[u] = work[u])
      BY <2>3, <3>1
    <3> QED BY <1>1, <2>1, <3>2
  <2> QED BY <2>2, <2>4, <2>5
<1>9. ASSUME NEW i \in Instances, Restart(i) PROVE Calls /\ \A u \in Thread : At(u)
  <2>1. UNCHANGED <<journal, called>> BY <1>9 DEF Restart
  <2>2. /\ step' = [t \in Thread |-> IF Instance(t) = i THEN "IDLE" ELSE step[t]]
        /\ work' = [t \in Thread |-> IF Instance(t) = i THEN NoFile ELSE work[t]]
    BY <1>9 DEF Restart
  <2>3. \A u \in Thread : \/ step'[u] \notin {"PASSED", "JOURNALED"}
                           \/ (step'[u] = step[u] /\ work'[u] = work[u])
    BY <2>2
  <2> QED BY <1>1, <2>1, <2>3
<1>10. ASSUME NEW f \in Files, Publish(f) PROVE Calls /\ \A u \in Thread : At(u)
  BY <1>10, <1>1 DEF Publish
<1>11. CASE UNCHANGED vars
  BY <1>11, <1>1 DEF vars
<1> QED
  BY <1>2, <1>3, <1>4, <1>5, <1>6, <1>7, <1>8, <1>9, <1>10, <1>11 DEF Next, Walk, Process

THEOREM Inductive == Spec => []IInv
BY TypeInit, TypeStep, LockingInit, LockingStep, JournalledInit, JournalledStep, PTL
DEF IInv, Spec

(* An instance that is alone on its folders calls the order entry at most  *)
(* once for an order, whatever its threads, restarts and ticks.            *)
THEOREM OrdersCalledOnce == Spec => []CalledOnce
<1>1. IInv => CalledOnce BY DEF IInv, Journalled, CalledOnce
<1> QED BY <1>1, Inductive, PTL

-----------------------------------------------------------------------------
(* The threads as one executor.                                            *)

InHand == UNION {work[t] \cap Orders : t \in Thread}
Ready == \E t \in Thread : step[t] = "JOURNALED" /\ work[t] \cap Orders # {}
Calls == [o \in Orders |-> called[o]]

(* The steps of an OrderExecutor, in these names. *)
LEMMA StepTake ==
  ASSUME NEW o \in Orders,
         InHand = {}, InHand' = {o}, Ready' = Ready, journal' = journal, Calls' = Calls
  PROVE  Executor!Next
<1>1. Executor!Take(o) BY Zenon DEF Executor!Take, InHand, Ready, Calls
<1> QED BY <1>1 DEF Executor!Next

LEMMA StepJournal ==
  ASSUME NEW o \in Orders,
         InHand = {o}, o \notin journal, journal' = journal \cup {o},
         Ready' = TRUE, InHand' = InHand, Calls' = Calls
  PROVE  Executor!Next
<1>1. Executor!Journal(o) BY Zenon DEF Executor!Journal, InHand, Ready, Calls
<1> QED BY <1>1 DEF Executor!Next

LEMMA StepCall ==
  ASSUME NEW o \in Orders,
         InHand = {o}, Ready, o \in journal, Calls[o] = 0,
         Calls' = [Calls EXCEPT ![o] = 1],
         Ready' = FALSE, InHand' = InHand, journal' = journal
  PROVE  Executor!Next
<1>1. Executor!Call(o) BY Zenon DEF Executor!Call, InHand, Ready, Calls
<1> QED BY <1>1 DEF Executor!Next

LEMMA StepPutDown ==
  ASSUME InHand # {}, InHand' = {}, Ready' = FALSE, journal' = journal, Calls' = Calls
  PROVE  Executor!Next
<1>1. Executor!PutDown BY Zenon DEF Executor!PutDown, InHand, Ready, Calls
<1> QED BY <1>1 DEF Executor!Next

LEMMA StepNone ==
  ASSUME InHand' = InHand, Ready' = Ready, journal' = journal, Calls' = Calls
  PROVE  UNCHANGED Executor!vars
BY Zenon DEF Executor!vars, InHand, Ready, Calls

(* What the threads hold together, when one of them holds an order or none *)
(* does.                                                                   *)
LEMMA OneHolds ==
  ASSUME NEW w, NEW s, NEW t \in Thread, NEW f \in Orders, w[t] = {f},
         \A u \in Thread : u # t => w[u] \cap Orders = {}
  PROVE  /\ UNION {w[u] \cap Orders : u \in Thread} = {f}
         /\ (\E u \in Thread : s[u] = "JOURNALED" /\ w[u] \cap Orders # {})
              <=> s[t] = "JOURNALED"
OBVIOUS

LEMMA NoneHolds ==
  ASSUME NEW w, NEW s, \A u \in Thread : w[u] \cap Orders = {}
  PROVE  /\ UNION {w[u] \cap Orders : u \in Thread} = {}
         /\ ~\E u \in Thread : s[u] = "JOURNALED" /\ w[u] \cap Orders # {}
OBVIOUS

(* Nothing happens to the executor when no thread takes up or puts down an *)
(* order, journals it or calls for it.                                     *)
LEMMA ExecutorRests ==
  ASSUME UNCHANGED <<journal, called>>,
         \A t \in Thread :
           \/ work'[t] = work[t] /\ step'[t] = step[t]
           \/ work'[t] = work[t] /\ step'[t] # "JOURNALED" /\ step[t] # "JOURNALED"
           \/ work[t] \cap Orders = {} /\ work'[t] \cap Orders = {}
  PROVE  UNCHANGED Executor!vars
<1>1. \A t \in Thread : work'[t] \cap Orders = work[t] \cap Orders OBVIOUS
<1>2. InHand' = InHand BY <1>1 DEF InHand
<1>3. \A t \in Thread : (step'[t] = "JOURNALED" /\ work'[t] \cap Orders # {})
                         <=> (step[t] = "JOURNALED" /\ work[t] \cap Orders # {})
  OBVIOUS
<1>4. Ready' = Ready BY <1>3 DEF Ready
<1>5. Calls' = Calls BY DEF Calls
<1> QED BY <1>2, <1>4, <1>5, StepNone

(* A thread takes up a file while nobody else has an order in hand, or it  *)
(* is a cancel.                                                            *)
LEMMA ExecutorTakes ==
  ASSUME TypeOK, NEW t \in Thread, NEW f \in Files, StartWork(t, f),
         step[t] \notin Executing, UNCHANGED <<journal, called>>,
         f \in Orders => \A u \in Thread : u # t => work[u] \cap Orders = {}
  PROVE  Executor!Next \/ UNCHANGED Executor!vars
<1>1. /\ \A u \in Thread : u # t => work'[u] = work[u] /\ step'[u] = step[u]
      /\ work'[t] = {f} /\ step'[t] = "READ"
      /\ work[t] = {}
  BY DEF StartWork, TypeOK, NoFile
<1>2. CASE f \in Orders
  <2>1. \A u \in Thread : work[u] \cap Orders = {} BY <1>1, <1>2
  <2>2. InHand = {} /\ Ready = FALSE BY <2>1, NoneHolds DEF InHand, Ready
  <2>3. \A u \in Thread : u # t => work'[u] \cap Orders = {} BY <1>1, <2>1
  <2>4. InHand' = {f} /\ Ready' = FALSE
    BY <1>1, <1>2, <2>3, OneHolds DEF InHand, Ready
  <2>5. Calls' = Calls BY DEF Calls
  <2> QED BY <1>2, <2>2, <2>4, <2>5, StepTake
<1>3. CASE f \notin Orders
  BY <1>1, <1>3, ExecutorRests
<1> QED BY <1>2, <1>3

(* A thread puts its file down. *)
LEMMA ExecutorPutsDown ==
  ASSUME TypeOK, Locking, SingleInstance, readFaults = 0,
         NEW t \in Thread, step[t] \in Executing, Back(t), UNCHANGED <<journal, called>>
  PROVE  Executor!Next \/ UNCHANGED Executor!vars
<1>1. /\ \A u \in Thread : u # t => work'[u] = work[u] /\ step'[u] = step[u]
      /\ work'[t] = {}
  BY DEF Back, TypeOK, NoFile
<1>2. PICK f \in Files : work[t] = {f} BY DEF TypeOK, NoFile
<1>3. CASE f \in Orders
  <2>1. \A u \in Thread : u # t => work[u] \cap Orders = {}
    BY <1>2, <1>3, SoleExecutor DEF TypeOK, NoFile
  <2>2. InHand = {f} BY <1>2, <1>3, <2>1, OneHolds DEF InHand
  <2>3. \A u \in Thread : work'[u] \cap Orders = {} BY <1>1, <2>1
  <2>4. InHand' = {} /\ Ready' = FALSE BY <2>3, NoneHolds DEF InHand, Ready
  <2>5. Calls' = Calls BY DEF Calls
  <2> QED BY <2>2, <2>4, <2>5, StepPutDown
<1>4. CASE f \notin Orders
  BY <1>1, <1>2, <1>4, ExecutorRests
<1> QED BY <1>3, <1>4

LEMMA ExecutorStep ==
  ASSUME IInv, [Next]_vars, SingleInstance, readFaults' = 0
  PROVE  Executor!Next \/ UNCHANGED Executor!vars
<1> USE ThreadsOfInstances DEF IInv, TypeOK, threadVars
<1>0. readFaults = 0
  BY DEF Next, Walk, Process, vars, Publish, BeginPoll, ListFolders, SkipPath, QueueForTick,
         TakePath, ReadFault, EndPoll, DrainTick, FileVanished, AnswerOnly, Pass,
         WriteJournal, BeginCall, EndCall, Retire, Restart, PollAborts
<1>1. ASSUME NEW t \in Thread,
             \/ BeginPoll(t) \/ ListFolders(t) \/ EndPoll(t) \/ PollAborts(t)
             \/ SkipPath(t) \/ QueueForTick(t) \/ AnswerOnly(t) \/ EndCall(t)
      PROVE  UNCHANGED Executor!vars
  <2>1. UNCHANGED <<journal, called, work>>
    BY <1>1 DEF BeginPoll, ListFolders, EndPoll, PollAborts, SkipPath, QueueForTick,
                AnswerOnly, EndCall, Proceed
  <2>2. \A u \in Thread :
          step'[u] = step[u] \/ (step'[u] # "JOURNALED" /\ step[u] # "JOURNALED")
    BY <1>1 DEF BeginPoll, ListFolders, EndPoll, PollAborts, SkipPath, QueueForTick,
                AnswerOnly, EndCall, Proceed
  <2> QED BY <2>1, <2>2, ExecutorRests
<1>2. ASSUME NEW t \in Thread, Pass(t) PROVE UNCHANGED Executor!vars
  <2>1. UNCHANGED <<journal, called, work>> BY <1>2 DEF Pass, Proceed
  <2>2. PICK f \in work[t] :
          \/ f \in Orders /\ step' = [step EXCEPT ![t] = "PASSED"]
          \/ f \in Cancels /\ step' = [step EXCEPT ![t] = "JOURNALED"]
    BY <1>2 DEF Pass, Proceed
  <2>3. work[t] = {f} /\ step[t] = "READ" BY <1>2, <2>2 DEF NoFile, Pass
  <2>4. \A u \in Thread : u # t => step'[u] = step[u] BY <2>2
  <2>5. \/ step'[t] # "JOURNALED" /\ step[t] # "JOURNALED"
        \/ work[t] \cap Orders = {}
    BY <2>2, <2>3, FilesAssumption
  <2> QED BY <2>1, <2>4, <2>5, ExecutorRests
<1>3. ASSUME NEW t \in Thread, WriteJournal(t) PROVE Executor!Next
  <2>1. /\ journal' = journal \cup work[t] /\ UNCHANGED <<called, work>>
        /\ step[t] = "PASSED" /\ step' = [step EXCEPT ![t] = "JOURNALED"]
    BY <1>3 DEF WriteJournal, Proceed
  <2>2. step[t] \in Executing BY <2>1 DEF Executing
  <2>3. PICK f \in Orders : work[t] = {f} BY <2>1, <2>2 DEF NoFile
  <2>4. \A u \in Thread : u # t => work[u] \cap Orders = {}
    BY <1>0, <2>2, <2>3, SoleExecutor DEF NoFile
  <2>5. f \notin journal BY <1>0, <2>1, <2>3 DEF Journalled
  <2>6. InHand = {f} BY <2>3, <2>4, OneHolds DEF InHand
  <2>7. InHand' = InHand BY <2>1 DEF InHand
  <2>8. step'[t] = "JOURNALED" BY <2>1
  <2>9. Ready' BY <2>1, <2>3, <2>8 DEF Ready
  <2>10. Calls' = Calls BY <2>1 DEF Calls
  <2> QED BY <2>1, <2>3, <2>5, <2>6, <2>7, <2>9, <2>10, StepJournal
<1>4. ASSUME NEW t \in Thread, BeginCall(t) PROVE Executor!Next \/ UNCHANGED Executor!vars
  <2>1. /\ called' = [f \in Files |-> IF f \in work[t] THEN called[f] + 1 ELSE called[f]]
        /\ UNCHANGED <<journal, work>>
        /\ step[t] = "JOURNALED" /\ step' = [step EXCEPT ![t] = "CALLING"]
    BY <1>4 DEF BeginCall, Proceed
  <2>2. step[t] \in Executing BY <2>1 DEF Executing
  <2>3. PICK f \in Files : work[t] = {f} BY <2>2 DEF NoFile
  <2>4. CASE f \in Orders
    <3>1. \A u \in Thread : u # t => work[u] \cap Orders = {}
      BY <1>0, <2>2, <2>3, <2>4, SoleExecutor DEF NoFile
    <3>2. f \in journal /\ called[f] = 0 BY <1>0, <2>1, <2>3, <2>4 DEF Journalled
    <3>3. InHand = {f} /\ Ready BY <2>1, <2>3, <2>4, <3>1, OneHolds DEF InHand, Ready
    <3>4. InHand' = InHand BY <2>1 DEF InHand
    <3>5. work'[t] = {f} /\ \A u \in Thread : u # t => work'[u] \cap Orders = {}
      BY <2>1, <2>3, <3>1
    <3>6. step'[t] # "JOURNALED" BY <2>1
    <3>7. Ready' = FALSE BY <2>4, <3>5, <3>6, OneHolds DEF Ready
    <3>8. Calls[f] = 0 BY <2>4, <3>2 DEF Calls
    <3>9. \A o \in Orders : called'[o] = IF o = f THEN 1 ELSE called[o]
      BY <2>1, <2>3, <3>2 DEF Files
    <3>10. Calls' = [Calls EXCEPT ![f] = 1] BY <3>9 DEF Calls
    <3> QED BY <2>1, <2>4, <3>2, <3>3, <3>4, <3>7, <3>8, <3>10, StepCall
  <2>5. CASE f \notin Orders
    <3>1. work[t] \cap Orders = {} /\ UNCHANGED InHand BY <2>1, <2>3, <2>5 DEF InHand
    <3>2. Ready' = Ready BY <2>1, <3>1 DEF Ready
    <3>3. Calls' = Calls BY <2>1, <2>3, <2>5 DEF Calls, Files
    <3> QED BY <2>1, <3>1, <3>2, <3>3, StepNone
  <2> QED BY <2>4, <2>5
<1>5. ASSUME NEW t \in Thread, FileVanished(t) \/ Retire(t)
      PROVE  Executor!Next \/ UNCHANGED Executor!vars
  <2>1. Back(t) /\ UNCHANGED <<journal, called>> /\ step[t] \in Executing
    BY <1>5 DEF FileVanished, Retire, Executing
  <2> QED BY <1>0, <2>1, ExecutorPutsDown
<1>6. ASSUME NEW t \in Thread, TakePath(t) PROVE Executor!Next \/ UNCHANGED Executor!vars
  <2>1. PICK p \in paths[t] : ~ForTick(p) /\ StartWork(t, p.file) BY <1>6 DEF TakePath
  <2>2. p.file \in Files BY DEF Path
  <2>3. step[t] = "WALK" /\ UNCHANGED <<journal, called>> BY <1>6 DEF TakePath
  <2>4. ASSUME p.file \in Orders, NEW u \in Thread, u # t PROVE work[u] = NoFile
    <3>1. mode = "TIMER_DISPATCH" BY <2>1, <2>4 DEF ForTick
    <3>2. Instance(u) = Instance(t) BY DEF SingleInstance
    <3>3. pollLock[Instance(t)] = t BY <2>3 DEF Locking, Polling
    <3>4. ~InPoll(u) /\ ~InTick(u) BY <2>4, <3>1, <3>2, <3>3 DEF InPoll, InTick
    <3> QED BY <3>4 DEF Locking, Serial
  <2> QED BY <2>1, <2>2, <2>3, <2>4, ExecutorTakes DEF Executing, NoFile
<1>7. ASSUME NEW i \in Instances, DrainTick(i) PROVE Executor!Next \/ UNCHANGED Executor!vars
  <2> DEFINE t == Client(i)
  <2>1. t \in Thread /\ Instance(t) = i OBVIOUS
  <2>2. step[t] = "IDLE" /\ mode = "TICK_DISPATCH" /\ UNCHANGED <<journal, called>>
    BY <1>7 DEF DrainTick
  <2>3. PICK f \in pending[i] : StartWork(t, f) \/ UNCHANGED <<work, step>>
    BY <1>7 DEF DrainTick
  <2>4. ASSUME NEW u \in Thread, u # t PROVE work[u] \cap Orders = {}
    <3>1. CASE step[u] \notin Executing BY <3>1 DEF NoFile
    <3>2. CASE step[u] \in Executing
      <4>1. Instance(u) = i BY DEF SingleInstance
      <4>2. ~InTick(u) BY <2>4, <4>1 DEF InTick
      <4> QED BY <1>0, <2>2, <3>2, <4>2 DEF Locking, Serial, InPoll
    <3> QED BY <3>1, <3>2
  <2>5. f \in Files /\ step[t] \notin Executing BY <2>2 DEF Files, Executing
  <2> HIDE DEF t
  <2>6. CASE UNCHANGED <<work, step>> BY <2>2, <2>6, ExecutorRests
  <2>7. CASE StartWork(t, f) BY <2>1, <2>2, <2>4, <2>5, <2>7, ExecutorTakes
  <2> QED BY <2>3, <2>6, <2>7
<1>8. ASSUME NEW i \in Instances, Restart(i) PROVE Executor!Next \/ UNCHANGED Executor!vars
  <2>1. \A u \in Thread : Instance(u) = i BY DEF SingleInstance
  <2>2. UNCHANGED <<journal, called>> BY <1>8 DEF Restart
  <2>3. \A u \in Thread : work'[u] \cap Orders = {} BY <1>8, <2>1 DEF Restart, NoFile
  <2>4. InHand' = {} /\ Ready' = FALSE BY <2>3, NoneHolds DEF InHand, Ready
  <2>5. Calls' = Calls BY <2>2 DEF Calls
  <2>6. CASE InHand # {} BY <2>2, <2>4, <2>5, <2>6, StepPutDown
  <2>7. CASE InHand = {}
    <3>1. \A u \in Thread : work[u] \cap Orders = {} BY <2>7 DEF InHand
    <3> QED BY <2>2, <2>3, <3>1, ExecutorRests
  <2> QED BY <2>6, <2>7
<1>9. ASSUME NEW t \in Thread, ReadFault(t) PROVE FALSE
  BY <1>9, <1>0 DEF ReadFault
<1>10. ASSUME NEW f \in Files, Publish(f) PROVE UNCHANGED Executor!vars
  BY <1>10, ExecutorRests DEF Publish
<1>11. CASE UNCHANGED vars
  BY <1>11, ExecutorRests DEF vars
<1> QED
  BY <1>1, <1>2, <1>3, <1>4, <1>5, <1>6, <1>7, <1>8, <1>9, <1>10, <1>11
  DEF Next, Walk, Process

LEMMA ExecutorInit == Init => Executor!Init
<1> SUFFICES ASSUME Init PROVE Executor!Init
  OBVIOUS
<1>1. \A t \in Thread : work[t] \cap Orders = {} BY DEF Init, NoFile
<1>2. InHand = {} /\ Ready = FALSE BY <1>1, NoneHolds DEF InHand, Ready
<1>3. Calls = [o \in Orders |-> 0] BY DEF Init, Calls, Files
<1> QED BY <1>2, <1>3 DEF Init, Executor!Init, InHand, Ready, Calls

(* Alone on its folders and while every read of a file succeeds, an        *)
(* instance is one OrderExecutor, for any number of polling threads, in    *)
(* both dispatch modes, and over any kills and aborted polls.              *)
THEOREM Refinement == Spec => ImplementsOrderExecutor
<1>1. IInv /\ [Next]_vars
        => [SingleInstance /\ readFaults' = 0 => Executor!Next]_(Executor!vars)
  BY ExecutorStep
<1> QED BY <1>1, ExecutorInit, Inductive, PTL DEF Spec, ImplementsOrderExecutor

-----------------------------------------------------------------------------
(* What an execution keeps meanwhile.                                      *)

KeepsFile ==
  SingleInstance /\ readFaults = 0 =>
    \A t \in Thread : \A f \in work[t] \cap Orders : place[f] = "CLAIMED"

LEMMA KeepsFileStep == IInv /\ KeepsFile /\ [Next]_vars => KeepsFile'
<1> SUFFICES ASSUME IInv, KeepsFile, [Next]_vars, SingleInstance, readFaults' = 0,
                    NEW t \in Thread, NEW f \in work'[t] \cap Orders
             PROVE  place'[f] = "CLAIMED"
  BY DEF KeepsFile, SingleInstance
<1> USE ThreadsOfInstances DEF IInv, TypeOK, threadVars
<1>0. readFaults = 0
  BY DEF Next, Walk, Process, vars, Publish, BeginPoll, ListFolders, SkipPath, QueueForTick,
         TakePath, ReadFault, EndPoll, DrainTick, FileVanished, AnswerOnly, Pass,
         WriteJournal, BeginCall, EndCall, Retire, Restart, PollAborts
<1>1. \A u \in Thread : \A g \in work[u] \cap Orders : g \in Files /\ place[g] = "CLAIMED"
  BY <1>0 DEF KeepsFile, Files
<1>2. CASE UNCHANGED <<place, work>> BY <1>1, <1>2
<1>3. ASSUME NEW g \in Files, Publish(g) PROVE place'[f] = "CLAIMED"
  BY <1>1, <1>3 DEF Publish
<1>4. ASSUME NEW u \in Thread, QueueForTick(u) PROVE place'[f] = "CLAIMED"
  BY <1>1, <1>4 DEF QueueForTick, Claim
<1>5. ASSUME NEW u \in Thread, TakePath(u) PROVE place'[f] = "CLAIMED"
  <2>1. PICK p \in paths[u] : Claim(p) /\ StartWork(u, p.file) BY <1>5 DEF TakePath
  <2>2. p.file \in Files BY DEF Path
  <2>3. f \in work[t] \/ f = p.file BY <2>1 DEF StartWork
  <2> QED BY <1>1, <2>1, <2>2, <2>3 DEF Claim
<1>6. ASSUME NEW i \in Instances, DrainTick(i) PROVE place'[f] = "CLAIMED"
  <2>1. f \in work[t] \/ place[f] = "CLAIMED" BY <1>6 DEF DrainTick, StartWork
  <2> QED BY <1>1, <1>6, <2>1 DEF DrainTick
<1>7. ASSUME NEW u \in Thread, FileVanished(u) PROVE place'[f] = "CLAIMED"
  <2>1. f \in work[t] /\ place' = place BY <1>7 DEF FileVanished, Back, NoFile
  <2> QED BY <1>1, <2>1
<1>8. ASSUME NEW u \in Thread, Retire(u) PROVE place'[f] = "CLAIMED"
  <2>1. /\ work' = [work EXCEPT ![u] = NoFile] /\ step[u] = "DONE"
        /\ place' = [g \in Files |-> IF g \in work[u] THEN "RETIRED" ELSE place[g]]
    BY <1>8 DEF Retire, Back
  <2>2. u # t /\ f \in work[t] /\ step[t] \in Executing BY <2>1 DEF NoFile
  <2>3. f \notin work[u]
    BY <1>0, <2>1, <2>2, SoleExecutor DEF Executing
  <2> QED BY <1>1, <2>1, <2>2, <2>3
<1>9. ASSUME NEW i \in Instances, Restart(i) PROVE place'[f] = "CLAIMED"
  <2>1. f \in work[t] /\ place' = place BY <1>9 DEF Restart, NoFile
  <2> QED BY <1>1, <2>1
<1>10. ASSUME NEW u \in Thread,
              \/ BeginPoll(u) \/ ListFolders(u) \/ EndPoll(u) \/ PollAborts(u) \/ SkipPath(u)
              \/ AnswerOnly(u) \/ Pass(u) \/ WriteJournal(u) \/ BeginCall(u) \/ EndCall(u)
       PROVE  UNCHANGED <<place, work>>
  BY <1>10 DEF BeginPoll, ListFolders, EndPoll, PollAborts, SkipPath, AnswerOnly, Pass,
               WriteJournal, BeginCall, EndCall, Proceed
<1>11. ASSUME NEW u \in Thread, ReadFault(u) PROVE FALSE
  BY <1>11, <1>0 DEF ReadFault
<1>12. CASE UNCHANGED vars BY <1>2, <1>12 DEF vars
<1> QED
  BY <1>2, <1>3, <1>4, <1>5, <1>6, <1>7, <1>8, <1>9, <1>10, <1>11, <1>12
  DEF Next, Walk, Process

(* An order that is being executed keeps its claimed file until the        *)
(* executor itself retires it: a pending entry queued twice, a listing made*)
(* before the claim, or a poll during a tick never retires it under the    *)
(* executor (OrderPipeline relies on this).                                *)
THEOREM ExecutionKeepsFile == Spec => []KeepsFile
<1>1. Init => KeepsFile BY DEF Init, KeepsFile, NoFile
<1> QED BY <1>1, KeepsFileStep, Inductive, PTL DEF Spec

LockHeld ==
  \A i \in Instances : pollLock[i] # NoThread =>
    Instance(pollLock[i]) = i /\ step[pollLock[i]] # "IDLE"

LEMMA LockHeldStep == TypeOK /\ LockHeld /\ [Next]_vars => LockHeld'
<1> SUFFICES ASSUME TypeOK, LockHeld, [Next]_vars PROVE LockHeld'
  OBVIOUS
<1> USE ThreadsOfInstances DEF TypeOK, threadVars
<1>1. CASE UNCHANGED <<pollLock, step>> BY <1>1 DEF LockHeld
<1>2. ASSUME NEW t \in Thread, BeginPoll(t) PROVE LockHeld'
  BY <1>2 DEF BeginPoll, LockHeld
<1>3. ASSUME NEW t \in Thread, EndPoll(t) \/ PollAborts(t) PROVE LockHeld'
  BY <1>3 DEF EndPoll, PollAborts, LockHeld
<1>4. ASSUME NEW t \in Thread, NEW to \in {"WALK"} \cup Executing,
             step' = [step EXCEPT ![t] = to], pollLock' = pollLock
      PROVE  LockHeld'
  BY <1>4 DEF LockHeld, Executing
<1>5. ASSUME NEW t \in Thread, Back(t), pollLock' = pollLock PROVE LockHeld'
  BY <1>5 DEF Back, LockHeld
<1>6. ASSUME NEW i \in Instances, DrainTick(i) PROVE LockHeld'
  <2>1. Client(i) \in Thread OBVIOUS
  <2>2. pollLock' = pollLock /\ (UNCHANGED step \/ step' = [step EXCEPT ![Client(i)] = "READ"])
    BY <1>6 DEF DrainTick, StartWork
  <2>3. "READ" \in {"WALK"} \cup Executing BY DEF Executing
  <2> QED BY <1>1, <1>4, <2>1, <2>2, <2>3
<1>7. ASSUME NEW i \in Instances, Restart(i) PROVE LockHeld'
  BY <1>7 DEF Restart, LockHeld
<1>8. ASSUME NEW t \in Thread, ListFolders(t) \/ TakePath(t) \/ ReadFault(t)
                               \/ AnswerOnly(t) \/ Pass(t) \/ WriteJournal(t)
                               \/ BeginCall(t) \/ EndCall(t)
      PROVE  LockHeld'
  <2>1. pollLock' = pollLock
        /\ \E to \in {"WALK"} \cup Executing : step' = [step EXCEPT ![t] = to]
    BY <1>8 DEF ListFolders, TakePath, ReadFault, AnswerOnly, Pass, WriteJournal, BeginCall,
                EndCall, Proceed, StartWork, Executing
  <2> QED BY <1>4, <2>1
<1>9. ASSUME NEW t \in Thread, FileVanished(t) \/ Retire(t) PROVE LockHeld'
  BY <1>5, <1>9 DEF FileVanished, Retire
<1>10. ASSUME NEW t \in Thread, SkipPath(t) \/ QueueForTick(t) PROVE LockHeld'
  BY <1>1, <1>10 DEF SkipPath, QueueForTick
<1>11. ASSUME NEW f \in Files, Publish(f) PROVE LockHeld'
  BY <1>1, <1>11 DEF Publish
<1>12. CASE UNCHANGED vars BY <1>1, <1>12 DEF vars
<1> QED
  BY <1>2, <1>3, <1>6, <1>7, <1>8, <1>9, <1>10, <1>11, <1>12 DEF Next, Walk, Process

(* The poll lock of an instance is held by one of its own threads that is  *)
(* still in poll_commands or executes for it: neither an aborted poll nor a*)
(* file that is gone nor a kill leaves a lock nobody gives back.           *)
THEOREM LockNeverLost == Spec => []LockHeld
<1>1. Init => LockHeld BY DEF Init, LockHeld
<1> QED BY <1>1, LockHeldStep, TypeCorrect, PTL DEF Spec

=============================================================================
