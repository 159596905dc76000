------------------------- MODULE TradeProtection_proofs -------------------------
(***************************************************************************)
(* Proofs about TradeProtection, for any number of RPC threads, grants,    *)
(* commands and faults. Inv is inductive. Its part Fenced says where a     *)
(* permit of before a restart of the Worker may still be found: in the     *)
(* authorization file, and only until the startup has removed it.          *)
(***************************************************************************)
EXTENDS TradeProtection, TLAPS

(* A halted Adapter lets no further opening pass: one may be on its way.   *)
Late ==
  /\ lateOpenings <= 1
  /\ ~haltFile => lateOpenings = 0
  /\ (\E c \in checked : c.opens) => lateOpenings = 0

(* Permits of after the Worker's last startup.                             *)
Fenced ==
  /\ epoch <= generation
  /\ worker # "DOWN" => \A p \in live : p.generation > epoch
  /\ \A a \in Actors : pending[a].type = "PERMIT" => pending[a].generation > epoch
  /\ pending[Main].type \in {"IDLE", "NONE"}
  /\ worker = "STARTING" =>
       /\ pending[Main].type = "NONE"
       /\ \A a \in Threads \cup {Loop} : pending[a].type = "IDLE"
  /\ worker \in {"UP", "STOPPING"} /\ authorization.type = "PERMIT" =>
       authorization.generation > epoch

(* While the console ends a halt nothing can be granted, and from when it  *)
(* has removed the authorization file only stale grants are written there. *)
Clearing ==
  /\ console \in {"CLEARED", "CLEAR_SYNC", "UNHALT"} =>
       mode = "OBSERVE_ONLY" /\ live = {} /\ window = 0
  /\ console \in {"CLEAR_SYNC", "UNHALT"} =>
       authorization.type \in {"NONE", "PAUSE"} \/ authorizationMark # "CURRENT"
  /\ console = "BIND_LOCKED" => haltFile

(* A grant whose file is owed is still backed when nobody else committed a *)
(* transaction on the grants since.                                        *)
GrantsStand ==
  \A a \in Actors \ overtaken : pending[a].type \in Grants => Backed(pending[a])

(* While a pause holds the database nothing unbacked is written as current.*)
PauseWrote ==
  pausing # {} =>
    authorization.type \notin Grants \/ authorizationMark # "CURRENT" \/ Backed(authorization)

Inv ==
  TypeOK /\ LivePermitIsNewest /\ HaltReachesAdapter /\ OnlyGrantedOpenings
         /\ Late /\ Fenced /\ Clearing /\ GrantsStand /\ PauseWrote

\* Who calls the operations that the console offers too.
Callers == Threads \cup {Console}

USE ActorAssumption, BoundAssumption, OrderAssumption
USE DEF owed, Commit

-----------------------------------------------------------------------------
(* What changes the database, and what an operation may owe.               *)

LEMMA CallersAct == Callers \subseteq Actors
BY DEF Callers, Actors

LEMMA DatabaseSteps ==
  ASSUME Next
  PROVE  \/ \E t \in Threads : \/ AuthorizeAuto(t) \/ ResumeAuto(t) \/ PauseCommits(t)
                              \/ RevokeAuto(t) \/ RevokeManual(t)
                              \/ \E c \in Orders : Submit(t, c)
         \/ \E a \in Callers : AuthorizeManual(a) \/ Halt(a)
         \/ TimePasses \/ ManualEnds \/ \E g \in 1..MaxGeneration : PermitExpires(g)
         \/ Start \/ Stop
         \/ SetMode \/ ClearHalt \/ EnableFirstTrade \/ BindSetup \/ BindChange
         \/ UNCHANGED database
<1>1. ASSUME NEW a \in Actors, WriteFile(a) PROVE UNCHANGED database
  BY <1>1 DEF WriteFile, WriteAuthorization, WriteHalt, WriteFails
<1>2. CASE WorkerKilled \/ Exit \/ FailClosed \/ RefreshLease \/ LeaseExpires
  BY <1>2 DEF WorkerKilled, Exit, FailClosed, RefreshLease, LeaseExpires
<1>3. ASSUME NEW m \in Modes, RemoveForMode(m) PROVE UNCHANGED database
  BY <1>3 DEF RemoveForMode
<1>4. CASE SetModeRefused \/ SyncMode \/ ClearRemoves \/ ClearSyncs \/ ClearUnhalts
  BY <1>4 DEF SetModeRefused, SyncMode, ClearRemoves, ClearSyncs, ClearUnhalts
<1>5. CASE BindLocks \/ BindFiles \/ SignProfile \/ ConsoleKilled
  BY <1>5 DEF BindLocks, BindFiles, SignProfile, ConsoleKilled
<1>6. CASE Execute \/ AdapterRestart
  BY <1>6 DEF Execute, Check, Drop, CallOrder, AdapterRestart
<1>7. ASSUME NEW t \in Threads, PauseFile(t) \/ PauseFails(t) PROVE UNCHANGED database
  BY <1>7 DEF PauseFile, PauseFails
<1> QED BY <1>1, <1>2, <1>3, <1>4, <1>5, <1>6, <1>7
        DEF Next, Around, Operate, Process, Pass, Administer, Callers

LEMMA FileSteps ==
  ASSUME Next
  PROVE  \/ \E t \in Threads : PauseFile(t)
         \/ \E a \in Actors : WriteAuthorization(a) \/ WriteHalt(a)
         \/ FailClosed \/ Pass
         \/ \E m \in Modes : RemoveForMode(m)
         \/ SyncMode \/ ClearRemoves \/ ClearSyncs \/ ClearUnhalts \/ EnableFirstTrade
         \/ BindLocks \/ BindFiles \/ SignProfile
         \/ UNCHANGED files
<1>1. ASSUME NEW t \in Threads,
             \/ AuthorizeAuto(t) \/ ResumeAuto(t) \/ RevokeAuto(t)
             \/ PauseCommits(t) \/ PauseFails(t) \/ RevokeManual(t)
             \/ \E c \in Orders : Submit(t, c)
      PROVE  UNCHANGED files
  BY <1>1 DEF AuthorizeAuto, ResumeAuto, RevokeAuto, PauseCommits, PauseFails, RevokeManual, Submit
<1>2. CASE Start \/ Stop \/ WorkerKilled \/ Exit \/ RefreshLease
  BY <1>2 DEF Start, Stop, WorkerKilled, Exit, RefreshLease
<1>3. ASSUME NEW a \in Actors, WriteFails(a) PROVE UNCHANGED files
  BY <1>3 DEF WriteFails
<1>4. CASE SetMode \/ SetModeRefused \/ ClearHalt \/ BindSetup \/ BindChange \/ ConsoleKilled
  BY <1>4 DEF SetMode, SetModeRefused, ClearHalt, BindSetup, BindChange, ConsoleKilled
<1>5. CASE Execute \/ AdapterRestart
  BY <1>5 DEF Execute, Check, Drop, CallOrder, AdapterRestart
<1>6. ASSUME NEW a, AuthorizeManual(a) \/ Halt(a) PROVE UNCHANGED files
  BY <1>6 DEF AuthorizeManual, Halt
<1> QED BY <1>1, <1>2, <1>3, <1>4, <1>5, <1>6 DEF Next, Around, Operate, Process, WriteFile, Administer

LEMMA WritesAreTyped ==
  /\ \A type \in {"IDLE", "HALT", "NONE", "LEASE"} : Plain(type) \in Writes
  /\ \A type \in {"NONE", "LEASE"} : Plain(type) \in Authorizations
  /\ \A g \in 0..MaxGeneration : Permit(g) \in Writes
  /\ \A n \in 1..MaxTerm : Manual(n) \in Writes
BY DEF Plain, Permit, Manual, Writes, Authorizations

LEMMA PlainTypes ==
  ASSUME NEW type
  PROVE  Plain(type).type = type
BY DEF Plain

LEMMA PermitTypes ==
  ASSUME NEW g
  PROVE  Permit(g).type = "PERMIT" /\ Permit(g).generation = g
BY DEF Permit

LEMMA ManualTypes ==
  ASSUME NEW n
  PROVE  Manual(n).type = "MANUAL" /\ Manual(n).term = n
BY DEF Manual

(* What the end of a permit leaves of a file, written or owed.             *)
LEMMA ExpirySteps ==
  ASSUME TypeOK, NEW g \in 1..MaxGeneration, PermitExpires(g)
  PROVE  /\ live' = {p \in live : p.generation # g}
         /\ \/ authorization' = authorization /\ UNCHANGED authorizationMark
            \/ authorization' = authorization /\ authorizationMark' = "CURRENT" /\ authorization.type = "NONE"
            \/ authorization' = Plain("NONE") /\ authorizationMark' = "CURRENT"
         /\ authorization.type = "PERMIT" /\ authorization' = authorization
              => authorization.generation # g
         /\ pending' \in [Actors -> Writes]
         /\ \A a \in Actors :
              \/ pending'[a] = pending[a] /\ (pending[a].type = "PERMIT" => pending[a].generation # g)
              \/ pending'[a] = Plain("NONE") /\ pending[a].type \in {"PERMIT", "PAUSE"}
         /\ UNCHANGED <<mode, halted, kind, generation, manual, window>>
         /\ UNCHANGED <<haltFile, diskMode, verified, bound, worker, pausing, overtaken, consoleVars,
                        adapterVars, epoch, lateOpenings, haltMark, faults>>
<1> DEFINE E(w) == IF w.type \in {"PERMIT", "PAUSE"} /\ w.generation = g THEN Plain("NONE") ELSE w
<1>1. /\ live' = {p \in live : p.generation # g}
      /\ Fades(E(authorization)) /\ pending' = [a \in Actors |-> E(pending[a])]
      /\ UNCHANGED <<mode, halted, kind, generation, manual, window>>
  BY DEF PermitExpires
<1>2. E(authorization) = Plain("NONE") \/ (E(authorization) = authorization /\
         (authorization.type = "PERMIT" => authorization.generation # g))
  OBVIOUS
<1>3. Plain("NONE").type = "NONE" /\ Plain("NONE") \in Writes BY DEF Plain, Writes, Authorizations
<1>4. \A a \in Actors : pending'[a] = E(pending[a]) BY <1>1
<1>5. pending' \in [Actors -> Writes] BY <1>1, <1>3 DEF TypeOK, ActorsOK
<1>6. authorization' = E(authorization) BY <1>1 DEF Fades
<1>7. authorizationMark' = IF E(authorization).type = "NONE" THEN "CURRENT" ELSE authorizationMark
  BY <1>1 DEF Fades
<1>8. UNCHANGED <<haltFile, diskMode, verified, bound, worker, pausing, overtaken, consoleVars,
                  adapterVars, epoch, lateOpenings, haltMark, faults>>
  BY <1>1 DEF Fades
<1>9. authorization.type = "PERMIT" /\ authorization' = authorization => authorization.generation # g
  BY <1>3, <1>6
<1> HIDE DEF E
<1>10. \/ authorization' = authorization /\ UNCHANGED authorizationMark
       \/ authorization' = authorization /\ authorizationMark' = "CURRENT" /\ authorization.type = "NONE"
       \/ authorization' = Plain("NONE") /\ authorizationMark' = "CURRENT"
  BY <1>2, <1>3, <1>6, <1>7
<1>11. ASSUME NEW a \in Actors
       PROVE  \/ pending'[a] = pending[a] /\ (pending[a].type = "PERMIT" => pending[a].generation # g)
              \/ pending'[a] = Plain("NONE") /\ pending[a].type \in {"PERMIT", "PAUSE"}
  BY <1>4 DEF E
<1> QED BY <1>1, <1>5, <1>8, <1>9, <1>10, <1>11

(* What the passing of time leaves.                                        *)
LEMMA AgedIs ==
  ASSUME NEW w \in Writes
  PROVE  /\ Aged(w) \in Writes
         /\ w \in Authorizations => Aged(w) \in Authorizations
         /\ w.type # "MANUAL" => Aged(w) = w
         /\ w.type = "MANUAL" => \/ w.term = 1 /\ Aged(w) = Plain("NONE")
                                 \/ w.term > 1 /\ Aged(w) = Manual(w.term - 1)
<1>1. CASE w.type = "MANUAL"
  <2>1. w \in [type : {"MANUAL"}, term : 1..MaxTerm] /\ w.term \in 1..MaxTerm
    BY <1>1 DEF Writes, Authorizations
  <2>2. CASE w.term = 1
    <3>1. Aged(w) = Plain("NONE") BY <1>1, <2>2 DEF Aged
    <3> QED BY <1>1, <2>2, <3>1 DEF Plain, Writes, Authorizations
  <2>3. CASE w.term > 1
    <3>1. Aged(w) = Manual(w.term - 1) BY <1>1, <2>1, <2>3 DEF Aged
    <3>2. w.term - 1 \in 1..MaxTerm BY <2>1, <2>3
    <3> QED BY <1>1, <2>3, <3>1, <3>2 DEF Manual, Writes, Authorizations
  <2> QED BY <2>1, <2>2, <2>3
<1>2. CASE w.type # "MANUAL"
  BY <1>2 DEF Aged
<1> QED BY <1>1, <1>2

LEMMA AuthorizationsAreWrites == Authorizations \subseteq Writes
BY DEF Writes

LEMMA PassingSteps ==
  ASSUME TypeOK, TimePasses
  PROVE  /\ window' = IF window > 0 THEN window - 1 ELSE 0
         /\ authorization' = Aged(authorization)
         /\ authorizationMark' = IF Aged(authorization).type = "NONE" THEN "CURRENT" ELSE authorizationMark
         /\ pending' \in [Actors -> Writes]
         /\ \A a \in Actors : pending'[a] = Aged(pending[a])
         /\ UNCHANGED <<mode, halted, kind, generation, live, manual>>
         /\ UNCHANGED <<haltFile, diskMode, verified, bound, worker, pausing, overtaken, consoleVars,
                        adapterVars, epoch, lateOpenings, haltMark, faults>>
BY AgedIs DEF TimePasses, Fades, TypeOK, ActorsOK

(* What is written or owed keeps its type or ends as NONE.                 *)
LEMMA AgedTypes ==
  ASSUME NEW w \in Writes
  PROVE  Aged(w) = w \/ (w.type = "MANUAL" /\ Aged(w).type \in {"MANUAL", "NONE"})
BY AgedIs, PlainTypes, ManualTypes

(* What is written to the authorization file is one of its contents.       *)
LEMMA WrittenIsTyped ==
  ASSUME NEW w \in Writes, w.type \notin {"IDLE", "HALT"}
  PROVE  w \in Authorizations
BY DEF Writes, Authorizations

LEMMA Owed ==
  ASSUME TypeOK, NEW a \in Actors, NEW w \in Writes, Owe(a, w)
  PROVE  /\ pending' \in [Actors -> Writes] /\ pending'[a] = w
         /\ \A b \in Actors \ {a} : pending'[b] = pending[b]
BY DEF TypeOK, ActorsOK, Owe

LEMMA Abandoned ==
  ASSUME TypeOK, NEW A, Abandon(A)
  PROVE  /\ pending' \in [Actors -> Writes]
         /\ pausing' = pausing \ A /\ overtaken' = overtaken \ A
         /\ authorizationMark' \in {"CURRENT", "OVERTAKEN", "PAUSED_OVER", "LEFT", "LOST"}
         /\ haltMark' \in {"CURRENT", "CLEARED_OVER", "LOST"}
         /\ \A a \in Actors : pending'[a] = IF a \in A THEN Plain("IDLE") ELSE pending[a]
BY WritesAreTyped DEF TypeOK, ActorsOK, HistoryOK, Abandon

-----------------------------------------------------------------------------
(* The types.                                                              *)

LEMMA WithdrawnTypes ==
  ASSUME TypeOK, WithdrawAll
  PROVE  /\ generation' \in 0..MaxGeneration
         /\ live' \subseteq [generation : 0..MaxGeneration, status : {"ACTIVE", "PAUSED"}]
         /\ manual' \in BOOLEAN /\ window' \in 0..MaxTerm
<1>1. generation' \in 0..MaxGeneration
  BY DEF TypeOK, DatabaseOK, WithdrawAll, NextGeneration
<1>2. live' = {} /\ window' = 0 BY DEF WithdrawAll
<1>3. manual' \in BOOLEAN BY Zenon DEF WithdrawAll
<1> QED BY <1>1, <1>2, <1>3

LEMMA DatabaseTypes ==
  ASSUME TypeOK, Next
  PROVE  DatabaseOK'
<1> USE DEF TypeOK, DatabaseOK, NextGeneration, Modes
<1>1. ASSUME NEW t \in Threads, AuthorizeAuto(t) PROVE DatabaseOK'
  BY <1>1 DEF AuthorizeAuto
<1>2. ASSUME NEW t \in Threads, ResumeAuto(t) PROVE DatabaseOK'
  BY <1>2 DEF ResumeAuto, PausedPermits
<1>3. ASSUME NEW t \in Threads, PauseCommits(t) PROVE DatabaseOK'
  <2>1. live' \subseteq [generation : 0..MaxGeneration, status : {"ACTIVE", "PAUSED"}]
    <3>1. \A p \in ActivePermits :
            [p EXCEPT !.status = "PAUSED"] \in [generation : 0..MaxGeneration, status : {"ACTIVE", "PAUSED"}]
      BY DEF ActivePermits
    <3> QED BY <1>3, <3>1 DEF PauseCommits
  <2> QED BY <1>3, <2>1 DEF PauseCommits
<1>4. ASSUME NEW t \in Threads, RevokeAuto(t) PROVE DatabaseOK'
  <2>1. live' \subseteq live BY <1>4 DEF RevokeAuto
  <2> QED BY <1>4, <2>1 DEF RevokeAuto
<1>5. ASSUME NEW a, AuthorizeManual(a) \/ RevokeManual(a) PROVE DatabaseOK'
  <2>1. manual' \in BOOLEAN BY <1>5, Zenon DEF AuthorizeManual, RevokeManual
  <2>2. window' \in 0..MaxTerm BY <1>5 DEF AuthorizeManual, RevokeManual
  <2> QED BY <1>5, <2>1, <2>2 DEF AuthorizeManual, RevokeManual
<1>6. ASSUME NEW a, Halt(a) PROVE DatabaseOK'
  BY <1>6, WithdrawnTypes DEF Halt, Protect
<1>7. ASSUME NEW t \in Threads, NEW c \in Orders, Submit(t, c) PROVE DatabaseOK'
  BY <1>7 DEF Submit
<1>8. CASE Start \/ Stop \/ SetMode
  BY <1>8, WithdrawnTypes DEF Start, Stop, SetMode, ActorsOK
<1>9. CASE TimePasses \/ ManualEnds \/ \E g \in 1..MaxGeneration : PermitExpires(g)
  <2>1. CASE TimePasses
    <3>1. window' \in 0..MaxTerm BY <2>1, PassingSteps
    <3> QED BY <2>1, <3>1, PassingSteps
  <2>2. CASE ManualEnds
    <3>1. manual' \in BOOLEAN BY <2>2, Zenon DEF ManualEnds
    <3> QED BY <2>2, <3>1 DEF ManualEnds
  <2>3. ASSUME NEW g \in 1..MaxGeneration, PermitExpires(g) PROVE DatabaseOK'
    BY <2>3, ExpirySteps
  <2> QED BY <1>9, <2>1, <2>2, <2>3
<1>10. CASE ClearHalt \/ EnableFirstTrade \/ BindSetup
  BY <1>10, WithdrawnTypes DEF ClearHalt, EnableFirstTrade, BindSetup, ClearRows, database
<1>11. CASE BindChange
  BY <1>11, WithdrawnTypes DEF BindChange, Protect
<1>12. CASE UNCHANGED database
  BY <1>12 DEF database
<1> QED BY DatabaseSteps, <1>1, <1>2, <1>3, <1>4, <1>5, <1>6, <1>7, <1>8, <1>9, <1>10, <1>11, <1>12

LEMMA FileTypes ==
  ASSUME TypeOK, Next
  PROVE  FilesOK'
<1> USE DEF TypeOK, FilesOK, ActorsOK
<1>1. ASSUME NEW t \in Threads, PauseFile(t) PROVE FilesOK'
  <2>1. authorization' \in Authorizations
    BY <1>1 DEF PauseFile, ActivePermits, DatabaseOK, Authorizations
  <2> QED BY <1>1, <2>1 DEF PauseFile
<1>2. ASSUME NEW a \in Actors, WriteAuthorization(a) \/ WriteHalt(a) PROVE FilesOK'
  BY <1>2, WrittenIsTyped DEF WriteAuthorization, WriteHalt
<1>3. CASE FailClosed
  BY <1>3 DEF FailClosed
<1>4. CASE Pass
  <2>1. CASE TimePasses
    BY <2>1, PassingSteps, AgedIs, AuthorizationsAreWrites
  <2>2. CASE LeaseExpires \/ ManualEnds
    BY <2>2, WritesAreTyped DEF LeaseExpires, ManualEnds, Fades, files
  <2>3. ASSUME NEW g \in 1..MaxGeneration, PermitExpires(g) PROVE FilesOK'
    BY <2>3, ExpirySteps, WritesAreTyped
  <2> QED BY <1>4, <2>1, <2>2, <2>3 DEF Pass
<1>5. ASSUME NEW m \in Modes, RemoveForMode(m) PROVE FilesOK'
  BY <1>5, WritesAreTyped DEF RemoveForMode
<1>6. CASE SyncMode \/ ClearSyncs \/ BindFiles \/ SignProfile
  BY <1>6 DEF SyncMode, ClearSyncs, BindFiles, SignProfile, Modes
<1>7. CASE ClearRemoves \/ ClearUnhalts \/ BindLocks
  BY <1>7, WritesAreTyped DEF ClearRemoves, ClearUnhalts, BindLocks
<1>8. CASE EnableFirstTrade
  BY <1>8, WritesAreTyped DEF EnableFirstTrade, Modes
<1>9. CASE UNCHANGED files
  BY <1>9 DEF files
<1> QED BY FileSteps, <1>1, <1>2, <1>3, <1>4, <1>5, <1>6, <1>7, <1>8, <1>9

(* Who owes what, in the steps of each part.                               *)
LEMMA OvertakenTypes ==
  ASSUME TypeOK, NEW a, Overtakes(a)
  PROVE  overtaken' \subseteq Actors
BY DEF TypeOK, ActorsOK, Overtakes

LEMMA OperateActors ==
  ASSUME TypeOK, NEW t \in Threads, Operate(t)
  PROVE  ActorsOK'
<1> t \in Actors /\ Console \in Actors /\ t # Console BY DEF Actors
<1> USE DEF Idle
<1>1. CASE PauseFile(t) \/ PauseFails(t) \/ \E c \in Orders : Submit(t, c)
  BY <1>1 DEF PauseFile, PauseFails, Submit, Serving, TypeOK, ActorsOK, consoleVars
<1>2. CASE PauseCommits(t)
  BY <1>2, OvertakenTypes DEF PauseCommits, TypeOK, ActorsOK, consoleVars
<1>3. CASE ~(PauseFile(t) \/ PauseFails(t) \/ PauseCommits(t) \/ \E c \in Orders : Submit(t, c))
  <2>1. PICK w \in Writes : Owe(t, w)
    <3>1. generation' \in 0..MaxGeneration BY DatabaseTypes DEF Next, Around, DatabaseOK
    <3> QED BY <1>3, <3>1, WritesAreTyped
            DEF Operate, AuthorizeAuto, ResumeAuto, RevokeAuto, AuthorizeManual, RevokeManual,
                Halt, Protect
  <2>2. Serving(t) /\ UNCHANGED <<worker, console, target>> /\ Overtakes(t) /\ pausing' = {}
    BY <1>3 DEF Operate, AuthorizeAuto, ResumeAuto, RevokeAuto, AuthorizeManual, RevokeManual,
                Halt, Protect, Calls, consoleVars
  <2>3. pending' \in [Actors -> Writes] /\ pending'[Console] = pending[Console]
    BY <2>1, Owed
  <2>4. overtaken' \subseteq Actors BY <2>2, OvertakenTypes
  <2>5. worker # "DOWN" BY <2>2 DEF Serving
  <2> QED BY <2>2, <2>3, <2>4, <2>5 DEF TypeOK, ActorsOK
<1> QED BY <1>1, <1>2, <1>3

LEMMA ProcessActors ==
  ASSUME TypeOK, Process
  PROVE  ActorsOK'
<1> USE DEF TypeOK, ActorsOK, Idle, Serving, consoleVars
<1> Loop \in Actors /\ Main \in Actors /\ Loop # Console /\ Main # Console /\ Console \in Actors
  BY DEF Actors
<1>1. CASE Start \/ Stop
  BY <1>1, Owed, OvertakenTypes, WritesAreTyped DEF Start, Stop
<1>2. CASE WorkerKilled
  <2>1. pausing' = {}
    <3>1. pausing' = pausing \ (Actors \ {Console}) BY <1>2, Abandoned DEF WorkerKilled
    <3>2. pausing \subseteq Actors \ {Console} BY DEF Actors
    <3> QED BY <3>1, <3>2
  <2> QED BY <1>2, <2>1, Abandoned, PlainTypes DEF WorkerKilled
<1>3. CASE Exit
  <2>1. pausing' = {} BY <1>3, Abandoned DEF Exit
  <2> QED BY <1>3, <2>1, Abandoned, PlainTypes DEF Exit, Actors
<1>4. CASE RefreshLease
  <2>1. /\ pending' \in [Actors -> Writes]
        /\ \A b \in Actors \ {Loop} : pending'[b] = pending[b]
    BY <1>4, Owed, WritesAreTyped DEF RefreshLease
  <2>2. pausing' \subseteq {t \in Threads : pending'[t].type = "IDLE"}
    BY <1>4, <2>1 DEF RefreshLease, Actors
  <2>3. pending'[Console] = pending[Console] BY <2>1
  <2> QED BY <1>4, <2>1, <2>2, <2>3 DEF RefreshLease
<1>5. CASE FailClosed
  BY <1>5 DEF FailClosed
<1> QED BY <1>1, <1>2, <1>3, <1>4, <1>5 DEF Process

LEMMA PassActors ==
  ASSUME TypeOK, Pass
  PROVE  ActorsOK'
<1> USE DEF TypeOK, ActorsOK, Idle, consoleVars
<1> Console \in Actors BY DEF Actors
<1>1. CASE LeaseExpires \/ ManualEnds
  BY <1>1 DEF LeaseExpires, ManualEnds, Fades
<1>2. ASSUME pending' \in [Actors -> Writes], UNCHANGED <<worker, pausing, overtaken, consoleVars>>,
             \A a \in Actors : \/ pending'[a] = pending[a]
                               \/ pending[a].type \notin {"IDLE", "HALT"} /\ pending'[a].type \in {"MANUAL", "NONE"}
      PROVE  ActorsOK'
  <2>1. pausing' \subseteq {t \in Threads : pending'[t].type = "IDLE"}
    BY <1>2 DEF Actors
  <2>2. worker' = "DOWN" => \A a \in Actors \ {Console} : pending'[a].type = "IDLE"
    BY <1>2
  <2>3. pending'[Console].type \in CASE console = "BIND_PROTECT" -> {"HALT"}
                                     [] console = "CORE" -> {"HALT", "MANUAL", "NONE"}
                                     [] OTHER -> {"IDLE"}
    <3>1. CASE pending'[Console] = pending[Console] BY <3>1
    <3>2. CASE pending[Console].type \notin {"IDLE", "HALT"} /\ pending'[Console].type \in {"MANUAL", "NONE"}
      <4>1. console = "CORE" /\ console # "BIND_PROTECT" BY <3>2
      <4> QED BY <3>2, <4>1
    <3> QED BY <1>2, <3>1, <3>2
  <2> QED BY <1>2, <2>1, <2>2, <2>3
<1>3. CASE TimePasses
  BY <1>2, <1>3, PassingSteps, AgedTypes
<1>4. ASSUME NEW g \in 1..MaxGeneration, PermitExpires(g) PROVE ActorsOK'
  BY <1>2, <1>4, ExpirySteps, PlainTypes
<1> QED BY <1>1, <1>3, <1>4 DEF Pass

LEMMA WriteActors ==
  ASSUME TypeOK, Fenced, NEW a \in Actors, WriteFile(a)
  PROVE  ActorsOK'
<1> USE DEF TypeOK, ActorsOK, Idle
<1> Console \in Actors /\ Main # Console BY DEF Actors
<1> Threads \subseteq Actors /\ Console \notin Threads BY DEF Actors
<1>1. /\ pending' \in [Actors -> Writes] /\ pending'[a].type = "IDLE"
      /\ \A b \in Actors \ {a} : pending'[b] = pending[b]
      /\ pausing' \subseteq pausing /\ overtaken' \subseteq overtaken /\ target' = target
  <2>1. CASE WriteAuthorization(a) \/ WriteHalt(a)
    BY <2>1, Owed, WritesAreTyped, PlainTypes DEF WriteAuthorization, WriteHalt, AfterWrite
  <2>2. CASE WriteFails(a)
    BY <2>2, Abandoned, PlainTypes DEF WriteFails
  <2> QED BY <2>1, <2>2 DEF WriteFile
<1>2. pausing' \subseteq {t \in Threads : pending'[t].type = "IDLE"}
  BY <1>1
<1>3. /\ worker' \in {"DOWN", "STARTING", "UP", "STOPPING"}
      /\ worker' = "DOWN" => worker = "DOWN" \/ (worker = "STARTING" /\ a = Main)
      /\ worker' = "STARTING" => worker = "STARTING"
  <2>1. CASE WriteAuthorization(a) \/ WriteHalt(a)
    <3>1. worker' = IF a = Main /\ worker = "STARTING" THEN "UP" ELSE worker
      BY <2>1 DEF WriteAuthorization, WriteHalt, AfterWrite
    <3> QED BY <3>1
  <2>2. CASE WriteFails(a)
    <3>1. worker' = IF a = Main /\ worker = "STARTING" THEN "DOWN" ELSE worker
      BY <2>2 DEF WriteFails
    <3> QED BY <3>1
  <2> QED BY <2>1, <2>2 DEF WriteFile
<1>4. worker' = "DOWN" => pausing' = {} /\ \A b \in Actors \ {Console} : pending'[b].type = "IDLE"
  <2>1. CASE worker = "DOWN" BY <1>1, <2>1
  <2>2. CASE worker = "STARTING" /\ a = Main
    <3>1. \A b \in Threads \cup {Loop} : pending[b].type = "IDLE" BY <2>2 DEF Fenced
    <3>2. pausing' = {} BY <1>1, <2>2
    <3> QED BY <1>1, <2>2, <3>1, <3>2 DEF Actors
  <2> QED BY <1>3, <2>1, <2>2
<1>5. CASE a = Console
  <2>1. console' \in {"BIND_FILES", "IDLE"}
    <3>1. pending[Console].type # "IDLE"
      BY <1>5 DEF WriteFile, WriteAuthorization, WriteHalt, WriteFails
    <3>2. console \in {"BIND_PROTECT", "CORE"} BY <3>1
    <3>3. CASE WriteFails(a)
      BY <1>5, <3>3 DEF WriteFails
    <3>4. CASE WriteAuthorization(a) \/ WriteHalt(a)
      BY <1>5, <3>2, <3>4 DEF WriteAuthorization, WriteHalt, AfterWrite
    <3> QED BY <3>3, <3>4 DEF WriteFile
  <2> QED BY <1>1, <1>2, <1>3, <1>4, <1>5, <2>1
<1>6. CASE a # Console
  <2>1. console' = console
    <3>1. CASE WriteFails(a)
      BY <1>6, <3>1 DEF WriteFails
    <3>2. CASE WriteAuthorization(a) \/ WriteHalt(a)
      BY <1>6, <3>2 DEF WriteAuthorization, WriteHalt, AfterWrite
    <3> QED BY <3>1, <3>2 DEF WriteFile
  <2>2. pending'[Console] = pending[Console] BY <1>1, <1>6
  <2> QED BY <1>1, <1>2, <1>3, <1>4, <2>1, <2>2
<1> QED BY <1>5, <1>6

LEMMA AdministerActors ==
  ASSUME TypeOK, Administer
  PROVE  ActorsOK'
<1> USE DEF TypeOK, ActorsOK, Idle, ConsoleIdle
<1> Console \in Actors /\ Console \notin Threads BY DEF Actors
<1>1. ASSUME NEW m \in Modes, RemoveForMode(m) PROVE ActorsOK'
  BY <1>1 DEF RemoveForMode
<1>2. CASE SetMode \/ SetModeRefused \/ SyncMode
  BY <1>2, OvertakenTypes DEF SetMode, SetModeRefused, SyncMode, Modes
<1>3. CASE ClearHalt \/ ClearRemoves \/ ClearSyncs \/ ClearUnhalts \/ EnableFirstTrade
  BY <1>3, OvertakenTypes
     DEF ClearHalt, ClearRows, ClearRemoves, ClearSyncs, ClearUnhalts, EnableFirstTrade, consoleVars
<1>4. CASE BindLocks \/ BindSetup \/ BindFiles \/ SignProfile
  BY <1>4, OvertakenTypes DEF BindLocks, BindSetup, BindFiles, SignProfile, consoleVars
<1>5. CASE BindChange
  BY <1>5, Owed, OvertakenTypes, WritesAreTyped, PlainTypes DEF BindChange, Protect
<1>6. CASE ConsoleKilled
  <2>1. /\ pending' \in [Actors -> Writes] /\ pending'[Console].type = "IDLE"
        /\ \A b \in Actors \ {Console} : pending'[b] = pending[b]
        /\ pausing' \subseteq pausing /\ overtaken' \subseteq overtaken
    BY <1>6, Abandoned, PlainTypes DEF ConsoleKilled
  <2>2. pausing' \subseteq {t \in Threads : pending'[t].type = "IDLE"}
    BY <2>1 DEF Actors
  <2> QED BY <1>6, <2>1, <2>2 DEF ConsoleKilled, Modes
<1>7. CASE Halt(Console) \/ AuthorizeManual(Console)
  <2>1. PICK w \in Writes : Owe(Console, w) /\ w.type \in {"HALT", "MANUAL"}
    BY <1>7, WritesAreTyped, PlainTypes, ManualTypes DEF Halt, Protect, AuthorizeManual
  <2>2. console' = "CORE" /\ UNCHANGED <<worker, target>> /\ Overtakes(Console) /\ pausing' = {}
    BY <1>7 DEF Halt, Protect, AuthorizeManual, Calls, Serving, Actors
  <2>3. /\ pending' \in [Actors -> Writes] /\ pending'[Console].type \in {"HALT", "MANUAL"}
        /\ \A b \in Actors \ {Console} : pending'[b] = pending[b]
    BY <2>1, Owed
  <2>4. overtaken' \subseteq Actors BY <2>2, OvertakenTypes
  <2> QED BY <2>2, <2>3, <2>4
<1> QED BY <1>1, <1>2, <1>3, <1>4, <1>5, <1>6, <1>7 DEF Administer

LEMMA ActorTypes ==
  ASSUME TypeOK, Fenced, Next
  PROVE  ActorsOK'
<1>1. CASE Execute \/ AdapterRestart
  BY <1>1 DEF TypeOK, ActorsOK, Idle, Execute, Check, Drop, CallOrder, AdapterRestart, consoleVars
<1> QED BY <1>1, OperateActors, ProcessActors, PassActors, WriteActors, AdministerActors DEF Next, Around

LEMMA AdapterTypes ==
  ASSUME TypeOK, Next
  PROVE  AdapterOK'
<1>1. CASE UNCHANGED adapterVars
  BY <1>1 DEF TypeOK, AdapterOK, adapterVars
<1>2. ASSUME NEW t \in Threads, NEW c \in Orders, Submit(t, c) PROVE AdapterOK'
  BY <1>2 DEF TypeOK, AdapterOK, Submit
<1>3. CASE Execute \/ AdapterRestart
  BY <1>3 DEF TypeOK, AdapterOK, FilesOK, Execute, Check, Drop, CallOrder, AdapterRestart
<1>4. ASSUME ~(\E t \in Threads, c \in Orders : Submit(t, c)), ~Execute, ~AdapterRestart
      PROVE  UNCHANGED adapterVars
  <2>1. ASSUME NEW t \in Threads, Operate(t) PROVE UNCHANGED adapterVars
    BY <2>1, <1>4 DEF Operate, AuthorizeAuto, ResumeAuto, PauseFile, PauseCommits, PauseFails,
                      RevokeAuto, AuthorizeManual, RevokeManual, Halt
  <2>2. CASE Process
    BY <2>2 DEF Process, Start, Stop, WorkerKilled, Exit, FailClosed, RefreshLease
  <2>5. CASE Pass
    BY <2>5 DEF Pass, TimePasses, PermitExpires, LeaseExpires, ManualEnds, Fades
  <2>3. ASSUME NEW a \in Actors, WriteFile(a) PROVE UNCHANGED adapterVars
    BY <2>3 DEF WriteFile, WriteAuthorization, WriteHalt, WriteFails
  <2>4. CASE Administer
    BY <2>4 DEF Administer, RemoveForMode, SetMode, SetModeRefused, SyncMode, ClearHalt,
                ClearRemoves, ClearSyncs, ClearUnhalts, EnableFirstTrade, BindLocks, BindSetup,
                BindChange, BindFiles, SignProfile, ConsoleKilled, Halt, AuthorizeManual
  <2> QED BY <1>4, <2>1, <2>2, <2>3, <2>4, <2>5 DEF Next, Around
<1> QED BY <1>1, <1>2, <1>3, <1>4

LEMMA HistoryTypes ==
  ASSUME TypeOK, Next
  PROVE  HistoryOK'
<1> USE DEF TypeOK, HistoryOK, history
<1>1. ASSUME NEW t \in Threads, Operate(t) PROVE HistoryOK'
  <2>1. CASE PauseFile(t) \/ PauseCommits(t) \/ PauseFails(t)
    BY <2>1 DEF PauseFile, PauseCommits, PauseFails
  <2>2. CASE UNCHANGED history
    BY <2>2
  <2> QED BY <1>1, <2>1, <2>2 DEF Operate, AuthorizeAuto, ResumeAuto, RevokeAuto,
                                  AuthorizeManual, RevokeManual, Halt, Submit
<1>2. CASE Start
  BY <1>2 DEF Start, WithdrawAll, NextGeneration, DatabaseOK
<1>3. CASE Stop
  BY <1>3 DEF Stop
<1>12. CASE FailClosed
  BY <1>12 DEF FailClosed
<1>13. CASE RefreshLease
  BY <1>13 DEF RefreshLease
<1>14. CASE Pass
  <2>1. CASE LeaseExpires \/ ManualEnds
    BY <2>1 DEF LeaseExpires, ManualEnds, Fades
  <2> QED BY <1>14, <2>1, PassingSteps, ExpirySteps DEF Pass
<1>15. CASE Halt(Console) \/ AuthorizeManual(Console)
  BY <1>15 DEF Halt, AuthorizeManual
<1>4. CASE WorkerKilled \/ Exit \/ ConsoleKilled
  BY <1>4, Abandoned DEF WorkerKilled, Exit, ConsoleKilled
<1>5. ASSUME NEW a \in Actors, WriteAuthorization(a) \/ WriteHalt(a) PROVE HistoryOK'
  BY <1>5 DEF WriteAuthorization, WriteHalt
<1>6. ASSUME NEW a \in Actors, WriteFails(a) PROVE HistoryOK'
  BY <1>6, Abandoned DEF WriteFails
<1>7. ASSUME NEW m \in Modes, RemoveForMode(m) PROVE HistoryOK'
  BY <1>7 DEF RemoveForMode
<1>8. CASE SetMode \/ SetModeRefused \/ SyncMode \/ ClearHalt \/ ClearRemoves \/ ClearSyncs
  BY <1>8 DEF SetMode, SetModeRefused, SyncMode, ClearHalt, ClearRemoves, ClearSyncs
<1>9. CASE ClearUnhalts \/ EnableFirstTrade
  BY <1>9 DEF ClearUnhalts, EnableFirstTrade
<1>10. CASE BindLocks \/ BindSetup \/ BindChange \/ BindFiles \/ SignProfile
  BY <1>10 DEF BindLocks, BindSetup, BindChange, BindFiles, SignProfile
<1>11. CASE Execute \/ AdapterRestart
  BY <1>11 DEF Execute, Check, Drop, CallOrder, AdapterRestart
<1> QED BY <1>1, <1>2, <1>3, <1>4, <1>5, <1>6, <1>7, <1>8, <1>9, <1>10, <1>11,
        <1>12, <1>13, <1>14, <1>15 DEF Next, Around, Process, WriteFile, Administer

LEMMA TypeStep ==
  ASSUME TypeOK, Fenced, Next
  PROVE  TypeOK'
BY DatabaseTypes, FileTypes, ActorTypes, AdapterTypes, HistoryTypes DEF TypeOK

-----------------------------------------------------------------------------
(* One permit in force, of the newest generation.                          *)

LEMMA NewestStep ==
  ASSUME TypeOK, LivePermitIsNewest, Next
  PROVE  LivePermitIsNewest'
<1> USE DEF LivePermitIsNewest, WithdrawAll
<1>1. ASSUME NEW t \in Threads, AuthorizeAuto(t) PROVE LivePermitIsNewest'
  BY <1>1 DEF AuthorizeAuto
<1>2. ASSUME NEW t \in Threads, ResumeAuto(t) PROVE LivePermitIsNewest'
  BY <1>2 DEF ResumeAuto, PausedPermits
<1>3. ASSUME NEW t \in Threads, PauseCommits(t) PROVE LivePermitIsNewest'
  <2>1. live' = (live \ ActivePermits) \cup {[p EXCEPT !.status = "PAUSED"] : p \in ActivePermits}
        /\ UNCHANGED generation
    BY <1>3 DEF PauseCommits
  <2>2. CASE ActivePermits = {}
    BY <2>1, <2>2
  <2>3. ASSUME NEW p \in ActivePermits PROVE LivePermitIsNewest'
    <3>1. p \in live /\ ActivePermits = {p} /\ live = {p} BY <2>3 DEF ActivePermits
    <3>2. live' = {[p EXCEPT !.status = "PAUSED"]} BY <2>1, <3>1
    <3>3. [p EXCEPT !.status = "PAUSED"].generation = generation BY <3>1 DEF TypeOK, DatabaseOK
    <3> QED BY <2>1, <3>2, <3>3
  <2> QED BY <2>2, <2>3
<1>4. ASSUME NEW t \in Threads, RevokeAuto(t) PROVE LivePermitIsNewest'
  <2>1. live' = {} BY <1>4 DEF RevokeAuto
  <2> QED BY <2>1
<1>5. ASSUME NEW a, AuthorizeManual(a) \/ RevokeManual(a) PROVE LivePermitIsNewest'
  BY <1>5 DEF AuthorizeManual, RevokeManual
<1>6. ASSUME NEW t, Halt(t) \/ \E c \in Orders : Submit(t, c)
      PROVE  LivePermitIsNewest'
  BY <1>6 DEF Halt, Protect, Submit
<1>7. CASE Start \/ Stop \/ SetMode \/ ClearHalt \/ BindChange
  BY <1>7 DEF Start, Stop, SetMode, ClearHalt, ClearRows, BindChange, Protect
<1>8. CASE TimePasses \/ ManualEnds \/ \E g \in 1..MaxGeneration : PermitExpires(g)
  BY <1>8, PassingSteps, ExpirySteps DEF ManualEnds
<1>9. CASE EnableFirstTrade \/ BindSetup
  BY <1>9 DEF EnableFirstTrade, ClearRows, BindSetup, database
<1>10. CASE UNCHANGED database
  BY <1>10 DEF database
<1> QED BY DatabaseSteps, <1>1, <1>2, <1>3, <1>4, <1>5, <1>6, <1>7, <1>8, <1>9, <1>10

-----------------------------------------------------------------------------
(* The halt on its way to the Adapter.                                     *)

\* A write owed stays owed, and the halt file is as it was.
HaltKept ==
  /\ haltFile' = haltFile /\ haltMark' = haltMark
  /\ \A a \in Actors : pending[a].type = "HALT" => pending'[a].type = "HALT"

LEMMA HaltKeptSuffices ==
  ASSUME HaltReachesAdapter, HaltKept, halted' => halted
  PROVE  HaltReachesAdapter'
BY DEF HaltReachesAdapter, HaltKept

(* An actor that owes something new owed nothing before.                   *)
LEMMA OweKeepsHalts ==
  ASSUME TypeOK, NEW a \in Actors, Idle(a), NEW w \in Writes, Owe(a, w)
  PROVE  \A b \in Actors : pending[b].type = "HALT" => pending'[b].type = "HALT"
BY Owed DEF Idle

LEMMA HaltStep ==
  ASSUME TypeOK, Fenced, HaltReachesAdapter, Next
  PROVE  HaltReachesAdapter'
<1> USE DEF files, history
<1> Loop \in Actors /\ Main \in Actors /\ Console \in Actors /\ Main # Console
  BY DEF Actors
<1> generation' \in 0..MaxGeneration BY DatabaseTypes DEF DatabaseOK
<1>1. ASSUME NEW t \in Callers, AuthorizeAuto(t) \/ ResumeAuto(t) \/ RevokeAuto(t)
                                 \/ AuthorizeManual(t) \/ RevokeManual(t)
      PROVE  HaltReachesAdapter'
  <2>1. t \in Actors /\ Idle(t) /\ \E w \in Writes : Owe(t, w)
    BY <1>1, WritesAreTyped, CallersAct DEF Serving, Calls, ConsoleIdle, AuthorizeAuto, ResumeAuto,
                                            RevokeAuto, AuthorizeManual, RevokeManual
  <2>2. HaltKept /\ halted' = halted
    BY <1>1, <2>1, OweKeepsHalts DEF HaltKept, AuthorizeAuto, ResumeAuto, RevokeAuto,
                                     AuthorizeManual, RevokeManual
  <2> QED BY <2>2, HaltKeptSuffices
<1>2. ASSUME NEW t \in Threads, \/ PauseFile(t) \/ PauseCommits(t) \/ PauseFails(t)
                                \/ \E c \in Orders : Submit(t, c)
      PROVE  HaltReachesAdapter'
  <2>1. HaltKept /\ halted' = halted
    BY <1>2 DEF PauseFile, PauseCommits, PauseFails, Submit, HaltKept, database
  <2> QED BY <2>1, HaltKeptSuffices
<1>3. ASSUME NEW a \in Actors, NEW k, Protect(a, k) PROVE HaltReachesAdapter'
  <2>1. pending'[a].type = "HALT"
    BY <1>3, Owed, WritesAreTyped, PlainTypes DEF Protect
  <2> QED BY <2>1 DEF HaltReachesAdapter
<1>4. CASE Start
  <2>1. Idle(Main) BY <1>4 DEF Start, Idle, TypeOK, ActorsOK
  <2>2. HaltKept /\ halted' = halted
    BY <1>4, <2>1, OweKeepsHalts, WritesAreTyped DEF HaltKept, Start
  <2> QED BY <2>2, HaltKeptSuffices
<1>5. CASE Stop
  <2>1. pending[Main].type # "HALT" BY DEF Fenced
  <2>2. Plain("NONE") \in Writes /\ Owe(Main, Plain("NONE")) BY <1>5, WritesAreTyped DEF Stop
  <2>3. \A b \in Actors \ {Main} : pending'[b] = pending[b] BY <2>2, Owed
  <2>4. UNCHANGED <<halted, haltFile, haltMark>> BY <1>5 DEF Stop
  <2>5. HaltKept BY <2>1, <2>3, <2>4 DEF HaltKept
  <2> QED BY <2>4, <2>5, HaltKeptSuffices
<1>6. CASE RefreshLease
  <2>1. HaltKept /\ halted' = halted
    BY <1>6, OweKeepsHalts, WritesAreTyped DEF HaltKept, RefreshLease, Serving, database
  <2> QED BY <2>1, HaltKeptSuffices
<1>7. ASSUME NEW A, Abandon(A), UNCHANGED <<halted, haltFile>> PROVE HaltReachesAdapter'
  BY <1>7, Abandoned DEF Abandon, HaltReachesAdapter
<1>8. ASSUME NEW a \in Actors, WriteAuthorization(a) PROVE HaltReachesAdapter'
  <2>1. HaltKept /\ halted' = halted
    BY <1>8, Owed, WritesAreTyped DEF HaltKept, WriteAuthorization, AfterWrite, database
  <2> QED BY <2>1, HaltKeptSuffices
<1>9. CASE haltFile'
  BY <1>9 DEF HaltReachesAdapter
<1>10. CASE ~halted'
  BY <1>10 DEF HaltReachesAdapter
<1>11. CASE ClearUnhalts
  BY <1>11 DEF ClearUnhalts, HaltReachesAdapter, database
<1>18. CASE Pass
  <2>1. CASE LeaseExpires \/ ManualEnds
    <3>1. HaltKept /\ halted' = halted BY <2>1 DEF HaltKept, LeaseExpires, ManualEnds, Fades, database
    <3> QED BY <3>1, HaltKeptSuffices
  <2>2. ASSUME UNCHANGED <<haltFile, haltMark, halted>>,
               \A a \in Actors : pending'[a] = pending[a] \/ pending[a].type # "HALT"
        PROVE  HaltReachesAdapter'
    BY <2>2, HaltKeptSuffices DEF HaltKept
  <2>3. CASE TimePasses
    BY <2>2, <2>3, PassingSteps, AgedTypes DEF TypeOK, ActorsOK
  <2>4. ASSUME NEW g \in 1..MaxGeneration, PermitExpires(g) PROVE HaltReachesAdapter'
    BY <2>2, <2>4, ExpirySteps
  <2> QED BY <1>18, <2>1, <2>3, <2>4 DEF Pass
<1>12. CASE \/ \E m \in Modes : RemoveForMode(m)
           \/ SetMode \/ SetModeRefused \/ SyncMode \/ ClearRemoves \/ ClearSyncs
           \/ BindFiles \/ SignProfile \/ Execute \/ AdapterRestart
  <2>1. HaltKept /\ halted' = halted
    BY <1>12 DEF HaltKept, database, RemoveForMode, SetMode, SetModeRefused, SyncMode,
             ClearRemoves, ClearSyncs, BindFiles, SignProfile, Execute, Check, Drop, CallOrder,
             AdapterRestart
  <2> QED BY <2>1, HaltKeptSuffices
<1>13. CASE EnableFirstTrade
  BY <1>13 DEF EnableFirstTrade, FirstTradeReady, ClearRows, HaltReachesAdapter, database
<1>14. ASSUME NEW t \in Threads, Operate(t) PROVE HaltReachesAdapter'
  BY <1>14, <1>1, <1>2, <1>3 DEF Operate, Halt, Actors, Callers
<1>15. CASE Process
  BY <1>15, <1>4, <1>5, <1>6, <1>7, <1>9, <1>12 DEF Process, WorkerKilled, Exit, FailClosed, database
<1>16. ASSUME NEW a \in Actors, WriteFile(a) PROVE HaltReachesAdapter'
  BY <1>16, <1>7, <1>8, <1>9 DEF WriteFile, WriteHalt, WriteFails, database
<1>17. CASE Administer
  BY <1>17, <1>1, <1>3, <1>7, <1>9, <1>10, <1>11, <1>12, <1>13
     DEF Administer, Halt, Callers, ClearHalt, ClearRows, BindLocks, BindSetup, BindChange, ConsoleKilled, database
<1> QED BY <1>12, <1>14, <1>15, <1>16, <1>17, <1>18 DEF Next, Around

-----------------------------------------------------------------------------
(* Openings of a halted Adapter.                                           *)

LEMMA LateStep ==
  ASSUME TypeOK, Late, Next
  PROVE  Late'
<1> USE DEF Late, TypeOK, FilesOK, AdapterOK, HistoryOK
<1>1. CASE UNCHANGED <<haltFile, lateOpenings, checked>>
  BY <1>1
<1>2. CASE haltFile' /\ UNCHANGED <<lateOpenings, checked>>
  BY <1>2
<1>3. CASE lateOpenings' = 0 
  BY <1>3
<1>4. ASSUME NEW c \in Commands, Check(c) PROVE Late'
  BY <1>4 DEF Check, PassesFinalRisk, files, history
<1>5. ASSUME NEW c \in Commands, CallOrder(c) PROVE Late'
  BY <1>5 DEF CallOrder, files
<1>6. CASE AdapterRestart
  BY <1>6 DEF AdapterRestart, files, history
<1>7. ASSUME NEW t \in Threads, Operate(t) PROVE Late'
  BY <1>7, <1>1 DEF Operate, AuthorizeAuto, ResumeAuto, PauseFile, PauseCommits, PauseFails,
                    RevokeAuto, AuthorizeManual, RevokeManual, Halt, Submit, files, history, adapterVars
<1>8. CASE Process
  <2>1. CASE FailClosed
    BY <2>1, <1>2 DEF FailClosed, adapterVars
  <2>2. CASE ~FailClosed
    BY <1>8, <2>2, <1>1 DEF Process, Start, Stop, WorkerKilled, Exit, RefreshLease,
                            files, history, adapterVars
  <2> QED BY <2>1, <2>2
<1>9. ASSUME NEW a \in Actors, WriteFile(a) PROVE Late'
  BY <1>9, <1>1, <1>2 DEF WriteFile, WriteAuthorization, WriteHalt, WriteFails, files, adapterVars
<1>10. CASE ClearUnhalts \/ EnableFirstTrade
  BY <1>10, <1>3 DEF ClearUnhalts, EnableFirstTrade
<1>11. CASE BindLocks
  BY <1>11, <1>2 DEF BindLocks, adapterVars
<1>14. CASE Pass
  BY <1>14, <1>1 DEF Pass, TimePasses, PermitExpires, LeaseExpires, ManualEnds, Fades, files, history,
                     adapterVars
<1>12. CASE Administer /\ ~ClearUnhalts /\ ~EnableFirstTrade /\ ~BindLocks
  BY <1>12, <1>1 DEF Administer, RemoveForMode, SetMode, SetModeRefused, SyncMode, ClearHalt,
       ClearRemoves, ClearSyncs, BindSetup, BindChange, BindFiles, SignProfile, ConsoleKilled,
       Halt, AuthorizeManual, files, history, adapterVars
<1>13. ASSUME NEW c \in Commands, Drop(c) PROVE Late'
  BY <1>13 DEF Drop, files, history
<1> QED BY <1>4, <1>5, <1>6, <1>7, <1>8, <1>9, <1>10, <1>11, <1>12, <1>13, <1>14
        DEF Next, Around, Execute

-----------------------------------------------------------------------------
(* Permits of before a restart.                                            *)

\* What Fenced needs of a step that is no restart and writes no file.
LEMMA FenceKept ==
  ASSUME TypeOK, Fenced, UNCHANGED <<worker, pending, epoch>>,
         generation' \in Nat, generation' >= generation,
         \A p \in live' : p \in live \/ p.generation > epoch,
         authorization' = authorization \/ authorization'.type # "PERMIT"
  PROVE  Fenced'
BY DEF TypeOK, DatabaseOK, HistoryOK, Fenced

LEMMA GrantFenced ==
  ASSUME TypeOK, Fenced, NEW t \in Callers, Serving(t) \/ t = Console,
         NEW w \in Writes, Owe(t, w), w.type = "PERMIT" => w.generation > epoch,
         UNCHANGED <<worker, epoch, authorization>>, generation' \in Nat, generation' >= generation,
         \A p \in live' : p \in live \/ p.generation > epoch
  PROVE  Fenced'
<1> t \in Actors /\ t # Main BY DEF Actors, Callers
<1>1. pending'[t] = w /\ \A b \in Actors \ {t} : pending'[b] = pending[b] BY Owed
<1>2. worker \in {"UP", "STOPPING"} \/ t \notin Threads \cup {Loop} BY DEF Serving
<1>3. Main \in Actors /\ Threads \cup {Loop} \subseteq Actors BY DEF Actors
<1> QED BY <1>1, <1>2, <1>3 DEF Fenced, TypeOK, DatabaseOK, HistoryOK

LEMMA FencedStep ==
  ASSUME TypeOK, Fenced, Next
  PROVE  Fenced'
<1> USE DEF files, history, NextGeneration, WithdrawAll
<1> Loop \in Actors /\ Main \in Actors /\ Console \in Actors /\ Main # Console
  BY DEF Actors
<1> generation' \in 0..MaxGeneration /\ generation \in 0..MaxGeneration /\ epoch \in 0..MaxGeneration
  BY DatabaseTypes DEF DatabaseOK, TypeOK, HistoryOK
<1>a. generation' >= generation
  <2>5. ASSUME NEW a, Halt(a) PROVE generation' >= generation
    BY <2>5 DEF Halt, Protect
  <2>1. ASSUME NEW t \in Threads, Operate(t) PROVE generation' >= generation
    <3>1. CASE AuthorizeAuto(t) \/ ResumeAuto(t) \/ RevokeAuto(t)
      BY <3>1 DEF AuthorizeAuto, ResumeAuto, RevokeAuto
    <3>2. CASE Halt(t)
      BY <2>5, <3>2
    <3>3. CASE UNCHANGED generation
      BY <3>3
    <3> QED BY <2>1, <3>1, <3>2, <3>3
            DEF Operate, PauseFile, PauseCommits, PauseFails, AuthorizeManual, RevokeManual, Submit, database
  <2>2. CASE Start \/ Stop \/ SetMode
    BY <2>2 DEF Start, Stop, SetMode
  <2>3. CASE ClearRows \/ BindChange
    BY <2>3 DEF ClearRows, BindChange, Protect
  <2>4. CASE UNCHANGED generation
    BY <2>4
  <2>6. CASE TimePasses \/ ManualEnds \/ \E g \in 1..MaxGeneration : PermitExpires(g)
    BY <2>4, <2>6, PassingSteps, ExpirySteps DEF ManualEnds
  <2>7. ASSUME NEW a, AuthorizeManual(a) PROVE generation' >= generation
    BY <2>4, <2>7 DEF AuthorizeManual
  <2> QED BY DatabaseSteps, <2>1, <2>2, <2>3, <2>4, <2>5, <2>6, <2>7
             DEF Operate, ClearHalt, EnableFirstTrade, BindSetup, database
<1>b. epoch <= generation /\ epoch <= generation' BY <1>a DEF Fenced
<1>1. ASSUME NEW t \in Threads, AuthorizeAuto(t) \/ ResumeAuto(t) PROVE Fenced'
  <2>1. generation' > epoch BY <1>1, <1>b DEF AuthorizeAuto, ResumeAuto
  <2>2. Permit(generation') \in Writes /\ Permit(generation').generation > epoch
    BY <2>1, WritesAreTyped, PermitTypes
  <2>3. \A p \in live' : p \in live \/ p.generation > epoch
    BY <1>1, <2>1 DEF AuthorizeAuto, ResumeAuto
  <2> QED BY <1>1, <1>a, <2>2, <2>3, GrantFenced DEF AuthorizeAuto, ResumeAuto, Callers
<1>2. ASSUME NEW t \in Callers, RevokeAuto(t) \/ AuthorizeManual(t) \/ RevokeManual(t) \/ Halt(t)
      PROVE  Fenced'
  <2>1. PICK w \in Writes : Owe(t, w) /\ w.type # "PERMIT"
    BY <1>2, WritesAreTyped, PlainTypes, ManualTypes DEF RevokeAuto, AuthorizeManual, RevokeManual, Halt, Protect
  <2>2. live' \subseteq live
    BY <1>2 DEF RevokeAuto, AuthorizeManual, RevokeManual, Halt, Protect, WithdrawAll
  <2>3. (Serving(t) \/ t = Console) /\ UNCHANGED <<worker, epoch, authorization>>
    BY <1>2 DEF RevokeAuto, AuthorizeManual, RevokeManual, Halt, Calls
  <2> QED BY <1>a, <2>1, <2>2, <2>3, GrantFenced
<1>3. ASSUME NEW t \in Threads, PauseFile(t) \/ PauseCommits(t) \/ PauseFails(t) PROVE Fenced'
  <2>1. CASE PauseFile(t)
    <3>1. authorization'.type = "PAUSE" BY <2>1 DEF PauseFile
    <3> QED BY <2>1, <3>1, <1>a, FenceKept DEF PauseFile, database
  <2>2. CASE PauseCommits(t)
    <3>1. worker # "DOWN" BY <2>2 DEF PauseCommits, TypeOK, ActorsOK
    <3>2. \A p \in live : p.generation > epoch BY <3>1 DEF Fenced
    <3>3. \A p \in ActivePermits : [p EXCEPT !.status = "PAUSED"].generation > epoch
      BY <3>2 DEF ActivePermits, TypeOK, DatabaseOK
    <3>4. \A q \in live' : q \in live \/ q.generation > epoch
      BY <2>2, <3>3 DEF PauseCommits
    <3> QED BY <2>2, <1>a, <3>4, FenceKept DEF PauseCommits
  <2>3. CASE PauseFails(t)
    BY <2>3, FenceKept DEF PauseFails, database
  <2> QED BY <1>3, <2>1, <2>2, <2>3
<1>4. ASSUME NEW t \in Threads, NEW c \in Orders, Submit(t, c) PROVE Fenced'
  BY <1>4, FenceKept DEF Submit
<1>5. CASE Start
  <2>1. pending'[Main] = Plain("NONE") /\ \A b \in Actors \ {Main} : pending'[b] = pending[b]
    BY <1>5, Owed, WritesAreTyped DEF Start
  <2>2. \A b \in Actors \ {Main} : pending'[b].type # "PERMIT"
    <3>1. \A b \in Actors \ {Main, Console} : pending[b].type = "IDLE"
      BY <1>5 DEF Start, TypeOK, ActorsOK, Idle
    <3>2. pending[Console].type # "PERMIT" BY DEF TypeOK, ActorsOK
    <3> QED BY <2>1, <3>1, <3>2
  <2>3. \A b \in Threads \cup {Loop} : pending'[b].type = "IDLE"
    BY <1>5, <2>1 DEF Start, TypeOK, ActorsOK, Idle, Actors
  <2> QED BY <1>5, <2>1, <2>2, <2>3, PlainTypes DEF Start, Fenced
<1>6. CASE Stop
  <2>1. pending'[Main] = Plain("NONE") /\ \A b \in Actors \ {Main} : pending'[b] = pending[b]
    BY <1>6, Owed, WritesAreTyped DEF Stop
  <2> QED BY <1>6, <1>b, <2>1, PlainTypes DEF Stop, Fenced
<1>7. CASE WorkerKilled \/ Exit
  <2>1. \A b \in Actors : pending'[b].type = "IDLE" \/ pending'[b] = pending[b]
    BY <1>7, Abandoned, PlainTypes DEF WorkerKilled, Exit
  <2>2. pending'[Main].type = "IDLE" BY <1>7, Abandoned, PlainTypes DEF WorkerKilled, Exit
  <2>3. worker' = "DOWN" /\ UNCHANGED <<epoch, generation>>
    BY <1>7 DEF WorkerKilled, Exit, database
  <2> QED BY <2>1, <2>2, <2>3 DEF Fenced
<1>8. CASE RefreshLease
  <2>1. pending'[Loop] = Plain("LEASE") /\ \A b \in Actors \ {Loop} : pending'[b] = pending[b]
    BY <1>8, Owed, WritesAreTyped DEF RefreshLease
  <2> QED BY <1>8, <2>1, PlainTypes DEF RefreshLease, Serving, Fenced, database
<1>9. CASE FailClosed
  BY <1>9, FenceKept DEF FailClosed, database
<1>23. CASE Pass
  <2>1. CASE LeaseExpires \/ ManualEnds
    BY <2>1, FenceKept, PlainTypes DEF LeaseExpires, ManualEnds, Fades, database
  <2>2. ASSUME UNCHANGED <<worker, epoch, generation>>, live' \subseteq live,
               authorization' = authorization \/ authorization'.type # "PERMIT",
               \A a \in Actors : \/ pending'[a] = pending[a]
                                 \/ /\ pending[a].type \in {"MANUAL", "PERMIT", "PAUSE"}
                                    /\ pending'[a].type \in {"MANUAL", "NONE"}
        PROVE  Fenced'
    <3>1. Threads \cup {Loop, Main} \subseteq Actors BY DEF Actors
    <3>2. pending'[Main] = pending[Main] BY <2>2, <3>1 DEF Fenced
    <3>3. ASSUME worker = "STARTING", NEW a \in Threads \cup {Loop} PROVE pending'[a] = pending[a]
      BY <2>2, <3>1, <3>3 DEF Fenced
    <3>4. \A a \in Actors : pending'[a].type = "PERMIT" => pending'[a] = pending[a]
      BY <2>2
    <3> QED BY <2>2, <3>2, <3>3, <3>4 DEF Fenced
  <2>3. CASE TimePasses
    <3>1. \A a \in Actors : pending[a] \in Writes BY DEF TypeOK, ActorsOK
    <3>2. authorization \in Writes BY AuthorizationsAreWrites DEF TypeOK, FilesOK
    <3> QED BY <2>2, <2>3, <3>1, <3>2, PassingSteps, AgedTypes
  <2>4. ASSUME NEW g \in 1..MaxGeneration, PermitExpires(g) PROVE Fenced'
    BY <2>2, <2>4, ExpirySteps, PlainTypes
  <2> QED BY <1>23, <2>1, <2>3, <2>4 DEF Pass
<1>10. ASSUME NEW a \in Actors, WriteAuthorization(a) PROVE Fenced'
  <2>1. pending'[a] = Plain("IDLE") /\ \A b \in Actors \ {a} : pending'[b] = pending[b]
    BY <1>10, Owed, WritesAreTyped DEF WriteAuthorization, AfterWrite
  <2>2. worker = "STARTING" => a \in {Main, Console} /\ pending[a].type # "PERMIT"
    BY <1>10 DEF WriteAuthorization, Fenced, TypeOK, ActorsOK, Actors
  <2>3. authorization' = pending[a] /\ UNCHANGED <<generation, live, epoch>>
    BY <1>10 DEF WriteAuthorization, database
  <2>4. worker' = IF a = Main /\ worker = "STARTING" THEN "UP" ELSE worker
    BY <1>10 DEF WriteAuthorization, AfterWrite
  <2>5. Threads \cup {Loop, Main} \subseteq Actors BY DEF Actors
  <2>6. Plain("IDLE").type = "IDLE" BY PlainTypes
  <2>7. \A b \in Actors : pending'[b].type = "PERMIT" => pending[b].type = "PERMIT" /\ pending'[b] = pending[b]
    BY <2>1, <2>6
  <2>8. worker' # "DOWN" => worker # "DOWN" BY <2>4
  <2>9. pending'[Main].type \in {"IDLE", "NONE"} BY <2>1, <2>5, <2>6 DEF Fenced
  <2>10. worker' = "STARTING" => /\ pending'[Main].type = "NONE"
                                /\ \A b \in Threads \cup {Loop} : pending'[b].type = "IDLE"
    BY <2>1, <2>4, <2>5, <2>6 DEF Fenced
  <2>11. authorization'.type = "PERMIT" => authorization'.generation > epoch'
    BY <2>3 DEF Fenced
  <2> QED BY <2>3, <2>7, <2>8, <2>9, <2>10, <2>11 DEF Fenced
<1>11. ASSUME NEW a \in Actors, WriteHalt(a) \/ WriteFails(a) PROVE Fenced'
  <2>1. pending'[a] = Plain("IDLE") /\ \A b \in Actors \ {a} : pending'[b] = pending[b]
    BY <1>11, Owed, Abandoned, WritesAreTyped DEF WriteHalt, WriteFails, AfterWrite
  <2>2. UNCHANGED <<authorization, generation, live, epoch>>
    BY <1>11 DEF WriteHalt, WriteFails, database
  <2>3. \/ worker' = worker /\ a # Main
        \/ worker' = worker /\ worker # "STARTING"
        \/ worker' = "DOWN" /\ worker = "STARTING"
    BY <1>11 DEF WriteHalt, WriteFails, AfterWrite, Fenced
  <2>4. \A b \in Actors : pending'[b].type = "IDLE" \/ pending'[b] = pending[b]
    BY <2>1, PlainTypes
  <2>5. CASE worker' = "STARTING"
    <3>1. worker = "STARTING" /\ pending'[Main] = pending[Main] BY <2>1, <2>3, <2>5
    <3>2. Threads \cup {Loop} \subseteq Actors BY DEF Actors
    <3> QED BY <2>2, <2>4, <2>5, <3>1, <3>2 DEF Fenced
  <2>6. CASE worker' # "STARTING"
    BY <2>2, <2>3, <2>4, <2>6 DEF Fenced
  <2> QED BY <2>5, <2>6
<1>12. ASSUME NEW m \in Modes, RemoveForMode(m) PROVE Fenced'
  BY <1>12, FenceKept, PlainTypes DEF RemoveForMode, database
<1>13. CASE SetMode \/ SetModeRefused \/ SyncMode \/ ClearHalt \/ ClearRemoves \/ ClearSyncs \/ ClearUnhalts
  BY <1>13, <1>a, FenceKept, PlainTypes DEF SetMode, SetModeRefused, SyncMode, ClearHalt, ClearRows,
     ClearRemoves, ClearSyncs, ClearUnhalts, database
<1>14. CASE EnableFirstTrade
  BY <1>14, <1>a, FenceKept, PlainTypes DEF EnableFirstTrade, ClearRows, database
<1>15. CASE BindLocks \/ BindSetup \/ BindFiles \/ SignProfile
  BY <1>15, FenceKept DEF BindLocks, BindSetup, BindFiles, SignProfile, database
<1>16. CASE BindChange
  <2>1. pending'[Console] = Plain("HALT") /\ \A b \in Actors \ {Console} : pending'[b] = pending[b]
    BY <1>16, Owed, WritesAreTyped DEF BindChange, Protect
  <2> QED BY <1>16, <1>b, <2>1, PlainTypes DEF BindChange, Protect, Fenced, Actors
<1>17. CASE ConsoleKilled
  <2>1. \A b \in Actors : pending'[b] = IF b = Console THEN Plain("IDLE") ELSE pending[b]
    BY <1>17, Abandoned DEF ConsoleKilled
  <2> QED BY <1>17, <2>1, PlainTypes DEF ConsoleKilled, Fenced, Actors, database
<1>18. CASE Execute \/ AdapterRestart
  BY <1>18, FenceKept DEF Execute, Check, Drop, CallOrder, AdapterRestart, database
<1>19. ASSUME NEW t \in Threads, Operate(t) PROVE Fenced'
  BY <1>19, <1>1, <1>2, <1>3, <1>4 DEF Operate, Callers
<1>20. CASE Process
  BY <1>20, <1>5, <1>6, <1>7, <1>8, <1>9 DEF Process
<1>21. ASSUME NEW a \in Actors, WriteFile(a) PROVE Fenced'
  BY <1>21, <1>10, <1>11 DEF WriteFile
<1>22. CASE Administer
  BY <1>22, <1>2, <1>12, <1>13, <1>14, <1>15, <1>16, <1>17 DEF Administer, Callers
<1> QED BY <1>18, <1>19, <1>20, <1>21, <1>22, <1>23 DEF Next, Around

-----------------------------------------------------------------------------
(* What the authorization file says.                                       *)

\* What is written while nothing is granted is known to be stale.
LEMMA NothingBacked ==
  ASSUME mode = "OBSERVE_ONLY", live = {}, NEW w, w.type \in Grants
  PROVE  ~Backed(w)
BY DEF Backed, ActivePermits, Grants

LEMMA BackedSame ==
  ASSUME UNCHANGED <<mode, halted, generation, live, window>>, NEW w
  PROVE  Backed(w)' <=> Backed(w')
BY DEF Backed, ActivePermits

(* Time keeps what is backed backed: a file or a write ends no later than  *)
(* the grant it was made from.                                             *)
LEMMA AgedStaysBacked ==
  ASSUME TypeOK, TimePasses, NEW w \in Writes, Backed(w)
  PROVE  LET v == Aged(w) IN
           v.type \in Grants =>
             CASE v.type = "PERMIT" -> \E p \in ActivePermits' : p.generation = v.generation
               [] v.type = "MANUAL" -> mode' = "MANUAL_LIVE" /\ v.term <= window'
               [] v.type = "LEASE" -> mode' = "SIM_SIGNAL" /\ ~halted'
               [] OTHER -> TRUE
<1>1. UNCHANGED <<mode, halted, generation, live>> /\ window' = IF window > 0 THEN window - 1 ELSE 0
  BY PassingSteps
<1>2. ActivePermits' = ActivePermits BY <1>1 DEF ActivePermits
<1>3. CASE w.type = "MANUAL" /\ w.term > 1
  <2>1. Aged(w) = Manual(w.term - 1) /\ Manual(w.term - 1).type = "MANUAL"
        /\ Manual(w.term - 1).term = w.term - 1
    BY <1>3, AgedIs, ManualTypes
  <2>2. w.term \in 1..MaxTerm BY <1>3 DEF Writes, Authorizations
  <2>3. mode = "MANUAL_LIVE" /\ w.term <= window BY <1>3 DEF Backed
  <2>4. window \in 0..MaxTerm BY DEF TypeOK, DatabaseOK
  <2> QED BY <1>1, <2>1, <2>2, <2>3, <2>4
<1>4. CASE w.type = "MANUAL" /\ ~(w.term > 1)
  <2>1. Aged(w) = Plain("NONE") BY <1>4, AgedIs
  <2> QED BY <2>1, PlainTypes DEF Grants
<1>5. CASE w.type # "MANUAL"
  <2>1. Aged(w) = w BY <1>5, AgedIs
  <2> QED BY <1>1, <1>2, <1>5, <2>1 DEF Backed
<1> QED BY <1>3, <1>4, <1>5

LEMMA ExpiryKeepsBacked ==
  ASSUME TypeOK, NEW g \in 1..MaxGeneration, PermitExpires(g), NEW w, Backed(w), w.type \in Grants,
         w.type = "PERMIT" => w.generation # g
  PROVE  CASE w.type = "PERMIT" -> \E p \in ActivePermits' : p.generation = w.generation
           [] w.type = "MANUAL" -> mode' = "MANUAL_LIVE" /\ w.term <= window'
           [] w.type = "LEASE" -> mode' = "SIM_SIGNAL" /\ ~halted'
           [] OTHER -> TRUE
<1>1. live' = {p \in live : p.generation # g} /\ UNCHANGED <<mode, halted, generation, window>>
  BY ExpirySteps
<1>2. CASE w.type = "PERMIT"
  <2>1. PICK p \in ActivePermits : p.generation = w.generation BY <1>2 DEF Backed
  <2>2. p \in ActivePermits' BY <1>1, <1>2, <2>1 DEF ActivePermits
  <2> QED BY <1>2, <2>1, <2>2
<1>3. CASE w.type # "PERMIT"
  BY <1>1, <1>3 DEF Backed, Grants
<1> QED BY <1>2, <1>3

LEMMA ConsoleSteps ==
  ASSUME Next, console' \in {"CLEARED", "CLEAR_SYNC", "UNHALT", "BIND_LOCKED"}
  PROVE  UNCHANGED console \/ ClearHalt \/ ClearRemoves \/ ClearSyncs \/ BindLocks
<1>1. ASSUME NEW t \in Threads, Operate(t) PROVE UNCHANGED console
  BY <1>1 DEF Operate, AuthorizeAuto, ResumeAuto, PauseFile, PauseCommits, PauseFails, RevokeAuto,
              AuthorizeManual, RevokeManual, Halt, Submit, Calls, consoleVars
<1>2. CASE Process
  BY <1>2 DEF Process, Start, Stop, WorkerKilled, Exit, FailClosed, RefreshLease, consoleVars
<1>6. CASE Pass
  BY <1>6 DEF Pass, TimePasses, PermitExpires, LeaseExpires, ManualEnds, Fades, consoleVars
<1>3. ASSUME NEW a \in Actors, WriteFile(a) PROVE UNCHANGED console
  BY <1>3 DEF WriteFile, WriteAuthorization, WriteHalt, WriteFails, AfterWrite
<1>4. CASE Execute \/ AdapterRestart
  BY <1>4 DEF Execute, Check, Drop, CallOrder, AdapterRestart, consoleVars
<1>5. CASE Administer
  BY <1>5 DEF Administer, RemoveForMode, SetMode, SetModeRefused, SyncMode, ClearUnhalts,
              EnableFirstTrade, BindSetup, BindChange, BindFiles, SignProfile, ConsoleKilled,
              Halt, AuthorizeManual, Calls, Serving, consoleVars
<1> QED BY <1>1, <1>2, <1>3, <1>4, <1>5, <1>6 DEF Next, Around

(* What writes the authorization file, or says of it that it is current.   *)
LEMMA MarkSteps ==
  ASSUME Next
  PROVE  \/ \E t \in Threads : PauseFile(t)
         \/ \E a \in Actors : WriteAuthorization(a)
         \/ TimePasses \/ LeaseExpires \/ \E g \in 1..MaxGeneration : PermitExpires(g)
         \/ \E m \in Modes : RemoveForMode(m)
         \/ ClearRemoves \/ EnableFirstTrade
         \/ UNCHANGED authorization /\ (UNCHANGED authorizationMark \/ authorizationMark' # "CURRENT")
<1> USE DEF files, history
<1>1. ASSUME NEW t \in Threads, Operate(t), ~PauseFile(t), ~PauseCommits(t)
      PROVE  UNCHANGED <<authorization, authorizationMark>>
  BY <1>1 DEF Operate, AuthorizeAuto, ResumeAuto, PauseFails, RevokeAuto, AuthorizeManual,
              RevokeManual, Halt, Submit
<1>8. ASSUME NEW t \in Threads, PauseCommits(t)
      PROVE  UNCHANGED authorization /\ (UNCHANGED authorizationMark \/ authorizationMark' # "CURRENT")
  BY <1>8 DEF PauseCommits
<1>2. CASE Start \/ Stop \/ FailClosed \/ RefreshLease \/ ManualEnds
  BY <1>2 DEF Start, Stop, FailClosed, RefreshLease, ManualEnds
<1>3. CASE WorkerKilled \/ Exit \/ ConsoleKilled \/ \E a \in Actors : WriteFails(a)
  BY <1>3 DEF WorkerKilled, Exit, ConsoleKilled, WriteFails, Abandon
<1>4. ASSUME NEW a \in Actors, WriteHalt(a) PROVE UNCHANGED <<authorization, authorizationMark>>
  BY <1>4 DEF WriteHalt
<1>5. CASE \/ SetModeRefused \/ SyncMode \/ ClearHalt \/ ClearSyncs \/ ClearUnhalts
           \/ BindLocks \/ BindSetup \/ BindChange \/ BindFiles \/ SignProfile
           \/ Halt(Console) \/ AuthorizeManual(Console)
  BY <1>5 DEF SetModeRefused, SyncMode, ClearHalt, ClearSyncs, ClearUnhalts, BindLocks, BindSetup,
              BindChange, BindFiles, SignProfile, Halt, AuthorizeManual
<1>6. CASE SetMode
  BY <1>6 DEF SetMode
<1>7. CASE Execute \/ AdapterRestart
  BY <1>7 DEF Execute, Check, Drop, CallOrder, AdapterRestart
<1> QED BY <1>1, <1>2, <1>3, <1>4, <1>5, <1>6, <1>7, <1>8
        DEF Next, Around, Process, Pass, WriteFile, Administer

-----------------------------------------------------------------------------
(* Grants on their way to the file.                                        *)

(* A transaction leaves standing what its own actor has granted: what the  *)
(* others owe it has overtaken.                                            *)
LEMMA CommitStands ==
  ASSUME TypeOK, NEW a \in Actors, Overtakes(a), \A b \in Actors \ {a} : pending'[b] = pending[b],
         pending'[a].type \in Grants => Backed(pending[a])'
  PROVE  GrantsStand'
<1>1. ASSUME NEW b \in Actors \ {a}, b \notin overtaken', pending'[b].type \in Grants PROVE FALSE
  BY <1>1 DEF Overtakes
<1>2. ASSUME NEW b \in Actors \ overtaken', (pending[b])'.type \in Grants PROVE Backed(pending[b])'
  <2>1. b = a BY <1>1, <1>2
  <2> QED BY <1>2, <2>1
<1> QED BY <1>2 DEF GrantsStand

(* A step that changes nothing of the grants leaves standing what it keeps.*)
LEMMA StillStands ==
  ASSUME GrantsStand, UNCHANGED <<mode, halted, generation, live, window>>,
         \A b \in Actors : \/ (pending[b])'.type \notin Grants
                           \/ pending'[b] = pending[b] /\ (b \in overtaken => b \in overtaken')
                           \/ Backed(pending'[b])
  PROVE  GrantsStand'
<1>1. ASSUME NEW b \in Actors \ overtaken', (pending[b])'.type \in Grants PROVE Backed(pending[b])'
  <2>1. Backed(pending'[b]) BY <1>1 DEF GrantsStand
  <2>2. Backed(pending[b])' <=> Backed(pending'[b]) BY DEF Backed, ActivePermits
  <2> QED BY <2>1, <2>2
<1> QED BY <1>1 DEF GrantsStand

\* The same for a step that leaves alone all that is owed.
LEMMA OwedStands ==
  ASSUME GrantsStand, UNCHANGED <<mode, halted, generation, live, window, pending, overtaken>>
  PROVE  GrantsStand'
BY StillStands

LEMMA AbandonStands ==
  ASSUME TypeOK, GrantsStand, NEW A, Abandon(A), UNCHANGED database
  PROVE  GrantsStand'
<1>1. ASSUME NEW b \in Actors
      PROVE  \/ (pending[b])'.type \notin Grants
             \/ pending'[b] = pending[b] /\ (b \in overtaken => b \in overtaken')
  BY Abandoned, PlainTypes DEF Grants
<1> QED BY <1>1, StillStands DEF database

LEMMA PassStands ==
  ASSUME TypeOK, GrantsStand, Pass
  PROVE  GrantsStand'
<1>1. CASE LeaseExpires \/ ManualEnds
  BY <1>1, OwedStands DEF LeaseExpires, ManualEnds, Fades, database
<1>2. CASE TimePasses
  <2>1. ASSUME NEW b \in Actors \ overtaken', (pending[b])'.type \in Grants PROVE Backed(pending[b])'
    <3>1. (pending[b])' = Aged(pending[b]) /\ b \notin overtaken /\ pending[b] \in Writes
      BY <1>2, <2>1, PassingSteps DEF TypeOK, ActorsOK
    <3>2. pending[b].type \in Grants BY <2>1, <3>1, AgedTypes DEF Grants
    <3>3. Backed(pending[b]) BY <3>1, <3>2 DEF GrantsStand
    <3> QED BY <1>2, <2>1, <3>1, <3>3, AgedStaysBacked DEF Backed
  <2> QED BY <2>1 DEF GrantsStand
<1>3. ASSUME NEW g \in 1..MaxGeneration, PermitExpires(g) PROVE GrantsStand'
  <2>1. ASSUME NEW b \in Actors \ overtaken', (pending[b])'.type \in Grants PROVE Backed(pending[b])'
    <3>1. /\ (pending[b])' = pending[b] /\ b \notin overtaken
          /\ pending[b].type = "PERMIT" => pending[b].generation # g
      BY <1>3, <2>1, ExpirySteps, PlainTypes DEF Grants
    <3>2. Backed(pending[b]) BY <2>1, <3>1 DEF GrantsStand
    <3> QED BY <1>3, <2>1, <3>1, <3>2, ExpiryKeepsBacked DEF Backed
  <2> QED BY <2>1 DEF GrantsStand
<1> QED BY <1>1, <1>2, <1>3 DEF Pass

LEMMA StandStep ==
  ASSUME TypeOK, GrantsStand, Next
  PROVE  GrantsStand'
<1> Loop \in Actors /\ Main \in Actors /\ Console \in Actors /\ Threads \subseteq Actors BY DEF Actors
<1> generation' \in 0..MaxGeneration BY DatabaseTypes DEF DatabaseOK
<1>1. ASSUME NEW a \in Actors, NEW w \in Writes, Overtakes(a), Owe(a, w), w.type \in Grants => Backed(w)'
      PROVE  GrantsStand'
  <2>1. pending'[a] = w /\ \A b \in Actors \ {a} : pending'[b] = pending[b] BY <1>1, Owed
  <2>2. pending'[a].type \in Grants => Backed(pending[a])' BY <1>1, <2>1 DEF Backed
  <2> QED BY <1>1, <2>1, <2>2, CommitStands
<1>2. ASSUME NEW t \in Threads, AuthorizeAuto(t) \/ ResumeAuto(t) PROVE GrantsStand'
  <2>1. /\ Overtakes(t) /\ Owe(t, Permit(generation')) /\ Permit(generation') \in Writes
        /\ [generation |-> generation', status |-> "ACTIVE"] \in live'
    BY <1>2, WritesAreTyped DEF AuthorizeAuto, ResumeAuto
  <2>2. [generation |-> generation', status |-> "ACTIVE"] \in ActivePermits' BY <2>1 DEF ActivePermits
  <2>3. (pending[t])' = Permit(generation') BY <2>1, Owed
  <2>4. Backed(pending[t])' BY <2>2, <2>3, PermitTypes DEF Backed
  <2>5. \A b \in Actors \ {t} : pending'[b] = pending[b] BY <2>1, Owed
  <2> QED BY <2>1, <2>4, <2>5, CommitStands
<1>3. ASSUME NEW a \in Actors, AuthorizeManual(a) PROVE GrantsStand'
  <2>1. PICK n \in 1..MaxTerm : window' = n /\ Owe(a, Manual(n)) BY <1>3 DEF AuthorizeManual
  <2>2. Overtakes(a) /\ mode' = "MANUAL_LIVE" BY <1>3 DEF AuthorizeManual
  <2>3. (pending[a])' = Manual(n) /\ \A b \in Actors \ {a} : pending'[b] = pending[b]
    BY <2>1, Owed, WritesAreTyped
  <2>4. Backed(pending[a])' BY <2>1, <2>2, <2>3, ManualTypes DEF Backed
  <2> QED BY <2>2, <2>3, <2>4, CommitStands
<1>4. ASSUME NEW a \in Actors, NEW type \in {"NONE", "HALT"}, Overtakes(a), Owe(a, Plain(type))
      PROVE  GrantsStand'
  <2>1. Plain(type) \in Writes /\ Plain(type).type \notin Grants BY WritesAreTyped, PlainTypes DEF Grants
  <2> QED BY <1>1, <1>4, <2>1
<1>5. ASSUME NEW a \in Actors, Overtakes(a), UNCHANGED pending, pending[a].type \notin Grants
      PROVE  GrantsStand'
  BY <1>5, CommitStands
<1>6. ASSUME NEW t \in Threads, Operate(t) PROVE GrantsStand'
  <2>1. CASE RevokeAuto(t) \/ RevokeManual(t) \/ Halt(t)
    BY <1>4, <2>1 DEF RevokeAuto, RevokeManual, Halt, Protect
  <2>2. CASE PauseFile(t) \/ PauseFails(t) \/ \E c \in Orders : Submit(t, c)
    BY <2>2, OwedStands DEF PauseFile, PauseFails, Submit, database
  <2>3. CASE PauseCommits(t)
    <3>1. Overtakes(t) /\ UNCHANGED pending BY <2>3 DEF PauseCommits
    <3>2. pending[t].type \notin Grants BY <2>3 DEF PauseCommits, TypeOK, ActorsOK, Idle, Grants
    <3> QED BY <1>5, <3>1, <3>2
  <2> QED BY <1>2, <1>3, <1>6, <2>1, <2>2, <2>3 DEF Operate
<1>7. CASE Process
  <2>1. CASE Start \/ Stop
    BY <1>4, <2>1 DEF Start, Stop
  <2>2. CASE WorkerKilled \/ Exit
    <3>1. PICK A : Abandon(A) /\ UNCHANGED database BY <2>2 DEF WorkerKilled, Exit
    <3> QED BY <3>1, AbandonStands
  <2>3. CASE FailClosed
    BY <2>3, OwedStands DEF FailClosed, database
  <2>4. CASE RefreshLease
    <3>1. pending'[Loop] = Plain("LEASE") /\ \A b \in Actors \ {Loop} : pending'[b] = pending[b]
      BY <2>4, Owed, WritesAreTyped DEF RefreshLease
    <3>2. Backed(Plain("LEASE")) BY <2>4, PlainTypes DEF RefreshLease, Backed
    <3> QED BY <2>4, <3>1, <3>2, StillStands DEF RefreshLease, database
  <2> QED BY <1>7, <2>1, <2>2, <2>3, <2>4 DEF Process
<1>8. CASE Pass
  BY <1>8, PassStands
<1>9. ASSUME NEW a \in Actors, WriteFile(a) PROVE GrantsStand'
  <2>1. CASE WriteAuthorization(a) \/ WriteHalt(a)
    <3>1. pending'[a] = Plain("IDLE") /\ \A b \in Actors \ {a} : pending'[b] = pending[b]
      BY <2>1, Owed, WritesAreTyped DEF WriteAuthorization, WriteHalt, AfterWrite
    <3>2. UNCHANGED database /\ overtaken' = overtaken \ {a}
      BY <2>1 DEF WriteAuthorization, WriteHalt, AfterWrite
    <3> QED BY <3>1, <3>2, StillStands, PlainTypes DEF database, Grants
  <2>2. CASE WriteFails(a)
    BY <2>2, AbandonStands DEF WriteFails
  <2> QED BY <1>9, <2>1, <2>2 DEF WriteFile
<1>10. CASE Administer
  <2>1. pending[Console].type \notin Grants \/ console = "CORE"
    BY DEF TypeOK, ActorsOK, Grants
  <2>2. CASE SetMode \/ ClearHalt \/ EnableFirstTrade \/ BindSetup
    <3>1. console # "CORE" /\ UNCHANGED pending BY <2>2 DEF SetMode, ClearHalt, EnableFirstTrade, BindSetup, ConsoleIdle
    <3>2. Overtakes(Console) \/ UNCHANGED <<database, overtaken>>
      BY <2>2 DEF SetMode, ClearHalt, ClearRows, EnableFirstTrade, BindSetup
    <3> QED BY <1>5, <2>1, <3>1, <3>2, OwedStands DEF database
  <2>3. CASE BindChange \/ Halt(Console)
    BY <1>4, <2>3 DEF BindChange, Halt, Protect
  <2>4. CASE ConsoleKilled
    BY <2>4, AbandonStands DEF ConsoleKilled
  <2>5. CASE \/ \E m \in Modes : RemoveForMode(m)
             \/ SetModeRefused \/ SyncMode \/ ClearRemoves \/ ClearSyncs \/ ClearUnhalts
             \/ BindLocks \/ BindFiles \/ SignProfile
    BY <2>5, OwedStands DEF RemoveForMode, SetModeRefused, SyncMode, ClearRemoves, ClearSyncs,
       ClearUnhalts, BindLocks, BindFiles, SignProfile, database
  <2> QED BY <1>3, <1>10, <2>2, <2>3, <2>4, <2>5 DEF Administer
<1>11. CASE Execute \/ AdapterRestart
  BY <1>11, OwedStands DEF Execute, Check, Drop, CallOrder, AdapterRestart, database
<1> QED BY <1>6, <1>7, <1>8, <1>9, <1>10, <1>11 DEF Next, Around

LEMMA ClearingStep ==
  ASSUME TypeOK, GrantsStand, Clearing, Next
  PROVE  Clearing'
<1>1. ASSUME console' \in {"CLEARED", "CLEAR_SYNC", "UNHALT"}
      PROVE  mode' = "OBSERVE_ONLY" /\ live' = {} /\ window' = 0
  <2>1. CASE ClearHalt
    BY <2>1 DEF ClearHalt, ClearRows, WithdrawAll
  <2>2. CASE ~ClearHalt
    <3>1. console \in {"CLEARED", "CLEAR_SYNC", "UNHALT"}
      BY <1>1, <2>2, ConsoleSteps DEF ClearRemoves, ClearSyncs, BindLocks
    <3>2. mode = "OBSERVE_ONLY" /\ live = {} /\ window = 0 BY <3>1 DEF Clearing
    <3>3. ASSUME NEW t \in Threads, Operate(t) PROVE mode' = "OBSERVE_ONLY" /\ live' = {} /\ window' = 0
      <4>1. CASE AuthorizeAuto(t) \/ ResumeAuto(t) \/ AuthorizeManual(t)
        BY <3>2, <4>1 DEF AuthorizeAuto, ResumeAuto, AuthorizeManual
      <4>2. CASE PauseFile(t) \/ PauseCommits(t) \/ PauseFails(t)
        BY <3>2, <4>2 DEF PauseFile, PauseCommits, PauseFails, ActivePermits, database
      <4>3. CASE RevokeAuto(t)
        <5>1. UNCHANGED mode /\ UNCHANGED window BY <4>3, Zenon DEF RevokeAuto
        <5>2. live' = {} BY <3>2, <4>3, Zenon DEF RevokeAuto
        <5> QED BY <3>2, <5>1, <5>2
      <4>4. CASE RevokeManual(t)
        <5>1. UNCHANGED mode /\ UNCHANGED live /\ window' = 0 BY <4>4, Zenon DEF RevokeManual
        <5> QED BY <3>2, <5>1
      <4>5. CASE Halt(t)
        BY <3>2, <4>5 DEF Halt, Protect, WithdrawAll
      <4>6. ASSUME NEW c \in Orders, Submit(t, c) PROVE mode' = "OBSERVE_ONLY" /\ live' = {} /\ window' = 0
        <5>1. UNCHANGED mode /\ UNCHANGED live /\ UNCHANGED window BY <4>6, Zenon DEF Submit
        <5> QED BY <3>2, <5>1
      <4> QED BY <3>3, <4>1, <4>2, <4>3, <4>4, <4>5, <4>6 DEF Operate
    <3>4. CASE Start \/ Stop \/ BindChange
      BY <3>2, <3>4 DEF Start, Stop, BindChange, Protect, WithdrawAll
    <3>5. CASE TimePasses \/ ManualEnds \/ \E g \in 1..MaxGeneration : PermitExpires(g)
      BY <3>2, <3>5, PassingSteps, ExpirySteps DEF ManualEnds
    <3>7. CASE Halt(Console) \/ AuthorizeManual(Console)
      BY <3>2, <3>7 DEF Halt, Protect, WithdrawAll, AuthorizeManual
    <3>6. CASE UNCHANGED database
      BY <3>2, <3>6 DEF database
    <3> QED BY DatabaseSteps, <2>2, <3>1, <3>3, <3>4, <3>5, <3>6, <3>7
            DEF Operate, Callers, SetMode, EnableFirstTrade, BindSetup, ConsoleIdle
  <2> QED BY <2>1, <2>2
<1>2. ASSUME console' \in {"CLEAR_SYNC", "UNHALT"}
      PROVE  authorization'.type \in {"NONE", "PAUSE"} \/ authorizationMark' # "CURRENT"
  <2>1. CASE ClearRemoves
    BY <2>1, PlainTypes DEF ClearRemoves
  <2>2. CASE ~ClearRemoves
    <3>1. console \in {"CLEAR_SYNC", "UNHALT"}
      BY <1>2, <2>2, ConsoleSteps DEF ClearHalt, ClearSyncs, BindLocks
    <3>2. /\ authorization.type \in {"NONE", "PAUSE"} \/ authorizationMark # "CURRENT"
          /\ mode = "OBSERVE_ONLY" /\ live = {}
      BY <3>1 DEF Clearing
    <3>3. CASE UNCHANGED authorization /\ (UNCHANGED authorizationMark \/ authorizationMark' # "CURRENT")
      BY <3>2, <3>3
    <3>4. ASSUME NEW a \in Actors, WriteAuthorization(a)
          PROVE  authorization'.type \in {"NONE", "PAUSE"} \/ authorizationMark' # "CURRENT"
      <4>1. authorization' = pending[a] /\ (authorizationMark' # "CURRENT" \/ a \notin overtaken \/ Backed(pending[a]))
        BY <3>4 DEF WriteAuthorization
      <4>2. pending[a].type \in Grants \/ pending[a].type \in {"NONE", "PAUSE"}
        BY <3>4 DEF WriteAuthorization, TypeOK, ActorsOK, Writes, Authorizations, Grants
      <4>3. a \notin overtaken /\ pending[a].type \in Grants => Backed(pending[a]) BY DEF GrantsStand
      <4> QED BY <3>2, <4>1, <4>2, <4>3, NothingBacked
    <3>5. ASSUME NEW t \in Threads, PauseFile(t) PROVE FALSE
      BY <3>2, <3>5 DEF PauseFile, ActivePermits
    <3>6. CASE TimePasses
      <4>1. authorization \in Writes BY AuthorizationsAreWrites DEF TypeOK, FilesOK
      <4>2. \/ authorization' = authorization /\ (UNCHANGED authorizationMark \/ authorization.type = "NONE")
            \/ authorization'.type = "MANUAL" /\ authorization.type = "MANUAL" /\ UNCHANGED authorizationMark
            \/ authorization'.type = "NONE"
        BY <3>6, <4>1, PassingSteps, AgedTypes
      <4> QED BY <3>2, <4>2
    <3>7. CASE LeaseExpires
      BY <3>7, PlainTypes DEF LeaseExpires, Fades
    <3>8. ASSUME NEW g \in 1..MaxGeneration, PermitExpires(g)
          PROVE  authorization'.type \in {"NONE", "PAUSE"} \/ authorizationMark' # "CURRENT"
      BY <3>2, <3>8, ExpirySteps, PlainTypes
    <3> QED BY <2>2, <3>1, <3>3, <3>4, <3>5, <3>6, <3>7, <3>8, MarkSteps DEF RemoveForMode, EnableFirstTrade, ConsoleIdle
  <2> QED BY <2>1, <2>2
<1>3. ASSUME console' = "BIND_LOCKED" PROVE haltFile'
  <2>1. CASE BindLocks
    BY <2>1 DEF BindLocks
  <2>2. CASE ~BindLocks
    <3>1. UNCHANGED console /\ haltFile
      BY <1>3, <2>2, ConsoleSteps DEF ClearHalt, ClearRemoves, ClearSyncs, Clearing
    <3>2. CASE UNCHANGED haltFile
      BY <3>1, <3>2
    <3>3. CASE haltFile'
      BY <3>3
    <3>4. Pass => UNCHANGED haltFile
      BY DEF Pass, TimePasses, PermitExpires, LeaseExpires, ManualEnds, Fades, files
    <3> QED BY <1>3, <3>1, <3>2, <3>3, <3>4, FileSteps
            DEF PauseFile, WriteAuthorization, WriteHalt, FailClosed, RemoveForMode, SyncMode,
                ClearRemoves, ClearSyncs, ClearUnhalts, EnableFirstTrade, BindLocks, BindFiles,
                SignProfile, ConsoleIdle, files
  <2> QED BY <2>1, <2>2
<1> QED BY <1>1, <1>2, <1>3 DEF Clearing

(* What a write, or the passing of time, leaves in the file.               *)
LEMMA WrittenStands ==
  ASSUME TypeOK, GrantsStand, NEW a \in Actors, WriteAuthorization(a)
  PROVE  \/ authorization'.type \notin Grants \/ authorizationMark' # "CURRENT"
         \/ Backed(authorization)'
<1>1. authorization' = pending[a] /\ UNCHANGED <<mode, halted, generation, live, window>>
  BY DEF WriteAuthorization, database
<1>2. authorizationMark' = "CURRENT" => a \notin overtaken \/ Backed(pending[a]) BY DEF WriteAuthorization
<1>3. a \notin overtaken /\ pending[a].type \in Grants => Backed(pending[a]) BY DEF GrantsStand
<1>4. Backed(authorization)' <=> Backed(authorization') BY <1>1, BackedSame
<1> QED BY <1>1, <1>2, <1>3, <1>4

LEMMA PassKeeps ==
  ASSUME TypeOK, Pass, authorization'.type \in Grants, authorizationMark' = "CURRENT"
  PROVE  /\ authorization.type \in Grants /\ authorizationMark = "CURRENT"
         /\ Backed(authorization) => Backed(authorization)'
<1>1. CASE TimePasses
  <2>1. authorization \in Writes BY AuthorizationsAreWrites DEF TypeOK, FilesOK
  <2>2. authorization' = Aged(authorization) BY <1>1, PassingSteps
  <2>3. authorization.type \in Grants /\ authorizationMark = "CURRENT"
    BY <1>1, <2>1, PassingSteps, AgedTypes DEF Grants
  <2> QED BY <1>1, <2>1, <2>2, <2>3, AgedStaysBacked DEF Backed
<1>2. CASE LeaseExpires
  BY <1>2, PlainTypes DEF LeaseExpires, Fades, Grants
<1>3. CASE ManualEnds
  <2>1. UNCHANGED <<mode, halted, generation, live, window, authorization, authorizationMark>>
    BY <1>3 DEF ManualEnds, files, history
  <2> QED BY <2>1, BackedSame
<1>4. ASSUME NEW g \in 1..MaxGeneration, PermitExpires(g)
      PROVE  /\ authorization.type \in Grants /\ authorizationMark = "CURRENT"
             /\ Backed(authorization) => Backed(authorization)'
  <2>1. /\ authorization' = authorization /\ authorizationMark = "CURRENT"
        /\ authorization.type = "PERMIT" => authorization.generation # g
    BY <1>4, ExpirySteps, PlainTypes DEF Grants
  <2>2. Backed(authorization) => Backed(authorization)'
    BY <1>4, <2>1, ExpiryKeepsBacked DEF Backed
  <2> QED BY <2>1, <2>2
<1> QED BY <1>1, <1>2, <1>3, <1>4 DEF Pass

\* A step of no transaction and no writer.
LEMMA SameBacking ==
  ASSUME UNCHANGED <<mode, halted, generation, live, window, authorization>>
  PROVE  Backed(authorization)' <=> Backed(authorization)
BY BackedSame

LEMMA PauseStep ==
  ASSUME TypeOK, GrantsStand, PauseWrote, Next
  PROVE  PauseWrote'
<1>1. CASE pausing' = {}
  BY <1>1 DEF PauseWrote
<1>2. ASSUME NEW t \in Threads, PauseFile(t) PROVE PauseWrote'
  BY <1>2 DEF PauseFile, PauseWrote, Grants
<1>3. ASSUME NEW a \in Actors, WriteAuthorization(a) PROVE PauseWrote'
  BY <1>3, WrittenStands DEF PauseWrote
<1>4. CASE Pass
  <2>1. UNCHANGED pausing
    BY <1>4 DEF Pass, TimePasses, PermitExpires, LeaseExpires, ManualEnds, Fades
  <2> QED BY <1>4, <2>1, PassKeeps DEF PauseWrote
<1>5. ASSUME pausing # {}, UNCHANGED <<mode, halted, generation, live, window, authorization>>,
             UNCHANGED authorizationMark \/ authorizationMark' # "CURRENT"
      PROVE  PauseWrote'
  BY <1>5, SameBacking DEF PauseWrote
<1>6. CASE authorization'.type \notin Grants
  BY <1>6 DEF PauseWrote
<1>7. ASSUME pausing' # {}, ~\E t \in Threads : PauseFile(t) PROVE pausing # {}
  <2>1. ASSUME NEW t \in Threads, Operate(t) PROVE pausing # {}
    BY <1>7, <2>1 DEF Operate, AuthorizeAuto, ResumeAuto, RevokeAuto, PauseCommits, PauseFails,
       AuthorizeManual, RevokeManual, Halt, Protect, Submit
  <2>2. CASE Process
    BY <1>7, <2>2, Abandoned DEF Process, Start, Stop, WorkerKilled, Exit, FailClosed, RefreshLease
  <2>3. CASE Pass
    BY <1>7, <2>3 DEF Pass, TimePasses, PermitExpires, LeaseExpires, ManualEnds, Fades
  <2>4. ASSUME NEW a \in Actors, WriteFile(a) PROVE pausing # {}
    BY <1>7, <2>4, Abandoned DEF WriteFile, WriteAuthorization, WriteHalt, WriteFails, AfterWrite
  <2>5. CASE Administer
    BY <1>7, <2>5, Abandoned DEF Administer, RemoveForMode, SetMode, SetModeRefused, SyncMode, ClearHalt,
       ClearRows, ClearRemoves, ClearSyncs, ClearUnhalts, EnableFirstTrade, BindLocks, BindSetup,
       BindChange, Protect, BindFiles, SignProfile, ConsoleKilled, Halt, AuthorizeManual
  <2>6. CASE Execute \/ AdapterRestart
    BY <1>7, <2>6 DEF Execute, Check, Drop, CallOrder, AdapterRestart
  <2> QED BY <2>1, <2>2, <2>3, <2>4, <2>5, <2>6 DEF Next, Around
<1>8. CASE pausing # {} /\ pausing' # {} /\ ~(\E t \in Threads : PauseFile(t)) /\ ~Pass
  <2>1. UNCHANGED database
    BY <1>8, DatabaseSteps DEF Pass, AuthorizeAuto, ResumeAuto, PauseCommits, RevokeAuto, RevokeManual,
       Submit, AuthorizeManual, Halt, Protect, Start, Stop, SetMode, ClearHalt, ClearRows,
       EnableFirstTrade, BindSetup, BindChange
  <2>2. CASE UNCHANGED authorization /\ (UNCHANGED authorizationMark \/ authorizationMark' # "CURRENT")
    BY <1>5, <1>8, <2>1, <2>2 DEF database
  <2>3. CASE ClearRemoves \/ EnableFirstTrade \/ \E m \in Modes : RemoveForMode(m)
    BY <1>6, <2>3, PlainTypes DEF ClearRemoves, EnableFirstTrade, RemoveForMode, Grants
  <2> QED BY <1>3, <1>8, <2>2, <2>3, MarkSteps DEF Pass
<1> QED BY <1>1, <1>2, <1>4, <1>7, <1>8

(* Who has just committed owes a file that nobody has overtaken.           *)
LEMMA OwedIsOwed ==
  ASSUME TypeOK, NEW a \in Actors, NEW w \in Writes, w.type \notin {"IDLE", "HALT"}, Owe(a, w), Overtakes(a)
  PROVE  ChangeOwed'
<1>1. pending'[a] = w /\ a \notin overtaken' BY Owed DEF Overtakes
<1> QED BY <1>1 DEF ChangeOwed, OwesAuthorization

LEMMA GrantedStep ==
  ASSUME TypeOK, OnlyGrantedOpenings, GrantsStand, PauseWrote, Clearing, Next
  PROVE  OnlyGrantedOpenings'
<1> Loop \in Actors /\ Main \in Actors /\ Console \in Actors /\ Threads \subseteq Actors BY DEF Actors
<1> generation' \in 0..MaxGeneration BY DatabaseTypes DEF DatabaseOK
<1>1. CASE ChangeOwed'
  BY <1>1 DEF OnlyGrantedOpenings
<1>2. CASE haltFile' \/ halted'
  BY <1>2 DEF OnlyGrantedOpenings
<1>3. CASE authorization'.type \notin Grants \/ authorizationMark' # "CURRENT"
  BY <1>3 DEF OnlyGrantedOpenings
<1>4. ASSUME NEW a \in Actors, \/ AuthorizeAuto(a) \/ ResumeAuto(a) \/ RevokeAuto(a)
                               \/ AuthorizeManual(a) \/ RevokeManual(a)
      PROVE  OnlyGrantedOpenings'
  <2>1. Overtakes(a)
    BY <1>4 DEF AuthorizeAuto, ResumeAuto, RevokeAuto, AuthorizeManual, RevokeManual
  <2>2. PICK w \in Writes : Owe(a, w) /\ w.type \notin {"IDLE", "HALT"}
    BY <1>4, WritesAreTyped, PlainTypes, PermitTypes, ManualTypes
       DEF AuthorizeAuto, ResumeAuto, RevokeAuto, AuthorizeManual, RevokeManual
  <2> QED BY <1>1, <2>1, <2>2, OwedIsOwed
<1>5. CASE Start \/ Stop
  <2>1. Overtakes(Main) /\ Owe(Main, Plain("NONE")) BY <1>5 DEF Start, Stop
  <2> QED BY <1>1, <2>1, OwedIsOwed, WritesAreTyped, PlainTypes
<1>6. CASE ClearHalt
  <2>1. OwesAuthorization(Console)' /\ Console \notin overtaken'
    BY <1>6 DEF ClearHalt, ClearRows, Overtakes, OwesAuthorization
  <2> QED BY <1>1, <2>1 DEF ChangeOwed
<1>7. CASE ClearRemoves \/ EnableFirstTrade \/ \E m \in Modes : RemoveForMode(m)
  BY <1>3, <1>7, PlainTypes DEF ClearRemoves, EnableFirstTrade, RemoveForMode, Grants
<1>8. ASSUME NEW t \in Threads, PauseFile(t) PROVE OnlyGrantedOpenings'
  BY <1>3, <1>8 DEF PauseFile, Grants
<1>9. CASE SetMode
  BY <1>3, <1>9 DEF SetMode, files
<1>10. ASSUME NEW a \in Actors, WriteAuthorization(a) PROVE OnlyGrantedOpenings'
  BY <1>10, WrittenStands DEF OnlyGrantedOpenings
<1>11. ASSUME NEW a, WriteHalt(a) \/ Halt(a) PROVE OnlyGrantedOpenings'
  BY <1>2, <1>11 DEF WriteHalt, Halt, Protect
<1>12. CASE FailClosed \/ BindLocks \/ BindChange
  BY <1>2, <1>12 DEF FailClosed, BindLocks, BindChange, Protect
<1>13. CASE BindSetup
  BY <1>2, <1>13 DEF BindSetup, Clearing, files
<1>14. CASE ClearUnhalts
  BY <1>3, <1>14 DEF ClearUnhalts, Clearing, Grants
<1>15. ASSUME NEW A, Abandon(A), UNCHANGED <<database, files>>, Console \in A \/ UNCHANGED console
       PROVE  OnlyGrantedOpenings'
  <2>1. Backed(authorization)' <=> Backed(authorization) BY <1>15, BackedSame DEF database, files
  <2>2. SUFFICES ASSUME ~haltFile, ~halted, authorization.type \in Grants,
                        authorizationMark' = "CURRENT", ~Backed(authorization)
                 PROVE  ChangeOwed'
    BY <1>15, <2>1 DEF OnlyGrantedOpenings, files, database
  <2>3. (\A a \in A \ overtaken : ~OwesAuthorization(a)) /\ UNCHANGED authorizationMark
    BY <1>15, <2>2 DEF Abandon
  <2>4. PICK b \in Actors \ overtaken : OwesAuthorization(b)
    BY <2>2, <2>3 DEF OnlyGrantedOpenings, ChangeOwed
  <2>5. b \notin A /\ pending'[b] = pending[b] /\ b \notin overtaken' BY <1>15, <2>3, <2>4, Abandoned
  <2>6. b = Console => UNCHANGED console BY <1>15, <2>5
  <2> QED BY <2>4, <2>5, <2>6 DEF ChangeOwed, OwesAuthorization
<1>16. CASE WorkerKilled \/ Exit \/ ConsoleKilled \/ \E a \in Actors : WriteFails(a)
  <2>1. WorkerKilled \/ Exit => UNCHANGED <<console, database, files>>
    BY DEF WorkerKilled, Exit, consoleVars
  <2>2. ConsoleKilled => UNCHANGED <<database, files>>
    BY DEF ConsoleKilled
  <2>3. ASSUME NEW a \in Actors, WriteFails(a) PROVE UNCHANGED <<database, files>> /\ (a = Console \/ UNCHANGED console)
    BY <2>3 DEF WriteFails
  <2> QED BY <1>15, <1>16, <2>1, <2>2, <2>3 DEF WorkerKilled, Exit, ConsoleKilled, WriteFails
<1>17. ASSUME UNCHANGED <<mode, halted, generation, live, window, authorization, haltFile, pending,
                          overtaken, authorizationMark>>,
              console = "CLEARED" => console' = "CLEARED"
       PROVE  OnlyGrantedOpenings'
  <2>1. Backed(authorization)' <=> Backed(authorization) BY <1>17, BackedSame
  <2>2. ChangeOwed => ChangeOwed' BY <1>17 DEF ChangeOwed, OwesAuthorization
  <2> QED BY <1>17, <2>1, <2>2 DEF OnlyGrantedOpenings
<1>18. CASE SetModeRefused \/ SyncMode \/ ClearSyncs \/ BindFiles \/ SignProfile
  BY <1>17, <1>18
     DEF SetModeRefused, SyncMode, ClearSyncs, BindFiles, SignProfile, ConsoleIdle, files, database,
         consoleVars, history
<1>19. CASE Execute \/ AdapterRestart
  BY <1>17, <1>19 DEF Execute, Check, Drop, CallOrder, AdapterRestart, database, files, consoleVars, history
<1>20. ASSUME NEW t \in Threads, PauseFails(t) \/ \E c \in Orders : Submit(t, c)
       PROVE  OnlyGrantedOpenings'
  BY <1>17, <1>20 DEF PauseFails, Submit, database, files, consoleVars, history
<1>25. ASSUME NEW t \in Threads, PauseCommits(t) PROVE OnlyGrantedOpenings'
  <2>1. CASE authorization.type = "PERMIT"
    BY <1>3, <1>25, <2>1 DEF PauseCommits
  <2>2. CASE authorization.type # "PERMIT"
    <3>1. /\ UNCHANGED <<mode, halted, window, authorization, authorizationMark>>
          /\ authorization.type \notin Grants \/ authorizationMark # "CURRENT" \/ Backed(authorization)
      BY <1>25, <2>2 DEF PauseCommits, PauseWrote, files
    <3>2. Backed(authorization) => Backed(authorization)' BY <2>2, <3>1 DEF Backed
    <3> QED BY <3>1, <3>2 DEF OnlyGrantedOpenings
  <2> QED BY <2>1, <2>2
<1>26. CASE RefreshLease
  <2>1. /\ pending'[Loop] = Plain("LEASE") /\ \A b \in Actors \ {Loop} : pending'[b] = pending[b]
        /\ pending[Loop].type = "IDLE"
    BY <1>26, Owed, WritesAreTyped DEF RefreshLease, Serving, Idle
  <2>2. ChangeOwed => ChangeOwed'
    BY <1>26, <2>1 DEF RefreshLease, ChangeOwed, OwesAuthorization, consoleVars
  <2>3. UNCHANGED <<mode, halted, generation, live, window, authorization, haltFile, authorizationMark>>
    BY <1>26 DEF RefreshLease, database, files, history
  <2>4. Backed(authorization)' <=> Backed(authorization) BY <2>3, BackedSame
  <2> QED BY <2>2, <2>3, <2>4 DEF OnlyGrantedOpenings
<1>27. CASE Pass
  <2>1. UNCHANGED <<haltFile, halted, overtaken, console>>
    BY <1>27 DEF Pass, TimePasses, PermitExpires, LeaseExpires, ManualEnds, Fades, files, consoleVars,
                 database
  <2>2. ChangeOwed => ChangeOwed'
    <3>1. ASSUME NEW b \in Actors, pending[b].type \notin {"IDLE", "HALT"}
          PROVE  pending'[b].type \notin {"IDLE", "HALT"}
      BY <1>27, <3>1, PassingSteps, ExpirySteps, AgedTypes, PlainTypes
         DEF Pass, LeaseExpires, ManualEnds, TypeOK, ActorsOK
    <3> QED BY <2>1, <3>1 DEF ChangeOwed, OwesAuthorization
  <2> QED BY <1>27, <2>1, <2>2, PassKeeps DEF OnlyGrantedOpenings
<1>21. ASSUME NEW t \in Threads, Operate(t) PROVE OnlyGrantedOpenings'
  BY <1>21, <1>4, <1>8, <1>11, <1>20, <1>25 DEF Operate
<1>22. CASE Process
  BY <1>22, <1>5, <1>12, <1>16, <1>26 DEF Process
<1>23. ASSUME NEW a \in Actors, WriteFile(a) PROVE OnlyGrantedOpenings'
  BY <1>23, <1>10, <1>11, <1>16 DEF WriteFile
<1>24. CASE Administer
  BY <1>24, <1>4, <1>6, <1>7, <1>9, <1>11, <1>12, <1>13, <1>14, <1>16, <1>18 DEF Administer
<1> QED BY <1>19, <1>21, <1>22, <1>23, <1>24, <1>27 DEF Next, Around

-----------------------------------------------------------------------------
(* The contract.                                                           *)

\* What the database says is what the contract sees.
LEMMA SameHolder ==
  ASSUME UNCHANGED database
  PROVE  UNCHANGED <<Holder, generation, halted>>
BY DEF database, Holder, ActivePermits

LEMMA HolderTypes ==
  Holder \in {"NONE", "PERMIT", "MANUAL"} /\ (halted => Holder = "NONE")
BY DEF Holder

\* A permit of an earlier generation holds nothing.
LEMMA NothingActive ==
  ASSUME live' = {}
  PROVE  Holder' # "PERMIT"
BY DEF Holder, ActivePermits

LEMMA ContractStep ==
  ASSUME TypeOK, LivePermitIsNewest, Next
  PROVE  [Contract!Next]_(Contract!vars)
<1> USE DEF Contract!vars, Contract!Next, Contract!Advance
<1> generation' \in 0..MaxGeneration /\ generation \in 0..MaxGeneration
  BY DatabaseTypes DEF DatabaseOK, TypeOK
<1>1. ASSUME NEW t \in Threads, AuthorizeAuto(t) \/ ResumeAuto(t) PROVE Contract!GrantPermit
  <2>1. mode = "LIMITED_AUTO" /\ ~halted /\ UNCHANGED <<mode, halted>> /\ generation' = generation + 1
    BY <1>1 DEF AuthorizeAuto, ResumeAuto, NextGeneration
  <2>2. [generation |-> generation', status |-> "ACTIVE"] \in live'
    BY <1>1 DEF AuthorizeAuto, ResumeAuto
  <2>3. Holder' = "PERMIT" BY <2>1, <2>2 DEF Holder, ActivePermits
  <2>4. Holder # "MANUAL" BY <2>1 DEF Holder
  <2> QED BY <2>1, <2>3, <2>4 DEF Contract!GrantPermit
<1>2. ASSUME WithdrawAll, UNCHANGED halted, mode' \in Modes PROVE Contract!Withdraw
  <2>1. Holder' = "NONE" BY <1>2 DEF WithdrawAll, Holder, ActivePermits
  <2> QED BY <1>2, <2>1 DEF Contract!Withdraw, WithdrawAll, NextGeneration
<1>3. ASSUME NEW a \in Actors, NEW k, Protect(a, k) PROVE Contract!Stop
  <2>1. Holder' = "NONE" /\ halted' BY <1>3 DEF Protect, Holder
  <2> QED BY <1>3, <2>1 DEF Contract!Stop, Protect, WithdrawAll, NextGeneration
<1>4. ASSUME NEW t \in Threads, RevokeAuto(t) PROVE [Contract!Next]_(Contract!vars)
  <2>1. live' = {} BY <1>4 DEF RevokeAuto, LivePermitIsNewest
  <2>2. generation' = generation + 1 /\ UNCHANGED <<mode, halted, manual, window>>
    BY <1>4 DEF RevokeAuto, NextGeneration
  <2>3. Holder' = "NONE" \/ (Holder' = Holder /\ Holder # "PERMIT")
    BY <2>1, <2>2 DEF Holder, ActivePermits
  <2> QED BY <2>2, <2>3 DEF Contract!Withdraw, Contract!Skip
<1>5. ASSUME UNCHANGED <<mode, halted, generation>>, ActivePermits' \subseteq ActivePermits,
             manual' => manual, window' > 0 => window > 0, ActivePermits' = {} \/ UNCHANGED ActivePermits
      PROVE  [Contract!Next]_(Contract!vars)
  <2>1. Holder' = "NONE" \/ Holder' = Holder BY <1>5 DEF Holder
  <2> QED BY <1>5, <2>1 DEF Contract!Withdraw
<1>6. ASSUME NEW t, AuthorizeManual(t) PROVE [Contract!Next]_(Contract!vars)
  <2>1. mode = "MANUAL_LIVE" /\ UNCHANGED <<mode, halted, generation>> /\ manual' /\ window' > 0
    BY <1>6 DEF AuthorizeManual
  <2>2. CASE halted
    BY <2>1, <2>2 DEF Holder
  <2>3. CASE ~halted
    <3>1. Holder' = "MANUAL" /\ Holder \in {"NONE", "MANUAL"} BY <2>1, <2>3 DEF Holder
    <3> QED BY <2>1, <2>3, <3>1 DEF Contract!GrantManual
  <2> QED BY <2>2, <2>3
<1>7. ASSUME ClearRows PROVE [Contract!Next]_(Contract!vars)
  <2>1. Holder' = "NONE" /\ halted' = FALSE /\ generation' = generation + 1
    BY <1>7 DEF ClearRows, Holder, WithdrawAll, NextGeneration
  <2>2. Contract!Advance BY <2>1
  <2>3. CASE halted
    <3>1. Holder = "NONE" BY <2>3, HolderTypes
    <3> QED BY <2>1, <2>2, <3>1, Zenon DEF Contract!Release
  <2>4. CASE ~halted
    <3>1. halted' = halted BY <2>1, <2>4 DEF TypeOK, DatabaseOK
    <3> QED BY <2>1, <2>2, <3>1, Zenon DEF Contract!Withdraw
  <2> QED BY <2>3, <2>4
<1>8. CASE BindSetup
  <2>1. Holder' = "NONE" /\ halted' = FALSE /\ generation' = generation
    BY <1>8 DEF BindSetup, Holder
  <2>2. Contract!Advance BY <2>1
  <2>3. CASE halted
    <3>1. Holder = "NONE" BY <2>3, HolderTypes
    <3> QED BY <2>1, <2>2, <3>1, Zenon DEF Contract!Release
  <2>4. CASE ~halted
    <3>1. halted' = halted BY <2>1, <2>4 DEF TypeOK, DatabaseOK
    <3> QED BY <2>1, <2>2, <3>1, Zenon DEF Contract!Withdraw
  <2> QED BY <2>3, <2>4
<1>9. ASSUME NEW t \in Threads, PauseCommits(t) PROVE [Contract!Next]_(Contract!vars)
  <2>1. UNCHANGED <<mode, halted, generation, manual, window>>
        /\ live' = (live \ ActivePermits) \cup {[p EXCEPT !.status = "PAUSED"] : p \in ActivePermits}
    BY <1>9 DEF PauseCommits
  <2>2. \A p \in ActivePermits : [p EXCEPT !.status = "PAUSED"].status = "PAUSED"
    BY DEF ActivePermits, TypeOK, DatabaseOK
  <2>3. ActivePermits' = {} BY <2>1, <2>2 DEF ActivePermits
  <2> QED BY <2>1, <2>3, <1>5
<1>10. ASSUME NEW t \in Threads, RevokeManual(t) \/ \E c \in Orders : Submit(t, c)
       PROVE  [Contract!Next]_(Contract!vars)
  <2>1. UNCHANGED <<mode, halted, generation, live>> BY <1>10 DEF RevokeManual, Submit
  <2>2. (manual' => manual) /\ (window' > 0 => window > 0)
    <3>1. CASE RevokeManual(t)
      <4>1. manual' = FALSE /\ window' = 0 BY <3>1, Zenon DEF RevokeManual
      <4> QED BY <4>1
    <3>2. ASSUME NEW c \in Orders, Submit(t, c) PROVE (manual' => manual) /\ (window' > 0 => window > 0)
      <4>1. manual' \in {manual, FALSE} /\ UNCHANGED window BY <3>2 DEF Submit
      <4>2. manual' => manual BY <4>1, Zenon
      <4> QED BY <4>1, <4>2
    <3> QED BY <1>10, <3>1, <3>2
  <2> QED BY <1>5, <2>1, <2>2 DEF ActivePermits
<1>11. CASE TimePasses \/ ManualEnds \/ \E g \in 1..MaxGeneration : PermitExpires(g)
  <2>1. UNCHANGED <<mode, halted, generation>> /\ (window' > 0 => window > 0)
    BY <1>11, PassingSteps, ExpirySteps DEF ManualEnds, TypeOK, DatabaseOK
  <2>2. manual' => manual
    <3>1. CASE TimePasses \/ \E g \in 1..MaxGeneration : PermitExpires(g)
      BY <3>1, PassingSteps, ExpirySteps
    <3>2. CASE ManualEnds
      BY <3>2, Zenon DEF ManualEnds
    <3> QED BY <1>11, <3>1, <3>2
  <2>3. live' = {} \/ live' = live
    <3>1. CASE TimePasses \/ ManualEnds
      BY <3>1, PassingSteps DEF ManualEnds
    <3>2. ASSUME NEW g \in 1..MaxGeneration, PermitExpires(g) PROVE live' = {} \/ live' = live
      <4>1. live' = {p \in live : p.generation # g} BY <3>2, ExpirySteps
      <4>2. \A p \in live : live = {p} BY DEF LivePermitIsNewest
      <4> QED BY <4>1, <4>2
    <3> QED BY <1>11, <3>1, <3>2
  <2>4. ActivePermits' = {} \/ UNCHANGED ActivePermits BY <2>1, <2>3 DEF ActivePermits
  <2> QED BY <2>1, <2>2, <2>4, <1>5
<1>12. CASE UNCHANGED database
  BY <1>12, SameHolder
<1>13. CASE Start \/ Stop \/ SetMode
  <2>1. mode' \in Modes BY DatabaseTypes DEF DatabaseOK
  <2> QED BY <1>13, <1>2, <2>1 DEF Start, Stop, SetMode
<1>14. CASE BindChange
  BY <1>14, <1>3 DEF BindChange, Actors
<1>15. CASE ClearHalt \/ EnableFirstTrade
  BY <1>15, <1>7, <1>12 DEF ClearHalt, EnableFirstTrade
<1>16. ASSUME NEW t \in Callers, Halt(t) PROVE [Contract!Next]_(Contract!vars)
  BY <1>16, <1>3, CallersAct DEF Halt
<1> QED BY DatabaseSteps, <1>1, <1>4, <1>6, <1>8, <1>9, <1>10, <1>11, <1>12, <1>13, <1>14, <1>15, <1>16

-----------------------------------------------------------------------------
(* The theorems.                                                           *)

LEMMA Initially ==
  ASSUME Init
  PROVE  Inv /\ Contract!Init
<1> USE DEF Init
<1>1. Inv
  <2>1. DatabaseOK
    <3>1. halted \in BOOLEAN /\ manual \in BOOLEAN BY Zenon
    <3> QED BY <3>1 DEF DatabaseOK, Modes
  <2>2. FilesOK
    <3>1. haltFile \in BOOLEAN /\ verified \in BOOLEAN /\ bound \in BOOLEAN BY Zenon
    <3>2. authorization \in Authorizations BY WritesAreTyped DEF Permit, Authorizations
    <3> QED BY <3>1, <3>2 DEF FilesOK, Modes
  <2>3. ActorsOK BY WritesAreTyped, PlainTypes DEF ActorsOK, Modes, Actors
  <2>12. GrantsStand BY PlainTypes DEF GrantsStand, Grants
  <2>13. PauseWrote BY DEF PauseWrote
  <2>4. AdapterOK BY DEF AdapterOK, Modes
  <2>5. HistoryOK BY DEF HistoryOK
  <2>6. LivePermitIsNewest BY DEF LivePermitIsNewest
  <2>7. HaltReachesAdapter BY DEF HaltReachesAdapter
  <2>8. Late BY DEF Late
  <2>9. Fenced BY PlainTypes, PermitTypes DEF Fenced, Actors
  <2>10. Clearing BY DEF Clearing
  <2>11. OnlyGrantedOpenings
    <3>1. CASE authorization = Plain("NONE")
      <4>1. authorization.type = "NONE" BY <3>1, PlainTypes
      <4> QED BY <4>1 DEF OnlyGrantedOpenings, Grants
    <3>2. CASE authorization = Permit(1) /\ live = {[generation |-> 1, status |-> "ACTIVE"]}
      <4>1. [generation |-> 1, status |-> "ACTIVE"] \in ActivePermits BY <3>2 DEF ActivePermits
      <4>2. authorization.type = "PERMIT" /\ authorization.generation = 1 BY <3>2 DEF Permit
      <4>3. Backed(authorization) BY <4>1, <4>2 DEF Backed
      <4> QED BY <4>3 DEF OnlyGrantedOpenings
    <3> QED BY <3>1, <3>2
  <2> QED BY <2>1, <2>2, <2>3, <2>4, <2>5, <2>6, <2>7, <2>8, <2>9, <2>10, <2>11,
          <2>12, <2>13 DEF Inv, TypeOK
<1>2. Contract!Init
  BY DEF Contract!Init, Holder, ActivePermits
<1> QED BY <1>1, <1>2

LEMMA InvStep ==
  ASSUME Inv, [Next]_vars
  PROVE  Inv'
<1>1. CASE Next
  BY <1>1, TypeStep, NewestStep, HaltStep, LateStep, FencedStep, ClearingStep, GrantedStep,
     StandStep, PauseStep DEF Inv
<1>2. CASE UNCHANGED vars
  <2> USE DEF vars, database, files, consoleVars, adapterVars, history
  <2>5. TypeOK'
    BY <1>2 DEF Inv, TypeOK, DatabaseOK, FilesOK, ActorsOK, Idle, AdapterOK, HistoryOK
  <2>1. TypeOK' /\ LivePermitIsNewest' /\ HaltReachesAdapter' /\ Late' /\ Fenced' /\ Clearing'
    BY <1>2, <2>5 DEF Inv, LivePermitIsNewest, HaltReachesAdapter, Late, Fenced, Clearing
  <2>2. Backed(authorization)' <=> Backed(authorization)
    BY <1>2, BackedSame DEF vars, database, files
  <2>3. OnlyGrantedOpenings' /\ PauseWrote'
    BY <1>2, <2>2 DEF vars, database, files, history, consoleVars, Inv, OnlyGrantedOpenings, ChangeOwed,
                      OwesAuthorization, PauseWrote
  <2>4. GrantsStand' BY <1>2, OwedStands DEF vars, database, Inv
  <2> QED BY <2>1, <2>3, <2>4 DEF Inv
<1> QED BY <1>1, <1>2

(* All of Inv holds of Worker, console and Adapter together, whichever of  *)
(* their steps interleave and wherever a process is killed.                *)
THEOREM Inductive == Spec => []Inv
BY Initially, InvStep, PTL DEF Spec

(* The variables keep their types, and a process that has ended owes no    *)
(* file.                                                                   *)
THEOREM TypeCorrect == Spec => []TypeOK
<1>1. Inv => TypeOK BY DEF Inv
<1> QED BY <1>1, Inductive, PTL

(* No two permits are ever ACTIVE or PAUSED, and the one that is was       *)
(* granted by the newest grant or revocation.                              *)
THEOREM NewestPermitLives == Spec => []LivePermitIsNewest
<1>1. Inv => LivePermitIsNewest BY DEF Inv
<1> QED BY <1>1, Inductive, PTL

(* A committed halt is in the Adapter's file, or its write is owed, failed *)
(* or was undone by a clear_halt begun before it.                          *)
THEOREM HaltsReachAdapter == Spec => []HaltReachesAdapter
<1>1. Inv => HaltReachesAdapter BY DEF Inv
<1> QED BY <1>1, Inductive, PTL

(* Without a halt, what the Adapter would let through for an opening is    *)
(* granted in the database for no shorter a time, or the file of the last  *)
(* change is owed, or the file is stale in one of the named ways.          *)
THEOREM OnlyGrantedOpeningsHold == Spec => []OnlyGrantedOpenings
<1>1. Inv => OnlyGrantedOpenings BY DEF Inv
<1> QED BY <1>1, Inductive, PTL

(* A halted Adapter submits at most the one opening it had checked.        *)
THEOREM AtMostOneLateOpening == Spec => []OneLateOpening
<1>1. Inv => OneLateOpening BY DEF Inv, Late, OneLateOpening
<1> QED BY <1>1, Inductive, PTL

(* No opening bound to a permit of before a restart of the Worker passes   *)
(* the Adapter once the Worker serves again.                               *)
THEOREM RestartsFencePermits == Spec => RestartFencesPermits
<1>1. ASSUME Inv, NEW c \in Commands, worker = "UP", Check(c), c.opens, c.mode = "LIMITED_AUTO"
      PROVE  c.generation > epoch
  <2>1. LocallyAuthorized(c) BY <1>1 DEF Check, PassesFinalRisk
  <2>2. authorization.type = "PERMIT" /\ authorization.generation = c.generation
    BY <1>1, <2>1 DEF LocallyAuthorized
  <2> QED BY <1>1, <2>2 DEF Inv, Fenced
<1>2. Inv => [\A c \in Commands :
               worker = "UP" /\ Check(c) /\ c.opens /\ c.mode = "LIMITED_AUTO"
                 => c.generation > epoch]_vars
  BY <1>1
<1> QED BY <1>2, Inductive, PTL DEF RestartFencesPermits

(* Worker, console and files together keep the owner's contract: one       *)
(* authority at a time, growing fences, and no way from a stop to a grant  *)
(* but through nothing.                                                    *)
THEOREM KeepsAuthority == Spec => ImplementsAuthority
<1>1. Init => Contract!Init BY Initially
<1>2. Inv /\ [Next]_vars => [Contract!Next]_(Contract!vars)
  <2>1. ASSUME Inv, Next PROVE [Contract!Next]_(Contract!vars)
    BY <2>1, ContractStep DEF Inv
  <2>2. ASSUME UNCHANGED vars PROVE [Contract!Next]_(Contract!vars)
    <3>1. UNCHANGED database BY <2>2 DEF vars, database
    <3> QED BY <3>1, SameHolder DEF Contract!vars
  <2> QED BY <2>1, <2>2
<1> QED BY <1>1, <1>2, Inductive, PTL DEF Spec, ImplementsAuthority, Contract!Spec

=============================================================================
