-------------------------- MODULE ConnectionSync_proofs --------------------------
(***************************************************************************)
(* For any number of runs and of disturbances: the types of                *)
(* ConnectionSync, the run behind a required reconciliation, the evidence  *)
(* that ends one, and the snapshots behind a completed sync. TypeOK is     *)
(* inductive as it stands; Inv adds where the snapshots and the answer of  *)
(* the loop's own command are.                                             *)
(***************************************************************************)
EXTENDS ConnectionSync, TLAPS

(* Forgetting the command keeps the types of what it changes.              *)
LEMMA ForgetTypes ==
  ASSUME TypeOK, Forget
  PROVE  /\ queue' \subseteq {"MINE", "OTHER"}
         /\ work' \in {Idle} \cup Executions
         /\ acks' = {} /\ timer' = "NONE"
         /\ flight' \in [Kinds -> SUBSET Marks] /\ evidence' \in [Kinds -> SUBSET Marks]
<1>1. flight' \in [Kinds -> SUBSET Marks]
  BY DEF TypeOK, Forget
<1>2. evidence' \in [Kinds -> SUBSET Marks]
  BY DEF TypeOK, Forget
<1>3. work' \in {Idle} \cup Executions
  BY DEF TypeOK, Forget, Idle, Executions
<1> QED  BY <1>1, <1>2, <1>3 DEF TypeOK, Forget

(* A disturbance is counted up to its bound.                               *)
LEMMA Counted ==
  ASSUME TypeOK, Disturb \/ Calm
  PROVE  disturbances' \in 0..MaxDisturbances
BY SyncAssumption DEF TypeOK, Disturb, Calm

LEMMA InitTypeOK == Init => TypeOK
<1> SUFFICES ASSUME Init PROVE TypeOK
  OBVIOUS
<1>1. evidence \in [Kinds -> SUBSET Marks] /\ flight \in [Kinds -> SUBSET Marks]
  BY DEF Init
<1>2. queue \subseteq {"MINE", "OTHER"} /\ acks \subseteq {"SYNC_COMPLETED", "ADAPTER_REJECTED"}
  BY DEF Init
<1>3. disturbances \in 0..MaxDisturbances
  BY SyncAssumption DEF Init
<1>4. RunsBehindFlag
  BY DEF Init, RunsBehindFlag
<1> QED  BY <1>1, <1>2, <1>3, <1>4 DEF Init, TypeOK

(* TypeOK is kept by every step: while reconciliation is required, some    *)
(* run is open or in review.                                               *)
LEMMA TypeOKInductive == TypeOK /\ [Next]_vars => TypeOK'
<1> SUFFICES ASSUME TypeOK, [Next]_vars PROVE TypeOK'
  OBVIOUS
<1> USE DEF adapterVars, loopVars, pathVars, runVars
<1>0. ASSUME UNCHANGED runVars PROVE RunsBehindFlag'
  BY <1>0 DEF TypeOK, RunsBehindFlag
<1>1. CASE AdapterStarts
  BY <1>0, <1>1, Counted DEF AdapterStarts, TypeOK
<1>2. CASE AdapterStops
  BY <1>0, <1>2, Counted DEF AdapterStops, TypeOK
<1>3. CASE Reconfigure
  BY <1>0, <1>3, Counted DEF Reconfigure, TypeOK
<1>4. ASSUME NEW c \in {"MINE", "OTHER"}, TakeSync(c) PROVE TypeOK'
  BY <1>0, <1>4, Counted DEF TakeSync, TypeOK, Executions
<1>5. ASSUME NEW c \in {"MINE", "OTHER"}, RefuseSync(c) PROVE TypeOK'
  BY <1>0, <1>5, Counted DEF RefuseSync, Answered, TypeOK
<1>6. ASSUME NEW k \in Kinds, NEW n \in {"POSITION", "ACK"}, Emit(k, n) PROVE TypeOK'
  <2>1. Existing \subseteq Marks
    BY DEF Existing, Marks
  <2>2. flight' \in [Kinds -> SUBSET Marks]
    BY <1>6, <2>1 DEF Emit, TypeOK
  <2>3. work' \in Executions
    BY <1>6 DEF Emit, TypeOK, Idle, Executions, Kinds
  <2>4. disturbances' \in 0..MaxDisturbances
    BY <1>6, Counted DEF Emit
  <2> QED  BY <1>0, <1>6, <2>2, <2>3, <2>4 DEF Emit, TypeOK
<1>7. CASE AckSync
  <2>1. work' \in Executions
    BY <1>7 DEF AckSync, TypeOK, Idle, Executions
  <2> QED  BY <1>0, <1>7, <2>1, Counted DEF AckSync, Answered, TypeOK
<1>8. CASE Archive
  <2>1. queue' \subseteq {"MINE", "OTHER"}
    BY <1>8 DEF Archive, TypeOK
  <2> QED  BY <1>0, <1>8, <2>1, Counted DEF Archive, TypeOK
<1>9. CASE SyncFails
  <2>1. queue' \subseteq {"MINE", "OTHER"}
    BY <1>9 DEF SyncFails, TypeOK
  <2>2. acks' \subseteq {"SYNC_COMPLETED", "ADAPTER_REJECTED"}
    BY <1>9 DEF SyncFails, Answered, TypeOK
  <2> QED  BY <1>0, <1>9, <2>1, <2>2, Counted DEF SyncFails, TypeOK
<1>10. CASE Heartbeat
  BY <1>0, <1>10, Counted DEF Heartbeat, TypeOK
<1>11. CASE HeartbeatAges
  BY <1>0, <1>11, Counted DEF HeartbeatAges, TypeOK
<1>12. ASSUME NEW answered \in BOOLEAN,
              NEW taken \in [Kinds -> SUBSET Marks], Ingest(answered, taken)
       PROVE  TypeOK'
  <2>1. evidence' \in [Kinds -> SUBSET Marks] /\ flight' \in [Kinds -> SUBSET Marks]
    BY <1>12 DEF Ingest, TypeOK
  <2>2. disturbances' \in 0..MaxDisturbances
    BY <1>12, Counted DEF Ingest
  <2>3. /\ message' \in {"NONE", "PENDING_DELIVERY", "DELIVERED", "SYNC_COMPLETED", "ADAPTER_REJECTED"}
        /\ acks' \subseteq {"SYNC_COMPLETED", "ADAPTER_REJECTED"}
    BY <1>12 DEF Ingest, TypeOK
  <2> QED  BY <1>0, <1>12, <2>1, <2>2, <2>3 DEF Ingest, TypeOK
<1>13. CASE Dispatch
  <2>1. disturbances' \in 0..MaxDisturbances
    BY <1>13, Counted DEF Dispatch
  <2> QED  BY <1>0, <1>13, <2>1 DEF Dispatch, TypeOK
<1>14. CASE QueueOther
  BY <1>0, <1>14, Counted DEF QueueOther, TypeOK
<1>15. CASE SyncWaits
  BY <1>0, <1>15, Counted, ForgetTypes DEF SyncWaits, TypeOK
<1>16. CASE SyncRequests
  BY <1>0, <1>16, Counted, ForgetTypes DEF SyncRequests, TypeOK
<1>17. ASSUME NEW active \in BOOLEAN, Reconcile(active) PROVE TypeOK'
  <2>1. run' \in [Runs -> {"NONE", "OPEN", "MANUAL_REVIEW", "COMPLETED"}]
    BY <1>17 DEF Reconcile, TypeOK
  <2>2. /\ required' \in BOOLEAN
        /\ required' <=> required /\ \A r \in Runs : run'[r] = "COMPLETED" => run[r] = "COMPLETED"
    BY <1>17 DEF Reconcile
  <2>3. ASSUME NEW r \in Runs
        PROVE  run'[r] = run[r] \/ (run[r] = "OPEN" /\ run'[r] \in {"MANUAL_REVIEW", "COMPLETED"})
    BY <1>17 DEF Reconcile
  <2>4. ASSUME required' PROVE \E r \in Runs : run'[r] \in {"OPEN", "MANUAL_REVIEW"}
    <3>1. PICK r \in Runs : run[r] \in {"OPEN", "MANUAL_REVIEW"}
      BY <2>2, <2>4 DEF TypeOK, RunsBehindFlag
    <3> QED  BY <2>2, <2>3, <2>4, <3>1
  <2>5. ASSUME NEW r \in Runs, run'[r] = "OPEN"
        PROVE  required' \/ \E q \in Runs : run'[q] = "COMPLETED"
    <3>1. run[r] = "OPEN"
      BY <2>3, <2>5
    <3>2. CASE required
      BY <2>2, <3>2
    <3>3. CASE \E q \in Runs : run[q] = "COMPLETED"
      BY <2>3, <3>3
    <3> QED  BY <3>1, <3>2, <3>3 DEF TypeOK, RunsBehindFlag
  <2>6. \A q \in Runs, r \in Runs : q < r /\ run'[r] # "NONE" => run'[q] # "NONE"
    BY <2>3 DEF TypeOK, RunsBehindFlag
  <2>7. RunsBehindFlag'
    BY <2>4, <2>5, <2>6 DEF RunsBehindFlag
  <2>8. disturbances' \in 0..MaxDisturbances
    BY <1>17, Counted DEF Reconcile
  <2> QED  BY <1>17, <2>1, <2>2, <2>7, <2>8 DEF Reconcile, TypeOK
<1>18. ASSUME NEW r \in Runs, NextRun(r), run' = [run EXCEPT ![r] = "OPEN"],
              required' = TRUE
       PROVE  RunsBehindFlag'
  <2>1. run'[r] = "OPEN" /\ \A q \in Runs : run[q] # "NONE" => run'[q] # "NONE"
    BY <1>18 DEF TypeOK
  <2>2. ASSUME NEW q \in Runs, NEW p \in Runs, q < p, run'[p] # "NONE" PROVE run'[q] # "NONE"
    <3>1. CASE p = r
      BY <1>18, <2>1, <2>2, <3>1, SyncAssumption DEF NextRun, Runs
    <3>2. CASE p # r
      BY <1>18, <2>1, <2>2, <3>2 DEF TypeOK, RunsBehindFlag
    <3> QED  BY <3>1, <3>2
  <2> QED  BY <1>18, <2>1, <2>2 DEF RunsBehindFlag
<1>19. ASSUME NEW r \in Runs, RequestReconciliation(r) PROVE TypeOK'
  <2>1. RunsBehindFlag'
    BY <1>18, <1>19 DEF RequestReconciliation
  <2> QED  BY <1>19, <2>1, Counted DEF RequestReconciliation, TypeOK
<1>20. ASSUME NEW active \in BOOLEAN, RestartWorker(active) PROVE TypeOK'
  <2>1. run' \in [Runs -> {"NONE", "OPEN", "MANUAL_REVIEW", "COMPLETED"}] /\ required' \in BOOLEAN
    BY <1>20 DEF RestartWorker, TypeOK
  <2>2. RunsBehindFlag'
    <3>1. CASE active /\ NeedsRun
      BY <1>18, <1>20, <3>1 DEF RestartWorker
    <3>2. CASE active /\ ~NeedsRun
      BY <1>20, <3>2 DEF RestartWorker, NeedsRun, TypeOK, RunsBehindFlag
    <3>3. CASE ~active
      BY <1>0, <1>20, <3>3 DEF RestartWorker, TypeOK
    <3> QED  BY <3>1, <3>2, <3>3
  <2> QED  BY <1>20, <2>1, <2>2, Counted, ForgetTypes DEF RestartWorker, TypeOK
<1>21. CASE RetryElapses
  BY <1>0, <1>21, Counted DEF RetryElapses, TypeOK
<1>22. CASE TtlElapses
  BY <1>0, <1>22, Counted DEF TtlElapses, TypeOK
<1>23. CASE UNCHANGED vars
  BY <1>0, <1>23 DEF vars, TypeOK
<1>24. ASSUME NEW answered \in BOOLEAN,
              NEW a \in SUBSET flight["ACCOUNT"], NEW p \in SUBSET flight["POSITION"]
       PROVE  [k \in Kinds |-> IF k = "ACCOUNT" THEN a ELSE p] \in [Kinds -> SUBSET Marks]
  BY DEF TypeOK, Kinds
<1> QED
  BY <1>1, <1>2, <1>3, <1>4, <1>5, <1>6, <1>7, <1>8, <1>9, <1>10, <1>11, <1>12, <1>13, <1>14,
     <1>15, <1>16, <1>17, <1>19, <1>20, <1>21, <1>22, <1>23, <1>24 DEF Next, Kinds

(* The types hold throughout. While reconciliation is required a run is    *)
(* open, so that evidence can end it, or in MANUAL_REVIEW, where only the  *)
(* operator's next request can; and an open run loses the flag to nothing *)
(* but another that COMPLETED (require_on_startup, scan_once).             *)
THEOREM TypeCorrect == Spec => []TypeOK
<1>1. Init => TypeOK
  BY InitTypeOK
<1>2. TypeOK /\ [Next]_vars => TypeOK'
  BY TypeOKInductive
<1> QED  BY <1>1, <1>2, PTL DEF Spec

-----------------------------------------------------------------------------
(* What an answer, and an ended run, say of the snapshots.                 *)

(* A command is executed by a running Adapter and stays in its folder      *)
(* until the end, so that a kill repeats it.                               *)
Kept == work # Idle => up /\ work.command \in queue

(* Only a command that the loop knows of waits, is executed or answered.   *)
Awaited ==
  "MINE" \in queue \/ work.command = "MINE" \/ acks # {} => message # "NONE"

(* A snapshot counts for a command or a run that was there before it.      *)
Counts(after) ==
  /\ Sync \in after => message # "NONE"
  /\ \A r \in Runs : r \in after => run[r] # "NONE"

Marked == \A k \in Kinds : Counts(flight[k]) /\ Counts(evidence[k])

(* A snapshot of kind k captured after the loop's command was written.     *)
Told(k) == Sync \in flight[k] \cup evidence[k]

Emitted ==
  work.command = "MINE" =>
    /\ work.step # "ACCOUNT" => Told("ACCOUNT")
    /\ work.step \in {"ACK", "ARCHIVE"} => Told("POSITION")

(* What SYNC_COMPLETED promises: the snapshots it is waited for are in the *)
(* database or on their way, and no failure can have kept them back.       *)
AnsweredWithSnapshots ==
  "SYNC_COMPLETED" \in acks \/ message = "SYNC_COMPLETED" => \A k \in Kinds : Told(k)

(* A run that is over was ended on snapshots captured after its start.     *)
EndedOnEvidence ==
  \A r \in Runs : run[r] \in {"COMPLETED", "MANUAL_REVIEW"} => \A k \in Kinds : r \in evidence[k]

Inv == TypeOK /\ Kept /\ Awaited /\ Marked /\ Emitted /\ AnsweredWithSnapshots /\ EndedOnEvidence

(* Once the command is forgotten, nothing is left that speaks of it.       *)
LEMMA ForgetForgets ==
  ASSUME Inv, Forget
  PROVE  /\ "MINE" \notin queue' /\ work'.command # "MINE" /\ acks' = {}
         /\ work # Idle => "OTHER" \in queue' /\ work'.command = "OTHER"
         /\ work = Idle => work' = Idle
         /\ \A k \in Kinds : /\ flight'[k] = flight[k] \ {Sync}
                             /\ evidence'[k] = evidence[k] \ {Sync}
<1>1. work # Idle => work.command \in queue /\ work'.command = "OTHER"
  BY DEF Inv, TypeOK, Kept, Forget, Idle, Executions
<1>2. work = Idle => work' = Idle
  BY DEF Forget
<1>3. work # Idle => "OTHER" \in queue'
  BY <1>1 DEF Inv, TypeOK, Forget
<1>4. "MINE" \notin queue'
  BY DEF Inv, TypeOK, Forget
<1> QED BY <1>1, <1>2, <1>3, <1>4 DEF Forget, Idle

(* A command is forgotten when the loop has none, or a new one; what the   *)
(* runs have stays.                                                        *)
LEMMA AfterForget ==
  ASSUME Inv, TypeOK', Forget, up' = up, message' \in {"NONE", "PENDING_DELIVERY"},
         \A r \in Runs : /\ run[r] # "NONE" => run'[r] # "NONE"
                         /\ run'[r] \in {"COMPLETED", "MANUAL_REVIEW"} => run'[r] = run[r]
  PROVE  Inv'
<1>1. Kept' BY ForgetForgets DEF Inv, Kept, Idle
<1>2. Awaited' BY ForgetForgets DEF Awaited
<1>3. Marked'
  BY ForgetForgets, SyncAssumption DEF Inv, Marked, Counts, Runs, Sync
<1>4. Emitted' /\ AnsweredWithSnapshots'
  BY ForgetForgets DEF Emitted, AnsweredWithSnapshots
<1>5. EndedOnEvidence'
  BY ForgetForgets, SyncAssumption DEF Inv, EndedOnEvidence, Runs, Sync
<1> QED BY <1>1, <1>2, <1>3, <1>4, <1>5 DEF Inv

LEMMA InvInductive == Inv /\ [Next]_vars => Inv'
<1> SUFFICES ASSUME Inv, [Next]_vars PROVE Inv'
  OBVIOUS
<1> USE DEF adapterVars, loopVars, pathVars, runVars
<1>0. TypeOK' BY TypeOKInductive DEF Inv
<1> DEFINE Rest == Marked /\ Emitted /\ AnsweredWithSnapshots /\ EndedOnEvidence
<1>1. ASSUME UNCHANGED <<flight, evidence, run>>, work' = work \/ work' = Idle,
             message' = message \/ (message # "NONE" /\ message' = "DELIVERED"),
             "SYNC_COMPLETED" \in acks' => "SYNC_COMPLETED" \in acks
      PROVE  Rest'
  BY <1>1 DEF Inv, Marked, Counts, Emitted, AnsweredWithSnapshots, EndedOnEvidence, Told, Idle
<1>2. ASSUME UNCHANGED <<queue, work, acks, message>>, up' = up PROVE Kept' /\ Awaited'
  BY <1>2 DEF Inv, Kept, Awaited
<1>3. CASE AdapterStarts \/ Reconfigure \/ Heartbeat \/ HeartbeatAges
           \/ RetryElapses \/ TtlElapses \/ UNCHANGED vars
  <2>1. UNCHANGED <<flight, evidence, run, work, message, acks, queue>>
    BY <1>3 DEF AdapterStarts, Reconfigure, Heartbeat, HeartbeatAges, RetryElapses,
                TtlElapses, vars
  <2>2. Kept'
    BY <1>3, <2>1 DEF Inv, Kept, AdapterStarts, Reconfigure, Heartbeat, HeartbeatAges,
                      RetryElapses, TtlElapses, vars
  <2>3. Awaited' BY <2>1 DEF Inv, Awaited
  <2> QED BY <1>0, <1>1, <2>1, <2>2, <2>3 DEF Inv
<1>4. CASE AdapterStops
  <2>1. Kept' /\ Awaited' BY <1>4 DEF AdapterStops, Inv, Kept, Awaited, Idle
  <2> QED BY <1>0, <1>1, <1>4, <2>1 DEF AdapterStops, Inv
<1>5. ASSUME NEW c \in {"MINE", "OTHER"}, TakeSync(c) PROVE Inv'
  <2>1. Kept' /\ Awaited' BY <1>5 DEF TakeSync, Inv, Kept, Awaited
  <2>2. Emitted' BY <1>5 DEF TakeSync, Emitted
  <2>3. Marked' /\ AnsweredWithSnapshots' /\ EndedOnEvidence'
    BY <1>5 DEF TakeSync, Inv, Marked, Counts, AnsweredWithSnapshots, EndedOnEvidence, Told
  <2> QED BY <1>0, <2>1, <2>2, <2>3 DEF Inv
<1>6. ASSUME NEW c \in {"MINE", "OTHER"}, RefuseSync(c) PROVE Inv'
  <2>1. Kept' /\ Awaited' BY <1>6 DEF RefuseSync, Answered, Inv, Kept, Awaited
  <2>2. Rest' BY <1>1, <1>6 DEF RefuseSync, Answered
  <2> QED BY <1>0, <2>1, <2>2 DEF Inv
<1>7. ASSUME NEW k \in Kinds, NEW n \in {"POSITION", "ACK"}, Emit(k, n),
             n = "POSITION" <=> k = "ACCOUNT"
      PROVE  Inv'
  <2>1. work # Idle /\ work \in Executions /\ work' = [work EXCEPT !.step = n]
    BY <1>7 DEF Emit, Inv, TypeOK, Idle, Kinds
  <2>2. work'.command = work.command /\ work'.step = n /\ work' # Idle
    BY <2>1 DEF Executions, Idle
  <2>3. \A j \in Kinds : flight'[j] = IF j = k THEN flight[k] \cup (Existing \ evidence[k]) ELSE flight[j]
    BY <1>7 DEF Emit, Inv, TypeOK
  <2>4. work.command = "MINE" => Sync \in Existing
    BY <1>7 DEF Existing, Inv, Awaited
  <2>5. UNCHANGED <<queue, up, acks, message, evidence, run>>
    BY <1>7 DEF Emit
  <2>6. Kept' BY <2>1, <2>2, <2>5 DEF Inv, Kept
  <2>7. Awaited' BY <2>2, <2>5 DEF Inv, Awaited
  <2>8. Counts(Existing)
    <3>1. Sync \in Existing => message # "NONE" BY SyncAssumption DEF Existing, Runs, Sync
    <3>2. \A r \in Runs : r \in Existing => run[r] # "NONE"
      BY SyncAssumption DEF Existing, Runs, Sync
    <3> QED BY <3>1, <3>2 DEF Counts
  <2>9. Marked' BY <2>3, <2>5, <2>8 DEF Inv, Marked, Counts
  <2>10. \A j \in Kinds : Told(j) => Told(j)' BY <2>3, <2>5 DEF Told
  <2>11. work.command = "MINE" => Told(k)' BY <2>3, <2>4, <2>5 DEF Told
  <2>12. work.step = k BY <1>7 DEF Emit
  <2>13. Emitted' BY <1>7, <2>2, <2>10, <2>11, <2>12 DEF Inv, Emitted, Kinds
  <2>14. AnsweredWithSnapshots' /\ EndedOnEvidence'
    BY <2>5, <2>10 DEF Inv, AnsweredWithSnapshots, EndedOnEvidence
  <2> QED BY <1>0, <2>6, <2>7, <2>9, <2>13, <2>14 DEF Inv
<1>8. CASE AckSync
  <2>1. work # Idle /\ work \in Executions /\ work' = [work EXCEPT !.step = "ARCHIVE"]
    BY <1>8 DEF AckSync, Inv, TypeOK, Idle
  <2>2. work'.command = work.command /\ work'.step = "ARCHIVE" /\ work' # Idle
    BY <2>1 DEF Executions, Idle
  <2>3. UNCHANGED <<queue, up, message, flight, evidence, run>>
    BY <1>8 DEF AckSync
  <2>4. work.command = "MINE" => \A k \in Kinds : Told(k)
    BY <1>8 DEF AckSync, Inv, Emitted, Kinds
  <2>5. acks' = acks \/ work.command = "MINE"
    BY <1>8 DEF AckSync, Answered
  <2>6. Kept' /\ Awaited' BY <2>1, <2>2, <2>3, <2>5 DEF Inv, Kept, Awaited
  <2>7. Marked' /\ EndedOnEvidence' BY <2>3 DEF Inv, Marked, Counts, EndedOnEvidence
  <2>8. \A k \in Kinds : Told(k)' <=> Told(k) BY <2>3 DEF Told
  <2>9. Emitted' BY <2>2, <2>4, <2>8 DEF Emitted, Kinds
  <2>10. AnsweredWithSnapshots' BY <2>3, <2>4, <2>5, <2>8 DEF Inv, AnsweredWithSnapshots
  <2> QED BY <1>0, <2>6, <2>7, <2>9, <2>10 DEF Inv
<1>9. CASE Archive \/ SyncFails
  <2>1. work' = Idle /\ queue' \subseteq queue
    BY <1>9 DEF Archive, SyncFails
  <2>2. work.command = "MINE" \/ acks' = acks
    BY <1>9 DEF Archive, SyncFails, Answered
  <2>3. Kept' /\ Awaited'
    BY <1>9, <2>1, <2>2 DEF Archive, SyncFails, Inv, Kept, Awaited, Idle
  <2>4. Rest' BY <1>1, <1>9 DEF Archive, SyncFails, Answered
  <2> QED BY <1>0, <2>3, <2>4 DEF Inv
<1>10. ASSUME NEW answered \in BOOLEAN,
              NEW a \in SUBSET flight["ACCOUNT"], NEW p \in SUBSET flight["POSITION"],
              Ingest(answered, [k \in Kinds |-> IF k = "ACCOUNT" THEN a ELSE p])
       PROVE  Inv'
  <2> DEFINE taken == [k \in Kinds |-> IF k = "ACCOUNT" THEN a ELSE p]
  <2>0. \A k \in Kinds : taken[k] \subseteq flight[k] BY DEF Kinds
  <2>1. \A k \in Kinds : /\ flight'[k] = flight[k] \ taken[k]
                         /\ evidence'[k] = evidence[k] \cup taken[k]
    BY <1>10 DEF Ingest
  <2>2. UNCHANGED <<queue, up, work, run>>
    BY <1>10 DEF Ingest
  <2>3. \/ UNCHANGED <<message, acks>>
        \/ message' \in acks /\ acks' = {}
    BY <1>10 DEF Ingest
  <2>4. message # "NONE" => message' # "NONE" BY <2>3 DEF Inv, TypeOK
  <2>5. Kept' /\ Awaited' BY <2>2, <2>3, <2>4 DEF Inv, Kept, Awaited
  <2> HIDE DEF taken
  <2>7. Marked'
    <3>1. ASSUME NEW k \in Kinds PROVE Counts(flight[k])' /\ Counts(evidence[k])'
      BY <2>0, <2>1, <2>2, <2>4 DEF Inv, Marked, Counts
    <3> QED BY <3>1 DEF Marked
  <2>8. \A k \in Kinds : Told(k) => Told(k)' BY <2>1 DEF Told
  <2>9. Emitted' BY <2>2, <2>8 DEF Inv, Emitted, Kinds
  <2>10. AnsweredWithSnapshots' BY <2>3, <2>8 DEF Inv, AnsweredWithSnapshots
  <2>11. EndedOnEvidence' BY <2>1, <2>2 DEF Inv, EndedOnEvidence
  <2> QED BY <1>0, <2>5, <2>7, <2>9, <2>10, <2>11 DEF Inv
<1>11. CASE Dispatch
  <2>1. Kept' /\ Awaited' BY <1>11 DEF Dispatch, Inv, Kept, Awaited
  <2>2. Rest' BY <1>1, <1>11 DEF Dispatch
  <2> QED BY <1>0, <2>1, <2>2 DEF Inv
<1>12. CASE QueueOther
  <2>1. Kept' /\ Awaited' BY <1>12 DEF QueueOther, Inv, Kept, Awaited
  <2>2. Rest' BY <1>1, <1>12 DEF QueueOther
  <2> QED BY <1>0, <2>1, <2>2 DEF Inv
<1>13. CASE SyncWaits BY <1>0, <1>13, AfterForget DEF SyncWaits
<1>14. CASE SyncRequests BY <1>0, <1>14, AfterForget DEF SyncRequests
<1>15. ASSUME NEW active \in BOOLEAN, RestartWorker(active) PROVE Inv'
  <2>1. \A r \in Runs : run'[r] = run[r] \/ run'[r] = "OPEN"
    BY <1>15 DEF RestartWorker, Inv, TypeOK
  <2> QED BY <1>0, <1>15, <2>1, AfterForget DEF RestartWorker
<1>16. ASSUME NEW active \in BOOLEAN, Reconcile(active) PROVE Inv'
  <2>1. ASSUME NEW r \in Runs
        PROVE  \/ run'[r] = run[r]
               \/ run[r] # "NONE" /\ run'[r] # "NONE" /\ \A k \in Kinds : r \in evidence[k]
    BY <1>16 DEF Reconcile, Fresh
  <2>2. EndedOnEvidence' BY <1>16, <2>1 DEF Reconcile, Inv, EndedOnEvidence
  <2>3. Marked' BY <1>16, <2>1 DEF Reconcile, Inv, Marked, Counts
  <2>4. Emitted' /\ AnsweredWithSnapshots'
    BY <1>16 DEF Reconcile, Inv, Emitted, AnsweredWithSnapshots, Told
  <2>5. Kept' /\ Awaited' BY <1>2, <1>16 DEF Reconcile
  <2> QED BY <1>0, <2>2, <2>3, <2>4, <2>5 DEF Inv
<1>17. ASSUME NEW r \in Runs, RequestReconciliation(r) PROVE Inv'
  <2>1. \A q \in Runs : run'[q] = run[q] \/ run'[q] = "OPEN"
    BY <1>17 DEF RequestReconciliation, Inv, TypeOK
  <2>2. EndedOnEvidence' BY <1>17, <2>1 DEF RequestReconciliation, Inv, EndedOnEvidence
  <2>3. Marked' BY <1>17, <2>1 DEF RequestReconciliation, Inv, Marked, Counts
  <2>4. Emitted' /\ AnsweredWithSnapshots'
    BY <1>17 DEF RequestReconciliation, Inv, Emitted, AnsweredWithSnapshots, Told
  <2>5. Kept' /\ Awaited' BY <1>2, <1>17 DEF RequestReconciliation
  <2> QED BY <1>0, <2>2, <2>3, <2>4, <2>5 DEF Inv
<1>18. CASE Emit("ACCOUNT", "POSITION") \/ Emit("POSITION", "ACK")
  <2>1. CASE Emit("ACCOUNT", "POSITION") BY <1>7, <2>1 DEF Kinds
  <2>2. CASE Emit("POSITION", "ACK") BY <1>7, <2>2 DEF Kinds
  <2> QED BY <1>18, <2>1, <2>2
<1> HIDE DEF Rest
<1> QED
  BY <1>3, <1>4, <1>5, <1>6, <1>8, <1>9, <1>10, <1>11, <1>12, <1>13, <1>14, <1>15, <1>16, <1>17,
     <1>18 DEF Next

(* The inductive invariant of the evidence.                                *)
THEOREM Inductive == Spec => []Inv
<1>1. Init => Inv
  <2> SUFFICES ASSUME Init PROVE Inv
    OBVIOUS
  <2>1. TypeOK BY InitTypeOK
  <2>2. Kept /\ Awaited /\ Emitted BY DEF Init, Kept, Awaited, Emitted, Idle
  <2>3. Marked BY DEF Init, Marked, Counts
  <2>4. AnsweredWithSnapshots /\ EndedOnEvidence
    BY DEF Init, AnsweredWithSnapshots, EndedOnEvidence
  <2> QED BY <2>1, <2>2, <2>3, <2>4 DEF Inv
<1> QED BY <1>1, InvInductive, PTL DEF Spec

(* A sync that is answered SYNC_COMPLETED has brought its account and its  *)
(* position snapshot: they are in the database or on their way, so that    *)
(* the loop waits for nothing that will not come (_process_file emits      *)
(* before it acknowledges, and the loop's state names one command).        *)
THEOREM AnswersBringSnapshots == Spec => []AnsweredWithSnapshots
<1>1. Inv => AnsweredWithSnapshots BY DEF Inv
<1> QED BY <1>1, Inductive, PTL

(* A run that is COMPLETED or in MANUAL_REVIEW was ended on snapshots      *)
(* captured after its start (Reconciler.scan_once), and they stay.         *)
THEOREM RunsEndOnEvidence == Spec => []EndedOnEvidence
<1>1. Inv => EndedOnEvidence BY DEF Inv
<1> QED BY <1>1, Inductive, PTL

=============================================================================
