------------------------------- MODULE TradeGate -------------------------------
(***************************************************************************)
(* The way of a trade through the Worker's gate (core.py, futures.py): a   *)
(* preview judges the request on what the database knows, a grant permits  *)
(* it, a submit judges it again before and in the transaction that records *)
(* the intent. Between these calls, of several RPC threads, orders work    *)
(* and fill, snapshots age and are replaced, grants are given and taken    *)
(* back, the connection is lost and the Worker restarts.                   *)
(*                                                                         *)
(* One account, one instrument, long positions. Of a risk decision's       *)
(* figures the position, the orders, the connection and a permit's budget  *)
(* are kept; prices, funds and margins are compared in the same places and *)
(* left out. An intent's way to the broker is in OrderPipeline, the files  *)
(* that carry a grant to the Adapter are in TradeProtection.               *)
(***************************************************************************)
EXTENDS Naturals, Sequences, FiniteSets, CloseSplit

CONSTANTS
  Threads,      \* RPC threads
  Previews,     \* preview ids
  Requests,     \* the trade requests callers make
  Positions,    \* the positions snapshots may show
  ClosePolicy,  \* the account's close_policy
  MaxPosition,  \* max_position_volume_per_instrument
  MaxOrders,    \* max_orders of a permit
  MaxFailures,  \* max_consecutive_failures of a permit
  MaxPermits,   \* bound: permits granted
  MaxChanges    \* bound: changes around the calls, of connection, snapshot or protection

RunModes == {"OBSERVE_ONLY", "SIM_SIGNAL", "MANUAL_LIVE", "LIMITED_AUTO"}

ASSUME GateAssumption ==
  /\ Requests \subseteq [action : OrderActions, volume : Nat \ {0}, mode : RunModes, signal : STRING]
  /\ Positions \subseteq Sides /\ ClosePolicy \in ClosePolicies
  /\ "SESSION" \notin Previews /\ "PERMIT" \notin Previews
  /\ MaxPosition \in Nat /\ MaxOrders \in Nat /\ MaxFailures \in Nat \ {0}
  /\ MaxPermits \in Nat /\ MaxChanges \in Nat

VARIABLES
  mode, halted,      \* system_state
  connection,        \* the heartbeat, and reconciliation_required
  shown, fresh,      \* the newest position snapshot, and whether it is young enough
  preview,           \* trade_previews
  expired,           \* the previews whose time is over
  approvals,         \* the previews with an approval neither used nor expired
  session, window,   \* manual_session and live_until are in the future
  permit,            \* the newest auto_permit
  intents,           \* trade_intents in the order they were recorded
  op,                \* op[t]: what RPC thread t is about to do
  given,             \* history: the grants given and not taken back
  changes            \* bound

grants == <<approvals, session, window, permit, given>>
state == <<mode, halted>>
view == <<connection, shown, fresh>>
vars == <<state, view, preview, expired, grants, intents, op, changes>>

Opens(r) == r.action = "OPEN"
NoPreview == [made |-> FALSE]
Idle == [at |-> "IDLE"]

-----------------------------------------------------------------------------
(* The judgement: _build_current.                                          *)

When(condition, reason) == IF condition THEN {reason} ELSE {}

WithStatus(S) == {i \in DOMAIN intents : intents[i].status \in S}
Active == WithStatus({"WORKING"})                    \* of ACTIVE_ORDER_STATES
DailyOrders == Cardinality(WithStatus({"WORKING", "FILLED"}))  \* orders seen at the broker
Failed == WithStatus({"FAILED", "SUBMIT_UNKNOWN"})   \* of AUTO_FAILURE_STATES

Consumed(p) == \E i \in DOMAIN intents : intents[i].preview = p

\* The children; none when split_order refuses.
Children(r) ==
  IF Splittable(r.action, r.volume, shown, ClosePolicy)
    THEN SplitOrder(r.action, r.volume, shown, ClosePolicy) ELSE <<>>

RiskReasons(r) ==
  When(~fresh, "POSITION_STALE")
    \cup When(Opens(r) /\ shown.today + shown.yesterday + r.volume > MaxPosition, "MAX_INSTRUMENT_POSITION")
    \cup When(Children(r) = <<>>, "POSITION_INSUFFICIENT")
    \cup When(Active # {}, "ACTIVE_ORDER_CONFLICT")

(* Mutant: only the permit's own orders are asked for an unknown outcome. *)
HealthReasonsOfPermit ==
  When(mode # "LIMITED_AUTO", "AUTO_MODE_NOT_ENABLED")
    \cup When(halted, "AUTO_TRADING_HALTED")
    \cup When(connection = "RECONCILE", "AUTO_RECONCILIATION_REQUIRED")
    \cup When(connection = "OFFLINE", "AUTO_ADAPTER_NOT_READY")
    \cup When(~fresh, "AUTO_POSITION_SNAPSHOT_STALE")
    \cup When(\E i \in WithStatus({"SUBMIT_UNKNOWN"}) : intents[i].permit = permit.id, "AUTO_SUBMIT_UNKNOWN_PRESENT")

HealthReasons ==
  When(mode # "LIMITED_AUTO", "AUTO_MODE_NOT_ENABLED")
    \cup When(halted, "AUTO_TRADING_HALTED")
    \cup When(connection = "RECONCILE", "AUTO_RECONCILIATION_REQUIRED")
    \cup When(connection = "OFFLINE", "AUTO_ADAPTER_NOT_READY")
    \cup When(~fresh, "AUTO_POSITION_SNAPSHOT_STALE")
    \cup When(WithStatus({"SUBMIT_UNKNOWN"}) # {}, "AUTO_SUBMIT_UNKNOWN_PRESENT")

PauseReasons ==
  {"AUTO_RECONCILIATION_REQUIRED", "AUTO_ADAPTER_NOT_READY", "AUTO_POSITION_SNAPSHOT_STALE",
   "AUTO_SUBMIT_UNKNOWN_PRESENT", "AUTO_CONSECUTIVE_FAILURE_LIMIT"}

\* auto_permit_usage: an intent of a permit reserves one order for each of its legs.
OnPermit(k) == {i \in DOMAIN intents : intents[i].permit = k}
TwoLegged(k) == {i \in OnPermit(k) : Len(intents[i].legs) = 2}

(* Mutant: an order counts when the broker has shown it. *)
UsageSeen(k) == Cardinality(OnPermit(k) \cap WithStatus({"WORKING", "FILLED"}))

Usage(k) == Cardinality(OnPermit(k)) + Cardinality(TwoLegged(k))

\* The failures at the end of the permit's intents.
ConsecutiveFailures(k) ==
  Cardinality({i \in OnPermit(k) : \A j \in OnPermit(k) : j >= i => j \in Failed})

Usable(r) == permit.status = "ACTIVE" \/ (permit.status = "PAUSED" /\ ~Opens(r))

PolicyReasons(r) ==
  IF ~Opens(r) THEN {}
  ELSE When(Usage(permit.id) + Len(Children(r)) > MaxOrders, "AUTO_ORDER_COUNT_EXCEEDED")
         \cup When(ConsecutiveFailures(permit.id) >= MaxFailures, "AUTO_CONSECUTIVE_FAILURE_LIMIT")
         \cup HealthReasons

GateReasons(r) ==
  When(r.mode # mode, "MODE_MISMATCH")
    \cup When(halted /\ Opens(r), "TRADING_HALTED")
    \cup When(connection = "RECONCILE", "RECONCILIATION_REQUIRED")
    \cup When(connection = "OFFLINE", "ADAPTER_STALE")
    \cup IF mode # "LIMITED_AUTO" \/ (halted /\ ~Opens(r)) THEN {}
         ELSE IF Usable(r) THEN PolicyReasons(r)
         ELSE {IF permit.status = "PAUSED" THEN "PAUSE_NEW_OPEN" ELSE "AUTO_PERMIT_REQUIRED"}

Reasons(r) == RiskReasons(r) \cup GateReasons(r)
Allowed(r) == Reasons(r) = {}

\* decision_material, which the fingerprint is of.
Material(r) ==
  [legs |-> Children(r), position |-> shown, active |-> Active, orders |-> DailyOrders,
   reasons |-> Reasons(r), mode |-> mode, halted |-> halted, connection |-> connection]

(* Nothing is previewed or granted; the Worker has reconciled and serves.  *)
Init ==
  /\ mode \in {"MANUAL_LIVE", "LIMITED_AUTO"} /\ halted = FALSE
  /\ connection = "READY" /\ shown \in Positions /\ fresh = TRUE
  /\ preview = [p \in Previews |-> NoPreview] /\ expired = {}
  /\ approvals = {} /\ session = FALSE /\ window = FALSE
  /\ permit = [id |-> 0, status |-> "NONE", struck |-> FALSE]
  /\ intents = <<>>
  /\ op = [t \in Threads |-> Idle]
  /\ given = {} /\ changes = 0

-----------------------------------------------------------------------------
(* Previews and submits.                                                   *)

\* What follows a LIMITED_AUTO refusal: a pause, where a reason is serious.
PauseAfter(r) ==
  IF r.mode = "LIMITED_AUTO" /\ Reasons(r) \cap PauseReasons # {}
    THEN [at |-> "PAUSE", struck |-> "AUTO_CONSECUTIVE_FAILURE_LIMIT" \in Reasons(r)]
    ELSE Idle

PreviewTrade(t, p, r) ==
  /\ op[t] = Idle /\ ~preview[p].made
  /\ preview' = [preview EXCEPT ![p] = [made |-> TRUE, request |-> r, material |-> Material(r)]]
  /\ op' = [op EXCEPT ![t] = PauseAfter(r)]
  /\ UNCHANGED <<state, view, expired, grants, intents, changes>>

(* _pause_active_auto_permit, on reasons found in an earlier transaction:  *)
(* the permit it pauses is the one that is active now.                     *)
PausePermit(t) ==
  /\ op[t].at = "PAUSE"
  /\ op' = [op EXCEPT ![t] = Idle]
  /\ IF permit.status = "ACTIVE"
       THEN /\ permit' = [permit EXCEPT !.status = "PAUSED", !.struck = op[t].struck]
            /\ given' = given \ {"PERMIT"}
       ELSE UNCHANGED <<permit, given>>
  /\ UNCHANGED <<state, view, preview, expired, approvals, session, window, intents, changes>>

Loadable(p) == preview[p].made /\ p \notin expired

(* submit_trade_intent up to its transaction. For the other modes a        *)
(* refusal has to wait for the transaction.                                *)
Preflight(t, p) ==
  /\ op[t] = Idle /\ Loadable(p) /\ ~Consumed(p)
  /\ LET r == preview[p].request
     IN  op' = [op EXCEPT ![t] = IF r.mode = "LIMITED_AUTO" /\ ~Allowed(r) THEN PauseAfter(r)
                                 ELSE [at |-> "SUBMIT", preview |-> p]]
  /\ UNCHANGED <<state, view, preview, expired, grants, intents, changes>>

\* _check_submit_authorization; what LIMITED_AUTO asks for is among the reasons.
Authorized(p, r) ==
  \/ halted /\ ~Opens(r)
  \/ mode # "MANUAL_LIVE"
  \/ window /\ (session \/ p \in approvals)

(* Mutant: the transaction relies on the judgement of the preflight. *)
RecordableEarlier(p) ==
  LET r == preview[p].request
  IN  /\ Loadable(p) /\ ~Consumed(p)
      /\ Authorized(p, r)
      /\ \A i \in DOMAIN intents : intents[i].signal # r.signal

(* Mutant: whether the preview is used up was decided by the preflight. *)
RecordableTwice(p) ==
  LET r == preview[p].request
  IN  /\ Loadable(p)
      /\ Material(r) = preview[p].material /\ Allowed(r)
      /\ Authorized(p, r)

\* The transaction finds nothing to refuse and no intent of this preview or signal.
Recordable(p) ==
  LET r == preview[p].request
  IN  /\ Loadable(p) /\ ~Consumed(p)
      /\ Material(r) = preview[p].material /\ Allowed(r)
      /\ Authorized(p, r)
      /\ \A i \in DOMAIN intents : intents[i].signal # r.signal

\* An approval is spent only where it was what authorized.
Spends(p) == mode = "MANUAL_LIVE" /\ ~halted /\ ~session /\ p \in approvals

Record(p) ==
  LET r == preview[p].request
  IN  /\ intents' = Append(intents,
           [preview |-> p, signal |-> r.signal, opens |-> Opens(r), legs |-> Children(r),
            permit |-> IF mode = "LIMITED_AUTO" /\ ~halted THEN permit.id ELSE 0,
            status |-> "PENDING"])
      /\ IF Spends(p) THEN approvals' = approvals \ {p} /\ given' = given \ {p}
         ELSE UNCHANGED <<approvals, given>>

SubmitTradeIntent(t) ==
  /\ op[t].at = "SUBMIT"
  /\ IF Recordable(op[t].preview) THEN Record(op[t].preview)
     ELSE UNCHANGED <<intents, approvals, given>>
  /\ op' = [op EXCEPT ![t] = Idle]
  /\ UNCHANGED <<state, view, preview, expired, session, window, permit, changes>>

-----------------------------------------------------------------------------
(* Grants and their withdrawal.                                            *)

AuthorizeManualTrade(p) ==
  /\ Loadable(p) /\ ~Consumed(p)
  /\ LET r == preview[p].request
     IN  /\ mode = "MANUAL_LIVE" /\ r.mode = "MANUAL_LIVE" /\ (halted => ~Opens(r))
         /\ Material(r) = preview[p].material /\ Allowed(r)
  /\ approvals' = approvals \cup {p} /\ window' = TRUE
  /\ given' = given \cup {p}
  /\ UNCHANGED <<state, view, preview, expired, session, permit, intents, op, changes>>

AuthorizeManualSession ==
  /\ mode = "MANUAL_LIVE" /\ ~halted
  /\ session' = TRUE /\ window' = TRUE
  /\ given' = given \cup {"SESSION"}
  /\ UNCHANGED <<state, view, preview, expired, approvals, permit, intents, op, changes>>

Change == changes < MaxChanges /\ changes' = changes + 1

(* Mutant: approvals of single trades stay. *)
RevokeManualSessionOnly ==
  /\ session' = FALSE /\ window' = FALSE
  /\ given' = given \cap {"PERMIT"}
  /\ Change
  /\ UNCHANGED <<state, view, preview, expired, approvals, permit, intents, op>>

RevokeManualSession ==
  /\ session' = FALSE /\ window' = FALSE /\ approvals' = {}
  /\ given' = given \cap {"PERMIT"}
  /\ Change
  /\ UNCHANGED <<state, view, preview, expired, permit, intents, op>>

AuthorizeLimitedAuto ==
  /\ HealthReasons = {} /\ permit.id < MaxPermits
  /\ permit' = [id |-> permit.id + 1, status |-> "ACTIVE", struck |-> FALSE]
  /\ given' = given \cup {"PERMIT"}
  /\ UNCHANGED <<state, view, preview, expired, approvals, session, window, intents, op, changes>>

ResumeLimitedAuto ==
  /\ permit.status = "PAUSED" /\ ~permit.struck /\ HealthReasons = {}
  /\ permit' = [permit EXCEPT !.status = "ACTIVE"]
  /\ given' = given \cup {"PERMIT"}
  /\ UNCHANGED <<state, view, preview, expired, approvals, session, window, intents, op, changes>>

RevokeLimitedAuto ==
  /\ permit.status # "NONE"
  /\ permit' = [permit EXCEPT !.status = "NONE", !.struck = FALSE]
  /\ given' = given \ {"PERMIT"}
  /\ UNCHANGED <<state, view, preview, expired, approvals, session, window, intents, op, changes>>

WithdrawAll ==
  /\ approvals' = {} /\ session' = FALSE /\ window' = FALSE
  /\ permit' = [permit EXCEPT !.status = "NONE", !.struck = FALSE]
  /\ given' = {}

HaltTrading ==
  /\ halted' = TRUE
  /\ WithdrawAll /\ Change
  /\ UNCHANGED <<mode, view, preview, expired, intents, op>>

(* Mutant: a change of mode leaves the permits in force. *)
SetModeKeepsPermit(m) ==
  /\ m # "OBSERVE_ONLY" => ~halted
  /\ mode' = m
  /\ approvals' = {} /\ session' = FALSE /\ window' = FALSE
  /\ given' = given \cap {"PERMIT"}
  /\ Change
  /\ UNCHANGED <<halted, view, preview, expired, permit, intents, op>>

\* The console: set_mode and clear_halt, as the gate sees them.
SetMode(m) ==
  /\ m # "OBSERVE_ONLY" => ~halted
  /\ mode' = m
  /\ WithdrawAll /\ Change
  /\ UNCHANGED <<halted, view, preview, expired, intents, op>>

ClearHalt ==
  /\ halted /\ halted' = FALSE
  /\ mode' = "OBSERVE_ONLY"
  /\ WithdrawAll /\ Change
  /\ UNCHANGED <<view, preview, expired, intents, op>>

\* What the threads were doing ends with the process.
Restart ==
  /\ op' = [t \in Threads |-> Idle]
  /\ connection' = "RECONCILE"
  /\ WithdrawAll /\ Change
  /\ UNCHANGED <<state, shown, fresh, preview, expired, intents>>

-----------------------------------------------------------------------------
(* What happens around the calls.                                          *)

PreviewExpires(p) ==
  /\ Loadable(p)
  /\ expired' = expired \cup {p} /\ approvals' = approvals \ {p}
  /\ given' = given \ {p}
  /\ Change
  /\ UNCHANGED <<state, view, preview, session, window, permit, intents, op>>

\* An approval has a ttl of its own, which ends no later than its preview.
ApprovalExpires(p) ==
  /\ p \in approvals
  /\ approvals' = approvals \ {p} /\ given' = given \ {p}
  /\ Change
  /\ UNCHANGED <<state, view, preview, expired, session, window, permit, intents, op>>

\* Every grant moves the end of the window, forward or back: it may end
\* before the session, with it,
WindowEnds ==
  /\ window
  /\ window' = FALSE /\ session' \in {session, FALSE}
  /\ given' = IF session' THEN given ELSE given \ {"SESSION"}
  /\ Change
  /\ UNCHANGED <<state, view, preview, expired, approvals, permit, intents, op>>

\* or after it.
SessionEnds ==
  /\ session
  /\ session' = FALSE /\ given' = given \ {"SESSION"}
  /\ Change
  /\ UNCHANGED <<state, view, preview, expired, approvals, window, permit, intents, op>>

\* The account is traded from other programs too: a snapshot may show anything.
Snapshot(side) ==
  /\ shown' = side /\ fresh' = TRUE
  /\ IF side = shown THEN UNCHANGED changes ELSE Change
  /\ UNCHANGED <<state, connection, preview, expired, grants, intents, op>>

SnapshotAges ==
  /\ fresh /\ fresh' = FALSE
  /\ Change
  /\ UNCHANGED <<state, connection, shown, preview, expired, grants, intents, op>>

Connection(c) ==
  /\ connection' = c /\ c # connection
  /\ IF c = "READY" THEN UNCHANGED changes ELSE Change
  /\ UNCHANGED <<state, shown, fresh, preview, expired, grants, intents, op>>

(* Acks and events arrive, late ones after an unknown submit too.          *)
After(status) ==
  CASE status = "PENDING" -> {"WORKING", "FAILED", "SUBMIT_UNKNOWN"}
    [] status = "WORKING" -> {"FILLED", "FAILED"}
    [] status = "SUBMIT_UNKNOWN" -> {"WORKING"}
    [] OTHER -> {}

IntentProgresses(i, status) ==
  /\ status \in After(intents[i].status)
  /\ intents' = [intents EXCEPT ![i].status = status]
  /\ UNCHANGED <<state, view, preview, expired, grants, op, changes>>

Next ==
  \/ \E t \in Threads :
       \/ \E p \in Previews : Preflight(t, p) \/ \E r \in Requests : PreviewTrade(t, p, r)
       \/ PausePermit(t) \/ SubmitTradeIntent(t)
  \/ \E p \in Previews : AuthorizeManualTrade(p) \/ PreviewExpires(p) \/ ApprovalExpires(p)
  \/ AuthorizeManualSession \/ RevokeManualSession
  \/ AuthorizeLimitedAuto \/ ResumeLimitedAuto \/ RevokeLimitedAuto
  \/ HaltTrading \/ ClearHalt \/ Restart
  \/ \E m \in RunModes : SetMode(m)
  \/ WindowEnds \/ SessionEnds \/ SnapshotAges
  \/ \E side \in Positions : Snapshot(side)
  \/ \E c \in {"READY", "OFFLINE", "RECONCILE"} : Connection(c)
  \/ \E i \in DOMAIN intents : \E s \in {"WORKING", "FILLED", "FAILED", "SUBMIT_UNKNOWN"} :
       IntentProgresses(i, s)

Spec == Init /\ [][Next]_vars

-----------------------------------------------------------------------------
(* Properties.                                                             *)

IntentStatuses == {"PENDING", "WORKING", "FILLED", "FAILED", "SUBMIT_UNKNOWN"}

StateOK ==
  /\ mode \in RunModes /\ halted \in BOOLEAN
  /\ connection \in {"READY", "OFFLINE", "RECONCILE"}
  /\ shown \in Positions /\ fresh \in BOOLEAN

CallsOK ==
  /\ \A p \in Previews : preview[p].made => preview[p].request \in Requests
  /\ expired \subseteq Previews
  /\ \A t \in Threads : op[t].at \in {"IDLE", "PAUSE", "SUBMIT"}

\* A permit is ACTIVE in the mode it is for, and never while trading is halted.
GrantsOK ==
  /\ approvals \subseteq Previews
  /\ session \in BOOLEAN /\ window \in BOOLEAN
  /\ permit \in [id : Nat, status : {"NONE", "ACTIVE", "PAUSED"}, struck : BOOLEAN]
  /\ given \subseteq Previews \cup {"SESSION", "PERMIT"}
  /\ permit.status = "ACTIVE" => mode = "LIMITED_AUTO" /\ ~halted

Intents ==
  [preview : Previews, signal : {r.signal : r \in Requests}, opens : BOOLEAN,
   legs : Seq(Legs), permit : Nat, status : IntentStatuses]

(* The types of the variables, and what a permit in force presupposes.     *)
TypeOK == StateOK /\ CallsOK /\ GrantsOK /\ intents \in Seq(Intents)

Recorded == Len(intents') > Len(intents)
Last == intents'[Len(intents')]

(* A live order outside a halt has a grant behind it that was given for it *)
(* and has not been taken back: whatever was checked before a revocation,  *)
(* a halt, a change of mode or a restart, nothing is recorded on it        *)
(* afterwards, and no approval serves two intents. A close may use a       *)
(* paused permit (core.py 1506-1571, 2069-2094).                           *)
CoveredByGrant ==
  [][Recorded /\ (halted => Last.opens) =>
       CASE mode = "MANUAL_LIVE" -> {Last.preview, "SESSION"} \cap given # {}
         [] mode = "LIMITED_AUTO" /\ Last.opens -> "PERMIT" \in given
         [] OTHER -> TRUE]_vars

(* The openings of one permit stay within its max_orders, over pauses and  *)
(* resumptions and however many calls are under way (core.py 787-799,      *)
(* 946-951, 1657-1669).                                                    *)
BudgetKept ==
  \A k \in 1..MaxPermits :
    Cardinality({i \in OnPermit(k) : intents[i].opens}) <= MaxOrders

(* What is recorded is what the preview showed and, where a person         *)
(* approved, the person saw: the same legs, which the position now known   *)
(* can fill (core.py 1593-1597, close_split.py 44-71).                     *)
ApprovedAsShown ==
  [][Recorded =>
       /\ Last.legs = preview[Last.preview].material.legs
       /\ shown = preview[Last.preview].material.position
       /\ \A k \in DOMAIN Last.legs :
            Last.legs[k].offset # "OPEN" => Last.legs[k].volume <= Closable(Last.legs[k].offset, shown)]_vars

(* While the outcome of any order is unknown, automation opens nothing     *)
(* new, also where the preflight was passed before (core.py 869-873).      *)
UnknownStopsAuto ==
  [][Recorded /\ mode = "LIMITED_AUTO" /\ Last.opens => WithStatus({"SUBMIT_UNKNOWN"}) = {}]_vars

(* A preview, and a signal, becomes at most one intent, whoever submits it *)
(* how often at the same time (core.py 1590-1604).                         *)
OneIntentPerSignal ==
  \A i, j \in DOMAIN intents :
    intents[i].preview = intents[j].preview \/ intents[i].signal = intents[j].signal => i = j

=============================================================================
