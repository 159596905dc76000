--------------------------- MODULE TradeGate_proofs ---------------------------
(***************************************************************************)
(* Proofs about TradeGate and CloseSplit, for any threads, previews,       *)
(* requests and positions. Inv is inductive: besides the types it says     *)
(* that no grant is in force that was not given, that intents are of       *)
(* different previews and signals, and that a permit's openings are within *)
(* its budget. About split_order there are SplitLegs and PreferredFirst.   *)
(***************************************************************************)
EXTENDS TradeGate, FiniteSetTheorems, TLAPS

Doable(o) ==
  /\ o.at \in {"IDLE", "PAUSE", "SUBMIT"}
  /\ o.at = "SUBMIT" => o.preview \in Previews
  /\ o.at = "PAUSE" => o.struck \in BOOLEAN

(* The functions are functions, and a thread is about to do what it can.   *)
Shape ==
  /\ preview = [p \in Previews |-> preview[p]]
  /\ op = [t \in Threads |-> op[t]]
  /\ \A t \in Threads : Doable(op[t])

(* No grant is in force that was not given, or that was taken back.        *)
GrantsGiven ==
  /\ approvals \subseteq given
  /\ session => "SESSION" \in given
  /\ permit.status = "ACTIVE" => "PERMIT" \in given

Inv == TypeOK /\ Shape /\ GrantsGiven /\ OneIntentPerSignal /\ BudgetKept

USE GateAssumption

-----------------------------------------------------------------------------
(* The split of an order.                                                  *)

LEMMA LegTypes ==
  ASSUME NEW offset \in Offsets, NEW volume \in Nat \ {0}
  PROVE  /\ Leg(offset, volume) \in Legs
         /\ Leg(offset, volume).offset = offset /\ Leg(offset, volume).volume = volume
BY DEF Leg, Legs

(* What one leg, or two, make of an order.                                 *)
LEMMA OneLeg ==
  ASSUME NEW l
  PROVE  Len(<<l>>) = 1 /\ <<l>>[1] = l /\ DOMAIN <<l>> = {1} /\ (l \in Legs => <<l>> \in Seq(Legs))
OBVIOUS

LEMMA TwoLegs ==
  ASSUME NEW l, NEW m
  PROVE  /\ Len(<<l, m>>) = 2 /\ <<l, m>>[1] = l /\ <<l, m>>[2] = m /\ DOMAIN <<l, m>> = {1, 2}
         /\ l \in Legs /\ m \in Legs => <<l, m>> \in Seq(Legs)
OBVIOUS

(* An order that may be split becomes one or two legs, which add up to its *)
(* volume, have the one direction of offset its action asks for, and close *)
(* no more than is there (split_order).                                    *)
THEOREM SplitLegs ==
  ASSUME NEW action \in OrderActions, NEW volume \in Nat \ {0}, NEW side \in Sides,
         NEW policy \in ClosePolicies, Splittable(action, volume, side, policy),
         NEW legs, legs = SplitOrder(action, volume, side, policy)
  PROVE  /\ legs \in Seq(Legs)
         /\ Len(legs) \in {1, 2}
         /\ Len(legs) = 1 => legs[1].volume = volume
         /\ Len(legs) = 2 => legs[1].volume + legs[2].volume = volume /\ legs[1].offset # legs[2].offset
         /\ \A k \in DOMAIN legs : /\ (legs[k].offset = "OPEN") <=> (action = "OPEN")
                                   /\ legs[k].offset # "OPEN" =>
                                        legs[k].volume <= Closable(legs[k].offset, side)
<1> DEFINE first == Preferred(policy)
           have == Closable(first, side)
<1> USE DEF OrderActions, Offsets, Sides, ClosePolicies
<1>1. CASE action # "CLOSE"
  <2>1. legs = <<Leg(action, volume)>> BY <1>1 DEF SplitOrder
  <2> QED BY <1>1, <2>1, LegTypes, OneLeg DEF Splittable
<1>2. CASE action = "CLOSE"
  <2>1. /\ first \in {"CLOSE_TODAY", "CLOSE_YESTERDAY"} /\ Other(first) \in {"CLOSE_TODAY", "CLOSE_YESTERDAY"}
        /\ Other(first) # first
    BY DEF Preferred, Other
  <2>2. have \in Nat /\ Closable(Other(first), side) \in Nat
        /\ volume <= have + Closable(Other(first), side)
    BY <1>2 DEF Splittable, Closable, Preferred, Other
  <2>3. CASE have >= volume
    <3>1. legs = <<Leg(first, volume)>> BY <1>2, <2>3 DEF SplitOrder
    <3>2. legs[1].offset = first /\ legs[1].volume = volume BY <2>1, <3>1, LegTypes, OneLeg
    <3> QED BY <1>2, <2>1, <2>2, <2>3, <3>1, <3>2, LegTypes, OneLeg
  <2>4. CASE have = 0
    <3>1. legs = <<Leg(Other(first), volume)>> BY <1>2, <2>4 DEF SplitOrder
    <3>2. legs[1].offset = Other(first) /\ legs[1].volume = volume BY <2>1, <3>1, LegTypes, OneLeg
    <3>3. volume <= Closable(Other(first), side) BY <2>2, <2>4
    <3>4. Len(legs) = 1 /\ DOMAIN legs = {1} /\ legs \in Seq(Legs) BY <2>1, <3>1, LegTypes, OneLeg
    <3> HIDE DEF first, have
    <3> QED BY <1>2, <2>1, <3>2, <3>3, <3>4
  <2>5. CASE have < volume /\ have # 0
    <3>1. legs = <<Leg(first, have), Leg(Other(first), volume - have)>>
      BY <1>2, <2>2, <2>5 DEF SplitOrder
    <3>2. have \in Nat \ {0} /\ volume - have \in Nat \ {0} BY <2>2, <2>5
    <3>3. /\ legs[1] = Leg(first, have) /\ legs[2] = Leg(Other(first), volume - have)
          /\ Len(legs) = 2 /\ DOMAIN legs = {1, 2}
      BY <3>1, TwoLegs
    <3>4. legs \in Seq(Legs) BY <2>1, <3>1, <3>2, LegTypes, TwoLegs
    <3>5. /\ legs[1].offset = first /\ legs[1].volume = have
          /\ legs[2].offset = Other(first) /\ legs[2].volume = volume - have
      BY <2>1, <3>2, <3>3, LegTypes
    <3>6. have <= Closable(first, side) /\ volume - have <= Closable(Other(first), side)
      BY <2>2
    <3> HIDE DEF first, have
    <3>7. legs[1].volume + legs[2].volume = volume BY <2>2, <3>5
    <3>8. ASSUME NEW k \in DOMAIN legs
          PROVE  legs[k].offset # "OPEN" /\ legs[k].volume <= Closable(legs[k].offset, side)
      <4>1. CASE k = 1 BY <4>1, <2>1, <3>5, <3>6
      <4>2. CASE k = 2 BY <4>2, <2>1, <3>5, <3>6
      <4> QED BY <3>3, <4>1, <4>2
    <3> QED BY <1>2, <2>1, <3>3, <3>4, <3>5, <3>7, <3>8
  <2> QED BY <2>2, <2>3, <2>4, <2>5
<1> QED BY <1>1, <1>2

(* An action that names its offset keeps it, and a generic close turns to  *)
(* the other offset only when the one its policy prefers is exhausted: by  *)
(* the first leg, or from the start (the order of split_order's loop).     *)
THEOREM PreferredFirst ==
  ASSUME NEW action \in OrderActions, NEW volume \in Nat \ {0}, NEW side \in Sides,
         NEW policy \in ClosePolicies, Splittable(action, volume, side, policy),
         NEW legs, legs = SplitOrder(action, volume, side, policy)
  PROVE  /\ action # "CLOSE" => legs = <<Leg(action, volume)>>
         /\ action = "CLOSE" => \A k \in DOMAIN legs :
              legs[k].offset = Other(Preferred(policy)) =>
                \/ k = 1 /\ Closable(Preferred(policy), side) = 0
                \/ k = 2 /\ legs[1] = Leg(Preferred(policy), Closable(Preferred(policy), side))
<1> DEFINE first == Preferred(policy)
           have == Closable(first, side)
<1> USE DEF OrderActions, Offsets, Sides, ClosePolicies
<1>1. action # "CLOSE" => legs = <<Leg(action, volume)>> BY DEF SplitOrder
<1>2. ASSUME action = "CLOSE", NEW k \in DOMAIN legs, legs[k].offset = Other(first)
      PROVE  (k = 1 /\ have = 0) \/ (k = 2 /\ legs[1] = Leg(first, have))
  <2>1. /\ first \in {"CLOSE_TODAY", "CLOSE_YESTERDAY"} /\ Other(first) \in {"CLOSE_TODAY", "CLOSE_YESTERDAY"}
        /\ Other(first) # first
    BY DEF Preferred, Other
  <2>2. have \in Nat BY DEF Closable
  <2>3. CASE have >= volume
    <3>1. legs = <<Leg(first, volume)>> BY <1>2, <2>3 DEF SplitOrder
    <3>2. legs[k].offset = first BY <1>2, <2>1, <3>1, LegTypes, OneLeg
    <3> QED BY <1>2, <2>1, <3>2
  <2>4. CASE have = 0
    <3>1. legs = <<Leg(Other(first), volume)>> BY <1>2, <2>4 DEF SplitOrder
    <3>2. k = 1 BY <1>2, <3>1, OneLeg
    <3> QED BY <2>4, <3>2
  <2>5. CASE have < volume /\ have # 0
    <3>1. legs = <<Leg(first, have), Leg(Other(first), volume - have)>>
      BY <1>2, <2>2, <2>5 DEF SplitOrder
    <3>2. have \in Nat \ {0} BY <2>2, <2>5
    <3>3. legs[1] = Leg(first, have) /\ DOMAIN legs = {1, 2} BY <3>1, TwoLegs
    <3>4. legs[1].offset = first BY <2>1, <3>2, <3>3, LegTypes
    <3> HIDE DEF first, have
    <3> QED BY <1>2, <2>1, <3>3, <3>4
  <2> QED BY <2>2, <2>3, <2>4, <2>5
<1> QED BY <1>1, <1>2

(* The children of a request the gate knows.                               *)
LEMMA ChildrenLegs ==
  ASSUME TypeOK, NEW r \in Requests
  PROVE  /\ Children(r) \in Seq(Legs)
         /\ \A k \in DOMAIN Children(r) :
              Children(r)[k].offset # "OPEN" =>
                Children(r)[k].volume <= Closable(Children(r)[k].offset, shown)
<1>1. r.action \in OrderActions /\ r.volume \in Nat \ {0} /\ shown \in Sides
  BY DEF TypeOK, StateOK
<1>2. CASE Splittable(r.action, r.volume, shown, ClosePolicy)
  BY <1>1, <1>2, SplitLegs DEF Children
<1>3. CASE ~Splittable(r.action, r.volume, shown, ClosePolicy)
  BY <1>3 DEF Children
<1> QED BY <1>2, <1>3

-----------------------------------------------------------------------------
(* What the gate's judgement says.                                         *)

LEMMA AllowedMeans ==
  ASSUME NEW r, Allowed(r)
  PROVE  /\ r.mode = mode
         /\ ~(halted /\ Opens(r))
         /\ mode = "LIMITED_AUTO" /\ Opens(r) =>
              /\ permit.status = "ACTIVE"
              /\ ~(Usage(permit.id) + Len(Children(r)) > MaxOrders)
              /\ WithStatus({"SUBMIT_UNKNOWN"}) = {}
<1>1. GateReasons(r) = {} BY DEF Allowed, Reasons
<1>2. r.mode = mode /\ ~(halted /\ Opens(r)) BY <1>1 DEF GateReasons, When
<1>3. ASSUME mode = "LIMITED_AUTO", Opens(r)
      PROVE  Usable(r) /\ PolicyReasons(r) = {}
  BY <1>1, <1>2, <1>3 DEF GateReasons
<1>4. ASSUME mode = "LIMITED_AUTO", Opens(r)
      PROVE  /\ permit.status = "ACTIVE"
             /\ ~(Usage(permit.id) + Len(Children(r)) > MaxOrders)
             /\ WithStatus({"SUBMIT_UNKNOWN"}) = {}
  BY <1>3, <1>4 DEF PolicyReasons, HealthReasons, When, Usable
<1> QED BY <1>2, <1>4

LEMMA OneChildOpens ==
  ASSUME TypeOK, NEW r \in Requests, Opens(r)
  PROVE  Len(Children(r)) = 1
BY DEF Opens, Children, Splittable, SplitOrder

LEMMA HealthyMeans ==
  ASSUME HealthReasons = {}
  PROVE  mode = "LIMITED_AUTO" /\ ~halted
BY DEF HealthReasons, When

-----------------------------------------------------------------------------
(* Intents.                                                                *)

LEMMA IntentSteps ==
  ASSUME Next
  PROVE  \/ \E t \in Threads : SubmitTradeIntent(t)
         \/ \E i \in DOMAIN intents, status \in IntentStatuses : IntentProgresses(i, status)
         \/ UNCHANGED intents
<1>1. CASE UNCHANGED intents
  BY <1>1
<1>2. ASSUME NEW t \in Threads,
             \/ \E p \in Previews : Preflight(t, p) \/ \E r \in Requests : PreviewTrade(t, p, r)
             \/ PausePermit(t)
      PROVE  UNCHANGED intents
  BY <1>2 DEF Preflight, PreviewTrade, PausePermit
<1>3. ASSUME NEW p \in Previews,
             AuthorizeManualTrade(p) \/ PreviewExpires(p) \/ ApprovalExpires(p)
      PROVE  UNCHANGED intents
  BY <1>3 DEF AuthorizeManualTrade, PreviewExpires, ApprovalExpires
<1>4. CASE AuthorizeManualSession \/ RevokeManualSession \/ AuthorizeLimitedAuto \/ ResumeLimitedAuto
           \/ RevokeLimitedAuto \/ HaltTrading \/ ClearHalt \/ Restart \/ WindowEnds
           \/ SessionEnds \/ SnapshotAges
  BY <1>4 DEF AuthorizeManualSession, RevokeManualSession, AuthorizeLimitedAuto, ResumeLimitedAuto,
              RevokeLimitedAuto, HaltTrading, ClearHalt, Restart, WindowEnds, SessionEnds,
              SnapshotAges
<1>5. CASE \/ \E m \in RunModes : SetMode(m)
           \/ \E side \in Positions : Snapshot(side)
           \/ \E c \in {"READY", "OFFLINE", "RECONCILE"} : Connection(c)
  BY <1>5 DEF SetMode, Snapshot, Connection
<1> QED BY <1>1, <1>2, <1>3, <1>4, <1>5 DEF Next, IntentStatuses

(* A submit that records has the preview allowed at that moment, by what   *)
(* its material was made of, and appends one intent.                       *)
LEMMA Recording ==
  ASSUME TypeOK, Shape, NEW t \in Threads, SubmitTradeIntent(t)
  PROVE  \/ UNCHANGED <<intents, approvals, given>>
         \/ \E p \in Previews :
              /\ Recordable(p) /\ Record(p)
              /\ preview[p].request \in Requests
              /\ p = op[t].preview
BY DEF SubmitTradeIntent, Shape, Doable, TypeOK, CallsOK, Recordable, Loadable

LEMMA NewIntent ==
  ASSUME TypeOK, NEW p \in Previews, Record(p), preview[p].request \in Requests
  PROVE  \E d \in Intents :
           /\ intents' = Append(intents, d)
           /\ d.preview = p /\ d.signal = preview[p].request.signal
           /\ d.opens = Opens(preview[p].request) /\ d.legs = Children(preview[p].request)
           /\ d.permit = IF mode = "LIMITED_AUTO" /\ ~halted THEN permit.id ELSE 0
<1> DEFINE r == preview[p].request
           k == IF mode = "LIMITED_AUTO" /\ ~halted THEN permit.id ELSE 0
           d == [preview |-> p, signal |-> r.signal, opens |-> Opens(r), legs |-> Children(r),
                 permit |-> k, status |-> "PENDING"]
<1>1. intents' = Append(intents, d) BY DEF Record
<1>2. Opens(r) \in BOOLEAN BY DEF Opens
<1>3. Children(r) \in Seq(Legs) BY ChildrenLegs
<1>4. k \in Nat BY DEF TypeOK, GrantsOK
<1>5. d \in Intents BY <1>2, <1>3, <1>4 DEF Intents, IntentStatuses
<1> QED BY <1>1, <1>5

LEMMA Appended ==
  ASSUME intents \in Seq(Intents), NEW d \in Intents, intents' = Append(intents, d)
  PROVE  /\ intents' \in Seq(Intents) /\ Len(intents') = Len(intents) + 1
         /\ DOMAIN intents = 1..Len(intents) /\ DOMAIN intents' = 1..(Len(intents) + 1)
         /\ intents'[Len(intents) + 1] = d /\ Last = d
         /\ \A i \in DOMAIN intents : intents'[i] = intents[i]
BY DEF Last

LEMMA Progressed ==
  ASSUME intents \in Seq(Intents), NEW i \in DOMAIN intents, NEW status \in IntentStatuses,
         IntentProgresses(i, status)
  PROVE  /\ intents' \in Seq(Intents) /\ Len(intents') = Len(intents)
         /\ DOMAIN intents' = DOMAIN intents
         /\ \A j \in DOMAIN intents :
              /\ intents'[j].preview = intents[j].preview /\ intents'[j].signal = intents[j].signal
              /\ intents'[j].permit = intents[j].permit /\ intents'[j].opens = intents[j].opens
              /\ intents'[j].legs = intents[j].legs
<1>1. intents' = [intents EXCEPT ![i] = [intents[i] EXCEPT !.status = status]]
  BY DEF IntentProgresses
<1>2. \A j \in DOMAIN intents :
        intents[j] \in Intents
        /\ intents'[j] = IF j = i THEN [intents[i] EXCEPT !.status = status] ELSE intents[j]
  BY <1>1
<1>3. \A j \in DOMAIN intents : intents'[j] \in Intents
  BY <1>2 DEF Intents
<1>4. DOMAIN intents' = DOMAIN intents /\ Len(intents') = Len(intents) BY <1>1
<1>5. intents' \in Seq(Intents) BY <1>1, <1>3, <1>4
<1>6. \A j \in DOMAIN intents :
        /\ intents'[j].preview = intents[j].preview /\ intents'[j].signal = intents[j].signal
        /\ intents'[j].permit = intents[j].permit /\ intents'[j].opens = intents[j].opens
        /\ intents'[j].legs = intents[j].legs
  BY <1>2 DEF Intents
<1> QED BY <1>4, <1>5, <1>6

LEMMA IntentTypes ==
  ASSUME TypeOK, Shape, Next
  PROVE  intents' \in Seq(Intents)
<1>1. ASSUME NEW t \in Threads, SubmitTradeIntent(t) PROVE intents' \in Seq(Intents)
  BY <1>1, Recording, NewIntent, Appended DEF TypeOK
<1>2. ASSUME NEW i \in DOMAIN intents, NEW status \in IntentStatuses, IntentProgresses(i, status)
      PROVE  intents' \in Seq(Intents)
  BY <1>2, Progressed DEF TypeOK
<1>3. CASE UNCHANGED intents
  BY <1>3 DEF TypeOK
<1> QED BY IntentSteps, <1>1, <1>2, <1>3

LEMMA OneIntentStep ==
  ASSUME TypeOK, Shape, OneIntentPerSignal, Next
  PROVE  OneIntentPerSignal'
<1>1. ASSUME NEW t \in Threads, SubmitTradeIntent(t) PROVE OneIntentPerSignal'
  <2>1. CASE UNCHANGED intents
    BY <2>1 DEF OneIntentPerSignal
  <2>2. ASSUME NEW p \in Previews, Recordable(p), Record(p), preview[p].request \in Requests
        PROVE  OneIntentPerSignal'
    <3>1. PICK d \in Intents : /\ intents' = Append(intents, d)
                              /\ d.preview = p /\ d.signal = preview[p].request.signal
      BY <2>2, NewIntent
    <3>2. \A i \in DOMAIN intents : intents[i].preview # d.preview /\ intents[i].signal # d.signal
      BY <2>2, <3>1 DEF Recordable, Consumed
    <3>3. /\ DOMAIN intents = 1..Len(intents) /\ DOMAIN intents' = 1..(Len(intents) + 1)
          /\ intents'[Len(intents) + 1] = d
          /\ \A i \in DOMAIN intents : intents'[i] = intents[i]
          /\ Len(intents) \in Nat
      BY <3>1, Appended DEF TypeOK
    <3>4. SUFFICES ASSUME NEW i \in DOMAIN intents', NEW j \in DOMAIN intents', i # j
                   PROVE  intents'[i].preview # intents'[j].preview /\ intents'[i].signal # intents'[j].signal
      BY DEF OneIntentPerSignal
    <3>5. CASE i \in DOMAIN intents /\ j \in DOMAIN intents
      BY <3>3, <3>4, <3>5 DEF OneIntentPerSignal
    <3>6. CASE i = Len(intents) + 1 /\ j \in DOMAIN intents
      BY <3>2, <3>3, <3>6
    <3>7. CASE j = Len(intents) + 1 /\ i \in DOMAIN intents
      BY <3>2, <3>3, <3>7
    <3> QED BY <3>3, <3>4, <3>5, <3>6, <3>7
  <2> QED BY <1>1, <2>1, <2>2, Recording
<1>2. ASSUME NEW i \in DOMAIN intents, NEW status \in IntentStatuses, IntentProgresses(i, status)
      PROVE  OneIntentPerSignal'
  BY <1>2, Progressed DEF TypeOK, OneIntentPerSignal
<1>3. CASE UNCHANGED intents
  BY <1>3 DEF OneIntentPerSignal
<1> QED BY IntentSteps, <1>1, <1>2, <1>3

-----------------------------------------------------------------------------
(* The mode, the snapshots, the calls and the grants.                      *)

LEMMA StateTypes ==
  ASSUME TypeOK, Next
  PROVE  StateOK'
<1> USE DEF TypeOK, StateOK, state, view
<1>1. ASSUME NEW t \in Threads,
             \/ \E p \in Previews : Preflight(t, p) \/ \E r \in Requests : PreviewTrade(t, p, r)
             \/ PausePermit(t) \/ SubmitTradeIntent(t)
      PROVE  StateOK'
  BY <1>1 DEF Preflight, PreviewTrade, PausePermit, SubmitTradeIntent
<1>2. ASSUME NEW p \in Previews,
             AuthorizeManualTrade(p) \/ PreviewExpires(p) \/ ApprovalExpires(p)
      PROVE  StateOK'
  BY <1>2 DEF AuthorizeManualTrade, PreviewExpires, ApprovalExpires
<1>3. CASE AuthorizeManualSession \/ RevokeManualSession \/ AuthorizeLimitedAuto \/ ResumeLimitedAuto
           \/ RevokeLimitedAuto \/ WindowEnds \/ SessionEnds
  BY <1>3 DEF AuthorizeManualSession, RevokeManualSession, AuthorizeLimitedAuto, ResumeLimitedAuto,
              RevokeLimitedAuto, WindowEnds, SessionEnds
<1>4. CASE HaltTrading
  BY <1>4 DEF HaltTrading
<1>5. CASE ClearHalt
  BY <1>5 DEF ClearHalt, RunModes
<1>6. CASE Restart
  BY <1>6 DEF Restart
<1>7. CASE SnapshotAges
  BY <1>7 DEF SnapshotAges
<1>8. ASSUME NEW m \in RunModes, SetMode(m) PROVE StateOK'
  BY <1>8 DEF SetMode
<1>9. ASSUME NEW side \in Positions, Snapshot(side) PROVE StateOK'
  BY <1>9 DEF Snapshot
<1>10. ASSUME NEW c \in {"READY", "OFFLINE", "RECONCILE"}, Connection(c) PROVE StateOK'
  BY <1>10 DEF Connection
<1>11. ASSUME NEW i, NEW status, IntentProgresses(i, status) PROVE StateOK'
  BY <1>11 DEF IntentProgresses
<1> QED BY <1>1, <1>2, <1>3, <1>4, <1>5, <1>6, <1>7, <1>8, <1>9, <1>10, <1>11 DEF Next

(* What a thread may come to be about to do.                               *)
LEMMA OpSet ==
  ASSUME Shape, NEW t \in Threads, NEW o, Doable(o), op' = [op EXCEPT ![t] = o]
  PROVE  /\ op' = [u \in Threads |-> op'[u]]
         /\ \A u \in Threads : Doable(op'[u])
<1>1. op' = [u \in Threads |-> IF u = t THEN o ELSE op[u]] BY DEF Shape
<1> QED BY <1>1 DEF Shape

LEMMA IdleDoable == Doable(Idle)
BY DEF Doable, Idle

LEMMA PauseAfterDoable ==
  ASSUME NEW r
  PROVE  Doable(PauseAfter(r))
<1> DEFINE struck == "AUTO_CONSECUTIVE_FAILURE_LIMIT" \in Reasons(r)
<1>1. struck \in BOOLEAN OBVIOUS
<1> HIDE DEF struck
<1>2. PauseAfter(r) = Idle \/ PauseAfter(r) = [at |-> "PAUSE", struck |-> struck]
  BY DEF PauseAfter, struck
<1> QED BY <1>1, <1>2, IdleDoable DEF Doable

LEMMA CallTypes ==
  ASSUME TypeOK, Shape, Next
  PROVE  CallsOK' /\ Shape'
<1> DEFINE OpOK == op = [u \in Threads |-> op[u]] /\ \A u \in Threads : Doable(op[u])
           PreviewOK == /\ preview = [p \in Previews |-> preview[p]]
                        /\ \A p \in Previews : preview[p].made => preview[p].request \in Requests
                        /\ expired \subseteq Previews
<1>0. OpOK /\ PreviewOK BY DEF TypeOK, CallsOK, Shape
<1>1. CASE UNCHANGED <<op, preview, expired>>
  BY <1>1 DEF TypeOK, CallsOK, Shape
<1>2. ASSUME NEW t \in Threads, NEW p \in Previews, NEW r \in Requests, PreviewTrade(t, p, r)
      PROVE  OpOK' /\ PreviewOK'
  <2>1. OpOK'
    <3>1. op' = [op EXCEPT ![t] = PauseAfter(r)] BY <1>2 DEF PreviewTrade
    <3> QED BY <3>1, PauseAfterDoable, OpSet
  <2>2. PreviewOK' BY <1>0, <1>2 DEF PreviewTrade
  <2> QED BY <2>1, <2>2
<1>3. ASSUME NEW t \in Threads, NEW p \in Previews, Preflight(t, p)
      PROVE  OpOK' /\ PreviewOK'
  <2>1. OpOK'
    <3>1. PICK o \in {PauseAfter(preview[p].request), [at |-> "SUBMIT", preview |-> p]} :
            op' = [op EXCEPT ![t] = o]
      BY <1>3 DEF Preflight
    <3>2. Doable([at |-> "SUBMIT", preview |-> p]) BY DEF Doable
    <3>3. Doable(o) BY <3>1, <3>2, PauseAfterDoable
    <3> QED BY <3>1, <3>3, OpSet
  <2>2. PreviewOK' BY <1>0, <1>3 DEF Preflight
  <2> QED BY <2>1, <2>2
<1>4. ASSUME NEW t \in Threads, PausePermit(t) \/ SubmitTradeIntent(t) PROVE OpOK' /\ PreviewOK'
  <2>1. op' = [op EXCEPT ![t] = Idle] /\ UNCHANGED <<preview, expired>>
    BY <1>4 DEF PausePermit, SubmitTradeIntent
  <2> QED BY <1>0, <2>1, OpSet, IdleDoable
<1>5. ASSUME Restart PROVE OpOK' /\ PreviewOK'
  <2>1. op' = [u \in Threads |-> Idle] /\ UNCHANGED <<preview, expired>> BY <1>5 DEF Restart
  <2>2. OpOK' BY <2>1, IdleDoable
  <2>3. PreviewOK' BY <1>0, <2>1
  <2> QED BY <2>2, <2>3
<1>6. ASSUME NEW p \in Previews, PreviewExpires(p) PROVE OpOK' /\ PreviewOK'
  BY <1>0, <1>6 DEF PreviewExpires
<1>7. ASSUME ~UNCHANGED <<op, preview, expired>>
      PROVE  \/ \E t \in Threads : \/ \E p \in Previews : \/ Preflight(t, p)
                                                          \/ \E r \in Requests : PreviewTrade(t, p, r)
                                  \/ PausePermit(t) \/ SubmitTradeIntent(t)
             \/ Restart \/ \E p \in Previews : PreviewExpires(p)
  BY <1>7 DEF Next, AuthorizeManualTrade, AuthorizeManualSession, RevokeManualSession,
     AuthorizeLimitedAuto, ResumeLimitedAuto, RevokeLimitedAuto, HaltTrading, ClearHalt, WindowEnds,
     SessionEnds, ApprovalExpires, SnapshotAges, SetMode, Snapshot, Connection, IntentProgresses
<1>8. OpOK' /\ PreviewOK' => CallsOK' /\ Shape' BY DEF CallsOK, Shape, Doable
<1> QED BY <1>1, <1>2, <1>3, <1>4, <1>5, <1>6, <1>7, <1>8

(* A step that leaves grants, mode and halt alone, or takes everything     *)
(* back.                                                                   *)
LEMMA GrantsKept ==
  ASSUME TypeOK, GrantsGiven, UNCHANGED <<grants, mode, halted>>
  PROVE  GrantsOK' /\ GrantsGiven'
BY DEF TypeOK, GrantsOK, GrantsGiven, grants

LEMMA GrantsWithdrawn ==
  ASSUME TypeOK, WithdrawAll
  PROVE  GrantsOK' /\ GrantsGiven'
<1>1. /\ approvals' = {} /\ given' = {} /\ session' = FALSE /\ window' = FALSE
      /\ permit' = [permit EXCEPT !.status = "NONE", !.struck = FALSE]
  BY DEF WithdrawAll
<1>2. permit' \in [id : Nat, status : {"NONE", "ACTIVE", "PAUSED"}, struck : BOOLEAN] /\ permit'.status = "NONE"
  BY <1>1 DEF TypeOK, GrantsOK
<1>3. session' \in BOOLEAN /\ window' \in BOOLEAN BY <1>1
<1> QED BY <1>1, <1>2, <1>3 DEF GrantsOK, GrantsGiven

LEMMA GrantTypes ==
  ASSUME TypeOK, Shape, GrantsGiven, Next
  PROVE  GrantsOK' /\ GrantsGiven'
<1> USE DEF TypeOK, GrantsOK, GrantsGiven, grants, state
<1>1. ASSUME NEW t \in Threads,
             \E p \in Previews : Preflight(t, p) \/ \E r \in Requests : PreviewTrade(t, p, r)
      PROVE  GrantsOK' /\ GrantsGiven'
  BY <1>1, GrantsKept DEF Preflight, PreviewTrade
<1>2. ASSUME NEW t \in Threads, PausePermit(t) PROVE GrantsOK' /\ GrantsGiven'
  <2>1. CASE permit.status = "ACTIVE"
    <3>1. op[t].struck \in BOOLEAN BY <1>2 DEF PausePermit, Shape, Doable
    <3>2. /\ permit' = [permit EXCEPT !.status = "PAUSED", !.struck = op[t].struck]
          /\ given' = given \ {"PERMIT"} /\ UNCHANGED <<mode, halted, approvals, session, window>>
      BY <1>2, <2>1 DEF PausePermit
    <3>3. permit' \in [id : Nat, status : {"NONE", "ACTIVE", "PAUSED"}, struck : BOOLEAN]
          /\ permit'.status = "PAUSED"
      BY <3>1, <3>2
    <3> QED BY <3>2, <3>3
  <2>2. CASE permit.status # "ACTIVE"
    BY <1>2, <2>2, GrantsKept DEF PausePermit
  <2> QED BY <2>1, <2>2
<1>3. ASSUME NEW t \in Threads, SubmitTradeIntent(t) PROVE GrantsOK' /\ GrantsGiven'
  <2>1. UNCHANGED <<mode, halted, session, window, permit>> BY <1>3 DEF SubmitTradeIntent
  <2>2. \/ UNCHANGED <<approvals, given>>
        \/ \E p \in Previews : approvals' = approvals \ {p} /\ given' = given \ {p}
    BY <1>3, Recording DEF Record
  <2> QED BY <2>1, <2>2
<1>4. ASSUME NEW p \in Previews, AuthorizeManualTrade(p) PROVE GrantsOK' /\ GrantsGiven'
  <2>1. /\ approvals' = approvals \cup {p} /\ given' = given \cup {p}
        /\ UNCHANGED <<mode, halted, session, permit>> /\ window' \in BOOLEAN
    BY <1>4 DEF AuthorizeManualTrade
  <2> QED BY <2>1
<1>5. ASSUME NEW p \in Previews, PreviewExpires(p) \/ ApprovalExpires(p)
      PROVE  GrantsOK' /\ GrantsGiven'
  <2>1. /\ approvals' = approvals \ {p} /\ given' = given \ {p}
        /\ UNCHANGED <<mode, halted, session, window, permit>>
    BY <1>5 DEF PreviewExpires, ApprovalExpires
  <2> QED BY <2>1
<1>6. CASE AuthorizeManualSession
  <2>1. /\ given' = given \cup {"SESSION"} /\ UNCHANGED <<mode, halted, approvals, permit>>
        /\ session' \in BOOLEAN /\ window' \in BOOLEAN
    BY <1>6 DEF AuthorizeManualSession
  <2> QED BY <2>1
<1>7. CASE RevokeManualSession
  <2>1. /\ given' = given \cap {"PERMIT"} /\ UNCHANGED <<mode, halted, permit>> /\ approvals' = {}
        /\ session' = FALSE /\ session' \in BOOLEAN /\ window' \in BOOLEAN
    BY <1>7 DEF RevokeManualSession
  <2> QED BY <2>1
<1>8. CASE AuthorizeLimitedAuto \/ ResumeLimitedAuto
  <2>1. mode = "LIMITED_AUTO" /\ ~halted
    BY <1>8, HealthyMeans DEF AuthorizeLimitedAuto, ResumeLimitedAuto
  <2>2. /\ given' = given \cup {"PERMIT"}
        /\ UNCHANGED <<mode, halted, approvals, session, window>>
    BY <1>8 DEF AuthorizeLimitedAuto, ResumeLimitedAuto
  <2>3. permit' \in [id : Nat, status : {"NONE", "ACTIVE", "PAUSED"}, struck : BOOLEAN]
    <3>1. CASE AuthorizeLimitedAuto
      BY <3>1 DEF AuthorizeLimitedAuto
    <3>2. CASE ResumeLimitedAuto
      BY <3>2 DEF ResumeLimitedAuto
    <3> QED BY <1>8, <3>1, <3>2
  <2> QED BY <2>1, <2>2, <2>3
<1>9. CASE RevokeLimitedAuto
  <2>1. /\ given' = given \ {"PERMIT"} /\ permit' = [permit EXCEPT !.status = "NONE", !.struck = FALSE]
        /\ UNCHANGED <<mode, halted, approvals, session, window>>
    BY <1>9 DEF RevokeLimitedAuto
  <2>2. permit' \in [id : Nat, status : {"NONE", "ACTIVE", "PAUSED"}, struck : BOOLEAN]
        /\ permit'.status = "NONE"
    BY <2>1
  <2> QED BY <2>1, <2>2
<1>10. CASE HaltTrading \/ ClearHalt \/ Restart \/ \E m \in RunModes : SetMode(m)
  BY <1>10, GrantsWithdrawn DEF HaltTrading, ClearHalt, Restart, SetMode
<1>11. CASE WindowEnds
  <2>1. /\ UNCHANGED <<mode, halted, approvals, permit>> /\ session' \in {session, FALSE}
        /\ given' = IF session' THEN given ELSE given \ {"SESSION"}
        /\ window' \in BOOLEAN
    BY <1>11 DEF WindowEnds
  <2>a. session' = session \/ session' = FALSE BY <2>1, Zenon
  <2>b. session' => session BY <2>a, Zenon
  <2>c. session \in BOOLEAN OBVIOUS
  <2>d. session' \in BOOLEAN BY <2>a, <2>c, Zenon
  <2>2. session' \in BOOLEAN /\ (session' => session) BY <2>b, <2>d
  <2>3. (session' /\ given' = given) \/ (~session' /\ given' = given \ {"SESSION"}) BY <2>1
  <2> QED BY <2>1, <2>2, <2>3
<1>12. CASE SnapshotAges \/ \/ \E side \in Positions : Snapshot(side)
                           \/ \E c \in {"READY", "OFFLINE", "RECONCILE"} : Connection(c)
  BY <1>12, GrantsKept DEF SnapshotAges, Snapshot, Connection
<1>13. ASSUME NEW i, NEW status, IntentProgresses(i, status) PROVE GrantsOK' /\ GrantsGiven'
  BY <1>13, GrantsKept DEF IntentProgresses
<1>14. CASE SessionEnds
  <2>1. /\ UNCHANGED <<mode, halted, approvals, window, permit>>
        /\ session' = FALSE /\ given' = given \ {"SESSION"}
    BY <1>14 DEF SessionEnds
  <2> QED BY <2>1
<1> QED
  BY <1>1, <1>2, <1>3, <1>4, <1>5, <1>6, <1>7, <1>8, <1>9, <1>10, <1>11, <1>12, <1>13, <1>14 DEF Next

-----------------------------------------------------------------------------
(* The budget of a permit.                                                 *)

Openings(k) == {i \in OnPermit(k) : intents[i].opens}

LEMMA Counts ==
  ASSUME TypeOK, NEW k
  PROVE  /\ IsFiniteSet(OnPermit(k)) /\ IsFiniteSet(Openings(k))
         /\ Cardinality(Openings(k)) \in Nat /\ Usage(k) \in Nat
         /\ Cardinality(Openings(k)) <= Usage(k)
<1>1. IsFiniteSet(1..Len(intents)) /\ DOMAIN intents = 1..Len(intents)
  BY FS_Interval DEF TypeOK
<1>2. /\ OnPermit(k) \subseteq 1..Len(intents) /\ Openings(k) \subseteq OnPermit(k)
      /\ TwoLegged(k) \subseteq OnPermit(k)
  BY <1>1 DEF OnPermit, Openings, TwoLegged
<1>3. IsFiniteSet(OnPermit(k)) BY <1>1, <1>2, FS_Subset
<1>4. /\ IsFiniteSet(Openings(k)) /\ IsFiniteSet(TwoLegged(k))
      /\ Cardinality(Openings(k)) <= Cardinality(OnPermit(k))
  BY <1>2, <1>3, FS_Subset
<1>5. /\ Cardinality(Openings(k)) \in Nat /\ Cardinality(OnPermit(k)) \in Nat
      /\ Cardinality(TwoLegged(k)) \in Nat
  BY <1>3, <1>4, FS_CardinalityType
<1> QED BY <1>3, <1>4, <1>5 DEF Usage

LEMMA BudgetStep ==
  ASSUME TypeOK, Shape, BudgetKept, Next
  PROVE  BudgetKept'
<1>1. SUFFICES ASSUME NEW k \in 1..MaxPermits
               PROVE  Cardinality(Openings(k)') <= MaxOrders
  BY DEF BudgetKept, Openings
<1>2. Cardinality(Openings(k)) <= MaxOrders BY DEF BudgetKept, Openings
<1>3. CASE Openings(k)' = Openings(k)
  BY <1>2, <1>3
<1>4. ASSUME NEW t \in Threads, SubmitTradeIntent(t) PROVE Cardinality(Openings(k)') <= MaxOrders
  <2>1. CASE UNCHANGED intents
    BY <2>1, <1>3 DEF Openings, OnPermit
  <2>2. ASSUME NEW p \in Previews, Recordable(p), Record(p), preview[p].request \in Requests
        PROVE  Cardinality(Openings(k)') <= MaxOrders
    <3> DEFINE r == preview[p].request
               n == Len(intents) + 1
    <3>1. PICK d \in Intents :
            /\ intents' = Append(intents, d) /\ d.opens = Opens(r)
            /\ d.permit = IF mode = "LIMITED_AUTO" /\ ~halted THEN permit.id ELSE 0
      BY <2>2, NewIntent
    <3>2. /\ DOMAIN intents = 1..Len(intents) /\ DOMAIN intents' = 1..n /\ Len(intents) \in Nat
          /\ intents'[n] = d /\ \A i \in DOMAIN intents : intents'[i] = intents[i]
      BY <3>1, Appended DEF TypeOK
    <3>3. CASE d.permit = k /\ d.opens
      <4>1. Openings(k)' = Openings(k) \cup {n} /\ n \notin Openings(k)
        BY <3>2, <3>3 DEF Openings, OnPermit
      <4>2. mode = "LIMITED_AUTO" /\ ~halted /\ k = permit.id /\ Opens(r) BY <3>1, <3>3
      <4>3. Allowed(r) BY <2>2 DEF Recordable
      <4>4. ~(Usage(k) + Len(Children(r)) > MaxOrders) /\ Len(Children(r)) = 1
        BY <2>2, <4>2, <4>3, AllowedMeans, OneChildOpens
      <4>5. Cardinality(Openings(k)') = Cardinality(Openings(k)) + 1
        BY <4>1, Counts, FS_AddElement
      <4> QED BY <4>4, <4>5, Counts
    <3>4. CASE ~(d.permit = k /\ d.opens)
      <4>1. Openings(k)' = Openings(k) BY <3>2, <3>4 DEF Openings, OnPermit
      <4> QED BY <4>1, <1>3
    <3> QED BY <3>3, <3>4
  <2> QED BY <1>4, <2>1, <2>2, Recording
<1>5. ASSUME NEW i \in DOMAIN intents, NEW status \in IntentStatuses, IntentProgresses(i, status)
      PROVE  Cardinality(Openings(k)') <= MaxOrders
  BY <1>5, <1>3, Progressed DEF TypeOK, Openings, OnPermit
<1>6. CASE UNCHANGED intents
  BY <1>6, <1>3 DEF Openings, OnPermit
<1> QED BY IntentSteps, <1>4, <1>5, <1>6

-----------------------------------------------------------------------------
(* The theorems.                                                           *)

LEMMA Initially ==
  ASSUME Init
  PROVE  Inv
<1> USE DEF Init
<1>1. StateOK BY DEF StateOK, RunModes
<1>2. CallsOK /\ Shape BY DEF CallsOK, Shape, Doable, NoPreview, Idle
<1>3. GrantsOK /\ GrantsGiven
  <2>1. session \in BOOLEAN /\ window \in BOOLEAN OBVIOUS
  <2> QED BY <2>1 DEF GrantsOK, GrantsGiven
<1>4. intents \in Seq(Intents) /\ intents = <<>> OBVIOUS
<1>5. OneIntentPerSignal BY <1>4 DEF OneIntentPerSignal
<1>6. BudgetKept
  <2>1. \A k : {i \in OnPermit(k) : intents[i].opens} = {} BY <1>4 DEF OnPermit
  <2>2. Cardinality({}) = 0 BY FS_EmptySet
  <2>3. \A k : Cardinality({i \in OnPermit(k) : intents[i].opens}) = 0 BY <2>1, <2>2
  <2> QED BY <2>3 DEF BudgetKept
<1> QED BY <1>1, <1>2, <1>3, <1>4, <1>5, <1>6 DEF Inv, TypeOK

LEMMA InvStep ==
  ASSUME Inv, [Next]_vars
  PROVE  Inv'
<1>1. CASE Next
  BY <1>1, StateTypes, CallTypes, GrantTypes, IntentTypes, OneIntentStep, BudgetStep DEF Inv, TypeOK
<1>2. CASE UNCHANGED vars
  <2>1. TypeOK' /\ Shape' /\ GrantsGiven'
    BY <1>2 DEF vars, state, view, grants, Inv, TypeOK, StateOK, CallsOK, GrantsOK, Shape, GrantsGiven
  <2>2. OneIntentPerSignal' /\ BudgetKept'
    BY <1>2 DEF vars, Inv, OneIntentPerSignal, BudgetKept, OnPermit
  <2> QED BY <2>1, <2>2 DEF Inv
<1> QED BY <1>1, <1>2

(* All of Inv holds, whatever the threads, the console and the broker do   *)
(* between the calls.                                                      *)
THEOREM Inductive == Spec => []Inv
BY Initially, InvStep, PTL DEF Spec

(* The variables keep their types, and a permit is ACTIVE in LIMITED_AUTO  *)
(* only and never while trading is halted.                                 *)
THEOREM TypeCorrect == Spec => []TypeOK
<1>1. Inv => TypeOK BY DEF Inv
<1> QED BY <1>1, Inductive, PTL

(* A preview, and a signal, becomes at most one intent.                    *)
THEOREM OneIntentPerSignalHolds == Spec => []OneIntentPerSignal
<1>1. Inv => OneIntentPerSignal BY DEF Inv
<1> QED BY <1>1, Inductive, PTL

(* The openings of one permit stay within its max_orders.                  *)
THEOREM BudgetKeptHolds == Spec => []BudgetKept
<1>1. Inv => BudgetKept BY DEF Inv
<1> QED BY <1>1, Inductive, PTL

(* What a step that records an intent has just found to be true.           *)
LEMMA RecordedMeans ==
  ASSUME Inv, Next, Recorded
  PROVE  \E p \in Previews :
           /\ Recordable(p) /\ preview[p].request \in Requests
           /\ Last.preview = p /\ Last.legs = Children(preview[p].request)
           /\ (Last.opens <=> Opens(preview[p].request))
<1>1. ASSUME NEW i \in DOMAIN intents, NEW status \in IntentStatuses, IntentProgresses(i, status)
      PROVE  FALSE
  BY <1>1, Progressed DEF Recorded, Inv, TypeOK
<1>2. PICK t \in Threads : SubmitTradeIntent(t) BY <1>1, IntentSteps DEF Recorded, Inv, TypeOK
<1>3. PICK p \in Previews : Recordable(p) /\ Record(p) /\ preview[p].request \in Requests
  BY <1>2, Recording DEF Recorded, Inv, TypeOK
<1>4. PICK d \in Intents : /\ intents' = Append(intents, d) /\ d.preview = p
                          /\ d.legs = Children(preview[p].request)
                          /\ d.opens = Opens(preview[p].request)
  BY <1>3, NewIntent DEF Inv
<1>5. Last = d BY <1>4, Appended DEF Inv, TypeOK
<1> QED BY <1>3, <1>4, <1>5

(* An intent outside a halt has a grant behind it that was given for it    *)
(* and has not been taken back.                                            *)
THEOREM CoveredByGrantHolds == Spec => CoveredByGrant
<1> DEFINE Covered == Recorded /\ (halted => Last.opens) =>
                        CASE mode = "MANUAL_LIVE" -> {Last.preview, "SESSION"} \cap given # {}
                          [] mode = "LIMITED_AUTO" /\ Last.opens -> "PERMIT" \in given
                          [] OTHER -> TRUE
<1>1. ASSUME Inv, Next PROVE Covered
  <2>1. SUFFICES ASSUME Recorded, halted => Last.opens
                 PROVE  /\ mode = "MANUAL_LIVE" => {Last.preview, "SESSION"} \cap given # {}
                        /\ mode = "LIMITED_AUTO" /\ Last.opens => "PERMIT" \in given
    OBVIOUS
  <2>2. PICK p \in Previews : /\ Recordable(p) /\ Last.preview = p
                             /\ (Last.opens <=> Opens(preview[p].request))
    BY <1>1, <2>1, RecordedMeans
  <2>3. Allowed(preview[p].request) /\ Authorized(p, preview[p].request) BY <2>2 DEF Recordable
  <2>4. ~halted BY <2>1, <2>2, <2>3, AllowedMeans
  <2>5. mode = "MANUAL_LIVE" => session \/ p \in approvals BY <2>3, <2>4 DEF Authorized
  <2>6. mode = "LIMITED_AUTO" /\ Last.opens => permit.status = "ACTIVE" BY <2>2, <2>3, AllowedMeans
  <2> QED BY <1>1, <2>2, <2>5, <2>6 DEF Inv, GrantsGiven
<1>2. Inv /\ [Next]_vars => [Covered]_vars BY <1>1
<1> QED BY <1>2, Inductive, PTL DEF Spec, CoveredByGrant

(* What is recorded is what was previewed, and the position now known can  *)
(* fill its closing legs.                                                  *)
THEOREM ApprovedAsShownHolds == Spec => ApprovedAsShown
<1> DEFINE Shown == Recorded =>
       /\ Last.legs = preview[Last.preview].material.legs
       /\ shown = preview[Last.preview].material.position
       /\ \A k \in DOMAIN Last.legs :
            Last.legs[k].offset # "OPEN" => Last.legs[k].volume <= Closable(Last.legs[k].offset, shown)
<1>1. ASSUME Inv, Next PROVE Shown
  <2>1. SUFFICES ASSUME Recorded
                 PROVE  /\ Last.legs = preview[Last.preview].material.legs
                        /\ shown = preview[Last.preview].material.position
                        /\ \A k \in DOMAIN Last.legs :
                             Last.legs[k].offset # "OPEN" =>
                               Last.legs[k].volume <= Closable(Last.legs[k].offset, shown)
    OBVIOUS
  <2>2. PICK p \in Previews : /\ Recordable(p) /\ Last.preview = p /\ preview[p].request \in Requests
                             /\ Last.legs = Children(preview[p].request)
    BY <1>1, <2>1, RecordedMeans
  <2>3. Material(preview[p].request) = preview[p].material BY <2>2 DEF Recordable
  <2>4. Material(preview[p].request).legs = Children(preview[p].request)
        /\ Material(preview[p].request).position = shown
    BY DEF Material
  <2> QED BY <1>1, <2>2, <2>3, <2>4, ChildrenLegs DEF Inv
<1>2. Inv /\ [Next]_vars => [Shown]_vars BY <1>1
<1> QED BY <1>2, Inductive, PTL DEF Spec, ApprovedAsShown

(* While the outcome of any order is unknown, automation records nothing   *)
(* that opens.                                                             *)
THEOREM UnknownStopsAutoHolds == Spec => UnknownStopsAuto
<1> DEFINE Stopped == Recorded /\ mode = "LIMITED_AUTO" /\ Last.opens => WithStatus({"SUBMIT_UNKNOWN"}) = {}
<1>1. ASSUME Inv, Next PROVE Stopped
  <2>1. SUFFICES ASSUME Recorded, mode = "LIMITED_AUTO", Last.opens
                 PROVE  WithStatus({"SUBMIT_UNKNOWN"}) = {}
    OBVIOUS
  <2>2. PICK p \in Previews : Recordable(p) /\ (Last.opens <=> Opens(preview[p].request))
    BY <1>1, <2>1, RecordedMeans
  <2> QED BY <2>1, <2>2, AllowedMeans DEF Recordable
<1>2. Inv /\ [Next]_vars => [Stopped]_vars BY <1>1
<1> QED BY <1>2, Inductive, PTL DEF Spec, UnknownStopsAuto

=============================================================================
