---------------------------- MODULE TrackerProofs ----------------------------
(***************************************************************************)
(* What the trackers guarantee for any number of trackers and bastions,    *)
(* any intervals and any batch size: that two serve at once only after a   *)
(* missed renewal, that no round raises the alarm for what it found, and   *)
(* that no row changes before Slack has answered a notice of the change.   *)
(***************************************************************************)
EXTENDS Tracker, TLAPS

(* The key outlives the freshness of the Set that made it. *)
LeaseCovers ==
  \A p \in serving : sinceSet[p] < TTL => holder = p /\ lease + sinceSet[p] >= TTL

(* A tracker keeps nothing from one round to the next. *)
RoundsOK == \A p \in Trackers :
  /\ pc[p] \in {"wait", "check"} => found[p] = {} /\ batch[p] = {}
  /\ pc[p] \in {"wait", "check", "seen"} => pending[p] = {}
  /\ pc[p] \in {"states", "update"} => batch[p] = {}
  /\ pc[p] # "update" => current[p] = NoRow

(* What a round found and wrote is no older than the round. *)
SeenIsYoung == \A p \in Trackers : \A b \in found[p] \ batch[p] :
  age[b] =< sinceRead[p] \/ sinceRead[p] >= Inactive

IInv == TypeOK /\ LeaseCovers /\ RoundsOK /\ SeenIsYoung /\ NoAlarmForTheFound

LEMMA InitIInv == Init => IInv
<1> SUFFICES ASSUME Init PROVE IInv
  OBVIOUS
<1> USE TimesAssumption DEF Init, AtMost, Old
<1>1. TypeOK
  BY DEF TypeOK, Statuses
<1>2. LeaseCovers /\ RoundsOK /\ SeenIsYoung
  BY DEF LeaseCovers, RoundsOK, SeenIsYoung
<1>3. NoAlarmForTheFound
  BY DEF NoAlarmForTheFound
<1> QED
  BY <1>1, <1>2, <1>3 DEF IInv

(***************************************************************************)
(* Types                                                                   *)
(***************************************************************************)
LEMMA TickTypes == ASSUME TypeOK, Tick PROVE TypeOK'
BY TimesAssumption DEF TypeOK, Tick, AtMost, Old, treeVars

LEMMA OfferTypes ==
  ASSUME TypeOK, NEW p \in Trackers, SetKey(p) \/ SetFails(p) PROVE TypeOK'
BY TimesAssumption
DEF TypeOK, SetKey, SetFails, Accepts, Goto, lockVars, leadVars, treeVars, tableVars, roundVars

LEMMA UpsertTypes ==
  ASSUME TypeOK, NEW B, Upsert(B)
  PROVE  status' \in [Bastions -> Statuses] /\ age' \in [Bastions -> 0..Old]
BY TimesAssumption DEF TypeOK, Upsert, Statuses, Old

LEMMA ListTypes ==
  ASSUME TypeOK, NEW b \in Bastions, Pending(b) PROVE Row(b, status[b]) \in Rows
BY DEF TypeOK, Pending, Row, Rows, Statuses

LEMMA RoundTypes ==
  ASSUME TypeOK, NEW p \in Trackers, Round(p) PROVE TypeOK'
<1> USE TimesAssumption DEF TypeOK, Goto, EndRound, lockVars, leadVars, treeVars, tableVars
<1>1. CASE NotNow(p)
  BY <1>1 DEF NotNow, roundVars
<1>2. CASE Read(p)
  BY <1>2 DEF Read
<1>3. CASE Seen(p)
  <2>1. PICK B \in SUBSET batch[p] :
          /\ \/ /\ Upsert(B) /\ batch' = [batch EXCEPT ![p] = @ \ B]
                /\ UNCHANGED <<pc, sinceUpdate, found, sinceRead, asked>>
             \/ (Upsert(B) \/ UNCHANGED tableVars) /\ EndRound(p)
    BY <1>3 DEF Seen
  <2>2. status' \in [Bastions -> Statuses] /\ age' \in [Bastions -> 0..Old]
    BY <2>1, UpsertTypes
  <2>3. UNCHANGED <<lockVars, treeVars, leadVars, pending, current, restarts>>
    BY <1>3 DEF Seen
  <2>4. CASE EndRound(p)
    BY <2>2, <2>3, <2>4
  <2>5. CASE batch' = [batch EXCEPT ![p] = @ \ B] /\ UNCHANGED <<pc, sinceUpdate, found, sinceRead, asked>>
    BY <2>2, <2>3, <2>5
  <2> QED
    BY <2>1, <2>4, <2>5
<1>4. CASE List(p)
  <2>1. {Row(b, status[b]) : b \in {x \in Bastions : Pending(x)}} \subseteq Rows
    BY ListTypes
  <2> QED
    BY <1>4, <2>1 DEF List
<1>5. CASE Notify(p)
  <2>1. PICK r \in pending[p] :
          /\ pending' = [pending EXCEPT ![p] = @ \ {r}]
          /\ Answered(p, r) \/ UNCHANGED asked
          /\ \/ pc' = [pc EXCEPT ![p] = "update"] /\ current' = [current EXCEPT ![p] = r]
             \/ UNCHANGED <<pc, current>>
    BY <1>5 DEF Notify
  <2>2. r \in Rows
    OBVIOUS
  <2>3. asked' \in [Trackers -> SUBSET Rows]
    BY <2>1, <2>2 DEF Answered
  <2>4. UNCHANGED <<lockVars, treeVars, tableVars, leadVars, sinceUpdate, found, sinceRead,
                    batch, restarts>>
    BY <1>5 DEF Notify
  <2> QED
    BY <2>1, <2>2, <2>3, <2>4
<1>6. CASE UpdateState(p)
  <2>1. current[p] \in Rows \cup {NoRow} /\ status' \in {status, [status EXCEPT ![current[p].id] = Opposite(current[p].status)]}
    BY <1>6 DEF UpdateState
  <2>2. Opposite(current[p].status) \in Statuses
    BY DEF Opposite, Statuses
  <2>3. status' \in [Bastions -> Statuses]
    BY <2>1, <2>2
  <2> QED
    BY <1>6, <2>3 DEF UpdateState
<1>7. CASE RoundOver(p)
  BY <1>7 DEF RoundOver
<1> QED
  BY <1>1, <1>2, <1>3, <1>4, <1>5, <1>6, <1>7 DEF Round

LEMMA RestartTypes ==
  ASSUME TypeOK, NEW p \in Trackers, Restart(p) PROVE TypeOK'
BY TimesAssumption DEF TypeOK, Restart, Goto, treeVars, tableVars

LEMMA TypeStep == ASSUME TypeOK, [Next]_vars PROVE TypeOK'
<1>1. CASE CatchUp \/ \E b \in Bastions : Route(b)
  BY <1>1
  DEF TypeOK, CatchUp, Route, lockVars, tableVars, leadVars, roundVars
<1>2. CASE UNCHANGED vars
  BY <1>2 DEF TypeOK, vars, lockVars, treeVars, tableVars, leadVars, roundVars
<1> QED
  BY <1>1, <1>2, TickTypes, OfferTypes, RoundTypes, RestartTypes DEF Next

(***************************************************************************)
(* The key                                                                 *)
(***************************************************************************)
LEMMA LeaseStep == ASSUME IInv, [Next]_vars PROVE LeaseCovers'
<1> USE TimesAssumption, TrackersAssumption DEF LeaseCovers, lockVars, leadVars
<1>0. /\ LeaseCovers /\ holder \in Trackers \cup {Nobody, "former"} /\ lease \in 0..TTL
      /\ serving \subseteq Trackers /\ sinceSet \in [Trackers -> 0..TTL]
  BY DEF IInv, TypeOK
<1>1. CASE Tick
  BY <1>0, <1>1 DEF Tick, AtMost
<1>2. ASSUME NEW p \in Trackers, SetKey(p) PROVE LeaseCovers'
  BY <1>0, <1>2 DEF SetKey, Accepts
<1>3. ASSUME NEW p \in Trackers, SetFails(p) PROVE LeaseCovers'
  BY <1>0, <1>3 DEF SetFails, Accepts
<1>4. ASSUME NEW p \in Trackers, Restart(p) PROVE LeaseCovers'
  BY <1>0, <1>4 DEF Restart
<1>5. CASE UNCHANGED <<lockVars, leadVars>>
  BY <1>0, <1>5
<1>6. ASSUME NEW p \in Trackers, Round(p) PROVE UNCHANGED <<lockVars, leadVars>>
  BY <1>6 DEF Round, NotNow, Read, Seen, List, Notify, UpdateState, RoundOver
<1>7. CatchUp \/ (\E b \in Bastions : Route(b)) \/ UNCHANGED vars
        => UNCHANGED <<lockVars, leadVars>>
  BY DEF CatchUp, Route, vars
<1> QED
  BY <1>1, <1>2, <1>3, <1>4, <1>5, <1>6, <1>7 DEF Next

(***************************************************************************)
(* Rounds                                                                  *)
(***************************************************************************)
LEMMA RoundsStep == ASSUME IInv, [Next]_vars PROVE RoundsOK'
<1> USE DEF RoundsOK, roundVars, Goto, EndRound, At
<1>0. /\ RoundsOK /\ pc \in [Trackers -> {"wait", "check", "seen", "states", "update"}]
      /\ found \in [Trackers -> SUBSET Bastions] /\ batch \in [Trackers -> SUBSET Bastions]
      /\ pending \in [Trackers -> SUBSET Rows] /\ current \in [Trackers -> Rows \cup {NoRow}]
  BY DEF IInv, TypeOK
<1>1. CASE Tick \/ CatchUp \/ (\E b \in Bastions : Route(b)) \/ UNCHANGED vars
  BY <1>0, <1>1 DEF Tick, CatchUp, Route, vars
<1>2. ASSUME NEW p \in Trackers, SetKey(p) \/ SetFails(p) \/ Restart(p) PROVE RoundsOK'
  BY <1>0, <1>2 DEF SetKey, SetFails, Restart
<1>3. ASSUME NEW p \in Trackers, NotNow(p) \/ Read(p) PROVE RoundsOK'
  BY <1>0, <1>3 DEF NotNow, Read
<1>4. ASSUME NEW p \in Trackers, Seen(p) PROVE RoundsOK'
  BY <1>0, <1>4 DEF Seen
<1>5. ASSUME NEW p \in Trackers, List(p) PROVE RoundsOK'
  BY <1>0, <1>5 DEF List
<1>6. ASSUME NEW p \in Trackers, Notify(p) \/ UpdateState(p) \/ RoundOver(p) PROVE RoundsOK'
  BY <1>0, <1>6 DEF Notify, UpdateState, RoundOver
<1> QED
  BY <1>1, <1>2, <1>3, <1>4, <1>5, <1>6 DEF Next, Round

(***************************************************************************)
(* Ages                                                                    *)
(***************************************************************************)
LEMMA AgeTypes == ASSUME IInv
  PROVE /\ SeenIsYoung /\ RoundsOK /\ NoAlarmForTheFound
        /\ status \in [Bastions -> Statuses] /\ age \in [Bastions -> 0..Old]
        /\ pc \in [Trackers -> {"wait", "check", "seen", "states", "update"}]
        /\ found \in [Trackers -> SUBSET Bastions] /\ sinceRead \in [Trackers -> 0..Inactive]
        /\ batch \in [Trackers -> SUBSET Bastions]
        /\ pending \in [Trackers -> SUBSET Rows] /\ current \in [Trackers -> Rows \cup {NoRow}]
BY DEF IInv, TypeOK

(* Only Tick lets an age grow, and it grows with that of every round. *)
LEMMA SeenStep == ASSUME IInv, [Next]_vars PROVE SeenIsYoung'
<1> USE TimesAssumption, AgeTypes DEF SeenIsYoung, Old
<1>1. CASE Tick
  <2> SUFFICES ASSUME NEW p \in Trackers, NEW b \in found[p] \ batch[p]
               PROVE  age'[b] =< sinceRead'[p] \/ sinceRead'[p] >= Inactive
    BY <1>1 DEF Tick
  <2>1. InRound(p)
    BY DEF RoundsOK, InRound
  <2>2. b \in Bastions /\ age'[b] = AtMost(age[b] + 1, Old)
    BY <1>1 DEF Tick
  <2>3. sinceRead'[p] = AtMost(sinceRead[p] + 1, Inactive)
    BY <1>1, <2>1 DEF Tick
  <2>4. age[b] \in Nat /\ sinceRead[p] \in Nat
    BY <2>2
  <2> QED
    BY <2>2, <2>3, <2>4 DEF AtMost
<1>2. CASE CatchUp \/ (\E b \in Bastions : Route(b)) \/ UNCHANGED vars
  BY <1>2 DEF CatchUp, Route, vars, tableVars, roundVars
<1>3. ASSUME NEW p \in Trackers,
             SetKey(p) \/ SetFails(p) \/ NotNow(p) \/ Notify(p) \/ UpdateState(p)
      PROVE  SeenIsYoung'
  BY <1>3 DEF SetKey, SetFails, NotNow, Notify, UpdateState, tableVars, roundVars
<1>4. ASSUME NEW p \in Trackers, Restart(p) \/ Read(p) \/ RoundOver(p) \/ List(p)
      PROVE  SeenIsYoung'
  BY <1>4 DEF Restart, Read, RoundOver, List, EndRound, tableVars
<1>5. ASSUME NEW p \in Trackers, Seen(p) PROVE SeenIsYoung'
  <2>1. PICK B \in SUBSET batch[p] :
          \/ /\ Upsert(B) /\ batch' = [batch EXCEPT ![p] = @ \ B]
             /\ UNCHANGED <<found, sinceRead>>
          \/ (Upsert(B) \/ UNCHANGED tableVars) /\ EndRound(p)
    BY <1>5 DEF Seen
  <2>2. \A b \in Bastions : age'[b] =< age[b] /\ (Upsert(B) /\ b \in B => age'[b] = 0)
    BY <2>1 DEF Upsert, tableVars
  <2>3. age' \in [Bastions -> 0..Old]
    BY <2>1 DEF Upsert, tableVars
  <2>4. CASE EndRound(p)
    BY <2>2, <2>3, <2>4 DEF EndRound
  <2>5. CASE Upsert(B) /\ batch' = [batch EXCEPT ![p] = @ \ B] /\ UNCHANGED <<found, sinceRead>>
    BY <2>2, <2>3, <2>5
  <2> QED
    BY <2>1, <2>4, <2>5
<1> QED
  BY <1>1, <1>2, <1>3, <1>4, <1>5 DEF Next, Round

(* The list is read when all the round found is written, and is young. *)
LEMMA AlarmStep == ASSUME IInv, [Next]_vars PROVE NoAlarmForTheFound'
<1> USE TimesAssumption, AgeTypes DEF NoAlarmForTheFound
<1>1. CASE Tick
  <2> SUFFICES ASSUME NEW p \in Trackers, NEW r \in pending[p] \cup {current[p]},
                      r.status = "active", r.id \in found[p]
               PROVE  sinceRead'[p] >= Inactive
    BY <1>1 DEF Tick
  <2>1. InRound(p) /\ sinceRead[p] >= Inactive
    BY DEF RoundsOK, InRound
  <2> QED
    BY <1>1, <2>1 DEF Tick, AtMost
<1>2. CASE CatchUp \/ (\E b \in Bastions : Route(b)) \/ UNCHANGED vars
  BY <1>2 DEF CatchUp, Route, vars, roundVars
<1>3. ASSUME NEW p \in Trackers, SetKey(p) \/ SetFails(p) \/ NotNow(p) PROVE NoAlarmForTheFound'
  BY <1>3 DEF SetKey, SetFails, NotNow, roundVars
<1>4. ASSUME NEW p \in Trackers, Restart(p) \/ RoundOver(p) \/ Seen(p) PROVE NoAlarmForTheFound'
  BY <1>4 DEF Restart, RoundOver, Seen, EndRound, NoRow
<1>5. ASSUME NEW p \in Trackers, Read(p) PROVE NoAlarmForTheFound'
  <2>1. pending[p] = {} /\ current[p] = NoRow
    BY <1>5 DEF Read, At, RoundsOK
  <2> QED
    BY <1>5, <2>1 DEF Read, EndRound, NoRow
<1>6. ASSUME NEW p \in Trackers, List(p) PROVE NoAlarmForTheFound'
  <2>1. CASE EndRound(p)
    BY <1>6, <2>1 DEF List, EndRound
  <2>2. CASE pending' = [pending EXCEPT ![p] = {Row(b, status[b]) : b \in {x \in Bastions : Pending(x)}}]
             /\ UNCHANGED <<found, sinceRead>>
    <3>1. ASSUME NEW b \in Bastions, Pending(b), status[b] = "active", b \in found[p]
          PROVE  sinceRead[p] >= Inactive
      <4>1. age[b] >= Inactive
        BY <3>1 DEF Pending
      <4>2. batch[p] = {}
        BY <1>6 DEF List
      <4> QED
        BY <3>1, <4>1, <4>2 DEF SeenIsYoung, Old
    <3>2. current[p] = NoRow /\ current' = current
      BY <1>6 DEF List, At, RoundsOK
    <3> QED
      BY <2>2, <3>1, <3>2 DEF Row, NoRow
  <2> QED
    BY <1>6, <2>1, <2>2 DEF List
<1>7. ASSUME NEW p \in Trackers, Notify(p) \/ UpdateState(p) PROVE NoAlarmForTheFound'
  BY <1>7 DEF Notify, UpdateState, NoRow
<1> QED
  BY <1>1, <1>2, <1>3, <1>4, <1>5, <1>6, <1>7 DEF Next, Round

LEMMA Invariance == Spec => []IInv
<1>1. IInv /\ [Next]_vars => IInv'
  BY TypeStep, LeaseStep, RoundsStep, SeenStep, AlarmStep DEF IInv
<1> QED
  BY InitIInv, <1>1, PTL DEF Spec

(***************************************************************************)
(* The theorems                                                            *)
(***************************************************************************)
(* The variables of tracker.go and the rows keep their types. *)
THEOREM TypeCorrect == Spec => []TypeOK
<1>1. IInv => TypeOK
  BY DEF IInv
<1> QED
  BY <1>1, Invariance, PTL

(* offerService: a tracker whose last Set is younger than the TTL is the   *)
(* only one of its kind, for it holds the key.                             *)
THEOREM Leadership == Spec => []OneLeader
<1>1. IInv => OneLeader
  BY DEF IInv, LeaseCovers, OneLeader
<1> QED
  BY <1>1, Invariance, PTL

(* updateSeen: no round shorter than the interval lists as gone a bastion  *)
(* that it found itself, however many trackers run rounds at once.         *)
THEOREM NoFalseAlarm == Spec => []NoAlarmForTheFound
<1>1. IInv => NoAlarmForTheFound
  BY DEF IInv
<1> QED
  BY <1>1, Invariance, PTL
(***************************************************************************)
(* Notices                                                                 *)
(***************************************************************************)
(* A row that waits to be updated is one that Slack has answered for.      *)
Announced == \A p \in Trackers : pc[p] = "update" => current[p] \in asked[p] \cap Rows

LEMMA AnnouncedStep == ASSUME IInv, Announced, [Next]_vars PROVE Announced'
<1> USE DEF Announced, Goto, At, EndRound
<1>0. /\ pc \in [Trackers -> {"wait", "check", "seen", "states", "update"}]
      /\ asked \in [Trackers -> SUBSET Rows] /\ pending \in [Trackers -> SUBSET Rows]
      /\ current \in [Trackers -> Rows \cup {NoRow}]
  BY DEF IInv, TypeOK
<1>1. CASE Tick \/ CatchUp \/ (\E b \in Bastions : Route(b)) \/ UNCHANGED vars
  BY <1>0, <1>1 DEF Tick, CatchUp, Route, vars, roundVars
<1>2. ASSUME NEW p \in Trackers,
             SetKey(p) \/ SetFails(p) \/ Restart(p) \/ NotNow(p) \/ Read(p) \/ Seen(p) \/ List(p)
               \/ UpdateState(p) \/ RoundOver(p)
      PROVE  Announced'
  BY <1>0, <1>2
  DEF SetKey, SetFails, Restart, NotNow, Read, Seen, List, UpdateState, RoundOver, roundVars
<1>3. ASSUME NEW p \in Trackers, Notify(p) PROVE Announced'
  <2>1. PICK r \in pending[p] :
          \/ Answered(p, r) /\ pc' = [pc EXCEPT ![p] = "update"] /\ current' = [current EXCEPT ![p] = r]
          \/ UNCHANGED <<asked, pc, current>>
    BY <1>3 DEF Notify
  <2>2. r \in Rows /\ pc[p] = "states"
    BY <1>0, <1>3 DEF Notify
  <2> QED
    BY <1>0, <2>1, <2>2 DEF Answered
<1> QED
  BY <1>1, <1>2, <1>3 DEF Next, Round

(* A notice says the opposite of the row it was made for.                  *)
LEMMA OppositeTwice ==
  ASSUME NEW r \in Rows PROVE Row(r.id, Opposite(Opposite(r.status))) = r
BY DEF Rows, Row, Opposite

(* updateSeen: whichever calls fail, wherever trackers restart and however *)
(* many run rounds at once, the status of a row changes only when a        *)
(* tracker has had Slack's answer, in the round it is in, to a notice that *)
(* says so.  Whether Slack has accepted it, the code does not ask.         *)
THEOREM Announcement == Spec => NoChangeUnannounced
<1>1. Init => Announced
  BY DEF Init, Announced
<1>2. IInv /\ Announced /\ [Next]_vars => Announced'
  BY AnnouncedStep
<1>3. ASSUME IInv, Announced, [Next]_vars,
             NEW b \in Bastions, status[b] # "none", status'[b] # status[b]
      PROVE  \E p \in Trackers : Row(b, Opposite(status'[b])) \in asked[p]
  <2>0. status \in [Bastions -> Statuses]
    BY <1>3 DEF IInv, TypeOK
  <2>1. ASSUME NEW p \in Trackers, UpdateState(p)
        PROVE  Row(b, Opposite(status'[b])) \in asked[p]
    <3>1. current[p] \in asked[p] /\ current[p] \in Rows
      BY <1>3, <2>1 DEF UpdateState, Announced, At
    <3>2. b = current[p].id /\ status'[b] = Opposite(current[p].status)
      BY <1>3, <2>0, <2>1, <3>1 DEF UpdateState, Rows
    <3> QED
      BY <3>1, <3>2, OppositeTwice
  <2>2. ASSUME NEW p \in Trackers, Seen(p) PROVE FALSE
    BY <1>3, <2>0, <2>2 DEF Seen, Upsert, tableVars
  <2>3. ASSUME NEW p \in Trackers,
               SetKey(p) \/ SetFails(p) \/ Restart(p) \/ NotNow(p) \/ Read(p) \/ List(p)
                 \/ Notify(p) \/ RoundOver(p)
        PROVE FALSE
    BY <1>3, <2>3 DEF SetKey, SetFails, Restart, NotNow, Read, List, Notify, RoundOver, tableVars
  <2>4. ~(Tick \/ CatchUp \/ (\E c \in Bastions : Route(c)) \/ UNCHANGED vars)
    BY <1>3 DEF Tick, CatchUp, Route, vars, tableVars
  <2> QED
    BY <1>3, <2>1, <2>2, <2>3, <2>4 DEF Next, Round
<1>4. IInv /\ Announced /\ [Next]_vars =>
        [\A b \in Bastions :
           status[b] # "none" /\ status'[b] # status[b] =>
             \E p \in Trackers : Row(b, Opposite(status'[b])) \in asked[p]]_vars
  BY <1>3
<1> QED
  BY <1>1, <1>2, <1>4, Invariance, PTL DEF Spec, NoChangeUnannounced
=============================================================================
