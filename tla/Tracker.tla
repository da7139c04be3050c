------------------------------- MODULE Tracker -------------------------------
(***************************************************************************)
(* The bastion trackers, one per keelhaul process.  They compete for a key *)
(* in etcd; the one that serves copies the bastions it finds in etcd's     *)
(* routing tree to the tracking table, asks the table which bastions have  *)
(* changed state, and for each tells Slack and then records the change.    *)
(*   tracker/tracker.go, store/postgres.go                                 *)
(*                                                                         *)
(* Times are counted in ticks of the leader ticker, and as ages: the       *)
(* clocks of the trackers, of etcd and of the database run equally fast.   *)
(***************************************************************************)
EXTENDS Naturals, FiniteSets

CONSTANTS
  Trackers, Bastions,
  TTL,          \* serviceTTL, 2 ticks in the code
  Delay,        \* minUpdateDelay, 6 ticks
  Inactive,     \* inactiveInterval, 6 ticks
  BatchSize,    \* updateBatchSize, 128
  MaxRestarts,  \* bound on the restarts of trackers
  Nobody        \* the key does not exist

ASSUME TimesAssumption ==
  /\ TTL \in Nat \ {0} /\ Delay \in Nat /\ Inactive \in Nat \ {0}
  /\ BatchSize \in Nat \ {0} /\ MaxRestarts \in Nat
ASSUME TrackersAssumption ==
  IsFiniteSet(Bastions) /\ Nobody \notin Trackers /\ "former" \notin Trackers \cup {Nobody}

VARIABLES
  holder, lease,     \* the value of the lock key ("former": of a tracker that is no more), ticks it has to live
  routes, replica,   \* bastions registered with a checker: now, and as a read without quorum sees them
  status, age,       \* the tracking table: each row's status, and ticks since last_seen
  pc,                \* where each tracker is in its round
  serving,           \* the trackers with isServing
  sinceSet,          \* ticks since the last Set that succeeded (no variable of the code)
  sinceUpdate,       \* ticks since lastUpdateTime
  found, sinceRead,  \* what the round read from the tree, ticks since (no variable of the code)
  batch,             \* of these, what is not yet written
  pending,           \* rows returned by GetPendingTrackingStates, still to be handled
  current,           \* the row being handled
  asked,             \* the rows about which Slack has answered the round's notice (no variable of the code)
  restarts

lockVars  == <<holder, lease>>
treeVars  == <<routes, replica>>
tableVars == <<status, age>>
leadVars  == <<serving, sinceSet>>
roundVars == <<found, sinceRead, batch, pending, current, asked>>
vars == <<lockVars, treeVars, tableVars, pc, leadVars, sinceUpdate, roundVars, restarts>>

AtMost(n, bound) == IF n < bound THEN n ELSE bound
Old == Inactive + 1
NoRow == [id |-> Nobody, status |-> "none"]
Row(b, s) == [id |-> b, status |-> s]

Init ==
  /\ holder = Nobody /\ lease = 0
  /\ routes = {} /\ replica = {}
  /\ status = [b \in Bastions |-> "none"] /\ age = [b \in Bastions |-> Old]
  /\ asked = [p \in Trackers |-> {}]
  /\ pc = [p \in Trackers |-> "wait"] /\ serving = {}
  /\ sinceSet = [p \in Trackers |-> TTL] /\ sinceUpdate = [p \in Trackers |-> Delay]
  /\ found = [p \in Trackers |-> {}] /\ sinceRead = [p \in Trackers |-> 0]
  /\ batch = [p \in Trackers |-> {}] /\ pending = [p \in Trackers |-> {}]
  /\ current = [p \in Trackers |-> NoRow] /\ restarts = 0

Goto(p, l) == pc' = [pc EXCEPT ![p] = l]
At(p, l) == pc[p] = l
InRound(p) == pc[p] \in {"seen", "states", "update"}

(***************************************************************************)
(* The environment                                                         *)
(***************************************************************************)
Tick ==
  /\ lease' = IF lease > 0 THEN lease - 1 ELSE 0
  /\ holder' = IF lease' = 0 THEN Nobody ELSE holder
  /\ age' = [b \in Bastions |-> AtMost(age[b] + 1, Old)]
  /\ sinceSet' = [p \in Trackers |-> AtMost(sinceSet[p] + 1, TTL)]
  /\ sinceUpdate' = [p \in Trackers |-> AtMost(sinceUpdate[p] + 1, Delay)]
  /\ sinceRead' = [p \in Trackers |-> IF InRound(p) THEN AtMost(sinceRead[p] + 1, Inactive) ELSE 0]
  /\ UNCHANGED <<treeVars, status, pc, serving, found, batch, pending, current, asked, restarts>>

(* A bastion's checker registers, or its registration expires. *)
Route(b) ==
  /\ routes' = IF b \in routes THEN routes \ {b} ELSE routes \cup {b}
  /\ UNCHANGED <<replica, lockVars, tableVars, pc, leadVars, sinceUpdate, roundVars, restarts>>
CatchUp ==
  /\ replica' = routes
  /\ UNCHANGED <<routes, lockVars, tableVars, pc, leadVars, sinceUpdate, roundVars, restarts>>

(* A process ends at any point; the next one has another selfID. *)
Restart(p) ==
  /\ restarts < MaxRestarts /\ restarts' = restarts + 1
  /\ holder' = IF holder = p THEN "former" ELSE holder
  /\ Goto(p, "wait") /\ serving' = serving \ {p}
  /\ sinceSet' = [sinceSet EXCEPT ![p] = TTL] /\ sinceUpdate' = [sinceUpdate EXCEPT ![p] = Delay]
  /\ found' = [found EXCEPT ![p] = {}] /\ batch' = [batch EXCEPT ![p] = {}]
  /\ sinceRead' = [sinceRead EXCEPT ![p] = 0]
  /\ pending' = [pending EXCEPT ![p] = {}] /\ current' = [current EXCEPT ![p] = NoRow]
  /\ asked' = [asked EXCEPT ![p] = {}]
  /\ UNCHANGED <<lease, treeVars, tableVars>>

(***************************************************************************)
(* offerService                                                            *)
(***************************************************************************)
(* Faulty variant: the leader overwrites the key, whoever holds it. *)
AcceptsAny(p) == p \in serving \/ holder = Nobody

(* contOptions when serving: the value must be its own, which it is not    *)
(* when the key has expired.  offerOptions otherwise: no key may exist.    *)
Accepts(p) == IF p \in serving THEN holder = p ELSE holder = Nobody

SetKey(p) ==
  /\ At(p, "wait") /\ Accepts(p) /\ Goto(p, "check")
  /\ holder' = p /\ lease' = TTL
  /\ serving' = serving \cup {p} /\ sinceSet' = [sinceSet EXCEPT ![p] = 0]
  /\ UNCHANGED <<treeVars, tableVars, sinceUpdate, roundVars, restarts>>

(* Faulty variant: a leader that lost the key goes on comparing. *)
SetFailsUnnoticed(p) ==
  /\ At(p, "wait") /\ Goto(p, "check") /\ UNCHANGED leadVars
  /\ \/ UNCHANGED lockVars
     \/ Accepts(p) /\ holder' = p /\ lease' = TTL
  /\ UNCHANGED <<treeVars, tableVars, sinceUpdate, roundVars, restarts>>

(* A Set that is refused, or fails; one whose answer is lost took effect. *)
SetFails(p) ==
  /\ At(p, "wait") /\ Goto(p, "check")
  /\ serving' = serving \ {p} /\ UNCHANGED sinceSet
  /\ \/ UNCHANGED lockVars
     \/ Accepts(p) /\ holder' = p /\ lease' = TTL
  /\ UNCHANGED <<treeVars, tableVars, sinceUpdate, roundVars, restarts>>

(***************************************************************************)
(* updateSeen                                                              *)
(***************************************************************************)
(* Faulty variant: what the round had left stays for the next. *)
EndRoundKeepingBatch(p) ==
  /\ Goto(p, "wait") /\ sinceUpdate' = [sinceUpdate EXCEPT ![p] = 0]
  /\ found' = [found EXCEPT ![p] = {}] /\ sinceRead' = [sinceRead EXCEPT ![p] = 0]
  /\ asked' = [asked EXCEPT ![p] = {}] /\ UNCHANGED batch

(* lastUpdateTime is set when the round is over, whatever came of it. *)
EndRound(p) ==
  /\ Goto(p, "wait") /\ sinceUpdate' = [sinceUpdate EXCEPT ![p] = 0]
  /\ found' = [found EXCEPT ![p] = {}] /\ sinceRead' = [sinceRead EXCEPT ![p] = 0]
  /\ batch' = [batch EXCEPT ![p] = {}] /\ asked' = [asked EXCEPT ![p] = {}]

NotNow(p) ==
  /\ At(p, "check") /\ (p \notin serving \/ sinceUpdate[p] < Delay)
  /\ Goto(p, "wait")
  /\ UNCHANGED <<lockVars, treeVars, tableVars, leadVars, sinceUpdate, roundVars, restarts>>

Read(p) ==
  /\ At(p, "check") /\ p \in serving /\ sinceUpdate[p] >= Delay
  /\ \/ /\ Goto(p, "seen") /\ found' = [found EXCEPT ![p] = replica]
        /\ batch' = [batch EXCEPT ![p] = replica]
        /\ sinceRead' = [sinceRead EXCEPT ![p] = 0] /\ UNCHANGED <<sinceUpdate, asked>>
     \/ EndRound(p)
  /\ UNCHANGED <<lockVars, treeVars, tableVars, leadVars, pending, current, restarts>>

(* batch_upsert_tracking: last_seen becomes now, new rows are active. *)
Upsert(B) ==
  /\ age' = [b \in Bastions |-> IF b \in B THEN 0 ELSE age[b]]
  /\ status' = [b \in Bastions |-> IF b \in B /\ status[b] = "none" THEN "active" ELSE status[b]]

Batch(p, B) ==
  /\ B \subseteq batch[p] /\ B # {}
  /\ Cardinality(B) = BatchSize \/ (B = batch[p] /\ Cardinality(B) < BatchSize)

(* Faulty variant: a batch that failed is skipped. *)
SeenSkips(p) ==
  /\ At(p, "seen")
  /\ \E B \in SUBSET batch[p] :
       /\ Batch(p, B) /\ (Upsert(B) \/ UNCHANGED tableVars)
       /\ batch' = [batch EXCEPT ![p] = @ \ B]
  /\ UNCHANGED <<lockVars, treeVars, pc, leadVars, sinceUpdate, found, sinceRead,
                 pending, current, asked, restarts>>

(* UpdateTrackingSeen for one batch; a batch that fails ends the round. *)
Seen(p) ==
  /\ At(p, "seen")
  /\ \E B \in SUBSET batch[p] :
       /\ Batch(p, B)
       /\ \/ /\ Upsert(B) /\ batch' = [batch EXCEPT ![p] = @ \ B]
             /\ UNCHANGED <<pc, sinceUpdate, found, sinceRead, asked>>
          \/ (Upsert(B) \/ UNCHANGED tableVars) /\ EndRound(p)
  /\ UNCHANGED <<lockVars, treeVars, leadVars, pending, current, restarts>>

(* Faulty variant: a recovery is not looked for. *)
Changed(b) == status[b] = "active" /\ age[b] >= Inactive

(* GetPendingTrackingStates, at both ends of the interval. *)
Pending(b) ==
  \/ status[b] = "active" /\ age[b] >= Inactive
  \/ status[b] = "inactive" /\ age[b] =< Inactive

List(p) ==
  /\ At(p, "seen") /\ batch[p] = {}
  /\ \/ /\ pending' = [pending EXCEPT ![p] = {Row(b, status[b]) : b \in {x \in Bastions : Pending(x)}}]
        /\ Goto(p, "states") /\ UNCHANGED <<sinceUpdate, found, sinceRead, batch, asked>>
     \/ EndRound(p) /\ UNCHANGED pending
  /\ UNCHANGED <<lockVars, treeVars, tableVars, leadVars, current, restarts>>

Opposite(s) == IF s = "active" THEN "inactive" ELSE "active"

(* Slack answers the notice that the row's bastion has the opposite state. *)
(* notifySlack returns nil whatever the HTTP status of the answer: that    *)
(* Slack has posted the notice is more than keelhaul knows.                *)
Answered(p, r) == asked' = [asked EXCEPT ![p] = @ \cup {r}]

(* Faulty variant: the answer is not looked at. *)
NotifyUnchecked(p) ==
  /\ At(p, "states") /\ Goto(p, "update")
  /\ \E r \in pending[p] :
       /\ pending' = [pending EXCEPT ![p] = @ \ {r}]
       /\ current' = [current EXCEPT ![p] = r]
       /\ Answered(p, r) \/ UNCHANGED asked
  /\ UNCHANGED <<lockVars, treeVars, tableVars, leadVars, sinceUpdate, found, sinceRead,
                 batch, restarts>>

(* NotifySlackBastionState for one row of the list: Slack answers, be it   *)
(* with a refusal, and the row is updated next; or the customer's user is  *)
(* not found, or no answer comes, and the row is left for the next round.  *)
Notify(p) ==
  /\ At(p, "states")
  /\ \E r \in pending[p] :
       /\ pending' = [pending EXCEPT ![p] = @ \ {r}]
       /\ \/ Answered(p, r) /\ Goto(p, "update") /\ current' = [current EXCEPT ![p] = r]
          \/ UNCHANGED <<asked, pc, current>>
  /\ UNCHANGED <<lockVars, treeVars, tableVars, leadVars, sinceUpdate, found, sinceRead,
                 batch, restarts>>

(* UpdateTrackingState writes what was decided when the list was read. *)
UpdateState(p) ==
  /\ At(p, "update") /\ Goto(p, "states")
  /\ current' = [current EXCEPT ![p] = NoRow]
  /\ LET r == current[p] IN
       status' \in {status, [status EXCEPT ![r.id] = Opposite(r.status)]}
  /\ UNCHANGED <<lockVars, treeVars, age, leadVars, sinceUpdate, found, sinceRead,
                 batch, pending, asked, restarts>>

RoundOver(p) ==
  /\ At(p, "states") /\ pending[p] = {} /\ EndRound(p)
  /\ UNCHANGED <<lockVars, treeVars, tableVars, leadVars, pending, current, restarts>>

Round(p) == NotNow(p) \/ Read(p) \/ Seen(p) \/ List(p) \/ Notify(p) \/ UpdateState(p)
              \/ RoundOver(p)
Next ==
  \/ Tick \/ CatchUp \/ \E b \in Bastions : Route(b)
  \/ \E p \in Trackers : SetKey(p) \/ SetFails(p) \/ Round(p) \/ Restart(p)
Spec == Init /\ [][Next]_vars

(***************************************************************************)
(* Fairness: time passes, trackers run, the tree's replicas catch up, and  *)
(* a call that is made again and again, for the same bastions, succeeds    *)
(* again and again.                                                        *)
(***************************************************************************)
Written(p, B) == Seen(p) /\ batch[p] = B /\ pc'[p] = "seen"
SlackAnswers(p, b) == Notify(p) /\ pc'[p] = "update" /\ current'[p].id = b
Recorded(p, b) ==
  UpdateState(p) /\ current[p].id = b /\ status'[b] = Opposite(current[p].status)
Fairness ==
  /\ WF_vars(Tick) /\ WF_vars(CatchUp)
  /\ \A p \in Trackers :
       /\ WF_vars(SetKey(p) \/ SetFails(p)) /\ WF_vars(Round(p))
       /\ SF_vars(SetKey(p)) /\ SF_vars(Read(p) /\ pc'[p] = "seen")
       /\ SF_vars(List(p) /\ pc'[p] = "states")
       /\ \A B \in (SUBSET Bastions) \ {{}} : SF_vars(Written(p, B))
       /\ \A b \in Bastions : SF_vars(SlackAnswers(p, b)) /\ SF_vars(Recorded(p, b))
FairSpec == Spec /\ Fairness

(***************************************************************************)
(* Properties                                                              *)
(***************************************************************************)
Statuses == {"none", "active", "inactive"}
Rows == [id : Bastions, status : {"active", "inactive"}]
TypeOK ==
  /\ holder \in Trackers \cup {Nobody, "former"} /\ lease \in 0..TTL
  /\ routes \subseteq Bastions /\ replica \subseteq Bastions
  /\ status \in [Bastions -> Statuses] /\ age \in [Bastions -> 0..Old]
  /\ pc \in [Trackers -> {"wait", "check", "seen", "states", "update"}]
  /\ serving \subseteq Trackers
  /\ sinceSet \in [Trackers -> 0..TTL] /\ sinceUpdate \in [Trackers -> 0..Delay]
  /\ found \in [Trackers -> SUBSET Bastions] /\ sinceRead \in [Trackers -> 0..Inactive]
  /\ batch \in [Trackers -> SUBSET Bastions] /\ \A p \in Trackers : batch[p] \subseteq found[p]
  /\ pending \in [Trackers -> SUBSET Rows]
  /\ current \in [Trackers -> Rows \cup {NoRow}] /\ asked \in [Trackers -> SUBSET Rows]
  /\ restarts \in 0..MaxRestarts

(* A tracker that serves and whose last Set is younger than the TTL holds  *)
(* the key: two can serve at once only when one has missed its renewals.   *)
OneLeader ==
  \A p \in serving : sinceSet[p] < TTL => holder = p

(* A bastion the round itself found registered is not up for the news that *)
(* it is gone, unless that round took longer than the interval: whatever   *)
(* other trackers do, and whichever batch or call fails.                   *)
NoAlarmForTheFound ==
  \A p \in Trackers : \A r \in pending[p] \cup {current[p]} :
    r.status = "active" /\ r.id \in found[p] => sinceRead[p] >= Inactive

(* A row's status never changes unless some tracker has had, in the round  *)
(* it is in, Slack's answer to a notice that says just that: whichever     *)
(* notices, updates and batches fail, whoever restarts between the two,    *)
(* and however old the list is that the row comes from.  Not that anyone   *)
(* was told: a refusal by Slack is an answer too, and the row changes.     *)
NoChangeUnannounced ==
  [][\A b \in Bastions :
       status[b] # "none" /\ status'[b] # status[b] =>
         \E p \in Trackers : Row(b, Opposite(status'[b])) \in asked[p]]_vars

(* The key is taken again and again, though its holder may lose it without *)
(* noticing, restart under another id, or miss the answer to its own Set.  *)
KeyIsTaken == []<>(holder \in Trackers)

(* When rounds come to last less than the interval, a bastion that stays   *)
(* is recorded as active in the end; one that stays away is recorded as    *)
(* inactive, if it was ever seen, although rounds fail half-way, notices   *)
(* are not posted and updates are lost.                                    *)
Prompt == \A p \in Trackers : sinceRead[p] < Inactive
StatusFollows ==
  \A b \in Bastions :
    /\ <>[](b \in routes /\ Prompt) => <>[](status[b] = "active")
    /\ <>[](b \notin routes) => <>[](status[b] # "active")
=============================================================================
