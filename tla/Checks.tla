------------------------------- MODULE Checks -------------------------------
(***************************************************************************)
(* The checks that a launch creates for what its discovery found: the      *)
(* customer's alarms are fetched page by page, every target found becomes  *)
(* a check with assertions, and each check is created in bartnet and then  *)
(* given its notifications in hugs.                                        *)
(*   launcher/stage_discovery.go, autocheck/                               *)
(***************************************************************************)
EXTENDS Integers, FiniteSets, SequencesExt

CONSTANTS
  Databases,    \* records of name, maxConnections and minMemory, the defaults of its class
  Balancers,    \* records of name and health, the kind of its health check
  AlarmLists,   \* what alarms a customer may have, in the order listed
  PageSize,     \* alarms in a page
  MaxPages,     \* maxPages, ten in the code
  MaxCPU,       \* maxCPUUtil
  Mil,          \* units in a thousandth
  Contacts      \* whom the customer's default notifications may go to

(* The code's float64 thresholds and limits are integers here, of a unit   *)
(* that divides a thousandth: with one that is fine enough every finite    *)
(* float64 is a whole number of units (of Mil = 2^1074 at the latest).     *)
One == 1000 * Mil
Alarms == [namespace : STRING, db : STRING, metric : STRING, threshold : Int,
           average : BOOLEAN, greater : BOOLEAN]

ASSUME BoundsAssumption ==
  /\ PageSize \in Nat \ {0} /\ MaxPages \in Nat \ {0}
  /\ MaxCPU \in Int /\ Mil \in Nat \ {0}
ASSUME NamesAssumption ==   \* the check's name tells databases and balancers apart, too
  \A t, u \in Databases \cup Balancers : t.name = u.name => t = u
ASSUME AlarmsAssumption ==
  /\ \A list \in AlarmLists : list \in Seq(Alarms)
  /\ \A d \in Databases : d.maxConnections \in Int /\ d.minMemory \in Int

VARIABLES
  pc,               \* where the launch is: see Places
  alarms,           \* the customer's alarms
  page, cwAlarms,   \* fetchAlarms: pages received, and the alarms in them
  cut,              \* fetchAlarms was ended by an error or by the limit
  targets,          \* the pool's targets, those that are not drained yet
  found,            \* what was discovered
  check,            \* the check that is being sent
  defaultNotifs,    \* the sink's cache, {} for nil
  successCount,
  created,          \* bartnet's checks
  notified,         \* hugs: checks with those whom they notify
  failures          \* checks whose Send returned an error

fetchVars == <<alarms, page, cwAlarms, cut>>
poolVars == <<targets, found>>
sinkVars == <<defaultNotifs, successCount, created, notified, failures>>
vars == <<pc, fetchVars, poolVars, check, sinkVars>>

NoCheck == [of |-> "none", asserts |-> <<>>]
Places == {"fetch", "discover", "drain", "create", "list", "notify", "done", "failed"}

Init ==
  /\ pc = "fetch" /\ alarms \in AlarmLists
  /\ page = 0 /\ cwAlarms = <<>> /\ cut = FALSE
  /\ targets = <<>> /\ found = {} /\ check = NoCheck
  /\ defaultNotifs = {} /\ successCount = 0
  /\ created = {} /\ notified = {} /\ failures = {}

(***************************************************************************)
(* fetchAlarms.  An alarm is a record of namespace, db (the value of its   *)
(* dimension DBInstanceIdentifier), metric, threshold, average (its        *)
(* statistic) and greater (its comparison is one of the two with           *)
(* "Greater").                                                             *)
(***************************************************************************)
Received == SubSeq(alarms, 1, IF (page + 1) * PageSize < Len(alarms)
                                THEN (page + 1) * PageSize ELSE Len(alarms))
More == Len(Received) < Len(alarms)
Page == page' = page + 1 /\ cwAlarms' = Received

(* Faulty variant: the pages are not counted. *)
FetchUncounted ==
  /\ pc = "fetch"
  /\ \/ More /\ Page /\ UNCHANGED <<pc, cut>>
     \/ ~More /\ cwAlarms' = Received /\ UNCHANGED <<pc, page, cut>>
  /\ UNCHANGED <<alarms, poolVars, check, sinkVars>>

(* A service may well hand out a token after the last alarm; nothing but   *)
(* the limit ends the loop then.                                           *)
FetchPage ==
  /\ pc = "fetch"
  /\ \/ Page /\ page + 1 < MaxPages /\ UNCHANGED <<pc, cut>>
     \/ Page /\ page + 1 = MaxPages /\ pc' = "discover" /\ cut' = TRUE
     \/ Page /\ ~More /\ pc' = "discover" /\ UNCHANGED cut
     \/ pc' = "discover" /\ cut' = TRUE /\ UNCHANGED <<page, cwAlarms>>
  /\ UNCHANGED <<alarms, poolVars, check, sinkVars>>

(***************************************************************************)
(* Discovery adds targets as they are reported, in any order, some never.  *)
(***************************************************************************)
Discover ==
  /\ pc = "discover"
  /\ \E t \in (Databases \cup Balancers) \ found :
       found' = found \cup {t} /\ targets' = Append(targets, t)
  /\ UNCHANGED <<pc, fetchVars, check, sinkVars>>

(* With too many errors the launch ends here, and nothing is drained.  The *)
(* errors that decide it are counted in module Launch: here it may happen  *)
(* whatever was found, since an error about a group is enough.             *)
DiscoveryEnds ==
  /\ pc = "discover" /\ pc' \in {"drain", "failed"}
  /\ UNCHANGED <<fetchVars, poolVars, check, sinkVars>>

(***************************************************************************)
(* Generate                                                                *)
(***************************************************************************)
Assertion(metric, relationship, operand) ==
  [metric |-> metric, relationship |-> relationship, operand |-> operand]

(* What is at these places of a list, in its order. *)
Kept(list, places) ==
  LET order == CHOOSE f \in [1..Cardinality(places) -> places] :
                 \A j, k \in DOMAIN f : j < k => f[j] < f[k]
  IN [k \in DOMAIN order |-> list[order[k]]]

(* Where the alarms of a namespace are, and those on a database. *)
FilterAlarms(list, namespace) == {i \in DOMAIN list : list[i].namespace = namespace}
OfDB(list, db) == Kept(list, {i \in FilterAlarms(list, "AWS/RDS") : list[i].db = db.name})

(* Faulty variant: the first alarm of a metric counts. *)
FirstThreshold(own, metric, default) ==
  LET i == SelectInSeq(own, LAMBDA a : a.metric = metric)
  IN IF i = 0 THEN default ELSE own[i].threshold

(* Each alarm overwrites the threshold that the one before has set. *)
Threshold(own, metric, default) ==
  LET i == SelectLastInSeq(own, LAMBDA a : a.metric = metric)
  IN IF i = 0 THEN default ELSE own[i].threshold

(* %.3f: the nearest thousandth, of two that are equally near the even     *)
(* one.                                                                    *)
Printed(x) ==
  LET k == x \div Mil
      rest == x % Mil
  IN Mil * (IF 2 * rest < Mil \/ (2 * rest = Mil /\ k % 2 = 0) THEN k ELSE k + 1)

(* %d of an int: only numbers above 0 get there, and none that an int64    *)
(* does not hold.                                                          *)
Whole(x) == One * (x \div One)

Defaulted == {"CPUUtilization", "DatabaseConnections", "FreeableMemory"}
Imported(own) == Kept(own, {i \in DOMAIN own : own[i].metric \notin Defaulted /\ own[i].average})
Relationship(a) == IF a.greater THEN "greaterThan" ELSE "lessThan"

(* RDSCloudWatch.Generate: a limit that is not positive, as for a class    *)
(* whose memory is not known, is not asserted.                             *)
RDSAsserts(db) ==
  LET own == OfDB(cwAlarms, db)
      connections == Threshold(own, "DatabaseConnections", db.maxConnections)
      memory == Threshold(own, "FreeableMemory", db.minMemory)
      import == Imported(own)
  IN <<Assertion("CPUUtilization", "lessThan", Printed(Threshold(own, "CPUUtilization", MaxCPU)))>>
       \o (IF connections > 0
             THEN <<Assertion("DatabaseConnections", "lessThan", Whole(connections))>> ELSE <<>>)
       \o (IF memory > 0 THEN <<Assertion("FreeableMemory", "greaterThan", Printed(memory))>> ELSE <<>>)
       \o [i \in DOMAIN import |->
             Assertion(import[i].metric, Relationship(import[i]), Printed(import[i].threshold))]

(* LoadBalancer.Generate has a check only for an HTTP health check whose   *)
(* port fits; one that is missing, or of a huge port, is an error.         *)
HasCheck(t) == t \in Databases \/ t.health = "http"
Generate(t) ==
  [of |-> t.name,
   asserts |-> IF t \in Databases THEN RDSAsserts(t) ELSE <<Assertion("code", "equal", 200)>>]

(***************************************************************************)
(* Pool.Drain and the sink                                                 *)
(***************************************************************************)
(* Faulty variant: the target stays in the pool. *)
DrainAgain ==
  /\ pc = "drain" /\ targets # <<>> /\ UNCHANGED targets
  /\ IF HasCheck(Head(targets))
       THEN check' = Generate(Head(targets)) /\ pc' = "create"
       ELSE UNCHANGED <<check, pc>>
  /\ UNCHANGED <<fetchVars, found, sinkVars>>

DrainTarget ==
  /\ pc = "drain" /\ targets # <<>>
  /\ targets' = Tail(targets)
  /\ IF HasCheck(Head(targets))
       THEN check' = Generate(Head(targets)) /\ pc' = "create"
       ELSE UNCHANGED <<check, pc>>
  /\ UNCHANGED <<fetchVars, found, sinkVars>>
DrainEnds ==
  /\ pc = "drain" /\ targets = <<>> /\ pc' = "done"
  /\ UNCHANGED <<fetchVars, poolVars, check, sinkVars>>

SendFails == failures' = failures \cup {check.of} /\ pc' = "drain"

(* bartnet may have created the check whose answer is an error, or has no  *)
(* id.                                                                     *)
CreateCheck ==
  /\ pc = "create"
  /\ \/ created' = created \cup {check} /\ UNCHANGED failures
        /\ pc' = IF defaultNotifs = {} THEN "list" ELSE "notify"
     \/ created' \in {created, created \cup {check}} /\ SendFails
  /\ UNCHANGED <<fetchVars, poolVars, check, defaultNotifs, successCount, notified>>

(* Faulty variant: the list is used as it comes. *)
ListUnlessError ==
  /\ pc = "list" /\ pc' = "notify"
  /\ defaultNotifs' \in SUBSET Contacts
  /\ UNCHANGED <<fetchVars, poolVars, check, successCount, created, notified, failures>>

(* The defaults are asked for once.  An error, or none at all, stands for  *)
(* the user's own address.                                                 *)
ListNotificationsDefault ==
  /\ pc = "list" /\ pc' = "notify"
  /\ defaultNotifs' \in ((SUBSET Contacts) \ {{}}) \cup {{"email"}}
  /\ UNCHANGED <<fetchVars, poolVars, check, successCount, created, notified, failures>>

Notified == notified' = notified \cup {<<check.of, defaultNotifs>>}

(* Faulty variant: only what went well is returned to the pool. *)
NotifyUnchecked ==
  /\ pc = "notify" /\ pc' = "drain"
  /\ Notified \/ UNCHANGED notified
  /\ successCount' = successCount + 1
  /\ UNCHANGED <<fetchVars, poolVars, check, defaultNotifs, created, failures>>

CreateNotifications ==
  /\ pc = "notify"
  /\ \/ Notified /\ successCount' = successCount + 1 /\ pc' = "drain" /\ UNCHANGED failures
     \/ (Notified \/ UNCHANGED notified) /\ SendFails /\ UNCHANGED successCount
  /\ UNCHANGED <<fetchVars, poolVars, check, defaultNotifs, created>>

Send == CreateCheck \/ ListNotificationsDefault \/ CreateNotifications
Next == FetchPage \/ Discover \/ DiscoveryEnds \/ DrainTarget \/ DrainEnds \/ Send

Spec == Init /\ [][Next]_vars

(* Calls return, and the discovery's channel is closed. *)
FairSpec == Spec /\ WF_vars(Next)

(***************************************************************************)
(* Properties                                                              *)
(***************************************************************************)
Named(checks) == {c.of : c \in checks}
Reached == {p[1] : p \in notified}
TypeOK ==
  /\ pc \in Places /\ page \in 0..MaxPages /\ cut \in BOOLEAN
  /\ cwAlarms \in Seq(Range(alarms))
  /\ Range(targets) \subseteq found /\ found \subseteq Databases \cup Balancers
  /\ IsInjective(targets)
  /\ defaultNotifs \in SUBSET (Contacts \cup {"email"})
  /\ successCount \in 0..Cardinality(found)
  /\ Named(created) \cup failures \cup Reached \subseteq {t.name : t \in found}

(* The alarms that checks are made of are the customer's first ones, and   *)
(* all of them unless a page failed or the limit was reached.  A           *)
(* database's check asserts exactly one limit for its CPU, at most one for *)
(* connections and memory, each from the last of these alarms on that      *)
(* database or else from its class, and besides these the limits of its    *)
(* alarms on the average of something else: never one of another database  *)
(* or of another service's metric of that name.  The limit is the alarm's  *)
(* to three decimals, to none for connections, and no nearer: an alarm     *)
(* below 0.0005 is asserted as 0.000.                                      *)
Own(d) == {i \in DOMAIN cwAlarms : cwAlarms[i].namespace = "AWS/RDS" /\ cwAlarms[i].db = d.name}
Limits(d, metric, default) ==
  LET on == {i \in Own(d) : cwAlarms[i].metric = metric}
  IN IF on = {} THEN {default}
     ELSE {cwAlarms[i].threshold : i \in {j \in on : \A k \in on : k =< j}}
Rounded(x) ==
  {y \in (x - Mil)..(x + Mil) :
     /\ y % Mil = 0
     /\ \/ 2 * (y - x) < Mil /\ 2 * (x - y) < Mil
        \/ (2 * (y - x) = Mil \/ 2 * (x - y) = Mil) /\ y % (2 * Mil) = 0}
About(c, metric) == {a \in Range(c.asserts) : a.metric = metric}
AssertsHaveASource ==
  \A d \in Databases : \A c \in created : c.of = d.name =>
    /\ IsPrefix(cwAlarms, alarms) /\ (cwAlarms = alarms \/ cut)
    /\ About(c, "CPUUtilization") =
         {Assertion("CPUUtilization", "lessThan", y) :
            y \in UNION {Rounded(x) : x \in Limits(d, "CPUUtilization", MaxCPU)}}
    /\ About(c, "DatabaseConnections") =
         {Assertion("DatabaseConnections", "lessThan", x - (x % One)) :
            x \in {y \in Limits(d, "DatabaseConnections", d.maxConnections) : y > 0}}
    /\ About(c, "FreeableMemory") =
         {Assertion("FreeableMemory", "greaterThan", y) :
            y \in UNION {Rounded(x) :
                          x \in {z \in Limits(d, "FreeableMemory", d.minMemory) : z > 0}}}
    /\ {a \in Range(c.asserts) : a.metric \notin Defaulted} =
         UNION {{Assertion(cwAlarms[i].metric, Relationship(cwAlarms[i]), y) :
                   y \in Rounded(cwAlarms[i].threshold)} :
            i \in {j \in Own(d) : cwAlarms[j].metric \notin Defaulted /\ cwAlarms[j].average}}

(* The number of checks that the launch reports is that of the checks that *)
(* were created, notify someone, and gave no error on the way; and a check *)
(* that exists and notifies nobody is one that Send returned an error for, *)
(* or is at work on: none is silent unnoticed.                             *)
ChecksAccountedFor ==
  /\ Reached \subseteq Named(created)
  /\ successCount = Cardinality(Reached \ failures)
  /\ \A n \in Named(created) \ Reached :
       n \in failures \/ (n = check.of /\ pc \in {"list", "notify"})

(* All checks of a launch notify the same people, and someone, whatever    *)
(* happens to the customer's defaults while they are being created.        *)
SameContacts ==
  \A p, q \in notified : p[2] = q[2] /\ p[2] # {}

(* The fetching comes to an end however many tokens are handed out, and    *)
(* the launch to the end of its pool whatever bartnet and hugs answer,     *)
(* unless its discovery failed.                                            *)
DrainsInTheEnd == pc = "fetch" ~> pc \in {"done", "failed"}
=============================================================================
