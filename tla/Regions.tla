------------------------------ MODULE Regions ------------------------------
(***************************************************************************)
(* ScanVpcs of service/vpcs.go: requests of one customer for one region,   *)
(* each of which reads the region call by call, while the customer goes on *)
(* changing it, has the result saved by a goroutine, and encodes the very  *)
(* same object as its response.                                            *)
(*   scanner/scanner.go, service/vpcs.go, store/postgres.go (putRegion)    *)
(***************************************************************************)
EXTENDS Routing

CONSTANTS
  Requests,
  VPCs,
  Subnets,
  VpcOf,        \* the VPC of each subnet
  Beginnings,   \* what a region may look like, and who will ask for it
  NewInstances, \* instances the customer may start
  PageSize,     \* instances in a page, 100 in the code
  MaxChanges    \* bound on what the customer changes meanwhile

(***************************************************************************)
(* An account: the place of an instance in the sequence is its identity;   *)
(* it is in a subnet, and so in the VPC of that, or of EC2 Classic and in  *)
(* neither; and running is "not terminated".                               *)
(***************************************************************************)
Nowhere == ""
Instances ==
  {i \in [vpc : VPCs \cup {Nowhere}, subnet : Subnets \cup {Nowhere}, ip : STRING, running : BOOLEAN] :
     i.vpc = IF i.subnet = Nowhere THEN Nowhere ELSE VpcOf[i.subnet]}
AttachmentStates == {"available", "attaching", "attached", "detaching", "detached"}
Attachments == [gateway : STRING, vpc : VPCs, state : AttachmentStates]
RouteTables == [VPCs -> Seq(Tables(Subnets, STRING, STRING))]
Accounts == [instances : Seq(Instances), attachments : SUBSET Attachments, tables : RouteTables]

NoRow == "none"

ASSUME RegionAssumption ==
  /\ IsFiniteSet(Subnets) /\ VpcOf \in [Subnets -> VPCs] /\ NoRow \notin Requests
  /\ Nowhere \notin VPCs \cup Subnets
  /\ PageSize \in Nat \ {0} /\ MaxChanges \in Nat
  /\ NewInstances \subseteq Instances /\ \A b \in Beginnings : b.account \in Accounts

VARIABLES
  up,        \* the process runs
  account,   \* the region: instances, attachments of gateways, route tables
  changes,   \* how often the customer has changed it
  req,       \* per request: where ScanVpcs is, what it has read and made of it
  saver,     \* per request: where the goroutine that saves is
  row        \* whose scan the row of the region holds

vars == <<up, account, changes, req, saver, row>>

(* Nothing made of what was read yet. *)
NoScan == [class |-> <<>>, count |-> <<>>, order |-> <<>>, vpcs |-> <<>>]
Unasked == [at |-> "unasked", asked |-> 0, existed |-> 0, token |-> 0, list |-> <<>>,
            attachments |-> {}, tables |-> <<>>, region |-> NoScan,
            customer |-> "unset", sized |-> FALSE]
Absent == [Unasked EXCEPT !.at = "absent"]

Init ==
  /\ up = TRUE /\ changes = 0
  /\ \E b \in Beginnings :
       /\ account = b.account
       /\ req = [r \in Requests |-> IF r \in b.requests THEN Unasked ELSE Absent]
  /\ saver = [r \in Requests |-> "none"]
  /\ row = NoRow

At(r, s) == up /\ req[r].at = s
Goto(r, s) == req' = [req EXCEPT ![r].at = s]
Refuse(r) == Goto(r, "refused")

(***************************************************************************)
(* The calls of ScanRegion.  Any of them may fail, which ends the request. *)
(***************************************************************************)
ScanVpcs(r) ==
  /\ At(r, "unasked")
  /\ \/ req' = [req EXCEPT ![r].at = "instances", ![r].asked = changes,
                           ![r].existed = Len(account.instances)]
     \/ Refuse(r)
  /\ UNCHANGED <<up, account, changes, saver, row>>

Instance(i) == account.instances[i]
Least(a, b) == IF a =< b THEN a ELSE b

(* Faulty variant: every page is the first. *)
FirstPage(r) == 1..Least(PageSize, Len(account.instances) - req[r].token)

(* The page after the token: places in the account.  That the service does *)
(* not list an instance twice, or pass one by, when others come or go      *)
(* between two pages is assumed of it: the code trusts the tokens.         *)
Page(r) == (req[r].token + 1)..Least(req[r].token + PageSize, Len(account.instances))

(* One page, in the order of the service's choosing.  The terminated       *)
(* instances are dropped, those of EC2 Classic are kept under the empty    *)
(* VPC.                                                                    *)
ReadInstances(r) ==
  /\ At(r, "instances")
  /\ LET token == req[r].token + Cardinality(Page(r))
     IN \/ Refuse(r)
        \/ \E running \in SetToSeqs({i \in Page(r) : Instance(i).running}) :
             req' = [req EXCEPT ![r].list = @ \o running, ![r].token = token,
               ![r].at = IF token < Len(account.instances) THEN "instances" ELSE "gateways"]
  /\ UNCHANGED <<up, account, changes, saver, row>>

ReadGateways(r) ==
  /\ At(r, "gateways")
  /\ \/ req' = [req EXCEPT ![r].at = "tables", ![r].attachments = account.attachments]
     \/ Refuse(r)
  /\ UNCHANGED <<up, account, changes, saver, row>>

(* The route tables, and the VPCs, of which only the identifiers count. *)
ReadTables(r) ==
  /\ At(r, "tables")
  /\ \/ req' = [req EXCEPT ![r].at = "subnets", ![r].tables = account.tables]
     \/ Refuse(r)
  /\ UNCHANGED <<up, account, changes, saver, row>>

(* Of the instances read, those of a VPC and of a subnet; and what is kept *)
(* of the former, whose order plays no part.                               *)
InVpc(q, v) == {k \in DOMAIN q.list : Instance(q.list[k]).vpc = v}
InSubnet(q, s) == {k \in DOMAIN q.list : Instance(q.list[k]).subnet = s}
Addresses(q, v) ==
  LET in == SetToSeq(InVpc(q, v)) IN [n \in DOMAIN in |-> Instance(q.list[in[n]]).ip]

(* Faulty variant: a gateway that is being detached counts. *)
AttachedInAnyState(q, v) == {a.gateway : a \in {b \in q.attachments : b.vpc = v}}

Attached(q, v) ==
  {a.gateway : a \in {b \in q.attachments : b.vpc = v /\ b.state \in {"available", "attached"}}}

VpcCount(q, v) == Cardinality(InVpc(q, v))
SubnetCount(q, s) == Cardinality(InSubnet(q, s))
Class(q, s) == determineRouting(s, q.tables[VpcOf[s]], Addresses(q, VpcOf[s]), Attached(q, VpcOf[s]))

(* Faulty variant: a class is missing, and a map has zero for it. *)
PreferenceButPrivate(c) == CASE c = "gateway" -> 1 [] c = "public" -> 2 [] c = "occluded" -> 3
                             [] OTHER -> 0

RoutingPreference(c) == CASE c = "gateway" -> 1 [] c = "public" -> 2 [] c = "occluded" -> 3
                          [] c = "private" -> 4 [] OTHER -> 0

(* SubnetsByPreference *)
Less(class, count, s, t) ==
  LET a == RoutingPreference(class[s])
      b == RoutingPreference(class[t])
  IN a < b \/ (a = b /\ count[s] > count[t])
Orders(class, count) ==
  {order \in SetToSeqs(Subnets) :
     \A i, j \in DOMAIN order : i < j => ~Less(class, count, order[j], order[i])}

(* Faulty variant: the error is not looked at. *)
ClassifiedAnyway(class) == class \in [Subnets -> RoutingStates \cup {"error"}]

Classified(class) == \A s \in Subnets : class[s] # "error"

(* The subnets are classified and sorted; what compares equal comes in any *)
(* order.  One subnet that cannot be classified fails the whole scan.      *)
ReadSubnets(r) ==
  /\ At(r, "subnets")
  /\ LET class == [s \in Subnets |-> Class(req[r], s)]
         count == [s \in Subnets |-> SubnetCount(req[r], s)]
     IN \/ Refuse(r)
        \/ /\ Classified(class)
           /\ \E order \in Orders(class, count) :
                req' = [req EXCEPT ![r].at = "attributes", ![r].region =
                  [class |-> class, count |-> count, order |-> order,
                   vpcs |-> [v \in VPCs |-> VpcCount(req[r], v)]]]
  /\ UNCHANGED <<up, account, changes, saver, row>>

(* The last call; then the goroutine starts and ScanVpcs returns. *)
ReadAttributes(r) ==
  /\ At(r, "attributes")
  /\ \/ Goto(r, "size") /\ saver' = [saver EXCEPT ![r] = "start"]
     \/ Refuse(r) /\ UNCHANGED saver
  /\ UNCHANGED <<up, account, changes, row>>

(***************************************************************************)
(* The response: a buffer is made of the size that the object has, and     *)
(* then filled with what the object holds.  A string that is being         *)
(* assigned may have its length already and not yet its bytes ("torn").    *)
(***************************************************************************)
Size(r) ==
  /\ At(r, "size")
  /\ req' = [req EXCEPT ![r].at = "write", ![r].sized = (req[r].customer # "unset")]
  /\ UNCHANGED <<up, account, changes, saver, row>>

(* Writing beyond the buffer, or from no address, panics: nothing in the   *)
(* goroutine that serves a request recovers.                               *)
FitsUnassigned(q) == q.customer = "unset"   \* faulty: the size leaves the field out
Fits(q) == q.customer = "unset" \/ (q.customer = "set" /\ q.sized)
MarshalTo(r) ==
  /\ At(r, "write")
  /\ IF Fits(req[r]) THEN Goto(r, "answered") /\ UNCHANGED up
                     ELSE up' = FALSE /\ UNCHANGED req
  /\ UNCHANGED <<account, changes, saver, row>>

(***************************************************************************)
(* The goroutine that saves.                                               *)
(***************************************************************************)
SaverAt(r, s) == up /\ saver[r] = s
Move(r, s) == saver' = [saver EXCEPT ![r] = s]

(* Faulty variant: the region is saved as it is. *)
SaveUnassigned(r) ==
  /\ SaverAt(r, "start") /\ Move(r, "put")
  /\ UNCHANGED <<up, account, changes, req, row>>

Assign(r) ==
  /\ SaverAt(r, "start") /\ req[r].customer # "set"
  /\ \/ req[r].customer = "unset" /\ req' = [req EXCEPT ![r].customer = "torn"] /\ UNCHANGED saver
     \/ req' = [req EXCEPT ![r].customer = "set"] /\ Move(r, "put")
  /\ UNCHANGED <<up, account, changes, row>>

(* putRegion is one statement, which inserts when it saw no row.  Two that *)
(* saw none insert both, and the primary key refuses the second.           *)
PutRegion(r) ==
  /\ SaverAt(r, "put")
  /\ Move(r, IF row = NoRow THEN "insert" ELSE "update")
  /\ UNCHANGED <<up, account, changes, req, row>>
Update(r) ==
  /\ SaverAt(r, "update")
  /\ \/ row' = r /\ Move(r, "saved")
     \/ row' \in {row, r} /\ Move(r, "failed")
  /\ UNCHANGED <<up, account, changes, req>>

Insert(r) ==
  /\ SaverAt(r, "insert")
  /\ \/ row = NoRow /\ row' = r /\ Move(r, "saved")
     \/ row # NoRow /\ Move(r, "conflict") /\ UNCHANGED row
     \/ row = NoRow /\ row' \in {row, r} /\ Move(r, "failed")
  /\ UNCHANGED <<up, account, changes, req>>

(***************************************************************************)
(* The customer's account                                                  *)
(***************************************************************************)
Blackholed(route) == [route EXCEPT !.active = @ /\ route.via # "instance"]
Blackhole(table) == [table EXCEPT !.routes = [n \in DOMAIN @ |-> Blackholed(@[n])]]
Change ==
  /\ changes < MaxChanges /\ changes' = changes + 1
  /\ \/ \E i \in DOMAIN account.instances :
          /\ Instance(i).running
          /\ account' = [account EXCEPT !.instances[i].running = FALSE]
     \/ \E new \in NewInstances : account' = [account EXCEPT !.instances = Append(@, new)]
     \/ \E a \in account.attachments :
          account' = [account EXCEPT !.attachments = (@ \ {a}) \cup {[a EXCEPT !.state = "detaching"]}]
     \/ account' = [account EXCEPT !.tables = [v \in VPCs |->
          [k \in DOMAIN @[v] |-> Blackhole(@[v][k])]]]
  /\ UNCHANGED <<up, req, saver, row>>

Reads(r) ==
  \/ ReadInstances(r) \/ ReadGateways(r) \/ ReadTables(r) \/ ReadSubnets(r) \/ ReadAttributes(r)
Responds(r) == Size(r) \/ MarshalTo(r)
Saves(r) == Assign(r) \/ PutRegion(r) \/ Update(r) \/ Insert(r)

Next ==
  \/ \E r \in Requests : ScanVpcs(r) \/ Reads(r) \/ Responds(r) \/ Saves(r)
  \/ Change

Spec == Init /\ [][Next]_vars

(* Goroutines run and calls return. *)
FairSpec ==
  Spec /\ \A r \in Requests : WF_vars(Reads(r) \/ Responds(r)) /\ WF_vars(Saves(r))

(***************************************************************************)
(* Properties                                                              *)
(***************************************************************************)
Places == {"absent", "unasked", "instances", "gateways", "tables", "subnets", "attributes",
           "size", "write", "answered", "refused"}
Scanned(r) == req[r].at \in {"attributes", "size", "write", "answered"}
ScannedRegions ==
  [class : [Subnets -> RoutingStates], count : [Subnets -> Nat],
   order : SetToSeqs(Subnets), vpcs : [VPCs -> Nat]]
Scans ==
  [at : Places, asked : 0..MaxChanges, existed : Nat, token : Nat, list : Seq(Nat),
   attachments : SUBSET Attachments, tables : RouteTables \cup {<<>>},
   region : ScannedRegions \cup {NoScan}, customer : {"unset", "torn", "set"}, sized : BOOLEAN]
TypeOK ==
  /\ up \in BOOLEAN /\ changes \in 0..MaxChanges
  /\ account \in Accounts
  /\ row \in Requests \cup {NoRow}
  /\ saver \in [Requests -> {"none", "start", "put", "update", "insert", "saved", "failed", "conflict"}]
  /\ req \in [Requests -> Scans]
  /\ \A r \in Requests :
       /\ req[r].asked =< changes
       /\ req[r].existed =< Len(account.instances)
       /\ req[r].token =< Len(account.instances)
       /\ req[r].list \in Seq(1..req[r].token)
       /\ Scanned(r) => req[r].region \in ScannedRegions
       /\ Scanned(r) \/ req[r].at = "subnets" => req[r].tables \in RouteTables

(* Every class that a scan gives a subnet has its grounds in what the scan *)
(* has read.  No subnet is offered for a bastion as public, nat or gateway *)
(* from which some instance cannot be reached, however many addresses are  *)
(* the same or missing; none is called private that has a default route;   *)
(* and "occluded" is said only of one that misses an instance, or whose    *)
(* instances share an address, or whose default route is an interface.     *)
ClassesHaveGrounds ==
  \A r \in Requests : Scanned(r) => \A s \in Subnets :
    Grounds(req[r].region.class[s], s, req[r].tables[VpcOf[s]],
            Addresses(req[r], VpcOf[s]), Attached(req[r], VpcOf[s]))

(* However the pages fall and whatever the customer starts and terminates  *)
(* meanwhile: an instance that ran throughout the scan is counted once, in *)
(* its VPC and its subnet, and none is counted that never ran; as long as  *)
(* the service's pages neither repeat nor skip an instance (see Page).     *)
SteadyInstancesCount ==
  \A r \in Requests : Scanned(r) =>
    LET Steady == {i \in 1..req[r].existed : Instance(i).running}
        InV(I, v) == {i \in I : Instance(i).vpc = v}
        InS(I, s) == {i \in I : Instance(i).subnet = s}
        All == DOMAIN account.instances
        g == req[r].region
    IN /\ \A v \in VPCs : g.vpcs[v] \in Cardinality(InV(Steady, v))..Cardinality(InV(All, v))
       /\ \A s \in Subnets : g.count[s] \in Cardinality(InS(Steady, s))..Cardinality(InS(All, s))
       /\ \A v \in VPCs :
            g.vpcs[v] = SumFunctionOnSet(g.count, {s \in Subnets : VpcOf[s] = v})

(* A scan during which the customer changed nothing describes the account  *)
(* as it is: its classes are what determineRouting says of the VPC's own   *)
(* tables, attached gateways and running instances, all of them and each   *)
(* once, and its counts are theirs, however the pages fell.                *)
InService == {i \in DOMAIN account.instances : Instance(i).running}
OfVpc(v) == {i \in InService : Instance(i).vpc = v}
OfSubnet(s) == {i \in InService : Instance(i).subnet = s}
AddressesOf(I) == LET in == SetToSeq(I) IN [n \in DOMAIN in |-> Instance(in[n]).ip]
InUse(v) == {a.gateway : a \in {b \in account.attachments :
               b.vpc = v /\ (b.state = "available" \/ b.state = "attached")}}
QuietScanIsTrue ==
  \A r \in Requests : Scanned(r) /\ changes = req[r].asked =>
    LET g == req[r].region
    IN /\ \A v \in VPCs : g.vpcs[v] = Cardinality(OfVpc(v))
       /\ \A s \in Subnets :
            /\ g.count[s] = Cardinality(OfSubnet(s))
            /\ g.class[s] = determineRouting(s, account.tables[VpcOf[s]],
                 AddressesOf(OfVpc(VpcOf[s])), InUse(VpcOf[s]))

(* The list that a bastion's subnet is chosen from begins with the subnets *)
(* that reach the internet and every instance, if there are any.           *)
Suitable(class) == class \in {"nat", "gateway", "public"}
SuitableFirst ==
  \A r \in Requests : Scanned(r) =>
    LET g == req[r].region
    IN \A i, j \in DOMAIN g.order :
         Suitable(g.class[g.order[j]]) /\ i < j => Suitable(g.class[g.order[i]])

(* The row is always one that a whole scan of the customer made, and when  *)
(* two first saves collide the loser's error leaves the winner's row.      *)
RowOfAScan ==
  /\ row # NoRow => Scanned(row) /\ req[row].customer = "set"
  /\ \A r \in Requests :
       /\ saver[r] = "saved" => row # NoRow
       /\ saver[r] = "conflict" => row \in Requests \ {r}

(* A request ends in an answer or an error, and what was answered ends up  *)
(* saved or not; or the process is gone: and that only because a response  *)
(* was being written when the goroutine assigned the customer's id.        *)
CaughtWriting == \E r \in Requests :
  req[r].at = "write" /\ saver[r] # "none" /\ (req[r].customer = "torn" \/ ~req[r].sized)
RequestsSettle ==
  \A r \in Requests :
    req[r].at = "instances" ~>
      \/ req[r].at = "refused"
      \/ req[r].at = "answered" /\ saver[r] \in {"saved", "failed", "conflict"}
      \/ ~up /\ CaughtWriting
=============================================================================
