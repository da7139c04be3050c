--------------------------- MODULE RegionsProofs ---------------------------
(***************************************************************************)
(* However many requests scan a region at once, whatever it holds, however *)
(* its instances fall into pages and whatever the customer does meanwhile: *)
(* the safety invariants of Regions hold.                                  *)
(***************************************************************************)
EXTENDS Regions, RoutingProofs, FunctionTheorems, SequenceTheorems

(***************************************************************************)
(* The inductive invariant, in parts.                                      *)
(***************************************************************************)
(* All pages have been read. *)
Listed(r) == Scanned(r) \/ req[r].at \in {"gateways", "tables", "subnets"}

(* What a request has listed: every instance once, and none left out that  *)
(* runs and was on a page.                                                 *)
ListOK(r) ==
  /\ req[r].at = "unasked" => req[r].list = <<>>
  /\ IsInjective(req[r].list)
  /\ \A i \in 1..req[r].token : Instance(i).running => i \in Range(req[r].list)
  /\ Listed(r) => req[r].existed =< req[r].token

(* A region that was made is the one that the same list, the same          *)
(* attachments and the same tables would give now: nothing that counts     *)
(* ever changes of an instance.                                            *)
MadeOK(r) ==
  Scanned(r) =>
    LET g == req[r].region
    IN /\ g.class = [s \in Subnets |-> Class(req[r], s)] /\ Classified(g.class)
       /\ g.count = [s \in Subnets |-> SubnetCount(req[r], s)]
       /\ g.vpcs = [v \in VPCs |-> VpcCount(req[r], v)]
       /\ g.order \in Orders(g.class, g.count)

(* As long as the customer changes nothing, what was read is the account.  *)
QuietOK(r) ==
  changes = req[r].asked =>
    /\ \A i \in Range(req[r].list) : Instance(i).running
    /\ Listed(r) => req[r].token = Len(account.instances)
    /\ Scanned(r) \/ req[r].at \in {"tables", "subnets"} => req[r].attachments = account.attachments
    /\ Scanned(r) \/ req[r].at = "subnets" => req[r].tables = account.tables

ScansOK == \A r \in Requests : ListOK(r) /\ MadeOK(r) /\ QuietOK(r)

(* Only a scan that was finished, and whose customer is known, is saved.   *)
RowOK ==
  /\ row # NoRow => saver[row] \in {"saved", "failed"}
  /\ \A r \in Requests :
       /\ saver[r] # "none" => req[r].at \in {"size", "write", "answered"}
       /\ saver[r] \notin {"none", "start"} => req[r].customer = "set"
       /\ saver[r] = "saved" => row # NoRow
       /\ saver[r] = "conflict" => row \in Requests \ {r}

Inv == TypeOK /\ ScansOK /\ RowOK

(***************************************************************************)
(* Sequences and sets                                                      *)
(***************************************************************************)
LEMMA IsSequence ==
  ASSUME NEW n \in Nat, NEW S, NEW f \in [1..n -> S]
  PROVE  f \in Seq(S) /\ Len(f) = n /\ DOMAIN f = 1..n
  OBVIOUS

(* A finite set as a sequence: its elements, each once. *)
LEMMA SetAsSequence ==
  ASSUME NEW S, IsFiniteSet(S)
  PROVE  LET s == SetToSeq(S)
         IN /\ s \in Seq(S) /\ DOMAIN s = 1..Cardinality(S) /\ Len(s) = Cardinality(S)
            /\ IsInjective(s) /\ Range(s) = S
<1>1. Cardinality(S) \in Nat
  BY FS_CardinalityType
<1>2. PICK f \in Bijection(1..Cardinality(S), S) : TRUE
  BY FS_CardinalityType DEF ExistsBijection
<1>3. f \in [1..Cardinality(S) -> S] /\ IsInjective(f)
  BY <1>2 DEF Bijection, Injection, IsInjective
<1> DEFINE s == SetToSeq(S)
<1>4. s \in [1..Cardinality(S) -> S] /\ IsInjective(s)
  BY <1>3 DEF SetToSeq
<1>5. s \in Seq(S) /\ DOMAIN s = 1..Cardinality(S) /\ Len(s) = Cardinality(S)
  BY <1>1, <1>4, IsSequence
<1>6. s \in Injection(1..Cardinality(S), S)
  BY <1>4 DEF Injection, IsInjective
<1>7. s \in Surjection(1..Cardinality(S), S)
  BY <1>1, <1>6, FS_Injection, FS_Interval
<1>8. Range(s) = S
  BY <1>4, <1>7 DEF Surjection, Range
<1> QED
  BY <1>4, <1>5, <1>8

(* The orders of a set in which a page may come are sequences of it, as    *)
(* long as the set is finite.                                              *)
LEMMA AnyOrder ==
  ASSUME NEW S, IsFiniteSet(S), NEW s \in SetToSeqs(S)
  PROVE  /\ s \in Seq(S) /\ Len(s) = Cardinality(S) /\ DOMAIN s = 1..Cardinality(S)
         /\ IsInjective(s) /\ Range(s) = S
<1>1. Cardinality(S) \in Nat
  BY FS_CardinalityType
<1>2. s \in [1..Cardinality(S) -> S] /\ IsInjective(s)
  BY DEF SetToSeqs, IsInjective
<1>3. s \in Seq(S) /\ Len(s) = Cardinality(S) /\ DOMAIN s = 1..Cardinality(S)
  BY <1>1, <1>2, IsSequence
<1>4. s \in Injection(1..Cardinality(S), S)
  BY <1>2 DEF Injection, IsInjective
<1>5. s \in Surjection(1..Cardinality(S), S)
  BY <1>1, <1>4, FS_Injection, FS_Interval
<1> QED
  BY <1>2, <1>3, <1>5 DEF Surjection, Range

(* The places of a sequence that have some property are finitely many. *)
LEMMA PlacesFinite ==
  ASSUME NEW S, NEW s \in Seq(S), NEW P \in SUBSET DOMAIN s
  PROVE  IsFiniteSet(P) /\ Cardinality(P) \in Nat
<1>1. DOMAIN s = 1..Len(s) /\ Len(s) \in Nat
  BY LenProperties
<1>2. P \in SUBSET (1..Len(s)) /\ IsFiniteSet(1..Len(s))
  BY <1>1, FS_Interval
<1>3. IsFiniteSet(P)
  BY <1>2, FS_Subset
<1> QED
  BY <1>3, FS_CardinalityType

(***************************************************************************)
(* What is made of a list                                                  *)
(***************************************************************************)
LEMMA CountsAreNumbers ==
  ASSUME NEW q, NEW S, q.list \in Seq(S)
  PROVE  /\ \A v : VpcCount(q, v) \in Nat /\ IsFiniteSet(InVpc(q, v))
         /\ \A s : SubnetCount(q, s) \in Nat /\ IsFiniteSet(InSubnet(q, s))
<1>1. \A v : InVpc(q, v) \in SUBSET DOMAIN q.list
  BY DEF InVpc
<1>2. \A s : InSubnet(q, s) \in SUBSET DOMAIN q.list
  BY DEF InSubnet
<1> QED
  BY <1>1, <1>2, PlacesFinite DEF VpcCount, SubnetCount

(* The addresses kept for a VPC are those of its instances in the list.    *)
LEMMA AddressesOfList ==
  ASSUME NEW q, NEW v, account.instances \in Seq(Instances),
         q.list \in Seq(1..Len(account.instances))
  PROVE  /\ Addresses(q, v) \in Seq(STRING) /\ Len(Addresses(q, v)) = VpcCount(q, v)
         /\ Range(Addresses(q, v)) =
              {Instance(i).ip : i \in {j \in Range(q.list) : Instance(j).vpc = v}}
<1> DEFINE in == SetToSeq(InVpc(q, v))
<1>1. IsFiniteSet(InVpc(q, v)) /\ Cardinality(InVpc(q, v)) \in Nat
  BY CountsAreNumbers DEF VpcCount
<1>2. /\ in \in Seq(InVpc(q, v)) /\ DOMAIN in = 1..Cardinality(InVpc(q, v))
      /\ Range(in) = InVpc(q, v)
  BY <1>1, SetAsSequence
<1>3. Addresses(q, v) = [n \in DOMAIN in |-> Instance(q.list[in[n]]).ip]
  BY DEF Addresses
<1>4. \A n \in DOMAIN in : in[n] \in InVpc(q, v)
  BY <1>2 DEF Range
<1>5. \A k \in DOMAIN q.list : q.list[k] \in 1..Len(account.instances)
  OBVIOUS
<1>6. \A i \in 1..Len(account.instances) : Instance(i).ip \in STRING
  <2>1. \A i \in 1..Len(account.instances) : account.instances[i] \in Instances
    BY ElementOfSeq
  <2> QED
    BY <2>1 DEF Instance, Instances
<1>7. \A n \in DOMAIN in : Instance(q.list[in[n]]).ip \in STRING
  BY <1>4, <1>5, <1>6 DEF InVpc
<1>8. Addresses(q, v) \in [1..Cardinality(InVpc(q, v)) -> STRING]
  BY <1>2, <1>3, <1>7
<1>9. Addresses(q, v) \in Seq(STRING) /\ Len(Addresses(q, v)) = VpcCount(q, v)
  BY <1>1, <1>8, IsSequence DEF VpcCount
<1>10. Range(Addresses(q, v)) = {Instance(q.list[k]).ip : k \in InVpc(q, v)}
  <2>1. InVpc(q, v) = {in[n] : n \in DOMAIN in}
    BY <1>2 DEF Range
  <2>2. Range(Addresses(q, v)) = {Instance(q.list[in[n]]).ip : n \in DOMAIN in}
    BY <1>3 DEF Range
  <2> HIDE DEF in
  <2> QED
    BY <2>1, <2>2
<1>11. {Instance(q.list[k]).ip : k \in InVpc(q, v)} =
        {Instance(i).ip : i \in {j \in Range(q.list) : Instance(j).vpc = v}}
  BY DEF InVpc, Range
<1> QED
  BY <1>9, <1>10, <1>11

(* What determineRouting says is one of the five classes, or an error. *)
LEMMA ClassOrError ==
  ASSUME NEW s, NEW tables, NEW ips, NEW gateways
  PROVE  determineRouting(s, tables, ips, gateways) \in RoutingStates \cup {"error"}
<1> DEFINE t == Table(s, tables)
           routes == IF t = 0 THEN <<>> ELSE tables[t].routes
           i == InternetRoute(routes)
<1>1. Via(routes[i], gateways) \in {"nat", "occluded", "public", "gateway"}
  BY DEF Via
<1>2. CASE i = 0
  BY <1>2 DEF determineRouting, RoutingStates
<1>3. CASE i # 0 /\ ~Parses(routes)
  BY <1>3 DEF determineRouting
<1>4. CASE i # 0 /\ Parses(routes)
  <2>1. determineRouting(s, tables, ips, gateways) =
          IF Cardinality(RouteToIPs(routes, ips)) < Len(ips) THEN "occluded" ELSE Via(routes[i], gateways)
    BY <1>4 DEF determineRouting
  <2> QED
    BY <1>1, <2>1 DEF RoutingStates
<1> QED
  BY <1>2, <1>3, <1>4

(***************************************************************************)
(* Types                                                                   *)
(***************************************************************************)
(* What TypeOK says of one request. *)
ReqOK(r) ==
  /\ req[r].asked =< changes
  /\ req[r].existed =< Len(account.instances)
  /\ req[r].token =< Len(account.instances)
  /\ req[r].list \in Seq(1..req[r].token)
  /\ Scanned(r) => req[r].region \in ScannedRegions
  /\ Scanned(r) \/ req[r].at = "subnets" => req[r].tables \in RouteTables

(* A step that touches one request, and neither the account nor changes.   *)
LEMMA TypeOfRequest ==
  ASSUME TypeOK, NEW r \in Requests, NEW q \in Scans,
         req' = [req EXCEPT ![r] = q],
         q.asked =< changes, q.existed =< Len(account.instances),
         q.token =< Len(account.instances), q.list \in Seq(1..q.token),
         q.at \in {"attributes", "size", "write", "answered"} => q.region \in ScannedRegions,
         q.at \in {"subnets", "attributes", "size", "write", "answered"} => q.tables \in RouteTables,
         UNCHANGED <<account, changes>>,
         up' \in BOOLEAN, row' \in Requests \cup {NoRow},
         saver' \in [Requests -> {"none", "start", "put", "update", "insert", "saved", "failed", "conflict"}]
  PROVE  TypeOK'
<1>1. req \in [Requests -> Scans]
  BY DEF TypeOK
<1>2. req' \in [Requests -> Scans] /\ req'[r] = q /\ \A o \in Requests : o # r => req'[o] = req[o]
  BY <1>1
<1>3. ReqOK(r)'
  BY <1>2 DEF ReqOK, Scanned
<1>4. ASSUME NEW o \in Requests, o # r PROVE ReqOK(o)'
  <2>1. ReqOK(o)
    BY DEF TypeOK, ReqOK
  <2> QED
    BY <1>2, <1>4, <2>1 DEF ReqOK, Scanned
<1>5. \A o \in Requests : ReqOK(o)'
  BY <1>3, <1>4
<1>6. account' \in Accounts /\ changes' \in 0..MaxChanges
  BY DEF TypeOK
<1> QED
  BY <1>2, <1>5, <1>6 DEF TypeOK, ReqOK, Scanned

(* Where a request is, is all that Refuse and most steps change of it.     *)
LEMMA TypeOfMove ==
  ASSUME TypeOK, NEW r \in Requests, NEW s \in Places, Goto(r, s),
         s \in {"attributes", "size", "write", "answered"} => Scanned(r), s # "subnets",
         UNCHANGED <<account, changes>>,
         up' \in BOOLEAN, row' \in Requests \cup {NoRow},
         saver' \in [Requests -> {"none", "start", "put", "update", "insert", "saved", "failed", "conflict"}]
  PROVE  TypeOK'
<1> DEFINE q == [req[r] EXCEPT !.at = s]
<1>1. req[r] \in Scans /\ ReqOK(r)
  BY DEF TypeOK, ReqOK
<1>2. q \in Scans
  BY <1>1 DEF Scans
<1>3. req' = [req EXCEPT ![r] = q]
  BY DEF Goto
<1>4. /\ q.at = s /\ q.asked = req[r].asked /\ q.existed = req[r].existed
      /\ q.token = req[r].token /\ q.list = req[r].list
      /\ q.region = req[r].region /\ q.tables = req[r].tables
  BY <1>1 DEF Scans
<1> HIDE DEF q
<1> QED
  BY <1>1, <1>2, <1>3, <1>4, TypeOfRequest DEF ReqOK

LEMMA TypeInit ==
  Init => TypeOK
<1> SUFFICES ASSUME Init PROVE TypeOK
  OBVIOUS
<1>1. account \in Accounts
  BY RegionAssumption DEF Init
<1>2. Len(account.instances) \in Nat
  BY <1>1 DEF Accounts
<1>3. Unasked \in Scans /\ Absent \in Scans
  <2>1. <<>> \in Seq(Nat)
    OBVIOUS
  <2>2. 0 \in 0..MaxChanges
    BY RegionAssumption
  <2> QED
    BY <2>1, <2>2 DEF Unasked, Absent, Scans, Places, NoScan
<1>4. /\ Unasked.asked = 0 /\ Unasked.existed = 0 /\ Unasked.token = 0 /\ Unasked.list = <<>>
      /\ Absent.asked = 0 /\ Absent.existed = 0 /\ Absent.token = 0 /\ Absent.list = <<>>
      /\ Unasked.at = "unasked" /\ Absent.at = "absent"
  BY DEF Unasked, Absent
<1>5. req \in [Requests -> Scans] /\ \A r \in Requests : req[r] = Unasked \/ req[r] = Absent
  <2>1. PICK b \in Beginnings : req = [r \in Requests |-> IF r \in b.requests THEN Unasked ELSE Absent]
    BY DEF Init
  <2> HIDE DEF Unasked, Absent
  <2> QED
    BY <1>3, <2>1
<1>6. \A r \in Requests : ReqOK(r)
  <2>1. <<>> \in Seq(1..0)
    OBVIOUS
  <2>2. changes = 0
    BY DEF Init
  <2>3. \A r \in Requests :
          /\ req[r].asked = 0 /\ req[r].existed = 0 /\ req[r].token = 0 /\ req[r].list = <<>>
          /\ req[r].at \in {"unasked", "absent"}
    BY <1>4, <1>5
  <2>4. \A r \in Requests : ~Scanned(r)
    BY <2>3 DEF Scanned
  <2> SUFFICES ASSUME NEW r \in Requests PROVE ReqOK(r)
    OBVIOUS
  <2>5. req[r].list \in Seq(1..req[r].token)
    BY <2>1, <2>3
  <2> QED
    BY <1>2, <2>2, <2>3, <2>4, <2>5 DEF ReqOK
<1>7. /\ up \in BOOLEAN /\ changes \in 0..MaxChanges /\ row \in Requests \cup {NoRow}
      /\ saver \in [Requests -> {"none", "start", "put", "update", "insert", "saved", "failed", "conflict"}]
  BY RegionAssumption DEF Init
<1> QED
  BY <1>1, <1>5, <1>6, <1>7 DEF TypeOK, ReqOK

LEMMA TypeScan ==
  ASSUME TypeOK, NEW r \in Requests, ScanVpcs(r)
  PROVE  TypeOK'
<1> DEFINE q == [req[r] EXCEPT !.at = "instances", !.asked = changes, !.existed = Len(account.instances)]
<1>1. req[r] \in Scans /\ ReqOK(r) /\ changes \in 0..MaxChanges /\ Len(account.instances) \in Nat
  BY DEF TypeOK, ReqOK, Accounts
<1>2. UNCHANGED <<up, account, changes, saver, row>>
  BY DEF ScanVpcs
<1>3. CASE Refuse(r)
  BY <1>2, <1>3, TypeOfMove DEF Refuse, TypeOK, Places
<1>4. CASE req' = [req EXCEPT ![r].at = "instances", ![r].asked = changes,
                              ![r].existed = Len(account.instances)]
  <2>1. q \in Scans
    BY <1>1 DEF Scans, Places
  <2>2. req' = [req EXCEPT ![r] = q]
    BY <1>4
  <2>3. /\ q.at = "instances" /\ q.asked = changes /\ q.existed = Len(account.instances)
        /\ q.token = req[r].token /\ q.list = req[r].list
    BY <1>1 DEF Scans
  <2>4. q.asked =< changes /\ q.existed =< Len(account.instances)
    BY <1>1, <2>3, RegionAssumption
  <2> HIDE DEF q
  <2> QED
    BY <1>1, <1>2, <2>1, <2>2, <2>3, <2>4, TypeOfRequest DEF ReqOK, TypeOK
<1> QED
  BY <1>3, <1>4 DEF ScanVpcs

(* The page that is read: what it holds, and how far the token gets.       *)
LEMMA PageIs ==
  ASSUME TypeOK, NEW r \in Requests
  PROVE  LET t == req[r].token
             n == Len(account.instances)
             after == t + Cardinality(Page(r))
         IN /\ t \in Nat /\ n \in Nat /\ after \in Nat /\ t =< after /\ after =< n
            /\ IsFiniteSet(Page(r)) /\ Page(r) = (t + 1)..after
<1> DEFINE t == req[r].token
           n == Len(account.instances)
           last == Least(t + PageSize, n)
<1>1. t \in Nat /\ n \in Nat /\ t =< n /\ PageSize \in Nat \ {0}
  BY RegionAssumption DEF TypeOK, Scans, Accounts
<1>2. last \in Nat /\ t =< last /\ last =< n
  BY <1>1 DEF Least
<1>3. Page(r) = (t + 1)..last
  BY DEF Page
<1> HIDE DEF last, t
<1>4. IsFiniteSet(Page(r)) /\ Cardinality(Page(r)) = last - t
  <2>1. t + 1 \in Int /\ last \in Int
    BY <1>1, <1>2
  <2>2. /\ IsFiniteSet((t + 1)..last)
        /\ Cardinality((t + 1)..last) = IF t + 1 > last THEN 0 ELSE last - (t + 1) + 1
    BY <2>1, FS_Interval
  <2> QED
    BY <1>1, <1>2, <1>3, <2>2
<1>5. t + Cardinality(Page(r)) = last
  BY <1>1, <1>2, <1>4
<1> QED
  BY <1>1, <1>2, <1>3, <1>4, <1>5 DEF t

(* The instances of a page that run, in the order they came in.            *)
Running(r) == {i \in Page(r) : Instance(i).running}

LEMMA PageRead ==
  ASSUME TypeOK, NEW r \in Requests, NEW running \in SetToSeqs(Running(r))
  PROVE  LET after == req[r].token + Cardinality(Page(r))
         IN /\ running \in Seq(1..after) /\ IsInjective(running) /\ Range(running) = Running(r)
            /\ req[r].list \in Seq(1..after) /\ req[r].list \o running \in Seq(1..after)
            /\ Range(req[r].list \o running) = Range(req[r].list) \cup Running(r)
<1> DEFINE t == req[r].token
           after == t + Cardinality(Page(r))
<1>1. t \in Nat /\ after \in Nat /\ t =< after /\ IsFiniteSet(Page(r)) /\ Page(r) = (t + 1)..after
  BY PageIs
<1>2. Running(r) \in SUBSET Page(r)
  BY DEF Running
<1>3. IsFiniteSet(Running(r))
  BY <1>1, <1>2, FS_Subset
<1>4. running \in Seq(Running(r)) /\ IsInjective(running) /\ Range(running) = Running(r)
  BY <1>3, AnyOrder
<1>5. Running(r) \subseteq 1..after /\ 1..t \subseteq 1..after
  BY <1>1, <1>2
<1>6. running \in Seq(1..after)
  BY <1>4, <1>5, SeqMonotonic
<1>7. req[r].list \in Seq(1..t)
  BY DEF TypeOK
<1>8. req[r].list \in Seq(1..after)
  BY <1>5, <1>7, SeqMonotonic
<1>9. req[r].list \o running \in Seq(1..after)
  BY <1>6, <1>8
<1>10. Range(req[r].list \o running) = Range(req[r].list) \cup Range(running)
  BY <1>6, <1>8, RangeConcatenation
<1> QED
  BY <1>4, <1>6, <1>8, <1>9, <1>10

LEMMA TypeReadInstances ==
  ASSUME TypeOK, NEW r \in Requests, ReadInstances(r)
  PROVE  TypeOK'
<1> DEFINE after == req[r].token + Cardinality(Page(r))
<1>1. req[r] \in Scans /\ ReqOK(r)
  BY DEF TypeOK, ReqOK
<1>2. UNCHANGED <<up, account, changes, saver, row>>
  BY DEF ReadInstances
<1>3. CASE Refuse(r)
  BY <1>2, <1>3, TypeOfMove DEF Refuse, TypeOK, Places
<1>4. ASSUME NEW running \in SetToSeqs(Running(r)),
             req' = [req EXCEPT ![r].list = @ \o running, ![r].token = after,
               ![r].at = IF after < Len(account.instances) THEN "instances" ELSE "gateways"]
      PROVE  TypeOK'
  <2> DEFINE list == req[r].list \o running
             at == IF after < Len(account.instances) THEN "instances" ELSE "gateways"
             q == [req[r] EXCEPT !.list = list, !.token = after, !.at = at]
  <2>1. list \in Seq(1..after) /\ after \in Nat /\ after =< Len(account.instances)
    BY PageRead, PageIs
  <2>2. list \in Seq(Nat)
    BY <2>1, SeqMonotonic
  <2>3. at \in Places /\ at \in {"instances", "gateways"}
    BY DEF Places
  <2> HIDE DEF list, at, after
  <2>4. q \in Scans
    BY <1>1, <2>1, <2>2, <2>3 DEF Scans
  <2>5. req' = [req EXCEPT ![r] = q]
    BY <1>4 DEF list, at, after
  <2>6. q.at = at /\ q.asked = req[r].asked /\ q.existed = req[r].existed /\ q.token = after /\ q.list = list
    BY <1>1 DEF Scans
  <2> HIDE DEF q
  <2> QED
    BY <1>1, <1>2, <2>1, <2>3, <2>4, <2>5, <2>6, TypeOfRequest DEF ReqOK, TypeOK
<1> QED
  BY <1>3, <1>4 DEF ReadInstances, Running

LEMMA TypeReadGateways ==
  ASSUME TypeOK, NEW r \in Requests, ReadGateways(r)
  PROVE  TypeOK'
<1>1. req[r] \in Scans /\ ReqOK(r) /\ account.attachments \in SUBSET Attachments
  BY DEF TypeOK, ReqOK, Accounts
<1>2. UNCHANGED <<up, account, changes, saver, row>>
  BY DEF ReadGateways
<1>3. CASE Refuse(r)
  BY <1>2, <1>3, TypeOfMove DEF Refuse, TypeOK, Places
<1>4. CASE req' = [req EXCEPT ![r].at = "tables", ![r].attachments = account.attachments]
  <2> DEFINE q == [req[r] EXCEPT !.at = "tables", !.attachments = account.attachments]
  <2>1. q \in Scans
    BY <1>1 DEF Scans, Places
  <2>2. req' = [req EXCEPT ![r] = q]
    BY <1>4
  <2>3. /\ q.at = "tables" /\ q.asked = req[r].asked /\ q.existed = req[r].existed
        /\ q.token = req[r].token /\ q.list = req[r].list
    BY <1>1 DEF Scans
  <2> HIDE DEF q
  <2> QED
    BY <1>1, <1>2, <2>1, <2>2, <2>3, TypeOfRequest DEF ReqOK, TypeOK
<1> QED
  BY <1>3, <1>4 DEF ReadGateways

LEMMA TypeReadTables ==
  ASSUME TypeOK, NEW r \in Requests, ReadTables(r)
  PROVE  TypeOK'
<1>1. req[r] \in Scans /\ ReqOK(r) /\ account.tables \in RouteTables
  BY DEF TypeOK, ReqOK, Accounts
<1>2. UNCHANGED <<up, account, changes, saver, row>>
  BY DEF ReadTables
<1>3. CASE Refuse(r)
  BY <1>2, <1>3, TypeOfMove DEF Refuse, TypeOK, Places
<1>4. CASE req' = [req EXCEPT ![r].at = "subnets", ![r].tables = account.tables]
  <2> DEFINE q == [req[r] EXCEPT !.at = "subnets", !.tables = account.tables]
  <2>1. q \in Scans
    BY <1>1 DEF Scans, Places
  <2>2. req' = [req EXCEPT ![r] = q]
    BY <1>4
  <2>3. /\ q.at = "subnets" /\ q.asked = req[r].asked /\ q.existed = req[r].existed
        /\ q.token = req[r].token /\ q.list = req[r].list /\ q.tables = account.tables
    BY <1>1 DEF Scans
  <2> HIDE DEF q
  <2> QED
    BY <1>1, <1>2, <2>1, <2>2, <2>3, TypeOfRequest DEF ReqOK, TypeOK
<1> QED
  BY <1>3, <1>4 DEF ReadTables

(* What is made of a list, some attachments and tables. *)
Classes(q) == [s \in Subnets |-> Class(q, s)]
Counts(q) == [s \in Subnets |-> SubnetCount(q, s)]
Region(q, order) ==
  [class |-> Classes(q), count |-> Counts(q), order |-> order,
   vpcs |-> [v \in VPCs |-> VpcCount(q, v)]]

LEMMA RegionMade ==
  ASSUME TypeOK, NEW r \in Requests, Classified(Classes(req[r])),
         NEW order \in Orders(Classes(req[r]), Counts(req[r]))
  PROVE  Region(req[r], order) \in ScannedRegions
<1> DEFINE q == req[r]
<1>1. q.list \in Seq(Nat)
  BY DEF TypeOK, Scans
<1>2. Counts(q) \in [Subnets -> Nat] /\ [v \in VPCs |-> VpcCount(q, v)] \in [VPCs -> Nat]
  BY <1>1, CountsAreNumbers DEF Counts
<1>3. \A s \in Subnets : Class(q, s) \in RoutingStates
  <2>1. \A s \in Subnets : Class(q, s) \in RoutingStates \cup {"error"}
    BY ClassOrError DEF Class
  <2> QED
    BY <2>1 DEF Classified, Classes
<1>4. Classes(q) \in [Subnets -> RoutingStates]
  BY <1>3 DEF Classes
<1>5. order \in SetToSeqs(Subnets)
  BY DEF Orders
<1> QED
  BY <1>2, <1>4, <1>5 DEF Region, ScannedRegions

LEMMA TypeReadSubnets ==
  ASSUME TypeOK, NEW r \in Requests, ReadSubnets(r)
  PROVE  TypeOK'
<1>1. req[r] \in Scans /\ ReqOK(r) /\ req[r].tables \in RouteTables
  BY DEF TypeOK, ReqOK, ReadSubnets, At
<1>2. UNCHANGED <<up, account, changes, saver, row>>
  BY DEF ReadSubnets
<1>3. CASE Refuse(r)
  BY <1>2, <1>3, TypeOfMove DEF Refuse, TypeOK, Places
<1>4. ASSUME Classified(Classes(req[r])), NEW order \in Orders(Classes(req[r]), Counts(req[r])),
             req' = [req EXCEPT ![r].at = "attributes", ![r].region = Region(req[r], order)]
      PROVE  TypeOK'
  <2> DEFINE region == Region(req[r], order)
             q == [req[r] EXCEPT !.at = "attributes", !.region = region]
  <2>1. region \in ScannedRegions
    BY <1>4, RegionMade
  <2>2. req' = [req EXCEPT ![r] = q]
    BY <1>4
  <2> HIDE DEF region
  <2>3. q \in Scans
    BY <1>1, <2>1 DEF Scans, Places
  <2>4. /\ q.at = "attributes" /\ q.asked = req[r].asked /\ q.existed = req[r].existed
        /\ q.token = req[r].token /\ q.list = req[r].list
        /\ q.region = region /\ q.tables = req[r].tables
    BY <1>1 DEF Scans
  <2> HIDE DEF q
  <2> QED
    BY <1>1, <1>2, <2>1, <2>2, <2>3, <2>4, TypeOfRequest DEF ReqOK, TypeOK
<1> QED
  BY <1>3, <1>4 DEF ReadSubnets, Classes, Counts, Region

LEMMA TypeResponds ==
  ASSUME TypeOK, NEW r \in Requests, ReadAttributes(r) \/ Responds(r)
  PROVE  TypeOK'
<1>1. req[r] \in Scans /\ ReqOK(r)
  BY DEF TypeOK, ReqOK
<1>2. CASE ReadAttributes(r)
  <2>1. UNCHANGED <<up, account, changes, row>>
        /\ saver' \in [Requests -> {"none", "start", "put", "update", "insert", "saved", "failed", "conflict"}]
    BY <1>2 DEF ReadAttributes, TypeOK
  <2>2. CASE Refuse(r)
    BY <2>1, <2>2, TypeOfMove DEF Refuse, TypeOK, Places
  <2>3. CASE Goto(r, "size")
    BY <1>2, <2>1, <2>3, TypeOfMove DEF ReadAttributes, At, Scanned, TypeOK, Places
  <2> QED
    BY <1>2, <2>2, <2>3 DEF ReadAttributes
<1>3. CASE Size(r)
  <2> DEFINE sized == req[r].customer # "unset"
             q == [req[r] EXCEPT !.at = "write", !.sized = sized]
  <2>1. q \in Scans
    BY <1>1 DEF Scans, Places
  <2>2. req' = [req EXCEPT ![r] = q]
    BY <1>3 DEF Size
  <2>3. /\ q.at = "write" /\ q.asked = req[r].asked /\ q.existed = req[r].existed
        /\ q.token = req[r].token /\ q.list = req[r].list
        /\ q.region = req[r].region /\ q.tables = req[r].tables
    BY <1>1 DEF Scans
  <2>4. Scanned(r) /\ UNCHANGED <<up, account, changes, saver, row>>
    BY <1>3 DEF Size, At, Scanned
  <2> HIDE DEF q
  <2> QED
    BY <1>1, <2>1, <2>2, <2>3, <2>4, TypeOfRequest DEF ReqOK, TypeOK
<1>4. CASE MarshalTo(r)
  <2>1. UNCHANGED <<account, changes, saver, row>> /\ Scanned(r)
    BY <1>4 DEF MarshalTo, At, Scanned
  <2>2. CASE Goto(r, "answered") /\ UNCHANGED up
    BY <2>1, <2>2, TypeOfMove DEF TypeOK, Places
  <2>3. CASE up' = FALSE /\ UNCHANGED req
    BY <2>1, <2>3 DEF TypeOK, Scanned
  <2> QED
    BY <1>4, <2>2, <2>3 DEF MarshalTo
<1> QED
  BY <1>2, <1>3, <1>4 DEF Responds

LEMMA TypeSaves ==
  ASSUME TypeOK, NEW r \in Requests, Saves(r)
  PROVE  TypeOK'
<1>1. req[r] \in Scans /\ ReqOK(r)
  BY DEF TypeOK, ReqOK
<1>2. CASE Assign(r)
  <2>1. UNCHANGED <<up, account, changes, row>>
        /\ saver' \in [Requests -> {"none", "start", "put", "update", "insert", "saved", "failed", "conflict"}]
    BY <1>2 DEF Assign, Move, TypeOK
  <2>2. PICK c \in {"torn", "set"} : req' = [req EXCEPT ![r].customer = c]
    BY <1>2 DEF Assign
  <2> DEFINE q == [req[r] EXCEPT !.customer = c]
  <2>3. q \in Scans
    BY <1>1 DEF Scans
  <2>4. req' = [req EXCEPT ![r] = q]
    BY <2>2
  <2>5. /\ q.at = req[r].at /\ q.asked = req[r].asked /\ q.existed = req[r].existed
        /\ q.token = req[r].token /\ q.list = req[r].list
        /\ q.region = req[r].region /\ q.tables = req[r].tables
    BY <1>1 DEF Scans
  <2> HIDE DEF q
  <2> QED
    BY <1>1, <2>1, <2>3, <2>4, <2>5, TypeOfRequest DEF ReqOK, TypeOK, Scanned
<1>3. CASE PutRegion(r) \/ Update(r) \/ Insert(r)
  <2>1. UNCHANGED <<up, account, changes, req>> /\ row' \in Requests \cup {NoRow}
    BY <1>3 DEF PutRegion, Update, Insert, TypeOK
  <2>2. saver' \in [Requests -> {"none", "start", "put", "update", "insert", "saved", "failed", "conflict"}]
    BY <1>3 DEF PutRegion, Update, Insert, Move, TypeOK
  <2> QED
    BY <2>1, <2>2 DEF TypeOK, Scanned
<1> QED
  BY <1>2, <1>3 DEF Saves

(***************************************************************************)
(* What the customer may change                                            *)
(***************************************************************************)
LEMMA BlackholeIsATable ==
  ASSUME NEW table \in Tables(Subnets, STRING, STRING)
  PROVE  Blackhole(table) \in Tables(Subnets, STRING, STRING)
<1> DEFINE R == Routes(STRING, STRING)
           routes == table.routes
           after == [n \in DOMAIN routes |-> Blackholed(routes[n])]
<1>1. routes \in Seq(R) /\ Len(routes) \in Nat /\ DOMAIN routes = 1..Len(routes)
  BY DEF Tables
<1>2. \A n \in 1..Len(routes) : routes[n] \in R
  BY <1>1, ElementOfSeq
<1>3. \A route \in R : Blackholed(route) \in R
  BY DEF Blackholed, Routes
<1>4. after \in [1..Len(routes) -> R]
  BY <1>1, <1>2, <1>3
<1>5. after \in Seq(R)
  BY <1>1, <1>4, IsSequence
<1>6. Blackhole(table) = [table EXCEPT !.routes = after]
  BY DEF Blackhole
<1> HIDE DEF after
<1> QED
  BY <1>5, <1>6 DEF Tables

(* Instances are started and terminated; none is ever taken away, nor does *)
(* one move to another VPC or subnet or get another address.               *)
LEMMA Changed ==
  ASSUME TypeOK, Change
  PROVE  /\ account' \in Accounts
         /\ Len(account.instances) =< Len(account.instances')
         /\ \A i \in 1..Len(account.instances) :
              LET old == account.instances[i]
                  new == account.instances'[i]
              IN /\ new.vpc = old.vpc /\ new.subnet = old.subnet /\ new.ip = old.ip
                 /\ new.running => old.running
<1> DEFINE I == account.instances
           Kept(new, old) == /\ new.vpc = old.vpc /\ new.subnet = old.subnet /\ new.ip = old.ip
                             /\ new.running => old.running
<1>1. /\ account \in Accounts /\ I \in Seq(Instances) /\ Len(I) \in Nat /\ DOMAIN I = 1..Len(I)
      /\ account.attachments \in SUBSET Attachments /\ account.tables \in RouteTables
  BY DEF TypeOK, Accounts
<1>2. \A i \in 1..Len(I) : I[i] \in Instances
  BY <1>1, ElementOfSeq
<1>3. ASSUME NEW i \in DOMAIN I, account' = [account EXCEPT !.instances[i].running = FALSE]
      PROVE  /\ account' \in Accounts /\ Len(I) =< Len(I')
             /\ \A k \in 1..Len(I) : Kept(I'[k], I[k])
  <2> DEFINE new == [I[i] EXCEPT !.running = FALSE]
             J == [I EXCEPT ![i] = new]
  <2>1. new \in Instances
    BY <1>1, <1>2, <1>3 DEF Instances
  <2>2. J \in Seq(Instances) /\ Len(J) = Len(I) /\ \A k \in 1..Len(I) : J[k] = IF k = i THEN new ELSE I[k]
    BY <1>1, <1>3, <2>1, ExceptSeq
  <2>3. account' = [account EXCEPT !.instances = J]
    BY <1>1, <1>3 DEF Accounts
  <2>4. Kept(new, I[i])
    BY <1>1, <1>2, <1>3 DEF Instances
  <2>5. \A k \in 1..Len(I) : Kept(J[k], I[k])
    <3> HIDE DEF J, new
    <3> QED
      BY <2>2, <2>4
  <2> HIDE DEF J
  <2>6. account' \in Accounts /\ I' = J
    BY <1>1, <2>2, <2>3 DEF Accounts
  <2>7. Len(I) =< Len(I')
    BY <1>1, <2>2, <2>6
  <2> QED
    BY <2>5, <2>6, <2>7
<1>4. ASSUME NEW new \in NewInstances, account' = [account EXCEPT !.instances = Append(@, new)]
      PROVE  /\ account' \in Accounts /\ Len(I) =< Len(I') /\ \A k \in 1..Len(I) : I'[k] = I[k]
  <2> DEFINE J == Append(I, new)
  <2>1. new \in Instances
    BY RegionAssumption
  <2>2. J \in Seq(Instances) /\ Len(J) = Len(I) + 1 /\ \A k \in 1..Len(I) : J[k] = I[k]
    BY <1>1, <2>1, AppendProperties
  <2>3. account' = [account EXCEPT !.instances = J]
    BY <1>4
  <2> HIDE DEF J
  <2>4. account' \in Accounts /\ I' = J
    BY <1>1, <2>2, <2>3 DEF Accounts
  <2> QED
    BY <1>1, <2>2, <2>4
<1>5. ASSUME NEW a \in account.attachments,
             account' = [account EXCEPT !.attachments = (@ \ {a}) \cup {[a EXCEPT !.state = "detaching"]}]
      PROVE  account' \in Accounts /\ I' = I
  <2> DEFINE A == (account.attachments \ {a}) \cup {[a EXCEPT !.state = "detaching"]}
  <2>1. A \in SUBSET Attachments
    <3>1. a \in Attachments
      BY <1>1, <1>5
    <3>2. [a EXCEPT !.state = "detaching"] \in Attachments
      BY <3>1 DEF Attachments, AttachmentStates
    <3> QED
      BY <1>1, <3>2
  <2>2. account' = [account EXCEPT !.attachments = A]
    BY <1>5
  <2> HIDE DEF A
  <2> QED
    BY <1>1, <2>1, <2>2 DEF Accounts
<1>6. ASSUME account' = [account EXCEPT !.tables = [v \in VPCs |->
                           [k \in DOMAIN @[v] |-> Blackhole(@[v][k])]]]
      PROVE  account' \in Accounts /\ I' = I
  <2> DEFINE T == [v \in VPCs |-> [k \in DOMAIN account.tables[v] |-> Blackhole(account.tables[v][k])]]
             R == Tables(Subnets, STRING, STRING)
  <2>1. ASSUME NEW v \in VPCs PROVE T[v] \in Seq(R)
    <3> DEFINE L == account.tables[v]
    <3>1. L \in Seq(R) /\ Len(L) \in Nat /\ DOMAIN L = 1..Len(L)
      BY <1>1 DEF RouteTables
    <3>2. \A k \in 1..Len(L) : L[k] \in R
      BY <3>1, ElementOfSeq
    <3>3. [k \in DOMAIN L |-> Blackhole(L[k])] \in [1..Len(L) -> R]
      BY <3>1, <3>2, BlackholeIsATable
    <3> QED
      BY <3>1, <3>3, IsSequence
  <2>2. T \in RouteTables
    BY <2>1 DEF RouteTables
  <2>3. account' = [account EXCEPT !.tables = T]
    BY <1>6
  <2> HIDE DEF T
  <2> QED
    BY <1>1, <2>2, <2>3 DEF Accounts
<1>7. CASE \E i \in DOMAIN I : account' = [account EXCEPT !.instances[i].running = FALSE]
  <2>1. PICK i \in DOMAIN I : account' = [account EXCEPT !.instances[i].running = FALSE]
    BY <1>7
  <2> QED
    BY <1>3, <2>1
<1>8. CASE ~\E i \in DOMAIN I : account' = [account EXCEPT !.instances[i].running = FALSE]
  <2>1. account' \in Accounts /\ Len(I) =< Len(I') /\ \A k \in 1..Len(I) : I'[k] = I[k]
    BY <1>1, <1>4, <1>5, <1>6, <1>8 DEF Change
  <2> QED
    BY <2>1
<1> QED
  BY <1>7, <1>8

LEMMA TypeChange ==
  ASSUME TypeOK, Change
  PROVE  TypeOK'
<1>1. account' \in Accounts /\ Len(account.instances) =< Len(account.instances')
  BY Changed
<1>2. Len(account.instances) \in Nat /\ Len(account.instances') \in Nat
  BY <1>1 DEF TypeOK, Accounts
<1>3. changes' \in 0..MaxChanges /\ changes =< changes'
  BY RegionAssumption DEF TypeOK, Change
<1>4. UNCHANGED <<up, req, saver, row>>
  BY DEF Change
<1>5. \A r \in Requests : req[r] \in Scans /\ ReqOK(r)
  BY DEF TypeOK, ReqOK
<1>6. \A r \in Requests : ReqOK(r)'
  <2> SUFFICES ASSUME NEW r \in Requests PROVE ReqOK(r)'
    OBVIOUS
  <2>1. req[r].asked =< changes' /\ req[r].existed =< Len(account.instances') /\ req[r].token =< Len(account.instances')
    BY <1>1, <1>2, <1>3, <1>5 DEF ReqOK, Scans, TypeOK
  <2> QED
    BY <1>4, <1>5, <2>1 DEF ReqOK, Scanned
<1> QED
  BY <1>1, <1>3, <1>4, <1>6 DEF TypeOK, ReqOK, Scanned

LEMMA TypeNext ==
  TypeOK /\ [Next]_vars => TypeOK'
<1> SUFFICES ASSUME TypeOK, [Next]_vars PROVE TypeOK'
  OBVIOUS
<1>1. ASSUME NEW r \in Requests, ScanVpcs(r) \/ Reads(r) \/ Responds(r) \/ Saves(r) PROVE TypeOK'
  BY <1>1, TypeScan, TypeReadInstances, TypeReadGateways, TypeReadTables, TypeReadSubnets,
     TypeResponds, TypeSaves DEF Reads
<1>2. CASE UNCHANGED vars
  BY <1>2 DEF vars, TypeOK, Scanned
<1> QED
  BY <1>1, <1>2, TypeChange DEF Next

(***************************************************************************)
(* TypeOK: among other things, a region that is answered has a class that  *)
(* is one, and never an error, for every subnet, and every subnet once in  *)
(* the list that is offered; no page is read past the end.                 *)
(***************************************************************************)
THEOREM TypeCorrect == Spec => []TypeOK
<1> QED
  BY TypeInit, TypeNext, PTL DEF Spec

(***************************************************************************)
(* The row                                                                 *)
(***************************************************************************)
(* A request that has not been answered yet has nothing to save.           *)
LEMMA RowWhileReading ==
  ASSUME TypeOK, RowOK, NEW r \in Requests, ScanVpcs(r) \/ Reads(r)
  PROVE  RowOK'
<1>1. saver[r] = "none"
  BY DEF RowOK, Reads, ScanVpcs, ReadInstances, ReadGateways, ReadTables, ReadSubnets, ReadAttributes, At
<1>2. \A o \in Requests \ {r} : req'[o] = req[o]
  BY DEF TypeOK, Reads, ScanVpcs, ReadInstances, ReadGateways, ReadTables, ReadSubnets, ReadAttributes,
         Refuse, Goto
<1>3. CASE UNCHANGED <<saver, row>>
  BY <1>1, <1>2, <1>3 DEF RowOK
<1>4. CASE Goto(r, "size") /\ saver' = [saver EXCEPT ![r] = "start"] /\ UNCHANGED row
  <2>1. req'[r].at = "size"
    BY <1>4 DEF Goto, TypeOK, Scans
  <2>2. saver'[r] = "start" /\ \A o \in Requests \ {r} : saver'[o] = saver[o]
    BY <1>4 DEF TypeOK
  <2>3. row # NoRow => row \in Requests \ {r}
    BY <1>1 DEF RowOK, TypeOK
  <2> QED
    BY <1>2, <1>4, <2>1, <2>2, <2>3 DEF RowOK
<1> QED
  BY <1>3, <1>4 DEF Reads, ScanVpcs, ReadInstances, ReadGateways, ReadTables, ReadSubnets, ReadAttributes

(* The response is written whatever the goroutine has done so far.         *)
LEMMA RowWhileAnswering ==
  ASSUME TypeOK, RowOK, NEW r \in Requests, Responds(r)
  PROVE  RowOK'
<1>1. \A o \in Requests :
        /\ req'[o].customer = req[o].customer
        /\ req[o].at \in {"size", "write", "answered"} => req'[o].at \in {"size", "write", "answered"}
  <2>1. req \in [Requests -> Scans]
    BY DEF TypeOK
  <2>2. CASE Size(r)
    BY <2>1, <2>2 DEF Size, Scans
  <2>3. CASE Goto(r, "answered")
    BY <2>1, <2>3 DEF Goto, Scans
  <2>4. CASE UNCHANGED req
    BY <2>4
  <2> QED
    BY <2>2, <2>3, <2>4 DEF Responds, MarshalTo
<1>2. UNCHANGED <<saver, row>>
  BY DEF Responds, Size, MarshalTo
<1> QED
  BY <1>1, <1>2 DEF RowOK

(* Saving: the second of two first inserts finds a row that is another's,  *)
(* for its own it would have to have saved already.                        *)
LEMMA RowWhileSaving ==
  ASSUME TypeOK, RowOK, NEW r \in Requests, Saves(r)
  PROVE  RowOK'
<1>1. row \in Requests \cup {NoRow} /\ NoRow \notin Requests
  BY RegionAssumption DEF TypeOK
<1>2. saver[r] \in {"start", "put", "update", "insert"}
  BY DEF Saves, Assign, PutRegion, Update, Insert, SaverAt
<1>3. row # r
  BY <1>1, <1>2 DEF RowOK
<1>4. \A o \in Requests \ {r} : saver'[o] = saver[o] /\ req'[o] = req[o]
  BY DEF Saves, Assign, PutRegion, Update, Insert, Move, TypeOK
<1>5. req'[r].at = req[r].at
  BY DEF Saves, Assign, PutRegion, Update, Insert, TypeOK, Scans
<1>6. req'[r].at \in {"size", "write", "answered"}
  BY <1>2, <1>5 DEF RowOK
<1>7. CASE Assign(r)
  <2>1. row' = row /\ saver'[r] \in {"start", "put"}
    BY <1>2, <1>7 DEF Assign, Move, TypeOK, SaverAt
  <2>2. saver'[r] # "start" => req'[r].customer = "set"
    BY <1>7 DEF Assign, Move, TypeOK, SaverAt, Scans
  <2> QED
    BY <1>1, <1>3, <1>4, <1>6, <2>1, <2>2 DEF RowOK
<1>8. CASE PutRegion(r)
  <2>1. row' = row /\ saver'[r] \in {"insert", "update"} /\ req'[r].customer = "set"
    BY <1>8 DEF PutRegion, Move, TypeOK, SaverAt, RowOK
  <2> QED
    BY <1>1, <1>3, <1>4, <1>6, <2>1 DEF RowOK
<1>9. CASE Update(r) \/ Insert(r)
  <2>1. req'[r].customer = "set"
    BY <1>9 DEF Update, Insert, TypeOK, SaverAt, RowOK
  <2>2. \/ row' = r /\ saver'[r] \in {"saved", "failed"}
        \/ row' = row /\ saver'[r] = "failed"
        \/ row' = row /\ row # NoRow /\ saver'[r] = "conflict"
    BY <1>9 DEF Update, Insert, Move, TypeOK
  <2> QED
    BY <1>1, <1>3, <1>4, <1>6, <2>1, <2>2 DEF RowOK
<1> QED
  BY <1>7, <1>8, <1>9 DEF Saves

LEMMA RowNext ==
  TypeOK /\ RowOK /\ [Next]_vars => RowOK'
<1> SUFFICES ASSUME TypeOK, RowOK, [Next]_vars PROVE RowOK'
  OBVIOUS
<1>1. CASE Change \/ UNCHANGED vars
  BY <1>1 DEF Change, vars, RowOK
<1>2. ASSUME NEW r \in Requests, ScanVpcs(r) \/ Reads(r) \/ Responds(r) \/ Saves(r) PROVE RowOK'
  BY <1>2, RowWhileReading, RowWhileAnswering, RowWhileSaving
<1> QED
  BY <1>1, <1>2 DEF Next

(* The row of a region is always that of a scan that was finished and had  *)
(* its customer's id when it was saved, and a goroutine that lost the race *)
(* to insert it has left the winner's there.                               *)
THEOREM Row == Spec => []RowOfAScan
<1>1. Init => RowOK
  BY DEF Init, RowOK
<1>2. TypeOK /\ RowOK => RowOfAScan
  <2> SUFFICES ASSUME TypeOK, RowOK PROVE RowOfAScan
    OBVIOUS
  <2>1. ASSUME row # NoRow PROVE Scanned(row) /\ req[row].customer = "set"
    BY <2>1 DEF TypeOK, RowOK, Scanned
  <2> QED
    BY <2>1 DEF RowOK, RowOfAScan
<1> QED
  BY <1>1, <1>2, RowNext, TypeInit, TypeNext, PTL DEF Spec

(***************************************************************************)
(* What the scans have read and made                                       *)
(***************************************************************************)
(* Where an instance is and what its address is, is all that counts.       *)
LEMMA MadeAgain ==
  ASSUME NEW o \in Requests, req[o].list \in Seq(Nat),
         req'[o].list = req[o].list, req'[o].attachments = req[o].attachments,
         req'[o].tables = req[o].tables,
         \A k \in DOMAIN req[o].list :
           LET i == req[o].list[k]
           IN /\ account.instances'[i].vpc = account.instances[i].vpc
              /\ account.instances'[i].subnet = account.instances[i].subnet
              /\ account.instances'[i].ip = account.instances[i].ip
  PROVE  /\ \A s : Class(req[o], s)' = Class(req[o], s)
         /\ \A s : SubnetCount(req[o], s)' = SubnetCount(req[o], s)
         /\ \A v : VpcCount(req[o], v)' = VpcCount(req[o], v)
<1>1. \A v : InVpc(req[o], v)' = InVpc(req[o], v)
  BY DEF InVpc, Instance
<1>2. \A s : InSubnet(req[o], s)' = InSubnet(req[o], s)
  BY DEF InSubnet, Instance
<1>3. ASSUME NEW v PROVE Addresses(req[o], v)' = Addresses(req[o], v)
  <2> DEFINE in == SetToSeq(InVpc(req[o], v))
  <2>1. SetToSeq(InVpc(req[o], v))' = in
    BY <1>1
  <2>2. ASSUME NEW n \in DOMAIN in
        PROVE  account.instances'[req[o].list[in[n]]].ip = account.instances[req[o].list[in[n]]].ip
    <3>1. IsFiniteSet(InVpc(req[o], v))
      BY CountsAreNumbers
    <3>2. in[n] \in InVpc(req[o], v)
      BY <2>2, <3>1, SetAsSequence DEF Range
    <3> QED
      BY <3>2 DEF InVpc
  <2> QED
    BY <2>1, <2>2 DEF Addresses, Instance
<1>4. \A v : Attached(req[o], v)' = Attached(req[o], v)
  BY DEF Attached
<1> QED
  BY <1>1, <1>2, <1>3, <1>4 DEF Class, SubnetCount, VpcCount

(* A step that touches none of what a request has read.                    *)
LEMMA ScanKept ==
  ASSUME TypeOK, NEW o \in Requests, ListOK(o), MadeOK(o), QuietOK(o),
         UNCHANGED <<account, changes>>,
         req'[o].asked = req[o].asked, req'[o].existed = req[o].existed,
         req'[o].token = req[o].token, req'[o].list = req[o].list,
         req'[o].attachments = req[o].attachments, req'[o].tables = req[o].tables,
         req'[o].region = req[o].region,
         \/ req'[o].at = req[o].at
         \/ req'[o].at = "refused"
         \/ Scanned(o) /\ req'[o].at \in {"attributes", "size", "write", "answered"}
  PROVE  ListOK(o)' /\ MadeOK(o)' /\ QuietOK(o)'
<1>1. Scanned(o)' => Scanned(o)
  BY DEF Scanned
<1>2. Listed(o)' => Listed(o)
  BY DEF Scanned, Listed
<1>3. ListOK(o)'
  BY <1>2 DEF ListOK, Instance, Scanned
<1>4. MadeOK(o)'
  <2>1. req[o].list \in Seq(Nat)
    BY DEF TypeOK, Scans
  <2>2. /\ \A s : Class(req[o], s)' = Class(req[o], s)
        /\ \A s : SubnetCount(req[o], s)' = SubnetCount(req[o], s)
        /\ \A v : VpcCount(req[o], v)' = VpcCount(req[o], v)
    BY <2>1, MadeAgain
  <2> QED
    BY <1>1, <2>2 DEF MadeOK, Classified, Orders, Less
<1>5. QuietOK(o)'
  BY <1>1, <1>2 DEF QuietOK, Instance, Scanned
<1> QED
  BY <1>3, <1>4, <1>5

LEMMA ScanMoves ==
  ASSUME TypeOK, ScansOK, NEW r \in Requests, NEW s \in Places, Goto(r, s),
         s = "refused" \/ (s \in {"attributes", "size", "write", "answered"} /\ Scanned(r)),
         UNCHANGED <<account, changes>>
  PROVE  ScansOK'
<1>1. req \in [Requests -> Scans]
  BY DEF TypeOK
<1> SUFFICES ASSUME NEW o \in Requests PROVE ListOK(o)' /\ MadeOK(o)' /\ QuietOK(o)'
  BY DEF ScansOK
<1>2. /\ req'[o].asked = req[o].asked /\ req'[o].existed = req[o].existed
      /\ req'[o].token = req[o].token /\ req'[o].list = req[o].list
      /\ req'[o].attachments = req[o].attachments /\ req'[o].tables = req[o].tables
      /\ req'[o].region = req[o].region
      /\ IF o = r THEN req'[o].at = s ELSE req'[o].at = req[o].at
  BY <1>1 DEF Goto, Scans
<1>3. ListOK(o) /\ MadeOK(o) /\ QuietOK(o)
  BY DEF ScansOK
<1> QED
  BY <1>2, <1>3, ScanKept

(* Of the others, a request's step touches nothing.                        *)
LEMMA OtherScans ==
  ASSUME TypeOK, ScansOK, NEW r \in Requests, NEW o \in Requests \ {r}, NEW q,
         req' = [req EXCEPT ![r] = q], UNCHANGED <<account, changes>>
  PROVE  ListOK(o)' /\ MadeOK(o)' /\ QuietOK(o)'
<1>1. req'[o] = req[o]
  BY DEF TypeOK
<1>2. ListOK(o) /\ MadeOK(o) /\ QuietOK(o)
  BY DEF ScansOK
<1> QED
  BY <1>1, <1>2, ScanKept

LEMMA ScansScan ==
  ASSUME TypeOK, ScansOK, NEW r \in Requests, ScanVpcs(r)
  PROVE  ScansOK'
<1>1. req[r] \in Scans /\ req[r].at = "unasked" /\ UNCHANGED <<account, changes>>
  BY DEF TypeOK, ScanVpcs, At
<1>2. CASE Refuse(r)
  BY <1>1, <1>2, ScanMoves DEF Refuse, Places
<1>3. CASE req' = [req EXCEPT ![r].at = "instances", ![r].asked = changes,
                              ![r].existed = Len(account.instances)]
  <2> DEFINE q == [req[r] EXCEPT !.at = "instances", !.asked = changes, !.existed = Len(account.instances)]
  <2>1. req' = [req EXCEPT ![r] = q] /\ req'[r] = q
    BY <1>3 DEF TypeOK
  <2>2. q.at = "instances" /\ q.token = req[r].token /\ q.list = req[r].list
    BY <1>1 DEF Scans
  <2> HIDE DEF q
  <2>3. ListOK(r) /\ req[r].list = <<>>
    BY <1>1 DEF ScansOK, ListOK
  <2>4. ~Scanned(r)' /\ ~Listed(r)'
    BY <2>1, <2>2 DEF Scanned, Listed
  <2>5. ListOK(r)'
    BY <1>1, <2>1, <2>2, <2>3, <2>4 DEF ListOK, Instance
  <2>6. Range(<<>>) = {}
    BY DEF Range
  <2>7. QuietOK(r)'
    BY <2>1, <2>2, <2>3, <2>4, <2>6 DEF QuietOK
  <2> QED
    BY <1>1, <2>1, <2>4, <2>5, <2>7, OtherScans DEF ScansOK, MadeOK
<1> QED
  BY <1>2, <1>3 DEF ScanVpcs

(* Two lists that have no instance in common, one after the other.         *)
LEMMA Disjoint ==
  ASSUME NEW S, NEW a \in Seq(S), NEW b \in Seq(S), IsInjective(a), IsInjective(b),
         Range(a) \cap Range(b) = {}
  PROVE  IsInjective(a \o b)
<1>1. /\ Len(a) \in Nat /\ Len(b) \in Nat /\ DOMAIN a = 1..Len(a) /\ DOMAIN b = 1..Len(b)
      /\ DOMAIN (a \o b) = 1..(Len(a) + Len(b))
  BY LenProperties, ConcatProperties
<1>2. \A i \in 1..(Len(a) + Len(b)) :
        \/ i =< Len(a) /\ i \in DOMAIN a /\ (a \o b)[i] = a[i] /\ a[i] \in Range(a)
        \/ i > Len(a) /\ i - Len(a) \in DOMAIN b /\ (a \o b)[i] = b[i - Len(a)] /\ b[i - Len(a)] \in Range(b)
  <2> SUFFICES ASSUME NEW i \in 1..(Len(a) + Len(b))
               PROVE  \/ i =< Len(a) /\ i \in DOMAIN a /\ (a \o b)[i] = a[i] /\ a[i] \in Range(a)
                      \/ i > Len(a) /\ i - Len(a) \in DOMAIN b /\ (a \o b)[i] = b[i - Len(a)] /\ b[i - Len(a)] \in Range(b)
    OBVIOUS
  <2>1. CASE i =< Len(a)
    BY <1>1, <2>1, ConcatProperties DEF Range
  <2>2. CASE i > Len(a)
    BY <1>1, <2>2, ConcatProperties DEF Range
  <2> QED
    BY <1>1, <2>1, <2>2
<1> SUFFICES ASSUME NEW i \in 1..(Len(a) + Len(b)), NEW j \in 1..(Len(a) + Len(b)),
                    (a \o b)[i] = (a \o b)[j]
             PROVE  i = j
  BY <1>1 DEF IsInjective
<1>3. CASE i =< Len(a) /\ j =< Len(a)
  BY <1>1, <1>2, <1>3 DEF IsInjective
<1>4. CASE i > Len(a) /\ j > Len(a)
  <2>1. i - Len(a) \in DOMAIN b /\ j - Len(a) \in DOMAIN b /\ b[i - Len(a)] = b[j - Len(a)]
    BY <1>1, <1>2, <1>4
  <2>2. i - Len(a) = j - Len(a)
    BY <2>1 DEF IsInjective
  <2> QED
    BY <1>1, <2>2
<1>5. CASE ~(i =< Len(a) <=> j =< Len(a))
  BY <1>1, <1>2, <1>5
<1> QED
  BY <1>1, <1>3, <1>4, <1>5

LEMMA ScansReadInstances ==
  ASSUME TypeOK, ScansOK, NEW r \in Requests, ReadInstances(r)
  PROVE  ScansOK'
<1> DEFINE t == req[r].token
           n == Len(account.instances)
           after == t + Cardinality(Page(r))
<1>1. /\ req[r] \in Scans /\ ReqOK(r) /\ req[r].at = "instances"
      /\ UNCHANGED <<account, changes>> /\ ListOK(r) /\ QuietOK(r)
  BY DEF TypeOK, ReqOK, ReadInstances, At, ScansOK
<1>2. CASE Refuse(r)
  BY <1>1, <1>2, ScanMoves DEF Refuse, Places
<1>3. ASSUME NEW running \in SetToSeqs(Running(r)),
             req' = [req EXCEPT ![r].list = @ \o running, ![r].token = after,
               ![r].at = IF after < n THEN "instances" ELSE "gateways"]
      PROVE  ScansOK'
  <2> DEFINE list == req[r].list \o running
             at == IF after < n THEN "instances" ELSE "gateways"
             q == [req[r] EXCEPT !.list = list, !.token = after, !.at = at]
  <2>1. /\ t \in Nat /\ n \in Nat /\ after \in Nat /\ t =< after /\ after =< n
        /\ Page(r) = (t + 1)..after
    BY PageIs
  <2>2. /\ running \in Seq(1..after) /\ IsInjective(running) /\ Range(running) = Running(r)
        /\ req[r].list \in Seq(1..after) /\ list \in Seq(1..after)
        /\ Range(list) = Range(req[r].list) \cup Running(r)
    BY <1>3, PageRead
  <2>3. Range(req[r].list) \subseteq 1..t
    BY <1>1, RangeOfSeq DEF ReqOK
  <2>4. Range(req[r].list) \cap Range(running) = {}
    BY <2>1, <2>2, <2>3 DEF Running
  <2>5. IsInjective(list)
    BY <1>1, <2>2, <2>4, Disjoint DEF ListOK
  <2>6. req' = [req EXCEPT ![r] = q] /\ req'[r] = q
    BY <1>3 DEF TypeOK
  <2>7. q.at = at /\ q.list = list /\ q.token = after /\ q.existed = req[r].existed /\ q.asked = req[r].asked
    BY <1>1 DEF Scans
  <2>8. ~Scanned(r)' /\ req'[r].at \notin {"unasked", "tables", "subnets"} /\ (Listed(r)' => ~(after < n))
    <3> HIDE DEF q, list, after, n
    <3>1. req'[r].at = at /\ at \in {"instances", "gateways"} /\ (at = "gateways" => ~(after < n))
      BY <2>6, <2>7
    <3> QED
      BY <3>1 DEF Scanned, Listed
  <2>9. \A i \in 1..after : Instance(i).running => i \in Range(list)
    <3> SUFFICES ASSUME NEW i \in 1..after, Instance(i).running PROVE i \in Range(list)
      OBVIOUS
    <3>1. CASE i \in 1..t
      BY <1>1, <2>2, <3>1 DEF ListOK
    <3>2. CASE i \in Page(r)
      BY <2>2, <3>2 DEF Running
    <3> QED
      BY <2>1, <3>1, <3>2
  <2>10. req[r].existed \in Nat /\ req[r].existed =< n
    BY <1>1 DEF ReqOK, Scans
  <2> HIDE DEF list, q, at, after, n, t
  <2>11. ListOK(r)'
    <3>1. Listed(r)' => req[r].existed =< after
      BY <2>1, <2>8, <2>10
    <3> QED
      BY <1>1, <2>5, <2>6, <2>7, <2>8, <2>9, <3>1 DEF ListOK, Instance
  <2>12. QuietOK(r)'
    <3>1. changes = req[r].asked => \A i \in Range(list) : Instance(i).running
      BY <1>1, <2>2 DEF QuietOK, Running
    <3>2. Listed(r)' => after = n
      BY <2>1, <2>8
    <3> QED
      BY <1>1, <2>6, <2>7, <2>8, <3>1, <3>2 DEF QuietOK, Instance, n
  <2> QED
    BY <1>1, <2>6, <2>8, <2>11, <2>12, OtherScans DEF ScansOK, MadeOK
<1> QED
  BY <1>2, <1>3 DEF ReadInstances, Running

LEMMA ScansReadGateways ==
  ASSUME TypeOK, ScansOK, NEW r \in Requests, ReadGateways(r)
  PROVE  ScansOK'
<1>1. /\ req[r] \in Scans /\ req[r].at = "gateways" /\ UNCHANGED <<account, changes>>
      /\ ListOK(r) /\ QuietOK(r)
  BY DEF TypeOK, ReadGateways, At, ScansOK
<1>2. CASE Refuse(r)
  BY <1>1, <1>2, ScanMoves DEF Refuse, Places
<1>3. CASE req' = [req EXCEPT ![r].at = "tables", ![r].attachments = account.attachments]
  <2> DEFINE q == [req[r] EXCEPT !.at = "tables", !.attachments = account.attachments]
  <2>1. req' = [req EXCEPT ![r] = q] /\ req'[r] = q
    BY <1>3 DEF TypeOK
  <2>2. /\ q.at = "tables" /\ q.list = req[r].list /\ q.token = req[r].token
        /\ q.existed = req[r].existed /\ q.asked = req[r].asked /\ q.attachments = account.attachments
    BY <1>1 DEF Scans
  <2> HIDE DEF q
  <2>3. ~Scanned(r)' /\ Listed(r)
    BY <1>1, <2>1, <2>2 DEF Scanned, Listed
  <2>4. ListOK(r)'
    BY <1>1, <2>1, <2>2, <2>3 DEF ListOK, Instance
  <2>5. QuietOK(r)'
    BY <1>1, <2>1, <2>2, <2>3 DEF QuietOK, Instance
  <2> QED
    BY <1>1, <2>1, <2>3, <2>4, <2>5, OtherScans DEF ScansOK, MadeOK
<1> QED
  BY <1>2, <1>3 DEF ReadGateways

LEMMA ScansReadTables ==
  ASSUME TypeOK, ScansOK, NEW r \in Requests, ReadTables(r)
  PROVE  ScansOK'
<1>1. /\ req[r] \in Scans /\ req[r].at = "tables" /\ UNCHANGED <<account, changes>>
      /\ ListOK(r) /\ QuietOK(r)
  BY DEF TypeOK, ReadTables, At, ScansOK
<1>2. CASE Refuse(r)
  BY <1>1, <1>2, ScanMoves DEF Refuse, Places
<1>3. CASE req' = [req EXCEPT ![r].at = "subnets", ![r].tables = account.tables]
  <2> DEFINE q == [req[r] EXCEPT !.at = "subnets", !.tables = account.tables]
  <2>1. req' = [req EXCEPT ![r] = q] /\ req'[r] = q
    BY <1>3 DEF TypeOK
  <2>2. /\ q.at = "subnets" /\ q.list = req[r].list /\ q.token = req[r].token
        /\ q.existed = req[r].existed /\ q.asked = req[r].asked
        /\ q.attachments = req[r].attachments /\ q.tables = account.tables
    BY <1>1 DEF Scans
  <2> HIDE DEF q
  <2>3. ~Scanned(r)' /\ Listed(r)
    BY <1>1, <2>1, <2>2 DEF Scanned, Listed
  <2>4. ListOK(r)'
    BY <1>1, <2>1, <2>2, <2>3 DEF ListOK, Instance
  <2>5. QuietOK(r)'
    BY <1>1, <2>1, <2>2, <2>3 DEF QuietOK, Instance
  <2> QED
    BY <1>1, <2>1, <2>3, <2>4, <2>5, OtherScans DEF ScansOK, MadeOK
<1> QED
  BY <1>2, <1>3 DEF ReadTables

LEMMA ScansReadSubnets ==
  ASSUME TypeOK, ScansOK, NEW r \in Requests, ReadSubnets(r)
  PROVE  ScansOK'
<1>1. /\ req[r] \in Scans /\ req[r].at = "subnets" /\ UNCHANGED <<account, changes>>
      /\ ListOK(r) /\ QuietOK(r)
  BY DEF TypeOK, ReadSubnets, At, ScansOK
<1>2. CASE Refuse(r)
  BY <1>1, <1>2, ScanMoves DEF Refuse, Places
<1>3. ASSUME Classified(Classes(req[r])), NEW order \in Orders(Classes(req[r]), Counts(req[r])),
             req' = [req EXCEPT ![r].at = "attributes", ![r].region = Region(req[r], order)]
      PROVE  ScansOK'
  <2> DEFINE region == Region(req[r], order)
             q == [req[r] EXCEPT !.at = "attributes", !.region = region]
  <2>1. req' = [req EXCEPT ![r] = q] /\ req'[r] = q
    BY <1>3 DEF TypeOK
  <2>2. /\ q.at = "attributes" /\ q.list = req[r].list /\ q.token = req[r].token
        /\ q.existed = req[r].existed /\ q.asked = req[r].asked
        /\ q.attachments = req[r].attachments /\ q.tables = req[r].tables /\ q.region = region
    BY <1>1 DEF Scans
  <2> HIDE DEF q
  <2>3. Listed(r) /\ req'[r].at # "unasked"
    BY <1>1, <2>1, <2>2 DEF Listed
  <2>4. ListOK(r)'
    BY <1>1, <2>1, <2>2, <2>3 DEF ListOK, Instance
  <2>5. QuietOK(r)'
    BY <1>1, <2>1, <2>2, <2>3 DEF QuietOK, Instance
  <2>6. /\ \A s : Class(req[r], s)' = Class(req[r], s)
        /\ \A s : SubnetCount(req[r], s)' = SubnetCount(req[r], s)
        /\ \A v : VpcCount(req[r], v)' = VpcCount(req[r], v)
    <3>1. req[r].list \in Seq(Nat)
      BY <1>1 DEF Scans
    <3> QED
      BY <1>1, <2>1, <2>2, <3>1, MadeAgain
  <2>7. /\ region.class = Classes(req[r]) /\ region.count = Counts(req[r])
        /\ region.vpcs = [v \in VPCs |-> VpcCount(req[r], v)] /\ region.order = order
    BY DEF Region
  <2> HIDE DEF region
  <2>8. MadeOK(r)'
    <3>1. /\ region.class = [s \in Subnets |-> Class(req[r], s)'] /\ Classified(region.class)
          /\ region.count = [s \in Subnets |-> SubnetCount(req[r], s)']
          /\ region.vpcs = [v \in VPCs |-> VpcCount(req[r], v)']
          /\ region.order \in Orders(region.class, region.count)
      BY <1>3, <2>6, <2>7 DEF Classes, Counts
    <3>2. req'[r].region = region
      BY <2>1, <2>2
    <3> QED
      BY <3>1, <3>2 DEF MadeOK
  <2> QED
    BY <1>1, <2>1, <2>4, <2>5, <2>8, OtherScans DEF ScansOK
<1> QED
  BY <1>2, <1>3 DEF ReadSubnets, Classes, Counts, Region

LEMMA ScansResponds ==
  ASSUME TypeOK, ScansOK, NEW r \in Requests, ReadAttributes(r) \/ Responds(r)
  PROVE  ScansOK'
<1>1. req[r] \in Scans /\ UNCHANGED <<account, changes>> /\ Scanned(r)
  BY DEF TypeOK, ReadAttributes, Responds, Size, MarshalTo, At, Scanned
<1>2. CASE Refuse(r) \/ Goto(r, "size") \/ Goto(r, "answered")
  BY <1>1, <1>2, ScanMoves DEF Refuse, Places
<1>3. CASE UNCHANGED req
  <2> SUFFICES ASSUME NEW o \in Requests PROVE ListOK(o)' /\ MadeOK(o)' /\ QuietOK(o)'
    BY DEF ScansOK
  <2>1. ListOK(o) /\ MadeOK(o) /\ QuietOK(o)
    BY DEF ScansOK
  <2> QED
    BY <1>1, <1>3, <2>1, ScanKept
<1>4. CASE Size(r)
  <2> DEFINE sized == req[r].customer # "unset"
             q == [req[r] EXCEPT !.at = "write", !.sized = sized]
  <2>1. req' = [req EXCEPT ![r] = q] /\ req'[r] = q
    BY <1>4 DEF TypeOK, Size
  <2>2. /\ q.at = "write" /\ q.list = req[r].list /\ q.token = req[r].token
        /\ q.existed = req[r].existed /\ q.asked = req[r].asked
        /\ q.attachments = req[r].attachments /\ q.tables = req[r].tables /\ q.region = req[r].region
    BY <1>1 DEF Scans
  <2> HIDE DEF q
  <2>3. ListOK(r) /\ MadeOK(r) /\ QuietOK(r)
    BY DEF ScansOK
  <2>4. ListOK(r)' /\ MadeOK(r)' /\ QuietOK(r)'
    BY <1>1, <2>1, <2>2, <2>3, ScanKept
  <2> QED
    BY <1>1, <2>1, <2>4, OtherScans DEF ScansOK
<1> QED
  BY <1>2, <1>3, <1>4 DEF ReadAttributes, Responds, MarshalTo

LEMMA ScansSaves ==
  ASSUME TypeOK, ScansOK, NEW r \in Requests, Saves(r)
  PROVE  ScansOK'
<1> SUFFICES ASSUME NEW o \in Requests PROVE ListOK(o)' /\ MadeOK(o)' /\ QuietOK(o)'
  BY DEF ScansOK
<1>1. req \in [Requests -> Scans] /\ ListOK(o) /\ MadeOK(o) /\ QuietOK(o)
  BY DEF TypeOK, ScansOK
<1>2. UNCHANGED <<account, changes>>
  BY DEF Saves, Assign, PutRegion, Update, Insert
<1>3. UNCHANGED req \/ \E c \in {"torn", "set"} : req' = [req EXCEPT ![r].customer = c]
  BY DEF Saves, Assign, PutRegion, Update, Insert
<1>4. /\ req'[o].at = req[o].at /\ req'[o].list = req[o].list /\ req'[o].token = req[o].token
      /\ req'[o].existed = req[o].existed /\ req'[o].asked = req[o].asked
      /\ req'[o].attachments = req[o].attachments /\ req'[o].tables = req[o].tables
      /\ req'[o].region = req[o].region
  <2>1. CASE UNCHANGED req
    BY <2>1
  <2>2. CASE \E c \in {"torn", "set"} : req' = [req EXCEPT ![r].customer = c]
    BY <1>1, <2>2 DEF Scans
  <2> QED
    BY <1>3, <2>1, <2>2
<1> QED
  BY <1>1, <1>2, <1>4, ScanKept

(* Whatever the customer does: an instance that ends leaves less to have   *)
(* been listed, and one that starts is on no page read yet.                *)
LEMMA ScansChange ==
  ASSUME TypeOK, ScansOK, Change
  PROVE  ScansOK'
<1> SUFFICES ASSUME NEW o \in Requests PROVE ListOK(o)' /\ MadeOK(o)' /\ QuietOK(o)'
  BY DEF ScansOK
<1>1. ReqOK(o) /\ req[o] \in Scans /\ UNCHANGED req /\ ListOK(o) /\ MadeOK(o)
  BY DEF TypeOK, ReqOK, Change, ScansOK
<1>2. Len(account.instances) \in Nat /\ req[o].token \in Nat /\ req[o].token =< Len(account.instances)
  BY DEF TypeOK, Accounts, Scans
<1>3. /\ Len(account.instances) =< Len(account.instances')
      /\ \A i \in 1..Len(account.instances) :
           LET old == account.instances[i]
               new == account.instances'[i]
           IN /\ new.vpc = old.vpc /\ new.subnet = old.subnet /\ new.ip = old.ip
              /\ new.running => old.running
  BY Changed
<1>4. ListOK(o)'
  <2>1. \A i \in 1..req[o].token : account.instances'[i].running => i \in Range(req[o].list)
    BY <1>1, <1>2, <1>3 DEF ListOK, Instance
  <2> QED
    BY <1>1, <2>1 DEF ListOK, Instance, Listed, Scanned
<1>5. MadeOK(o)'
  <2>1. \A k \in DOMAIN req[o].list : req[o].list[k] \in 1..Len(account.instances)
    <3>1. \A k \in DOMAIN req[o].list : req[o].list[k] \in 1..req[o].token
      <4>1. req[o].list \in Seq(1..req[o].token)
        BY <1>1 DEF ReqOK
      <4> QED
        BY <4>1, LenProperties, ElementOfSeq
    <3> QED
      BY <1>2, <3>1
  <2>2. req[o].list \in Seq(Nat)
    BY <1>1 DEF Scans
  <2>3. /\ \A s : Class(req[o], s)' = Class(req[o], s)
        /\ \A s : SubnetCount(req[o], s)' = SubnetCount(req[o], s)
        /\ \A v : VpcCount(req[o], v)' = VpcCount(req[o], v)
    BY <1>1, <1>3, <2>1, <2>2, MadeAgain
  <2> QED
    BY <1>1, <2>3 DEF MadeOK, Classified, Orders, Less, Scanned
<1>6. changes' # req'[o].asked
  BY <1>1 DEF Change, ReqOK, Scans, TypeOK
<1>7. QuietOK(o)'
  BY <1>6 DEF QuietOK
<1> QED
  BY <1>4, <1>5, <1>7

LEMMA ScansInit ==
  Init => ScansOK
<1> SUFFICES ASSUME Init, NEW r \in Requests PROVE ListOK(r) /\ MadeOK(r) /\ QuietOK(r)
  BY DEF ScansOK
<1>1. req[r] = Unasked \/ req[r] = Absent
  BY DEF Init
<1>2. req[r].at \in {"unasked", "absent"} /\ req[r].list = <<>> /\ req[r].token = 0
  BY <1>1 DEF Unasked, Absent
<1>3. ~Scanned(r) /\ ~Listed(r)
  BY <1>2 DEF Scanned, Listed
<1>4. DOMAIN <<>> = {} /\ Range(<<>>) = {}
  BY DEF Range
<1>5. ListOK(r)
  BY <1>2, <1>3, <1>4 DEF ListOK, IsInjective
<1>6. QuietOK(r)
  BY <1>2, <1>3, <1>4 DEF QuietOK
<1> QED
  BY <1>3, <1>5, <1>6 DEF MadeOK

LEMMA ScansNext ==
  TypeOK /\ ScansOK /\ [Next]_vars => ScansOK'
<1> SUFFICES ASSUME TypeOK, ScansOK, [Next]_vars PROVE ScansOK'
  OBVIOUS
<1>1. ASSUME NEW r \in Requests, ScanVpcs(r) \/ Reads(r) \/ Responds(r) \/ Saves(r) PROVE ScansOK'
  BY <1>1, ScansScan, ScansReadInstances, ScansReadGateways, ScansReadTables, ScansReadSubnets,
     ScansResponds, ScansSaves DEF Reads
<1>2. CASE UNCHANGED vars
  <2> SUFFICES ASSUME NEW o \in Requests PROVE ListOK(o)' /\ MadeOK(o)' /\ QuietOK(o)'
    BY DEF ScansOK
  <2>1. ListOK(o) /\ MadeOK(o) /\ QuietOK(o) /\ UNCHANGED <<req, account, changes>>
    BY <1>2 DEF ScansOK, vars
  <2> QED
    BY <2>1, ScanKept
<1> QED
  BY <1>1, <1>2, ScansChange DEF Next

LEMMA ScansAlways ==
  Spec => [](TypeOK /\ ScansOK)
<1> QED
  BY TypeInit, TypeNext, ScansInit, ScansNext, PTL DEF Spec

(***************************************************************************)
(* On what grounds classes are given                                       *)
(***************************************************************************)
LEMMA ScannedGrounds ==
  ASSUME TypeOK, ScansOK, NEW r \in Requests, Scanned(r), NEW s \in Subnets
  PROVE  /\ req[r].region.class[s] \in RoutingStates
         /\ Grounds(req[r].region.class[s], s, req[r].tables[VpcOf[s]],
                  Addresses(req[r], VpcOf[s]), Attached(req[r], VpcOf[s]))
<1> DEFINE q == req[r]
           v == VpcOf[s]
<1>1. q.list \in Seq(1..Len(account.instances)) /\ account.instances \in Seq(Instances)
  <2>1. q.list \in Seq(1..q.token) /\ q.token \in Nat /\ q.token =< Len(account.instances)
    BY DEF TypeOK, Scans
  <2>2. account.instances \in Seq(Instances)
    BY DEF TypeOK, Accounts
  <2>3. 1..q.token \subseteq 1..Len(account.instances)
    BY <2>1, <2>2, LenProperties
  <2> QED
    BY <2>1, <2>2, <2>3, SeqMonotonic
<1>2. Addresses(q, v) \in Seq(STRING)
  BY <1>1, AddressesOfList
<1>3. v \in VPCs /\ q.tables \in RouteTables
  BY RegionAssumption DEF TypeOK
<1>4. q.tables[v] \in Seq(Tables(Subnets, STRING, STRING))
  BY <1>3 DEF RouteTables
<1>5. q.region.class[s] = Class(q, s) /\ Class(q, s) # "error"
  BY DEF ScansOK, MadeOK, Classified
<1>6. Grounds(Class(q, s), s, q.tables[v], Addresses(q, v), Attached(q, v))
  BY <1>2, <1>4, <1>5, ClassHasGrounds DEF Class
<1>7. Class(q, s) \in RoutingStates
  BY <1>5, ClassOrError DEF Class
<1> QED
  BY <1>5, <1>6, <1>7

(* Every class that a scan gives a subnet has its grounds in what the scan *)
(* has read; above all, none is called nat, public or gateway that misses  *)
(* an instance.                                                            *)
THEOREM Grounded == Spec => []ClassesHaveGrounds
<1>1. TypeOK /\ ScansOK => ClassesHaveGrounds
  BY ScannedGrounds DEF ClassesHaveGrounds
<1> QED
  BY <1>1, ScansAlways, PTL

(***************************************************************************)
(* In which order subnets are offered                                      *)
(***************************************************************************)
(* The subnets that serve a bastion come first in the list that its subnet *)
(* is chosen from, however many compare equal and whatever the sort makes  *)
(* of those.                                                               *)
THEOREM Offered == Spec => []SuitableFirst
<1>1. TypeOK /\ ScansOK => SuitableFirst
  <2> SUFFICES ASSUME TypeOK, ScansOK, NEW r \in Requests, Scanned(r),
                      NEW i \in DOMAIN req[r].region.order, NEW j \in DOMAIN req[r].region.order,
                      Suitable(req[r].region.class[req[r].region.order[j]]), i < j
               PROVE  Suitable(req[r].region.class[req[r].region.order[i]])
    BY DEF SuitableFirst
  <2> DEFINE g == req[r].region
             a == g.class[g.order[i]]
             b == g.class[g.order[j]]
  <2>1. g.order \in Orders(g.class, g.count)
    BY DEF ScansOK, MadeOK
  <2>2. g.order[i] \in Subnets
    <3>1. g.order \in SetToSeqs(Subnets)
      BY <2>1 DEF Orders
    <3> QED
      BY <3>1 DEF SetToSeqs
  <2>3. a \in RoutingStates
    BY <2>2, ScannedGrounds
  <2>4. ~(RoutingPreference(b) < RoutingPreference(a))
    BY <2>1 DEF Orders, Less
  <2> HIDE DEF a, b
  <2>5. RoutingPreference(b) \in 0..2
    BY DEF Suitable, RoutingPreference, b
  <2>6. RoutingPreference(a) \in 0..2
    BY <2>3, <2>4, <2>5 DEF RoutingStates, RoutingPreference
  <2>7. Suitable(a)
    BY <2>3, <2>6 DEF RoutingStates, RoutingPreference, Suitable
  <2> QED
    BY <2>7 DEF a
<1> QED
  BY <1>1, ScansAlways, PTL

(***************************************************************************)
(* Counting                                                                *)
(***************************************************************************)
(* Places of a list that names nothing twice are as many as what is named. *)
LEMMA CountPlaces ==
  ASSUME NEW l \in Seq(Nat), IsInjective(l), NEW P \in SUBSET DOMAIN l
  PROVE  /\ IsFiniteSet({l[k] : k \in P})
         /\ Cardinality({l[k] : k \in P}) = Cardinality(P)
<1> DEFINE M == {l[k] : k \in P}
           f == [k \in P |-> l[k]]
<1>1. IsFiniteSet(P)
  BY PlacesFinite
<1>2. f \in [P -> M] /\ \A m \in M : \E k \in P : f[k] = m
  OBVIOUS
<1>3. \A j, k \in P : f[j] = f[k] => j = k
  BY DEF IsInjective
<1> HIDE DEF f, M
<1>4. f \in Bijection(P, M)
  BY <1>2, <1>3, Fun_IsBij
<1>5. ExistsBijection(P, M)
  BY <1>4 DEF ExistsBijection
<1>6. IsFiniteSet(M) /\ Cardinality(M) = Cardinality(P)
  BY <1>1, <1>5, FS_Bijection
<1> QED
  BY <1>6 DEF M

(* The sum of the sizes of sets that have nothing in common is the size of *)
(* all of them together.  The function that the fold is defined by is the  *)
(* one that has these sizes as values: it is the only one that satisfies   *)
(* its equation.                                                           *)
LEMMA SumOfSizes ==
  ASSUME NEW T, IsFiniteSet(T), NEW W, IsFiniteSet(W), NEW part \in [T -> SUBSET W],
         NEW f, \A x \in T : f[x] = Cardinality(part[x]),
         \A x, y \in T : x # y => part[x] \cap part[y] = {}
  PROVE  SumFunctionOnSet(f, T) = Cardinality(UNION {part[x] : x \in T})
<1> DEFINE All(u) == UNION {part[x] : x \in u}
           h == [u \in SUBSET T |-> Cardinality(All(u))]
           first(u) == CHOOSE x \in u : TRUE
<1>1. \A u \in SUBSET T : IsFiniteSet(All(u)) /\ Cardinality(All(u)) \in Nat
  <2>1. \A u \in SUBSET T : All(u) \in SUBSET W
    OBVIOUS
  <2> QED
    BY <2>1, FS_Subset, FS_CardinalityType
<1>2. ASSUME NEW u \in SUBSET T, u # {}
      PROVE  Cardinality(All(u)) = f[first(u)] + Cardinality(All(u \ {first(u)}))
  <2> DEFINE x == first(u)
             rest == u \ {x}
  <2>1. x \in u
    BY <1>2
  <2> HIDE DEF x
  <2>2. part[x] \in SUBSET W /\ rest \in SUBSET T
    BY <2>1
  <2>3. All(u) = part[x] \cup All(rest)
    BY <2>1
  <2>4. part[x] \cap All(rest) = {}
    BY <2>1
  <2>5. IsFiniteSet(part[x]) /\ Cardinality(part[x]) \in Nat
    BY <2>2, FS_Subset, FS_CardinalityType
  <2>6. IsFiniteSet(All(rest)) /\ Cardinality(All(rest)) \in Nat
    BY <1>1, <2>2
  <2> HIDE DEF All, rest
  <2>7. /\ Cardinality(part[x] \cup All(rest)) =
             Cardinality(part[x]) + Cardinality(All(rest)) - Cardinality({})
        /\ Cardinality({}) = 0
    BY <2>4, <2>5, <2>6, FS_Union, FS_EmptySet
  <2>8. f[x] = Cardinality(part[x])
    BY <2>1
  <2>9. Cardinality(All(u)) = f[x] + Cardinality(All(rest))
    BY <2>3, <2>5, <2>6, <2>7, <2>8
  <2> QED
    BY <2>9 DEF x, rest
<1>3. All({}) = {} /\ Cardinality(All({})) = 0
  BY FS_EmptySet
<1> HIDE DEF All
<1>4. h = [u \in SUBSET T |-> IF u = {} THEN 0
                              ELSE LET x == CHOOSE x \in u : TRUE IN f[x] + h[u \ {x}]]
  <2>1. ASSUME NEW u \in SUBSET T
        PROVE  h[u] = IF u = {} THEN 0 ELSE f[first(u)] + h[u \ {first(u)}]
    BY <1>2, <1>3
  <2> QED
    BY <2>1
<1> HIDE DEF h
<1>5. PICK g : /\ g = [u \in SUBSET T |-> IF u = {} THEN 0
                                          ELSE LET x == CHOOSE x \in u : TRUE IN f[x] + g[u \ {x}]]
               /\ SumFunctionOnSet(f, T) = g[T]
  BY <1>4, Zenon DEF SumFunctionOnSet, FoldFunctionOnSet, MapThenFoldSet
<1>6. \A u \in SUBSET T :
        /\ g[u] = IF u = {} THEN 0 ELSE f[first(u)] + g[u \ {first(u)}]
        /\ h[u] = IF u = {} THEN 0 ELSE f[first(u)] + h[u \ {first(u)}]
  BY <1>4, <1>5
<1>7. \A u \in SUBSET T : g[u] = h[u]
  <2> DEFINE Bad == {u \in SUBSET T : g[u] # h[u]}
             Sizes == {Cardinality(u) : u \in Bad}
  <2> SUFFICES ASSUME Bad # {} PROVE FALSE
    OBVIOUS
  <2>1. \A u \in SUBSET T : IsFiniteSet(u) /\ Cardinality(u) \in Nat
    BY FS_Subset, FS_CardinalityType
  <2>2. Sizes \in SUBSET Nat /\ Sizes # {}
    BY <2>1
  <2>3. PICK n \in Sizes : \A m \in Sizes : n =< m
    BY <2>2, LeastExists
  <2>4. PICK u \in Bad : Cardinality(u) = n
    OBVIOUS
  <2>5. u # {}
    BY <1>6, <2>4
  <2> DEFINE x == first(u)
  <2>6. x \in u
    BY <2>5
  <2> HIDE DEF x
  <2>7. u \ {x} \in SUBSET T /\ Cardinality(u \ {x}) = n - 1 /\ n \in Nat
    BY <2>1, <2>4, <2>6, FS_RemoveElement
  <2>8. u \ {x} \notin Bad
    <3>1. u \ {x} \in Bad => n =< n - 1
      BY <2>3, <2>7
    <3> QED
      BY <2>7, <3>1
  <2>9. g[u \ {x}] = h[u \ {x}]
    BY <2>7, <2>8
  <2> QED
    BY <1>6, <2>4, <2>5, <2>9 DEF x
<1> QED
  BY <1>5, <1>7 DEF h, All

(* What a scan has listed: places in the account, each once, all of those  *)
(* that still run of the instances there were when it began.               *)
LEMMA ScannedList ==
  ASSUME TypeOK, ScansOK, NEW r \in Requests, Scanned(r)
  PROVE  /\ req[r].list \in Seq(Nat) /\ IsInjective(req[r].list)
         /\ DOMAIN account.instances = 1..Len(account.instances)
         /\ IsFiniteSet(DOMAIN account.instances)
         /\ \A k \in DOMAIN req[r].list : req[r].list[k] \in DOMAIN account.instances
         /\ \A i \in 1..req[r].existed : Instance(i).running =>
              \E k \in DOMAIN req[r].list : req[r].list[k] = i
         /\ \A i \in DOMAIN account.instances : Instance(i) \in Instances
<1>1. /\ req[r] \in Scans /\ req[r].list \in Seq(1..req[r].token)
      /\ req[r].token =< Len(account.instances) /\ account.instances \in Seq(Instances)
  BY DEF TypeOK, Accounts
<1>2. /\ Len(account.instances) \in Nat /\ DOMAIN account.instances = 1..Len(account.instances)
      /\ \A i \in DOMAIN account.instances : Instance(i) \in Instances
  BY <1>1, LenProperties, ElementOfSeq DEF Instance
<1>3. req[r].token \in Nat /\ req[r].existed \in Nat /\ req[r].list \in Seq(Nat)
  BY <1>1 DEF Scans
<1>4. \A k \in DOMAIN req[r].list : req[r].list[k] \in 1..req[r].token
  BY <1>1, LenProperties, ElementOfSeq
<1>5. /\ IsInjective(req[r].list) /\ req[r].existed =< req[r].token
      /\ \A i \in 1..req[r].token : Instance(i).running => i \in Range(req[r].list)
  BY DEF ScansOK, ListOK, Listed
<1>6. \A i \in 1..req[r].existed : Instance(i).running => i \in Range(req[r].list)
  BY <1>3, <1>5
<1>7. \A k \in DOMAIN req[r].list : req[r].list[k] \in DOMAIN account.instances
  BY <1>1, <1>2, <1>3, <1>4
<1>8. IsFiniteSet(DOMAIN account.instances)
  BY <1>2, FS_Interval
<1> QED
  BY <1>2, <1>3, <1>5, <1>6, <1>7, <1>8 DEF Range

(* What is counted lies between the instances that are steady and all that *)
(* there ever were, if the places counted are those that name an instance  *)
(* of some set A.                                                          *)
LEMMA Between ==
  ASSUME NEW l \in Seq(Nat), IsInjective(l), NEW A, IsFiniteSet(A), NEW Steady,
         Steady \subseteq {l[k] : k \in {k \in DOMAIN l : l[k] \in A}}
  PROVE  Cardinality({k \in DOMAIN l : l[k] \in A}) \in Cardinality(Steady)..Cardinality(A)
<1> DEFINE P == {k \in DOMAIN l : l[k] \in A}
           M == {l[k] : k \in P}
<1>1. IsFiniteSet(M) /\ Cardinality(M) = Cardinality(P) /\ P \in SUBSET DOMAIN l
  BY CountPlaces
<1>2. M \in SUBSET A
  OBVIOUS
<1> HIDE DEF M, P
<1>3. Steady \in SUBSET M
  BY DEF M, P
<1>4. Cardinality(M) =< Cardinality(A) /\ Cardinality(Steady) =< Cardinality(M) /\ IsFiniteSet(Steady)
  BY <1>1, <1>2, <1>3, FS_Subset
<1>5. Cardinality(M) \in Nat /\ Cardinality(A) \in Nat /\ Cardinality(Steady) \in Nat
  BY <1>1, <1>4, FS_CardinalityType
<1> QED
  BY <1>1, <1>4, <1>5 DEF P

(* However the pages fall and whatever the customer starts and terminates  *)
(* meanwhile: an instance that ran throughout the scan is counted once, in *)
(* its VPC and its subnet, none is counted that never was, and the subnets *)
(* of a VPC add up to it.                                                  *)
THEOREM Counted == Spec => []SteadyInstancesCount
<1>1. TypeOK /\ ScansOK => SteadyInstancesCount
  <2> SUFFICES ASSUME TypeOK, ScansOK, NEW r \in Requests, Scanned(r)
               PROVE  LET Steady == {i \in 1..req[r].existed : Instance(i).running}
                          InV(I, v) == {i \in I : Instance(i).vpc = v}
                          InS(I, s) == {i \in I : Instance(i).subnet = s}
                          All == DOMAIN account.instances
                          g == req[r].region
                      IN /\ \A v \in VPCs : g.vpcs[v] \in Cardinality(InV(Steady, v))..Cardinality(InV(All, v))
                         /\ \A s \in Subnets : g.count[s] \in Cardinality(InS(Steady, s))..Cardinality(InS(All, s))
                         /\ \A v \in VPCs :
                              g.vpcs[v] = SumFunctionOnSet(g.count, {s \in Subnets : VpcOf[s] = v})
    BY DEF SteadyInstancesCount
  <2> DEFINE q == req[r]
             l == q.list
             g == q.region
             Steady == {i \in 1..q.existed : Instance(i).running}
             All == DOMAIN account.instances
  <2>1. /\ l \in Seq(Nat) /\ IsInjective(l)
        /\ All = 1..Len(account.instances) /\ IsFiniteSet(All)
        /\ \A k \in DOMAIN l : l[k] \in All
        /\ \A i \in Steady : \E k \in DOMAIN l : l[k] = i
        /\ \A i \in All : Instance(i) \in Instances
    BY ScannedList
  <2>2. /\ \A v \in VPCs : g.vpcs[v] = Cardinality(InVpc(q, v))
        /\ \A s \in Subnets : g.count[s] = Cardinality(InSubnet(q, s))
    BY DEF ScansOK, MadeOK, VpcCount, SubnetCount
  <2> HIDE DEF l, g, Steady, All
  <2>3. ASSUME NEW v \in VPCs
        PROVE  g.vpcs[v] \in Cardinality({i \in Steady : Instance(i).vpc = v})..
                             Cardinality({i \in All : Instance(i).vpc = v})
    <3> DEFINE A == {i \in All : Instance(i).vpc = v}
               St == {i \in Steady : Instance(i).vpc = v}
    <3>1. InVpc(q, v) = {k \in DOMAIN l : l[k] \in A}
      BY <2>1 DEF InVpc, l
    <3>2. St \subseteq {l[k] : k \in {k \in DOMAIN l : l[k] \in A}}
      BY <2>1
    <3>3. IsFiniteSet(A)
      BY <2>1, FS_Subset
    <3> HIDE DEF A, St
    <3>4. Cardinality({k \in DOMAIN l : l[k] \in A}) \in Cardinality(St)..Cardinality(A)
      BY <2>1, <3>2, <3>3, Between
    <3> QED
      BY <2>2, <3>1, <3>4 DEF A, St
  <2>4. ASSUME NEW s \in Subnets
        PROVE  g.count[s] \in Cardinality({i \in Steady : Instance(i).subnet = s})..
                              Cardinality({i \in All : Instance(i).subnet = s})
    <3> DEFINE A == {i \in All : Instance(i).subnet = s}
               St == {i \in Steady : Instance(i).subnet = s}
    <3>1. InSubnet(q, s) = {k \in DOMAIN l : l[k] \in A}
      BY <2>1 DEF InSubnet, l
    <3>2. St \subseteq {l[k] : k \in {k \in DOMAIN l : l[k] \in A}}
      BY <2>1
    <3>3. IsFiniteSet(A)
      BY <2>1, FS_Subset
    <3> HIDE DEF A, St
    <3>4. Cardinality({k \in DOMAIN l : l[k] \in A}) \in Cardinality(St)..Cardinality(A)
      BY <2>1, <3>2, <3>3, Between
    <3> QED
      BY <2>2, <3>1, <3>4 DEF A, St
  <2>5. ASSUME NEW v \in VPCs
        PROVE  g.vpcs[v] = SumFunctionOnSet(g.count, {s \in Subnets : VpcOf[s] = v})
    <3> DEFINE T == {s \in Subnets : VpcOf[s] = v}
               part == [s \in T |-> InSubnet(q, s)]
               W == DOMAIN l
    <3>1. IsFiniteSet(T) /\ IsFiniteSet(W)
      BY <2>1, RegionAssumption, FS_Subset, PlacesFinite
    <3>2. part \in [T -> SUBSET W]
      BY DEF InSubnet, l
    <3>3. \A s \in T : g.count[s] = Cardinality(part[s])
      BY <2>2
    <3>4. \A s, t \in T : s # t => part[s] \cap part[t] = {}
      BY DEF InSubnet
    <3>5. UNION {part[s] : s \in T} = InVpc(q, v)
      <4>1. ASSUME NEW k \in DOMAIN l
            PROVE  Instance(l[k]).vpc = v <=> Instance(l[k]).subnet \in T
        <5>1. Instance(l[k]) \in Instances
          BY <2>1
        <5> QED
          BY <5>1, RegionAssumption DEF Instances
      <4>2. InVpc(q, v) = {k \in DOMAIN l : Instance(l[k]).vpc = v}
        BY DEF InVpc, l
      <4>3. \A s \in T : part[s] = {k \in DOMAIN l : Instance(l[k]).subnet = s}
        BY DEF InSubnet, l
      <4> HIDE DEF T, part
      <4> QED
        BY <4>1, <4>2, <4>3
    <3> HIDE DEF part, T, W
    <3>6. SumFunctionOnSet(g.count, T) = Cardinality(UNION {part[s] : s \in T})
      BY <3>1, <3>2, <3>3, <3>4, SumOfSizes
    <3> QED
      BY <2>2, <3>5, <3>6 DEF T
  <2> QED
    BY <2>3, <2>4, <2>5 DEF g, Steady, All
<1> QED
  BY <1>1, ScansAlways, PTL

(***************************************************************************)
(* A scan that nothing interferes with                                     *)
(***************************************************************************)
(* Of the addresses, determineRouting looks at which they are and how many *)
(* were listed: their order plays no part.                                 *)
LEMMA SameAddresses ==
  ASSUME NEW s, NEW tables, NEW gateways, NEW ips, NEW others,
         Range(ips) = Range(others), Len(ips) = Len(others)
  PROVE  determineRouting(s, tables, ips, gateways) = determineRouting(s, tables, others, gateways)
<1>1. \A routes : RouteToIPs(routes, ips) = RouteToIPs(routes, others)
  BY DEF RouteToIPs
<1> QED
  BY <1>1 DEF determineRouting

LEMMA AddressesOfSet ==
  ASSUME NEW I, IsFiniteSet(I)
  PROVE  /\ Len(AddressesOf(I)) = Cardinality(I)
         /\ Range(AddressesOf(I)) = {Instance(i).ip : i \in I}
<1> DEFINE in == SetToSeq(I)
           S == {Instance(i).ip : i \in I}
<1>1. /\ Cardinality(I) \in Nat /\ DOMAIN in = 1..Cardinality(I) /\ Range(in) = I
      /\ \A n \in DOMAIN in : in[n] \in I
  BY SetAsSequence, FS_CardinalityType DEF Range
<1> HIDE DEF in
<1>2. AddressesOf(I) = [n \in DOMAIN in |-> Instance(in[n]).ip]
  BY DEF AddressesOf, in
<1>3. AddressesOf(I) \in [1..Cardinality(I) -> S]
  BY <1>1, <1>2
<1>4. Len(AddressesOf(I)) = Cardinality(I)
  BY <1>1, <1>3, IsSequence
<1>5. Range(AddressesOf(I)) = S
  BY <1>1, <1>2 DEF Range
<1> QED
  BY <1>4, <1>5

(* The places of a list that name members of a set are as many as these,   *)
(* if the list names each of them, and nothing twice.                      *)
LEMMA AllPlaces ==
  ASSUME NEW l \in Seq(Nat), IsInjective(l), NEW A, A \subseteq Range(l)
  PROVE  /\ IsFiniteSet(A)
         /\ Cardinality({k \in DOMAIN l : l[k] \in A}) = Cardinality(A)
<1> DEFINE P == {k \in DOMAIN l : l[k] \in A}
<1>1. A = {l[k] : k \in P}
  BY DEF Range
<1>2. P \in SUBSET DOMAIN l
  OBVIOUS
<1> HIDE DEF P
<1>3. IsFiniteSet({l[k] : k \in P}) /\ Cardinality({l[k] : k \in P}) = Cardinality(P)
  BY <1>2, CountPlaces
<1> QED
  BY <1>1, <1>3 DEF P

(* If the customer changed nothing from the moment the scan began, what it *)
(* says is what determineRouting and counting say of the account as it is: *)
(* every running instance once, the VPC's own tables, the gateways that    *)
(* are attached to it; the calls add up to one picture.                    *)
THEOREM Quiet == Spec => []QuietScanIsTrue
<1>1. TypeOK /\ ScansOK => QuietScanIsTrue
  <2> SUFFICES ASSUME TypeOK, ScansOK, NEW r \in Requests, Scanned(r), changes = req[r].asked
               PROVE  LET g == req[r].region
                      IN /\ \A v \in VPCs : g.vpcs[v] = Cardinality(OfVpc(v))
                         /\ \A s \in Subnets :
                              /\ g.count[s] = Cardinality(OfSubnet(s))
                              /\ g.class[s] = determineRouting(s, account.tables[VpcOf[s]],
                                   AddressesOf(OfVpc(VpcOf[s])), InUse(VpcOf[s]))
    BY DEF QuietScanIsTrue
  <2> DEFINE q == req[r]
             l == q.list
             g == q.region
  <2>1. /\ l \in Seq(Nat) /\ IsInjective(l)
        /\ \A k \in DOMAIN l : l[k] \in DOMAIN account.instances
    BY ScannedList
  <2>2. /\ l \in Seq(1..q.token) /\ account.instances \in Seq(Instances)
        /\ DOMAIN account.instances = 1..Len(account.instances)
    BY DEF TypeOK, Accounts
  <2>3. /\ q.token = Len(account.instances) /\ q.attachments = account.attachments
        /\ q.tables = account.tables
        /\ \A i \in Range(l) : Instance(i).running
    BY DEF ScansOK, QuietOK, Listed
  <2>4. \A i \in 1..q.token : Instance(i).running => i \in Range(l)
    BY DEF ScansOK, ListOK
  <2>5. Range(l) = InService
    BY <2>1, <2>2, <2>3, <2>4 DEF InService, Range
  <2>6. /\ g.class = [s \in Subnets |-> Class(q, s)]
        /\ \A v \in VPCs : g.vpcs[v] = Cardinality(InVpc(q, v))
        /\ \A s \in Subnets : g.count[s] = Cardinality(InSubnet(q, s))
    BY DEF ScansOK, MadeOK, VpcCount, SubnetCount
  <2>7. ASSUME NEW v
        PROVE  IsFiniteSet(OfVpc(v)) /\ Cardinality(InVpc(q, v)) = Cardinality(OfVpc(v))
    <3>1. OfVpc(v) \subseteq Range(l)
      BY <2>5 DEF OfVpc
    <3>2. InVpc(q, v) = {k \in DOMAIN l : l[k] \in OfVpc(v)}
      BY <2>5 DEF InVpc, OfVpc, Range
    <3> HIDE DEF l
    <3> QED
      BY <2>1, <3>1, <3>2, AllPlaces
  <2>8. ASSUME NEW s \in Subnets
        PROVE  g.count[s] = Cardinality(OfSubnet(s))
    <3>1. OfSubnet(s) \subseteq Range(l)
      BY <2>5 DEF OfSubnet
    <3>2. InSubnet(q, s) = {k \in DOMAIN l : l[k] \in OfSubnet(s)}
      BY <2>5 DEF InSubnet, OfSubnet, Range
    <3> HIDE DEF l
    <3> QED
      BY <2>1, <2>6, <3>1, <3>2, AllPlaces
  <2>9. ASSUME NEW s \in Subnets
        PROVE  g.class[s] = determineRouting(s, account.tables[VpcOf[s]],
                              AddressesOf(OfVpc(VpcOf[s])), InUse(VpcOf[s]))
    <3> DEFINE v == VpcOf[s]
    <3>1. l \in Seq(1..Len(account.instances))
      BY <2>2, <2>3
    <3>2. /\ Len(Addresses(q, v)) = Cardinality(InVpc(q, v))
          /\ Range(Addresses(q, v)) = {Instance(i).ip : i \in OfVpc(v)}
      BY <2>2, <2>5, <3>1, AddressesOfList DEF VpcCount, OfVpc
    <3>3. /\ Len(AddressesOf(OfVpc(v))) = Len(Addresses(q, v))
          /\ Range(AddressesOf(OfVpc(v))) = Range(Addresses(q, v))
      BY <2>7, <3>2, AddressesOfSet
    <3>4. Attached(q, v) = InUse(v)
      BY <2>3 DEF Attached, InUse
    <3>5. Class(q, s) = determineRouting(s, account.tables[v], Addresses(q, v), InUse(v))
      BY <2>3, <3>4 DEF Class
    <3> HIDE DEF v
    <3>6. Class(q, s) = determineRouting(s, account.tables[v], AddressesOf(OfVpc(v)), InUse(v))
      BY <3>3, <3>5, SameAddresses
    <3> QED
      BY <2>6, <3>6 DEF v
  <2> QED
    BY <2>6, <2>7, <2>8, <2>9
<1> QED
  BY <1>1, ScansAlways, PTL
=============================================================================
