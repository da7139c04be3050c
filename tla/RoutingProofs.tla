--------------------------- MODULE RoutingProofs ---------------------------
(***************************************************************************)
(* Whatever the route tables, the addresses and the gateways: the class    *)
(* that determineRouting gives a subnet has its grounds.                   *)
(***************************************************************************)
EXTENDS Routing, FiniteSetTheorems, WellFoundedInduction, TLAPS

LEMMA LeastExists ==
  ASSUME NEW S \in SUBSET Nat, S # {}
  PROVE  \E x \in S : \A y \in S : x =< y
<1>1. PICK x \in S : \A y \in S : <<y, x>> \notin OpToRel(<, Nat)
  BY NatLessThanWellFounded, WFMin
<1>2. \A y \in S : ~(y < x)
  BY <1>1 DEF OpToRel
<1> QED
  BY <1>2

(* The last of a sequence's places with a property, as SelectLastInSeq     *)
(* finds it, is one of them, and the last.                                 *)
LEMMA LastIsOne ==
  ASSUME NEW n \in Nat, NEW S \in SUBSET (1..n), S # {}
  PROVE  Max(S) \in S /\ \A i \in S : i =< Max(S)
<1> DEFINE Below == {n - i : i \in S}
<1>0. \A i \in S : i \in Int /\ 1 =< i /\ i =< n
  OBVIOUS
<1>1. PICK m \in Below : \A y \in Below : m =< y
  <2>1. Below \in SUBSET Nat /\ Below # {}
    <3>1. \A y \in Below : y \in Nat
      BY <1>0
    <3> QED
      BY <3>1
  <2> QED
    BY <2>1, LeastExists
<1>2. PICK x \in S : m = n - x
  BY <1>1
<1>3. \A y \in S : x >= y
  <2> SUFFICES ASSUME NEW y \in S PROVE x >= y
    OBVIOUS
  <2>1. n - x =< n - y
    BY <1>1, <1>2
  <2> QED
    BY <2>1
<1>4. Max(S) \in S /\ \A i \in S : Max(S) >= i
  BY <1>2, <1>3 DEF Max
<1> QED
  BY <1>0, <1>4

(* The table that determineRouting takes for a subnet is one of those that *)
(* hold for it, and it finds one if there is one.                          *)
LEMMA TableHolds ==
  ASSUME NEW Subnet, NEW Address, NEW Gateway, NEW s \in Subnet,
         NEW tables \in Seq(Tables(Subnet, Address, Gateway))
  PROVE  LET t == Table(s, tables)
         IN /\ t = 0 => TablesOf(s, tables) = {}
            /\ t # 0 => t \in 1..Len(tables) /\ tables[t] \in TablesOf(s, tables)
<1> DEFINE Associated == {i \in 1..Len(tables) : s \in tables[i].subnets}
           Main == {i \in 1..Len(tables) : tables[i].main}
<1>1. Len(tables) \in Nat /\ DOMAIN tables = 1..Len(tables)
  OBVIOUS
<1>2. Associated # {} => Max(Associated) \in Associated
  BY <1>1, LastIsOne
<1>3. Main # {} => Max(Main) \in Main
  BY <1>1, LastIsOne
<1>4. 0 \notin Associated /\ 0 \notin Main
  BY <1>1
<1>5. Table(s, tables) = IF Associated # {} THEN Max(Associated)
                         ELSE IF Main # {} THEN Max(Main) ELSE 0
  BY <1>2, <1>4 DEF Table, SelectLastInSeq
<1>6. /\ Associated = {} <=> {t \in Range(tables) : s \in t.subnets} = {}
      /\ \A i \in 1..Len(tables) : tables[i] \in Range(tables)
      /\ Main = {} => {t \in Range(tables) : t.main} = {}
  BY <1>1 DEF Range
<1> QED
  BY <1>2, <1>3, <1>4, <1>5, <1>6 DEF TablesOf

(* The default route it takes is an active one, if there is one. *)
LEMMA DefaultIsOne ==
  ASSUME NEW Address, NEW Gateway, NEW routes \in Seq(Routes(Address, Gateway))
  PROVE  LET i == InternetRoute(routes)
         IN /\ i = 0 => ~\E r \in Range(routes) : r.active /\ r.to = "internet"
            /\ i # 0 => /\ i \in 1..Len(routes) /\ routes[i] \in Range(routes)
                        /\ routes[i].active /\ routes[i].to = "internet"
<1> DEFINE Out == {i \in 1..Len(routes) : routes[i].active /\ routes[i].to = "internet"}
<1>1. Len(routes) \in Nat /\ DOMAIN routes = 1..Len(routes)
  OBVIOUS
<1>2. Out # {} => Max(Out) \in Out
  BY <1>1, LastIsOne
<1>3. InternetRoute(routes) = IF Out # {} THEN Max(Out) ELSE 0
  BY DEF InternetRoute, SelectLastInSeq
<1>4. CASE Out = {}
  <2>1. ~\E r \in Range(routes) : r.active /\ r.to = "internet"
    BY <1>1, <1>4 DEF Range
  <2> QED
    BY <1>3, <1>4, <2>1
<1>5. CASE Out # {}
  <2>1. InternetRoute(routes) \in Out
    BY <1>2, <1>3, <1>5
  <2>2. InternetRoute(routes) \in 1..Len(routes) /\ InternetRoute(routes) # 0
    BY <1>1, <2>1
  <2> QED
    BY <1>1, <2>1, <2>2 DEF Range
<1> QED
  BY <1>4, <1>5

(* The comparison of the numbers tells whether every instance is reached,  *)
(* unless two of them show one address.                                    *)
LEMMA Counting ==
  ASSUME NEW Address, NEW ips \in Seq(Address), NEW Reached \in SUBSET Range(ips)
  PROVE  /\ ~(Cardinality(Reached) < Len(ips)) => Reached = Range(ips)
         /\ Cardinality(Reached) < Len(ips) /\ Reached = Range(ips) => ~IsInjective(ips)
<1>1. /\ Len(ips) \in Nat /\ ips \in [1..Len(ips) -> Address]
      /\ IsFiniteSet(1..Len(ips)) /\ Cardinality(1..Len(ips)) = Len(ips)
  <2>1. Len(ips) \in Nat /\ ips \in [1..Len(ips) -> Address]
    OBVIOUS
  <2>2. IsFiniteSet(1..Len(ips)) /\ Cardinality(1..Len(ips)) = Len(ips)
    BY <2>1, FS_Interval
  <2> QED
    BY <2>1, <2>2
<1>2. ips \in Surjection(1..Len(ips), Range(ips))
  BY <1>1 DEF Surjection, Range
<1>3. /\ IsFiniteSet(Range(ips)) /\ Cardinality(Range(ips)) =< Len(ips)
      /\ Cardinality(Range(ips)) = Len(ips) <=> ips \in Injection(1..Len(ips), Range(ips))
  BY <1>1, <1>2, FS_Surjection DEF ExistsSurjection
<1>4. ips \in Injection(1..Len(ips), Range(ips)) <=> IsInjective(ips)
  BY <1>2 DEF Injection, Surjection
<1>5. Cardinality(Reached) \in Nat /\ Cardinality(Range(ips)) \in Nat
  BY <1>3, FS_Subset, FS_CardinalityType
<1>6. /\ Cardinality(Reached) =< Cardinality(Range(ips))
      /\ Cardinality(Range(ips)) = Cardinality(Reached) => Reached = Range(ips)
  BY <1>3, FS_Subset
<1> QED
  BY <1>1, <1>3, <1>4, <1>5, <1>6

(***************************************************************************)
(* The theorem                                                             *)
(***************************************************************************)
(* For every subnet, whatever the tables, the addresses and the gateways:  *)
(* if determineRouting gives a class at all, the class has grounds.  No    *)
(* subnet is called nat, public or gateway from which an instance cannot   *)
(* be reached, or private with a default route; one called occluded has a  *)
(* default route, and misses an instance unless two of them show the same  *)
(* address or the route leads to an interface.                             *)
THEOREM ClassHasGrounds ==
  ASSUME NEW Subnet, NEW Address, NEW Gateway, NEW s \in Subnet,
         NEW tables \in Seq(Tables(Subnet, Address, Gateway)),
         NEW ips \in Seq(Address), NEW gateways,
         determineRouting(s, tables, ips, gateways) # "error"
  PROVE  Grounds(determineRouting(s, tables, ips, gateways), s, tables, ips, gateways)
<1> DEFINE t == Table(s, tables)
           routes == IF t = 0 THEN <<>> ELSE tables[t].routes
           i == InternetRoute(routes)
           class == determineRouting(s, tables, ips, gateways)
<1>1. routes \in Seq(Routes(Address, Gateway))
  <2>1. t # 0 => tables[t] \in Tables(Subnet, Address, Gateway)
    BY TableHolds
  <2> QED
    BY <2>1 DEF Tables
<1>2. CASE t = 0
  <2>1. i = 0
    <3>1. i # 0 => i \in 1..Len(routes)
      BY <1>1, DefaultIsOne
    <3>2. Len(routes) = 0
      BY <1>2
    <3> QED
      BY <3>1, <3>2
  <2>2. class = "private"
    BY <2>1 DEF determineRouting
  <2> QED
    BY <1>2, <2>2, TableHolds DEF Grounds
<1>3. CASE t # 0 /\ i = 0
  <2>1. class = "private"
    BY <1>3 DEF determineRouting
  <2>2. Defaults(tables[t]) = {} /\ tables[t] \in TablesOf(s, tables)
    BY <1>1, <1>3, DefaultIsOne, TableHolds DEF Defaults
  <2> QED
    BY <2>1, <2>2 DEF Grounds
<1>4. CASE t # 0 /\ i # 0
  <2>1. /\ tables[t] \in TablesOf(s, tables) /\ routes = tables[t].routes
        /\ routes[i] \in Defaults(tables[t])
    BY <1>1, <1>4, DefaultIsOne, TableHolds DEF Defaults
  <2>2. Parses(routes)
    BY <1>4 DEF determineRouting
  <2> DEFINE reached == RouteToIPs(routes, ips)
  <2>3. class = IF Cardinality(reached) < Len(ips) THEN "occluded"
                ELSE Via(routes[i], gateways)
    BY <1>4, <2>2 DEF determineRouting
  <2>4. reached \in SUBSET Range(ips)
    BY DEF RouteToIPs
  <2>5. reached = Range(ips) <=> ReachesAll(tables[t], ips)
    BY <2>1, <2>2 DEF RouteToIPs, Parses, Blocks, ReachesAll
  <2>6. CASE Cardinality(reached) < Len(ips)
    <3>1. class = "occluded"
      BY <2>3, <2>6
    <3>2. ReachesAll(tables[t], ips) => ~IsInjective(ips)
      BY <2>4, <2>5, <2>6, Counting
    <3> QED
      BY <2>1, <3>1, <3>2 DEF Grounds
  <2>7. CASE ~(Cardinality(reached) < Len(ips))
    <3>1. class = Via(routes[i], gateways)
      BY <2>3, <2>7
    <3>2. ReachesAll(tables[t], ips)
      BY <2>4, <2>5, <2>7, Counting
    <3> QED
      BY <2>1, <3>1, <3>2 DEF Grounds, Via
  <2> QED
    BY <2>6, <2>7
<1> QED
  BY <1>2, <1>3, <1>4
=============================================================================
