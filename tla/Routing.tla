------------------------------ MODULE Routing ------------------------------
(***************************************************************************)
(* determineRouting of scanner/scanner.go: how the instances of a subnet   *)
(* reach the internet, from the route tables of its VPC, the addresses of  *)
(* the VPC's instances and the internet gateways attached to it.           *)
(*                                                                         *)
(* A route table is a record of main (it has the main association),        *)
(* subnets (those associated with it) and routes, a sequence.  A route is  *)
(* a record of active (its state), to: "internet" for 0.0.0.0/0, "network" *)
(* for another CIDR block, "garbled" for one that does not parse, "other"  *)
(* for a destination that is none; covers, the addresses in the block;     *)
(* and via, "instance", a gateway, or "interface" for anything else.       *)
(***************************************************************************)
EXTENDS Integers, FiniteSets, SequencesExt

Routes(Address, Gateway) ==
  [active : BOOLEAN, to : {"internet", "network", "garbled", "other"},
   covers : SUBSET Address, via : Gateway \cup {"instance", "interface"}]
Tables(Subnet, Address, Gateway) ==
  [main : BOOLEAN, subnets : SUBSET Subnet, routes : Seq(Routes(Address, Gateway))]

RoutingStates == {"private", "public", "nat", "gateway", "occluded"}

(* What DescribeInstances says of an instance without an address. *)
NoAddress == ""

(* The place in tables of the one that holds for s: of several associated  *)
(* ones the last, or the last main one.  Zero when there is neither.       *)
Table(s, tables) ==
  LET associated == SelectLastInSeq(tables, LAMBDA t : s \in t.subnets)
  IN IF associated # 0 THEN associated
     ELSE SelectLastInSeq(tables, LAMBDA t : t.main)

(* Faulty variant: the blackholed routes count. *)
InternetRouteInAnyState(routes) == SelectLastInSeq(routes, LAMBDA r : r.to = "internet")

InternetRoute(routes) == SelectLastInSeq(routes, LAMBDA r : r.active /\ r.to = "internet")

Blocks(routes) == {r \in Range(routes) : r.active /\ r.to \in {"network", "garbled"}}
Parses(routes) == \A r \in Blocks(routes) : r.to = "network"
RouteToIPs(routes, ips) == {ip \in Range(ips) : \E r \in Blocks(routes) : ip \in r.covers}

Via(route, gateways) ==
  CASE route.via = "instance" -> "nat"
    [] route.via = "interface" -> "occluded"
    [] OTHER -> IF route.via \in gateways THEN "public" ELSE "gateway"

(* "error" is the error of net.ParseCIDR, with which the scan fails. *)
determineRouting(s, tables, ips, gateways) ==
  LET t == Table(s, tables)
      routes == IF t = 0 THEN <<>> ELSE tables[t].routes
      i == InternetRoute(routes)
  IN CASE i = 0 -> "private"
       [] i # 0 /\ ~Parses(routes) -> "error"
       [] i # 0 /\ Parses(routes) ->
            IF Cardinality(RouteToIPs(routes, ips)) < Len(ips) THEN "occluded"
            ELSE Via(routes[i], gateways)

(***************************************************************************)
(* On what grounds each of the five classes is given.  The comments on the *)
(* names (schema/region.go, migrations/0003_subnet_routing.up.sql) ask for *)
(* more in two cases: by them a "gateway" is a customer's, and "occluded"  *)
(* is a subnet that does not reach every instance.                         *)
(***************************************************************************)
TablesOf(s, tables) ==
  LET own == {t \in Range(tables) : s \in t.subnets}
  IN IF own # {} THEN own ELSE {t \in Range(tables) : t.main}

Defaults(table) == {r \in Range(table.routes) : r.active /\ r.to = "internet"}
ReachesAll(table, ips) ==
  \A ip \in Range(ips) : \E r \in Range(table.routes) :
    r.active /\ r.to = "network" /\ ip \in r.covers

(* Where one table holds for the subnet, with one default route, and no    *)
(* two instances show one address, only one class has grounds.             *)
Grounds(class, s, tables, ips, gateways) ==
  IF class = "private"
  THEN TablesOf(s, tables) = {} \/ \E t \in TablesOf(s, tables) : Defaults(t) = {}
  ELSE \E t \in TablesOf(s, tables) : \E r \in Defaults(t) :
         CASE class = "nat"      -> ReachesAll(t, ips) /\ r.via = "instance"
           [] class = "public"   -> ReachesAll(t, ips) /\ r.via \in gateways
           [] class = "gateway"  -> ReachesAll(t, ips) /\ r.via \notin gateways \cup {"instance", "interface"}
           [] class = "occluded" -> ReachesAll(t, ips) => r.via = "interface" \/ ~IsInjective(ips)
=============================================================================
