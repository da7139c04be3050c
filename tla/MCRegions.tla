----------------------------- MODULE MCRegions -----------------------------
(* One VPC with two subnets, the second of which may have a table of its   *)
(* own, and every way out that determineRouting tells apart; one request   *)
(* for each of these accounts, two for an ordinary one.                    *)
EXTENDS Regions
CONSTANTS r1, r2
MCRequests == {r1, r2}
MCVPCs == {"v"}
MCSubnets == {"s1", "s2"}
MCVpcOf == [s \in MCSubnets |-> "v"]

Route(to, covers, via) == [active |-> TRUE, to |-> to, covers |-> covers, via |-> via]
Local == Route("network", {"a", "b"}, "local")
Nearby == Route("network", {"a"}, "local")
Garbled == Route("garbled", {}, "local")
Out(via) == Route("internet", {}, via)
Dead(route) == [route EXCEPT !.active = FALSE]

RouteLists ==
  { <<Local>>, <<Local, Out("instance")>>, <<Local, Out("g1")>>, <<Local, Out("g2")>>,
    <<Local, Out("interface")>>, <<Out("g1"), Nearby, Dead(Local)>>,
    <<Local, Dead(Out("g1"))>>, <<Local, Route("other", {}, "g1")>>,
    <<Out("g1"), Local, Garbled>> }
Main(routes) == [main |-> TRUE, subnets |-> {}, routes |-> routes]
OfS2 == [main |-> FALSE, subnets |-> {"s2"}, routes |-> <<Local, Out("instance")>>]
TableLists == {<<Main(l)>> : l \in RouteLists} \cup {<<OfS2, Main(l)>> : l \in RouteLists}
                \cup {<<>>, <<OfS2>>}

On(s, ip) == [vpc |-> "v", subnet |-> s, ip |-> ip, running |-> TRUE]
Classic == [vpc |-> "", subnet |-> "", ip |-> "c", running |-> TRUE]
Ended(i) == [i EXCEPT !.running = FALSE]
InstanceLists ==
  { <<>>, <<On("s1", "a"), On("s2", "b")>>, <<On("s1", "a"), On("s2", "a")>>,
    <<Classic, On("s2", NoAddress)>>, <<Ended(On("s2", "b")), On("s2", "a")>> }

Attachment(g, state) == [gateway |-> g, vpc |-> "v", state |-> state]
Region(instances, tables, state) ==
  [instances |-> instances, tables |-> [v \in MCVPCs |-> tables],
   attachments |-> {Attachment("g1", state)}]
Usual == <<On("s1", "a"), On("s2", "b")>>
MCBeginnings ==
  {[account |-> Region(i, t, "attached"), requests |-> {r1}] : i \in InstanceLists, t \in TableLists}
    \cup {[account |-> Region(Usual, t, "detaching"), requests |-> {r1}] : t \in TableLists}
    \cup {[account |-> Region(Usual, <<OfS2, Main(<<Local, Out("g1")>>)>>, "attached"), requests |-> MCRequests]}
MCNewInstances == {On("s1", "b")}
=============================================================================
