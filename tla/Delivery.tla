------------------------------ MODULE Delivery ------------------------------
(***************************************************************************)
(* What the bus promises its subscribers: a connection joins once, for one *)
(* customer, and receives messages only between joining and leaving, only  *)
(* of that customer, and each at most as often as NSQ handed it over.      *)
(***************************************************************************)
EXTENDS Naturals
CONSTANTS Conns, Customers, Messages, Of, Nobody
VARIABLES owner, members, handed, received
vars == <<owner, members, handed, received>>

Init ==
  /\ owner = [c \in Conns |-> Nobody] /\ members = {}
  /\ handed = [m \in Messages |-> 0]
  /\ received = [c \in Conns |-> [m \in Messages |-> 0]]

Join(c, customer) ==
  /\ owner[c] = Nobody
  /\ owner' = [owner EXCEPT ![c] = customer] /\ members' = members \cup {c}
  /\ UNCHANGED <<handed, received>>

Leave(c) ==
  /\ members' = members \ {c}
  /\ UNCHANGED <<owner, handed, received>>

Hand(m) ==
  /\ handed' = [handed EXCEPT ![m] = @ + 1]
  /\ UNCHANGED <<owner, members, received>>

Receive(c, m) ==
  /\ c \in members /\ owner[c] = Of[m] /\ received[c][m] < handed[m]
  /\ received' = [received EXCEPT ![c][m] = @ + 1]
  /\ UNCHANGED <<owner, members, handed>>

Next ==
  \/ \E m \in Messages : Hand(m)
  \/ \E c \in Conns : \/ Leave(c)
                      \/ \E customer \in Customers : Join(c, customer)
                      \/ \E m \in Messages : Receive(c, m)

Spec == Init /\ [][Next]_vars
=============================================================================
