------------------------------ MODULE MCStream ------------------------------
(* Two connections and two customers, so that connections share a customer *)
(* or do not; a message of one customer, which NSQ may deliver twice, and  *)
(* one that does not decode.  The liveness runs have the one customer and  *)
(* the one message: both connections are then in the way of each other.    *)
EXTENDS Stream, TLC
CONSTANTS c1, c2, uA, uB, mA, mX, h1, h2
MCConns == {c1, c2}
MCCustomers == {uA, uB}
OneCustomer == {uA}
MCMessages == {mA, mX}
OneMessage == {mA}
MCOf == [m \in MCMessages |-> uA]
OneOf == [m \in OneMessage |-> uA]
MCMalformed == {mX}
NoMalformed == {}
MCHandlers == {h1, h2}
OneHandler == {h1}
StreamSymmetry == Permutations(MCConns) \cup Permutations(MCHandlers)
=============================================================================
