------------------------------- MODULE Stream -------------------------------
(***************************************************************************)
(* The websocket service on the bus: per connection a reader, which waits  *)
(* for the client to authenticate or to leave, and a writer, which         *)
(* subscribes for the authenticated user and relays the bus's messages     *)
(* between its own heartbeats.                                             *)
(*   service/websocket.go                                                  *)
(***************************************************************************)
EXTENDS Bus

VARIABLES
  ws,        \* the connection: its client reads, has stalled or has gone; or closed
  reader,    \* readLoop: in NextReader, at userChan <- user, or returned
  offered,   \* the user it is handing over
  writer,    \* writeLoop
  user,      \* the user it got
  said,      \* it logged "websocket closed waiting for authentication command"
  received   \* how often each message was written to the connection

readVars  == <<reader, offered>>
writeVars == <<writer, user, said, received>>
vars == <<busVars, ws, readVars, writeVars>>

Init ==
  /\ BusInit
  /\ ws = [c \in Conns |-> "open"]
  /\ reader = [c \in Conns |-> "read"] /\ offered = [c \in Conns |-> Nobody]
  /\ writer = [c \in Conns |-> "auth"] /\ user = [c \in Conns |-> Nobody]
  /\ said = {} /\ received = [c \in Conns |-> [m \in Messages |-> 0]]

Becomes(c, l) == writer' = [writer EXCEPT ![c] = l]

(***************************************************************************)
(* The client                                                              *)
(***************************************************************************)
(* It may stop reading, read again, or go. *)
Client(c) ==
  /\ \/ ws[c] = "open" /\ ws' = [ws EXCEPT ![c] = "stalled"]
     \/ ws[c] = "stalled" /\ ws' = [ws EXCEPT ![c] = "open"]
     \/ ws[c] \in {"open", "stalled"} /\ ws' = [ws EXCEPT ![c] = "gone"]
  /\ UNCHANGED <<busVars, readVars, writeVars>>

(***************************************************************************)
(* readLoop; commands it discards change nothing.                          *)
(***************************************************************************)
Authenticate(c) ==
  /\ reader[c] = "read" /\ ws[c] \in {"open", "stalled"}
  /\ \E u \in Customers : offered' = [offered EXCEPT ![c] = u]
  /\ reader' = [reader EXCEPT ![c] = "handover"]
  /\ UNCHANGED <<busVars, ws, writeVars>>

(* Its return closes the connection, userChan and closeChan. *)
ReadFails(c) ==
  /\ reader[c] = "read" /\ ws[c] \in {"gone", "closed"}
  /\ reader' = [reader EXCEPT ![c] = "done"] /\ ws' = [ws EXCEPT ![c] = "closed"]
  /\ UNCHANGED <<busVars, offered, writeVars>>

(* userChan is unbuffered, and the writer receives from it once. *)
HandOver(c) ==
  /\ reader[c] = "handover" /\ writer[c] = "auth"
  /\ reader' = [reader EXCEPT ![c] = "read"]
  /\ user' = [user EXCEPT ![c] = offered[c]] /\ Becomes(c, "subscribe")
  /\ UNCHANGED <<busVars, ws, offered, said, received>>

(***************************************************************************)
(* writeLoop                                                               *)
(***************************************************************************)
AuthClosed(c) ==
  /\ writer[c] = "auth" /\ reader[c] = "done" /\ Becomes(c, "done")
  /\ UNCHANGED <<busVars, ws, readVars, user, said, received>>

(* Five seconds without a user; the connection is left as it is. *)
AuthTimeout(c) ==
  /\ writer[c] = "auth" /\ Becomes(c, "done") /\ said' = said \cup {c}
  /\ UNCHANGED <<busVars, ws, readVars, user, received>>

(* The first write is that of the customer's active bastions. *)
Subscribe(c) ==
  /\ writer[c] = "subscribe" /\ Becomes(c, "write") /\ Add(c, user[c])
  /\ UNCHANGED <<ws, readVars, user, said, received>>

(* WriteJSON has no deadline.  A peer that has gone resets the connection  *)
(* at the first bytes it is sent.                                          *)
Write(c) ==
  /\ writer[c] = "write" /\ ws[c] \in {"open", "gone"} /\ Becomes(c, "select")
  /\ ws' = IF ws[c] = "gone" THEN [ws EXCEPT ![c] = "closed"] ELSE ws
  /\ UNCHANGED <<busVars, readVars, user, said, received>>

(* Faulty variants: the writer returns without unsubscribing; it goes on   *)
(* after an error.                                                         *)
WriteFailsForgetting(c) ==
  /\ writer[c] = "write" /\ ws[c] \in {"gone", "closed"} /\ Becomes(c, "done")
  /\ UNCHANGED <<busVars, ws, readVars, user, said, received>>
WriteFailsUnnoticed(c) ==
  /\ writer[c] = "write" /\ ws[c] \in {"gone", "closed"} /\ Becomes(c, "select")
  /\ UNCHANGED <<busVars, ws, readVars, user, said, received>>

WriteFails(c) ==
  /\ writer[c] = "write" /\ ws[c] \in {"gone", "closed"} /\ Becomes(c, "unsubscribe")
  /\ UNCHANGED <<busVars, ws, readVars, user, said, received>>

(* heartbeat, every ten seconds, and bastionBeat. *)
Beat(c) ==
  /\ writer[c] = "select" /\ Becomes(c, "write")
  /\ UNCHANGED <<busVars, ws, readVars, user, said, received>>

(* The loop sends to sub.Chan and the writer, in its select, receives. *)
Receive(c) ==
  /\ target = c /\ Sent /\ writer[c] = "select" /\ Becomes(c, "write")
  /\ received' = [received EXCEPT ![c][current] = @ + 1]
  /\ UNCHANGED <<ws, readVars, user, said>>

CloseSeen(c) ==
  /\ writer[c] = "select" /\ reader[c] = "done" /\ Becomes(c, "unsubscribe")
  /\ UNCHANGED <<busVars, ws, readVars, user, said, received>>

(* Deferred: the writer waits for the loop, whatever the loop is doing. *)
Unsubscribe(c) ==
  /\ writer[c] = "unsubscribe" /\ Becomes(c, "done") /\ Remove(c, user[c])
  /\ UNCHANGED <<ws, readVars, user, said, received>>

BusStep == Publish \/ HandleMessage \/ Accept \/ Pick \/ EndRange
Loop == BusStep /\ UNCHANGED <<ws, readVars, writeVars>>
Reader(c) == Authenticate(c) \/ ReadFails(c) \/ HandOver(c)
Writer(c) == AuthClosed(c) \/ AuthTimeout(c) \/ Write(c) \/ WriteFails(c) \/ Beat(c)
               \/ CloseSeen(c)
Exchange(c) == Subscribe(c) \/ Receive(c) \/ Unsubscribe(c)

Next == Loop \/ \E c \in Conns : Client(c) \/ Reader(c) \/ Writer(c) \/ Exchange(c)
Spec == Init /\ [][Next]_vars

(***************************************************************************)
(* Fairness: the goroutines run, timers fire, and a select picks at random *)
(* among the channels that are ready, so that each is picked in the end.   *)
(* Nothing is asked of the clients, nor of NSQ.                            *)
(***************************************************************************)
Proceeds == Accept \/ Pick \/ EndRange
Fairness ==
  /\ WF_vars(Proceeds /\ UNCHANGED <<ws, readVars, writeVars>>)
  /\ \A c \in Conns :
       /\ WF_vars(ReadFails(c)) /\ WF_vars(HandOver(c)) /\ WF_vars(Writer(c))
       /\ SF_vars(Subscribe(c)) /\ SF_vars(Receive(c)) /\ SF_vars(Unsubscribe(c))
FairSpec == Spec /\ Fairness

(***************************************************************************)
(* Properties                                                              *)
(***************************************************************************)
TypeOK ==
  /\ BusTypes
  /\ ws \in [Conns -> {"open", "stalled", "gone", "closed"}]
  /\ reader \in [Conns -> {"read", "handover", "done"}]
  /\ offered \in [Conns -> Customers \cup {Nobody}]
  /\ writer \in [Conns -> {"auth", "subscribe", "write", "select", "unsubscribe", "done"}]
  /\ user \in [Conns -> Customers \cup {Nobody}] /\ said \subseteq Conns
  /\ received \in [Conns -> [Messages -> 0..MaxDeliveries]]

(* The bus's map holds the connections whose writers are between Subscribe *)
(* and the end of Unsubscribe, each under the customer of its user, and no *)
(* customer without one.                                                   *)
Subscribed(c) == writer[c] \in {"write", "select", "unsubscribe"}
Registered ==
  /\ \A u \in Customers : channels[u] = {c \in Conns : Subscribed(c) /\ user[c] = u}
  /\ known = {u \in Customers : channels[u] # {}}

(* The return in the loop's unsubscribe case, which would stop the bus for *)
(* every customer, is never reached.                                       *)
LoopLives == loop # "dead"

(* No customer sees another's messages, none arrive before Subscribe or    *)
(* after Unsubscribe, and none more often than NSQ delivered it.           *)
Contract == INSTANCE Delivery WITH
  owner <- [c \in Conns |-> IF writer[c] \in {"auth", "subscribe"} THEN Nobody ELSE user[c]],
  members <- UNION {channels[u] : u \in Customers}
ImplementsDelivery == Contract!Spec

(* Someone the loop is sending to does not receive: its client has stalled *)
(* in the middle of a write, or its writer is waiting for the loop.        *)
Blocked ==
  /\ loop = "send"
  /\ \/ writer[target] = "unsubscribe"
     \/ writer[target] = "write" /\ ws[target] = "stalled"

(* Whoever is subscribed when the loop takes a message of his customer     *)
(* receives it, though NSQ is told before anyone is sent it and nothing is *)
(* sent twice; and the loop comes back to its select for ever: unless one  *)
(* subscriber stops it, and then it stops for every customer.              *)
Owed(c, m) == loop = "range" /\ current = m /\ c \in channels[Of[m]]
MessagesArrive ==
  /\ []<>(loop = "select" \/ Blocked)
  /\ \A c \in Conns, m \in Messages : Owed(c, m) ~> (received[c][m] > 0 \/ Blocked)

(* When the client has gone both goroutines of its connection end, except  *)
(* a reader with a second user to hand over, which nobody will receive, or *)
(* behind a loop that is blocked.                                          *)
Ended(c) == writer[c] = "done" /\ reader[c] \in {"done", "handover"}
ConnectionEnds ==
  (\A c \in Conns : ws[c] \in {"gone", "closed"} ~> Ended(c)) \/ <>[](loop = "send")

(* A connection whose client did not authenticate is closed, as it says.   *)
ClosedWhenSaid == \A c \in Conns : c \in said ~> ws[c] = "closed"
=============================================================================
