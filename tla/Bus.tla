-------------------------------- MODULE Bus --------------------------------
(***************************************************************************)
(* The bus: messages published to NSQ come back to HandleMessage, in four  *)
(* goroutines, and one loop distributes them to the subscriptions of their *)
(* customer.  All its channels are unbuffered: a step of the loop that     *)
(* takes or gives is also a step of the goroutine at the other end, and is *)
(* completed in Stream.                                                    *)
(*   bus/bus.go                                                            *)
(***************************************************************************)
EXTENDS Naturals, FiniteSets

CONSTANTS
  Conns,          \* websocket connections; each makes one Subscription
  Customers,
  Messages,       \* the messages that appear on the topic
  Of,             \* the customer of each
  Malformed,      \* those that do not decode or validate
  Handlers,       \* goroutines that run HandleMessage, 4 in the code
  MaxDeliveries,  \* bound on the times NSQ delivers a message
  Nobody, Nothing \* no customer or connection, no message

ASSUME OfAssumption == Of \in [Messages -> Customers] /\ Malformed \subseteq Messages
ASSUME DeliveriesAssumption == MaxDeliveries \in Nat
ASSUME NobodyAssumption ==
  Nobody \notin Customers /\ Nobody \notin Conns /\ Nothing \notin Messages

VARIABLES
  published,          \* messages on the topic
  handed,             \* how often NSQ delivered each to this process
  hand,               \* the message a handler is offering to the loop
  loop,               \* where the loop is: "select", "range", "send" or "dead"
  current, toSend,    \* the message it distributes, the subscriptions to come
  target,             \* the subscription it is sending to
  channels, known     \* b.channels: its values, and its keys

topicVars == <<published, handed, hand>>
rangeVars == <<current, toSend, target>>
mapVars   == <<channels, known>>
busVars   == <<topicVars, loop, rangeVars, mapVars>>

BusInit ==
  /\ published = {} /\ handed = [m \in Messages |-> 0]
  /\ hand = [h \in Handlers |-> Nothing]
  /\ loop = "select" /\ current = Nothing /\ toSend = {} /\ target = Nobody
  /\ channels = [u \in Customers |-> {}] /\ known = {}

(* Publish validates the message; others write to the topic what they like. *)
Publish ==
  /\ \E m \in Messages \ published : published' = published \cup {m}
  /\ UNCHANGED <<handed, hand, loop, rangeVars, mapVars>>

(* NSQ delivers in no order and, when an answer is late, more than once.   *)
(* HandleMessage drops what it cannot use and waits for the loop otherwise. *)
HandleMessage ==
  /\ \E h \in Handlers, m \in published :
       /\ hand[h] = Nothing /\ handed[m] < MaxDeliveries
       /\ handed' = [handed EXCEPT ![m] = @ + 1]
       /\ hand' = [hand EXCEPT ![h] = IF m \in Malformed THEN Nothing ELSE m]
  /\ UNCHANGED <<published, loop, rangeVars, mapVars>>

(* Faulty variant: every subscription is sent every message. *)
AcceptForAll ==
  /\ loop = "select" /\ loop' = "range"
  /\ \E h \in Handlers :
       /\ hand[h] # Nothing /\ hand' = [hand EXCEPT ![h] = Nothing]
       /\ current' = hand[h] /\ toSend' = UNION {channels[u] : u \in known}
  /\ UNCHANGED <<published, handed, target, mapVars>>

(* The loop takes a message: the handler returns, and NSQ has its answer,  *)
(* before anybody has been sent anything.                                  *)
Accept ==
  /\ loop = "select" /\ loop' = "range"
  /\ \E h \in Handlers :
       /\ hand[h] # Nothing /\ hand' = [hand EXCEPT ![h] = Nothing]
       /\ current' = hand[h]
       /\ toSend' = IF Of[hand[h]] \in known THEN channels[Of[hand[h]]] ELSE {}
  /\ UNCHANGED <<published, handed, target, mapVars>>

(* A range over a map, in any order; each send waits for its receiver. *)
Pick ==
  /\ loop = "range" /\ loop' = "send"
  /\ target' \in toSend /\ toSend' = toSend \ {target'}
  /\ UNCHANGED <<topicVars, current, mapVars>>

(* Faulty variant: the first subscription is the only one that is sent to. *)
EndRangeEarly ==
  /\ loop = "range" /\ loop' = "select"
  /\ current' = Nothing /\ target' = Nobody
  /\ UNCHANGED <<topicVars, toSend, mapVars>>

EndRange ==
  /\ loop = "range" /\ toSend = {} /\ loop' = "select"
  /\ current' = Nothing /\ target' = Nobody
  /\ UNCHANGED <<topicVars, toSend, mapVars>>

(* Faulty variant: the subscription sent to is sent to again. *)
SentAgain ==
  /\ loop = "send" /\ loop' = "range"
  /\ toSend' = toSend \cup {target}
  /\ UNCHANGED <<topicVars, current, target, mapVars>>

(* The loop's side of a send that was received. *)
Sent ==
  /\ loop = "send" /\ loop' = "range"
  /\ UNCHANGED <<topicVars, rangeVars, mapVars>>

(* The loop's side of Subscribe and Unsubscribe. *)
Add(c, u) ==
  /\ loop = "select"
  /\ channels' = [channels EXCEPT ![u] = @ \cup {c}] /\ known' = known \cup {u}
  /\ UNCHANGED <<topicVars, loop, rangeVars>>

(* Faulty variant: the customer goes with its first connection. *)
RemoveCustomer(c, u) ==
  /\ loop = "select"
  /\ IF u \notin known
       THEN loop' = "dead" /\ UNCHANGED mapVars
       ELSE /\ channels' = [channels EXCEPT ![u] = {}]
            /\ known' = known \ {u} /\ UNCHANGED loop
  /\ UNCHANGED <<topicVars, rangeVars>>

(* A customer the map does not know ends the loop for good. *)
Remove(c, u) ==
  /\ loop = "select"
  /\ IF u \notin known
       THEN loop' = "dead" /\ UNCHANGED mapVars
       ELSE /\ channels' = [channels EXCEPT ![u] = @ \ {c}]
            /\ known' = IF channels[u] \subseteq {c} THEN known \ {u} ELSE known
            /\ UNCHANGED loop
  /\ UNCHANGED <<topicVars, rangeVars>>

BusTypes ==
  /\ published \subseteq Messages /\ handed \in [Messages -> 0..MaxDeliveries]
  /\ hand \in [Handlers -> Messages \cup {Nothing}]
  /\ loop \in {"select", "range", "send", "dead"}
  /\ current \in Messages \cup {Nothing} /\ toSend \subseteq Conns
  /\ target \in Conns \cup {Nobody}
  /\ channels \in [Customers -> SUBSET Conns] /\ known \subseteq Customers
=============================================================================
