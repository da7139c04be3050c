---------------------------- MODULE StreamProofs ----------------------------
(***************************************************************************)
(* What holds of any number of connections, customers, messages, handlers  *)
(* and deliveries: the map of subscriptions is exact, the loop lives, and  *)
(* the bus keeps the promise of Delivery.                                  *)
(***************************************************************************)
EXTENDS Stream, FiniteSetTheorems, TLAPS

(* Whose a connection is, by the places of its two goroutines. *)
UserAtStage(c) ==
  /\ reader[c] = "handover" => offered[c] \in Customers
  /\ writer[c] = "auth" => user[c] = Nobody
  /\ writer[c] \in {"subscribe", "write", "select", "unsubscribe"} => user[c] \in Customers
Users == \A c \in Conns : UserAtStage(c)

(* What the loop still sends, it sends to subscriptions of the message's   *)
(* customer: the map does not change while it ranges.                      *)
RangeOK ==
  /\ loop = "select" => toSend = {}
  /\ loop # "select" => current \in Messages /\ toSend \subseteq channels[Of[current]]
  /\ loop = "send" => target \in channels[Of[current]] /\ target \notin toSend

(* A message that NSQ handed over is with a handler, or being distributed, *)
(* or done with; a connection has received it as often as it was done with *)
(* at most.                                                                *)
Holding(m) == {h \in Handlers : hand[h] = m}
InTheAir(c, m) == current = m /\ (c \in toSend \/ (loop = "send" /\ target = c))
Awaiting(c, m) == IF InTheAir(c, m) THEN 1 ELSE 0
Counted ==
  \A m \in Messages :
    /\ IsFiniteSet(Holding(m))
    /\ \A c \in Conns : received[c][m] + Cardinality(Holding(m)) + Awaiting(c, m) =< handed[m]

IInv == TypeOK /\ LoopLives /\ Registered /\ Users /\ RangeOK /\ Counted

LEMMA InitIInv == Init => IInv
<1> SUFFICES ASSUME Init PROVE IInv
  OBVIOUS
<1> USE DeliveriesAssumption, NobodyAssumption DEF Init, BusInit
<1>1. TypeOK
  BY DEF TypeOK, BusTypes
<1>2. LoopLives /\ Registered /\ Users /\ RangeOK
  BY DEF LoopLives, Registered, Subscribed, Users, UserAtStage, RangeOK
<1>3. ASSUME NEW m \in Messages
      PROVE  /\ IsFiniteSet(Holding(m))
             /\ \A c \in Conns : received[c][m] + Cardinality(Holding(m)) + Awaiting(c, m) =< handed[m]
  <2>1. Holding(m) = {}
    BY DEF Holding
  <2>2. \A c \in Conns : Awaiting(c, m) = 0
    BY DEF Awaiting, InTheAir
  <2> QED
    BY <2>1, <2>2, FS_EmptySet
<1> QED
  BY <1>1, <1>2, <1>3 DEF IInv, Counted

LEMMA Facts == ASSUME IInv
  PROVE /\ handed \in [Messages -> 0..MaxDeliveries]
        /\ hand \in [Handlers -> Messages \cup {Nothing}]
        /\ loop \in {"select", "range", "send"}
        /\ channels \in [Customers -> SUBSET Conns] /\ known \subseteq Customers
        /\ toSend \subseteq Conns
        /\ reader \in [Conns -> {"read", "handover", "done"}]
        /\ offered \in [Conns -> Customers \cup {Nobody}]
        /\ writer \in [Conns -> {"auth", "subscribe", "write", "select", "unsubscribe", "done"}]
        /\ user \in [Conns -> Customers \cup {Nobody}]
        /\ received \in [Conns -> [Messages -> 0..MaxDeliveries]]
        /\ MaxDeliveries \in Nat
        /\ Registered /\ Users /\ RangeOK /\ Counted
BY DeliveriesAssumption DEF IInv, TypeOK, BusTypes, LoopLives

(***************************************************************************)
(* The count: what each step does to the holders and the distribution      *)
(***************************************************************************)
LEMMA Room ==
  ASSUME IInv, NEW c \in Conns, NEW m \in Messages, InTheAir(c, m)
  PROVE  received[c][m] < handed[m]
<1>1. received[c][m] + Cardinality(Holding(m)) + 1 =< handed[m] /\ IsFiniteSet(Holding(m))
  BY Facts DEF Counted, Awaiting
<1>2. Cardinality(Holding(m)) \in Nat
  BY <1>1, FS_CardinalityType
<1>3. received[c][m] \in Nat /\ handed[m] \in Nat
  BY Facts
<1> QED
  BY <1>1, <1>2, <1>3

LEMMA HandleCount ==
  ASSUME IInv, HandleMessage, UNCHANGED received PROVE Counted'
<1> USE Facts
<1>1. PICK h \in Handlers, n \in published :
        /\ hand[h] = Nothing /\ handed[n] < MaxDeliveries
        /\ handed' = [handed EXCEPT ![n] = @ + 1]
        /\ hand' = [hand EXCEPT ![h] = IF n \in Malformed THEN Nothing ELSE n]
  BY DEF HandleMessage
<1>2. UNCHANGED <<loop, current, toSend, target>> /\ n \in Messages
  BY DEF HandleMessage, rangeVars, IInv, TypeOK, BusTypes
<1> SUFFICES ASSUME NEW m \in Messages
             PROVE  /\ IsFiniteSet(Holding(m)')
                    /\ \A c \in Conns : received'[c][m] + Cardinality(Holding(m)') + Awaiting(c, m)'
                                          =< handed'[m]
  BY DEF Counted
<1>3. \A c \in Conns : Awaiting(c, m)' = Awaiting(c, m) /\ Awaiting(c, m) \in {0, 1}
  BY <1>2 DEF Awaiting, InTheAir
<1>4. IsFiniteSet(Holding(m)) /\ Cardinality(Holding(m)) \in Nat
  BY FS_CardinalityType DEF Counted
<1>5. \A c \in Conns : received[c][m] + Cardinality(Holding(m)) + Awaiting(c, m) =< handed[m]
  BY DEF Counted
<1>6. CASE m = n /\ n \notin Malformed
  <2>1. Holding(m)' = Holding(m) \cup {h} /\ h \notin Holding(m)
    BY <1>1, <1>6, NobodyAssumption DEF Holding
  <2>2. IsFiniteSet(Holding(m)') /\ Cardinality(Holding(m)') = Cardinality(Holding(m)) + 1
    BY <1>4, <2>1, FS_AddElement
  <2>3. handed'[m] = handed[m] + 1 /\ handed[m] \in Nat
    BY <1>1, <1>6
  <2> QED
    BY <1>3, <1>4, <1>5, <2>2, <2>3
<1>7. CASE ~(m = n /\ n \notin Malformed)
  <2>1. Holding(m)' = Holding(m)
    BY <1>1, <1>7, NobodyAssumption DEF Holding
  <2>2. handed'[m] >= handed[m] /\ handed[m] \in Nat /\ handed'[m] \in Nat
    BY <1>1, <1>2
  <2> QED
    BY <1>3, <1>4, <1>5, <2>1, <2>2
<1> QED
  BY <1>6, <1>7

LEMMA AcceptCount ==
  ASSUME IInv, Accept, UNCHANGED received PROVE Counted'
<1> USE Facts
<1>1. PICK h \in Handlers :
        /\ hand[h] # Nothing /\ hand' = [hand EXCEPT ![h] = Nothing]
        /\ current' = hand[h]
  BY DEF Accept
<1>2. UNCHANGED handed /\ loop = "select" /\ loop' = "range"
  BY DEF Accept
<1> SUFFICES ASSUME NEW m \in Messages
             PROVE  /\ IsFiniteSet(Holding(m)')
                    /\ \A c \in Conns : received'[c][m] + Cardinality(Holding(m)') + Awaiting(c, m)'
                                          =< handed'[m]
  BY DEF Counted
<1>3. IsFiniteSet(Holding(m)) /\ Cardinality(Holding(m)) \in Nat /\ handed[m] \in Nat
      /\ \A c \in Conns : received[c][m] \in Nat
  BY FS_CardinalityType DEF Counted
<1>4. \A c \in Conns : received[c][m] + Cardinality(Holding(m)) =< handed[m]
  <2>1. \A c \in Conns : Awaiting(c, m) = 0
    BY <1>2 DEF Awaiting, InTheAir, RangeOK
  <2>2. \A c \in Conns : received[c][m] + Cardinality(Holding(m)) + Awaiting(c, m) =< handed[m]
    BY DEF Counted
  <2> QED
    BY <1>3, <2>1, <2>2
<1>5. CASE m = hand[h]
  <2>1. Holding(m)' = Holding(m) \ {h} /\ h \in Holding(m)
    BY <1>1, <1>5 DEF Holding
  <2>2. IsFiniteSet(Holding(m)') /\ Cardinality(Holding(m)') = Cardinality(Holding(m)) - 1
    BY <1>3, <2>1, FS_RemoveElement
  <2>3. \A c \in Conns : Awaiting(c, m)' \in {0, 1}
    BY DEF Awaiting
  <2> QED
    BY <1>2, <1>3, <1>4, <2>2, <2>3
<1>6. CASE m # hand[h]
  <2>1. Holding(m)' = Holding(m)
    BY <1>1, <1>6, NobodyAssumption DEF Holding
  <2>2. \A c \in Conns : Awaiting(c, m)' = 0
    BY <1>1, <1>6 DEF Awaiting, InTheAir
  <2> QED
    BY <1>2, <1>3, <1>4, <2>1, <2>2
<1> QED
  BY <1>5, <1>6

(* Nobody is sent what he was not to be sent already. *)
LEMMA QuietCount ==
  ASSUME IInv, UNCHANGED <<handed, hand, received>>,
         \A c \in Conns, m \in Messages : InTheAir(c, m)' => InTheAir(c, m)
  PROVE  Counted'
<1> SUFFICES ASSUME NEW m \in Messages
             PROVE  /\ IsFiniteSet(Holding(m)')
                    /\ \A c \in Conns : received'[c][m] + Cardinality(Holding(m)') + Awaiting(c, m)'
                                          =< handed'[m]
  BY DEF Counted
<1>1. Holding(m)' = Holding(m)
  BY DEF Holding
<1>2. IsFiniteSet(Holding(m)) /\ Cardinality(Holding(m)) \in Nat /\ handed[m] \in Nat
      /\ \A c \in Conns : received[c][m] \in Nat
  BY Facts, FS_CardinalityType DEF Counted
<1>3. \A c \in Conns : received[c][m] + Cardinality(Holding(m)) + Awaiting(c, m) =< handed[m]
  BY Facts DEF Counted
<1>4. \A c \in Conns : /\ Awaiting(c, m)' = 0 \/ Awaiting(c, m) = 1
                       /\ Awaiting(c, m) \in {0, 1} /\ Awaiting(c, m)' \in {0, 1}
  BY DEF Awaiting
<1> QED
  BY <1>1, <1>2, <1>3, <1>4

LEMMA ReceiveCount ==
  ASSUME IInv, NEW c \in Conns, Receive(c) PROVE Counted'
<1> USE Facts
<1>1. /\ target = c /\ loop = "send" /\ loop' = "range" /\ current \in Messages
      /\ UNCHANGED <<handed, hand, current, toSend, target>>
      /\ received' = [received EXCEPT ![c][current] = @ + 1] /\ c \notin toSend
  BY DEF Receive, Sent, topicVars, rangeVars, RangeOK
<1> SUFFICES ASSUME NEW m \in Messages
             PROVE  /\ IsFiniteSet(Holding(m)')
                    /\ \A d \in Conns : received'[d][m] + Cardinality(Holding(m)') + Awaiting(d, m)'
                                          =< handed'[m]
  BY DEF Counted
<1>2. Holding(m)' = Holding(m)
  BY <1>1 DEF Holding
<1>3. IsFiniteSet(Holding(m)) /\ Cardinality(Holding(m)) \in Nat /\ handed[m] \in Nat
  BY FS_CardinalityType DEF Counted
<1>4. ASSUME NEW d \in Conns
      PROVE  received'[d][m] + Cardinality(Holding(m)) + Awaiting(d, m)' =< handed[m]
  <2>1. received[d][m] + Cardinality(Holding(m)) + Awaiting(d, m) =< handed[m] /\ received[d][m] \in Nat
    BY DEF Counted
  <2>2. CASE d = c /\ m = current
    <3>1. Awaiting(d, m) = 1 /\ Awaiting(d, m)' = 0
      BY <1>1, <2>2 DEF Awaiting, InTheAir
    <3>2. received'[d][m] = received[d][m] + 1
      BY <1>1, <2>2
    <3> QED
      BY <1>3, <2>1, <3>1, <3>2
  <2>3. CASE ~(d = c /\ m = current)
    <3>1. received'[d][m] = received[d][m]
      BY <1>1, <2>3
    <3>2. Awaiting(d, m)' = Awaiting(d, m)
      BY <1>1, <2>3 DEF Awaiting, InTheAir
    <3> QED
      BY <1>3, <2>1, <3>1, <3>2
  <2> QED
    BY <2>2, <2>3
<1> QED
  BY <1>1, <1>2, <1>3, <1>4

LEMMA CountedStep == ASSUME IInv, [Next]_vars PROVE Counted'
<1> USE Facts
<1>1. CASE HandleMessage /\ UNCHANGED received
  BY <1>1, HandleCount
<1>2. CASE Accept /\ UNCHANGED received
  BY <1>2, AcceptCount
<1>3. CASE Pick /\ UNCHANGED received
  <2>1. /\ UNCHANGED <<handed, hand, received, current>> /\ loop' = "send"
        /\ target' \in toSend /\ toSend' = toSend \ {target'}
    BY <1>3 DEF Pick, topicVars
  <2> QED
    BY <2>1, QuietCount DEF InTheAir
<1>4. CASE EndRange /\ UNCHANGED received
  <2>1. UNCHANGED <<handed, hand, received, toSend>> /\ toSend = {} /\ loop' = "select"
    BY <1>4 DEF EndRange, topicVars
  <2> QED
    BY <2>1, QuietCount DEF InTheAir
<1>5. ASSUME NEW c \in Conns, Receive(c) PROVE Counted'
  BY <1>5, ReceiveCount
<1>6. ASSUME NEW c \in Conns, Subscribe(c) \/ Unsubscribe(c) PROVE Counted'
  <2>1. UNCHANGED <<handed, hand, received, current, toSend, target>> /\ loop = "select" /\ loop' # "send"
    BY <1>6 DEF Subscribe, Unsubscribe, Add, Remove, topicVars, rangeVars
  <2> QED
    BY <2>1, QuietCount DEF InTheAir
<1>7. CASE UNCHANGED <<handed, hand, received, current, toSend, target, loop>>
  BY <1>7, QuietCount DEF InTheAir
<1>8. ASSUME NEW c \in Conns, Client(c) \/ Reader(c) \/ Writer(c)
      PROVE  UNCHANGED <<handed, hand, received, current, toSend, target, loop>>
  BY <1>8 DEF Client, Reader, Writer, Authenticate, ReadFails, HandOver, AuthClosed, AuthTimeout,
       Write, WriteFails, Beat, CloseSeen, busVars, topicVars, rangeVars, writeVars
<1>9. Loop => /\ UNCHANGED received
              /\ \/ HandleMessage \/ Accept \/ Pick \/ EndRange
                 \/ UNCHANGED <<handed, hand, current, toSend, target, loop>>
  BY DEF Loop, BusStep, Publish, rangeVars, writeVars
<1>10. UNCHANGED vars => UNCHANGED <<handed, hand, received, current, toSend, target, loop>>
  BY DEF vars, busVars, topicVars, rangeVars, writeVars
<1> QED
  BY <1>1, <1>2, <1>3, <1>4, <1>5, <1>6, <1>7, <1>8, <1>9, <1>10 DEF Next, Exchange

(***************************************************************************)
(* Types, users, and the range                                             *)
(***************************************************************************)
LEMMA BusTypesStep == ASSUME IInv, [Next]_vars PROVE BusTypes'
<1>1. BusTypes /\ Users
  BY DEF IInv, TypeOK
<1> USE DEF BusTypes, topicVars, rangeVars, mapVars
<1>2. CASE Loop
  <2>1. CASE Publish
    BY <1>1, <2>1 DEF Publish
  <2>2. CASE HandleMessage
    <3>1. PICK h \in Handlers, m \in published :
            /\ handed[m] < MaxDeliveries /\ handed' = [handed EXCEPT ![m] = @ + 1]
            /\ hand' = [hand EXCEPT ![h] = IF m \in Malformed THEN Nothing ELSE m]
      BY <2>2 DEF HandleMessage
    <3>2. handed[m] + 1 \in 0..MaxDeliveries
      BY <1>1, <3>1, DeliveriesAssumption
    <3>3. handed' \in [Messages -> 0..MaxDeliveries] /\ hand' \in [Handlers -> Messages \cup {Nothing}]
      BY <1>1, <3>1, <3>2
    <3> QED
      BY <1>1, <2>2, <3>3 DEF HandleMessage
  <2>3. CASE Accept
    BY <1>1, <2>3, OfAssumption DEF Accept
  <2>4. CASE Pick \/ EndRange
    BY <1>1, <2>4 DEF Pick, EndRange
  <2> QED
    BY <1>2, <2>1, <2>2, <2>3, <2>4 DEF Loop, BusStep
<1>3. ASSUME NEW c \in Conns, Subscribe(c) \/ Receive(c) \/ Unsubscribe(c) PROVE BusTypes'
  <2>1. Subscribe(c) => user[c] \in Customers
    BY <1>1 DEF Subscribe, Users, UserAtStage
  <2> QED
    BY <1>1, <1>3, <2>1 DEF Subscribe, Receive, Unsubscribe, Add, Sent, Remove
<1>4. ASSUME NEW c \in Conns, Client(c) \/ Reader(c) \/ Writer(c) PROVE BusTypes'
  BY <1>1, <1>4 DEF Client, Reader, Writer, Authenticate, ReadFails, HandOver, AuthClosed,
       AuthTimeout, Write, WriteFails, Beat, CloseSeen, busVars
<1>5. CASE UNCHANGED vars
  BY <1>1, <1>5 DEF vars, busVars
<1> QED
  BY <1>2, <1>3, <1>4, <1>5 DEF Next, Exchange

LEMMA TypeStep == ASSUME IInv, [Next]_vars PROVE TypeOK'
<1>1. BusTypes'
  BY BusTypesStep
<1>2. TypeOK /\ Users
  BY DEF IInv
<1> USE DEF TypeOK, readVars, writeVars, Becomes
<1>3. CASE Loop
  BY <1>1, <1>2, <1>3 DEF Loop
<1>4. ASSUME NEW c \in Conns, Client(c) \/ Reader(c) PROVE TypeOK'
  BY <1>1, <1>2, <1>4 DEF Client, Reader, Authenticate, ReadFails, HandOver
<1>5. ASSUME NEW c \in Conns, Writer(c) PROVE TypeOK'
  BY <1>1, <1>2, <1>5 DEF Writer, AuthClosed, AuthTimeout, Write, WriteFails, Beat, CloseSeen
<1>6. ASSUME NEW c \in Conns, Subscribe(c) \/ Unsubscribe(c) PROVE TypeOK'
  BY <1>1, <1>2, <1>6 DEF Subscribe, Unsubscribe
<1>7. ASSUME NEW c \in Conns, Receive(c) PROVE TypeOK'
  <2>1. received'[c][current] \in 0..MaxDeliveries /\ current \in Messages
    <3>1. current \in Messages /\ InTheAir(c, current)
      BY <1>7, Facts DEF Receive, Sent, RangeOK, InTheAir
    <3>2. received[c][current] < handed[current]
      BY <3>1, Room
    <3>3. received[c][current] \in Nat /\ handed[current] \in 0..MaxDeliveries
      BY <3>1, Facts
    <3>4. received'[c][current] = received[c][current] + 1
      BY <1>7, <3>1, Facts DEF Receive
    <3> QED
      BY <3>1, <3>2, <3>3, <3>4, DeliveriesAssumption
  <2>2. received' \in [Conns -> [Messages -> 0..MaxDeliveries]]
    BY <1>2, <1>7, <2>1 DEF Receive
  <2> QED
    BY <1>1, <1>2, <1>7, <2>2 DEF Receive
<1>8. CASE UNCHANGED vars
  BY <1>1, <1>2, <1>8 DEF vars
<1> QED
  BY <1>3, <1>4, <1>5, <1>6, <1>7, <1>8 DEF Next, Exchange

LEMMA UsersStep == ASSUME IInv, [Next]_vars PROVE Users'
<1> USE Facts DEF Users, UserAtStage, Becomes
<1>1. ASSUME NEW c \in Conns, Reader(c) PROVE Users'
  BY <1>1 DEF Reader, Authenticate, ReadFails, HandOver, writeVars
<1>2. ASSUME NEW c \in Conns, Writer(c) PROVE Users'
  BY <1>2 DEF Writer, AuthClosed, AuthTimeout, Write, WriteFails, Beat, CloseSeen, readVars
<1>3. ASSUME NEW c \in Conns, Exchange(c) PROVE Users'
  BY <1>3 DEF Exchange, Subscribe, Receive, Unsubscribe, readVars
<1>4. CASE UNCHANGED <<readVars, writeVars>>
  BY <1>4 DEF readVars, writeVars
<1>5. Loop \/ (\E c \in Conns : Client(c)) \/ UNCHANGED vars => UNCHANGED <<readVars, writeVars>>
  BY DEF Loop, Client, vars
<1> QED
  BY <1>1, <1>2, <1>3, <1>4, <1>5 DEF Next

LEMMA RangeStep == ASSUME IInv, [Next]_vars PROVE RangeOK'
<1> USE Facts DEF RangeOK
<1>1. CASE Accept
  BY <1>1, OfAssumption DEF Accept, mapVars
<1>2. CASE Pick \/ EndRange
  BY <1>2 DEF Pick, EndRange, mapVars
<1>3. ASSUME NEW c \in Conns, Subscribe(c) \/ Unsubscribe(c) PROVE RangeOK'
  <2>1. loop = "select" /\ loop' \in {"select", "dead"} /\ UNCHANGED toSend
    BY <1>3 DEF Subscribe, Unsubscribe, Add, Remove, rangeVars
  <2>2. loop' = "select"
    <3>1. Unsubscribe(c) => user[c] \in known
      BY DEF Unsubscribe, Registered, Subscribed, Users, UserAtStage
    <3> QED
      BY <1>3, <3>1 DEF Subscribe, Unsubscribe, Add, Remove
  <2> QED
    BY <2>1, <2>2
<1>4. ASSUME NEW c \in Conns, Receive(c) PROVE RangeOK'
  BY <1>4 DEF Receive, Sent, rangeVars, mapVars
<1>5. CASE UNCHANGED <<loop, current, toSend, target, channels>>
  BY <1>5
<1>6. Loop => \/ Accept \/ Pick \/ EndRange
              \/ UNCHANGED <<loop, current, toSend, target, channels>>
  BY DEF Loop, BusStep, Publish, HandleMessage, rangeVars, mapVars
<1>7. ASSUME NEW c \in Conns, Client(c) \/ Reader(c) \/ Writer(c)
      PROVE  UNCHANGED <<loop, current, toSend, target, channels>>
  BY <1>7 DEF Client, Reader, Writer, Authenticate, ReadFails, HandOver, AuthClosed, AuthTimeout,
       Write, WriteFails, Beat, CloseSeen, busVars, rangeVars, mapVars
<1>8. UNCHANGED vars => UNCHANGED <<loop, current, toSend, target, channels>>
  BY DEF vars, busVars, rangeVars, mapVars
<1> QED
  BY <1>1, <1>2, <1>3, <1>4, <1>5, <1>6, <1>7, <1>8 DEF Next, Exchange

(***************************************************************************)
(* The map of subscriptions, and with it the life of the loop              *)
(***************************************************************************)
LEMMA Known == ASSUME IInv, NEW c \in Conns, Unsubscribe(c) PROVE user[c] \in known
BY Facts DEF Unsubscribe, Registered, Subscribed, Users, UserAtStage

LEMMA AliveStep == ASSUME IInv, [Next]_vars PROVE LoopLives'
<1> USE Facts DEF LoopLives
<1>1. CASE Loop
  BY <1>1 DEF Loop, BusStep, Publish, HandleMessage, Accept, Pick, EndRange
<1>2. ASSUME NEW c \in Conns, Exchange(c) PROVE LoopLives'
  BY <1>2, Known DEF Exchange, Subscribe, Receive, Unsubscribe, Add, Sent, Remove
<1>3. ASSUME NEW c \in Conns, Client(c) \/ Reader(c) \/ Writer(c) PROVE LoopLives'
  BY <1>3 DEF Client, Reader, Writer, Authenticate, ReadFails, HandOver, AuthClosed, AuthTimeout,
       Write, WriteFails, Beat, CloseSeen, busVars
<1>4. CASE UNCHANGED vars
  BY <1>4 DEF vars, busVars
<1> QED
  BY <1>1, <1>2, <1>3, <1>4 DEF Next

LEMMA RegisteredStep == ASSUME IInv, [Next]_vars PROVE Registered'
<1> USE Facts DEF Registered, Subscribed, Becomes, mapVars
<1>1. ASSUME NEW c \in Conns, Subscribe(c) PROVE Registered'
  <2>1. /\ writer[c] = "subscribe" /\ user[c] \in Customers /\ UNCHANGED user
        /\ writer' = [writer EXCEPT ![c] = "write"]
        /\ channels' = [channels EXCEPT ![user[c]] = @ \cup {c}] /\ known' = known \cup {user[c]}
    BY <1>1 DEF Subscribe, Add, Users, UserAtStage
  <2>2. \A u \in Customers : channels'[u] = {d \in Conns : Subscribed(d)' /\ user'[d] = u}
    BY <2>1
  <2>3. known' = {u \in Customers : channels'[u] # {}}
    BY <2>1
  <2> QED
    BY <2>2, <2>3
<1>2. ASSUME NEW c \in Conns, Unsubscribe(c) PROVE Registered'
  <2>1. /\ writer[c] = "unsubscribe" /\ user[c] \in Customers /\ UNCHANGED user
        /\ writer' = [writer EXCEPT ![c] = "done"]
        /\ channels' = [channels EXCEPT ![user[c]] = @ \ {c}]
        /\ known' = IF channels[user[c]] \subseteq {c} THEN known \ {user[c]} ELSE known
    BY <1>2, Known DEF Unsubscribe, Remove, Users, UserAtStage
  <2>2. \A u \in Customers : channels'[u] = {d \in Conns : Subscribed(d)' /\ user'[d] = u}
    BY <2>1
  <2>3. known' = {u \in Customers : channels'[u] # {}}
    BY <2>1
  <2> QED
    BY <2>2, <2>3
<1>3. ASSUME UNCHANGED mapVars, \A d \in Conns : (Subscribed(d)' <=> Subscribed(d)) /\
               (Subscribed(d) => user'[d] = user[d])
      PROVE  Registered'
  BY <1>3
<1>4. ASSUME NEW c \in Conns, Client(c) \/ Reader(c) \/ Writer(c) \/ Receive(c)
      PROVE  /\ UNCHANGED mapVars
             /\ \A d \in Conns : (Subscribed(d)' <=> Subscribed(d)) /\
                  (Subscribed(d) => user'[d] = user[d])
  BY <1>4 DEF Client, Reader, Writer, Receive, Authenticate, ReadFails, HandOver, AuthClosed, Sent,
       AuthTimeout, Write, WriteFails, Beat, CloseSeen, busVars, readVars, writeVars
<1>5. Loop \/ UNCHANGED vars => UNCHANGED <<mapVars, writer, user>>
  BY DEF Loop, BusStep, Publish, HandleMessage, Accept, Pick, EndRange, vars, busVars, writeVars
<1> QED
  BY <1>1, <1>2, <1>3, <1>4, <1>5 DEF Next, Exchange

LEMMA Invariance == Spec => []IInv
<1>1. IInv /\ [Next]_vars => IInv'
  BY TypeStep, AliveStep, RegisteredStep, UsersStep, RangeStep, CountedStep DEF IInv
<1> QED
  BY <1>1, InitIInv, PTL DEF Spec

(***************************************************************************)
(* The promise of Delivery                                                 *)
(***************************************************************************)
Owner == [c \in Conns |-> IF writer[c] \in {"auth", "subscribe"} THEN Nobody ELSE user[c]]
Members == UNION {channels[u] : u \in Customers}

(* Steps that neither join, leave, hand over nor receive. *)
LEMMA Stutters ==
  ASSUME UNCHANGED <<handed, received, channels>>, Owner' = Owner
  PROVE  UNCHANGED Contract!vars
BY DEF Contract!vars, Owner

LEMMA WriterStutters ==
  ASSUME IInv, NEW c \in Conns, Client(c) \/ Reader(c) \/ Writer(c)
  PROVE  UNCHANGED Contract!vars
<1> USE Facts DEF Becomes
<1>1. UNCHANGED <<handed, received, channels>>
  BY DEF Client, Reader, Writer, Authenticate, ReadFails, HandOver, AuthClosed, AuthTimeout,
       Write, WriteFails, Beat, CloseSeen, busVars, topicVars, mapVars, writeVars
<1>2. ASSUME NEW d \in Conns
      PROVE  (IF writer'[d] \in {"auth", "subscribe"} THEN Nobody ELSE user'[d])
               = IF writer[d] \in {"auth", "subscribe"} THEN Nobody ELSE user[d]
  BY DEF Client, Reader, Writer, Authenticate, ReadFails, HandOver, AuthClosed, AuthTimeout,
       Write, WriteFails, Beat, CloseSeen, writeVars, Users, UserAtStage
<1>3. Owner' = Owner
  BY <1>2 DEF Owner
<1> QED
  BY <1>1, <1>3, Stutters

LEMMA SubscribeJoins ==
  ASSUME IInv, NEW c \in Conns, Subscribe(c)
  PROVE  \E u \in Customers : Contract!Join(c, u)
<1> USE Facts DEF Becomes
<1>0. PICK u \in Customers : u = user[c]
  BY DEF Subscribe, Users, UserAtStage
<1>1. /\ writer[c] = "subscribe" /\ writer' = [writer EXCEPT ![c] = "write"]
      /\ UNCHANGED <<user, handed, received>>
      /\ channels' = [channels EXCEPT ![u] = @ \cup {c}]
  BY <1>0 DEF Subscribe, Add, topicVars
<1>2. Owner[c] = Nobody /\ Owner' = [Owner EXCEPT ![c] = u]
  BY <1>0, <1>1 DEF Owner
<1>3. Members' = Members \cup {c}
  <2>1. \A d : d \in Members' <=> \E v \in Customers : d \in channels'[v]
    BY DEF Members
  <2>2. \A d : d \in Members <=> \E v \in Customers : d \in channels[v]
    BY DEF Members
  <2>3. \A d, v : v \in Customers => (d \in channels'[v] <=> d \in channels[v] \/ (v = u /\ d = c))
    BY <1>1
  <2> QED
    BY <1>1, <2>1, <2>2, <2>3
<1> QED
  BY <1>1, <1>2, <1>3 DEF Contract!Join, Owner, Members

LEMMA UnsubscribeLeaves ==
  ASSUME IInv, NEW c \in Conns, Unsubscribe(c)
  PROVE  Contract!Leave(c)
<1> USE Facts DEF Becomes
<1>1. /\ writer[c] = "unsubscribe" /\ writer' = [writer EXCEPT ![c] = "done"]
      /\ user[c] \in Customers /\ UNCHANGED <<user, handed, received>>
      /\ channels' = [channels EXCEPT ![user[c]] = @ \ {c}]
  BY Known DEF Unsubscribe, Remove, topicVars, Users, UserAtStage
<1>2. Owner' = Owner
  BY <1>1 DEF Owner
<1>3. Members' = Members \ {c}
  <2>1. \A d : d \in Members' <=> \E u \in Customers : d \in channels'[u]
    BY DEF Members
  <2>2. \A d : d \in Members <=> \E u \in Customers : d \in channels[u]
    BY DEF Members
  <2>3. \A u \in Customers : c \in channels[u] => u = user[c]
    BY DEF Registered
  <2>4. \A d, u : u \in Customers => (d \in channels'[u] <=> d \in channels[u] /\ d # c)
    BY <1>1, <2>3
  <2> QED
    BY <2>1, <2>2, <2>4
<1> QED
  BY <1>1, <1>2, <1>3 DEF Contract!Leave, Owner, Members

LEMMA ReceiveReceives ==
  ASSUME IInv, NEW c \in Conns, Receive(c)
  PROVE  current \in Messages /\ Contract!Receive(c, current)
<1> USE Facts DEF Becomes
<1>1. /\ target = c /\ loop = "send" /\ current \in Messages
      /\ c \in channels[Of[current]] /\ Of[current] \in Customers
      /\ received' = [received EXCEPT ![c][current] = @ + 1]
      /\ UNCHANGED <<handed, channels, user>>
      /\ writer[c] = "select" /\ writer' = [writer EXCEPT ![c] = "write"]
  BY OfAssumption DEF Receive, Sent, topicVars, mapVars, RangeOK
<1>2. received[c][current] < handed[current]
  BY <1>1, Room DEF InTheAir
<1>3. c \in Members /\ Owner[c] = Of[current] /\ Owner' = Owner
  <2>1. user[c] = Of[current]
    BY <1>1 DEF Registered
  <2> QED
    BY <1>1, <2>1 DEF Owner, Members
<1> QED
  BY <1>1, <1>2, <1>3 DEF Contract!Receive, Owner, Members

LEMMA HandleHands ==
  ASSUME IInv, HandleMessage, UNCHANGED writeVars
  PROVE  \E m \in Messages : Contract!Hand(m)
<1>1. PICK m \in published : handed' = [handed EXCEPT ![m] = @ + 1]
  BY DEF HandleMessage
<1>2. m \in Messages
  BY DEF IInv, TypeOK, BusTypes
<1>3. UNCHANGED <<received, channels, writer, user>>
  BY DEF HandleMessage, mapVars, writeVars
<1> QED
  BY <1>1, <1>2, <1>3 DEF Contract!Hand

LEMMA ContractStep == ASSUME IInv, [Next]_vars PROVE [Contract!Next]_Contract!vars
<1>1. CASE Loop
  <2>1. CASE HandleMessage
    BY <1>1, <2>1, HandleHands DEF Loop, Contract!Next
  <2>2. CASE Publish \/ Accept \/ Pick \/ EndRange
    <3>1. UNCHANGED <<handed, received, channels, writer, user>>
      BY <1>1, <2>2 DEF Loop, Publish, Accept, Pick, EndRange, topicVars, mapVars, writeVars
    <3> QED
      BY <3>1, Stutters DEF Owner
  <2> QED
    BY <1>1, <2>1, <2>2 DEF Loop, BusStep
<1>2. ASSUME NEW c \in Conns, Exchange(c) PROVE Contract!Next
  <2>1. CASE Subscribe(c)
    BY <2>1, SubscribeJoins DEF Contract!Next
  <2>2. CASE Receive(c)
    BY <2>2, ReceiveReceives DEF Contract!Next
  <2>3. CASE Unsubscribe(c)
    BY <2>3, UnsubscribeLeaves DEF Contract!Next
  <2> QED
    BY <1>2, <2>1, <2>2, <2>3 DEF Exchange
<1>3. ASSUME NEW c \in Conns, Client(c) \/ Reader(c) \/ Writer(c) PROVE UNCHANGED Contract!vars
  BY <1>3, WriterStutters
<1>4. CASE UNCHANGED vars
  BY <1>4, Stutters DEF vars, busVars, topicVars, mapVars, writeVars, Owner
<1> QED
  BY <1>1, <1>2, <1>3, <1>4 DEF Next

(***************************************************************************)
(* Theorems                                                                *)
(***************************************************************************)
(* For any connections, customers, messages and handlers: the state of the *)
(* bus and of the two goroutines of each connection keeps its types, and   *)
(* no connection receives a message more often than NSQ delivers it.       *)
THEOREM TypeCorrect == Spec => []TypeOK
<1>1. IInv => TypeOK
  BY DEF IInv
<1> QED
  BY <1>1, Invariance, PTL

(* For any connections that come, stall and go, in any order: b.channels   *)
(* holds the connections between Subscribe and the end of Unsubscribe,     *)
(* each under its own customer, and no key without a connection.           *)
THEOREM MapIsExact == Spec => []Registered
<1>1. IInv => Registered
  BY DEF IInv
<1> QED
  BY <1>1, Invariance, PTL

(* The return in the loop's unsubscribe case, which would stop the bus for *)
(* every customer, is never reached, however many connections end.         *)
THEOREM LoopNeverEnds == Spec => []LoopLives
<1>1. IInv => LoopLives
  BY DEF IInv
<1> QED
  BY <1>1, Invariance, PTL

(* When the loop waits in its send and is not blocked, the writer that it  *)
(* waits for is in its select, or in a write that returns to it.           *)
SendIsTaken ==
  loop = "send" /\ ~Blocked =>
    writer[target] = "select" \/ (writer[target] = "write" /\ ws[target] # "stalled")

(* For any number of connections, a send of the loop is taken unless its   *)
(* receiver is in Unsubscribe, or in a write that does not return: no      *)
(* connection that is gone, or not yet subscribed, holds the loop.         *)
THEOREM WhoHoldsTheLoop == Spec => []SendIsTaken
<1>1. IInv => SendIsTaken
  <2> SUFFICES ASSUME IInv, loop = "send", ~Blocked
               PROVE  writer[target] = "select" \/ (writer[target] = "write" /\ ws[target] # "stalled")
    BY DEF SendIsTaken
  <2> USE Facts
  <2>1. target \in channels[Of[current]] /\ Of[current] \in Customers
    BY OfAssumption DEF RangeOK
  <2>2. target \in Conns /\ Subscribed(target)
    BY <2>1 DEF Registered
  <2> QED
    BY <2>2 DEF Subscribed, Blocked
<1> QED
  BY <1>1, Invariance, PTL

(* The bus and the websockets on it implement Delivery: messages reach     *)
(* only connections of their customer, while these are subscribed, and     *)
(* none more often than NSQ handed it over, for any number of each.        *)
THEOREM Promise == Spec => ImplementsDelivery
<1>1. Init => Contract!Init
  BY DEF Init, BusInit, Contract!Init
<1> QED
  BY <1>1, ContractStep, Invariance, PTL DEF Spec, ImplementsDelivery, Contract!Spec
=============================================================================
