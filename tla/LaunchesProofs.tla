--------------------------- MODULE LaunchesProofs ---------------------------
(***************************************************************************)
(* What holds of any number of launches of one customer, in any number of  *)
(* processes that die at any moment: the rows, the reports and the         *)
(* registrations agree on the one stack, and the topic has a user.         *)
(***************************************************************************)
EXTENDS Launches, TLAPS

Cleaning == {"delete-topic", "mark-row"} \cup Ended

(* What is known of a launch by the stage it is at. *)
RowAtStage(l) ==
  /\ pc[l] = "unasked" => row[l] = "none"
  /\ pc[l] = "no-bastion" => row[l] \in {"none", "new"}
  /\ pc[l] \in {"topic", "subscribe", "stack", "launching"} => row[l] = "new"
  /\ pc[l] \in {"consume", "activate"} => row[l] = "launching"
  /\ pc[l] = "settle" => row[l] = "active"
  /\ pc[l] \in Cleaning /\ ~failed[l] => row[l] = "active"
  /\ row[l] = "failed" => pc[l] \in Ended
  /\ row[l] = "active" => pc[l] \in {"settle"} \cup Cleaning
OwnerAtStage(l) ==
  /\ pc[l] \in {"launching", "consume", "activate", "settle"} => Owns(l)
  /\ pc[l] = "activate" => stack.state = "complete"
Stages ==
  \A l \in Launches : RowAtStage(l) /\ OwnerAtStage(l)

(* The stack, and what it has told the queues. *)
StackKnown ==
  /\ stack.owner = NoLaunch <=> stack.state = "none"
  /\ \A l \in Launches : "complete" \in inbox[l] => stack.state = "complete"

(* A launch that may still be waiting for its stack and is not subscribed: *)
(* a failed launch has deleted the topic, or a successful one holds the    *)
(* stack that this one will be refused.                                    *)
DeletedBy(k) == failed[k] /\ pc[k] \in {"mark-row"} \cup Ended
Silenced ==
  \A l \in Launches : pc[l] \in {"stack", "launching", "consume"} /\ l \notin subscribers =>
    \/ \E k \in Launches \ {l} : DeletedBy(k)
    \/ pc[l] = "stack" /\ stack # Free

(* A launch that waits, and still has its subscription, has the message    *)
(* about the end of the stack in its queue from the moment of that end.    *)
Heard ==
  \A l \in Launches :
    pc[l] \in {"launching", "consume"} /\ l \in subscribers
        /\ stack.state \in {"complete", "rolled-back"} => inbox[l] # {}
SubscribersOfTopic == ~topic => subscribers = {}

IInv ==
  /\ TypeOK /\ Stages /\ StackKnown /\ Silenced /\ Heard /\ SubscribersOfTopic
  /\ RowsMatchStack /\ RegisteredWasActive /\ TopicHasUser

LEMMA InitIInv == Init => IInv
<1> SUFFICES ASSUME Init PROVE IInv
  OBVIOUS
<1> USE DEF Init, Free
<1>1. TypeOK
  BY DEF TypeOK, Places, StackStates, Goroutines
<1>2. Stages
  BY DEF Stages, RowAtStage, OwnerAtStage, Cleaning, Ended
<1>3. StackKnown /\ Silenced /\ Heard /\ SubscribersOfTopic
  BY DEF StackKnown, Silenced, Heard, SubscribersOfTopic
<1>4. RowsMatchStack /\ RegisteredWasActive /\ TopicHasUser
  BY DEF RowsMatchStack, RegisteredWasActive, TopicHasUser
<1> QED
  BY <1>1, <1>2, <1>3, <1>4 DEF IInv

(***************************************************************************)
(* Types                                                                   *)
(***************************************************************************)
LEMMA StageTypes ==
  ASSUME TypeOK, NEW l \in Launches, LaunchStack(l) \/ Stage(l) PROVE TypeOK'
<1> USE DEF TypeOK, Places, Goroutines, Goto, GoOn, Fail, SetRow, MayHaveSetRow, topicVars
<1>1. CASE LaunchStack(l)
  BY <1>1 DEF LaunchStack
<1>2. CASE CreateTopic(l)
  BY <1>2 DEF CreateTopic
<1>3. CASE Subscribe(l)
  BY <1>3 DEF Subscribe
<1>4. CASE CreateStack(l)
  <2>1. stack' \in {stack, [owner |-> l, state |-> "creating"]}
    BY <1>4 DEF CreateStack
  <2>2. stack' \in [owner : Launches \cup {NoLaunch}, state : StackStates]
    BY <2>1 DEF StackStates
  <2>3. pc' \in [Launches -> Places] /\ failed' \in [Launches -> BOOLEAN]
    BY <1>4 DEF CreateStack
  <2> QED
    BY <1>4, <2>2, <2>3 DEF CreateStack
<1>5. CASE BastionLaunchingState(l)
  BY <1>5 DEF BastionLaunchingState
<1>6. CASE ConsumeSQS(l)
  <2>1. inbox' = inbox \/ \E m \in inbox[l] : inbox' = [inbox EXCEPT ![l] = @ \ {m}]
    BY <1>6 DEF ConsumeSQS
  <2>2. inbox' \in [Launches -> SUBSET {"complete", "rollback"}]
    BY <2>1
  <2>3. pc' \in [Launches -> Places] /\ failed' \in [Launches -> BOOLEAN]
    BY <1>6 DEF ConsumeSQS
  <2> QED
    BY <1>6, <2>2, <2>3 DEF ConsumeSQS
<1>7. CASE BastionActiveState(l)
  <2>1. late' \in [Launches -> SUBSET (Goroutines \cup {"cleanup"})]
    BY <1>7 DEF BastionActiveState
  <2>2. pc' \in [Launches -> Places] /\ failed' \in [Launches -> BOOLEAN]
    BY <1>7 DEF BastionActiveState
  <2>3. row' \in [Launches -> {"none", "new", "launching", "active", "failed"}]
    BY <1>7 DEF BastionActiveState
  <2> QED
    BY <1>7, <2>1, <2>2, <2>3 DEF BastionActiveState
<1>8. ASSUME NEW g \in Goroutines, Completes(l, g) \/ GivesUp(l, g)
      PROVE  /\ late' \in [Launches -> SUBSET (Goroutines \cup {"cleanup"})]
             /\ pc' \in [Launches -> Places] /\ failed' \in [Launches -> BOOLEAN]
  <2>1. CASE Completes(l, g)
    BY <2>1 DEF Completes
  <2>2. CASE GivesUp(l, g)
    BY <2>2 DEF GivesUp
  <2> QED
    BY <1>8, <2>1, <2>2
<1>9. CASE DiscoveryEnds(l) \/ ConnectEnds(l)
  BY <1>8, <1>9 DEF DiscoveryEnds, ConnectEnds
<1> QED
  BY <1>1, <1>2, <1>3, <1>4, <1>5, <1>6, <1>7, <1>8, <1>9 DEF Stage

LEMMA CleanupTypes ==
  ASSUME TypeOK, NEW l \in Launches, Cleanup(l) PROVE TypeOK'
<1> USE DEF TypeOK, Places, Goroutines, Goto, SetRow, MayHaveSetRow, topicVars
<1>1. CASE DeleteTopic(l)
  BY <1>1 DEF DeleteTopic, TopicDeleted, TopicGone
<1>2. CASE MarkFailed(l)
  BY <1>2 DEF MarkFailed
<1>3. CASE NotifyEmail(l)
  BY <1>3 DEF NotifyEmail
<1>4. CASE NotifySlack(l)
  BY <1>4 DEF NotifySlack
<1> QED
  BY <1>1, <1>2, <1>3, <1>4 DEF Cleanup

LEMMA TypeStep == ASSUME TypeOK, StackKnown, [Next]_vars PROVE TypeOK'
<1> USE DEF TypeOK
<1>1. ASSUME NEW p, Dies(p) PROVE TypeOK'
  BY <1>1 DEF Dies, launchVars, topicVars
<1>2. ASSUME NEW l \in Launches, NilBastion(l) \/ LateEvent(l) \/ Panics(l) PROVE TypeOK'
  <2>1. CASE NilBastion(l)
    BY <1>1, <2>1 DEF NilBastion
  <2>2. CASE LateEvent(l)
    <3>1. late' \in [Launches -> SUBSET (Goroutines \cup {"cleanup"})]
      BY <2>2 DEF LateEvent
    <3>2. topic' \in BOOLEAN /\ subscribers' \subseteq Launches /\ unsure' \subseteq Launches
      BY <2>2 DEF LateEvent, TopicDeleted, TopicGone, topicVars
    <3> QED
      BY <2>2, <3>1, <3>2 DEF LateEvent
  <2>3. CASE Panics(l)
    BY <2>3 DEF Panics, MayHaveSetRow, launchVars, topicVars
  <2> QED
    BY <1>2, <2>1, <2>2, <2>3
<1>3. CASE StackEnds
  BY <1>3 DEF StackEnds, Becomes, Post, StackStates, launchVars, topicVars
<1>4. CASE Register \/ Expire
  <2>1. Register => stack.owner \in Launches
    BY DEF Register, StackKnown
  <2> QED
    BY <1>4, <2>1 DEF Register, Expire, launchVars, topicVars
<1>5. CASE UNCHANGED vars
  BY <1>5 DEF vars, launchVars, topicVars
<1> QED
  BY <1>1, <1>2, <1>3, <1>4, <1>5, StageTypes, CleanupTypes DEF Next, Crash

(***************************************************************************)
(* The stages: each step is one launch's, and leaves the others where they *)
(* are; the stack, once somebody's, stays his.                             *)
(***************************************************************************)
LEMMA Facts == ASSUME IInv
  PROVE /\ pc \in [Launches -> Places] /\ failed \in [Launches -> BOOLEAN]
        /\ row \in [Launches -> {"none", "new", "launching", "active", "failed"}]
        /\ stack \in [owner : Launches \cup {NoLaunch}, state : StackStates]
        /\ inbox \in [Launches -> SUBSET {"complete", "rollback"}]
        /\ Stages /\ StackKnown /\ Silenced /\ Heard /\ SubscribersOfTopic
        /\ RowsMatchStack /\ RegisteredWasActive /\ TopicHasUser
BY DEF IInv, TypeOK

LEMMA StagesStep == ASSUME IInv, [Next]_vars PROVE Stages'
<1> USE Facts DEF Stages, Goto, GoOn, Fail, SetRow, MayHaveSetRow, At
<1>1. ASSUME NEW l \in Launches, LaunchStack(l) PROVE Stages'
  BY <1>1 DEF LaunchStack, RowAtStage, OwnerAtStage, Owns, Cleaning, Ended
<1>2. ASSUME NEW l \in Launches, CreateTopic(l) \/ Subscribe(l) PROVE Stages'
  <2>1. /\ pc[l] \in {"topic", "subscribe"} /\ UNCHANGED <<row, stack>>
        /\ \/ pc' = [pc EXCEPT ![l] = "subscribe"] /\ UNCHANGED failed
           \/ pc' = [pc EXCEPT ![l] = "stack"] /\ UNCHANGED failed
           \/ pc' = [pc EXCEPT ![l] = "delete-topic"] /\ failed' = [failed EXCEPT ![l] = TRUE]
    BY <1>2 DEF CreateTopic, Subscribe
  <2> QED
    BY <2>1 DEF RowAtStage, OwnerAtStage, Owns, Cleaning, Ended
<1>3. ASSUME NEW l \in Launches, CreateStack(l) PROVE Stages'
  <2>1. /\ pc[l] = "stack" /\ UNCHANGED row
        /\ \/ /\ stack = Free /\ stack' = [owner |-> l, state |-> "creating"]
              /\ \/ pc' = [pc EXCEPT ![l] = "launching"] /\ UNCHANGED failed
                 \/ pc' = [pc EXCEPT ![l] = "delete-topic"] /\ failed' = [failed EXCEPT ![l] = TRUE]
           \/ /\ UNCHANGED stack
              /\ pc' = [pc EXCEPT ![l] = "delete-topic"] /\ failed' = [failed EXCEPT ![l] = TRUE]
    BY <1>3 DEF CreateStack
  <2>2. ASSUME NEW k \in Launches PROVE RowAtStage(k)'
    BY <2>1 DEF RowAtStage, Cleaning, Ended
  <2>3. ASSUME NEW k \in Launches PROVE OwnerAtStage(k)'
    <3>1. stack = Free => ~Owns(k)
      BY HostAssumption DEF Free, Owns
    <3> QED
      BY <2>1, <3>1 DEF OwnerAtStage, Owns
  <2> QED
    BY <2>2, <2>3
<1>4. ASSUME NEW l \in Launches, BastionLaunchingState(l) PROVE Stages'
  BY <1>4 DEF BastionLaunchingState, RowAtStage, OwnerAtStage, Owns, Cleaning, Ended
<1>5. ASSUME NEW l \in Launches, ConsumeSQS(l) PROVE Stages'
  BY <1>5 DEF ConsumeSQS, RowAtStage, OwnerAtStage, Owns, Cleaning, Ended, StackKnown
<1>6. ASSUME NEW l \in Launches, BastionActiveState(l) PROVE Stages'
  BY <1>6 DEF BastionActiveState, RowAtStage, OwnerAtStage, Owns, Cleaning, Ended
<1>7. ASSUME NEW l \in Launches, DiscoveryEnds(l) \/ ConnectEnds(l) PROVE Stages'
  BY <1>7 DEF DiscoveryEnds, ConnectEnds, Completes, GivesUp,
              RowAtStage, OwnerAtStage, Owns, Cleaning, Ended
<1>8. ASSUME NEW l \in Launches, Cleanup(l) PROVE Stages'
  BY <1>8 DEF Cleanup, DeleteTopic, MarkFailed, NotifyEmail, NotifySlack,
              RowAtStage, OwnerAtStage, Owns, Cleaning, Ended
<1>9. CASE StackEnds
  BY <1>9 DEF StackEnds, Becomes, RowAtStage, OwnerAtStage, Owns, launchVars
<1>10. CASE UNCHANGED <<pc, failed, row, stack>>
  BY <1>10 DEF RowAtStage, OwnerAtStage, Owns
<1>11. (\E l \in Launches : NilBastion(l) \/ LateEvent(l)) \/ (\E p \in Processes : Crash(p))
         \/ Register \/ Expire \/ UNCHANGED vars => UNCHANGED <<pc, failed, row, stack>>
  BY DEF NilBastion, LateEvent, Panics, Crash, Dies, Register, Expire, vars, launchVars
<1>12. ASSUME NEW l \in Launches, Panics(l) PROVE Stages'
  BY <1>12 DEF Panics, Over, RowAtStage, OwnerAtStage, Owns, Cleaning, Ended, launchVars
<1> QED
  BY <1>1, <1>2, <1>3, <1>4, <1>5, <1>6, <1>7, <1>8, <1>9, <1>10, <1>11, <1>12 DEF Next, Stage

(***************************************************************************)
(* The stack                                                               *)
(***************************************************************************)
(* The two actions that change it. *)
LEMMA StackFrame ==
  ASSUME [Next]_vars
  PROVE  UNCHANGED stack \/ StackEnds \/ \E l \in Launches : CreateStack(l)
BY DEF Next, Stage, Cleanup, LaunchStack, CreateTopic, Subscribe, BastionLaunchingState, ConsumeSQS,
       BastionActiveState, DiscoveryEnds, ConnectEnds, DeleteTopic, MarkFailed, NotifyEmail,
       NotifySlack, NilBastion, LateEvent, Panics, Crash, Dies, Register, Expire, vars

(* A bastion's row is written where its stage says, and nowhere else. *)
LEMMA RowFrame ==
  ASSUME IInv, [Next]_vars, NEW l \in Launches, row'[l] # row[l]
  PROVE  \/ row'[l] = "new" /\ row[l] = "none"
         \/ row'[l] = "launching" /\ pc[l] = "launching" /\ UNCHANGED stack
         \/ row'[l] = "active" /\ pc[l] = "activate" /\ UNCHANGED stack
         \/ row'[l] = "failed" /\ pc[l] \in {"mark-row"} \cup Ended
<1> USE Facts DEF Goto, SetRow, MayHaveSetRow, At
<1>1. ASSUME NEW k \in Launches, LaunchStack(k)
      PROVE  k = l /\ row'[l] = "new" /\ row[l] = "none"
  BY <1>1 DEF LaunchStack, Stages, RowAtStage
<1>2. ASSUME NEW k \in Launches, BastionLaunchingState(k)
      PROVE  row'[l] = "launching" /\ pc[l] = "launching" /\ UNCHANGED stack
  BY <1>2 DEF BastionLaunchingState
<1>3. ASSUME NEW k \in Launches, BastionActiveState(k)
      PROVE  row'[l] = "active" /\ pc[l] = "activate" /\ UNCHANGED stack
  BY <1>3 DEF BastionActiveState
<1>4. ASSUME NEW k \in Launches, MarkFailed(k)
      PROVE  row'[l] = "failed" /\ pc[l] = "mark-row"
  BY <1>4 DEF MarkFailed
<1>5. ASSUME NEW k \in Launches, Panics(k)
      PROVE  row'[l] = "failed" /\ pc[l] \in Ended
  BY <1>5 DEF Panics, Over
<1>6. \E k \in Launches :
        \/ LaunchStack(k) \/ BastionLaunchingState(k) \/ BastionActiveState(k)
        \/ MarkFailed(k) \/ Panics(k)
  BY DEF Next, Stage, Cleanup, CreateTopic, Subscribe, CreateStack, ConsumeSQS, DiscoveryEnds,
         ConnectEnds, DeleteTopic, NotifyEmail, NotifySlack, NilBastion, LateEvent, Panics,
         Crash, Dies, StackEnds, Register, Expire, vars
<1> QED
  BY <1>1, <1>2, <1>3, <1>4, <1>5, <1>6

LEMMA OwnerStays ==
  ASSUME IInv, [Next]_vars, stack # Free
  PROVE  /\ stack'.owner = stack.owner
         /\ stack.state = "complete" => stack'.state = "complete"
<1>1. CASE StackEnds
  BY <1>1, Facts DEF StackEnds, Becomes
<1>2. ASSUME NEW l \in Launches, CreateStack(l) PROVE UNCHANGED stack
  BY <1>2 DEF CreateStack
<1> QED
  BY <1>1, <1>2, StackFrame

LEMMA Owned == ASSUME NEW l \in Launches, Owns(l) PROVE stack # Free
BY HostAssumption DEF Owns, Free

LEMMA RowsStep == ASSUME IInv, [Next]_vars PROVE RowsMatchStack'
<1> SUFFICES ASSUME NEW l \in Launches
             PROVE  /\ row'[l] \in {"launching", "active"} => stack'.owner = l
                    /\ row'[l] = "active" => stack'.state = "complete"
  BY DEF RowsMatchStack, Owns
<1>1. CASE row'[l] = row[l]
  BY <1>1, Facts, Owned, OwnerStays DEF RowsMatchStack, Owns
<1>2. CASE row'[l] # row[l]
  BY <1>2, Facts, RowFrame DEF Stages, OwnerAtStage, Owns
<1> QED
  BY <1>1, <1>2

LEMMA StackStep == ASSUME IInv, [Next]_vars PROVE StackKnown'
<1> USE Facts, HostAssumption DEF StackKnown
<1>1. CASE StackEnds
  BY <1>1 DEF StackEnds, Becomes, Post
<1>2. ASSUME NEW l \in Launches, CreateStack(l) PROVE StackKnown'
  BY <1>2 DEF CreateStack, Free
<1>3. CASE UNCHANGED stack /\ ~StackEnds
  <2>1. \A l \in Launches : inbox'[l] \subseteq inbox[l]
    <3>1. ASSUME NEW k \in Launches, ConsumeSQS(k), NEW l \in Launches
          PROVE  inbox'[l] \subseteq inbox[l]
      BY <3>1 DEF ConsumeSQS
    <3>2. UNCHANGED inbox \/ \E k \in Launches : ConsumeSQS(k)
      BY <1>3 DEF Next, Stage, Cleanup, LaunchStack, CreateTopic, Subscribe, CreateStack,
           BastionLaunchingState, BastionActiveState, DiscoveryEnds, ConnectEnds, DeleteTopic,
           MarkFailed, NotifyEmail, NotifySlack, NilBastion, LateEvent, Panics, Crash, Dies,
           Register, Expire, vars
    <3> QED
      BY <3>1, <3>2
  <2> QED
    BY <1>3, <2>1
<1> QED
  BY <1>1, <1>2, <1>3, StackFrame

(***************************************************************************)
(* Registrations and the topic                                             *)
(***************************************************************************)
LEMMA RegisteredStep == ASSUME IInv, [Next]_vars PROVE RegisteredWasActive'
<1>1. ASSUME NEW l \in registered', l \notin registered
      PROVE  l \in Launches /\ row'[l] = "active" /\ stack'.owner = l
  <2>1. Register
    BY <1>1 DEF Next, Stage, Cleanup, LaunchStack, CreateTopic, Subscribe, CreateStack, ConsumeSQS,
         BastionLaunchingState, BastionActiveState, DiscoveryEnds, ConnectEnds, DeleteTopic,
         MarkFailed, NotifyEmail, NotifySlack, NilBastion, LateEvent, Panics, Crash, Dies,
         StackEnds, Expire, vars
  <2> QED
    BY <1>1, <2>1, Facts DEF Register, Admitted, StackKnown
<1>2. ASSUME NEW l \in registered, l \in Launches
      PROVE  row'[l] \in {"active", "failed"} /\ stack'.owner = l
  <2>1. row[l] \in {"active", "failed"} /\ Owns(l)
    BY <1>2, Facts DEF RegisteredWasActive
  <2>2. stack'.owner = l
    BY <1>2, <2>1, Owned, OwnerStays DEF Owns
  <2>3. row'[l] # row[l] => row'[l] = "failed"
    BY <1>2, <2>1, Facts, RowFrame DEF Stages, RowAtStage, Cleaning, Ended
  <2> QED
    BY <2>1, <2>2, <2>3
<1>3. registered \subseteq Launches
  BY DEF IInv, TypeOK
<1> QED
  BY <1>1, <1>2, <1>3 DEF RegisteredWasActive, Owns

LEMMA TopicStep == ASSUME IInv, [Next]_vars PROVE TopicHasUser'
<1> USE Facts DEF TopicHasUser
<1>1. ASSUME NEW l \in Launches, CreateTopic(l) \/ DeleteTopic(l) \/ LateEvent(l)
      PROVE  TopicHasUser'
  BY <1>1 DEF CreateTopic, DeleteTopic, LateEvent, TopicDeleted, TopicGone, topicVars
<1>2. \/ UNCHANGED <<topic, holds, unsure>>
      \/ \E l \in Launches : CreateTopic(l) \/ DeleteTopic(l) \/ LateEvent(l)
  BY DEF Next, Stage, Cleanup, LaunchStack, Subscribe, CreateStack, ConsumeSQS,
         BastionLaunchingState, BastionActiveState, DiscoveryEnds, ConnectEnds,
         MarkFailed, NotifyEmail, NotifySlack, NilBastion, LateEvent, Panics, Crash, Dies,
         StackEnds, Register, Expire, vars, topicVars
<1> QED
  BY <1>1, <1>2

(***************************************************************************)
(* Subscriptions                                                           *)
(***************************************************************************)
(* A failed launch that has deleted the topic has done so for good. *)
LEMMA DeletedStays ==
  ASSUME IInv, [Next]_vars, NEW k \in Launches, DeletedBy(k) PROVE DeletedBy(k)'
<1> USE Facts DEF DeletedBy, Ended, Goto, GoOn, Fail, At
<1>1. ASSUME NEW l \in Launches, LaunchStack(l) \/ Stage(l) PROVE DeletedBy(k)'
  <2>1. pc' = [pc EXCEPT ![l] = pc'[l]] /\ failed' = [failed EXCEPT ![l] = failed'[l]] /\ pc[l] # pc[k]
    BY <1>1 DEF Stage, LaunchStack, CreateTopic, Subscribe, CreateStack, BastionLaunchingState,
         ConsumeSQS, BastionActiveState, DiscoveryEnds, ConnectEnds, Completes, GivesUp
  <2> QED
    BY <2>1
<1>2. ASSUME NEW l \in Launches, Cleanup(l) PROVE DeletedBy(k)'
  BY <1>2 DEF Cleanup, DeleteTopic, MarkFailed, NotifyEmail, NotifySlack
<1>3. CASE UNCHANGED <<pc, failed>>
  BY <1>3
<1>4. (\E l \in Launches : NilBastion(l) \/ LateEvent(l) \/ Panics(l))
         \/ (\E p \in Processes : Crash(p)) \/ StackEnds \/ Register \/ Expire
         \/ UNCHANGED vars => UNCHANGED <<pc, failed>>
  BY DEF NilBastion, LateEvent, Panics, Crash, Dies, StackEnds, Register, Expire, vars, launchVars
<1> QED
  BY <1>1, <1>2, <1>3, <1>4 DEF Next

(* Who comes to wait for the stack: one that has just subscribed, or one   *)
(* that has just been given the stack.                                     *)
LEMMA WaitFrame ==
  ASSUME IInv, [Next]_vars, NEW l \in Launches, pc'[l] \in {"stack", "launching", "consume"}
  PROVE  \/ pc'[l] = pc[l]
         \/ pc[l] = "subscribe" /\ pc'[l] = "stack" /\ l \in subscribers'
         \/ pc[l] = "stack" /\ stack = Free /\ UNCHANGED subscribers
         \/ pc[l] = "launching" /\ UNCHANGED subscribers
<1> USE Facts DEF Goto, GoOn, Fail, At, topicVars
<1>1. ASSUME NEW k \in Launches, LaunchStack(k) \/ Cleanup(k) PROVE pc'[l] = pc[l]
  BY <1>1 DEF LaunchStack, Cleanup, DeleteTopic, MarkFailed, NotifyEmail, NotifySlack
<1>2. ASSUME NEW k \in Launches, CreateTopic(k) \/ ConsumeSQS(k) \/ BastionActiveState(k)
      PROVE  pc'[l] = pc[l]
  BY <1>2 DEF CreateTopic, ConsumeSQS, BastionActiveState
<1>3. ASSUME NEW k \in Launches, DiscoveryEnds(k) \/ ConnectEnds(k) PROVE pc'[l] = pc[l]
  BY <1>3 DEF DiscoveryEnds, ConnectEnds, Completes, GivesUp
<1>4. ASSUME NEW k \in Launches, Subscribe(k)
      PROVE  pc'[l] = pc[l] \/ (pc[l] = "subscribe" /\ pc'[l] = "stack" /\ l \in subscribers')
  BY <1>4 DEF Subscribe
<1>5. ASSUME NEW k \in Launches, CreateStack(k)
      PROVE  pc'[l] = pc[l] \/ (pc[l] = "stack" /\ stack = Free /\ UNCHANGED subscribers)
  BY <1>5 DEF CreateStack
<1>6. ASSUME NEW k \in Launches, BastionLaunchingState(k)
      PROVE  pc'[l] = pc[l] \/ (pc[l] = "launching" /\ UNCHANGED subscribers)
  BY <1>6 DEF BastionLaunchingState
<1>7. (\E k \in Launches : NilBastion(k) \/ LateEvent(k) \/ Panics(k))
         \/ (\E p \in Processes : Crash(p)) \/ StackEnds \/ Register \/ Expire
         \/ UNCHANGED vars => UNCHANGED pc
  BY DEF NilBastion, LateEvent, Panics, Crash, Dies, StackEnds, Register, Expire, vars, launchVars
<1> QED
  BY <1>1, <1>2, <1>3, <1>4, <1>5, <1>6, <1>7 DEF Next, Stage

(* Whoever loses a subscription loses it to a deletion of the topic. *)
LEMMA Unsubscribed ==
  ASSUME IInv, [Next]_vars, NEW l \in subscribers, l \notin subscribers'
  PROVE  \E k \in Launches : (DeleteTopic(k) \/ LateEvent(k)) /\ UNCHANGED stack
<1>1. ASSUME NEW k \in Launches, Subscribe(k) PROVE FALSE
  BY <1>1 DEF Subscribe
<1> QED
  BY <1>1 DEF Next, Stage, Cleanup, LaunchStack, CreateTopic, CreateStack, ConsumeSQS,
       BastionLaunchingState, BastionActiveState, DiscoveryEnds, ConnectEnds, DeleteTopic,
       MarkFailed, NotifyEmail, NotifySlack, NilBastion, LateEvent, Panics, Crash, Dies,
       StackEnds, Register, Expire, vars, topicVars

(* A successful launch that deletes the topic has the stack, so that it    *)
(* silences none that waits for it.                                        *)
LEMMA SilencedStep == ASSUME IInv, [Next]_vars PROVE Silenced'
<1> SUFFICES ASSUME NEW l \in Launches, pc'[l] \in {"stack", "launching", "consume"},
                    l \notin subscribers'
             PROVE  \/ \E k \in Launches \ {l} : DeletedBy(k)'
                    \/ pc'[l] = "stack" /\ stack' # Free
  BY DEF Silenced
<1> USE Facts
<1>1. stack # Free => stack' # Free
  BY OwnerStays, HostAssumption DEF Free, StackKnown
<1>2. (\E k \in Launches \ {l} : DeletedBy(k)) => \E k \in Launches \ {l} : DeletedBy(k)'
  BY DeletedStays
<1>3. CASE l \in subscribers
  <2>1. PICK k \in Launches : (DeleteTopic(k) \/ LateEvent(k)) /\ UNCHANGED stack
    BY <1>3, Unsubscribed
  <2>2. CASE LateEvent(k)
    BY <2>2 DEF LateEvent, Over, Ended, DeletedBy
  <2> SUFFICES ASSUME DeleteTopic(k)
               PROVE  \/ \E j \in Launches \ {l} : DeletedBy(j)'
                      \/ pc'[l] = "stack" /\ stack' # Free
    BY <2>1, <2>2
  <2>3. /\ pc[k] = "delete-topic" /\ pc'[k] = "mark-row" /\ UNCHANGED failed
        /\ k # l /\ pc'[l] = pc[l]
    BY DEF DeleteTopic, At, Goto
  <2>4. CASE failed[k]
    BY <2>3, <2>4 DEF DeletedBy
  <2>5. CASE ~failed[k]
    <3>1. Owns(k)
      BY <2>3, <2>5 DEF Stages, RowAtStage, Cleaning, RowsMatchStack
    <3>2. ~Owns(l)
      BY <2>3, <3>1 DEF Owns
    <3>3. pc[l] = "stack"
      BY <2>3, <3>2 DEF Stages, OwnerAtStage
    <3> QED
      BY <1>1, <2>3, <3>1, <3>3, Owned
  <2> QED
    BY <2>4, <2>5
<1>4. CASE l \notin subscribers
  <2>1. pc[l] \in {"stack", "launching", "consume"}
    BY <1>4, WaitFrame
  <2>2. \/ \E k \in Launches \ {l} : DeletedBy(k)
        \/ pc[l] = "stack" /\ stack # Free
    BY <1>4, <2>1 DEF Silenced
  <2>3. CASE pc[l] = "stack" /\ stack # Free
    <3>1. pc'[l] = "stack"
      BY <2>3, WaitFrame
    <3> QED
      BY <1>1, <2>3, <3>1
  <2> QED
    BY <1>2, <2>2, <2>3
<1> QED
  BY <1>3, <1>4

(***************************************************************************)
(* Messages                                                                *)
(***************************************************************************)
(* One at a time: subscriptions come one by one, and go with the topic.    *)
LEMMA SubscriptionFrame ==
  ASSUME IInv, [Next]_vars
  PROVE  \/ UNCHANGED topicVars
         \/ topic' = TRUE /\ UNCHANGED subscribers
         \/ topic' = FALSE /\ subscribers' = {}
         \/ UNCHANGED topic /\ topic /\ \E l \in Launches : Subscribe(l)
<1>1. ASSUME NEW l \in Launches, CreateTopic(l)
      PROVE  UNCHANGED topicVars \/ (topic' = TRUE /\ UNCHANGED subscribers)
  BY <1>1 DEF CreateTopic, topicVars
<1>2. ASSUME NEW l \in Launches, Subscribe(l) PROVE UNCHANGED topicVars \/ (UNCHANGED topic /\ topic)
  BY <1>2 DEF Subscribe, topicVars
<1>3. ASSUME NEW l \in Launches, DeleteTopic(l) \/ LateEvent(l)
      PROVE  UNCHANGED topicVars \/ (topic' = FALSE /\ subscribers' = {})
  BY <1>3 DEF DeleteTopic, LateEvent, TopicDeleted, TopicGone, topicVars
<1>4. \/ UNCHANGED topicVars
      \/ \E l \in Launches : CreateTopic(l) \/ Subscribe(l) \/ DeleteTopic(l) \/ LateEvent(l)
  BY DEF Next, Stage, Cleanup, LaunchStack, CreateStack, ConsumeSQS, BastionLaunchingState,
         BastionActiveState, DiscoveryEnds, ConnectEnds, MarkFailed, NotifyEmail, NotifySlack,
         NilBastion, LateEvent, Panics, Crash, Dies, StackEnds, Register, Expire, vars
<1> QED
  BY <1>1, <1>2, <1>3, <1>4

LEMMA SubscribersStep == ASSUME IInv, [Next]_vars PROVE SubscribersOfTopic'
BY Facts, SubscriptionFrame DEF SubscribersOfTopic, topicVars

(* A queue is emptied by the launch it belongs to, which waits no more.    *)
LEMMA InboxFrame ==
  ASSUME IInv, [Next]_vars, ~StackEnds, NEW l \in Launches,
         pc'[l] \in {"launching", "consume"}
  PROVE  inbox'[l] = inbox[l]
<1> USE Facts DEF Goto, GoOn, Fail, At
<1>1. ASSUME NEW k \in Launches, ConsumeSQS(k) PROVE inbox'[l] = inbox[l]
  <2>1. pc'[k] \in {"activate", "delete-topic"}
    BY <1>1 DEF ConsumeSQS
  <2> QED
    BY <1>1, <2>1 DEF ConsumeSQS
<1>2. UNCHANGED inbox \/ \E k \in Launches : ConsumeSQS(k)
  BY DEF Next, Stage, Cleanup, LaunchStack, CreateTopic, Subscribe, CreateStack,
         BastionLaunchingState, BastionActiveState, DiscoveryEnds, ConnectEnds, DeleteTopic,
         MarkFailed, NotifyEmail, NotifySlack, NilBastion, LateEvent, Panics, Crash, Dies,
         Register, Expire, vars
<1> QED
  BY <1>1, <1>2

LEMMA HeardStep == ASSUME IInv, [Next]_vars PROVE Heard'
<1> SUFFICES ASSUME NEW l \in Launches, pc'[l] \in {"launching", "consume"}, l \in subscribers',
                    stack'.state \in {"complete", "rolled-back"}
             PROVE  inbox'[l] # {}
  BY DEF Heard
<1> USE Facts
<1>1. CASE StackEnds
  <2>1. l \in subscribers /\ topic
    BY <1>1 DEF StackEnds, topicVars, SubscribersOfTopic
  <2> QED
    BY <1>1, <2>1 DEF StackEnds, Becomes, Post
<1>2. ASSUME ~StackEnds, NEW k \in Launches, CreateStack(k), stack = Free PROVE FALSE
  BY <1>2 DEF CreateStack, Free
<1>3. CASE ~StackEnds
  <2>1. UNCHANGED stack
    BY <1>2, <1>3, StackFrame DEF CreateStack
  <2>2. pc[l] \in {"launching", "consume"}
    BY <2>1, WaitFrame DEF Free
  <2>3. l \in subscribers
    <3>1. ASSUME NEW k \in Launches, Subscribe(k) PROVE l \in subscribers
      BY <2>2, <3>1 DEF Subscribe, At
    <3> QED
      BY <3>1, SubscriptionFrame DEF topicVars
  <2> QED
    BY <1>3, <2>1, <2>2, <2>3, InboxFrame DEF Heard
<1> QED
  BY <1>1, <1>3

(***************************************************************************)
(* Theorems                                                                *)
(***************************************************************************)
LEMMA Invariance == Spec => []IInv
<1>1. IInv /\ [Next]_vars => IInv'
  <2> SUFFICES ASSUME IInv, [Next]_vars PROVE IInv'
    OBVIOUS
  <2>1. TypeOK'
    BY TypeStep DEF IInv
  <2> QED
    BY <2>1, StagesStep, StackStep, SilencedStep, HeardStep, SubscribersStep, RowsStep,
       RegisteredStep, TopicStep DEF IInv
<1> QED
  BY <1>1, InitIInv, PTL DEF Spec

(* For any number of launches and processes, the state of the launches     *)
(* (bastion rows, topic, stack, queues, reports) keeps its types.          *)
THEOREM TypeCorrect == Spec => []TypeOK
<1>1. IInv => TypeOK
  BY DEF IInv
<1> QED
  BY <1>1, Invariance, PTL

(* For any number of launches and processes, and whoever dies: a row says  *)
(* launching or active only for the bastion that the customer's stack      *)
(* runs, and active only when the stack is up, because CreateStack refuses *)
(* a name that is taken and each launch reads a queue of its own.          *)
THEOREM Rows == Spec => []RowsMatchStack
<1>1. IInv => RowsMatchStack
  BY DEF IInv
<1> QED
  BY <1>1, Invariance, PTL

(* For any number of launches and processes, at most one is ever reported  *)
(* as a success by watchLaunch, and it is the one whose bastion runs.      *)
THEOREM OneReport == Spec => []OneSuccess
<1>1. IInv => OneSuccess
  <2> SUFFICES ASSUME IInv, NEW l \in Launches, Succeeded(l)
               PROVE  /\ Owns(l) /\ stack.state = "complete" /\ row[l] = "active"
                      /\ \A k \in Launches \ {l} : row[k] # "active" /\ ~Succeeded(k)
    BY DEF OneSuccess
  <2>1. \A k \in Launches : Succeeded(k) => row[k] = "active"
    BY Facts DEF Succeeded, Stages, RowAtStage, Cleaning
  <2>2. \A k \in Launches : row[k] = "active" => Owns(k) /\ stack.state = "complete"
    BY Facts DEF RowsMatchStack
  <2> QED
    BY <2>1, <2>2 DEF Owns
<1> QED
  BY <1>1, Invariance, PTL

(* For any number of launches and processes: one that waits in consumeSQS  *)
(* without a subscription has lost it to another that failed and whose     *)
(* cleanup deleted the topic of the customer; a success deafens nobody.    *)
THEOREM Deafness == Spec => []DeafenedByFailure
<1>1. IInv => DeafenedByFailure
  BY Facts DEF Silenced, DeafenedByFailure, Deaf, DeletedBy
<1> QED
  BY <1>1, Invariance, PTL

(* No message is missed: while consumeSQS has nothing to read, the stack   *)
(* is still being built, or the launch is stranded, by a stuck stack or by *)
(* another launch's cleanup.                                               *)
NothingMissed ==
  \A l \in Launches :
    pc[l] = "consume" => inbox[l] # {} \/ stack.state = "creating" \/ Stranded(l)

(* For any number of launches and processes that come and go between the   *)
(* subscription and the end of the stack, no message is missed, so that    *)
(* the fairness of ConsumeSQS and StackEnds is enough to get past it.      *)
THEOREM Waiting == Spec => []NothingMissed
<1>1. IInv => NothingMissed
  <2> SUFFICES ASSUME IInv, NEW l \in Launches, pc[l] = "consume", inbox[l] = {},
                      stack.state # "creating", ~Deaf(l)
               PROVE  stack.state = "stuck"
    BY DEF NothingMissed, Stranded
  <2>1. stack.owner = l /\ l \in subscribers
    BY Facts DEF Stages, OwnerAtStage, Owns, Deaf
  <2>2. stack.state \in StackStates \ {"none"}
    BY <2>1, Facts, HostAssumption DEF StackKnown
  <2> QED
    BY <2>1, <2>2, Facts DEF Heard, StackStates
<1> QED
  BY <1>1, Invariance, PTL

(* For any number of launches and processes, the topic exists only while a *)
(* launch holds it for its cleanup, unless a call about it was answered    *)
(* with an error.                                                          *)
THEOREM TopicUsed == Spec => []TopicHasUser
<1>1. IInv => TopicHasUser
  BY DEF IInv
<1> QED
  BY <1>1, Invariance, PTL

(* For any number of launches and processes, AuthenticateBastion lets only *)
(* bastions register whose row has been active, and which own the stack.   *)
THEOREM Registrations == Spec => []RegisteredWasActive
<1>1. IInv => RegisteredWasActive
  BY DEF IInv
<1> QED
  BY <1>1, Invariance, PTL
=============================================================================
