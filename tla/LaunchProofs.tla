---------------------------- MODULE LaunchProofs ----------------------------
(***************************************************************************)
(* An inductive invariant of Launch, and what follows from it for every    *)
(* account, number of attempts and kind of customer: the types, what a     *)
(* notified success means, and that a launch implements its contract.      *)
(***************************************************************************)
EXTENDS Launch, TLAPS, FiniteSetTheorems

(* A goroutine has emitted its last event. *)
Over(g) == pc[g] \in {"spawn", "done"}

(* Its event has not been applied yet. *)
Pending(g) == ev[g] # NoEvent /\ (mutex = g => step \in {"send", "apply"})

(* launch.state counts the goroutines that still owe their completion. *)
Bit(b) == IF b THEN 1 ELSE 0
Owes(g) == ~Over(g) \/ Pending(g)
Completes(g) == ~Over(g) \/ (Pending(g) /\ ev[g] = "complete")
StateCounts ==
  /\ state >= Bit(Completes("launch")) + Bit(Completes("discovery"))
                + Bit(Completes("connect"))
  /\ ~Failed => state = Bit(Owes("launch")) + Bit(Owes("discovery")) + Bit(Owes("connect"))

LabelsOK ==
  /\ pc["launch"] \in Stages \cup {"create", "spawn", "done"}
  /\ pc["discovery"] \in {"idle", "start", "scan", "done"}
  /\ pc["connect"] \in {"idle", "start", "poll", "done"}
  /\ pc["discovery"] # "idle" => pc["launch"] = "done"
  /\ pc["connect"] # "idle" => pc["launch"] = "done"

EventsOK == \A g \in Goroutines :
  /\ ev[g] = "complete" => Over(g)
  /\ ev[g] = "in-progress" => ~Over(g)
  /\ ev[g] # "failed-nil"

Cleanup == {"drain", "topic", "queue", "row", "close"}
LockOK ==
  /\ step = "idle" <=> mutex = Free
  /\ mutex # Free => ev[mutex] # NoEvent
  /\ step \in Cleanup => Failed \/ state = 0
  /\ step \in Cleanup /\ ev[mutex] = "failed" => Failed

ChannelOK ==
  /\ eventChan = "nil" => Failed \/ state = 0
  /\ eventChan = "nil" /\ ~Failed => step = "idle"
  /\ watcher = "done" <=> notified # "no"
  /\ notified # "no" => eventChan = "nil"
  /\ notified = "success" => ~Failed

(* The row and the object follow the stages until one of them fails. *)
Doomed == Failed \/ ev["launch"] = "failed"
RowAt(l) ==
  CASE l = "create" -> "none"
    [] l \in {"consumeSQS", "bastionActiveState"} -> "launching"
    [] l \in {"spawn", "done"} -> "active"
    [] OTHER -> "new"
RowOK ==
  /\ pc["launch"] = "create" => bastion = "nil"
  /\ ~Doomed => db = RowAt(pc["launch"])
  /\ bastion # "nil" => db # "none"

(* Nothing happens before the row is saved, or is not. *)
Untouched == pc["launch"] = "create" => ~Failed /\ \A g \in Goroutines : ev[g] = NoEvent

BeforeStack == {"getBastionConfig", "getLatestImageID", "createTopic", "createQueue",
                "getQueueAttributes", "setQueueAttributes", "subscribe"}
StackOK ==
  /\ Message("CREATE_COMPLETE", "stack") \in sqs => stack = "complete"
  /\ ~Doomed /\ pc["launch"] \in {"bastionActiveState", "spawn", "done"}
       => stack = "complete"
  /\ ~Doomed /\ pc["launch"] \in {"create", "createStack"} \cup BeforeStack
       => stack = "none"

DrainOK ==
  /\ Global => drained = {}
  /\ ~Failed /\ ~Global /\ (step \in Cleanup \ {"drain"} \/ eventChan = "nil")
       => drained = targets

(* Every error a discovery counts is kept in LastError. *)
ErrorsKept == instErr > 0 \/ grpErr > 0 => lastErr = "error"

IInv == /\ TypeOK /\ StateCounts /\ LabelsOK /\ EventsOK /\ LockOK
        /\ ChannelOK /\ RowOK /\ StackOK /\ DrainOK /\ ErrorsKept /\ Untouched

LEMMA InitIInv == Init => IInv
<1> SUFFICES ASSUME Init PROVE IInv
  OBVIOUS
<1>1. TypeOK
  <2>1. GoTypes
    BY DEF Init, GoTypes, Labels, Events, Goroutines, NoEvent
  <2>2. HandlerTypes
    BY DEF Init, HandlerTypes, Steps, Events, NoEvent
  <2>3. ResourceTypes
    BY DEF Init, ResourceTypes, Rows
  <2>4. DiscoveryTypes
    BY DEF Init, DiscoveryTypes
  <2>5. CountTypes
    BY BoundsAssumption DEF Init, CountTypes
  <2> QED
    BY <2>1, <2>2, <2>3, <2>4, <2>5 DEF TypeOK
<1>2. StateCounts
  BY DEF Init, StateCounts, Bit, Owes, Completes, Over, Pending, Goroutines, NoEvent
<1>3. LabelsOK /\ EventsOK
  BY DEF Init, LabelsOK, EventsOK, Goroutines, NoEvent
<1>4. LockOK /\ ChannelOK /\ RowOK /\ StackOK /\ DrainOK /\ ErrorsKept /\ Untouched
  BY DEF Init, LockOK, ChannelOK, RowOK, StackOK, DrainOK, ErrorsKept, Untouched, RowAt,
         Failed, Cleanup, Free, Goroutines, NoEvent
<1> QED
  BY <1>1, <1>2, <1>3, <1>4 DEF IInv

(***************************************************************************)
(* Goroutines that move to a label and, maybe, raise an event              *)
(***************************************************************************)
Moves(g, l, e) ==
  /\ Running(g) /\ ~Over(g)
  /\ pc' = [pc EXCEPT ![g] = l] /\ ev' = [ev EXCEPT ![g] = e]
  /\ UNCHANGED <<mutex, step, eventChan, watcher, notified, err, state>>
WellMoved(l, e) ==
  /\ e \in Events \ {"failed-nil"}
  /\ e = "complete" => l \in {"spawn", "done"}
  /\ e = "in-progress" => l \notin {"spawn", "done"}
  /\ l \in {"spawn", "done"} /\ ~Failed => e # "none"

(* Such a move keeps the count: a goroutine that ends owes its event. *)
LEMMA MoveKeepsCount ==
  ASSUME IInv, NEW g \in Goroutines, NEW l, NEW e, Moves(g, l, e), WellMoved(l, e)
  PROVE  StateCounts' /\ EventsOK' /\ LockOK' /\ ChannelOK'
<1>1. ev \in [Goroutines -> Events] /\ pc \in [Goroutines -> Labels] /\ state \in Nat
  BY DEF IInv, TypeOK, GoTypes, HandlerTypes
<1>2. ev[g] = NoEvent /\ mutex # g
  BY DEF IInv, Moves, Running, LockOK, Goroutines, Free
<1>3. \A h \in Goroutines : h # g => ev'[h] = ev[h] /\ pc'[h] = pc[h]
  BY <1>1 DEF Moves
<1>4. ev'[g] = e /\ pc'[g] = l
  BY <1>1 DEF Moves
<1>5. EventsOK'
  BY <1>3, <1>4 DEF IInv, EventsOK, Over, WellMoved
<1>6. err' = err /\ state' = state /\ mutex' = mutex /\ step' = step
  BY DEF Moves
<1>7. LockOK' /\ ChannelOK'
  BY <1>2, <1>3, <1>6 DEF IInv, Moves, LockOK, ChannelOK, Failed, TypeOK, HandlerTypes
<1>8. \A h \in Goroutines : h # g => (Owes(h)' <=> Owes(h)) /\ (Completes(h)' <=> Completes(h))
  BY <1>3, <1>6 DEF Owes, Completes, Over, Pending
<1>9. Owes(g) /\ Completes(g)
  BY DEF Owes, Completes, Moves
<1>10. ~Failed => Owes(g)'
  BY <1>2, <1>4, <1>6 DEF WellMoved, Owes, Over, Pending, NoEvent
<1>11. Failed' <=> Failed
  BY <1>6 DEF Failed
<1>12. StateCounts'
  BY <1>1, <1>6, <1>8, <1>9, <1>10, <1>11 DEF IInv, StateCounts, Bit, Goroutines
<1> QED
  BY <1>5, <1>7, <1>12

(***************************************************************************)
(* What each process leaves alone                                          *)
(***************************************************************************)
LEMMA LaunchFrame ==
  ASSUME LaunchStep
  PROVE  UNCHANGED <<process, lockVars, watchVars, err, state, eventChan, cleanVars,
                     discoVars, checkVars, attempts>>
BY DEF LaunchStep, CreateBastion, GetBastionConfig, GetLatestImageID, GetQueueAttributes,
       Fetch, CreateTopic, CreateQueue, SetQueueAttributes, Subscribe, Wire, CreateStack,
       BastionLaunchingState, Receive, ReceiveFails, BastionActiveState, Skip, Spawn,
       memVars

LEMMA DiscoveryFrame ==
  ASSUME Discovery
  PROVE  UNCHANGED <<process, lockVars, watchVars, memVars, outputs, cleanVars, db,
                     awsVars, checkVars, attempts>>
BY DEF Discovery, StartDiscovery, ScanFrame, DiscoverInstance, DiscoverTarget,
       InstanceError, GroupError, DiscoveryEnds

LEMMA ConnectFrame ==
  ASSUME Connect
  PROVE  UNCHANGED <<process, lockVars, watchVars, memVars, outputs, cleanVars, db,
                     awsVars, discoVars, checkVars>>
BY DEF Connect, StartConnect, Poll

LEMMA HandlerFrame ==
  ASSUME HandlerStep
  PROVE  UNCHANGED <<pc, outputs, wired, stack, sqs, discoVars, attempts>>
BY DEF HandlerStep, Send, Apply, DrainTarget, DrainEnds, DeleteTopic, DeleteQueue,
       MarkFailed, CloseChan, goVars, awsVars

LEMMA WatcherFrame ==
  ASSUME Watcher
  PROVE  UNCHANGED <<goVars, lockVars, watched, memVars, outputs, cleanVars, db, awsVars,
                     discoVars, checkVars, attempts>>
BY DEF Watcher, Publish, Notify

LEMMA LockFrame ==
  ASSUME \E g \in Goroutines : Lock(g)
  PROVE  UNCHANGED <<process, goVars, watchVars, memVars, outputs, cleanVars, db, awsVars,
                     discoVars, checkVars, attempts>>
BY DEF Lock

LEMMA CloudFrame ==
  ASSUME ResourceCreated \/ CloudFormation
  PROVE  UNCHANGED <<process, goVars, lockVars, watchVars, memVars, outputs, cleanVars, db,
                     existing, wired, discoVars, checkVars, attempts>>
BY DEF ResourceCreated, CloudFormation, StackComplete, ResourceFailed, RolledBack,
       RollbackFailed, StackStep

(* A stage left with an event, or without one, is a move. *)
LEMMA StageMoves ==
  ASSUME IInv, NEW s \in Stages, Enter(s),
         UNCHANGED <<mutex, step, eventChan, watcher, notified, err, state>>,
         \/ s # "bastionActiveState" /\ Proceed(s)
         \/ s # "bastionActiveState" /\ Leave(s) /\ UNCHANGED ev
         \/ s = "bastionActiveState" /\ Leave(s) /\ Event("launch", "complete")
         \/ Abort(s)
  PROVE  \E l, e : Moves("launch", l, e) /\ WellMoved(l, e)
<1> DEFINE Move(e) == Moves("launch", After(s), e) /\ WellMoved(After(s), e)
<1> USE DEF Enter, At, Leave, Goto, Running
<1>1. ev["launch"] = NoEvent /\ pc["launch"] = s /\ ~Failed /\ process = "up"
  OBVIOUS
<1>2. ev \in [Goroutines -> Events] /\ "launch" \in Goroutines
  BY DEF IInv, TypeOK, GoTypes, Goroutines
<1>3. ~Over("launch")
  BY <1>1 DEF Over, Stages
<1>4. After(s) \in {"spawn", "done"} <=> s = "bastionActiveState"
  BY DEF After, Stages
<1>5. CASE s # "bastionActiveState" /\ Proceed(s)
  <2>1. Move("in-progress")
    BY <1>1, <1>3, <1>4, <1>5 DEF Proceed, Event, Moves, WellMoved, Events
  <2> QED
    BY <2>1
<1>6. CASE s # "bastionActiveState" /\ Leave(s) /\ UNCHANGED ev
  <2>1. ev' = [ev EXCEPT !["launch"] = "none"]
    BY <1>1, <1>2, <1>6 DEF NoEvent
  <2>2. Move("none")
    BY <1>1, <1>3, <1>4, <1>6, <2>1 DEF Moves, WellMoved, Events
  <2> QED
    BY <2>2
<1>7. CASE s = "bastionActiveState" /\ Leave(s) /\ Event("launch", "complete")
  <2>1. Move("complete")
    BY <1>1, <1>3, <1>4, <1>7 DEF Event, Moves, WellMoved, Events
  <2> QED
    BY <2>1
<1>8. CASE Abort(s)
  <2>1. Move("failed")
    BY <1>1, <1>3, <1>4, <1>8 DEF Abort, Error, Moves, WellMoved, Events
  <2> QED
    BY <2>1
<1> QED
  BY <1>5, <1>6, <1>7, <1>8

LEMMA LaunchMoves ==
  ASSUME IInv, LaunchStep, ~Spawn
  PROVE  \E l, e : Moves("launch", l, e) /\ WellMoved(l, e)
<1> DEFINE Move(l, e) == Moves("launch", l, e) /\ WellMoved(l, e)
<1> USE DEF goVars, lockVars, watchVars, memVars
<1>1. CASE CreateBastion
  <2>1. Move("getBastionConfig", "in-progress") \/ Move("done", "failed")
    BY <1>1 DEF CreateBastion, At, Running, Goto, Event, Error, Moves, WellMoved, Over, Events
  <2> QED
    BY <2>1
<1>2. CASE GetBastionConfig \/ GetLatestImageID \/ GetQueueAttributes
  BY <1>2, StageMoves DEF GetBastionConfig, GetLatestImageID, GetQueueAttributes, Fetch, Stages
<1>3. CASE CreateTopic \/ CreateQueue \/ CreateStack
  BY <1>3, StageMoves DEF CreateTopic, CreateQueue, CreateStack, Stages
<1>4. CASE SetQueueAttributes \/ Subscribe
  BY <1>4, StageMoves DEF SetQueueAttributes, Subscribe, Wire, Stages
<1>5. CASE BastionLaunchingState \/ BastionActiveState
  BY <1>5, StageMoves DEF BastionLaunchingState, BastionActiveState, Stages
<1>6. CASE Receive
  <2>1. Enter("consumeSQS") /\ UNCHANGED <<mutex, step, eventChan, watcher, notified, err, state>>
    BY <1>6 DEF Receive
  <2>2. CASE Proceed("consumeSQS") \/ Abort("consumeSQS")
    BY <2>1, <2>2, StageMoves DEF Stages
  <2>3. CASE Event("launch", "in-progress") /\ UNCHANGED pc
    <3>1. pc' = [pc EXCEPT !["launch"] = "consumeSQS"]
      BY <2>1, <2>3 DEF IInv, TypeOK, GoTypes, Enter, At
    <3>2. Move("consumeSQS", "in-progress")
      BY <2>1, <2>3, <3>1 DEF Enter, At, Running, Event, Moves, WellMoved, Over, Events
    <3> QED
      BY <3>2
  <2>4. CASE UNCHANGED goVars
    <3>1. pc' = [pc EXCEPT !["launch"] = "consumeSQS"] /\ ev' = [ev EXCEPT !["launch"] = "none"]
      BY <2>1, <2>4 DEF IInv, TypeOK, GoTypes, Enter, At, Running, NoEvent
    <3>2. Move("consumeSQS", "none")
      BY <2>1, <3>1 DEF Enter, At, Running, Moves, WellMoved, Over, Events
    <3> QED
      BY <3>2
  <2> QED
    BY <1>6, <2>2, <2>3, <2>4 DEF Receive
<1>7. CASE ReceiveFails
  BY <1>7, StageMoves DEF ReceiveFails, Stages
<1>8. CASE Skip
  <2>1. PICK s \in Stages : At("launch", s) /\ Leave(s)
    BY <1>8 DEF Skip
  <2>2. ev' = [ev EXCEPT !["launch"] = "none"]
    BY <1>8, <2>1 DEF IInv, TypeOK, GoTypes, Skip, At, Running, NoEvent
  <2>3. Move(After(s), "none")
    BY <1>8, <2>1, <2>2 DEF Skip, At, Running, Leave, Goto, Moves, WellMoved, Over, Events, Stages
  <2> QED
    BY <2>3
<1> QED
  BY <1>1, <1>2, <1>3, <1>4, <1>5, <1>6, <1>7, <1>8 DEF LaunchStep

(* A discovery reports an error only when it has counted one. *)
LEMMA TooManyHasError == ASSUME IInv, TooManyErrors PROVE lastErr # "nil"
<1>1. instances \subseteq Instances /\ instErr \in 0..MaxErrors /\ grpErr \in 0..MaxErrors
  BY DEF IInv, TypeOK, DiscoveryTypes, CountTypes
<1>2. Cardinality(instances) \in Nat /\ Cardinality(targets \cap DBs) \in Nat
  BY <1>1, ResourcesAssumption, FS_Subset, FS_CardinalityType
<1>3. instErr \in Nat /\ grpErr \in Nat
  BY <1>1, BoundsAssumption
<1>4. instErr > 0 \/ grpErr > 0
  BY <1>2, <1>3 DEF TooManyErrors
<1> QED
  BY <1>4 DEF IInv, ErrorsKept

LEMMA DiscoveryMoves ==
  ASSUME IInv, StartDiscovery \/ DiscoveryEnds
  PROVE  \E l, e : Moves("discovery", l, e) /\ WellMoved(l, e)
<1> DEFINE Move(l, e) == Moves("discovery", l, e) /\ WellMoved(l, e)
<1> USE DEF goVars, lockVars, watchVars, memVars, At, Running, Goto, Event, Error,
            Moves, WellMoved, Over, Events
<1>1. CASE StartDiscovery
  <2>1. CASE Failed
    <3>1. ev' = [ev EXCEPT !["discovery"] = "none"]
      BY <1>1, <2>1 DEF IInv, TypeOK, GoTypes, StartDiscovery, NoEvent
    <3>2. Move("done", "none")
      BY <1>1, <2>1, <3>1 DEF StartDiscovery
    <3> QED
      BY <3>2
  <2>2. CASE ~Failed
    <3>1. Move("scan", "in-progress")
      BY <1>1, <2>2 DEF StartDiscovery
    <3> QED
      BY <3>1
  <2> QED
    BY <2>1, <2>2
<1>2. CASE DiscoveryEnds
  <2>1. Move("done", "failed") \/ Move("done", "complete")
    BY <1>2, TooManyHasError DEF DiscoveryEnds, Scanning
  <2> QED
    BY <2>1
<1> QED
  BY <1>1, <1>2

LEMMA ConnectMoves ==
  ASSUME IInv, Connect
  PROVE  \E l, e : Moves("connect", l, e) /\ WellMoved(l, e)
<1> DEFINE Move(l, e) == Moves("connect", l, e) /\ WellMoved(l, e)
<1> USE DEF goVars, lockVars, watchVars, memVars, At, Running, Goto, Event, Error,
            Moves, WellMoved, Over, Events
<1>1. CASE StartConnect
  <2>1. ev' = [ev EXCEPT !["connect"] = "none"]
    BY <1>1 DEF IInv, TypeOK, GoTypes, StartConnect, NoEvent
  <2>2. Move("done", "none") \/ Move("poll", "none")
    BY <1>1, <2>1 DEF StartConnect
  <2> QED
    BY <2>2
<1>2. CASE Poll
  <2>1. UNCHANGED pc => pc' = [pc EXCEPT !["connect"] = "poll"]
    BY <1>2 DEF IInv, TypeOK, GoTypes, Poll
  <2>2. Move("done", "failed") \/ Move("done", "complete") \/ Move("poll", "in-progress")
    BY <1>2, <2>1 DEF Poll
  <2> QED
    BY <2>2
<1> QED
  BY <1>1, <1>2 DEF Connect

(***************************************************************************)
(* The handler and the count                                               *)
(***************************************************************************)
(* The goroutine in the handler owes its completion until Apply. *)
LEMMA ApplyKeepsCount ==
  ASSUME IInv, Apply
  PROVE  /\ state' \in 0..3 /\ StateCounts' /\ EventsOK' /\ LockOK' /\ ChannelOK'
         /\ ~Failed => state >= 1
<1>0. PICK g : g = mutex
  OBVIOUS
<1>1. g \in Goroutines /\ ev[g] \in {"in-progress", "complete", "failed"} /\ step = "apply"
  BY <1>0 DEF IInv, TypeOK, GoTypes, HandlerTypes, LockOK, EventsOK, Apply, Handler, NoEvent, Events
<1>2. ev \in [Goroutines -> Events] /\ pc' = pc
  BY DEF IInv, TypeOK, GoTypes, Apply
<1>3. state \in 0..3 /\ err \in {"nil", "error"}
  BY DEF IInv, TypeOK, HandlerTypes
<1>4. Owes(g) /\ (ev[g] = "complete" => Completes(g) /\ Over(g))
  BY <1>0, <1>1 DEF IInv, EventsOK, Owes, Completes, Pending, NoEvent
<1>5. (ev[g] = "complete" => state >= 1) /\ (~Failed => state >= 1)
  BY <1>1, <1>3, <1>4 DEF IInv, StateCounts, Bit, Goroutines
<1>6. \/ mutex' = g /\ ev' = ev /\ step' = "drain" /\ (state' = 0 \/ err' # "nil")
      \/ mutex' = Free /\ ev' = [ev EXCEPT ![g] = NoEvent] /\ step' = "idle"
  BY <1>0 DEF Apply, Return
<1>7. state' \in 0..3 /\ eventChan' = eventChan /\ watcher' = watcher /\ notified' = notified
  BY <1>0, <1>3, <1>5 DEF Apply, watchVars
<1>8. ~Pending(g)' /\ Free \notin Goroutines
  BY <1>1, <1>2, <1>6 DEF Pending, Goroutines, Free
<1>9. \A h \in Goroutines : h # g => ev'[h] = ev[h] /\ (Pending(h)' <=> Pending(h))
  BY <1>0, <1>1, <1>2, <1>6, <1>8 DEF Pending
<1>10. \A h \in Goroutines : Over(h)' <=> Over(h)
  BY <1>2 DEF Over
<1>11. \A h \in Goroutines : h # g => (Owes(h)' <=> Owes(h)) /\ (Completes(h)' <=> Completes(h))
  BY <1>9, <1>10 DEF Owes, Completes
<1>12. (Owes(g)' <=> ~Over(g)) /\ (Completes(g)' <=> ~Over(g))
  BY <1>1, <1>8, <1>10 DEF Owes, Completes
<1>13. StateCounts'
  <2>1. CASE ev[g] = "complete"
    <3>1. state' = state - 1 /\ (Failed' <=> Failed)
      BY <1>0, <2>1 DEF Apply, Failed
    <3> QED
      BY <1>1, <1>3, <1>4, <1>11, <1>12, <2>1, <3>1 DEF IInv, StateCounts, Bit, Goroutines
  <2>2. CASE ev[g] = "in-progress"
    <3>1. state' = state /\ (Failed' <=> Failed) /\ ~Over(g)
      BY <1>0, <1>1, <2>2 DEF Apply, Failed, IInv, EventsOK
    <3>2. Completes(g)
      BY <3>1 DEF Completes
    <3> QED
      BY <1>1, <1>3, <1>4, <1>11, <1>12, <3>1, <3>2 DEF IInv, StateCounts, Bit, Goroutines
  <2>3. CASE ev[g] = "failed"
    <3>1. state' = state /\ Failed'
      BY <1>0, <2>3 DEF Apply, Failed
    <3>2. Completes(g) <=> ~Over(g)
      BY <2>3 DEF Completes
    <3> QED
      BY <1>1, <1>3, <1>11, <1>12, <3>1, <3>2 DEF IInv, StateCounts, Bit, Goroutines
  <2> QED
    BY <1>1, <2>1, <2>2, <2>3
<1>14. EventsOK'
  BY <1>1, <1>2, <1>6, <1>10 DEF IInv, EventsOK, NoEvent, Over
<1>15. LockOK'
  BY <1>0, <1>1, <1>6, <1>8 DEF Apply, LockOK, Cleanup, Failed, NoEvent
<1>16. ChannelOK'
  <2>1. Failed => Failed'
    BY DEF Apply, Failed
  <2>2. eventChan = "nil" => Failed
    BY <1>1 DEF IInv, ChannelOK
  <2>3. notified = "success" => FALSE
    BY <2>2 DEF IInv, ChannelOK
  <2> QED
    BY <1>7, <2>1, <2>2, <2>3 DEF IInv, ChannelOK
<1> QED
  BY <1>5, <1>7, <1>13, <1>14, <1>15, <1>16

(* The other steps of the handler change no goroutine's debt. *)
LEMMA HandlerKeepsCount ==
  ASSUME IInv, HandlerStep, ~Apply
  PROVE  StateCounts' /\ EventsOK' /\ LockOK' /\ ChannelOK'
<1> USE DEF goVars, lockVars, watchVars, memVars, cleanVars
<1>1. ev \in [Goroutines -> Events] /\ step # "idle" /\ process = "up"
  BY DEF IInv, TypeOK, GoTypes, HandlerStep, Handler, Send, DrainTarget, DrainEnds,
         DeleteTopic, DeleteQueue, MarkFailed, CloseChan, Apply
<1>2. mutex \in Goroutines /\ Free \notin Goroutines
  BY <1>1 DEF IInv, TypeOK, HandlerTypes, LockOK, Goroutines, Free
<1>3. pc' = pc /\ state' = state /\ err' = err
  BY DEF HandlerStep, Send, DrainTarget, DrainEnds, DeleteTopic, DeleteQueue,
         MarkFailed, CloseChan
<1>4. (Failed' <=> Failed) /\ \A h \in Goroutines : Over(h)' <=> Over(h)
  BY <1>3 DEF Failed, Over
<1>5. CASE Send
  <2>1. mutex' = mutex /\ ev' = ev /\ step = "send" /\ step' = "apply"
    BY <1>5 DEF Send, Handler
  <2>2. \A h \in Goroutines : Pending(h)' <=> Pending(h)
    BY <2>1 DEF Pending
  <2>3. StateCounts'
    BY <1>3, <1>4, <2>1, <2>2 DEF IInv, StateCounts, Bit, Owes, Completes, Goroutines
  <2>4. EventsOK' /\ LockOK'
    BY <1>4, <1>2, <2>1 DEF IInv, EventsOK, LockOK, Cleanup, Free
  <2>5. ChannelOK'
    BY <1>3, <1>4, <1>5, <2>1 DEF IInv, ChannelOK, Send
  <2> QED
    BY <2>3, <2>4, <2>5
<1>6. CASE DrainTarget \/ DrainEnds \/ DeleteTopic \/ DeleteQueue \/ MarkFailed
  <2>1. mutex' = mutex /\ ev' = ev /\ step \in Cleanup /\ step' \in Cleanup
    BY <1>6 DEF Handler, DrainTarget, DrainEnds, DeleteTopic, DeleteQueue, MarkFailed, Cleanup
  <2>2. \A h \in Goroutines : Pending(h)' <=> Pending(h)
    BY <2>1 DEF Pending, Cleanup
  <2>3. StateCounts'
    BY <1>3, <1>4, <2>1, <2>2 DEF IInv, StateCounts, Bit, Owes, Completes, Goroutines
  <2>4. EventsOK' /\ LockOK'
    BY <1>2, <1>3, <1>4, <2>1 DEF IInv, EventsOK, LockOK, Cleanup, Free
  <2>5. eventChan' = eventChan /\ watcher' = watcher /\ notified' = notified
    BY <1>6 DEF DrainTarget, DrainEnds, DeleteTopic, DeleteQueue, MarkFailed
  <2>6. ChannelOK'
    BY <1>3, <1>4, <2>1, <2>5 DEF IInv, ChannelOK, Cleanup
  <2> QED
    BY <2>3, <2>4, <2>6
<1>7. CASE CloseChan
  <2>1. step = "close" /\ (Failed \/ state = 0) /\ watcher' = watcher /\ notified' = notified
    BY <1>7 DEF CloseChan, Handler, IInv, LockOK, Cleanup
  <2>2. CASE eventChan = "open"
    <3>1. /\ eventChan' = "nil" /\ mutex' = Free /\ step' = "idle"
          /\ ev' = [ev EXCEPT ![mutex] = NoEvent]
      BY <1>7, <2>2 DEF CloseChan, Return
    <3>2. \A h \in Goroutines : Pending(h)' <=> Pending(h)
      BY <1>1, <1>2, <2>1, <3>1 DEF Pending
    <3>3. \A h \in Goroutines : ev'[h] = ev[h] \/ ev'[h] = NoEvent
      BY <1>1, <1>2, <3>1
    <3>4. \A h \in Goroutines : Completes(h)' <=> Completes(h)
      BY <1>1, <1>2, <1>4, <2>1, <3>1, <3>2 DEF Completes, Pending
    <3>5. StateCounts'
      BY <1>3, <1>4, <3>2, <3>4 DEF IInv, StateCounts, Bit, Owes, Goroutines
    <3>6. EventsOK' /\ LockOK'
      BY <1>4, <3>1, <3>3 DEF IInv, EventsOK, LockOK, Cleanup, NoEvent
    <3>7. ChannelOK'
      BY <1>3, <1>4, <2>1, <2>2, <3>1 DEF IInv, ChannelOK
    <3> QED
      BY <3>5, <3>6, <3>7
  <2>3. CASE eventChan # "open"
    <3>1. UNCHANGED <<eventChan, ev, mutex, step>>
      BY <1>7, <2>3 DEF CloseChan
    <3>2. StateCounts' /\ EventsOK' /\ LockOK'
      BY <1>3, <1>4, <3>1
      DEF IInv, StateCounts, EventsOK, LockOK, Bit, Owes, Completes, Pending, Goroutines
    <3>3. ChannelOK'
      BY <1>3, <1>4, <2>1, <3>1 DEF IInv, ChannelOK
    <3> QED
      BY <3>2, <3>3
  <2> QED
    BY <2>2, <2>3
<1> QED
  BY <1>5, <1>6, <1>7 DEF HandlerStep

(* Every step keeps the count and the order of the handler. *)
LEMMA CountStep ==
  ASSUME IInv, [Next]_vars
  PROVE  StateCounts' /\ EventsOK' /\ LockOK' /\ ChannelOK'
<1> DEFINE Kept == StateCounts' /\ EventsOK' /\ LockOK' /\ ChannelOK'
<1> USE DEF goVars, lockVars, watchVars, memVars
<1>1. CASE LaunchStep /\ ~Spawn
  BY <1>1, LaunchMoves, MoveKeepsCount DEF Goroutines
<1>2. CASE StartDiscovery \/ DiscoveryEnds
  BY <1>2, DiscoveryMoves, MoveKeepsCount DEF Goroutines
<1>3. CASE Connect
  BY <1>3, ConnectMoves, MoveKeepsCount DEF Goroutines
<1>4. CASE Apply
  BY <1>4, ApplyKeepsCount
<1>5. CASE HandlerStep /\ ~Apply
  BY <1>5, HandlerKeepsCount
<1>6. CASE Spawn
  <2>1. /\ pc["launch"] = "spawn" /\ ev' = ev /\ pc["discovery"] = "idle" /\ pc["connect"] = "idle"
        /\ pc' = [g \in Goroutines |-> IF g = "launch" THEN "done" ELSE "start"]
    BY <1>6 DEF Spawn, At, IInv, LabelsOK
  <2>2. UNCHANGED <<mutex, step, eventChan, watcher, notified, err, state>>
    BY <1>6 DEF Spawn
  <2>3. \A g \in Goroutines : (Over(g)' <=> Over(g)) /\ (Pending(g)' <=> Pending(g))
    BY <2>1, <2>2 DEF Over, Pending, Goroutines
  <2> QED
    BY <2>1, <2>2, <2>3
    DEF IInv, StateCounts, EventsOK, LockOK, ChannelOK, Bit, Owes, Completes, Goroutines, Failed
<1>7. CASE \E g \in Goroutines : Lock(g)
  <2>1. PICK g \in Goroutines : Lock(g)
    BY <1>7
  <2>2. /\ mutex = Free /\ ev[g] # NoEvent /\ mutex' = g /\ step' \in {"send", "apply"}
        /\ UNCHANGED <<pc, ev, eventChan, watcher, notified, err, state>>
        /\ step' = IF eventChan = "open" THEN "send" ELSE "apply"
    BY <2>1 DEF Lock
  <2>3. g # Free /\ Free \notin Goroutines
    BY DEF Goroutines, Free
  <2>4. \A h \in Goroutines : (Over(h)' <=> Over(h)) /\ (Pending(h)' <=> Pending(h))
    BY <2>2, <2>3 DEF Over, Pending
  <2>5. StateCounts' /\ EventsOK'
    BY <2>2, <2>4
    DEF IInv, StateCounts, EventsOK, Bit, Owes, Completes, Goroutines, Failed
  <2>6. LockOK'
    BY <2>2, <2>3 DEF LockOK, Cleanup
  <2>7. ~(eventChan = "nil" /\ ~Failed)
    <3>1. SUFFICES ASSUME eventChan = "nil", ~Failed PROVE FALSE
      OBVIOUS
    <3>2. state = 0 /\ Owes(g)
      BY <2>2, <2>3, <3>1 DEF IInv, ChannelOK, Owes, Pending
    <3> QED
      BY <3>1, <3>2 DEF IInv, StateCounts, Bit, Goroutines
  <2>8. ChannelOK'
    BY <2>2, <2>7 DEF IInv, ChannelOK, Failed
  <2> QED
    BY <2>5, <2>6, <2>8
<1>8. CASE Watcher
  <2>1. UNCHANGED <<pc, ev, mutex, step, eventChan, err, state>>
    BY <1>8 DEF Watcher, Publish, Notify
  <2>2. StateCounts' /\ EventsOK' /\ LockOK'
    BY <2>1 DEF IInv, StateCounts, EventsOK, LockOK, Bit, Owes, Completes, Pending, Over,
                Goroutines, Failed
  <2>3. ChannelOK'
    BY <1>8, <2>1 DEF IInv, ChannelOK, Failed, Watcher, Publish, Notify
  <2> QED
    BY <2>2, <2>3
<1>9. CASE UNCHANGED <<pc, ev, mutex, step, eventChan, watcher, notified, err, state>>
  BY <1>9 DEF IInv, StateCounts, EventsOK, LockOK, ChannelOK, Bit, Owes, Completes, Pending,
              Over, Goroutines, Failed
<1>10. ResourceCreated \/ CloudFormation \/ UNCHANGED vars
         => UNCHANGED <<pc, ev, mutex, step, eventChan, watcher, notified, err, state>>
  BY DEF ResourceCreated, CloudFormation, StackComplete, ResourceFailed, RolledBack,
         RollbackFailed, StackStep, vars
<1>11. DiscoverInstance \/ DiscoverTarget \/ InstanceError \/ GroupError
         => UNCHANGED <<pc, ev, mutex, step, eventChan, watcher, notified, err, state>>
  BY DEF DiscoverInstance, DiscoverTarget, InstanceError, GroupError, ScanFrame
<1> QED
  BY <1>1, <1>2, <1>3, <1>4, <1>5, <1>6, <1>7, <1>8, <1>9, <1>10, <1>11
  DEF Next, Discovery, LaunchStep

LEMMA HandlerTypesStep == ASSUME IInv, [Next]_vars PROVE HandlerTypes'
<1> USE DEF IInv, TypeOK, HandlerTypes, lockVars, watchVars, memVars, cleanVars
<1>1. CASE LaunchStep
  BY <1>1
  DEF LaunchStep, CreateBastion, GetBastionConfig, GetLatestImageID, GetQueueAttributes,
      Fetch, CreateTopic, CreateQueue, SetQueueAttributes, Subscribe, Wire, CreateStack,
      BastionLaunchingState, Receive, ReceiveFails, BastionActiveState, Skip, Spawn
<1>2. CASE Discovery
  BY <1>2 DEF Discovery, StartDiscovery, ScanFrame, DiscoverInstance, DiscoverTarget,
              InstanceError, GroupError, DiscoveryEnds
<1>3. CASE Connect
  BY <1>3 DEF Connect, StartConnect, Poll
<1>4. CASE HandlerStep
  <2>1. CASE Send
    BY <2>1 DEF Send, GoTypes, Handler, LockOK, Steps
  <2>2. CASE Apply
    BY <2>2, ApplyKeepsCount DEF Apply, Return, Steps
  <2>3. CASE DrainTarget
    BY <2>3 DEF DrainTarget
  <2>7. CASE DrainEnds
    BY <2>7 DEF DrainEnds, Steps
  <2>5. CASE DeleteTopic
    BY <2>5 DEF DeleteTopic, Outcome, Steps
  <2>6. CASE DeleteQueue
    BY <2>6 DEF DeleteQueue, Outcome, Steps
  <2>4. CASE MarkFailed
    BY <2>4 DEF MarkFailed, Outcome, Steps
  <2>8. CASE CloseChan
    BY <2>8 DEF CloseChan, Return, Steps
  <2> QED
    BY <1>4, <2>1, <2>2, <2>3, <2>4, <2>5, <2>6, <2>7, <2>8 DEF HandlerStep
<1>5. CASE Watcher
  BY <1>5 DEF Watcher, Publish, Notify
<1>6. CASE \E g \in Goroutines : Lock(g)
  BY <1>6 DEF Lock, Steps
<1>7. CASE ResourceCreated \/ CloudFormation \/ UNCHANGED vars
  BY <1>7 DEF ResourceCreated, CloudFormation, StackComplete, ResourceFailed, RolledBack,
              RollbackFailed, StackStep, vars
<1> QED
  BY <1>1, <1>2, <1>3, <1>4, <1>5, <1>6, <1>7 DEF Next

(***************************************************************************)
(* The row and the stack                                                   *)
(***************************************************************************)
(* What the launch goroutine does while no stage has failed. *)
LEMMA LaunchStepUndoomed ==
  ASSUME IInv, LaunchStep, ~Doomed'
  PROVE  ~Doomed /\ "launch" \in Goroutines /\ pc \in [Goroutines -> Labels]
         /\ ev \in [Goroutines -> Events]
<1>1. ev["launch"] = NoEvent /\ err' = err
  BY DEF LaunchStep, CreateBastion, GetBastionConfig, GetLatestImageID, GetQueueAttributes,
         Fetch, CreateTopic, CreateQueue, SetQueueAttributes, Subscribe, Wire, CreateStack,
         BastionLaunchingState, Receive, ReceiveFails, BastionActiveState, Skip, Spawn,
         Enter, At, Running, memVars
<1> QED
  BY <1>1 DEF Doomed, Failed, NoEvent, Goroutines, IInv, TypeOK, GoTypes

(* No other step touches the launch goroutine, but to end its event. *)
LEMMA OthersUndoomed ==
  ASSUME IInv, [Next]_vars, ~LaunchStep
  PROVE  /\ pc'["launch"] = pc["launch"]
         /\ ~Doomed' => ~Doomed
<1>1. /\ pc \in [Goroutines -> Labels] /\ ev \in [Goroutines -> Events]
      /\ "launch" \in Goroutines
  BY DEF IInv, TypeOK, GoTypes, Goroutines
<1> USE <1>1 DEF Doomed, Failed, goVars, memVars, lockVars
<1>2. CASE Discovery
  BY <1>2 DEF Discovery, StartDiscovery, ScanFrame, DiscoverInstance, DiscoverTarget,
              InstanceError, GroupError, DiscoveryEnds, Goto, Event, Error
<1>3. CASE Connect
  BY <1>3 DEF Connect, StartConnect, Poll, Goto, Event, Error
<1>4. CASE Apply
  BY <1>4 DEF Apply, Return, IInv, LockOK
<1>5. CASE CloseChan
  <2>1. step \in Cleanup /\ pc' = pc /\ err' = err
    BY <1>5 DEF CloseChan, Handler, Cleanup
  <2>2. ev' = ev \/ ev' = [ev EXCEPT ![mutex] = NoEvent]
    BY <1>5 DEF CloseChan, Return
  <2> QED
    BY <2>1, <2>2 DEF IInv, LockOK
<1>6. CASE HandlerStep /\ ~Apply /\ ~CloseChan
  BY <1>6 DEF HandlerStep, Send, DrainTarget, DrainEnds, DeleteTopic, DeleteQueue, MarkFailed
<1>7. CASE Watcher \/ \E g \in Goroutines : Lock(g)
  BY <1>7 DEF Watcher, Publish, Notify, Lock
<1>8. CASE ResourceCreated \/ CloudFormation \/ UNCHANGED vars
  BY <1>8 DEF ResourceCreated, CloudFormation, StackComplete, ResourceFailed, RolledBack,
              RollbackFailed, StackStep, vars
<1> QED
  BY <1>2, <1>3, <1>4, <1>5, <1>6, <1>7, <1>8 DEF Next, HandlerStep

LEMMA RowStep == ASSUME IInv, [Next]_vars PROVE RowOK'
<1>1. CASE LaunchStep
  <2> USE DEF RowOK, RowAt, Enter, Proceed, Abort, Leave, After, At, Running, Goto, Event,
              Error, Stages
  <2>0. pc["launch"] \in Stages \cup {"create", "spawn", "done"}
        /\ pc \in [Goroutines -> Labels] /\ "launch" \in Goroutines
        /\ ev \in [Goroutines -> Events] /\ RowOK
    BY DEF IInv, LabelsOK, TypeOK, GoTypes, Goroutines
  <2>1. CASE CreateBastion
    BY <2>0, <2>1 DEF CreateBastion, Doomed
  <2>2. CASE BastionLaunchingState
    BY <2>0, <2>2, LaunchStepUndoomed DEF BastionLaunchingState, LaunchStep, Doomed, NoEvent
  <2>3. CASE BastionActiveState
    BY <2>0, <2>3, LaunchStepUndoomed DEF BastionActiveState, LaunchStep, Doomed, NoEvent
  <2>4. CASE Skip \/ Spawn
    BY <2>0, <2>4, LaunchStepUndoomed DEF Skip, Spawn, LaunchStep, Doomed, Failed, memVars
  <2>5. CASE GetBastionConfig \/ GetLatestImageID \/ GetQueueAttributes
    BY <2>0, <2>5, LaunchStepUndoomed
    DEF GetBastionConfig, GetLatestImageID, GetQueueAttributes, Fetch, LaunchStep, Doomed, memVars
  <2>6. CASE CreateTopic \/ CreateQueue \/ CreateStack
    BY <2>0, <2>6, LaunchStepUndoomed
    DEF CreateTopic, CreateQueue, CreateStack, LaunchStep, Doomed, memVars
  <2>7. CASE SetQueueAttributes \/ Subscribe
    BY <2>0, <2>7, LaunchStepUndoomed
    DEF SetQueueAttributes, Subscribe, Wire, LaunchStep, Doomed, memVars
  <2>8. CASE Receive \/ ReceiveFails
    BY <2>0, <2>8, LaunchStepUndoomed
    DEF Receive, ReceiveFails, LaunchStep, Doomed, memVars, goVars
  <2> QED
    BY <1>1, <2>1, <2>2, <2>3, <2>4, <2>5, <2>6, <2>7, <2>8 DEF LaunchStep
<1>2. CASE MarkFailed
  <2>1. err' = err /\ ev' = ev /\ pc' = pc /\ RowOK
    BY <1>2 DEF MarkFailed, IInv, goVars
  <2>2. CASE db' = db /\ bastion' = bastion
    BY <2>1, <2>2 DEF RowOK, RowAt, Doomed, Failed
  <2>3. CASE Failed /\ bastion # "nil" /\ bastion' = "failed" /\ db' \in {db, "failed"}
    BY <2>1, <2>3 DEF RowOK, RowAt, Doomed, Failed
  <2> QED
    BY <1>2, <2>2, <2>3 DEF MarkFailed
<1>3. CASE ~LaunchStep /\ ~MarkFailed
  <2>1. db' = db /\ bastion' = bastion
    BY <1>3
    DEF Next, Discovery, StartDiscovery, ScanFrame, DiscoverInstance, DiscoverTarget,
        InstanceError, GroupError, DiscoveryEnds, Connect, StartConnect, Poll, HandlerStep,
        Send, Apply, DrainTarget, DrainEnds, DeleteTopic, DeleteQueue, CloseChan, Watcher,
        Publish, Notify, Lock, ResourceCreated, CloudFormation, StackComplete,
        ResourceFailed, RolledBack, RollbackFailed, StackStep, vars, memVars
  <2> QED
    BY <1>3, <2>1, OthersUndoomed DEF IInv, RowOK
<1> QED
  BY <1>1, <1>2, <1>3 DEF LaunchStep

(* The message that ends the wait is the stack's completion, and no other. *)
LEMMA CompletionMessage ==
  /\ \A m \in Messages : CfState(m) = "complete" <=> m = Message("CREATE_COMPLETE", "stack")
  /\ \A a, b : Message(a, "resource") # Message("CREATE_COMPLETE", "stack")
  /\ Message("ROLLBACK_COMPLETE", "stack") # Message("CREATE_COMPLETE", "stack")
  /\ Message("ROLLBACK_FAILED", "stack") # Message("CREATE_COMPLETE", "stack")
<1>1. \A a, b : Message(a, b).status = a /\ Message(a, b).about = b
  BY DEF Message
<1>2. \A m \in Messages : CfState(m) = "complete" => m = Message("CREATE_COMPLETE", "stack")
  BY <1>1 DEF Messages, CfState
<1>3. CfState(Message("CREATE_COMPLETE", "stack")) = "complete"
  BY <1>1 DEF CfState
<1> QED
  BY <1>1, <1>2, <1>3

(* A stack is complete when its completion is received, and stays so. *)
LEMMA StackKept == ASSUME IInv, [Next]_vars PROVE StackOK'
<1> DEFINE Completion == Message("CREATE_COMPLETE", "stack")
<1> HIDE DEF Completion
<1>0. /\ pc \in [Goroutines -> Labels] /\ ev \in [Goroutines -> Events]
      /\ "launch" \in Goroutines /\ sqs \subseteq Messages /\ StackOK
      /\ pc["launch"] \in Stages \cup {"create", "spawn", "done"}
  BY DEF IInv, TypeOK, GoTypes, ResourceTypes, LabelsOK, Goroutines
<1>1. CASE LaunchStep
  <2> USE DEF Enter, Proceed, Abort, Leave, After, At, Running, Goto, Event, Error, Stages,
              BeforeStack
  <2> DEFINE Same == stack' = stack /\ (Completion \in sqs' => Completion \in sqs)
  <2>1. CASE CreateStack
    <3>1. ~Doomed /\ pc["launch"] = "createStack"
      BY <2>1 DEF CreateStack, Doomed, NoEvent
    <3>2. stack = "none" /\ Completion \notin sqs /\ sqs' = sqs
      BY <1>0, <2>1, <3>1 DEF StackOK, CreateStack, Completion
    <3>3. pc'["launch"] = "bastionLaunchingState"
      BY <1>0, <2>1 DEF CreateStack
    <3> QED
      BY <3>2, <3>3 DEF StackOK, Completion
  <2>2. CASE Receive
    <3>1. Same /\ err' = err
      BY <2>2 DEF Receive, memVars
    <3>2. pc["launch"] = "consumeSQS" /\ ~Doomed
      BY <2>2 DEF Receive, Doomed, NoEvent
    <3>3. PICK m \in sqs : \/ CfState(m) = "rollback" /\ Abort("consumeSQS")
                           \/ CfState(m) = "complete" /\ Proceed("consumeSQS")
                           \/ UNCHANGED pc
      BY <2>2 DEF Receive, goVars
    <3>4. CASE CfState(m) = "complete"
      <4>1. stack = "complete"
        BY <1>0, <3>4, CompletionMessage DEF StackOK
      <4>2. pc'["launch"] \in {"bastionActiveState", "consumeSQS"}
        BY <1>0, <3>2, <3>3
      <4> QED
        BY <3>1, <4>1, <4>2 DEF StackOK
    <3>5. CASE CfState(m) # "complete"
      <4>1. Doomed' \/ pc'["launch"] = "consumeSQS"
        BY <1>0, <3>2, <3>3, <3>5 DEF Doomed
      <4> QED
        BY <1>0, <3>1, <4>1 DEF StackOK, Completion
    <3> QED
      BY <3>4, <3>5
  <2>3. CASE ReceiveFails
    <3>1. Same /\ Doomed'
      BY <1>0, <2>3 DEF ReceiveFails, Doomed
    <3> QED
      BY <1>0, <3>1 DEF StackOK, Completion
  <2>4. CASE CreateBastion \/ BastionLaunchingState
    <3>1. Same
      BY <2>4 DEF CreateBastion, BastionLaunchingState, awsVars
    <3>2. ~Doomed' => ~Doomed
      BY <1>1, LaunchStepUndoomed
    <3>3. \/ Doomed'
          \/ pc["launch"] = "create" /\ pc'["launch"] = "getBastionConfig"
          \/ pc["launch"] = "bastionLaunchingState" /\ pc'["launch"] = "consumeSQS"
      BY <1>0, <2>4 DEF CreateBastion, BastionLaunchingState, Doomed
    <3> QED
      BY <1>0, <3>1, <3>2, <3>3 DEF StackOK, Completion
  <2>5. CASE BastionActiveState \/ Skip \/ Spawn
    <3>1. Same
      BY <2>5 DEF BastionActiveState, Skip, Spawn, awsVars
    <3>2. ~Doomed' => ~Doomed
      BY <1>1, LaunchStepUndoomed
    <3>3. Doomed' \/ (pc["launch"] \in {"bastionActiveState", "spawn"}
                        /\ pc'["launch"] \in {"spawn", "done"})
      BY <1>0, <2>5 DEF BastionActiveState, Skip, Spawn, Doomed, Failed, memVars
    <3> QED
      BY <1>0, <3>1, <3>2, <3>3 DEF StackOK, Completion
  <2>6. CASE \/ GetBastionConfig \/ GetLatestImageID \/ GetQueueAttributes \/ CreateTopic
             \/ CreateQueue \/ SetQueueAttributes \/ Subscribe
    <3>1. Same
      BY <2>6 DEF GetBastionConfig, GetLatestImageID, GetQueueAttributes, Fetch, CreateTopic,
                  CreateQueue, SetQueueAttributes, Subscribe, Wire, awsVars
    <3>2. pc["launch"] \in BeforeStack /\ pc'["launch"] = After(pc["launch"])
      BY <1>0, <2>6 DEF GetBastionConfig, GetLatestImageID, GetQueueAttributes, Fetch,
                        CreateTopic, CreateQueue, SetQueueAttributes, Subscribe, Wire
    <3>3. pc'["launch"] \in {"createStack"} \cup BeforeStack
      BY <3>2
    <3>4. ~Doomed' => ~Doomed
      BY <1>1, LaunchStepUndoomed
    <3> QED
      BY <1>0, <3>1, <3>2, <3>3, <3>4 DEF StackOK, Completion
  <2> QED
    BY <1>1, <2>1, <2>2, <2>3, <2>4, <2>5, <2>6 DEF LaunchStep
<1>2. CASE ResourceCreated \/ CloudFormation
  <2>1. ~Doomed' => ~Doomed
    BY <1>2, OthersUndoomed DEF Next, ResourceCreated, CloudFormation, StackComplete,
       ResourceFailed, RolledBack, RollbackFailed, StackStep, memVars, goVars, Doomed, Failed
  <2>2. pc' = pc /\ stack \in {"creating", "rolling-back"}
    BY <1>2 DEF ResourceCreated, CloudFormation, StackComplete, ResourceFailed, RolledBack,
                RollbackFailed, StackStep, goVars
  <2>3. stack' = "complete" \/ Completion \notin sqs'
    BY <1>0, <2>2, <1>2, CompletionMessage
    DEF ResourceCreated, CloudFormation, StackComplete, ResourceFailed, RolledBack,
        RollbackFailed, StackStep, Post, StackOK, Completion
  <2> QED
    BY <1>0, <2>1, <2>2, <2>3 DEF StackOK, Completion, BeforeStack
<1>3. CASE ~LaunchStep /\ ~ResourceCreated /\ ~CloudFormation
  <2>1. stack' = stack /\ sqs' = sqs
    BY <1>3
    DEF Next, Discovery, StartDiscovery, ScanFrame, DiscoverInstance, DiscoverTarget,
        InstanceError, GroupError, DiscoveryEnds, Connect, StartConnect, Poll, HandlerStep,
        Send, Apply, DrainTarget, DrainEnds, DeleteTopic, DeleteQueue, MarkFailed, CloseChan,
        Watcher, Publish, Notify, Lock, vars, awsVars
  <2> QED
    BY <1>0, <1>3, <2>1, OthersUndoomed DEF StackOK
<1> QED
  BY <1>1, <1>2, <1>3

(* A launch that did not fail closes its channel with every target drained. *)
LEMMA DrainKept == ASSUME IInv, [Next]_vars PROVE DrainOK'
<1> USE DEF discoVars, checkVars, lockVars, memVars
<1>1. DrainOK /\ drained \subseteq targets
  BY DEF IInv, TypeOK, DiscoveryTypes
<1>2. CASE DiscoverTarget
  <2>1. drained' = drained /\ err' = err /\ step' = step /\ eventChan' = eventChan
    BY <1>2 DEF DiscoverTarget, ScanFrame
  <2>2. Completes("discovery")
    BY <1>2 DEF DiscoverTarget, Scanning, At, Completes, Over
  <2>3. state \in Nat /\ state >= 1
    BY <2>2 DEF IInv, StateCounts, Bit, TypeOK, HandlerTypes
  <2>4. Failed \/ ~(step \in Cleanup \/ eventChan = "nil")
    BY <2>3 DEF IInv, LockOK, ChannelOK
  <2> QED
    BY <1>1, <2>1, <2>4 DEF DrainOK, Failed
<1>3. CASE DrainTarget
  <2>1. step = "drain" /\ ~Global /\ ~Failed
    BY <1>3 DEF DrainTarget, Handler, Draining
  <2>2. eventChan # "nil"
    BY <2>1 DEF IInv, ChannelOK
  <2>3. UNCHANGED <<step, eventChan>>
    BY <1>3 DEF DrainTarget
  <2> QED
    BY <2>1, <2>2, <2>3 DEF DrainOK
<1>4. CASE DrainEnds
  <2>1. UNCHANGED <<drained, targets, err, eventChan>>
    BY <1>4 DEF DrainEnds
  <2>2. ~Failed /\ ~Global => drained = targets
    BY <1>1, <1>4 DEF DrainEnds, Draining
  <2> QED
    BY <1>1, <2>1, <2>2 DEF DrainOK, Failed
<1>5. CASE CloseChan
  <2>1. step = "close" /\ UNCHANGED <<drained, targets, err>>
    BY <1>5 DEF CloseChan, Handler
  <2> QED
    BY <1>1, <2>1 DEF DrainOK, Cleanup, Failed
<1>6. CASE DeleteTopic \/ DeleteQueue \/ MarkFailed
  <2>1. step \in Cleanup \ {"drain"} /\ UNCHANGED <<drained, targets, err, eventChan>>
    BY <1>6 DEF DeleteTopic, DeleteQueue, MarkFailed, Handler, Cleanup
  <2> QED
    BY <1>1, <2>1 DEF DrainOK, Failed
<1>7. CASE Send \/ Apply \/ \E g \in Goroutines : Lock(g)
  <2>1. /\ UNCHANGED <<drained, targets, eventChan>> /\ step' \notin Cleanup \ {"drain"}
        /\ ~Failed' => ~Failed
    BY <1>7 DEF Send, Apply, Lock, Return, Cleanup, Failed
  <2> QED
    BY <1>1, <2>1 DEF DrainOK
<1>8. CASE LaunchStep
  <2>1. UNCHANGED <<drained, targets, err, eventChan, step>>
    BY <1>8
    DEF LaunchStep, CreateBastion, GetBastionConfig, GetLatestImageID, GetQueueAttributes,
        Fetch, CreateTopic, CreateQueue, SetQueueAttributes, Subscribe, Wire, CreateStack,
        BastionLaunchingState, Receive, ReceiveFails, BastionActiveState, Skip, Spawn
  <2> QED
    BY <1>1, <2>1 DEF DrainOK, Failed
<1>9. CASE StartDiscovery \/ DiscoverInstance \/ InstanceError \/ GroupError \/ DiscoveryEnds
             \/ Connect \/ Watcher \/ ResourceCreated \/ CloudFormation \/ UNCHANGED vars
  <2>1. UNCHANGED <<drained, targets, err, eventChan, step>>
    BY <1>9
    DEF StartDiscovery, ScanFrame, DiscoverInstance, InstanceError, GroupError,
        DiscoveryEnds, Connect, StartConnect, Poll, Watcher, Publish, Notify, vars,
        ResourceCreated, CloudFormation, StackComplete, ResourceFailed, RolledBack,
        RollbackFailed, StackStep
  <2> QED
    BY <1>1, <2>1 DEF DrainOK, Failed
<1> QED
  BY <1>2, <1>3, <1>4, <1>5, <1>6, <1>7, <1>8, <1>9 DEF Next, Discovery, HandlerStep

(***************************************************************************)
(* The other parts of the type                                             *)
(***************************************************************************)
LEMMA GoTypesStep == ASSUME IInv, [Next]_vars PROVE GoTypes'
<1> USE DEF GoTypes, Goroutines, Labels, Events, Stages, NoEvent, goVars
<1>0. GoTypes /\ mutex \in Goroutines \cup {Free}
  BY DEF IInv, TypeOK, HandlerTypes
<1>1. CASE LaunchStep
  BY <1>0, <1>1, LaunchFrame, SMTT(60)
  DEF LaunchStep, CreateBastion, GetBastionConfig, GetLatestImageID, GetQueueAttributes,
      Fetch, CreateTopic, CreateQueue, SetQueueAttributes, Subscribe, Wire, CreateStack,
      BastionLaunchingState, Receive, ReceiveFails, BastionActiveState, Skip, Spawn, Enter,
      Proceed, Abort, Leave, After, At, Goto, Event, Error
<1>2. CASE Discovery
  BY <1>0, <1>2, DiscoveryFrame
  DEF Discovery, StartDiscovery, ScanFrame, DiscoverInstance, DiscoverTarget,
      InstanceError, GroupError, DiscoveryEnds, Goto, Event, Error
<1>3. CASE Connect
  BY <1>0, <1>3, ConnectFrame DEF Connect, StartConnect, Poll, Goto, Event, Error
<1>4. CASE HandlerStep
  BY <1>0, <1>4, HandlerFrame
  DEF HandlerStep, Return, Send, Apply, DrainTarget, DrainEnds, DeleteTopic, DeleteQueue,
      MarkFailed, CloseChan
<1>5. CASE Watcher
  BY <1>0, <1>5 DEF Watcher, Publish, Notify
<1>6. CASE (\E g \in Goroutines : Lock(g)) \/ ResourceCreated \/ CloudFormation
  BY <1>0, <1>6, LockFrame, CloudFrame
<1>7. CASE UNCHANGED vars
  BY <1>0, <1>7 DEF vars
<1> QED
  BY <1>1, <1>2, <1>3, <1>4, <1>5, <1>6, <1>7 DEF Next

LEMMA ResourceTypesStep == ASSUME IInv, [Next]_vars PROVE ResourceTypes'
<1> USE DEF ResourceTypes, Rows, awsVars
<1>0. ResourceTypes
  BY DEF IInv, TypeOK
<1>1. CASE LaunchStep
  BY <1>0, <1>1, SMTT(60)
  DEF LaunchStep, CreateBastion, GetBastionConfig, GetLatestImageID, GetQueueAttributes,
      Fetch, CreateTopic, CreateQueue, SetQueueAttributes, Subscribe, Wire, CreateStack,
      BastionLaunchingState, Receive, ReceiveFails, BastionActiveState, Skip, Spawn, memVars
<1>2. CASE DeleteTopic \/ DeleteQueue
  BY <1>0, <1>2 DEF DeleteTopic, DeleteQueue, memVars
<1>3. CASE MarkFailed
  BY <1>0, <1>3 DEF MarkFailed
<1>4. CASE ResourceCreated \/ CloudFormation
  BY <1>0, <1>4, CloudFrame
  DEF ResourceCreated, CloudFormation, StackComplete, ResourceFailed, RolledBack,
      RollbackFailed, StackStep, Post, Messages, memVars
<1>5. CASE HandlerStep /\ ~DeleteTopic /\ ~DeleteQueue /\ ~MarkFailed
  BY <1>0, <1>5
  DEF HandlerStep, Send, Apply, DrainTarget, DrainEnds, CloseChan, memVars
<1>6. CASE Discovery \/ Connect \/ Watcher \/ \E g \in Goroutines : Lock(g)
  BY <1>0, <1>6, DiscoveryFrame, ConnectFrame, WatcherFrame, LockFrame DEF memVars
<1>7. CASE UNCHANGED vars
  BY <1>0, <1>7 DEF vars, memVars
<1> QED
  BY <1>1, <1>2, <1>3, <1>4, <1>5, <1>6, <1>7 DEF Next, HandlerStep

LEMMA DiscoveryTypesStep == ASSUME IInv, [Next]_vars PROVE DiscoveryTypes'
<1> USE DEF DiscoveryTypes, discoVars, checkVars
<1>0. DiscoveryTypes
  BY DEF IInv, TypeOK
<1>1. CASE Discovery
  BY <1>0, <1>1, DiscoveryFrame
  DEF Discovery, StartDiscovery, ScanFrame, DiscoverInstance, DiscoverTarget,
      InstanceError, GroupError, DiscoveryEnds
<1>2. CASE DrainTarget
  BY <1>0, <1>2 DEF DrainTarget
<1>3. CASE HandlerStep /\ ~DrainTarget
  BY <1>0, <1>3
  DEF HandlerStep, Send, Apply, DrainEnds, DeleteTopic, DeleteQueue, MarkFailed, CloseChan
<1>4. CASE LaunchStep \/ Connect \/ Watcher \/ (\E g \in Goroutines : Lock(g))
             \/ ResourceCreated \/ CloudFormation
  BY <1>0, <1>4, LaunchFrame, ConnectFrame, WatcherFrame, LockFrame, CloudFrame
<1>5. CASE UNCHANGED vars
  BY <1>0, <1>5 DEF vars
<1> QED
  BY <1>1, <1>2, <1>3, <1>4, <1>5 DEF Next

LEMMA CountTypesStep == ASSUME IInv, [Next]_vars PROVE CountTypes' /\ ErrorsKept'
<1> USE BoundsAssumption DEF CountTypes, ErrorsKept, discoVars
<1>0. CountTypes /\ ErrorsKept
  BY DEF IInv, TypeOK
<1>1. CASE Discovery
  BY <1>0, <1>1, DiscoveryFrame
  DEF Discovery, StartDiscovery, ScanFrame, DiscoverInstance, DiscoverTarget,
      InstanceError, GroupError, DiscoveryEnds
<1>2. CASE Connect
  BY <1>0, <1>2, ConnectFrame DEF Connect, StartConnect, Poll
<1>3. CASE LaunchStep \/ HandlerStep \/ Watcher \/ (\E g \in Goroutines : Lock(g))
             \/ ResourceCreated \/ CloudFormation
  BY <1>0, <1>3, LaunchFrame, HandlerFrame, WatcherFrame, LockFrame, CloudFrame
<1>4. CASE UNCHANGED vars
  BY <1>0, <1>4 DEF vars
<1> QED
  BY <1>1, <1>2, <1>3, <1>4 DEF Next

(* Each goroutine stays within its own labels. *)
LEMMA LabelsStep == ASSUME IInv, [Next]_vars PROVE LabelsOK'
<1> USE DEF LabelsOK, Goroutines, goVars
<1>0. LabelsOK /\ pc \in [Goroutines -> Labels]
  BY DEF IInv, TypeOK, GoTypes
<1>1. CASE LaunchStep
  BY <1>0, <1>1, SMTT(60)
  DEF LaunchStep, CreateBastion, GetBastionConfig, GetLatestImageID, GetQueueAttributes,
      Fetch, CreateTopic, CreateQueue, SetQueueAttributes, Subscribe, Wire, CreateStack,
      BastionLaunchingState, Receive, ReceiveFails, BastionActiveState, Skip, Spawn, Enter,
      Proceed, Abort, Leave, After, At, Goto, Stages
<1>2. CASE Discovery
  BY <1>0, <1>2
  DEF Discovery, StartDiscovery, Scanning, ScanFrame, DiscoverInstance, DiscoverTarget,
      InstanceError, GroupError, DiscoveryEnds, At, Goto
<1>3. CASE Connect
  BY <1>0, <1>3 DEF Connect, StartConnect, Poll, At, Goto
<1>4. CASE HandlerStep \/ Watcher \/ (\E g \in Goroutines : Lock(g))
             \/ ResourceCreated \/ CloudFormation
  BY <1>0, <1>4, HandlerFrame, WatcherFrame, LockFrame, CloudFrame
<1>5. CASE UNCHANGED vars
  BY <1>0, <1>5 DEF vars
<1> QED
  BY <1>1, <1>2, <1>3, <1>4, <1>5 DEF Next

LEMMA UntouchedStep == ASSUME IInv, [Next]_vars PROVE Untouched'
<1> SUFFICES ASSUME pc'["launch"] = "create"
             PROVE  ~Failed' /\ \A g \in Goroutines : ev'[g] = NoEvent
  BY DEF Untouched
<1> USE DEF Failed, goVars, memVars
<1>0. pc \in [Goroutines -> Labels] /\ ev \in [Goroutines -> Events] /\ "launch" \in Goroutines
  BY DEF IInv, TypeOK, GoTypes, Goroutines
<1>1. CASE LaunchStep
  BY <1>0, <1>1
  DEF LaunchStep, CreateBastion, GetBastionConfig, GetLatestImageID, GetQueueAttributes,
      Fetch, CreateTopic, CreateQueue, SetQueueAttributes, Subscribe, Wire, CreateStack,
      BastionLaunchingState, Receive, ReceiveFails, BastionActiveState, Skip, Spawn, Enter,
      Proceed, Abort, Leave, After, At, Goto, Stages
<1>2. ~LaunchStep => pc["launch"] = "create"
  BY OthersUndoomed
<1>3. ~LaunchStep => Untouched /\ ~Failed /\ \A g \in Goroutines : ev[g] = NoEvent
  BY <1>2 DEF IInv, Untouched
<1>4. CASE Discovery
  BY <1>4, <1>0, DiscoveryMoves
  DEF Discovery, StartDiscovery, Scanning, ScanFrame, DiscoverInstance, DiscoverTarget,
      InstanceError, GroupError, DiscoveryEnds, At, Goto, IInv, LabelsOK
<1>5. CASE Connect
  BY <1>5, <1>0 DEF Connect, StartConnect, Poll, At, Goto, IInv, LabelsOK
<1>6. CASE HandlerStep
  <2>1. step # "idle"
    BY <1>6 DEF HandlerStep, Send, Apply, DrainTarget, DrainEnds, DeleteTopic, DeleteQueue,
                MarkFailed, CloseChan, Handler
  <2>2. mutex \in Goroutines /\ ev[mutex] # NoEvent
    BY <2>1 DEF IInv, TypeOK, HandlerTypes, LockOK
  <2>3. LaunchStep
    BY <1>3, <2>2
  <2> QED
    BY <1>1, <2>3
<1>7. CASE Watcher \/ ResourceCreated \/ CloudFormation
  <2>1. UNCHANGED <<ev, err>>
    BY <1>7, WatcherFrame, CloudFrame
  <2> QED
    BY <1>1, <1>3, <2>1
<1>8. CASE (\E g \in Goroutines : Lock(g)) \/ UNCHANGED vars
  <2>1. UNCHANGED <<ev, err>>
    BY <1>8, LockFrame DEF vars
  <2> QED
    BY <1>1, <1>3, <2>1
<1> QED
  BY <1>1, <1>4, <1>5, <1>6, <1>7, <1>8 DEF Next

LEMMA StepIInv == ASSUME IInv, [Next]_vars PROVE IInv'
<1>1. TypeOK'
  BY GoTypesStep, HandlerTypesStep, ResourceTypesStep, DiscoveryTypesStep, CountTypesStep
  DEF TypeOK
<1> QED
  BY <1>1, CountStep, LabelsStep, RowStep, StackKept, DrainKept, CountTypesStep, UntouchedStep
  DEF IInv

LEMMA Invariance == Spec => []IInv
<1>1. IInv /\ [Next]_vars => IInv'
  BY StepIInv
<1> QED
  BY InitIInv, <1>1, PTL DEF Spec

(***************************************************************************)
(* What follows                                                            *)
(***************************************************************************)
(* TypeOK, for every account, number of attempts and kind of customer. *)
THEOREM TypeCorrect == Spec => []TypeOK
<1>1. IInv => TypeOK
  BY DEF IInv
<1> QED
  BY Invariance, <1>1, PTL

(* The state reaches 0 without an error only when every goroutine is done  *)
(* and every stage succeeded.                                              *)
LEMMA Completed ==
  ASSUME IInv, ~Failed, state = 0
  PROVE  /\ \A g \in Goroutines : pc[g] = "done"
         /\ db = "active" /\ stack = "complete"
<1>1. \A g \in Goroutines : ~Owes(g)
  BY DEF IInv, StateCounts, Bit, Goroutines
<1>2. \A g \in Goroutines : pc[g] = "done"
  BY <1>1 DEF IInv, LabelsOK, Owes, Over, Goroutines
<1>3. ev["launch"] # "failed"
  <2>1. SUFFICES ASSUME ev["launch"] = "failed" PROVE FALSE
    OBVIOUS
  <2>2. mutex = "launch" /\ step \notin {"send", "apply"}
    BY <1>1, <2>1 DEF Owes, Pending, NoEvent, Goroutines
  <2>3. step \in Cleanup
    BY <2>2 DEF IInv, LockOK, TypeOK, HandlerTypes, Steps, Cleanup, Free
  <2> QED
    BY <2>1, <2>2, <2>3 DEF IInv, LockOK
<1>4. ~Doomed /\ pc["launch"] = "done"
  BY <1>2, <1>3 DEF Doomed, Goroutines
<1> QED
  BY <1>2, <1>4 DEF IInv, RowOK, RowAt, StackOK

(* A success is notified only for a bastion that is up, its row active and *)
(* its targets drained: watchLaunch reports after the channel is closed.   *)
THEOREM Success == Spec => []SuccessMeansReady
<1>1. IInv => SuccessMeansReady
  <2> SUFFICES ASSUME IInv, notified = "success"
               PROVE  /\ ~Failed /\ db = "active" /\ stack = "complete"
                      /\ drained = IF Global THEN {} ELSE targets
                      /\ \A g \in Goroutines : pc[g] = "done"
    BY DEF SuccessMeansReady
  <2>1. ~Failed /\ eventChan = "nil" /\ state = 0
    BY DEF IInv, ChannelOK
  <2>2. drained = IF Global THEN {} ELSE targets
    BY <2>1 DEF IInv, DrainOK
  <2> QED
    BY <2>1, <2>2, Completed
<1> QED
  BY Invariance, <1>1, PTL

(* No event announces a failure without the error that makes the launch    *)
(* fail: a discovery that gives up has kept one of the errors it counted.  *)
THEOREM Failures == Spec => []FailuresCarryErrors
<1>1. IInv => FailuresCarryErrors
  BY DEF IInv, EventsOK, FailuresCarryErrors
<1> QED
  BY Invariance, <1>1, PTL

(***************************************************************************)
(* A launch implements its contract                                        *)
(***************************************************************************)
LEMMA LaunchRefines == ASSUME IInv, LaunchStep PROVE [Contract!Next]_(Contract!vars)
<1>1. UNCHANGED <<State, checks, notified>>
  BY LaunchFrame DEF State, Failed, checkVars, watchVars
<1>2. ~Over("launch") /\ ~Failed => State = "in-progress"
  BY DEF IInv, StateCounts, Bit, Owes, State, TypeOK, HandlerTypes
<1>3. CASE CreateBastion
  <2>1. pc["launch"] = "create" /\ ~Doomed /\ db' \in {"none", "new"}
    BY <1>3 DEF CreateBastion, At, Running, IInv, Untouched, Doomed, NoEvent
  <2>2. db = "none" /\ State = "in-progress"
    BY <1>2, <2>1 DEF IInv, RowOK, RowAt, Over, Doomed
  <2> QED
    BY <1>1, <2>1, <2>2 DEF Contract!Next, Contract!Advance, Contract!Order, Contract!vars
<1>4. CASE BastionLaunchingState
  <2>1. pc["launch"] = "bastionLaunchingState" /\ ~Doomed /\ db' \in {db, "launching"}
    BY <1>4 DEF BastionLaunchingState, Enter, At, Running, Doomed, NoEvent
  <2>2. db = "new" /\ State = "in-progress"
    BY <1>2, <2>1 DEF IInv, RowOK, RowAt, Over, Doomed
  <2> QED
    BY <1>1, <2>1, <2>2 DEF Contract!Next, Contract!Advance, Contract!Order, Contract!vars
<1>5. CASE BastionActiveState
  <2>1. pc["launch"] = "bastionActiveState" /\ ~Doomed /\ db' \in {db, "active"}
    BY <1>5 DEF BastionActiveState, Enter, At, Running, Doomed, NoEvent
  <2>2. db = "launching" /\ State = "in-progress"
    BY <1>2, <2>1 DEF IInv, RowOK, RowAt, Over, Doomed
  <2> QED
    BY <1>1, <2>1, <2>2 DEF Contract!Next, Contract!Advance, Contract!Order, Contract!vars
<1>6. CASE ~CreateBastion /\ ~BastionLaunchingState /\ ~BastionActiveState
  <2>1. db' = db
    BY <1>6
    DEF LaunchStep, GetBastionConfig, GetLatestImageID, GetQueueAttributes, Fetch,
        CreateTopic, CreateQueue, SetQueueAttributes, Subscribe, Wire, CreateStack,
        Receive, ReceiveFails, Skip, Spawn
  <2> QED
    BY <1>1, <2>1 DEF Contract!vars
<1> QED
  BY <1>3, <1>4, <1>5, <1>6

LEMMA HandlerRefines == ASSUME IInv, IInv', HandlerStep PROVE [Contract!Next]_(Contract!vars)
<1>1. CASE Apply
  <2>1. UNCHANGED <<db, checks, notified>>
    BY <1>1 DEF Apply, checkVars, watchVars
  <2>2. CASE Failed
    <3>1. Failed'
      BY <1>1, <2>2 DEF Apply, Failed
    <3> QED
      BY <2>1, <2>2, <3>1 DEF State, Contract!vars
  <2>3. CASE ~Failed
    <3>1. State = "in-progress"
      BY <1>1, <2>3, ApplyKeepsCount DEF State, IInv, TypeOK, HandlerTypes
    <3>2. CASE State' = "complete"
      <4>1. ~Failed' /\ state' = 0
        BY <3>2 DEF State, IInv, TypeOK, HandlerTypes
      <4>2. db = "active"
        <5>1. (IInv /\ ~Failed /\ state = 0 => db = "active")'
          BY Completed, PTL
        <5> QED
          BY <2>1, <4>1, <5>1
      <4> QED
        BY <2>1, <3>1, <3>2, <4>2 DEF Contract!Next, Contract!Complete
    <3>3. CASE State' # "complete"
      BY <2>1, <3>1, <3>3 DEF State, Contract!Next, Contract!Fail, Contract!vars
    <3> QED
      BY <3>2, <3>3
  <2> QED
    BY <2>2, <2>3
<1>2. CASE DrainTarget
  <2>1. UNCHANGED <<State, db, notified>> /\ ~Failed /\ step = "drain"
    BY <1>2 DEF DrainTarget, Draining, Handler, memVars, watchVars, State, Failed
  <2>2. State = "complete" /\ notified = "no"
    BY <2>1 DEF IInv, LockOK, ChannelOK, Cleanup, State
  <2>3. PICK t \in targets \ drained : checks' \in {checks, checks \cup {t}}
    BY <1>2 DEF DrainTarget
  <2>4. t \in Targets \ checks
    BY <2>3 DEF IInv, TypeOK, DiscoveryTypes
  <2> QED
    BY <2>1, <2>2, <2>3, <2>4 DEF Contract!Next, Contract!Check, Contract!vars
<1>3. CASE MarkFailed
  <2>1. UNCHANGED <<State, checks, notified>>
    BY <1>3 DEF MarkFailed, checkVars, watchVars, State, Failed
  <2>2. db' = db \/ (db' = "failed" /\ Failed /\ db # "none")
    BY <1>3 DEF MarkFailed, IInv, RowOK
  <2> QED
    BY <2>1, <2>2 DEF State, Contract!Next, Contract!MarkFailed, Contract!vars
<1>4. CASE ~Apply /\ ~DrainTarget /\ ~MarkFailed
  <2>1. UNCHANGED <<err, state, db, checks, notified>>
    BY <1>4 DEF HandlerStep, Send, DrainEnds, DeleteTopic, DeleteQueue, CloseChan,
                memVars, watchVars, checkVars
  <2> QED
    BY <2>1 DEF State, Failed, Contract!vars
<1> QED
  BY <1>1, <1>2, <1>3, <1>4

(* Seen from outside a launch leaves "in-progress" once, its row advances  *)
(* only before that, checks are created after completion and before the    *)
(* notification, and that is sent once and tells the outcome.              *)
THEOREM Refinement == Spec => ImplementsContract
<1>1. Init => Contract!Init
  BY DEF Init, Contract!Init, State, Failed
<1>2. ASSUME IInv, IInv', [Next]_vars PROVE [Contract!Next]_(Contract!vars)
  <2>1. CASE LaunchStep
    BY <1>2, <2>1, LaunchRefines
  <2>2. CASE HandlerStep
    BY <1>2, <2>2, HandlerRefines
  <2>3. CASE Notify
    <3>1. UNCHANGED <<State, db, checks>> /\ eventChan = "nil" /\ watcher = "recv"
      BY <2>3, WatcherFrame DEF Watcher, Notify, memVars, checkVars, State, Failed
    <3>2. notified = "no" /\ State # "in-progress"
      BY <1>2, <3>1 DEF IInv, ChannelOK, State
    <3>3. notified' = notified \/ notified' = IF Failed THEN "error" ELSE "success"
      BY <2>3 DEF Notify
    <3>4. Failed <=> State # "complete"
      BY <3>2 DEF State
    <3> QED
      BY <3>1, <3>2, <3>3, <3>4 DEF Contract!Next, Contract!Notify, Contract!vars
  <2>4. CASE Publish
    BY <2>4, WatcherFrame
    DEF Watcher, Publish, memVars, checkVars, State, Failed, Contract!vars
  <2>5. CASE Discovery \/ Connect \/ (\E g \in Goroutines : Lock(g))
               \/ ResourceCreated \/ CloudFormation
    BY <2>5, DiscoveryFrame, ConnectFrame, LockFrame, CloudFrame
    DEF memVars, watchVars, checkVars, State, Failed, Contract!vars
  <2>6. CASE UNCHANGED vars
    BY <2>6 DEF vars, memVars, watchVars, checkVars, State, Failed, Contract!vars
  <2> QED
    BY <1>2, <2>1, <2>2, <2>3, <2>4, <2>5, <2>6 DEF Next, Watcher
<1> QED
  BY Invariance, <1>1, <1>2, PTL DEF Spec, ImplementsContract, Contract!Spec
=============================================================================
