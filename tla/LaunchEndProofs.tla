-------------------------- MODULE LaunchEndProofs ---------------------------
(***************************************************************************)
(* How a launch ends, for every account, number of attempts and kind of    *)
(* customer: the last event and the notification, what cleanup leaves, and *)
(* when the process dies of it; and what the liveness of the launch rests  *)
(* on.  More invariants, on top of IInv.                                   *)
(***************************************************************************)
EXTENDS LaunchProofs

(* What the last event says of a launch that is over. *)
LastEvent == IF Failed THEN "failed" ELSE "complete"

(* While the channel is open and its handler has not begun to clean up,    *)
(* the launch has not failed, and no failure was sent before this event.   *)
WatchOK ==
  /\ step = "send" => eventChan = "open"
  /\ eventChan = "open" /\ step \in {"idle", "send"} => ~Failed /\ watched # "failed"
  /\ eventChan = "open" /\ step = "apply" => ~Failed /\ watched = ev[mutex]
  /\ eventChan = "nil" \/ step \in Cleanup => watched = LastEvent
  /\ notified = "error" => Failed

(* What a deletion was tried on is gone, or counted as not deleted. *)
Gone(r) == r \in existing \cap outputs => r \in undeleted
RowSettled == Failed /\ bastion # "nil" => db = "failed" \/ "row" \in undeleted
CleanOK ==
  /\ cleaned # "no" => Failed \/ state = 0
  /\ step \in {"queue", "row", "close"} \/ cleaned # "no" => Gone("topic")
  /\ step \in {"row", "close"} \/ cleaned # "no" => Gone("queue")
  /\ cleaned # "no" => RowSettled

(* The goroutines that Launch() starts last: they have something to tell   *)
(* only of a bastion that was activated, and when the sequence is silent.  *)
Later == {"discovery", "connect"}
LaterOK ==
  /\ bastion = "nil" => pc["launch"] \in {"create", "done"} /\ \A g \in Later : pc[g] = "idle"
  /\ eventChan = "nil" => ev["launch"] = NoEvent
  /\ \A g \in Later :
       /\ pc[g] = "idle" => ev[g] = NoEvent
       /\ pc[g] # "idle" => ev["launch"] = NoEvent
       /\ ev[g] # NoEvent \/ pc[g] \in {"scan", "poll"} =>
            db \in {"active", "failed"} /\ stack = "complete"

(* The path from the stack to consumeSQS, by the stage that completed it,  *)
(* and what has come along it: the word about the stack's end.             *)
AtStack == {"createStack", "bastionLaunchingState", "consumeSQS"}
FromAttributes == {"getQueueAttributes", "setQueueAttributes", "subscribe"} \cup AtStack
PathOK ==
  ~Doomed =>
    /\ pc["launch"] \in {"createQueue"} \cup FromAttributes => "topic" \in existing
    /\ pc["launch"] \in FromAttributes => "queue" \in existing
    /\ pc["launch"] \in {"subscribe"} \cup AtStack => "policy" \in wired
    /\ pc["launch"] \in AtStack => "subscription" \in wired
Waits == {"bastionLaunchingState", "consumeSQS"}
ToldOK ==
  ~Doomed /\ pc["launch"] \in Waits =>
    /\ stack # "none"
    /\ stack = "complete" => Message("CREATE_COMPLETE", "stack") \in sqs
    /\ stack = "rolled-back" => Message("ROLLBACK_COMPLETE", "stack") \in sqs

(* What no answer was given about: one resource at most, and the launch is *)
(* doomed before it has a stack.                                           *)
Orphans == existing \ outputs
OrphansOK ==
  /\ \A r, s \in Orphans : r = s
  /\ Orphans # {} => Doomed /\ stack = "none"

EndInv == WatchOK /\ CleanOK /\ OrphansOK /\ LaterOK /\ PathOK /\ ToldOK /\ PanicOnlyAfterFailure

LEMMA InitEnd == Init => EndInv
BY DEF Init, EndInv, WatchOK, CleanOK, LaterOK, PanicOnlyAfterFailure, Failed, Gone,
       RowSettled, LastEvent, Cleanup, Later, Free, NoEvent, Goroutines,
       PathOK, ToldOK, FromAttributes, AtStack, Waits, OrphansOK, Orphans

(***************************************************************************)
(* Steps that are no longer taken, and what a step leaves alone            *)
(***************************************************************************)
(* Once a launch has failed or is complete its stages do nothing. *)
LEMMA StagesOver ==
  ASSUME IInv, LaunchStep, Failed \/ state = 0
  PROVE  Skip \/ Spawn
<1>1. \A s \in Stages : ~Enter(s)
  <2> SUFFICES ASSUME NEW s \in Stages, Enter(s) PROVE FALSE
    OBVIOUS
  <2>1. ~Failed /\ pc["launch"] = s /\ state = 0
    BY DEF Enter, At
  <2>2. pc["launch"] = "done"
    BY <2>1, Completed DEF Goroutines
  <2> QED
    BY <2>1, <2>2 DEF Stages
<1>2. ~CreateBastion
  <2> SUFFICES ASSUME CreateBastion PROVE FALSE
    OBVIOUS
  <2>1. pc["launch"] = "create" /\ ~Failed
    BY DEF CreateBastion, At, IInv, Untouched
  <2> QED
    BY <2>1, Completed DEF Goroutines
<1> QED
  BY <1>1, <1>2
  DEF LaunchStep, GetBastionConfig, GetLatestImageID, GetQueueAttributes, Fetch, CreateTopic,
      CreateQueue, SetQueueAttributes, Subscribe, Wire, CreateStack, BastionLaunchingState,
      Receive, ReceiveFails, BastionActiveState, Stages

(* A goroutine's own step leaves the event in the handler alone. *)
LEMMA HandledEventKept ==
  ASSUME IInv, LaunchStep \/ Discovery \/ Connect, mutex # Free
  PROVE  ev'[mutex] = ev[mutex]
<1>1. ev \in [Goroutines -> Events] /\ mutex \in Goroutines /\ ev[mutex] # NoEvent
  BY DEF IInv, TypeOK, GoTypes, HandlerTypes, LockOK
<1>2. \A g \in Goroutines : \A l, e : Moves(g, l, e) => ev'[mutex] = ev[mutex]
  BY <1>1 DEF Moves, Running
<1>3. CASE LaunchStep /\ ~Spawn
  BY <1>2, <1>3, LaunchMoves DEF Goroutines
<1>4. CASE StartDiscovery \/ DiscoveryEnds
  BY <1>2, <1>4, DiscoveryMoves DEF Goroutines
<1>5. CASE Connect
  BY <1>2, <1>5, ConnectMoves DEF Goroutines
<1>6. CASE Spawn \/ DiscoverInstance \/ DiscoverTarget \/ InstanceError \/ GroupError
  BY <1>6 DEF Spawn, DiscoverInstance, DiscoverTarget, InstanceError, GroupError, ScanFrame,
              goVars
<1> QED
  BY <1>3, <1>4, <1>5, <1>6 DEF Discovery

(***************************************************************************)
(* The last event                                                          *)
(***************************************************************************)
(* While the handler has not ended a launch, an unfailed launch still      *)
(* waits for a goroutine, and its channel is open.                         *)
LEMMA ApplyOpens ==
  ASSUME IInv, Apply, ~Failed
  PROVE  state >= 1 /\ eventChan = "open"
<1>1. state >= 1 /\ state \in 0..3 /\ eventChan \in {"open", "nil"}
  BY ApplyKeepsCount DEF IInv, TypeOK, HandlerTypes
<1> QED
  BY <1>1 DEF IInv, ChannelOK

LEMMA WatchStep == ASSUME IInv, WatchOK, [Next]_vars PROVE WatchOK'
<1> USE DEF lockVars, watchVars, memVars, goVars
<1>0. /\ ev \in [Goroutines -> Events] /\ step \in Steps /\ eventChan \in {"open", "nil"}
      /\ err \in {"nil", "error"} /\ (step = "idle" <=> mutex = Free)
  BY DEF IInv, TypeOK, GoTypes, HandlerTypes, LockOK
<1>1. CASE /\ UNCHANGED <<step, mutex, eventChan, watched, notified, err>>
           /\ mutex # Free => ev'[mutex] = ev[mutex]
  BY <1>0, <1>1 DEF WatchOK, LastEvent, Failed, Cleanup
<1>2. CASE LaunchStep \/ Discovery \/ Connect
  BY <1>1, <1>2, LaunchFrame, DiscoveryFrame, ConnectFrame, HandledEventKept
<1>3. CASE Send
  <2>1. /\ step = "send" /\ step' = "apply" /\ watched' = ev[mutex]
        /\ UNCHANGED <<mutex, ev, err, eventChan, notified>>
    BY <1>3 DEF Send, Handler
  <2> QED
    BY <1>0, <2>1 DEF WatchOK, LastEvent, Failed, Cleanup
<1>4. CASE Apply
  <2>1. /\ step = "apply" /\ step' \in {"idle", "drain"}
        /\ UNCHANGED <<eventChan, watched, notified>>
        /\ Failed => Failed'
    BY <1>4 DEF Apply, Handler, Return, Failed
  <2>2. CASE eventChan = "nil"
    <3>1. Failed /\ watched = LastEvent
      BY <2>1, <2>2 DEF IInv, ChannelOK, WatchOK
    <3> QED
      BY <2>1, <2>2, <3>1 DEF WatchOK, LastEvent
  <2>3. CASE eventChan = "open"
    <3>1. ~Failed /\ watched = ev[mutex] /\ notified # "error"
      BY <2>1, <2>3 DEF WatchOK
    <3>2. state \in 0..3 /\ state >= 1
      BY <1>4, <3>1, ApplyOpens DEF IInv, TypeOK, HandlerTypes
    <3>3. CASE watched = "failed"
      <4>1. Failed' /\ step' = "drain"
        BY <1>4, <3>1, <3>3 DEF Apply, Failed
      <4> QED
        BY <2>1, <2>3, <3>1, <3>3, <4>1 DEF WatchOK, LastEvent
    <3>4. CASE watched # "failed"
      <4>1. ~Failed'
        BY <1>4, <3>1, <3>4 DEF Apply, Failed
      <4>2. step' = "drain" => watched = "complete"
        BY <1>4, <3>1, <3>2, <4>1 DEF Apply, Return, Failed
      <4> QED
        BY <2>1, <2>3, <3>1, <3>4, <4>1, <4>2 DEF WatchOK, LastEvent, Cleanup
    <3> QED
      BY <3>3, <3>4
  <2> QED
    BY <1>0, <2>2, <2>3
<1>5. CASE DrainTarget \/ DrainEnds \/ DeleteTopic \/ DeleteQueue \/ MarkFailed
  <2>1. /\ step \in Cleanup /\ step' \in Cleanup
        /\ UNCHANGED <<eventChan, watched, notified, err>>
    BY <1>5 DEF DrainTarget, DrainEnds, DeleteTopic, DeleteQueue, MarkFailed, Handler, Cleanup
  <2> QED
    BY <2>1 DEF WatchOK, LastEvent, Failed, Cleanup
<1>6. CASE CloseChan
  <2>1. /\ step = "close" /\ eventChan' = "nil" /\ step' # "send"
        /\ UNCHANGED <<watched, notified, err>>
    BY <1>0, <1>6 DEF CloseChan, Handler, Return
  <2> QED
    BY <2>1 DEF WatchOK, LastEvent, Failed, Cleanup
<1>7. CASE \E g \in Goroutines : Lock(g)
  <2>1. PICK g \in Goroutines : Lock(g)
    BY <1>7
  <2>2. /\ step = "idle" /\ step' = IF eventChan = "open" THEN "send" ELSE "apply"
        /\ UNCHANGED <<eventChan, watched, notified, err>>
    BY <1>0, <2>1 DEF Lock
  <2> QED
    BY <1>0, <2>2 DEF WatchOK, LastEvent, Failed, Cleanup
<1>8. CASE Watcher
  <2>1. UNCHANGED <<step, mutex, eventChan, watched, err, ev>>
    BY <1>8, WatcherFrame
  <2>2. notified' = notified \/ notified' = IF Failed THEN "error" ELSE "success"
    BY <1>8 DEF Watcher, Publish, Notify
  <2> QED
    BY <2>1, <2>2 DEF WatchOK, LastEvent, Failed
<1>9. CASE ResourceCreated \/ CloudFormation
  BY <1>1, <1>9, CloudFrame
<1>10. CASE UNCHANGED vars
  BY <1>1, <1>10 DEF vars
<1> QED
  BY <1>2, <1>3, <1>4, <1>5, <1>6, <1>7, <1>8, <1>9, <1>10 DEF Next, HandlerStep

(***************************************************************************)
(* What cleanup leaves                                                     *)
(***************************************************************************)
LEMMA GoneStays ==
  ASSUME existing' \subseteq existing, outputs' = outputs, undeleted \subseteq undeleted', NEW r
  PROVE  Gone(r) => Gone(r)'
BY DEF Gone

LEMMA CleanStep == ASSUME IInv, CleanOK, [Next]_vars PROVE CleanOK'
<1> USE DEF lockVars, watchVars, memVars, goVars, cleanVars, awsVars
<1>0. /\ step \in Cleanup => Failed \/ state = 0
      /\ cleaned # "no" => Failed \/ state = 0
  BY DEF IInv, LockOK, CleanOK
<1>1. CASE UNCHANGED <<step, cleaned, err, state, existing, outputs, undeleted, bastion, db>>
  BY <1>1 DEF CleanOK, Gone, RowSettled, Failed
<1>2. CASE LaunchStep
  <2>1. UNCHANGED <<step, cleaned, err, state, undeleted>>
    BY <1>2, LaunchFrame
  <2>2. CASE Failed \/ state = 0
    <3>1. Skip \/ Spawn
      BY <1>2, <2>2, StagesOver
    <3>2. UNCHANGED <<existing, outputs, bastion, db>>
      BY <3>1 DEF Skip, Spawn
    <3> QED
      BY <1>1, <2>1, <3>2
  <2>3. CASE ~(Failed \/ state = 0)
    <3>1. step \notin {"queue", "row", "close"} /\ cleaned = "no"
      BY <1>0, <2>3 DEF Cleanup
    <3> QED
      BY <2>1, <3>1 DEF CleanOK
  <2> QED
    BY <2>2, <2>3
<1>3. CASE Discovery \/ Connect \/ Watcher \/ (\E g \in Goroutines : Lock(g))
  <2>1. UNCHANGED <<cleaned, err, state, existing, outputs, undeleted, bastion, db>>
    BY <1>3, DiscoveryFrame, ConnectFrame, WatcherFrame, LockFrame
  <2>2. step' = step \/ step' \in {"send", "apply"}
    BY <1>3, DiscoveryFrame, ConnectFrame, WatcherFrame DEF Lock
  <2> QED
    BY <2>1, <2>2 DEF CleanOK, Gone, RowSettled, Failed
<1>4. CASE Apply
  <2>1. UNCHANGED <<cleaned, existing, outputs, undeleted, bastion, db>>
    BY <1>4 DEF Apply
  <2>2. step' \in {"idle", "drain"} /\ (Failed => Failed')
    BY <1>4 DEF Apply, Return, Failed
  <2>3. state = 0 => Failed
    BY <1>4, ApplyOpens DEF IInv, TypeOK, HandlerTypes
  <2>4. cleaned # "no" => Failed /\ Failed'
    BY <1>0, <2>2, <2>3
  <2> QED
    BY <2>1, <2>2, <2>4 DEF CleanOK, Gone, RowSettled
<1>5. CASE Send \/ DrainTarget \/ DrainEnds \/ CloseChan
  <2>1. UNCHANGED <<cleaned, err, state, existing, outputs, undeleted, bastion, db>>
    BY <1>5 DEF Send, DrainTarget, DrainEnds, CloseChan
  <2>2. step' = step \/ step' \in {"idle", "apply", "topic"}
    BY <1>5 DEF Send, DrainTarget, DrainEnds, CloseChan, Return
  <2> QED
    BY <2>1, <2>2 DEF CleanOK, Gone, RowSettled, Failed
<1>6. CASE DeleteTopic
  <2>1. /\ step = "topic" /\ step' = "queue"
        /\ UNCHANGED <<cleaned, err, state, outputs, bastion, db>>
        /\ existing' \subseteq existing /\ undeleted \subseteq undeleted'
    BY <1>6 DEF DeleteTopic, Handler, Outcome
  <2>2. Gone("topic")'
    BY <1>6 DEF DeleteTopic, Outcome, Gone
  <2>3. Gone("queue") => Gone("queue")'
    BY <2>1, GoneStays
  <2>4. RowSettled => RowSettled'
    BY <2>1 DEF RowSettled, Failed
  <2> QED
    BY <2>1, <2>2, <2>3, <2>4 DEF CleanOK, Failed
<1>7. CASE DeleteQueue
  <2>1. /\ step = "queue" /\ step' = "row"
        /\ UNCHANGED <<cleaned, err, state, outputs, bastion, db>>
        /\ existing' \subseteq existing /\ undeleted \subseteq undeleted'
    BY <1>7 DEF DeleteQueue, Handler, Outcome
  <2>2. Gone("queue")'
    BY <1>7 DEF DeleteQueue, Outcome, Gone
  <2>3. Gone("topic") => Gone("topic")'
    BY <2>1, GoneStays
  <2>4. RowSettled => RowSettled'
    BY <2>1 DEF RowSettled, Failed
  <2> QED
    BY <2>1, <2>2, <2>3, <2>4 DEF CleanOK, Failed
<1>8. CASE MarkFailed
  <2>1. /\ step = "row" /\ step' = "close" /\ (Failed \/ state = 0)
        /\ UNCHANGED <<err, state, existing, outputs>> /\ undeleted \subseteq undeleted'
    BY <1>0, <1>8 DEF MarkFailed, Handler, Outcome, Cleanup
  <2>2. Gone("topic")' /\ Gone("queue")'
    BY <2>1, GoneStays DEF CleanOK
  <2>3. RowSettled'
    BY <1>8, <2>1 DEF MarkFailed, RowSettled, Outcome, Failed
  <2> QED
    BY <2>1, <2>2, <2>3 DEF CleanOK, Failed
<1>9. CASE ResourceCreated \/ CloudFormation
  BY <1>1, <1>9, CloudFrame
<1>10. CASE UNCHANGED vars
  BY <1>1, <1>10 DEF vars
<1> QED
  BY <1>2, <1>3, <1>4, <1>5, <1>6, <1>7, <1>8, <1>9, <1>10 DEF Next, HandlerStep

(***************************************************************************)
(* The goroutines that start last                                          *)
(***************************************************************************)
(* The sequence takes its steps before they start, and starts them.        *)
LEMMA LaunchAlone ==
  ASSUME IInv, LaunchStep
  PROVE  /\ ev["launch"] = NoEvent /\ pc["launch"] # "done"
         /\ \A g \in Later : /\ pc[g] = "idle" /\ ev'[g] = ev[g]
                             /\ pc'[g] = IF Spawn THEN "start" ELSE pc[g]
<1>1. /\ pc \in [Goroutines -> Labels] /\ ev \in [Goroutines -> Events]
      /\ Later \subseteq Goroutines
  BY DEF IInv, TypeOK, GoTypes, Goroutines, Later
<1>2. ev["launch"] = NoEvent /\ pc["launch"] # "done"
  BY DEF LaunchStep, CreateBastion, GetBastionConfig, GetLatestImageID, GetQueueAttributes,
         Fetch, CreateTopic, CreateQueue, SetQueueAttributes, Subscribe, Wire, CreateStack,
         BastionLaunchingState, Receive, ReceiveFails, BastionActiveState, Skip, Spawn,
         Enter, At, Running, Stages
<1>3. \A g \in Later : pc[g] = "idle"
  BY <1>2 DEF IInv, LabelsOK, Later
<1>4. CASE Spawn
  <2>1. ev' = ev /\ pc' = [g \in Goroutines |-> IF g = "launch" THEN "done" ELSE "start"]
    BY <1>4 DEF Spawn
  <2> QED
    BY <1>1, <1>2, <1>3, <1>4, <2>1 DEF Later
<1>5. CASE ~Spawn
  <2>1. PICK l, e : Moves("launch", l, e)
    BY <1>5, LaunchMoves
  <2> QED
    BY <1>1, <1>2, <1>3, <1>5, <2>1 DEF Moves, Later
<1> QED
  BY <1>4, <1>5

(* What was created without an answer is left alone, and nothing else is  *)
(* created.                                                                *)
LEMMA OrphansStep == ASSUME IInv, OrphansOK, [Next]_vars PROVE OrphansOK'
<1> USE DEF Orphans, goVars, awsVars, memVars
<1>0. "launch" \in Goroutines /\ ev \in [Goroutines -> Events]
  BY DEF IInv, TypeOK, GoTypes, Goroutines
<1>1. CASE CreateTopic \/ CreateQueue
  <2>1. ~Doomed /\ pc["launch"] \in BeforeStack
    BY <1>1 DEF CreateTopic, CreateQueue, Enter, At, Running, Doomed, NoEvent, BeforeStack
  <2>2. stack = "none" /\ stack' = "none" /\ Orphans = {}
    BY <1>1, <2>1 DEF CreateTopic, CreateQueue, IInv, StackOK, OrphansOK
  <2>3. \/ existing' \ outputs' = {}
        \/ (existing' \ outputs' \in {{"topic"}, {"queue"}} /\ ev'["launch"] = "failed")
    BY <1>0, <1>1, <2>2 DEF CreateTopic, CreateQueue, Abort, Error
  <2> QED
    BY <2>2, <2>3 DEF OrphansOK, Doomed
<1>2. CASE LaunchStep /\ ~CreateTopic /\ ~CreateQueue
  <2>1. UNCHANGED <<existing, outputs>>
    BY <1>2 DEF LaunchStep, CreateBastion, GetBastionConfig, GetLatestImageID, GetQueueAttributes,
       Fetch, SetQueueAttributes, Subscribe, Wire, CreateStack, BastionLaunchingState, Receive,
       ReceiveFails, BastionActiveState, Skip, Spawn
  <2>2. CASE Orphans = {}
    BY <2>1, <2>2 DEF OrphansOK
  <2>3. CASE Orphans # {}
    <3>1. Failed
      BY <1>2, <2>3, LaunchAlone DEF OrphansOK, Doomed, NoEvent
    <3>2. Skip \/ Spawn
      BY <1>2, <3>1, StagesOver
    <3>3. Failed' /\ stack' = stack
      BY <3>1, <3>2 DEF Skip, Spawn, Failed
    <3> QED
      BY <2>1, <3>3 DEF OrphansOK, Doomed
  <2> QED
    BY <2>2, <2>3
<1>3. CASE ~LaunchStep
  <2>1. Doomed => Doomed'
    BY <1>3, OthersUndoomed
  <2>2. outputs' = outputs /\ existing' \subseteq existing
    <3>1. CASE HandlerStep
      BY <3>1 DEF HandlerStep, Send, Apply, DrainTarget, DrainEnds, DeleteTopic, DeleteQueue,
                  MarkFailed, CloseChan
    <3>2. CASE ~HandlerStep
      BY <1>3, <3>2, DiscoveryFrame, ConnectFrame, WatcherFrame, LockFrame, CloudFrame
      DEF Next, vars
    <3> QED
      BY <3>1, <3>2
  <2>3. stack = "none" => stack' = "none"
    <3>1. CASE ResourceCreated \/ CloudFormation
      BY <3>1 DEF ResourceCreated, CloudFormation, StackComplete, ResourceFailed, RolledBack,
                  RollbackFailed, StackStep
    <3>2. CASE ~ResourceCreated /\ ~CloudFormation
      BY <1>3, <3>2, HandlerFrame, DiscoveryFrame, ConnectFrame, WatcherFrame, LockFrame
      DEF Next, vars
    <3> QED
      BY <3>1, <3>2
  <2> QED
    BY <2>1, <2>2, <2>3 DEF OrphansOK
<1> QED
  BY <1>1, <1>2, <1>3 DEF LaunchStep

(* One of them that begins while nothing has failed finds the bastion up.  *)
LEMMA StartsOnActive ==
  ASSUME IInv, LaterOK, ~Failed, NEW g \in Later, pc[g] # "idle"
  PROVE  db = "active" /\ stack = "complete"
<1>1. pc["launch"] = "done" /\ ev["launch"] = NoEvent
  BY DEF IInv, LabelsOK, LaterOK, Later
<1>2. ~Doomed
  BY <1>1 DEF Doomed, NoEvent
<1> QED
  BY <1>1, <1>2 DEF IInv, RowOK, RowAt, StackOK

LEMMA LaterStep == ASSUME IInv, LaterOK, [Next]_vars PROVE LaterOK'
<1> USE DEF lockVars, watchVars, memVars, goVars, cleanVars, awsVars
<1>0. /\ pc \in [Goroutines -> Labels] /\ ev \in [Goroutines -> Events]
      /\ Later \subseteq Goroutines /\ "launch" \in Goroutines \ Later
  BY DEF IInv, TypeOK, GoTypes, Goroutines, Later
<1>1. CASE LaunchStep
  <2>1. ev["launch"] = NoEvent /\ \A g \in Later : pc[g] = "idle" /\ ev'[g] = NoEvent
    BY <1>1, LaunchAlone DEF LaterOK
  <2>2. eventChan' = "nil" => ev'["launch"] = NoEvent
    <3>1. SUFFICES ASSUME eventChan = "nil" PROVE ev'["launch"] = NoEvent
      BY <1>1, LaunchFrame
    <3>2. Skip \/ Spawn
      BY <1>1, <3>1, StagesOver DEF IInv, ChannelOK
    <3> QED
      BY <2>1, <3>2 DEF Skip, Spawn
  <2>3. CASE Spawn
    <3>1. pc["launch"] = "spawn" /\ UNCHANGED <<ev, bastion>>
      BY <2>3 DEF Spawn, At
    <3>2. \A g \in Later : pc'[g] = "start"
      BY <1>1, <2>3, LaunchAlone
    <3>3. bastion' # "nil"
      BY <3>1 DEF LaterOK
    <3> QED
      BY <2>1, <2>2, <3>1, <3>2, <3>3 DEF LaterOK
  <2>4. CASE ~Spawn
    <3>1. \A g \in Later : pc'[g] = "idle"
      BY <1>1, <2>1, <2>4, LaunchAlone
    <3>2. bastion' = "nil" => pc'["launch"] \in {"create", "done"}
      <4>1. CASE CreateBastion
        BY <1>0, <4>1 DEF CreateBastion, Goto
      <4>2. CASE BastionLaunchingState \/ BastionActiveState
        <5>1. bastion' # "nil" \/ (bastion' = bastion /\ pc["launch"] = "bastionActiveState")
          BY <4>2 DEF BastionLaunchingState, BastionActiveState, Enter, At
        <5> QED
          BY <5>1 DEF LaterOK
      <4>3. CASE ~CreateBastion /\ ~BastionLaunchingState /\ ~BastionActiveState
        <5>1. bastion' = bastion /\ pc["launch"] \in Stages
          BY <1>1, <2>4, <4>3
          DEF LaunchStep, GetBastionConfig, GetLatestImageID, GetQueueAttributes, Fetch,
              CreateTopic, CreateQueue, SetQueueAttributes, Subscribe, Wire, CreateStack,
              Receive, ReceiveFails, Skip, Enter, At, Stages
        <5> QED
          BY <5>1 DEF LaterOK, Stages
      <4> QED
        BY <4>1, <4>2, <4>3
    <3> QED
      BY <2>1, <2>2, <3>1, <3>2 DEF LaterOK
  <2> QED
    BY <2>3, <2>4
<1>2. CASE UNCHANGED <<pc, ev, bastion, db, stack, eventChan>>
  BY <1>2 DEF LaterOK
<1>3. CASE Discovery
  <2>1. UNCHANGED <<bastion, db, stack, eventChan>>
    BY <1>3, DiscoveryFrame
  <2>2. CASE StartDiscovery
    <3>1. pc["discovery"] = "start" /\ pc' = [pc EXCEPT !["discovery"] = IF Failed THEN "done" ELSE "scan"]
      BY <2>2 DEF StartDiscovery, At, Goto
    <3>2. ev' = IF Failed THEN ev ELSE [ev EXCEPT !["discovery"] = "in-progress"]
      BY <2>2 DEF StartDiscovery, Event
    <3>3. ~Failed => db = "active" /\ stack = "complete"
      BY <3>1, StartsOnActive DEF Later
    <3>4. bastion # "nil" /\ ev["launch"] = NoEvent
      BY <3>1 DEF LaterOK, Later
    <3> QED
      BY <1>0, <2>1, <3>1, <3>2, <3>3, <3>4 DEF LaterOK, Later
  <2>3. CASE DiscoveryEnds
    <3>1. pc["discovery"] = "scan" /\ pc' = [pc EXCEPT !["discovery"] = "done"]
      BY <2>3 DEF DiscoveryEnds, Scanning, At, Goto
    <3>2. PICK e : ev' = [ev EXCEPT !["discovery"] = e]
      BY <2>3 DEF DiscoveryEnds, Event, Error
    <3> QED
      BY <1>0, <2>1, <3>1, <3>2 DEF LaterOK, Later
  <2>4. CASE DiscoverInstance \/ DiscoverTarget \/ InstanceError \/ GroupError
    BY <1>2, <2>1, <2>4 DEF DiscoverInstance, DiscoverTarget, InstanceError, GroupError, ScanFrame
  <2> QED
    BY <1>3, <2>2, <2>3, <2>4 DEF Discovery
<1>4. CASE Connect
  <2>1. UNCHANGED <<bastion, db, stack, eventChan>>
    BY <1>4, ConnectFrame
  <2>2. CASE StartConnect
    <3>1. pc["connect"] = "start" /\ pc' = [pc EXCEPT !["connect"] = IF Failed THEN "done" ELSE "poll"]
      BY <2>2 DEF StartConnect, At, Goto
    <3>2. ev' = ev
      BY <2>2 DEF StartConnect
    <3>3. ~Failed => db = "active" /\ stack = "complete"
      BY <3>1, StartsOnActive DEF Later
    <3> QED
      BY <1>0, <2>1, <3>1, <3>2, <3>3 DEF LaterOK, Later
  <2>3. CASE Poll
    <3>1. pc["connect"] = "poll" /\ (pc' = pc \/ pc' = [pc EXCEPT !["connect"] = "done"])
      BY <2>3 DEF Poll, At, Goto
    <3>2. PICK e : ev' = [ev EXCEPT !["connect"] = e]
      BY <2>3 DEF Poll, Event, Error
    <3> QED
      BY <1>0, <2>1, <3>1, <3>2 DEF LaterOK, Later
  <2> QED
    BY <1>4, <2>2, <2>3 DEF Connect
<1>5. CASE Apply
  <2>1. UNCHANGED <<pc, bastion, db, stack, eventChan>>
    BY <1>5 DEF Apply
  <2>2. ev' = ev \/ ev' = [ev EXCEPT ![mutex] = NoEvent]
    BY <1>5 DEF Apply, Return
  <2> QED
    BY <1>0, <2>1, <2>2 DEF LaterOK
<1>6. CASE CloseChan
  <2>1. UNCHANGED <<pc, bastion, db, stack>> /\ step = "close"
    BY <1>6 DEF CloseChan, Handler
  <2>2. \/ ev' = ev /\ eventChan' = eventChan
        \/ ev' = [ev EXCEPT ![mutex] = NoEvent] /\ eventChan' = "nil"
    BY <1>6 DEF CloseChan, Return
  <2>3. mutex \in Goroutines /\ ev[mutex] # NoEvent
    BY <2>1 DEF IInv, LockOK, TypeOK, HandlerTypes
  <2>4. mutex # "launch" => ev["launch"] = NoEvent
    BY <2>3 DEF LaterOK, Later, Goroutines
  <2> QED
    BY <1>0, <2>1, <2>2, <2>3, <2>4 DEF LaterOK
<1>7. CASE MarkFailed
  <2>1. UNCHANGED <<pc, ev, stack, eventChan>> /\ db' \in {db, "failed"}
    BY <1>7 DEF MarkFailed
  <2>2. bastion' = "nil" => bastion = "nil"
    BY <1>7 DEF MarkFailed
  <2> QED
    BY <2>1, <2>2 DEF LaterOK
<1>8. CASE \/ Send \/ DrainTarget \/ DrainEnds \/ DeleteTopic \/ DeleteQueue \/ Watcher
           \/ (\E g \in Goroutines : Lock(g)) \/ UNCHANGED vars
  <2>1. UNCHANGED <<pc, ev, bastion, db, stack, eventChan>>
    BY <1>8, WatcherFrame, LockFrame
    DEF Send, DrainTarget, DrainEnds, DeleteTopic, DeleteQueue, vars
  <2> QED
    BY <1>2, <2>1
<1>9. CASE ResourceCreated \/ CloudFormation
  <2>1. UNCHANGED <<pc, ev, bastion, db, eventChan>>
    BY <1>9, CloudFrame
  <2>2. stack # "complete"
    BY <1>9 DEF ResourceCreated, CloudFormation, StackComplete, ResourceFailed, RolledBack,
                RollbackFailed, StackStep
  <2> QED
    BY <2>1, <2>2 DEF LaterOK
<1> QED
  BY <1>1, <1>3, <1>4, <1>5, <1>6, <1>7, <1>8, <1>9 DEF Next, HandlerStep

(***************************************************************************)
(* The process                                                             *)
(***************************************************************************)
(* A dead process takes no step: only CloudFormation goes on. *)
LEMMA Dead ==
  ASSUME IInv, process # "up", Next
  PROVE  UNCHANGED <<process, err, bastion, pc, ev, db>> /\ (stack = "complete" => stack' = stack)
<1>1. ~LaunchStep
  BY DEF LaunchStep, CreateBastion, GetBastionConfig, GetLatestImageID, GetQueueAttributes,
         Fetch, CreateTopic, CreateQueue, SetQueueAttributes, Subscribe, Wire, CreateStack,
         BastionLaunchingState, Receive, ReceiveFails, BastionActiveState, Skip, Spawn,
         Enter, At, Running
<1>2. ~Discovery /\ ~Connect
  BY DEF Discovery, StartDiscovery, DiscoverInstance, DiscoverTarget, InstanceError,
         GroupError, DiscoveryEnds, Scanning, Connect, StartConnect, Poll, At, Running
<1>3. ~HandlerStep /\ ~Watcher /\ ~\E g \in Goroutines : Lock(g)
  BY DEF HandlerStep, Send, Apply, DrainTarget, DrainEnds, DeleteTopic, DeleteQueue,
         MarkFailed, CloseChan, Handler, Watcher, Publish, Notify, Lock
<1>4. ResourceCreated \/ CloudFormation
  BY <1>1, <1>2, <1>3 DEF Next
<1> QED
  BY <1>4, CloudFrame
  DEF ResourceCreated, CloudFormation, StackComplete, ResourceFailed, RolledBack,
      RollbackFailed, StackStep, goVars, memVars

LEMMA PanicStep ==
  ASSUME IInv, LaterOK, PanicOnlyAfterFailure, [Next]_vars
  PROVE  PanicOnlyAfterFailure'
<1>1. CASE process # "up"
  <2>1. UNCHANGED <<process, err, bastion, pc, ev, db>> /\ (stack = "complete" => stack' = stack)
    BY <1>1, Dead DEF vars, goVars, memVars, awsVars
  <2> QED
    BY <2>1 DEF PanicOnlyAfterFailure, Failed
<1>2. CASE process' = "up"
  BY <1>2 DEF PanicOnlyAfterFailure
<1>3. CASE Notify /\ process' = "nil-bastion"
  <2>1. /\ bastion = "nil" /\ eventChan = "nil" /\ UNCHANGED <<err, bastion, pc>>
    BY <1>3 DEF Notify, memVars, goVars
  <2>2. pc["discovery"] = "idle"
    BY <2>1 DEF LaterOK, Later
  <2>3. Failed
    <3>1. SUFFICES ASSUME ~Failed PROVE FALSE
      OBVIOUS
    <3> QED
      BY <2>1, <2>2, <3>1, Completed DEF IInv, ChannelOK, Goroutines
  <2> QED
    BY <1>3, <2>1, <2>2, <2>3 DEF PanicOnlyAfterFailure, Failed
<1>4. CASE CloseChan /\ process' = "closed-nil"
  <2>1. /\ step = "close" /\ eventChan = "nil"
        /\ UNCHANGED <<err, bastion, pc, ev, db, stack>>
    BY <1>4 DEF CloseChan, Handler, awsVars, IInv, TypeOK, HandlerTypes, PanicOnlyAfterFailure
  <2>2. Failed
    BY <2>1 DEF IInv, ChannelOK
  <2>3. mutex \in Later /\ ev[mutex] # NoEvent
    BY <2>1 DEF IInv, LockOK, TypeOK, HandlerTypes, LaterOK, Later, Goroutines
  <2>4. db \in {"active", "failed"} /\ stack = "complete"
    BY <2>3 DEF LaterOK
  <2> QED
    BY <1>4, <2>1, <2>2, <2>3, <2>4 DEF PanicOnlyAfterFailure, Failed, Later
<1>5. CASE process = "up" /\ process' # "up"
  <2>1. ~LaunchStep /\ ~Discovery /\ ~Connect /\ ~(\E g \in Goroutines : Lock(g))
    BY <1>5, LaunchFrame, DiscoveryFrame, ConnectFrame, LockFrame
  <2>2. ~ResourceCreated /\ ~CloudFormation /\ ~UNCHANGED vars
    BY <1>5, CloudFrame DEF vars
  <2>3. HandlerStep => CloseChan /\ process' = "closed-nil"
    BY <1>5 DEF HandlerStep, Send, Apply, DrainTarget, DrainEnds, DeleteTopic, DeleteQueue,
                MarkFailed, CloseChan
  <2>4. Watcher => Notify /\ process' = "nil-bastion"
    BY <1>5 DEF Watcher, Publish, Notify
  <2> QED
    BY <1>3, <1>4, <2>1, <2>2, <2>3, <2>4 DEF Next
<1> QED
  BY <1>1, <1>2, <1>5

(***************************************************************************)
(* The path from the stack to consumeSQS                                   *)
(***************************************************************************)
(* While no stage has failed nothing that was set up is taken down.        *)
LEMMA PathKept ==
  ASSUME IInv, [Next]_vars, ~LaunchStep, ~Doomed', pc["launch"] # "done"
  PROVE  ~Doomed /\ UNCHANGED <<existing, wired>> /\ pc'["launch"] = pc["launch"]
<1> USE DEF awsVars
<1>1. ~Doomed /\ pc'["launch"] = pc["launch"]
  BY OthersUndoomed
<1>2. ASSUME step \in Cleanup PROVE FALSE
  <2>1. ~Failed /\ state = 0
    BY <1>1, <1>2 DEF IInv, LockOK, Doomed
  <2> QED
    BY <2>1, Completed DEF Goroutines
<1>3. CASE HandlerStep
  <2>1. UNCHANGED existing
    BY <1>2, <1>3 DEF HandlerStep, Send, Apply, DrainTarget, DrainEnds, DeleteTopic, DeleteQueue,
                      MarkFailed, CloseChan, Handler, Cleanup
  <2> QED
    BY <1>1, <1>3, <2>1, HandlerFrame
<1>4. CASE ~HandlerStep
  BY <1>1, <1>4, DiscoveryFrame, ConnectFrame, WatcherFrame, LockFrame, CloudFrame DEF Next, vars
<1> QED
  BY <1>3, <1>4

LEMMA PathStep == ASSUME IInv, PathOK, [Next]_vars PROVE PathOK'
<1> SUFFICES ASSUME ~Doomed' PROVE PathOK'
  BY DEF PathOK
<1> USE DEF FromAttributes, AtStack
<1>0. pc \in [Goroutines -> Labels] /\ "launch" \in Goroutines
      /\ pc["launch"] \in Stages \cup {"create", "spawn", "done"}
  BY DEF IInv, TypeOK, GoTypes, LabelsOK, Goroutines
<1>1. CASE LaunchStep
  <2> USE DEF Enter, Proceed, Abort, Leave, At, Running, Goto, After
  <2>1. ~Doomed /\ ev \in [Goroutines -> Events]
    BY <1>1, LaunchStepUndoomed
  <2>2. \A s : Abort(s) => Doomed'
    BY <1>0, <2>1 DEF Error, Doomed
  <2>3. CASE CreateBastion
    BY <1>0, <2>1, <2>3 DEF CreateBastion, Doomed, Error, PathOK
  <2>4. CASE GetBastionConfig \/ GetLatestImageID \/ GetQueueAttributes
    BY <1>0, <2>1, <2>2, <2>4
    DEF GetBastionConfig, GetLatestImageID, GetQueueAttributes, Fetch, PathOK, awsVars
  <2>5. CASE CreateTopic \/ CreateQueue
    BY <1>0, <2>1, <2>2, <2>5 DEF CreateTopic, CreateQueue, PathOK
  <2>6. CASE SetQueueAttributes \/ Subscribe
    BY <1>0, <2>1, <2>2, <2>6 DEF SetQueueAttributes, Subscribe, Wire, PathOK
  <2>7. CASE CreateStack
    BY <1>0, <2>1, <2>2, <2>7 DEF CreateStack, PathOK
  <2>8. CASE BastionLaunchingState \/ BastionActiveState
    BY <1>0, <2>1, <2>2, <2>8 DEF BastionLaunchingState, BastionActiveState, PathOK, awsVars
  <2>9. CASE Receive \/ ReceiveFails
    BY <1>0, <2>1, <2>2, <2>9 DEF Receive, ReceiveFails, PathOK
  <2>10. CASE Skip
    BY <2>1, <2>10 DEF Skip, Doomed
  <2>11. CASE Spawn
    BY <1>0, <2>1, <2>11 DEF Spawn, PathOK
  <2> QED
    BY <1>1, <2>3, <2>4, <2>5, <2>6, <2>7, <2>8, <2>9, <2>10, <2>11 DEF LaunchStep
<1>2. CASE ~LaunchStep
  <2>1. CASE pc["launch"] = "done"
    BY <1>2, <2>1, OthersUndoomed DEF PathOK
  <2>2. CASE pc["launch"] # "done"
    BY <1>2, <2>2, PathKept DEF PathOK
  <2> QED
    BY <2>1, <2>2
<1> QED
  BY <1>1, <1>2

(* What CfState makes of the two messages that end the wait. *)
LEMMA FinalMessages ==
  /\ CfState(Message("CREATE_COMPLETE", "stack")) = "complete"
  /\ CfState(Message("ROLLBACK_COMPLETE", "stack")) = "rollback"
<1>1. \A a, b : Message(a, b).status = a /\ Message(a, b).about = b
  BY DEF Message
<1> QED
  BY <1>1 DEF CfState

LEMMA ToldStep == ASSUME IInv, PathOK, ToldOK, [Next]_vars PROVE ToldOK'
<1> DEFINE Completion == Message("CREATE_COMPLETE", "stack")
           Rollback == Message("ROLLBACK_COMPLETE", "stack")
           Told == /\ stack # "none" /\ (stack = "complete" => Completion \in sqs)
                   /\ (stack = "rolled-back" => Rollback \in sqs)
<1> SUFFICES ASSUME ~Doomed', pc'["launch"] \in Waits PROVE Told'
  BY DEF ToldOK
<1>0. /\ pc \in [Goroutines -> Labels] /\ "launch" \in Goroutines
      /\ pc["launch"] \in Stages \cup {"create", "spawn", "done"}
      /\ existing \subseteq {"topic", "queue"} /\ wired \subseteq {"policy", "subscription"}
  BY DEF IInv, TypeOK, GoTypes, ResourceTypes, LabelsOK, Goroutines
<1>00. ~Doomed /\ pc["launch"] \in Waits => Told
  BY DEF ToldOK
<1>000. CfState(Completion) = "complete" /\ CfState(Rollback) = "rollback"
  BY FinalMessages
<1> HIDE DEF Completion, Rollback
<1>1. CASE LaunchStep
  <2> USE DEF Enter, Proceed, Abort, Leave, At, Running, Goto, After, Waits
  <2>1. ~Doomed /\ ev \in [Goroutines -> Events]
    BY <1>1, LaunchStepUndoomed
  <2>2. \A s : Abort(s) => Doomed'
    BY <1>0, <2>1 DEF Error, Doomed
  <2>3. CASE CreateStack
    BY <1>0, <2>2, <2>3 DEF CreateStack
  <2>4. CASE BastionLaunchingState
    BY <1>0, <1>00, <2>1, <2>2, <2>4 DEF BastionLaunchingState, awsVars
  <2>5. CASE Receive
    <3>1. PICK m \in sqs :
            /\ sqs' = sqs \ {m}
            /\ \/ CfState(m) = "rollback" /\ Abort("consumeSQS")
               \/ CfState(m) = "complete" /\ Proceed("consumeSQS")
               \/ /\ CfState(m) \in {"launching", "failed"}
                  /\ Event("launch", "in-progress") /\ UNCHANGED pc
               \/ CfState(m) = "launching" /\ UNCHANGED pc
      BY <2>5 DEF Receive, goVars
    <3>2. ~Proceed("consumeSQS")
      BY <1>0
    <3>3. m # Completion /\ m # Rollback /\ UNCHANGED <<pc, stack>>
      BY <1>000, <2>2, <2>5, <3>1, <3>2 DEF Receive
    <3> QED
      BY <1>00, <2>1, <3>1, <3>3
  <2>6. CASE ReceiveFails
    BY <2>2, <2>6 DEF ReceiveFails
  <2>7. CASE CreateBastion \/ Spawn \/ BastionActiveState
    BY <1>0, <2>2, <2>7 DEF CreateBastion, Spawn, BastionActiveState
  <2>8. CASE Skip
    BY <2>1, <2>8 DEF Skip, Doomed
  <2>9. CASE GetBastionConfig \/ GetLatestImageID \/ GetQueueAttributes
    BY <1>0, <2>2, <2>9 DEF GetBastionConfig, GetLatestImageID, GetQueueAttributes, Fetch
  <2>10. CASE CreateTopic \/ CreateQueue \/ SetQueueAttributes \/ Subscribe
    BY <1>0, <2>2, <2>10 DEF CreateTopic, CreateQueue, SetQueueAttributes, Subscribe, Wire
  <2> QED
    BY <1>1, <2>3, <2>4, <2>5, <2>6, <2>7, <2>8, <2>9, <2>10 DEF LaunchStep
<1>2. CASE ~LaunchStep
  <2>1. ~Doomed /\ pc["launch"] \in Waits /\ Told
    BY <1>00, <1>2, OthersUndoomed
  <2>2. CASE ResourceCreated \/ CloudFormation
    <3>1. existing = {"topic", "queue"} /\ wired = {"policy", "subscription"}
      BY <1>0, <2>1 DEF PathOK, Waits, FromAttributes, AtStack
    <3>2. \A from, to, m : StackStep(from, to, m) => stack' = to /\ sqs' = sqs \cup {m}
      BY <3>1 DEF StackStep, Post
    <3>3. \/ stack' = "complete" /\ Completion \in sqs'
          \/ stack' = "rolled-back" /\ Rollback \in sqs'
          \/ stack' \in {"creating", "rolling-back", "stuck"}
      BY <2>2, <3>2
      DEF ResourceCreated, CloudFormation, StackComplete, ResourceFailed, RolledBack,
          RollbackFailed, Completion, Rollback
    <3> QED
      BY <3>3
  <2>3. CASE ~ResourceCreated /\ ~CloudFormation
    <3>1. UNCHANGED <<stack, sqs>>
      BY <1>2, <2>3, HandlerFrame, DiscoveryFrame, ConnectFrame, WatcherFrame, LockFrame
      DEF Next, vars, awsVars
    <3> QED
      BY <2>1, <3>1
  <2> QED
    BY <2>2, <2>3
<1> QED
  BY <1>1, <1>2

LEMMA EndInvariance == Spec => [](IInv /\ EndInv)
<1>1. Init => IInv /\ EndInv
  BY InitIInv, InitEnd
<1>2. IInv /\ EndInv /\ [Next]_vars => (IInv /\ EndInv)'
  BY StepIInv, WatchStep, CleanStep, LaterStep, PathStep, ToldStep, OrphansStep,
     PanicStep
  DEF EndInv
<1> QED
  BY <1>1, <1>2, PTL DEF Spec

(***************************************************************************)
(* What follows                                                            *)
(***************************************************************************)
(* The event that watchLaunch received last and the notification it sends  *)
(* when the channel is closed agree: the handler sends before it decides,  *)
(* and nothing is sent or decided after the end.                           *)
THEOREM Notification == Spec => []NotificationMatchesLastEvent
<1>1. IInv /\ EndInv => NotificationMatchesLastEvent
  BY DEF IInv, EndInv, ChannelOK, WatchOK, LastEvent, NotificationMatchesLastEvent
<1> QED
  BY EndInvariance, <1>1, PTL

(* No event follows the one that announced the failure: handleEvent closes *)
(* the channel before it lets another goroutine in.                        *)
THEOREM LastWord == Spec => FailureIsTheLastWord
<1>1. ASSUME IInv, EndInv, [Next]_vars
      PROVE  [watched = "failed" => watched' = watched]_watched
  <2>1. CASE Send
    BY <1>1, <2>1 DEF Send, Handler, EndInv, WatchOK
  <2>2. CASE HandlerStep /\ ~Send
    BY <2>2 DEF HandlerStep, Apply, DrainTarget, DrainEnds, DeleteTopic, DeleteQueue,
                MarkFailed, CloseChan, watchVars
  <2>3. CASE Watcher \/ Discovery \/ Connect \/ LaunchStep \/ \E g \in Goroutines : Lock(g)
    BY <2>3, WatcherFrame, DiscoveryFrame, ConnectFrame, LaunchFrame, LockFrame DEF watchVars
  <2>4. CASE ResourceCreated \/ CloudFormation \/ UNCHANGED vars
    BY <2>4, CloudFrame DEF vars, watchVars
  <2> QED
    BY <1>1, <2>1, <2>2, <2>3, <2>4 DEF Next
<1> QED
  BY EndInvariance, <1>1, PTL DEF Spec, FailureIsTheLastWord

(* When cleanup has written its last line: the topic and queue that the    *)
(* launch has an answer about are gone, or could not be deleted; a failed  *)
(* launch's row says so, or could not be updated; and a resource that      *)
(* nobody knows of is the only one, of a launch that failed before it had  *)
(* a stack.  The stack itself is not among what cleanup deletes.           *)
THEOREM Cleaned == Spec => []LeftoversAccountedFor
<1>1. IInv /\ EndInv => LeftoversAccountedFor
  <2> SUFFICES ASSUME IInv, EndInv, cleaned # "no"
               PROVE  /\ existing \cap outputs \subseteq undeleted /\ RowSettled
                      /\ Orphans # {} =>
                           Failed /\ stack = "none" /\ Cardinality(Orphans) = 1
    BY DEF LeftoversAccountedFor, RowSettled, Orphans
  <2>1. Gone("topic") /\ Gone("queue") /\ RowSettled /\ (Failed \/ state = 0)
    BY DEF EndInv, CleanOK
  <2>2. outputs \subseteq {"topic", "queue"}
    BY DEF IInv, TypeOK, HandlerTypes
  <2>3. ASSUME Orphans # {} PROVE Failed /\ stack = "none" /\ Cardinality(Orphans) = 1
    <3>1. stack = "none" /\ \A r, s \in Orphans : r = s
      BY <2>3 DEF EndInv, OrphansOK
    <3>2. Failed
      BY <2>1, <3>1, Completed
    <3>3. PICK r : Orphans = {r}
      BY <2>3, <3>1
    <3> QED
      BY <3>1, <3>2, <3>3, FS_Singleton
  <2> QED
    BY <2>1, <2>2, <2>3 DEF Gone
<1> QED
  BY EndInvariance, <1>1, PTL

(* A process dies of a launch only when that launch failed: notifying one  *)
(* whose bastion was never made, or closing the channel of an activated    *)
(* one a second time, for the discovery or the connection poll.            *)
THEOREM Panics == Spec => []PanicOnlyAfterFailure
<1>1. EndInv => PanicOnlyAfterFailure
  BY DEF EndInv
<1> QED
  BY EndInvariance, <1>1, PTL

(* No end of a stack is missed: a launch that is in consumeSQS and has not *)
(* failed finds the message about it in its queue, unless the stack is     *)
(* still being built or rolled back, or is stuck.                          *)
NoEndMissed ==
  pc["launch"] = "consumeSQS" /\ ~Doomed =>
    \/ stack \in {"creating", "rolling-back", "stuck"}
    \/ \E m \in sqs : CfState(m) \in {"complete", "rollback"}

(* For every account: the topic, queue, policy and subscription stay in    *)
(* place while consumeSQS polls, so that the fairness of Receive and       *)
(* CloudFormation is enough to get a launch past it.                       *)
THEOREM Waiting == Spec => []NoEndMissed
<1>1. IInv /\ EndInv => NoEndMissed
  <2> SUFFICES ASSUME IInv, EndInv, pc["launch"] = "consumeSQS", ~Doomed,
                      stack \notin {"creating", "rolling-back", "stuck"}
               PROVE  \E m \in sqs : CfState(m) \in {"complete", "rollback"}
    BY DEF NoEndMissed
  <2>1. stack = "complete" \/ stack = "rolled-back"
    BY DEF IInv, TypeOK, ResourceTypes, EndInv, ToldOK, Waits
  <2>2. \/ Message("CREATE_COMPLETE", "stack") \in sqs
        \/ Message("ROLLBACK_COMPLETE", "stack") \in sqs
    BY <2>1 DEF EndInv, ToldOK, Waits
  <2> QED
    BY <2>2, FinalMessages
<1> QED
  BY EndInvariance, <1>1, PTL

(* handleEvent does not send to a watchLaunch that has returned. *)
SendIsReceived == step = "send" => watcher # "done"

(* The send on EventChan, made with stateMut held, is received as soon as  *)
(* watchLaunch has published the event before it: no goroutine of a launch *)
(* is left locked out by a send that nobody will receive.                  *)
THEOREM Relayed == Spec => []SendIsReceived
<1>1. IInv /\ EndInv => SendIsReceived
  BY DEF IInv, ChannelOK, EndInv, WatchOK, SendIsReceived
<1> QED
  BY EndInvariance, <1>1, PTL
=============================================================================
