------------------------------- MODULE Launch -------------------------------
(***************************************************************************)
(* One bastion launch of keelhaul: the goroutines that run it (the         *)
(* sequential stages, VPC discovery, the connection poll), the event       *)
(* handler they share under stateMut, the goroutine that relays events to  *)
(* the bus and finally notifies the user, and the AWS resources and the    *)
(* database row the launch leaves behind.                                  *)
(*   launcher/launcher.go, launcher/launch.go, launcher/stage_*.go         *)
(***************************************************************************)
EXTENDS Naturals, FiniteSets

CONSTANTS
  Instances,    \* EC2 instances a discovery may report, each any number of times
  DBs,          \* RDS instances, reported once each
  LBs,          \* load balancers, reported once each
  MaxAttempts,  \* connectAttempts, 50 in the code
  MaxErrors,    \* bound on the discovery errors of each kind
  Global        \* the customer is MagicExgid, whose bastions get no checks

ASSUME BoundsAssumption == MaxAttempts \in Nat /\ MaxErrors \in Nat
ASSUME GlobalAssumption == Global \in BOOLEAN
ASSUME ResourcesAssumption == IsFiniteSet(Instances) /\ IsFiniteSet(DBs)

VARIABLES
  process,      \* "up", or the nil dereference or nil close that killed it
  pc, ev,       \* per goroutine: where it is, the event it is handling
  mutex, step,  \* the holder of stateMut, and its place in handleEvent
  eventChan,    \* launch.EventChan
  watcher, watched, notified,   \* watchLaunch, its last event, its notification
  err, state, bastion,          \* launch.Err, launch.state, Bastion.State
  outputs,                      \* the createTopicOutput, createQueueOutput kept
  cleanErr, undeleted, cleaned, \* cleanup: its err, what failed, its last log line
  db,                           \* state of the bastion's row
  existing, wired, stack, sqs,                    \* the customer's AWS account
  instances, targets, instErr, grpErr, lastErr,   \* VPCEnvironment and the pool
  drained, checks,              \* targets drained, targets whose check exists
  attempts                      \* launch.connectAttempts

goVars     == <<pc, ev>>
lockVars   == <<mutex, step>>
watchVars  == <<watcher, watched, notified>>
memVars    == <<err, state, bastion, eventChan>>
cleanVars  == <<cleanErr, undeleted, cleaned>>
awsVars    == <<existing, wired, stack, sqs>>
discoVars  == <<instances, targets, instErr, grpErr, lastErr>>
checkVars  == <<drained, checks>>
vars == <<process, goVars, lockVars, watchVars, memVars, outputs, cleanVars,
          db, awsVars, discoVars, checkVars, attempts>>

Goroutines == {"launch", "discovery", "connect"}
NoEvent == "none"
Free == "nobody"
Targets == DBs \cup LBs
Rows == {"none", "new", "launching", "active", "failed"}

(* A CloudFormation notification: the status it reports, and whether it is *)
(* about the customer's stack itself or about one resource in it.          *)
Message(status, about) == [status |-> status, about |-> about]
Messages == {Message("CREATE_COMPLETE", "resource"), Message("CREATE_FAILED", "resource"),
             Message("CREATE_COMPLETE", "stack"), Message("ROLLBACK_COMPLETE", "stack"),
             Message("ROLLBACK_FAILED", "stack")}

Init ==
  /\ process = "up"
  /\ pc = [g \in Goroutines |-> IF g = "launch" THEN "create" ELSE "idle"]
  /\ ev = [g \in Goroutines |-> NoEvent]
  /\ mutex = Free /\ step = "idle" /\ eventChan = "open"
  /\ watcher = "recv" /\ watched = NoEvent /\ notified = "no"
  /\ err = "nil" /\ state = 3 /\ bastion = "nil"
  /\ outputs = {} /\ cleanErr = "nil" /\ undeleted = {} /\ cleaned = "no"
  /\ db = "none"
  /\ existing = {} /\ wired = {} /\ stack = "none" /\ sqs = {}
  /\ instances = {} /\ targets = {} /\ instErr = 0 /\ grpErr = 0 /\ lastErr = "nil"
  /\ drained = {} /\ checks = {} /\ attempts = 1

(***************************************************************************)
(* Goroutines.  One is in handleEvent as long as ev holds its event, the   *)
(* state of its message; its own code runs again when the handler returns. *)
(* "failed-nil" would be a failure whose error is nil.                     *)
(***************************************************************************)
Running(g) == process = "up" /\ ev[g] = NoEvent
At(g, l) == Running(g) /\ pc[g] = l
Goto(g, l) == pc' = [pc EXCEPT ![g] = l]
Event(g, s) == ev' = [ev EXCEPT ![g] = s]
Error(g, e) == ev' = [ev EXCEPT ![g] = IF e = "nil" THEN "failed-nil" ELSE "failed"]

Failed == err # "nil"

(* stage(): State() takes the read lock, and a failed launch skips. *)
Enter(s) == At("launch", s) /\ mutex = Free /\ ~Failed

(* Where the sequence of Launch() goes after each stage. *)
After(s) ==
  CASE s = "getBastionConfig"      -> "getLatestImageID"
    [] s = "getLatestImageID"      -> "createTopic"
    [] s = "createTopic"           -> "createQueue"
    [] s = "createQueue"           -> "getQueueAttributes"
    [] s = "getQueueAttributes"    -> "setQueueAttributes"
    [] s = "setQueueAttributes"    -> "subscribe"
    [] s = "subscribe"             -> "createStack"
    [] s = "createStack"           -> "bastionLaunchingState"
    [] s = "bastionLaunchingState" -> "consumeSQS"
    [] s = "consumeSQS"            -> "bastionActiveState"
    [] s = "bastionActiveState"    -> "spawn"

Stages == {"getBastionConfig", "getLatestImageID", "createTopic", "createQueue",
           "getQueueAttributes", "setQueueAttributes", "subscribe", "createStack",
           "bastionLaunchingState", "consumeSQS", "bastionActiveState"}
Leave(s) == Goto("launch", After(s))
Proceed(s) == Leave(s) /\ Event("launch", "in-progress")
Abort(s) == Leave(s) /\ Error("launch", "error")

Skip ==
  /\ \E s \in Stages : At("launch", s) /\ Leave(s)
  /\ mutex = Free /\ Failed
  /\ UNCHANGED <<process, ev, lockVars, watchVars, memVars, outputs, cleanVars,
                 db, awsVars, discoVars, checkVars, attempts>>

(* CreateBastion, in the request: a failed insert may still have happened. *)
CreateBastion ==
  /\ At("launch", "create")
  /\ \/ /\ db' = "new" /\ bastion' = "new"
        /\ Goto("launch", "getBastionConfig") /\ Event("launch", "in-progress")
     \/ /\ db' \in {"none", "new"} /\ bastion' = bastion
        /\ Goto("launch", "done") /\ Error("launch", "error")
  /\ UNCHANGED <<process, lockVars, watchVars, err, state, eventChan, outputs,
                 cleanVars, awsVars, discoVars, checkVars, attempts>>

(* The stages that only read: the result is used by later calls alone. *)
Fetch(s) ==
  /\ Enter(s) /\ (Proceed(s) \/ Abort(s))
  /\ UNCHANGED <<process, lockVars, watchVars, memVars, outputs, cleanVars, db,
                 awsVars, discoVars, checkVars, attempts>>
GetBastionConfig == Fetch("getBastionConfig")
GetLatestImageID == Fetch("getLatestImageID")
GetQueueAttributes == Fetch("getQueueAttributes")

(* The retried calls.  backoff.Retry stops at the first attempt that is    *)
(* answered, or gives up after five seconds; an attempt whose answer is    *)
(* lost may have taken effect.                                             *)
CreateTopic ==
  /\ Enter("createTopic")
  /\ \/ /\ existing' = existing \cup {"topic"} /\ outputs' = outputs \cup {"topic"}
        /\ Proceed("createTopic")
     \/ /\ existing' \in {existing, existing \cup {"topic"}} /\ UNCHANGED outputs
        /\ Abort("createTopic")
  /\ UNCHANGED <<process, lockVars, watchVars, memVars, cleanVars, db,
                 wired, stack, sqs, discoVars, checkVars, attempts>>

CreateQueue ==
  /\ Enter("createQueue")
  /\ \/ /\ existing' = existing \cup {"queue"} /\ outputs' = outputs \cup {"queue"}
        /\ Proceed("createQueue")
     \/ /\ existing' \in {existing, existing \cup {"queue"}} /\ UNCHANGED outputs
        /\ Abort("createQueue")
  /\ UNCHANGED <<process, lockVars, watchVars, memVars, cleanVars, db,
                 wired, stack, sqs, discoVars, checkVars, attempts>>

Wire(s, link) ==
  /\ Enter(s)
  /\ \/ wired' = wired \cup {link} /\ Proceed(s)
     \/ wired' \in {wired, wired \cup {link}} /\ Abort(s)
  /\ UNCHANGED <<process, lockVars, watchVars, memVars, outputs, cleanVars, db,
                 existing, stack, sqs, discoVars, checkVars, attempts>>
SetQueueAttributes == Wire("setQueueAttributes", "policy")
Subscribe == Wire("subscribe", "subscription")

(* A stack name is taken once: after a lost answer the next attempt is     *)
(* refused, so the stage fails while the stack is being built.             *)
CreateStack ==
  /\ Enter("createStack")
  /\ \/ stack' = "creating" /\ Proceed("createStack")
     \/ stack' \in {"none", "creating"} /\ Abort("createStack")
  /\ UNCHANGED <<process, lockVars, watchVars, memVars, outputs, cleanVars, db,
                 existing, wired, sqs, discoVars, checkVars, attempts>>

(* Bastion.Launch() changes the object whether or not the row follows. *)
BastionLaunchingState ==
  /\ Enter("bastionLaunchingState")
  /\ bastion' = "launching"
  /\ \/ db' = "launching" /\ Leave("bastionLaunchingState") /\ UNCHANGED ev
     \/ db' \in {db, "launching"} /\ Abort("bastionLaunchingState")
  /\ UNCHANGED <<process, lockVars, watchVars, err, state, eventChan, outputs,
                 cleanVars, awsVars, discoVars, checkVars, attempts>>

(* Faulty variants of CfState: any completed resource ends the wait; a      *)
(* rollback does not.                                                      *)
CfStateOfAnyResource(m) ==
  CASE m.status = "CREATE_FAILED" -> "failed"
    [] m.status = "CREATE_COMPLETE" -> "complete"
    [] m.status = "ROLLBACK_COMPLETE" -> "rollback"
    [] OTHER -> "launching"
CfStateWithoutRollback(m) ==
  CASE m.status = "CREATE_FAILED" -> "failed"
    [] m.about = "stack" /\ m.status = "CREATE_COMPLETE" -> "complete"
    [] OTHER -> "launching"

(* cfMessage.state: any failed resource is "failed"; only the stack's own   *)
(* CREATE_COMPLETE or ROLLBACK_COMPLETE ends the wait.                      *)
CfState(m) ==
  CASE m.status = "CREATE_FAILED" -> "failed"
    [] m.about = "stack" /\ m.status = "CREATE_COMPLETE" -> "complete"
    [] m.about = "stack" /\ m.status = "ROLLBACK_COMPLETE" -> "rollback"
    [] OTHER -> "launching"

(* One message of consumeSQS's loop, received and deleted.  The loop does   *)
(* not look at err again, which only this goroutine can set by then.  A    *)
(* message without a text is skipped: it is one of those that end nothing. *)
Receive ==
  /\ Enter("consumeSQS")
  /\ \E m \in sqs :
       /\ sqs' = sqs \ {m}
       /\ \/ CfState(m) = "rollback" /\ Abort("consumeSQS")
          \/ CfState(m) = "complete" /\ Proceed("consumeSQS")
          \/ /\ CfState(m) \in {"launching", "failed"}
             /\ Event("launch", "in-progress") /\ UNCHANGED pc
          \/ CfState(m) = "launching" /\ UNCHANGED goVars
  /\ UNCHANGED <<process, lockVars, watchVars, memVars, outputs, cleanVars, db,
                 existing, wired, stack, discoVars, checkVars, attempts>>

(* Receiving, decoding, deleting or parsing fails: the message is left in  *)
(* the queue, or deleted before its text is parsed.                        *)
ReceiveFails ==
  /\ Enter("consumeSQS") /\ Abort("consumeSQS")
  /\ sqs' \in {sqs} \cup {sqs \ {m} : m \in sqs}
  /\ UNCHANGED <<process, lockVars, watchVars, memVars, outputs, cleanVars, db,
                 existing, wired, stack, discoVars, checkVars, attempts>>

(* ListStackResources fails before the bastion is touched; the update may  *)
(* fail after Bastion.Activate() changed the object.                       *)
BastionActiveState ==
  /\ Enter("bastionActiveState")
  /\ \/ /\ bastion' = "active" /\ db' = "active"
        /\ Leave("bastionActiveState") /\ Event("launch", "complete")
     \/ /\ bastion' = "active" /\ db' \in {db, "active"}
        /\ Abort("bastionActiveState")
     \/ UNCHANGED <<bastion, db>> /\ Abort("bastionActiveState")
  /\ UNCHANGED <<process, lockVars, watchVars, err, state, eventChan, outputs,
                 cleanVars, awsVars, discoVars, checkVars, attempts>>

(* The two go statements that end Launch(); they run whatever failed. *)
Spawn ==
  /\ At("launch", "spawn")
  /\ pc' = [g \in Goroutines |-> IF g = "launch" THEN "done" ELSE "start"]
  /\ UNCHANGED <<process, ev, lockVars, watchVars, memVars, outputs, cleanVars,
                 db, awsVars, discoVars, checkVars, attempts>>

(***************************************************************************)
(* VPC discovery                                                           *)
(***************************************************************************)
StartDiscovery ==
  /\ At("discovery", "start") /\ mutex = Free
  /\ IF Failed THEN Goto("discovery", "done") /\ UNCHANGED ev
            ELSE Goto("discovery", "scan") /\ Event("discovery", "in-progress")
  /\ UNCHANGED <<process, lockVars, watchVars, memVars, outputs, cleanVars, db,
                 awsVars, discoVars, checkVars, attempts>>

Scanning == At("discovery", "scan")
ScanFrame == UNCHANGED <<process, goVars, lockVars, watchVars, memVars, outputs,
                         cleanVars, db, awsVars, checkVars, attempts>>

DiscoverInstance ==
  /\ Scanning
  /\ \E i \in Instances \ instances : instances' = instances \cup {i}
  /\ UNCHANGED <<targets, instErr, grpErr, lastErr>> /\ ScanFrame

DiscoverTarget ==
  /\ Scanning
  /\ \E t \in Targets \ targets : targets' = targets \cup {t}
  /\ UNCHANGED <<instances, instErr, grpErr, lastErr>> /\ ScanFrame

(* Route table and subnet errors are ignored: no step. *)
InstanceError ==
  /\ Scanning /\ instErr < MaxErrors
  /\ instErr' = instErr + 1 /\ lastErr' = "error"
  /\ UNCHANGED <<instances, targets, grpErr>> /\ ScanFrame

(* Faulty variant: counts the error without keeping it in LastError. *)
GroupErrorNotKept ==
  /\ Scanning /\ grpErr < MaxErrors
  /\ grpErr' = grpErr + 1
  /\ UNCHANGED <<instances, targets, instErr, lastErr>> /\ ScanFrame

GroupError ==
  /\ Scanning /\ grpErr < MaxErrors
  /\ grpErr' = grpErr + 1 /\ lastErr' = "error"
  /\ UNCHANGED <<instances, targets, instErr>> /\ ScanFrame

(* instErr / total > instanceErrorThreshold, which is 0.3, in integers. *)
TooManyErrors ==
  LET total == Cardinality(instances) + Cardinality(targets \cap DBs)
  IN IF total = 0 THEN grpErr > 0
                  ELSE grpErr > 0 \/ 10 * instErr > 3 * total

DiscoveryEnds ==
  /\ Scanning /\ Goto("discovery", "done")
  /\ IF TooManyErrors THEN Error("discovery", lastErr)
                      ELSE Event("discovery", "complete")
  /\ UNCHANGED <<process, lockVars, watchVars, memVars, outputs, cleanVars, db,
                 awsVars, discoVars, checkVars, attempts>>

(***************************************************************************)
(* Waiting for the bastion to connect                                      *)
(***************************************************************************)
StartConnect ==
  /\ At("connect", "start") /\ mutex = Free
  /\ Goto("connect", IF Failed THEN "done" ELSE "poll")
  /\ UNCHANGED <<process, ev, lockVars, watchVars, memVars, outputs, cleanVars,
                 db, awsVars, discoVars, checkVars, attempts>>

(* Faulty variant: never gives up. *)
PollForEver ==
  /\ At("connect", "poll")
  /\ \/ /\ bastion = "active"
        /\ Goto("connect", "done") /\ Event("connect", "complete") /\ UNCHANGED attempts
     \/ attempts' = attempts + 1 /\ Event("connect", "in-progress") /\ UNCHANGED pc
  /\ UNCHANGED <<process, lockVars, watchVars, memVars, outputs, cleanVars, db,
                 awsVars, discoVars, checkVars>>

(* One round of the loop; the router answers with a checker or without.    *)
(* Bastion.State is read without the lock, while cleanup may change it.    *)
Poll ==
  /\ At("connect", "poll")
  /\ \/ /\ attempts > MaxAttempts
        /\ Goto("connect", "done") /\ Error("connect", "error") /\ UNCHANGED attempts
     \/ /\ attempts =< MaxAttempts /\ bastion = "active"
        /\ Goto("connect", "done") /\ Event("connect", "complete") /\ UNCHANGED attempts
     \/ /\ attempts =< MaxAttempts
        /\ attempts' = attempts + 1 /\ Event("connect", "in-progress") /\ UNCHANGED pc
  /\ UNCHANGED <<process, lockVars, watchVars, memVars, outputs, cleanVars, db,
                 awsVars, discoVars, checkVars>>

(***************************************************************************)
(* handleEvent and cleanup, under stateMut                                 *)
(***************************************************************************)
Handler(s) == process = "up" /\ step = s
Return == mutex' = Free /\ step' = "idle" /\ ev' = [ev EXCEPT ![mutex] = NoEvent]

(* Faulty variant: only events without an error reach the bus. *)
LockRelaysSuccess(g) ==
  /\ process = "up" /\ ev[g] # NoEvent /\ mutex = Free
  /\ mutex' = g
  /\ step' = IF eventChan = "open" /\ ev[g] # "failed" THEN "send" ELSE "apply"
  /\ UNCHANGED <<process, goVars, watchVars, memVars, outputs, cleanVars, db,
                 awsVars, discoVars, checkVars, attempts>>

Lock(g) ==
  /\ process = "up" /\ ev[g] # NoEvent /\ mutex = Free
  /\ mutex' = g
  /\ step' = IF eventChan = "open" THEN "send" ELSE "apply"
  /\ UNCHANGED <<process, goVars, watchVars, memVars, outputs, cleanVars, db,
                 awsVars, discoVars, checkVars, attempts>>

(* The channel is unbuffered: the send waits for watchLaunch to receive. *)
Send ==
  /\ Handler("send") /\ watcher = "recv"
  /\ watcher' = "publish" /\ watched' = ev[mutex] /\ step' = "apply"
  /\ UNCHANGED <<process, goVars, mutex, notified, memVars, outputs, cleanVars,
                 db, awsVars, discoVars, checkVars, attempts>>

(* Faulty variants: the last completion but one ends the launch; an error  *)
(* does not.                                                               *)
ApplyEndsEarly ==
  /\ Handler("apply")
  /\ err' = IF ev[mutex] = "failed" THEN "error" ELSE err
  /\ state' = IF ev[mutex] = "complete" THEN state - 1 ELSE state
  /\ IF state' =< 1 \/ err' # "nil"
       THEN /\ step' = "drain" /\ cleanErr' = "nil" /\ UNCHANGED <<mutex, ev>>
       ELSE /\ Return /\ UNCHANGED cleanErr
  /\ UNCHANGED <<process, pc, watchVars, bastion, eventChan, outputs, undeleted,
                 cleaned, db, awsVars, discoVars, checkVars, attempts>>
ApplyGoesOn ==
  /\ Handler("apply")
  /\ err' = IF ev[mutex] = "failed" THEN "error" ELSE err
  /\ state' = IF ev[mutex] = "complete" THEN state - 1 ELSE state
  /\ IF state' = 0
       THEN /\ step' = "drain" /\ cleanErr' = "nil" /\ UNCHANGED <<mutex, ev>>
       ELSE /\ Return /\ UNCHANGED cleanErr
  /\ UNCHANGED <<process, pc, watchVars, bastion, eventChan, outputs, undeleted,
                 cleaned, db, awsVars, discoVars, checkVars, attempts>>

(* The outcome of the event; the launch that ends here is cleaned up       *)
(* before the handler returns.                                             *)
Apply ==
  /\ Handler("apply")
  /\ err' = IF ev[mutex] = "failed" THEN "error" ELSE err
  /\ state' = IF ev[mutex] = "complete" THEN state - 1 ELSE state
  /\ IF state' = 0 \/ err' # "nil"
       THEN /\ step' = "drain" /\ cleanErr' = "nil" /\ UNCHANGED <<mutex, ev>>
       ELSE /\ Return /\ UNCHANGED cleanErr
  /\ UNCHANGED <<process, pc, watchVars, bastion, eventChan, outputs, undeleted,
                 cleaned, db, awsVars, discoVars, checkVars, attempts>>

(* Faulty variant: a failed launch syncs its checks. *)
DrainingAnyway == ~Global

(* Pool.Drain: one target's check is generated and sent, or is not; a send *)
(* reported as failed may have created it.                                 *)
Draining == ~Failed /\ ~Global
DrainTarget ==
  /\ Handler("drain") /\ Draining
  /\ \E t \in targets \ drained :
       drained' = drained \cup {t} /\ checks' \in {checks, checks \cup {t}}
  /\ UNCHANGED <<process, goVars, lockVars, watchVars, memVars, outputs,
                 cleanVars, db, awsVars, discoVars, attempts>>

DrainEnds ==
  /\ Handler("drain") /\ (Draining => targets \subseteq drained)
  /\ step' = "topic"
  /\ UNCHANGED <<process, goVars, mutex, watchVars, memVars, outputs, cleanVars,
                 db, awsVars, discoVars, checkVars, attempts>>

(* Each call of cleanup assigns err, whatever the one before left in it. *)
Outcome(what, e) ==
  /\ cleanErr' = e
  /\ undeleted' = IF e = "nil" THEN undeleted ELSE undeleted \cup {what}

DeleteTopic ==
  /\ Handler("topic") /\ step' = "queue"
  /\ IF "topic" \notin outputs
       THEN UNCHANGED <<existing, cleanErr, undeleted>>
       ELSE \/ existing' = existing \ {"topic"} /\ Outcome("topic", "nil")
            \/ existing' \in {existing, existing \ {"topic"}} /\ Outcome("topic", "error")
  /\ UNCHANGED <<process, goVars, mutex, watchVars, memVars, outputs, cleaned,
                 db, wired, stack, sqs, discoVars, checkVars, attempts>>

DeleteQueue ==
  /\ Handler("queue") /\ step' = "row"
  /\ IF "queue" \notin outputs
       THEN UNCHANGED <<existing, cleanErr, undeleted>>
       ELSE \/ existing' = existing \ {"queue"} /\ Outcome("queue", "nil")
            \/ existing' \in {existing, existing \ {"queue"}} /\ Outcome("queue", "error")
  /\ UNCHANGED <<process, goVars, mutex, watchVars, memVars, outputs, cleaned,
                 db, wired, stack, sqs, discoVars, checkVars, attempts>>

(* Faulty variant: a deletion that failed is the end of the cleanup. *)
MarkFailedUnlessStopped ==
  /\ Handler("row") /\ step' = "close"
  /\ \/ /\ ~Failed \/ bastion = "nil" \/ cleanErr # "nil"
        /\ UNCHANGED <<bastion, db, cleanErr, undeleted>>
     \/ /\ Failed /\ bastion # "nil" /\ cleanErr = "nil" /\ bastion' = "failed"
        /\ \/ db' = "failed" /\ Outcome("row", "nil")
           \/ db' \in {db, "failed"} /\ Outcome("row", "error")
  /\ cleaned' = IF cleanErr' = "nil" THEN "ok"
                                     ELSE "failed"
  /\ UNCHANGED <<process, goVars, mutex, watchVars, err, state, eventChan,
                 outputs, awsVars, discoVars, checkVars, attempts>>

(* The failed row, and the log line that closes cleanup. *)
MarkFailed ==
  /\ Handler("row") /\ step' = "close"
  /\ \/ /\ ~Failed \/ bastion = "nil"
        /\ UNCHANGED <<bastion, db, cleanErr, undeleted>>
     \/ /\ Failed /\ bastion # "nil" /\ bastion' = "failed"
        /\ \/ db' = "failed" /\ Outcome("row", "nil")
           \/ db' \in {db, "failed"} /\ Outcome("row", "error")
  /\ cleaned' = IF cleanErr' = "nil" THEN "ok"
                                     ELSE "failed"
  /\ UNCHANGED <<process, goVars, mutex, watchVars, err, state, eventChan,
                 outputs, awsVars, discoVars, checkVars, attempts>>

(* cleanup's deferred close: of the channel, or of nil, which panics. *)
CloseChan ==
  /\ Handler("close")
  /\ IF eventChan = "open"
       THEN eventChan' = "nil" /\ Return /\ UNCHANGED process
       ELSE process' = "closed-nil" /\ UNCHANGED <<eventChan, ev, lockVars>>
  /\ UNCHANGED <<pc, watchVars, err, state, bastion, outputs, cleanVars, db,
                 awsVars, discoVars, checkVars, attempts>>

(***************************************************************************)
(* watchLaunch                                                             *)
(***************************************************************************)
Publish ==
  /\ process = "up" /\ watcher = "publish" /\ watcher' = "recv"
  /\ UNCHANGED <<process, goVars, lockVars, watched, notified, memVars, outputs,
                 cleanVars, db, awsVars, discoVars, checkVars, attempts>>

(* The channel is closed.  NotifyVars dereferences launch.Bastion. *)
Notify ==
  /\ process = "up" /\ watcher = "recv" /\ eventChan = "nil"
  /\ IF bastion = "nil"
       THEN process' = "nil-bastion" /\ UNCHANGED <<watcher, notified>>
       ELSE /\ watcher' = "done" /\ UNCHANGED process
            /\ notified' = IF Failed THEN "error" ELSE "success"
  /\ UNCHANGED <<watched, goVars, lockVars, memVars, outputs, cleanVars, db,
                 awsVars, discoVars, checkVars, attempts>>

(***************************************************************************)
(* CloudFormation, which reports to the topic the stack was given.         *)
(***************************************************************************)
Post(m) == sqs' = IF existing = {"topic", "queue"} /\ wired = {"policy", "subscription"}
                    THEN sqs \cup {m} ELSE sqs

StackStep(from, to, m) ==
  /\ stack = from /\ stack' = to /\ Post(m)
  /\ UNCHANGED <<process, goVars, lockVars, watchVars, memVars, outputs, cleanVars,
                 db, existing, wired, discoVars, checkVars, attempts>>

ResourceCreated == StackStep("creating", "creating", Message("CREATE_COMPLETE", "resource"))
StackComplete   == StackStep("creating", "complete", Message("CREATE_COMPLETE", "stack"))
ResourceFailed  == StackStep("creating", "rolling-back", Message("CREATE_FAILED", "resource"))
RolledBack      == StackStep("rolling-back", "rolled-back", Message("ROLLBACK_COMPLETE", "stack"))
RollbackFailed  == StackStep("rolling-back", "stuck", Message("ROLLBACK_FAILED", "stack"))
CloudFormation  == StackComplete \/ ResourceFailed \/ RolledBack \/ RollbackFailed

LaunchStep ==
  \/ CreateBastion \/ GetBastionConfig \/ GetLatestImageID \/ CreateTopic
  \/ CreateQueue \/ GetQueueAttributes \/ SetQueueAttributes \/ Subscribe
  \/ CreateStack \/ BastionLaunchingState \/ Receive \/ ReceiveFails
  \/ BastionActiveState \/ Skip \/ Spawn
Discovery == StartDiscovery \/ DiscoverInstance \/ DiscoverTarget
               \/ InstanceError \/ GroupError \/ DiscoveryEnds
Connect == StartConnect \/ Poll
HandlerStep == Send \/ Apply \/ DrainTarget \/ DrainEnds \/ DeleteTopic
                 \/ DeleteQueue \/ MarkFailed \/ CloseChan
Watcher == Publish \/ Notify

Next == LaunchStep \/ Discovery \/ Connect \/ HandlerStep \/ Watcher
          \/ (\E g \in Goroutines : Lock(g))
          \/ ResourceCreated \/ CloudFormation

Spec == Init /\ [][Next]_vars

(***************************************************************************)
(* Fairness: goroutines are scheduled, calls return (backoff.Retry and the *)
(* SDK give up in bounded time), a discovery's channel is closed, and a    *)
(* stack under construction or rollback ends.  No fairness is asked of     *)
(* failures, nor of what a discovery finds.                                *)
(***************************************************************************)
Fairness ==
  /\ WF_vars(CreateBastion \/ GetBastionConfig \/ GetLatestImageID \/ CreateTopic)
  /\ WF_vars(CreateQueue \/ GetQueueAttributes \/ SetQueueAttributes \/ Subscribe)
  /\ WF_vars(CreateStack \/ BastionLaunchingState \/ Receive \/ BastionActiveState)
  /\ WF_vars(Skip \/ Spawn)
  /\ WF_vars(StartDiscovery \/ DiscoveryEnds)
  /\ WF_vars(Connect) /\ WF_vars(HandlerStep) /\ WF_vars(Watcher)
  /\ \A g \in Goroutines : WF_vars(Lock(g))
  /\ WF_vars(CloudFormation)
FairSpec == Spec /\ Fairness

(***************************************************************************)
(* Properties                                                              *)
(***************************************************************************)
Labels == Stages \cup {"create", "spawn", "idle", "start", "scan", "poll", "done"}
Events == {"none", "in-progress", "complete", "failed", "failed-nil"}
Steps == {"idle", "send", "apply", "drain", "topic", "queue", "row", "close"}

(* Types, by the part of the state they are about. *)
GoTypes ==
  /\ process \in {"up", "closed-nil", "nil-bastion"}
  /\ pc \in [Goroutines -> Labels] /\ ev \in [Goroutines -> Events]
HandlerTypes ==
  /\ mutex \in Goroutines \cup {Free} /\ step \in Steps
  /\ eventChan \in {"open", "nil"}
  /\ watcher \in {"recv", "publish", "done"} /\ watched \in Events
  /\ notified \in {"no", "success", "error"}
  /\ err \in {"nil", "error"} /\ state \in 0..3 /\ outputs \subseteq {"topic", "queue"}
  /\ cleanErr \in {"nil", "error"} /\ undeleted \subseteq {"topic", "queue", "row"}
  /\ cleaned \in {"no", "failed", "ok"}
ResourceTypes ==
  /\ bastion \in {"nil", "new", "launching", "active", "failed"} /\ db \in Rows
  /\ existing \subseteq {"topic", "queue"} /\ wired \subseteq {"policy", "subscription"}
  /\ stack \in {"none", "creating", "complete", "rolling-back", "rolled-back", "stuck"}
  /\ sqs \subseteq Messages
CountTypes ==
  /\ instErr \in 0..MaxErrors /\ grpErr \in 0..MaxErrors
  /\ attempts \in 1..(MaxAttempts + 1)
DiscoveryTypes ==
  /\ instances \subseteq Instances /\ targets \subseteq Targets
  /\ lastErr \in {"nil", "error"}
  /\ drained \subseteq targets /\ checks \subseteq drained
TypeOK == GoTypes /\ HandlerTypes /\ ResourceTypes /\ DiscoveryTypes /\ CountTypes

(* A success is notified only for a bastion whose stack is up, whose row   *)
(* is active and, unless it is global, whose every discovered target has   *)
(* been through the check pool: watchLaunch reads Err after the channel is *)
(* closed, which cleanup does last.                                        *)
SuccessMeansReady ==
  notified = "success" =>
    /\ ~Failed /\ db = "active" /\ stack = "complete"
    /\ drained = IF Global THEN {} ELSE targets
    /\ \A g \in Goroutines : pc[g] = "done"

(* The last event handed to the bus and the user's notification tell the   *)
(* same story, although different goroutines send them.                    *)
NotificationMatchesLastEvent ==
  /\ notified = "success" => watched = "complete"
  /\ notified = "error" => watched = "failed"

(* What cleanup leaves in the customer's account.  The stack, always: that *)
(* is never deleted, whatever became of the launch.  Of the topic and the  *)
(* queue that the launch has an answer about, only what a call refused to  *)
(* delete.  And of those it has none about, at most the one whose creation *)
(* was answered with an error: such a launch has failed and has no stack.  *)
(* A failed launch's row says so, unless that very update failed.          *)
LeftoversAccountedFor ==
  cleaned # "no" =>
    /\ existing \cap outputs \subseteq undeleted
    /\ existing \ outputs # {} =>
         Failed /\ stack = "none" /\ Cardinality(existing \ outputs) = 1
    /\ Failed /\ bastion # "nil" => db = "failed" \/ "row" \in undeleted

(* When the process dies: in NotifyVars, for a launch whose row was never  *)
(* saved; or closing the channel a second time, for a launch that failed   *)
(* after its bastion had been activated, while its other goroutine ran.    *)
PanicOnlyAfterFailure ==
  /\ process # "up" => Failed
  /\ process = "nil-bastion" => bastion = "nil" /\ pc["discovery"] = "idle"
  /\ process = "closed-nil" =>
       /\ db \in {"active", "failed"} /\ stack = "complete"
       /\ ev["discovery"] # NoEvent \/ ev["connect"] # NoEvent

(* An event that announces a failure carries the error that fails the      *)
(* launch: LastError is set wherever an error is counted.                  *)
FailuresCarryErrors == \A g \in Goroutines : ev[g] # "failed-nil"

(* Nothing follows the event that announced the failure of a launch. *)
FailureIsTheLastWord == [][watched = "failed" => watched' = watched]_watched

(* The outside view; the status is launch.State(). *)
State == IF Failed THEN "failed" ELSE IF state > 0 THEN "in-progress" ELSE "complete"
Contract == INSTANCE LaunchContract WITH status <- State, row <- db
ImplementsContract == Contract!Spec

(* A launch ends, in a notification or in a panic, unless its stack could  *)
(* not even be rolled back: then consumeSQS waits for ever.                *)
LaunchEnds ==
  <>(\/ watcher = "done" \/ process # "up"
     \/ stack = "stuck" /\ pc["launch"] = "consumeSQS")

(* cleanup's last log line says whether the cleanup succeeded. *)
CleanupLogIsTrue == cleaned = "ok" => undeleted = {}

(* handleEvent tests EventChan for nil, so it may run after the end. *)
LateEventIsHarmless == process # "closed-nil"

(* A launch that fails is notified as an error, also without a bastion. *)
FailureIsNotified == process # "nil-bastion"
=============================================================================
