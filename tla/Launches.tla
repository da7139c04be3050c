------------------------------ MODULE Launches ------------------------------
(***************************************************************************)
(* Several launches of one customer in one region.  Each is a launch as in *)
(* module Launch, seen from the resources it shares with the others: the   *)
(* SNS topic and the CloudFormation stack, both named after the customer   *)
(* alone, and the keelhaul process that runs it and may die under it.      *)
(*   service/stacks.go, service/bastions.go, launcher/, router/router.go,  *)
(*   notifier/notifier.go                                                  *)
(***************************************************************************)
EXTENDS Naturals, FiniteSets

CONSTANTS
  Launches,    \* the launches of the customer, each of a bastion of its own
  Processes,   \* keelhaul processes
  Host         \* the process each launch runs in

NoLaunch == "none"

ASSUME HostAssumption == Host \in [Launches -> Processes] /\ NoLaunch \notin Launches

VARIABLES
  up,          \* the processes that run
  pc,          \* per launch: the stage it is at
  failed,      \* per launch: launch.Err is set
  late,        \* per launch: its goroutines that still run, or the second cleanup
  row,         \* per launch: state of the bastion's row
  holds,       \* launches with a createTopicOutput to delete
  topic, subscribers,   \* the customer's topic, the launches whose queues hear it
  inbox,       \* per launch: the stack's messages in its queue
  stack,       \* the customer's stack: its bastion's launch, and its state
  registered,  \* bastions whose checker is in etcd's routing tree
  told,        \* per launch: whom the notifier has reached
  unsure       \* launches with a call about the topic whose answer was an error

launchVars == <<pc, failed, late>>
topicVars  == <<topic, subscribers>>
vars == <<up, launchVars, row, holds, topicVars, inbox, stack, registered, told, unsure>>

Free == [owner |-> NoLaunch, state |-> "none"]
Goroutines == {"discovery", "connect"}
Ended == {"email", "slack", "done"}

Init ==
  /\ up = Processes
  /\ pc = [l \in Launches |-> "unasked"]
  /\ failed = [l \in Launches |-> FALSE]
  /\ late = [l \in Launches |-> {}]
  /\ row = [l \in Launches |-> "none"]
  /\ holds = {} /\ topic = FALSE /\ subscribers = {}
  /\ inbox = [l \in Launches |-> {}]
  /\ stack = Free /\ registered = {}
  /\ told = [l \in Launches |-> "nobody"]
  /\ unsure = {}

At(l, s) == Host[l] \in up /\ pc[l] = s
Goto(l, s) == pc' = [pc EXCEPT ![l] = s]
SetRow(l, s) == row' = [row EXCEPT ![l] = s]
MayHaveSetRow(l, s) == row' \in {row, [row EXCEPT ![l] = s]}

(* launch.error: the first error of a launch runs its cleanup. *)
Fail(l) == failed' = [failed EXCEPT ![l] = TRUE] /\ Goto(l, "delete-topic")
GoOn(l, s) == Goto(l, s) /\ UNCHANGED failed

(***************************************************************************)
(* The request and the stages.  The stages that touch nothing shared fail  *)
(* as the stage after them does: configuration and image as the topic,     *)
(* queue and policy as the subscription.                                   *)
(***************************************************************************)

(* LaunchStack; a launch without a row has no bastion to notify about. *)
LaunchStack(l) ==
  /\ At(l, "unasked")
  /\ \/ SetRow(l, "new") /\ GoOn(l, "topic")
     \/ MayHaveSetRow(l, "new") /\ Goto(l, "no-bastion")
        /\ failed' = [failed EXCEPT ![l] = TRUE]
  /\ UNCHANGED <<up, late, holds, topicVars, inbox, stack, registered, told, unsure>>

(* Creating a topic that exists returns it. *)
CreateTopic(l) ==
  /\ At(l, "topic")
  /\ \/ /\ topic' = TRUE /\ holds' = holds \cup {l}
        /\ GoOn(l, "subscribe") /\ UNCHANGED unsure
     \/ /\ topic' \in {topic, TRUE} /\ unsure' = unsure \cup {l}
        /\ Fail(l) /\ UNCHANGED holds
  /\ UNCHANGED <<up, late, row, subscribers, inbox, stack, registered, told>>

(* Faulty variant: the error of the call is dropped. *)
SubscribeIgnoringErrors(l) ==
  /\ At(l, "subscribe")
  /\ subscribers' \in {subscribers, IF topic THEN subscribers \cup {l} ELSE subscribers}
  /\ GoOn(l, "stack")
  /\ UNCHANGED <<up, late, row, holds, topic, inbox, stack, registered, told, unsure>>

(* A topic that was deleted in between cannot be subscribed to. *)
Subscribe(l) ==
  /\ At(l, "subscribe")
  /\ \/ topic /\ subscribers' = subscribers \cup {l} /\ GoOn(l, "stack")
     \/ /\ subscribers' \in {subscribers, IF topic THEN subscribers \cup {l} ELSE subscribers}
        /\ Fail(l)
  /\ UNCHANGED <<up, late, row, holds, topic, inbox, stack, registered, told, unsure>>

(* Faulty variant: a name that is taken is taken for a lost answer. *)
CreateOrJoinStack(l) ==
  /\ At(l, "stack")
  /\ \/ /\ stack' = IF stack = Free THEN [owner |-> l, state |-> "creating"] ELSE stack
        /\ GoOn(l, "launching")
     \/ UNCHANGED stack /\ Fail(l)
  /\ UNCHANGED <<up, late, row, holds, topicVars, inbox, registered, told, unsure>>

(* The name is taken for as long as the stack exists, failed or not; a     *)
(* stack whose CreateStack was not answered is built all the same.         *)
CreateStack(l) ==
  /\ At(l, "stack")
  /\ LET created == [owner |-> l, state |-> "creating"]
     IN \/ stack = Free /\ stack' = created /\ GoOn(l, "launching")
        \/ stack' \in {stack, IF stack = Free THEN created ELSE stack} /\ Fail(l)
  /\ UNCHANGED <<up, late, row, holds, topicVars, inbox, registered, told, unsure>>

BastionLaunchingState(l) ==
  /\ At(l, "launching")
  /\ \/ SetRow(l, "launching") /\ GoOn(l, "consume")
     \/ MayHaveSetRow(l, "launching") /\ Fail(l)
  /\ UNCHANGED <<up, late, holds, topicVars, inbox, stack, registered, told, unsure>>

(* consumeSQS takes a message off the launch's own queue; only those about *)
(* the end of the stack are modelled.                                      *)
ConsumeSQS(l) ==
  /\ At(l, "consume")
  /\ \/ \E m \in inbox[l] :
          /\ inbox' = [inbox EXCEPT ![l] = @ \ {m}]
          /\ IF m = "complete" THEN GoOn(l, "activate") ELSE Fail(l)
     \/ inbox' \in {inbox} \cup {[inbox EXCEPT ![l] = @ \ {m}] : m \in inbox[l]} /\ Fail(l)
  /\ UNCHANGED <<up, late, row, holds, topicVars, stack, registered, told, unsure>>

BastionActiveState(l) ==
  /\ At(l, "activate")
  /\ \/ /\ SetRow(l, "active") /\ GoOn(l, "settle")
        /\ late' = [late EXCEPT ![l] = Goroutines]
     \/ MayHaveSetRow(l, "active") /\ Fail(l) /\ UNCHANGED late
  /\ UNCHANGED <<up, holds, topicVars, inbox, stack, registered, told, unsure>>

(* A goroutine of a launch that goes on ends, in a completion or an error. *)
Completes(l, g) ==
  /\ late' = [late EXCEPT ![l] = @ \ {g}]
  /\ GoOn(l, IF late[l] = {g} THEN "delete-topic" ELSE "settle")
GivesUp(l, g) == late' = [late EXCEPT ![l] = @ \ {g}] /\ Fail(l)

DiscoveryEnds(l) ==
  /\ At(l, "settle") /\ "discovery" \in late[l]
  /\ Completes(l, "discovery") \/ GivesUp(l, "discovery")
  /\ UNCHANGED <<up, row, holds, topicVars, inbox, stack, registered, told, unsure>>

(* Faulty variant: the poll has no last attempt. *)
PollForEver(l) ==
  /\ At(l, "settle") /\ "connect" \in late[l]
  /\ l \in registered /\ Completes(l, "connect")
  /\ UNCHANGED <<up, row, holds, topicVars, inbox, stack, registered, told, unsure>>

(* The router finds the checker of this launch's bastion, or the attempts  *)
(* are used up: maybe because the router could not be asked.               *)
ConnectEnds(l) ==
  /\ At(l, "settle") /\ "connect" \in late[l]
  /\ \/ l \in registered /\ Completes(l, "connect")
     \/ GivesUp(l, "connect")
  /\ UNCHANGED <<up, row, holds, topicVars, inbox, stack, registered, told, unsure>>

(***************************************************************************)
(* cleanup, watchLaunch and the notifier                                   *)
(***************************************************************************)

(* Faulty variant: only a failed launch deletes its topic. *)
DeleteTopicOfFailed(l) ==
  /\ At(l, "delete-topic") /\ Goto(l, "mark-row") /\ holds' = holds \ {l}
  /\ IF l \in holds /\ failed[l]
       THEN topic' = FALSE /\ subscribers' = {}
       ELSE UNCHANGED topicVars
  /\ UNCHANGED <<up, failed, late, row, inbox, stack, registered, told, unsure>>

(* A topic is deleted with all its subscriptions, whoever made them. *)
TopicGone == topic' = FALSE /\ subscribers' = {}
TopicDeleted(l) ==
  \/ TopicGone /\ UNCHANGED unsure
  \/ (TopicGone \/ UNCHANGED topicVars) /\ unsure' = unsure \cup {l}
DeleteTopic(l) ==
  /\ At(l, "delete-topic") /\ Goto(l, "mark-row") /\ holds' = holds \ {l}
  /\ IF l \in holds THEN TopicDeleted(l) ELSE UNCHANGED <<topicVars, unsure>>
  /\ UNCHANGED <<up, failed, late, row, inbox, stack, registered, told>>

(* Faulty variant: the wrong state is written. *)
MarkDeleted(l) ==
  /\ At(l, "mark-row") /\ Goto(l, "email")
  /\ IF failed[l] THEN MayHaveSetRow(l, "deleted") ELSE UNCHANGED row
  /\ UNCHANGED <<up, failed, late, holds, topicVars, inbox, stack, registered, told, unsure>>

MarkFailed(l) ==
  /\ At(l, "mark-row") /\ Goto(l, "email")
  /\ IF failed[l] THEN MayHaveSetRow(l, "failed") ELSE UNCHANGED row
  /\ UNCHANGED <<up, failed, late, holds, topicVars, inbox, stack, registered, told, unsure>>

(* NotifySuccess and NotifyError: Slack hears of a launch only after the   *)
(* mail was accepted; neither is tried again.                              *)
NotifyEmail(l) ==
  /\ At(l, "email")
  /\ \/ told' = [told EXCEPT ![l] = "user"] /\ Goto(l, "slack")
     \/ told' \in {told, [told EXCEPT ![l] = "user"]} /\ Goto(l, "done")
  /\ UNCHANGED <<up, failed, late, row, holds, topicVars, inbox, stack, registered, unsure>>
NotifySlack(l) ==
  /\ At(l, "slack") /\ Goto(l, "done")
  /\ told' \in {told, [told EXCEPT ![l] = "everyone"]}
  /\ UNCHANGED <<up, failed, late, row, holds, topicVars, inbox, stack, registered, unsure>>

(***************************************************************************)
(* Processes die: of the panics of module Launch, or of anything else.     *)
(***************************************************************************)
Dies(p) ==
  /\ up' = up \ {p}
  /\ UNCHANGED <<launchVars, row, holds, topicVars, inbox, stack, registered, told, unsure>>

(* NotifyVars of a launch without a bastion. *)
NilBastion(l) == At(l, "no-bastion") /\ Dies(Host[l])

(* The goroutine that a failed launch left running reports after cleanup,  *)
(* which runs again, deletes the topic and marks the row once more, and    *)
(* panics when it closes the channel, which is nil by then.  A goroutine   *)
(* that had not started yet ends quietly.                                  *)
Over(l) == Host[l] \in up /\ failed[l] /\ pc[l] \in Ended
LateEvent(l) ==
  /\ Over(l) /\ late[l] \cap Goroutines # {}
  /\ \/ late' = [late EXCEPT ![l] = {"cleanup"}] /\ TopicDeleted(l)
     \/ late' = [late EXCEPT ![l] = {}] /\ UNCHANGED <<topicVars, unsure>>
  /\ UNCHANGED <<up, pc, failed, row, holds, inbox, stack, registered, told>>
Panics(l) ==
  /\ Over(l) /\ "cleanup" \in late[l]
  /\ MayHaveSetRow(l, "failed") /\ up' = up \ {Host[l]}
  /\ UNCHANGED <<launchVars, holds, topicVars, inbox, stack, registered, told, unsure>>

Crash(p) == p \in up /\ Dies(p)

(***************************************************************************)
(* CloudFormation, and the bastion that its stack runs                     *)
(***************************************************************************)
Post(m) == inbox' = IF topic THEN [l \in Launches |-> IF l \in subscribers
                                     THEN inbox[l] \cup {m} ELSE inbox[l]]
                             ELSE inbox
Becomes(s) == stack' = [stack EXCEPT !.state = s]
StackEnds ==
  /\ stack.state = "creating"
  /\ \/ Becomes("complete") /\ Post("complete")
     \/ Becomes("rolled-back") /\ Post("rollback")
     \/ Becomes("stuck") /\ UNCHANGED inbox
  /\ UNCHANGED <<up, launchVars, row, holds, topicVars, registered, told, unsure>>

(* Faulty variant: the row is looked up by its id alone. *)
AnyRow(l) == row[l] # "none"

(* AuthenticateBastion admits the bastions whose row is active. *)
Admitted(l) == row[l] = "active"

(* The bastion registers once keelhaul has let it onto the VPN. *)
Register ==
  /\ stack.state = "complete" /\ up # {}
  /\ Admitted(stack.owner)
  /\ registered' = registered \cup {stack.owner}
  /\ UNCHANGED <<up, launchVars, row, holds, topicVars, inbox, stack, told, unsure>>

(* Its route expires when it does not renew it. *)
Expire ==
  /\ registered # {} /\ registered' = {}
  /\ UNCHANGED <<up, launchVars, row, holds, topicVars, inbox, stack, told, unsure>>

Stage(l) ==
  \/ CreateTopic(l) \/ Subscribe(l) \/ CreateStack(l) \/ BastionLaunchingState(l)
  \/ ConsumeSQS(l) \/ BastionActiveState(l) \/ DiscoveryEnds(l) \/ ConnectEnds(l)
Cleanup(l) == DeleteTopic(l) \/ MarkFailed(l) \/ NotifyEmail(l) \/ NotifySlack(l)

Next ==
  \/ \E l \in Launches : LaunchStack(l) \/ Stage(l) \/ Cleanup(l)
                           \/ NilBastion(l) \/ LateEvent(l) \/ Panics(l)
  \/ \E p \in Processes : Crash(p)
  \/ StackEnds \/ Register \/ Expire

Spec == Init /\ [][Next]_vars

(* Goroutines run and calls return; a stack comes to an end.  A receive    *)
(* that fails is not owed: consumeSQS is fair for messages only.           *)
Hears(l) == inbox[l] # {} /\ ConsumeSQS(l)
Fairness ==
  /\ \A l \in Launches :
       /\ WF_vars(CreateTopic(l) \/ Subscribe(l) \/ CreateStack(l))
       /\ WF_vars(BastionLaunchingState(l) \/ Hears(l) \/ BastionActiveState(l))
       /\ WF_vars(DiscoveryEnds(l)) /\ WF_vars(ConnectEnds(l))
       /\ WF_vars(Cleanup(l))
  /\ WF_vars(StackEnds)
FairSpec == Spec /\ Fairness

(***************************************************************************)
(* Properties                                                              *)
(***************************************************************************)
Places == {"unasked", "no-bastion", "topic", "subscribe", "stack", "launching",
           "consume", "activate", "settle", "delete-topic", "mark-row", "email",
           "slack", "done"}
StackStates == {"none", "creating", "complete", "rolled-back", "stuck"}
TypeOK ==
  /\ up \subseteq Processes
  /\ pc \in [Launches -> Places] /\ failed \in [Launches -> BOOLEAN]
  /\ late \in [Launches -> SUBSET (Goroutines \cup {"cleanup"})]
  /\ row \in [Launches -> {"none", "new", "launching", "active", "failed"}]
  /\ holds \subseteq Launches /\ topic \in BOOLEAN /\ subscribers \subseteq Launches
  /\ inbox \in [Launches -> SUBSET {"complete", "rollback"}]
  /\ stack \in [owner : Launches \cup {NoLaunch}, state : StackStates]
  /\ registered \subseteq Launches
  /\ told \in [Launches -> {"nobody", "user", "everyone"}]
  /\ unsure \subseteq Launches

Owns(l) == stack.owner = l
(* However many launches a customer starts, in however many processes, and *)
(* whoever dies: a row says launching or active only for the bastion that  *)
(* the customer's one stack runs, and active only when that stack is up.   *)
RowsMatchStack ==
  \A l \in Launches :
    /\ row[l] \in {"launching", "active"} => Owns(l)
    /\ row[l] = "active" => stack.state = "complete"

(* At most one launch of a customer and region is ever reported as a       *)
(* success, and its bastion is the one that is running.                    *)
Succeeded(l) == pc[l] \in Ended /\ ~failed[l]
OneSuccess ==
  \A l \in Launches : Succeeded(l) =>
    /\ Owns(l) /\ stack.state = "complete" /\ row[l] = "active"
    /\ \A k \in Launches \ {l} : row[k] # "active" /\ ~Succeeded(k)

(* A launch that waits for its stack and no longer hears of it has lost    *)
(* its subscription to another launch of the customer: one that failed,    *)
(* and deleted the topic they share.                                       *)
Deaf(l) == pc[l] = "consume" /\ l \notin subscribers
DeafenedByFailure ==
  \A l \in Launches : Deaf(l) =>
    \E k \in Launches \ {l} : failed[k] /\ pc[k] \in {"mark-row"} \cup Ended

(* When the last launch that holds the topic has ended, the topic is gone, *)
(* however the launches of the customer overlapped, created and deleted it *)
(* under each other: unless one died with it in hand, or was told of an    *)
(* error by a call about it.                                               *)
TopicHasUser ==
  topic => \/ holds # {} \/ unsure # {}

(* A bastion is registered, and so listed as connected, only if its row    *)
(* has been active: the stack of a launch that failed before stays out.    *)
RegisteredWasActive == \A l \in registered : row[l] \in {"active", "failed"} /\ Owns(l)

(* Every launch that got past its request ends, or its process does; or it *)
(* waits in consumeSQS for a stack that is stuck, or deaf.                 *)
Stranded(l) == pc[l] = "consume" /\ inbox[l] = {} /\ (stack.state = "stuck" \/ Deaf(l))
LaunchSettles ==
  \A l \in Launches :
    pc[l] = "topic" ~> (pc[l] = "done" \/ Host[l] \notin up \/ Stranded(l))
=============================================================================
