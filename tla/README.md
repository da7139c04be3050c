# A TLA+ model of keelhaul

keelhaul launches *bastions* (agents, as CloudFormation stacks) in customers'
AWS accounts, relays the progress to browsers over websockets, and keeps track
of which bastions are alive. This directory holds TLA+ modules translated from
the Go code in `src/`, the TLC runs that check them on small instances, and
TLAPS proofs of what matters most for every instance. `PROJECT.json` lists the
components, the runs, the lines each definition stands for, what is hard to
test in the code (`hazards`) and what was found (`findings`).

    tlc -workers 2 -config Launch.cfg MCLaunch.tla    # a run
    tlapm LaunchProofs.tla                            # the proofs of a module

## Inventory

The repository is 4,400 lines of Go and SQL and 315,000 lines of vendored
libraries. There are no design documents; the tests are those of
`autocheck/` alone.

| component | state | operations | what is hard |
|---|---|---|---|
| **launcher** `launcher/` | per launch: `Err`, a countdown `state`, `EventChan`, the bastion object, outputs of AWS calls, the discovery's counters, the check pool; the bastion's row; topic, queue, stack in the customer's account | eleven sequential stages, discovery and connection poll in goroutines of their own, `handleEvent` and `cleanup` under `stateMut`, `watchLaunch` | goroutines that go on after a failure; calls that fail after taking effect; what is left behind; who is told what; several launches of a customer, who share a topic and a stack name |
| **bus** `bus/` | map of subscriptions per customer, unbuffered channels, NSQ | `Subscribe`, `Unsubscribe`, `Publish`, `HandleMessage`, the loop | one loop for everybody that blocks on every subscriber; redelivery, reordering |
| **websocket service** `service/websocket.go` | per connection: user, subscription, reader and writer goroutine | authenticate, write, heartbeat, close | two goroutines that end for different reasons; clients that stall |
| **tracker** `tracker/` | `isServing`, `lastUpdateTime`; the lock key in etcd; the tracking table | `offerService`, `updateSeen` | two leaders at once; lost answers; rounds that fail half-way; stale lists |
| **store** `store/`, **migrations** | Postgres: `bastions`, `bastion_tracking`, `regions` | queries, `batch_upsert_tracking` | updates whose answer is lost |
| **router** `router/` | none (reads etcd) | `GetServices`, with retries | an answer that is an error for the caller and a fact for etcd |
| **autocheck** `autocheck/` | targets, a success count, cached default notifications | `Drain`, `Generate`, `Send` | a check that is created but reported as failed; thresholds taken from alarms, of which some were not fetched |
| **scanner** `scanner/` | what one scan has read | `ScanRegion`, `determineRouting` | an account that changes between the calls; classification at the boundaries |
| **service** `service/` | none | `LaunchStack`, `ScanVpcs`, `ListBastions`, `AuthenticateBastion`, ... | a save that runs behind the response and writes to the object being encoded |
| **notifier** `notifier/` | none | e-mail, Slack | notices that are posted and reported as failed, or the other way round |
| **transport, config, main, util, templates** | none | - | - |

How they interact: `LaunchStack` calls the launcher, which starts `watchLaunch`
and, after inserting the row in the request, the goroutine of the stages.
Every stage reports through `handleEvent`, which hands the event to
`watchLaunch` over an unbuffered channel with the lock held; `watchLaunch`
publishes it to NSQ and, when `cleanup` has closed the channel, has the
notifier tell the user. Each process's bus receives all messages from NSQ and
hands them to the writers of the customer's websockets. A bastion that is up
registers its services in etcd, where the connection poll of its launch finds
it through the router and the tracker finds it on its rounds.

What makes each correct, in one sentence:

- launcher: a success is reported for a ready bastion only, of topic and queue
  cleanup leaves what a call refused to delete, and every launch ends in one report;
- bus and websockets: a connection receives its customer's messages only,
  while it is subscribed, and everyone's goroutines end or go on;
- launches of one customer: rows, reports and registrations agree on the one
  stack there can be, and a shared topic does not outlive its users;
- scanner and `ScanVpcs`: no subnet that misses an instance is offered as one that
  serves, instances are counted once, and what is saved is a whole scan;
- autocheck: every limit asserted is the rounded limit of its source, and the number of checks
  reported is that of the checks that notify someone;
- tracker: one leader unless a renewal is late, no alarm for a bastion that was
  just seen, and a table that follows the routing tree through every failure.

## Plan

Done:

1. `Launch`, its contract `LaunchContract`, proofs in `LaunchProofs`;
2. `Bus` and `Stream` (bus and websockets composed), contract `Delivery`, proofs
   in `StreamProofs`;
3. `Tracker`, with the notices it posts, proofs in `TrackerProofs`;
4. `Launches`: several launches of one customer in processes that die, proofs
   in `LaunchesProofs`;
5. `Routing` and `Regions`: the classification of subnets, with a proof in
   `RoutingProofs`, and `ScanVpcs` over an account that changes;
6. `Checks`: the paging of the alarms, the checks made of them, the sink;
7. `LaunchEndProofs`: how a launch ends;
8. `RegionsProofs` and `ChecksProofs`: the safety of scans and of checks;
9. what the liveness of launches and messages rests on, as far as it can be
   proved: that progress is lost in the states that `Blocked` of `Stream` and
   `Stranded` of `Launches` name, and that whoever waits in any other has what it
   waits for. That a step is then possible needs `ENABLED`, which the prover does
   not have.

With these, every safety property that a run checks is a theorem.

## Modules

### Launch

One launch from `LaunchBastion` to the notification. There are three
goroutines (`launch`, `discovery`, `connect`), each with a place `pc` in its
own code and an event `ev` it is handling; `mutex` and `step` say who holds
`stateMut` and where in `handleEvent` and `cleanup` it is; `watcher` is
`watchLaunch`. `err`, `state`, `bastion`, `eventChan` and `outputs` are fields of
the Go object; `db` is the bastion's row; `existing`, `wired`, `stack` and `sqs`
are the customer's account. A stage is one action that calls AWS or the
database and leaves an event for the handler, which takes its steps (lock,
send, apply, drain, delete the topic, delete the queue, mark the row, close the
channel) one by one between those of the other goroutines. Every call may fail,
and a call that fails may have taken effect.

A message of the queue that carries no text is deleted and skipped by the code;
in `Receive` it is one of those that end nothing.

Abstractions: the content of events (kept: their state, and whether the error
is nil), identifiers, and retries, which are one action with the outcomes of
the last attempt. `CloudFormation` posts a resource's and the stack's events to
the queue, as long as topic, queue, policy and subscription are there; a queue
is a set, so that the same event about two resources is one message. A process
that dies is `process # "up"` when the code killed it (nil dereference, close
of nil); a crash from outside is any prefix of a behaviour, since nothing
resumes a launch.
Reads that race with a write (the poll's of `Bastion.State`, the watcher's of
`Err`) take the old or the new value, by interleaving. Discovery is external
(`awscan`): it reports instances any number of times, databases and load
balancers once, errors of both kinds, in any order, and ends.

`LaunchContract` is the view from outside: status, row, checks, notification.

### Launches

Several launches of one customer and region, each as in `Launch` but cut down to
what it shares with the others: the topic and the stack, both named after the
customer alone (`stage_cloudformation.go:149` and `:477`), and the process it runs in.
`pc` is the stage, one action each; stages that touch nothing shared (image,
queue, policy) fail as a neighbour does. `CreateTopic` returns a topic that
exists; `DeleteTopic` takes everyone's subscriptions with it; a stack's name is
taken for as long as the stack exists, and its owner is the launch whose
`CreateStack` took effect, answered or not. `late` are the two goroutines of the
end of a launch, one of which may outlive its failure: its event runs `cleanup` a
second time, which deletes the topic again, and with it whoever subscribed since
(`LateEvent`), may write the row again and then kills the process (`Panics`; `Launch`
has the panic, and what may come before it in one launch, in detail). `Crash` ends a process at any
moment; no other process resumes its launches, and the account, the rows and
etcd stay as they are. `told` is how far the notifier's mail and post got, `unsure`
(no variable of the code) who was told of an error by a call about the topic.

Abstractions: messages of the stack other than those about its end, the
discovery's contents, retries. A customer who deletes stacks by hand is not
modelled.

### Routing and Regions

`Routing` is `determineRouting` as operators on route tables, the addresses of a
VPC's instances and its attached gateways: the table that holds for a subnet
(the last of several, by sequence), the default route, the blocks, the
comparison of numbers of addresses. `Grounds` is the reference definition: on what
grounds each class is given, stated without the algorithm. It follows the comments
on the five names (`schema/region.go:5-14`) but for two of them, where the code does
not: "occluded" is also said of a subnet that reaches every instance, when two of
them show one address or the default route is an interface, and "gateway" of any
default route to something that is not an attached internet gateway, an instance
or an interface, a detached internet gateway for one, not only a customer's.

`Regions` is `ScanVpcs`: requests whose goroutines read the account call by call,
each of which may fail, instances in pages, while `Change` starts and
terminates instances, detaches gateways and blackholes routes. What a request
has read and made of it is its record `req`. Then two goroutines share the
region: `Size` and `MarshalTo` encode it as the response, into a buffer of the
size found first, while `Assign` writes the customer's id into it, in one piece
or with its length first (a string header of two words), and `PutRegion`,
`Update`, `Insert` save it. An SQL statement that updates or inserts sees one
snapshot, so that the decision to insert (`PutRegion`) and the insertion are two
steps and the primary key may refuse the second.

A page holds the next instances in any order; what is counted are the places
of a list, as the code adds one for each instance it meets. That DescribeInstances
neither repeats nor skips an instance when others come or go between two pages is
assumed: the code trusts the tokens and compares nothing. An instance is in one
subnet and so in that subnet's VPC, or in neither (EC2 Classic, `Nowhere`): that
much of AWS is assumed (`RegionAssumption`), and that nothing but an instance's
state ever changes.

Abstractions: an address in a block is membership in `covers`; VPCs, subnets and
attributes are only identifiers; the JSON of the row is the request it is of.

### Checks

One launch's checks. `FetchPage` is the loop of `fetchAlarms`, which ends at the last
page, at the limit, or at an error, and keeps what it has. `Discover` puts
databases and load balancers in the pool in any order. `DrainTarget` generates a
target's check, `CreateCheck`, `ListNotificationsDefault` and `CreateNotifications`
are the calls of `Send`, each of which may fail with or without effect.
`DiscoveryEnds` may also fail the launch for too many errors, after which nothing is
drained. Thresholds, `float64` in the code, are whole numbers of a unit that divides a
thousandth (`Mil` units): with one that is fine enough every finite `float64` is such a
number, and infinities and NaN, which no alarm has, are left out. `Printed` is what
`%.3f` makes of one, the nearest thousandth and of two equally near the even one;
`Whole` is what `int` leaves of a limit on connections, which is below 2^63. The
property has a definition of rounding of its own (`Rounded`: no thousandth is nearer). An alarm is a record of what `RDSCloudWatch.Generate` looks at, and
`Kept` is what the two loops with `append` select of a list, in its order.
`created` and `notified` are the state of the two services.

### Bus, Stream, Delivery

`Bus` is the loop and NSQ: messages `published`, how often each was `handed` to
this process, which one each handler offers in its `hand`, where the loop is
and the subscriptions it still has to send to. All channels are unbuffered, so
that a send and its receive are one action of two goroutines; `Stream` supplies
the other half, with one reader and one writer per connection and a client that
stalls, goes on or leaves as it likes. The channels of a customer in the map
are a function to sets of connections, and `known` its keys, because the code
deletes a customer's entry apart from its last subscription. `Delivery` is what
subscribers are promised.

The writer's one-minute `time.After` is left out: it is made anew in every turn
of the loop, and the heartbeat ends each turn after ten seconds at most.

### Tracker

The trackers of several processes, the key in etcd with its lease, the routing
tree (now, and as a lagging replica shows it) and the tracking table. Time is
`Tick`, a leader check (30 s), and every time is kept as an age that is cut off
where the code no longer tells it from a larger one. One round is `Read`, `Seen`
per batch, `List`, then `Notify` and `UpdateState` per row, each of which may fail,
with or without effect, and time may pass between any two of them. `sinceSet`
and `sinceRead` are no variables of the code: they tell how old a tracker's
last successful Set and the round's reading of the tree are, which the
properties need, and `asked`, no variable either, which notices Slack has answered
in the round a tracker is in. `Answered` is what `notifySlack` calls a success: an
answer, of whatever status, since nothing looks at it. A
`Stop`, which ends the loop between rounds, is a `Restart` of a tracker that
waits. A tracker that restarts has a new id: the key of the old one is
held by `"former"`.

Assumed: the clocks of processes, etcd and database run equally fast; a bastion
is registered under one customer.

## Runs

| run | instance | checks |
|---|---|---|
| Launch | 3 instances, a database, a load balancer, 1 poll, 1 error of each kind, fair | all of `Launch`'s safety properties, the refinement of `LaunchContract`, and that every launch ends |
| LaunchCleanupLog, LaunchLateEvent, LaunchNoBastion | 1 instance | the three findings below |
| Launches | 2 launches of a customer in 2 processes, fair | rows, reports, registrations, the topic; every launch ends, or its process does, or it waits for a stack that says nothing more; what a second cleanup takes with it |
| Regions | 121 accounts of a VPC with 2 subnets, pages of 1, 1 change meanwhile; 1 request, for one account 2; fair | the grounds of classes, counts, quiet scans, order, the row; every request ends |
| Checks | 2 databases, 2 load balancers, 24 lists of alarms, thresholds in ten-thousandths, 2 pages of 1 alarm, fair | alarms, limits and their rounding, the count, silent checks, contacts; the pool is drained or the launch has failed before |
| StreamSafety | 2 connections, 2 customers, 2 handlers, 2 messages (one malformed), each delivered up to twice | map, loop, refinement of `Delivery` |
| StreamLive | 2 connections of 1 customer, 1 message, fair | every subscriber gets the message and the loop comes back; connections end |
| StreamAuth | the same | the finding below |
| TrackerRace | 2 trackers, 1 bastion, TTL 1, delay and interval 2, 1 restart | leadership and false alarms with rounds that overlap; no row changes before Slack has answered a notice of the change |
| TrackerLive | 1 tracker, 1 bastion, TTL 2, delay and interval 3, 1 restart, fair | the table follows the tree; the key is taken again and again |

Why the bounds are enough. Launch: three instances and a database are the
smallest account in which one instance error is tolerated and two more would
not be (1/4 is at most 0.3, 1/3 is above), and one with no resource at all is
reached too; one poll is a first, a last, and leaves room for one too many; the
launch itself has no other parameter. Launches: all hazards are between a pair
of launches, one of which deletes, takes or outlives what the other uses; a
third would only be another of the pair, and a process of each is the weakest
assumption about which of them die together. Regions: every way out that
`determineRouting` tells apart, alone and beside a subnet with a table of its own,
with no instances, two, two of one address, one without an address, a
terminated one; one change, at any point between two calls of a scan, is what
makes two of its answers differ; two requests race for the row. Checks: the
limit falls after the second of three alarms; lists of two alarms have every
pair that may overwrite each other; two databases, one of an unknown class, so
that a limit is missing or an alarm is of the other; thresholds that are printed as
they are, rounded up and down, half-way to an even and to an odd thousandth, and to
zero. Stream: two connections are either of one customer or
of two, and the hazards are between a pair of them; two handlers overtake each
other; a second delivery is what tells "at most once" from "at most as often
as NSQ". Tracker: two trackers are a leader and its successor; the times
keep the order TTL < delay = interval of the code, and a round may take any
number of ticks. The theorems drop the bounds for the properties they name:
it is they that cover the global execution group (`Global`), whose bastions get
no checks, and rounds of several batches of which one fails. Liveness with two
trackers is beyond TLC at any useful size; one tracker that restarts under
another id and loses answers already has to wait for a key it cannot renew.

`CHECK_DEADLOCK FALSE` is given for launches, scans and checks, which end, and for the bus, which
can deadlock: that it does is part of what `MessagesArrive` says, by naming the
states in which one subscriber holds the loop.

### What the runs found

- `cleanup` logs "launch successfuly cleaned up" after a deletion failed, since
  the next call overwrites `err` (LaunchCleanupLog).
- A failed launch's other goroutine runs `cleanup` a second time, which closes a
  nil channel: the process panics, and every launch in it with it
  (LaunchLateEvent). `PanicOnlyAfterFailure` says that this is possible only after
  the bastion was activated.
- A launch whose row could not be saved kills the process in `NotifyVars`
  (LaunchNoBastion).
- Of two launches of one customer that overlap, the one that fails deletes the
  topic of the other, which then waits in `consumeSQS` for as long as its process
  lives, its row in launching, while its stack is built and its bastion is
  refused (`Deaf` and `Stranded` in `Launches`; `LaunchSettles` and `RowsMatchStack` say
  what still holds).
- A response of `ScanVpcs` that is encoded while the goroutine assigns `CustomerId`
  overruns its buffer and ends the process (`CaughtWriting` in `Regions`:
  `RequestsSettle` shows that a request fails to end in no other way).
- Cleanup never deletes the stack, whose id the launch keeps
  (`stage_cloudformation.go:523`): one that fails in discovery or in the connection
  poll leaves it running in the customer's account, with a row that says failed, and
  its name is taken for the next launch (`LeftoversAccountedFor` says what else may
  stay).
- "occluded" is said of a subnet that reaches every instance when two
  instances show one address, as they do without one, although the comment on the
  name (`schema/region.go:13`) says that it "can't communicate with 100% of
  instances"; and "gateway", "via a customer gateway" there, of a default route to an
  internet gateway that is detached (`Grounds` in `Routing`).
- An alarm on a database's connections below one becomes the assertion that
  there are fewer than 0, which no state of the database satisfies
  (`Whole` in `Checks`); one on a latency below 0.0005 that it is less than 0.000
  (`Printed`).
- Slack's refusal of a notice is no error for `notifySlack` (`notifier.go:195-203`), so
  that the tracker records changes that nobody was told of; and one whose update is
  lost may leave a notice that contradicts the row. What holds, for any number of
  trackers, is `NoChangeUnannounced`: no row changes but after an answer to a notice
  of just that change.
- A websocket that did not authenticate in time is logged as closed and stays
  open, with its reader (StreamAuth).
- The bus stops for every customer when a writer leaves while the loop sends to
  it, or when its client stalls (`Blocked` in `Stream`): `MessagesArrive` is the
  strongest statement that holds.

## Fairness

- Launch (`FairSpec`): goroutines are scheduled and calls return, since the SDK and
  `backoff.Retry` give up in bounded time; a stack being built or rolled back
  comes to an end, which is CloudFormation's promise. Nothing is asked of
  failures.
- Launches: the same, per launch and goroutine; of the receives only those that
  find a message are owed, and neither crashes nor registrations are.
- Regions, Checks: calls return and goroutines run, weakly fair. Nothing is
  asked of the customer; that the alarms' pages end is not assumed either, the
  limit sees to it.
- Stream: goroutines and timers run, weakly fair; a `select` with several ready
  channels picks at random, hence the strong fairness of the exchanges with the
  loop. Nothing is asked of clients and NSQ.
- Tracker: time passes and trackers run, weakly fair; a replica catches up; a
  call that is made again and again for the same bastions succeeds again and
  again, strongly fair, without which nothing could be recorded. `Restart` is bounded, so
  that restarts end.

## Proofs

`LaunchProofs` proves for every account and all bounds, from
`BoundsAssumption`, `GlobalAssumption` and `ResourcesAssumption` of `Launch`:

- `TypeCorrect`: `Spec => []TypeOK`;
- `Success`: a success is notified only for a ready bastion;
- `Failures`: no failure carries a nil error;
- `Refinement`: a launch implements `LaunchContract`.

One inductive invariant `IInv` serves them all. `SuccessMeansReady` is not
inductive because it speaks of the end only; what carries it there is a count:
`StateCounts` says that `state` is three minus the goroutines whose completion was
applied, so that zero means all three. `LabelsOK` and `EventsOK` tie each
goroutine's place to the events it can be handling, `LockOK` and `ChannelOK` the
handler's step to lock, channel and notification, `RowOK` and `StackOK` the row
and the stack to the place of the sequence, `DrainOK` the drained targets to the
end of discovery. `ErrorsKept` (an error counted is an error kept) is what
`Failures` needs, and `Untouched` (nothing exists before the row) what the
refinement's initial steps need. The module has one lemma per part and groups
of actions under it; actions that leave a part's variables alone are dealt
with together, by frame lemmas.

`LaunchEndProofs` goes on from there, with the same assumptions:

- `Notification`, `LastWord`, `Cleaned`, `Panics`: `NotificationMatchesLastEvent`,
  `FailureIsTheLastWord`, `LeftoversAccountedFor`, `PanicOnlyAfterFailure`.

`WatchOK` ties the last event to the handler's step: as long as the channel is open
and cleanup has not begun, the launch has not failed, for the handler decides
about the event before it lets the next one in; this is why a second failure
finds a nil channel and not a watcher. `CleanOK` follows cleanup's deletions in
their order, each settling what it was tried on, and `OrphansOK` says that a topic or
queue without an answer is the only one and ended the launch before it had a stack. `LaterOK` says of the two
goroutines started last that they have something to tell only of a bastion that
was activated, so that a late event is the only way to close the channel twice.

Two theorems are about who waits for whom:

- `Waiting`: a launch in `consumeSQS` that has not failed has the message about the
  end of its stack in its queue, unless the stack has not ended or is stuck;
- `Relayed`: the send on `EventChan` never waits for a `watchLaunch` that returned.

`PathOK` follows topic, queue, policy and subscription through the stages that
make them, and says that nothing is taken down before a failure; `ToldOK` says
that what the stack reported along this path is still there to be received.

`TrackerProofs` proves for any number of trackers and bastions, any times and
batch size, from `TimesAssumption` and `TrackersAssumption`:

- `TypeCorrect`: `TypeOK`;
- `Leadership`: two trackers serve at once only if one has missed its renewals;
  by `LeaseCovers`: the lease of a serving tracker's key and the age of its Set
  add up to the TTL at least;
- `NoFalseAlarm`: a round younger than the interval does not report what it
  found; by `SeenIsYoung` (what the round found and wrote is no older than the
  round, for only `Tick` lets ages grow) and `RoundsOK` (the list is made when
  the batch is empty, and nothing is kept between rounds).
- `Announcement`: `NoChangeUnannounced`, for any number of trackers; by `Announced`: a
  tracker that is about to update a row has had Slack's answer, in this very round,
  to the notice that says so.

`LaunchesProofs` proves for any number of launches, in any number of processes
that die at any moment, from `HostAssumption` (each launch has a process, and no
launch is called `NoLaunch`):

- `TypeCorrect`, `Rows`, `OneReport`, `Deafness`, `TopicUsed`, `Registrations`: `TypeOK`,
  `RowsMatchStack`, `OneSuccess`, `DeafenedByFailure`, `TopicHasUser` and
  `RegisteredWasActive`, all of `Launches`'s safety;
- `Waiting`: a launch in `consumeSQS` has a message to read, or its stack is still
  being built, or it is `Stranded`.

The invariant adds three parts to them. `Stages` says what a launch's stage
implies of its row and of the stack's owner: without it, `RowsMatchStack` is lost
when a row is written. `StackKnown` ties the messages to the stack that sent
them. `Silenced` is `DeafenedByFailure` for the stages before the wait: a launch
that is not subscribed either has a failed launch to thank for it, or will be
refused the stack. This is why a successful launch, which deletes the topic
too, deafens nobody: it owns the stack that the other would be waiting for.
For `Waiting`, `Heard` says that a launch that is still subscribed has had the
message since the stack ended, whoever deleted and created the topic since.

`StreamProofs` proves for any number of connections, customers, messages and
handlers, with any bound on deliveries, from `OfAssumption`, `DeliveriesAssumption`
and `NobodyAssumption`:

- `TypeCorrect`, `MapIsExact`, `LoopNeverEnds`: `TypeOK`, `Registered`, `LoopLives`;
- `WhoHoldsTheLoop`: the loop's send is taken, unless it is `Blocked`;
- `Promise`: the bus with its websockets implements `Delivery`.

`Users` says whose a connection is by the places of its goroutines, so that what is
unsubscribed is known to the map and the loop lives. `RangeOK` says that what the
loop still sends, it sends to subscriptions of the message's customer, which
holds because the map changes in the loop's `select` alone. `Counted` is what "at
most as often as NSQ delivered it" rests on: what a connection has received, what
handlers hold and what the loop is about to send it add up to no more than was
handed over.

`RoutingProofs` proves `ClassHasGrounds`, about the operators of `Routing` and so about
every account: a class other than an error has the `Grounds` given for it. The maximum
that `SelectLastInSeq` takes exists because its places are a bounded set of
numbers (`LastIsOne`), and comparing the numbers of addresses tells whether
all are reached because a set of addresses has at most as many elements as the
list is long, and as many only if no two are the same (`Counting`).

`RegionsProofs` proves for any number of requests, VPCs and subnets, for any
account and any pages, from `RegionAssumption`:

- `TypeCorrect`, `Row`, `Grounded`, `Offered`, `Quiet`, `Counted`: `TypeOK`, `RowOfAScan`,
  `ClassesHaveGrounds`, `SuitableFirst`, `QuietScanIsTrue` and
  `SteadyInstancesCount`, all of `Regions`'s safety.

`ListOK` says that a request has every instance once, and every one that runs
among those its pages have passed. `MadeOK` is what the properties of a finished
scan come from: the region is the one that the same list, attachments and tables
would give now, although instances have since stopped, because nothing that is
counted of an instance changes. `QuietOK` says that as long as the customer has
changed nothing, what was read is the account. `RowOK` is the order of the save:
the customer's id is there before anything is written, and who finds a conflict
was not the one whose row it is. For `Counted`, the sum over the subnets is a fold,
and the function that a fold is defined by is only known to satisfy an equation;
`SumOfSizes` shows, by a smallest counterexample, that the numbers of instances
in the subnets' union are the only solution of it.

`ChecksProofs` proves for any databases, load balancers, lists of alarms, pages and
limits, from `BoundsAssumption`, `NamesAssumption` (two targets have two names)
and `AlarmsAssumption` (alarms are records with a whole number of units for a threshold,
of which any positive `Mil` make a thousandth, so that no finite `float64` is assumed away):

- `Sources`, `Accounts`, `Contacted`, `TypeCorrect`: `AssertsHaveASource`,
  `ChecksAccountedFor`, `SameContacts` and `TypeOK`, all of `Checks`'s safety;
- `AlarmsFetched`: what was fetched are the first alarms, and all unless cut.

`PoolOK` says that what is still in the pool has not been touched: every name that
was created, reached or failed is of a target that has left it. With `CurrentOK`,
the check at work on is in none of these sets before its call, so that a count
goes up by one with each name. `ContactsOK` says that everyone notified so far is
the cached list, and that the cache is never empty afterwards. `SourcesOK` says
that what exists was generated from the alarms as they still are; what such a
check asserts is then about operators: `Kept` reads its places in increasing order
(`IncreasingExists`, again by a smallest counterexample) and passes by all of them,
so that the last alarm among a database's own is the last among all that are on
it (`LastCounts`). `RoundedIsPrinted` shows that what `%.3f` prints is the one nearest
thousandth, the even one of two, by the uniqueness of division with remainder
(`DivisionIsUnique`), and `WholeIsRounded` the same for the limit on connections. The attempt to prove it has shown a first version of
`AssertsHaveASource` to be wrong where the run's alarms did not tell: of two alarms
of one metric and threshold, of which one is not on the average, the other is
still imported, and so the sets of assertions are compared now.

Only model-checked: liveness (`LaunchEnds`, `LaunchSettles`, `MessagesArrive`,
`ConnectionEnds`, `StatusFollows`, `KeyIsTaken`, `RequestsSettle`, `DrainsInTheEnd`), which is
out of the prover's reach. The theorems called `Waiting`, with `Relayed` and
`WhoHoldsTheLoop`, state the safety that `LaunchEnds`, `LaunchSettles` and
`MessagesArrive` rest on; TLC checks that fairness does the rest.

## Not modelled

- `ListBastions`, `ListBastionStates` and `ListTrackingStates` read tables and change
  nothing; requests are validated before the modules begin.
- `EC2CloudWatch.Generate` has no caller: the line that would add instances to
  the pool is commented out.
- `Stop` of the bus waits for handlers, fifteen seconds at most, just before the
  process ends; `main` and the configuration read the environment and wire the
  parts.
- Transport, templates, `util` and vendored code have no behaviour of their own
  to state, except where the code's use of them is modelled.
