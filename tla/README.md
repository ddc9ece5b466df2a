# A TLA+ verification of the GitHub release notifier

The program under `src/` lets a user subscribe an e-mail address to the
releases of a GitHub repository. It runs as two Node.js processes, the **API**
and the **notifier**, over PostgreSQL, RabbitMQ and Redis. These modules model
the parts in which several processes, callbacks, timers and crashes meet, check
them with TLC on small instances, and prove their safety properties with TLAPS
for instances of any size.

## 1. The system

| part | code (under `src/src/`) | state it keeps | operations | talks to |
|---|---|---|---|---|
| subscribe saga orchestrator | `modules/saga/subscribe-saga.orchestrator.ts` | `pendingReplies` (resolvers and timers, in memory) | `execute`, `compensate`, `startReplyConsumer`, `resolveOrphanedReply`, `recoverPendingSagas` | tables, saga queues, gRPC sender |
| saga table, unit of work | `modules/saga/saga.repository.ts`, `infrastructure/database/` | `saga_instances` | `create`, `updateStatus`, `updateStatusIfCurrent`, `findByStatus`, `findByCorrelationId` | PostgreSQL |
| saga queues | `modules/saga-queue/` | `saga.commands`, `saga.replies` at the broker | publish, consume, ack | queue manager |
| gRPC e-mail sender, saga-mail service | `modules/saga/adapters/grpc-confirmation-email.sender.ts`, `notifier/saga-mail.grpc.ts` | none | `send`, one unary call with a deadline | mailer |
| notifier's command handler | `notifier/saga-command.handler.ts` | none | mail, then a success or failure reply | mailer, saga queues |
| subscription store and service | `modules/subscription/` | `subscriptions` | create (unique per e-mail and repository), confirm, unsubscribe | PostgreSQL |
| release scanner | `modules/scanner/` | none but what each run holds across its awaits | `scan` on every cron tick, `scanRepository` | GitHub, notification queue, repository table |
| repository store | `modules/repository/` | `repositories.last_seen_tag` | snapshot query, `updateLastSeenTag` | PostgreSQL |
| release notification queue and service | `modules/notification/` | `release.notifications`, its retry and dead-letter queues | publish, consume, retry with `x-retry-count`, dead-letter | queue manager, mailer |
| queue manager | `infrastructure/queue/queue-manager.ts` | connection, channel, `isReconnecting`, `closing`, a timer, the reconnect handler | `connect`, `scheduleReconnect`, `performReconnect`, `close` | RabbitMQ |
| start-up and shutdown | `index.ts`, `notifier/index.ts`, `shared/lifecycle/`, `infrastructure/grpc/grpc-server.ts` | none | order of connect, consume, recover, serve, set handler; on a signal, close the listed resources in turn and exit | everything |
| GitHub client, cache decorator | `modules/github/`, `infrastructure/cache/` | cached repositories in Redis | look up a repository, its latest release | GitHub, Redis |
| HTTP and gRPC API, API key | `modules/subscription/subscription.{routes,grpc,schemas}.ts`, `shared/plugins/`, `infrastructure/grpc/` | none | subscribe, confirm, unsubscribe, list; errors to statuses | orchestrator, subscription service |
| metrics, logging, health, configuration | `infrastructure/metrics/`, `shared/`, `container.ts` | none a decision depends on | | |

How they interact: `execute()` stores a pending subscription and a saga row in
one transaction, asks the notifier for the confirmation mail over a queue or
gRPC, and completes or compensates. Replies come back as callbacks on the API's
channel; the reply timer, replies without a resolver ("orphans"), the recovery of
the next start and the user's clicks on the mailed links all write the same two
rows. The scanner publishes one message per subscriber; the notifier mails it
and retries by parking copies. All consumers of a process share the queue
manager's one channel.

What is hard, and what correct means:

* **Saga.** Five writers of one saga's status, each with awaits between its
  reads and its writes, and crashes anywhere. An answer given to the client must
  stay true; the two tables must agree; every saga must end; recovery must
  leave nothing behind.
* **Delivery.** A retry is a publish and an ack in two frames. A message must
  never be lost, never be retried for ever, and not be quarantined early.
* **Channel.** Close events, timers and a reconnect handler interleave; delivery
  tags mean nothing on another channel. There must be one connection, it must be
  consumed on, and an ack must settle its own delivery.
* **Scanner.** Runs overlap, fail halfway and die. A recorded release must have
  been sent to everyone it is due to.
* **From release to mail.** Scanner and notifier are two processes with faults of
  their own that share only a queue. What one repeats and the other duplicates
  must add up to nobody left out.
* **Shutdown.** The list of resources is closed in turn and without a deadline,
  beside calls, handlers, the rest of the start-up and perhaps a second signal. A
  call whose client waits must be answered, no message may be dropped, and the
  process must end.
* **Request path.** One repository has many spellings, a cache in between and a
  name that may change; two APIs have an error table each. There must be one
  subscription per repository, a 404 must be true, a client error must leave nothing
  behind, and a link must act on the row it was mailed for.

Every hazard found in the code, with its line and the properties that would
catch it, is in the hazard list of `PROJECT.json`.

## 2. The modules

| module | models | role |
|---|---|---|
| `SubscribeSaga` | orchestrator, both transports, saga queues, notifier's handlers, recovery, confirmation and unsubscription | detailed specification |
| `SubscribeContract` | what a subscribe request promises to the outside | abstract specification |
| `MCSubscribeSaga` | the assignment of requests to pairs | TLC instance |
| `SubscribeSagaProofs` | | theorems about both |
| `NotificationDelivery` | notification queue and service, with the broker's requeueing and dead-lettering | specification |
| `NotificationDeliveryProofs` | | theorems |
| `BrokerChannel` | queue manager, start-up of both processes, shared channel and tags | specification |
| `BrokerChannelProofs` | | theorems |
| `ReleaseScanner` | scanner and snapshot of the repository store, for one repository | specification |
| `ReleaseScannerProofs` | | theorems |
| `ReleasePipeline` | scanner and delivery over the queue they share | composition of the two (`INSTANCE`), detailed specification |
| `ReleaseContract` | what the program promises about releases | abstract specification |
| `ReleasePipelineProofs` | | theorems about both |
| `GracefulShutdown` | how the three deployments end on a signal | specification |
| `GracefulShutdownProofs` | | theorems |
| `SubscriptionApi` | both APIs, API key, error tables, GitHub lookup and cache, repository and subscription rows, links | specification |
| `MCSubscriptionApi` | the symmetry of calls and names | TLC instance |
| `SubscriptionApiProofs` | | theorems |

Definitions carry the names of the code where they can; `PROJECT.json` maps each
of them to its lines. A definition marked *Mutant* in a comment is not part of
the specification: it is a plausible bug, put in the place of the definition it
stands next to, to see that a property notices.

### SubscribeSaga

One atomic step per SQL statement or transaction, and per tick of the event loop
between two awaits. A saga and its subscription row share an identity.

* `status`, `row`: the two tables. `UpdateStatus`, `UpdateStatusIfCurrent` and
  `CompensationTx` are the repository's three ways to write them; everybody else
  goes through these.
* `pc`, `pending`, `got`, `answer`: where each `execute()` is, the keys of
  `pendingReplies`, how the awaited promise was settled, what the client heard.
* `command`, `tries`, `replyKind`, `replyAt`: the command and the reply of each of
  its deliveries. `PublishCommand` and `PublishReply` may lose what they write (there
  are no publisher confirms); `NotifierCrash` requeues the command, `ProcessLost`
  the replies.
* `api`, `recovering`: the phases of `start()` and the two passes of
  `recoverPendingSagas`, which take one saga at a time. `UnhandledTimeout` is the
  reply timer rejecting a promise nobody awaits, upon which Node ends the process.
* `confirming`, `unsubscribing`, `left`: the links, each a read and a later write by
  id. A click on one may come between the read and the write of a click on the other,
  as often as the user likes; two clicks on the same link at once do what one does.

`SubscribeContract` knows only the life of the row, the client's answer and the
accepted mails, and states its own invariant (`AnsweredTruly`) and what none of its
steps may do (`NothingTakenBack`). `Life` is the mapping: an absent row was never stored if the saga
has no status, and is gone otherwise.

### NotificationDelivery

`copies[m][<<place, n>>]` counts the copies of a message by place and retry
count, since a fault between the two frames of a retry duplicates a message.
`CopyBeforeAck` is `handleRetry`: the copy is parked, then the original is acked.
`InOrder` says that frames of one channel are not reordered. `stale` holds handlers
left on a closed channel: their ack throws, the catch block throws again, and
the unhandled rejection ends the process. A send that throws (`SendFails`) may have
been accepted by the provider all the same, which costs a fault: the connection to it
was lost before its answer. Nothing is on the queue at first:
`Arrive` puts messages there, whether or not the notifier is up, and `Publish`
is a scanner that may publish one message again.

### BrokerChannel

`timers`, `attempts` and `resuming` count the armed reconnect timers, the calls
that await `connect()` and the reconnect handlers that run; `isReconnecting` is
what the code guards them with. `Closed` is the "close" listener together with
what the broker requeues. `AckChannel` is the difference between the two
consumers: `NotificationQueue` keeps the channel it was started on,
`SagaCommandsQueue` asks for the current one. `Roles` selects the process: the
API sets its reconnect handler long after it started its consumer, the notifier in
the same tick. For the API, `Commands` stands for the replies.

### ReleaseScanner

`scan[x]` is one run of `scanRepository` and what it has read: the tag and the
audience of the snapshot, then GitHub's answer. A cron tick (`StartScan`) does not
wait for the previous run. `PublishTo` may lose messages together with the channel;
those are recorded in `lost`. `due` records who was confirmed before a release and
in the snapshot of every run that had not asked GitHub yet: those the code
can be held to (a run that read the table before a user confirmed announces the
release without that user, which the code accepts). The rows of `Subscriptions`
are those followed one by one; `Watched` says whether the repository has another
confirmed row all along, without which a scan would pass it over
(`getRepositoriesWithActiveSubscriptions` is an inner join).

### ReleasePipeline and ReleaseContract

A message is a subscriber and a release. `Publish` is the one step both
processes take part in: `PublishTo` of the scanner and `Arrive` of the delivery,
with the same messages. Every other step is a step of one of them and leaves the
other alone; each has its own bound on faults, so a scan can crash before it
records its tag while the notifier duplicates what the scan had published.

`ReleaseContract` has no scans, channels, copies or restarts. Per subscriber and
release it knows a fate, `unsent`, `lost`, `queued`, `quarantined` or `told`, which
only moves forward in this order. A release is announced to people who have
confirmed, and only if it exists; it is recorded (`last_seen_tag`) only if it exists
and nobody it is owed to is `unsent`. It has invariants of its own, `OnlyConfirmedHear`
and `NobodyLeftOut` (with `OwedToConfirmed` their conjunction `ContractInv` is
inductive), which the pipeline inherits. `Fate` is the mapping: it reads the mails, the dead-letter
queue, the copies and the lost messages, in this order.

### GracefulShutdown

`registerGracefulShutdown` is `Signal`, `CloseResolves` and `Exit`, one pass for
each signal: `pass[p]` is the resource whose `close()` the pass awaits.
`ShutdownResources` is the list each deployment passes (the API with and without a
gRPC sender, and the notifier). A server stops taking calls when its `close()` is
called and is closed when its clients have their answers (`Accepts`, `Closes`); the
queue manager, the pool, Redis and the sender are unusable from the call on.
A call or a handler is the list of what it still uses (`todo`): a saga on the queue
transport goes to the database, the queue, the database, the queue for its reply and
the database again. A call whose client has hung up goes on (`ClientLeaves`) but no
longer holds the server; if it is stuck, its reply timer may end the process
(`ReplyTimerRejects`). `Listen` and `StartGrpc` are the part of `start()` that runs
after the list was registered.

### SubscriptionApi

One call is at one await: `at[r]`. A subscribe call looks the asked-for name up in
Redis (`CacheGet`), asks GitHub (`AskGitHub`), stores the answer (`CachePut`), runs
the creation transaction (`Store`) and waits for its saga (`SagaEnds`, which keeps
of `SubscribeSaga` what the client and the row see of it). A link is a read and a
later write (`FindByToken`, `Write`). `Names` are the spellings under which GitHub
finds the repository; `name` is the one its answer carries, which `Rename` changes.
`FetchRepository` classifies a response in the order of the code, 404 before the
rate limit before the rest; a 200 whose body does not fit `gitHubRepositorySchema` is
`Unreadable`, the one kind the two error tables (`HttpStatus`, `GrpcStatus`) do not
agree on. `Answer` picks the API a call came by only when it
answers, since nothing before depends on it. `missing` records which calls were
under way while GitHub did not have the repository. Other e-mails and
repositories share no row with these and are left out.

## 3. The runs

| run | question | bounds |
|---|---|---|
| `saga_queue` | is every outcome consistent, final and reached over RabbitMQ, and a behaviour of the contract? | 1 saga, 2 deliveries of its command, 1 API crash, 1 failing statement |
| `saga_grpc` | does recovery settle several sagas, and is the contract kept with colliding requests and gRPC's ambiguous errors? Is a completed saga never compensated there? | 3 sagas on 2 pairs, 1 crash |
| `delivery` | is a message kept, counted, quarantined on time, and settled? | 1 valid and 1 invalid message, 3 retries, 1 fault |
| `channel` | one connection, own acks, no reconnect of the notifier that ends without its consumers, a notifier that always consumes again, and queues whose every message is handled and gone at last | 1 notification, 1 command, both processes, 2 faults |
| `scanner` | is anyone skipped or told twice, is what is due published in spite of the faults? | 1 followed subscriber of a watched repository, 2 overlapping runs, 2 releases, 2 faults |
| `pipeline` | do scanner and notifier together keep the contract, is nobody left out, does everyone hear once if nothing fails, and does what is owed end? | 1 subscriber, 1 run of the scanner at a time, 1 release, 1 retry, 1 fault in each process |
| `shutdown` | do calls finish, is nothing dropped, does every signal end the process, and in order? | 3 deployments, 1 HTTP call, 1 gRPC call, 1 handler, 2 signals |
| `subscription_api` | one row per repository, true 404s, client errors that leave nothing behind, links on their own row | 3 calls, 2 spellings, 1 rename, 1 fault |
| `saga_ok_undone`, `saga_stuck_created`, `channel_stale_ack`, `channel_late_handler` | does the code do what a document or a test says? It does not (section 6). | the smallest that show it |

Why the bounds are enough for what they are for. A race over one saga needs its
request, one orphan and one recovery or crash: two deliveries give two replies,
and one crash gives a recovery in which a request, an orphan and the recovery
compete. Sagas share nothing but the unique constraint and the recovery's list,
for which three sagas on two pairs suffice. `MaxRetries` is the code's own value.
One fault can duplicate a message at each stage of its retries. On the channel,
two faults give a loss during the reconnect of another loss, or a loss and a
crash. Two runs of the scanner is the least that overlaps, and two releases the
least for an older answer to be recorded over a newer one; subscribers differ only
in when they are confirmed, and `Watched` supplies the others. On the request path,
three calls are two subscriptions to one pair and a link, or one subscription and
two links. In the pipeline one fault on each side is the least at which what the
scanner repeats meets what the notifier duplicates; overlapping scans and further
releases are `scanner`'s and, for every number, the proof's. In the shutdown one call
of each kind is what can hold each server, a handler and an abandoned call are what
can be overtaken, and a third signal does what the second does. The
safety properties are proved without bounds (section 5).
`MaxDeliveries`, `MaxCrashes`, `MaxDbFailures`, `MaxFaults` (in the pipeline
`MaxScannerFaults` and `MaxNotifierFaults`), `MaxPublished`, `MaxRenames` and
`MaxRelease` are the bounds; the counters `mails` (2), `failures` (`MaxRetries + 1`) and
`published` (2) are capped at the value from which no property tells more apart.

Deadlock checking is off where the system may stop, when nobody subscribes any
more, all messages are settled, the process has ended, or the bound on faults is
used up; only
`subscription_api`, whose GitHub never stops changing, has it on.

Every property of a passing run has a mutant of a definition that violates it:
among them a conditional write without its condition, recovery of one status only, a reply that is always a success, an ack
before the copy, a retry count that is not raised, a `scheduleReconnect` without
its guard, a repository keyed by what the client wrote, a conflict that
does not roll back, a handler that returns without its ack, a tag recorded in spite of a failed publish, an audience
without a look at the status, COMPLETED written inside the `try` of the gRPC call,
consumers that a reconnect does not restart, the database closed
before the queue, and a server that takes calls while it closes.

## 4. Fairness

Liveness is checked under weak fairness of what the runtime and the containers
do by themselves: the event loop runs ready continuations, timers fire, the
broker delivers and expires, a call returns or fails, reconnect attempts are
repeated by `performReconnect`, cron ticks, and the containers restart
(`restart: unless-stopped` in the compose file). No fairness is assumed of a
client, of a user's click, of a release, of a mail being accepted or of a fault.

* Saga: each request's next step, timer, call, reply and notifier step is fair,
  for each saga; so is the start-up.
* Delivery: fair per message and retry count, so that one message cannot starve
  another; whether the mail is accepted or rejected is open, so `Settles` and
  `Drains` hold even for a provider that rejects everything.
* Channel: the manager's, the start-up's, each message's delivery and handler
  steps; `closing /\ Exit` because a graceful shutdown ends in `process.exit`.
* Scanner: `StartScan` and each step of a run are fair for each run.
* Pipeline: the fairness of both, with the notifier's restart, reconnect and stale
  handlers as one action (`NotifierStep`), of which at most one kind is possible in
  each state of the process but for a stale handler, which ends by a restart.
* Shutdown: each call's and handler's next step, each pass and the two listens.
  That a call's next step comes is what the timers and deadlines of its awaits give
  (the reply timer, the gRPC deadline, and for the rest the drivers' and the
  platform's own time limits: the code sets none); nobody has to signal or to hang up.

`AwaitingIsResolved` excuses two cases, in its statement: a failing statement,
after which the saga waits for the next start, and an ambiguous gRPC outcome.

## 5. What is proved

TLAPS checks, for all values of the constants (within the named assumptions,
which TLC evaluates in every run):

* **SubscribeSagaProofs.** `TypeCorrect`; `SagaInvariant`, from which
  `FailureIsFinal`, `CompletionIsMailed`, `TablesAgree`, `RecoverySettles` and
  `OkIsKept` follow; `CompletedIsFinalOnGrpc`, for `Transport = "grpc"`: no step takes a
  saga from COMPLETED to COMPENSATING; `SagaImplementsContract`, the refinement:
  `StepImplements` takes each action to a contract step or a stutter; and what follows
  from it, `AnswersAreTrueAlways` and the action property `NothingEverReturns`.
* **BrokerChannelProofs.** `TypeCorrect`, `ChannelInvariant`, `OneConnectionOpen`,
  `NotificationsAckThemselves`, `NotifierNeverDeaf`; `OnlyCommandsLose`, what an ack
  can drop and who drops it; `NothingLostWithoutCommands`, for `Commands = {}`.
* **ReleaseScannerProofs.** `TypeCorrect`, `ScannerInvariant`, `NobodyIsSkipped`,
  `OneMessage`.
* **NotificationDeliveryProofs.** `DeliveryInvariant`, `NothingIsLost`,
  `QuarantinedLast`, `OneOutcome`.
* **ReleasePipelineProofs.** `PipelineImplementsContract`, the refinement;
  `OnlyConfirmedHearIt`, `NobodyIsLeftOut` and the action property
  `FatesOnlyMoveForward`, which follow from it; `HeardOnce`.
* **GracefulShutdownProofs.** `ShutdownInvariant`, `CallsAlwaysFinish`,
  `NothingIsDropped`, `AlwaysEndsInOrder`.
* **SubscriptionApiProofs.** `ApiInvariant`, `OneSubscription`, `NotFoundHolds`,
  `ClientErrorHolds`, `LinksHold`.

The arguments. None of the properties is inductive by itself.

* `FailedMeansRemoved` needs to know that an answered request writes no more
  (`FailedIsOver`) and that nothing else compensates or resurrects a COMPENSATED
  saga. `CompletedMeansMailed` needs every holder of a success to know the mail
  was accepted (`MailKnown`). `RecoveredSagasSettled` needs what the passes still
  have to do (`RecoveryComplete`): no request is served during recovery, and every
  AWAITING_EMAIL saga is on the first pass's list, every COMPENSATING one on the
  second's or in its hands. `Begun` ties them to the creation transaction.
  `Consistent` is their conjunction.
* `OkMeansKept` (a client who was told 200, and whose command was not delivered
  twice, keeps his row) is about the orphans that could still compensate. `ReplyTaken`
  ties each reply to the delivery it answers and to whoever took it, the request or
  an orphan; with one delivery there is one reply, which the request took, so no
  failure is left (`AlwaysTaken`). `Kept` says it of the table, together with the
  recovery and the reply timer (`AlwaysKept`). On gRPC nobody but `execute()` completes
  a saga, after its call and outside of the `catch` that compensates
  (`OnlyExecuteCompletes`): hence `CompletedIsFinalOnGrpc`. `SagaInv` is the
  conjunction of all of these with the types.
* `AnswersAreTrue` and `NothingReturns` are said of the contract first, where they
  take one line per step (`AnsweredTruly`, `NothingTakenBack`), and carried over by the
  refinement (`ContractIsKept`, `ContractHolds`). No run has them: what can break them
  is a step that is none of the contract's, which `ImplementsContract` finds.
* `OneConnection` holds because at most one of a timer, an attempt, an open
  connection exists, and `isReconnecting` is set while a reconnect is under way
  (`OneReconnect`); `DownIsEmpty` carries this through restarts. A notification
  settles itself because its handler's channel and tag name one delivery
  (`TagsAreUnique`). `NotifierReconsumes` holds since the notifier registers its
  handler in the tick in which it consumes (`NotifierRegistered`), so that each
  reconnect restarts the consumers or is still at it. `ChannelInv` is their
  conjunction. `OnlyCommandsLose` adds that whoever settled a message had finished
  (`SettlersAreServed`): a notification's handler settles its own, so one that was
  settled unfinished was settled by a command.
* `NobodySkipped` needs, at each await of a run, what the run has to have read or
  sent for everyone its tag is due to (`Covered`): in the snapshot before and
  after GitHub's answer, in the queue or among the lost messages before the tag is
  recorded. `OneMessagePerRelease` needs runs to take turns (`InTurn`): without an
  overlap and a fault, the one run under way read the tag the table still has, a
  release above it has been sent to nobody but by this run, and what was sent is
  recorded or about to be. `ScannerInv` is their conjunction (`CoverageInv`, `InTurn`).
* `NeverLost` needs to know that the two copies of a retry are not both at risk:
  what is copied but not acked has another copy, since nothing overtakes its ack
  (`InFlightIsSafe`, `InOrder`). `DeadOnlyAfterRetries` needs every retry count to be
  covered by failures, over all the copies faults have made (`CountsFailures`).
  `OnlyPublished` is the converse that the pipeline needs. `OneOutcomeWithoutFaults`
  would need a sum over the places of a message; since a message is published twice at
  most, `NoDuplicates` names instead the places of its two publications (`Accounted`)
  and says that outside of them it has no copy, and no more outcomes than
  publications that ended.
* The pipeline's steps are steps of the scanner, and steps of the delivery or
  arrivals (`ScannerSteps`, `MessageSteps`, `NotifierSteps`), so `CoverageInv` and `QueueInv`
  hold of it (`CoverageHolds`, `QueueInvHolds`). `Known` is what they say of its
  own variables: a message has been published exactly if it is held, mailed or
  dead. With that a fate is a function of four counters (`FatesArePlain`), and each
  step is taken to one of the contract's: publishing to `Announce`
  (`PublishImplements`), recording to `Record`, which needs `Covered`
  (`RecordImplements`), one message's outcome to `Tell` or `Quarantine`
  (`NotifierImplements`). The contract's own invariant is preserved by its steps, so
  it holds of the pipeline through the refinement (`ContractIsKept`, `ContractHolds`),
  as does the order of the fates (`NothingIsTakenBack`).
  `HeardOnceUndisturbed` combines `InTurn` and `NoDuplicates`: one side publishes once,
  the other does not duplicate (`PipelineDuplicatesNothing`).
* `CallsFinish` holds because nothing a call uses is closed before the servers are,
  which needs the passes to be behind what is closed (`ClosedInOrder`), and because a
  closed server has no waiting clients (`ServesNobody`); the same order, queue before
  database, gives `NothingDropped`. `ShutdownInv` is their conjunction.
* `OneSubscriptionPerRepository` needs every name the program holds, in the cache,
  in a call or in a row, to be the canonical one (`Canonical`), and rows that live
  to have different names (`UniqueRows`). `NotFoundIsTrue` needs every call under
  way to have noticed a missing repository (`MissingIsNoticed`), and it,
  `ClientErrorLeavesNothing` and `LinksActOnTheirRow` need calls to go through their places in order
  (`CallsInOrder`); the lemmas `RowsStep`, `CallsStep` and `ToldStep` say what any
  step does to rows, answered calls and statuses. `ApiInv` is their conjunction.

How far some of them go. `OneOutcomeWithoutFaults`, `OneMessagePerRelease` and
`HeardOnceUndisturbed` exclude faults and overlapping scans by their statement and say
that nothing else repeats a mail; the pipeline's run has one scan, so that the overlap
is the scanner's run and the proofs' alone. A confirm whose row goes between its read and
its write is told 200 (`LinksActOnTheirRow` asks for a row that is confirmed or gone).
`EndsInOrder` names the deaths of the process that it allows, it does not exclude them.

Only model-checked: the liveness properties (the prover has no fairness or ENABLED
reasoning here). Every invariant of a passing run, both refinements and
the one action property (`ResolvedNotCompensated`, on gRPC) are theorems.

## 6. Where the code and its documents differ

Four runs are expected to fail, each on a claim quoted in the findings of
`PROJECT.json`:

1. `saga_ok_undone`: a command is delivered twice, its first mail accepted and its
   second rejected. The SUCCESS settles the request's resolver; before `execute()` has
   written COMPLETED, the FAILURE finds no resolver and marks the saga COMPENSATING.
   `execute()` then overwrites that and answers 200, and the orphan's transaction
   deletes the row. With one delivery it cannot happen (`OkIsKept`).
2. `saga_stuck_created`: a saga that dies between its creation and the
   AWAITING_EMAIL write is never recovered, and its row blocks the pair.
3. `channel_stale_ack`: a saga command handled across a reconnect acks another
   message's tag on the new channel, which can lose a release notification. Nothing
   else can (`OnlyCommandsLose`, `NothingLostWithoutCommands`).
4. `channel_late_handler`: a connection lost while the API starts is reopened
   without its reply consumer. The notifier is not exposed to it (`NotifierNeverDeaf`).

Met while modelling, without a run of their own:

* On gRPC an ambiguous error keeps the subscription (`GrpcAmbiguous`), and the next
  start of the API deletes it although the mail may have been sent;
  `src/README.md:155` says that the caller sees the same outcome on both transports.
* A user who confirms while the reply is late loses the confirmed subscription to
  the timeout's compensation (`ConfirmWrite`, then `FinishCompensation`);
  `src/README.md:68` says that it is marked as confirmed.
* The reply timer's compensation is unconditional: on the queue transport it writes
  COMPENSATING over a COMPLETED that an orphaned reply has just written, though a reply
  that comes to a saga someone else has resolved is skipped. The tests of the timeout
  expect the compensation, and the client is told that it failed (`FailedMeansRemoved`),
  so no claim is broken; on gRPC it cannot happen (`CompletedIsFinalOnGrpc`).
* A body of GitHub's that does not fit its schema throws a ZodError
  (`github-http-client.ts:47`), which the gRPC table takes for a bad request
  (`grpc-error.mapper.ts:23`, INVALID_ARGUMENT) and REST answers with 500, where
  `docs/system-design.md:115` says that gRPC mirrors REST and line 107 that 400 means a
  wrong request (`Unreadable`, `GrpcStatus`).
* A send that throws after the provider accepted the mail is retried like any other:
  the subscriber has two mails, or a mail and a dead letter (`SendFails`).
* An older scan can record its tag over a newer one, after which the newer release
  is announced again.
* Shutdown: `docs/system-design.md:163` says that each process stops accepting new
  requests. It does so server by server: gRPC takes new calls as long as HTTP has
  calls to finish (`Accepts`). "Finishes active ones" holds for calls with a waiting
  client (`CallsFinish`), not for message handlers, whose message is redelivered and
  may be mailed a second time. A second signal calls `pool.end()` twice, whose
  rejection ends the process before the rest is closed (`EndsPoolAgain`); a signal
  between the registration of the list and the listens ends it with 1 (`Opens`).
* `performReconnect` does not look at `closing`, and a stale ack can drop a reply in
  the same way as a notification. `isHealthy` stays true from a close event to
  `performReconnect`, so that the notifier's probe answers 200 without a channel.
* Messages are published without publisher confirms, so the scanner records a tag
  over messages that never arrived (`lost`).
* `src/README.md:69` speaks of releases cached in Redis, but the caching decorator
  stores repositories only. After a rename on GitHub one e-mail can hold two
  subscriptions for one repository, since rows are keyed by owner and name
  (`OneSubscriptionPerRepository` is claimed while nothing was renamed). A request
  body that is not JSON is answered 500, because the error handler looks for
  `error.validation` only.

## 7. Not modelled

* A container killed because a shutdown took too long: that is a crash, which
  `SubscribeSaga`, `NotificationDelivery` and `ReleaseScanner` have.
* A server's `close()` that fails: `close` of Fastify and `tryShutdown` of gRPC
  reject only if the server's own sockets fail, which nothing here leads to.
* What the schemas accept, metrics, logging, templates, configuration: no state
  that a decision reads. Validation is an outcome of a call.
* The rows the list operation returns: one query, formatted.
* Calls whose process dies under them: `SubscribeSaga` has those.
* The API losing only its connection to the broker, with a reply's handler under way
  in a process that lives on: in `SubscribeSaga` replies come back to the queue by the
  end of the process only. What such a handler's ack then does is `BrokerChannel`'s
  (`AckChannel`, where `Commands` stands for the replies), without the saga behind it.
* The promise of a `consume()` that its channel's closing rejects, which nobody awaits:
  as a death of the process at that moment it is one of `Exit`'s in `BrokerChannel`.
* A repository name such as `../user`, for which GitHub answers something else than a
  repository: it is an answer that does not fit the schema, counted as a fault of
  GitHub's though the request brought it about.
* Retry delays, prefetch and queue arguments: the broker's part, abstracted to
  "later".
* Isolation between concurrent transactions below one atomic step: the database's.
* The connection to Redis and the migrations at start-up: both are before anything
  is served, and a failure ends the process.
* Several repositories: runs of `scanRepository` share only the snapshot query.

## 8. Plan

Done, in this order: saga and contract with their proofs; delivery; channel with
its proofs; scanner with its proofs; the request path with its proofs; the shutdown
with its proofs; the delivery's proofs; the pipeline, its contract and the proof that
it keeps it; the proofs of every remaining invariant, of the limits of three of the
findings, and of what the two contracts promise by themselves; lost replies, clicks
that interleave, mails that arrive although the send threw, and unreadable answers.

Next, the most important first:

1. `SubscriptionApi` over `SubscribeContract`: `SagaEnds` replaced by the
   contract's steps, so that the two models share one account of the saga.
2. `ReleaseContract` with a second scan and a second release under TLC, if the state
   space can be reduced far enough; the proof covers them.
3. What a step may never do, for the components without a contract: the channel (a
   delivery tag is settled once) and the request path (a link moves a row forward only).
