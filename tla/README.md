# Verification of the MSQ Relayer Service

TLA+ models of the MSQ Relayer Service, model-checked with TLC and, for all
safety properties, proved with TLAPS.
File names below are relative to `packages/` of the repository unless they
start with `docs/` or `docker/`. `PROJECT.json` maps every definition of the
modules to the lines it models.

## 1. The system

A client asks `relay-api` to relay a transaction. `relay-api` stores a row in
MySQL and a message in SQS and answers 202. `queue-consumer` takes the message,
picks one of several OpenZeppelin Relayer instances, posts the transaction to it
without waiting for the outcome ("fire and forget"), records the relayer's
transaction id in the row and deletes the message. The outcome comes back
through webhooks of the relayer, or through status requests of the client,
which ask Redis, MySQL and the relayer in turn.

```
 client --POST--> GaslessService / DirectService --> QueueService --row--> MySQL
   |                                                     |message            ^ ^
   |                                                    SQS --(3 x)--> DLQ   | |
   |                                                     |                   | |
   |            ConsumerService <------------------------+ --row-------------+ |
   |               | RelayerRouterService (cache)                              |
   |               v                                                           |
   |            OzRelayerClient --POST--> OZ Relayer 1..n --> chain (Forwarder)|
   |                                        |webhook    ^GET                   |
   |                                        v           |                      |
   |                                   WebhooksService  |  ------row, Redis----+
   +--GET status----------------------> StatusService --+  ------row, Redis----+
```

### Components

| component | state | operations | what makes it correct |
|---|---|---|---|
| `transactions` table (`relay-api/prisma/schema.prisma`) | per request: `status`, `ozRelayerTxId` (unique), `ozRelayerUrl`, `hash`, `confirmedAt` | create, findUnique, update, upsert from three writers, no locks or conditional updates | the id names a transaction the named relayer really has |
| SQS queue and DLQ (`docker/scripts/init-localstack.sh`) | place and receive count of each message | send, receive, visibility timeout, redrive after 3, delete by receipt handle | (external) |
| QueueService (`relay-api/src/queue/queue.service.ts`) | one open request | row, message, 202; or rollback, 503 | a 202 means that somebody has the request |
| ConsumerService (`queue-consumer/src/consumer.service.ts`) | `isShuttingDown`, the handlers under way | poll every second, `handleMessage`, shutdown | save before delete; no second POST that could be avoided |
| OZ Relayers | their transactions | accept a POST, progress, emit webhooks, answer GET | (external) |
| RelayerRouterService (`queue-consumer/src/relay/relayer-router.service.ts`) | `relayerCache`, `roundRobinIndex` | `getAvailableRelayer` | stale health or load counts for a bounded time |
| OzRelayerClient (`queue-consumer/src/relay/oz-relayer.client.ts`) | none | build and post a transaction | what is posted is what was asked |
| WebhooksService (`relay-api/src/webhooks/webhooks.service.ts`) | the event it handles | update row, write Redis, notify | no outcome that did not happen |
| NotificationService | none | one POST to the client, not awaited | |
| StatusService (`relay-api/src/relay/status/status.service.ts`) | the request it answers | three-tier lookup, write-through | who asks after the outcome is told an outcome |
| RedisService | `tx:status:{id}`, 600 s | get, set | |
| GaslessService, SignatureVerifierService | none | deadline, nonce, signature, then queue | nothing unexecutable is queued |
| DirectService | none | passes on to QueueService | |
| Forwarder (`contracts/contracts/ERC2771Forwarder.sol`, OpenZeppelin) | nonce per signer | `execute` | one execution per signed request |
| `.moai/scripts/setup-glm.py` | the files `.env.glm`, `.gitignore`, `settings.local.json` | one run: write the token into each | development tooling, see below |
| health endpoints, guards, DTO validation, filters, configuration, sample contracts, deployment | none that lasts | | |

### What is hard about it

- **Delivery is at least once** and the idempotency check of `handleMessage`
  (`consumer.service.ts:183`) is separated from the save (`:227`) by a health
  check, an HTTP POST and two updates. Handlers of several deliveries overlap:
  polls start every second without awaiting each other (`:115`), messages of a
  batch wait for each other while their visibility timeouts run (`:141`), and
  several processes can run.
- **Every await can fail after its effect took place**: the send to SQS, the
  POST, each UPDATE, the delete. `handleMessage` swallows all errors.
- **Processes end under their handlers**, in a crash or in a shutdown.
- **Three writers overwrite `status` unconditionally** (consumer, webhook,
  status request), two of them write Redis as well, in two awaits; webhooks may
  be lost, late, repeated or out of order.
- **Cached health checks** are read and replaced by overlapping calls.
- **Checks at request time, use much later**: the nonce and deadline of a
  gasless request are compared before it enters an unordered queue.
- **Wei amounts** go through `parseInt`.

The service is written in TypeScript (and Solidity). The repository's only Python
file is a script of its development tooling, `.moai/scripts/setup-glm.py`, which
puts an API token into three files. It takes no part in relaying. It is modelled
because it too can be interrupted between two writes; it is the least important
part of this project.

`PROJECT.json` lists each of these as a hazard with its line and the properties
that would fail if it went wrong.

## 2. Modules

| module | models | uses |
|---|---|---|
| `TransactionStore` | the row, deliveries, `SetStatus` | |
| `SqsQueue` | queue, redrive, receipt handles | `TransactionStore` |
| `QueueProducer` | `QueueService` | `SqsQueue` |
| `OzIntake` | POSTs on the wire, at the relayers | `TransactionStore` |
| `QueueConsumer` | `ConsumerService` | `SqsQueue`, `OzIntake` |
| **`RelaySubmission`** | the composition up to the relayer's acceptance | `QueueProducer`, `QueueConsumer` |
| `RequestCustody` | abstract: what a 202 promises | |
| **`SharedRow`** | abstract: the contract on the row between its writers | `OzIntake` |
| `RelaySubmission_proofs` | safety theorems | `RelaySubmission` |
| `RelaySubmission_refinement` | it implements `SharedRow` and `RequestCustody` | `RelaySubmission_proofs` |
| `OzLifecycle` | relayer statuses and webhook events | `OzIntake` |
| `StatusStore` | `hash`, `confirmedAt`, Redis | `OzLifecycle` |
| `Webhooks` | `WebhooksService` | `StatusStore` |
| `StatusLookup` | `StatusService` | `StatusStore` |
| **`StatusSync`** | the composition after acceptance | `SharedRow`, `Webhooks`, `StatusLookup` |
| `StatusSync_proofs` | theorems | `StatusSync` |
| **`RelayService`** | the whole service: both halves on one table and one cache | `RelaySubmission`, `Webhooks`, `StatusLookup`, `StatusSync_proofs` (instantiated) |
| `RelayService_proofs` | it implements the specification of either half; end-to-end theorems | `RelayService`, `RelaySubmission_refinement` |
| `RequestCustody_proofs` | theorems about the custody contract | `RequestCustody` |
| **`RelayerRouter`** | `RelayerRouterService` | |
| `RelayerRouter_proofs` | theorems | `RelayerRouter` |
| **`Execution`** | gasless checks, translation, Forwarder | |
| `Execution_proofs` | theorems | `Execution` |
| `SetupGlm`, `SetupGlm_proofs` | the setup script; theorems | |
| `MC*` | instances for TLC | |

### RelaySubmission

State: `db` (rows), `sqs` (place and count of each message), `req` (how far
`sendDirectTransaction` or `sendGaslessTransaction` got), `proc` and `handler`
(processes; for each delivery the next await of its `handleMessage` and the
process it runs in), `post` and `home` (what became of each POST, and where it
went). A delivery is a pair of a transaction and a receive count, so handlers
are as many as SQS deliveries; the relayer transaction a delivery causes is
named by the delivery. `exposed` is auxiliary and read by properties only.

| action | code |
|---|---|
| `CreateRow`, `CreateRowFails` | phase 1 of `queue.service.ts:44-59` |
| `MessageStored`, `SendSucceeds`, `SendFails` | phase 2, `:61-81`; being stored and returning are two events |
| `RollbackRow`, `RollbackFails` | phase 3, `:83-101` |
| `Receive`, `Skip` | `processMessages` |
| `Unreceived` (`ReceiveInVain`) | a message counts as received, but nobody handles it: the poll ended in a process that was stopping or gone, or its answer was lost |
| `ReadRow` | `findUnique` and both idempotency checks, `consumer.service.ts:167-189` |
| `MarkProcessing`, `RouteAndPost`, `PostAnswered`, `SaveSubmission`, `DeleteMessage` | the awaits of `:191-241`, in order |
| `HandlerFails` | any await rejects, `:243` |
| `BeginShutdown`, `ShutdownEnds`, `ProcessCrash`, `ProcessStart` | `onModuleDestroy`, process death, `onModuleInit` |
| `VisibilityTimeout`, `Redrive`, `Intake` | SQS and the relayers |
| `StatusWritten` | any webhook or status request; `StatusSync` models them |

An await that rejects after its effect is the effect's action followed by
`HandlerFails` (the effect and the return are distinguished where it matters:
`MessageStored`/`SendSucceeds`, `RelayerAccepts`/`PostAnswered`).

### RequestCustody

The promise of the 202 without queue, rows and handlers: who has custody of a
request (client, api, queue, relayer, dead-letter queue, nobody) and what the
client was told. A request can be dropped only if its client was told no, a yes
is said only when queue, relayer or dead-letter queue have the request, and
custody of a relayer is never given back. `RelaySubmission!KeepsCustody` says
that the submission path implements it, with the mapping `custodyOf`,
`answerOf` (for one transaction, `Custodian` and `Answer`). Note that one path leads from `nobody` to `relayer`: a request
whose client got 503 can still be relayed (below).

### SharedRow

The row is all that ties the two halves of the system together: producer and
consumer write it up to the relayer's acceptance, webhooks and status requests
from then on. `SharedRow` states what each of them may do to it, and what it may
rely on the others to do: create the row once, roll it back once, mark it from a
handler that found it unsettled, record an accepted relayer transaction from such
a handler, write a reported status to a row that names one. POSTs are reduced to
"wire" (a handler is bound to send it, or it is under way), "accepted" and
"none".

It joins the two compositions. `RelaySubmission` has queue, processes and
handlers, with all webhooks and lookups as one action `StatusWritten`;
`StatusSync` has webhooks and lookups in full, with producer and consumer as
`SubmissionStep` of `SharedRow`. `KeepsToTheRow`, in both modules, says that the part
modelled in full keeps to the contract by which the other one knows it. So a
step of a handler that the status path does not expect (or of a lookup that the
consumer does not expect) is a violation, and what each composition shows holds
of the other half as the code has it. `RelayService` has both halves in full.

### StatusSync

Producer and consumer are the actions of `SharedRow` (`Submit`).
`chain` and `events` are the relayers' side, `receipt` the columns written with
the status, `redis` the cache, `hook` and `query` the requests under way in
`relay-api`. `UpdateMysql` and `UpdateRedisCache` are the two awaits of a
webhook; `ReadRedis`, `ReadMysql`, `Backfill`, `LocateRelayer`,
`FetchFromOzRelayer`, `WriteRedis`, `UpsertMysql` those of a status request, the last two in either
order and each failing alone, as under `Promise.all`.

### RelayService

The actions of both halves side by side, on the same `db`, `post` and `home`:
`Submit` is any step of `RelaySubmission` but `StatusWritten`, in whose place
stand the real `HandleWebhook` and `Lookup`; `Proceed` and `Expire` are the
relayers and the cache. The instance `Status` reads `StatusSync` off this state:
its `working` are the handlers between their read and their save, its `refused`
the rejected requests, and its `post` is "wire" from the moment a handler is
bound to send. The module's own properties need both halves: `Told` (an outcome
is in the row, the cache, or on its way to either or to a client) comes from the
status path, `RelayerTxs` and `Quiet` (nothing under way can add a relayer
transaction) from the submission path.

### RelayerRouter

`relayer` is what a health check would find, `cache` and `rr` are
`relayerCache` and `roundRobinIndex`, `call` the calls of `getAvailableRelayer`
under way. Two auxiliary clocks, read by properties only, run for each relayer:
`since` from its last change of any kind, `turned` from the last change of its
health, whatever its load does. Time is in ticks: an entry serves for `TTL`, a check lasts at most
one. `RelayerAnswers` and `CheckSettles` are separate because the entry is
written after an await, so a check answered earlier can overwrite a later one;
`CheckedFor` keeps that `lastChecked` is read before the request leaves.

### Execution

`ValidateDeadline`, `ValidateNonce`, `ValidationFails`, `Enqueue` are
`GaslessService.sendGaslessTransaction`; the node it asks for the nonce may lag.
Between queue and chain everything is reduced to its effect: a queued request is
submitted at any time, in any order, up to `MaxSubmit` times. `ParsedValue` is
`parseInt`: rounding to the nearest number of `Precision` significant bits, ties
to even. `ExecuteGasless` is OpenZeppelin's `execute`, in its order (`Verdicts`):
the value of the call is that of the calldata (`CalldataValue`, exact), the target trusts the Forwarder, nonce
and deadline are in order (`StillValid`), the forwarded call succeeds. A
transaction that reverts for any of these undoes the use of the nonce. "rejected"
is what the Forwarder itself finds fault with; "untrusted" and "reverted" are the
target's decisions, which it may take otherwise the next time.

### SetupGlm

`file` is, of each of the three files, the script's own part (a token, the
`.gitignore` entry) and the version of everything else; `run` is the run under
way. Every rewriting is two steps, `Truncate` and `Write`, with what was read
before (`held`) in between; `EndsEarly` is an exception, caught by one of the two
`except` clauses, or a kill. `OthersEdit` is a developer or the session that owns
`settings.local.json`; it may also put variables into the settings' `env`, whose
version is `added`. Read closely, the code differs from its comments in small
ways, and the model follows the code: line 75 says "Add GLM environment
variables", but line 76 replaces the whole `env` object, so what others had put
there is lost in every successful run (`DropEnv`); any mention of `.env.glm`
in `.gitignore`, a comment or a negated pattern too, counts as the entry; settings
cut off by an earlier run stay so, since later runs refuse to load them.

## 3. Runs

Passing runs:

| run | instance | what it shows |
|---|---|---|
| `submission` | 1 transaction, 2 deliveries, 1 process, 2 relayers | see below |
| `status` | 1 row, 2 relayer transactions, 3 statuses, 1 webhook handler and 1 status request at a time | see below |
| `service` | 1 row, 2 deliveries, 1 process, 1 relayer, 3 statuses, 1 webhook handler and 1 status request at a time | see below |
| `status_liveness` | 1 relayer transaction, 4 statuses | `OutcomeIsReadInTheEnd` |
| `routing` | 2 relayers, one with pending counts 0 and 1, 2 calls, TTL 2 | `LongIllNotSelected`, `LongWellNotIgnored`, `LastingLoadIsRespected` |
| `execution` | 2 requests of one signer, 2 submissions each, nonces 0..2, time 0..1, values 0..3, precision 1 | `NeverAheadOfSigner`, `RejectionIsFinal`, `SmallValuesArrive` |
| `setup_glm` | 2 tokens, any number of runs, each file edited by others up to `MaxEdits` times | see below |

- `submission`. `NoAcceptedTransactionLost`: after a 202 the message is in SQS
  or the DLQ, or the row names the relayer transaction.
  `ExactlyOnceUnlessExposed`: a transaction is sent at most once unless its
  visibility timeout ended under a handler that had yet to read the row or to
  record its POST, or a handler ended between POST and save.
  `UnrecordedMeansUnsent`: an idle, unrecorded, unexposed row can be replayed.
  `RecordedSubmissionIsReal`: id and URL belong together. `QuietIsFinal`: a
  settled row stays settled and gets no further relayer transaction, although
  status writes, rollbacks and redeliveries go on. `KeepsCustody`,
  `KeepsToTheRow`: the refinements. `IInv`: the inductive invariant of the proofs.
  `AcceptedIsRelayedOrDeadLettered`: under the fairness below, what was accepted
  gets to a relayer or into the DLQ.
- `status`. `OutcomesAreReal`: mined, confirmed and failed are told only after
  a relayer transaction of that row got there (or, for failed, the request was
  refused and rolled back). `ConfirmedHasItsReceipt`: a
  snapshot that says confirmed has the hash of a transaction that was confirmed
  and a time, although these are written by two services and copied to the cache
  separately. `LateAnswersAreTerminal`: a request asked once the outcome is
  final never finds `queued` .. `inmempool`. `KeepsToTheRow`: the refinement.
- `service`, of transactions that were neither exposed nor refused:
  `OutcomeIsOfTheOneTransaction`: when anything told, cached or stored says mined,
  confirmed or failed, the row names the only relayer transaction, which had this
  outcome, and nothing under way can add another. So a client that was told failed
  can send its request again without being executed twice.
  `NothingRelayedAfterAnOutcome`: no redelivery, restart or late POST relays it
  again. Neither can be stated of one half.
- `status_liveness`. `OutcomeIsReadInTheEnd`: with all webhooks lost, a client that
  keeps asking learns the outcome. `docs/FIRE_AND_FORGET_PATTERN.md:592-611` says
  of this case that the row is stuck in `submitted` and that `GET` answers so; the
  code does better than this document (a finding, shown by a passing run).
- `routing`. A relayer whose condition changed counts as it was for at most
  `TTL` plus the one tick that a call may spend waiting, however calls overlap:
  for its health, whatever its load does meanwhile (`LongIllNotSelected`,
  `LongWellNotIgnored`), and for its load (`LastingLoadIsRespected`).
  `LongWellNotIgnored` contradicts two comments of `relayer-router.service.ts`
  (lines 22 and 216: round robin "if health check fails for any relayer"); the code
  falls back only when no relayer is found healthy (a finding, shown by a passing
  run).
- `execution`. What the nonce check lets through is never ahead of its signer,
  so reordering by the queue cannot make a request wait for another one; what
  the Forwarder itself rejects, for nonce, deadline or value, it rejects for good,
  on a second submission too. This is not so of a request that was reverted or
  whose target did not trust the Forwarder: its second submission may execute.
  `SmallValuesArrive`: as long as the value is a JavaScript number, a direct request
  pays what was asked, and the Forwarder itself rejects a gasless one for nonce and
  deadline only. (The rounding of larger values is the finding `execution_value`.)
- `setup_glm`. `SuccessMeansConfigured`: exit code 0 means that all three files
  hold the token of that run, whatever earlier runs left behind.
  `NothingElseLost`: the rest of `.gitignore`, and of the settings outside of `env`,
  survives any number of runs, except where the file was edited between its reading
  and its rewriting or the rewriting was cut off (`exposed`); these two cases are
  real. What others put into `env` does not survive a run, but it is only ever
  exchanged for the script's own variables, or lost with all the rest where the
  rewriting was cut off. `CutSettingsAreNotPassedOff`: once the settings were cut
  off, no run reports success until somebody repairs them.
  `TryingAgainSucceeds`: a failed run does not spoil later ones, unless it cut off
  the settings.

Runs that refute a statement of the repository (each with its quotation under
`findings`, as are the two of `status_liveness` and `routing` above, whose properties
hold and refute a statement by that):

| run | what happens |
|---|---|
| `submission_duplicates` | a delivery whose handler ended after the POST and before the save is repeated, and posts again |
| `submission_deadletter` | nothing marks the row of a dead-lettered message `failed` |
| `status_regression` | a late or repeated webhook takes a confirmed row back |
| `status_mined_sticks` | `mined` is terminal for the lookup, so with the last webhook lost a row stays `mined` when the transaction is final |
| `execution_value` | a value above 2^53 wei is rounded; a gasless request with such a value is always rejected by the Forwarder |

Met while reading and modelled as it is, without a run of its own: a client can
get 503 and `failed` for a request that is being relayed
(`queue.service.ts:83`, the send was stored and its answer lost);
`waitForInFlightMessages` sleeps 100 ms whatever is in flight
(`consumer.service.ts:99`); queued and processing rows are answered 404
(`status.service.ts:122`); `invalidateCache` has no caller
(`relayer-router.service.ts:265`), so a failed POST does not make the router
avoid a relayer before its entry expires.

### Bounds, and why they are enough

- One transaction in `submission`, `status` and `service`: transactions share no
  state but the processes, whose stop hits all handlers alike; the proofs cover any
  number.
- One process in `submission`: handlers of both deliveries overlap in it, and what
  the end of a process does to rows and POSTs is what `HandlerFails` of each of its
  handlers does. Several processes are covered by the proofs.
- `service` has the constraint `SomethingToSay`: states after an exposure or a
  refusal are not explored. `exposed` and "rejected" never shrink, and the
  properties of the run say nothing of such a transaction, so nothing is missed.
  The theorems need no constraint.
- Two deliveries instead of three: overlap, redelivery after each kind of
  failure, stale receipt handles and redrive all occur with two; the theorems
  hold for every `MaxReceive`.
- One webhook handler and one status request at a time overlap with each other
  and with the consumer; each reads or writes the shared row in single steps,
  and holds on to an old snapshot for as long as it likes.
- The code tells terminal statuses from the others; of the others `pending`
  differs by its missing hash. `status` has `pending`, `mined` and `confirmed` (a
  `failed` comes from the rollback there), `status_liveness` has `failed` from
  relayers too; the theorems hold for every set of statuses that has `pending`.
- `TTL` 2 instead of 20 ticks of 500 ms: an entry that is valid, valid and
  aged, and expired all occur. Two relayers: one to be preferred to the other.
- `Precision` 1 in `execution` and 2 in `execution_value` stands for 53 bits; 3 and
  5 are then the least values that are not numbers.
- `MaxNonce` and `MaxTime` stop the signer and the clock; `execution` may
  therefore end (`CHECK_DEADLOCK FALSE`).

### Fairness

`submission`: awaits of a handler settle (HTTP and SDK calls have
timeouts), SQS lets visibility timeouts expire and redrives, processes that stop
are restarted (`docker/docker-compose.yaml`, `restart: unless-stopped`) and poll
every second; strong fairness for a poll of a waiting message, since a process
that stops and starts for ever is not running all the time. Nothing is assumed of
the producer, the network, the relayers or the webhooks, and handlers may fail at
every await for ever: then the message reaches the DLQ.

`status_liveness`: awaits of a status request settle and the client asks again.
Nothing is assumed of webhooks, relayers or the consumer. The property is
conditional on the end of failures, old webhooks and cache expiries
(`<>[][~Disturbance]_vars`).

`setup_glm`: a run that is not ended goes on, and the script's user starts it
again. The property is conditional on the end of kills and exceptions other than
the script's own refusal of the settings.

## 4. Proofs

Checked by TLAPS for every value of the constants. Between them the theorems
state every safety property of the passing runs.

**Submission.** Assumptions: `MaxReceive` is a natural number, `None` is not one of
the model's identifiers. `TypeCorrect` first. The safety properties are not
inductive. `IInv` adds to them:

- `HandlersFollowDeliveries`: handlers exist for received deliveries only, and
  the stage of a handler determines how far its POST can be;
- `NothingBeforeTheRow`: what cannot exist before the row and the message;
- `DeletedForAReason`: a handler about to delete has seen a reason that still
  stands. This is the heart of `NoAcceptedTransactionLost`: `Settled` was read
  awaits ago, and a status can be overwritten since, but `ozRelayerTxId` is never
  cleared, and `failed` without an id can only come from the rollback, whose
  client has no 202;
- `OneWorkerUnlessExposed`: while a transaction is not exposed, only its newest
  delivery works on it, on an unrecorded row.

One lemma per group of actions shows `TypeOK /\ IInv /\ [Next]_vars => IInv'`;
`AcceptedIsNeverLost`, `RecordedIsReal`, `UnrecordedIsUnsent` and
`AtMostOnceUnlessExposed` follow. `QuietStaysQuiet` is an action property proved
from the same invariant.

**Refinements of the submission path** (`RelaySubmission_refinement`). Under the
invariant every step maps to a step of the abstract specification or to a
stutter. For `SharedRow` the reading of an unsettled row is `Begin`, the end of
handlers (one, or all of a process) is `Leave`, and a rejected send with its
rollback `RollBack`; needed besides `IInv`: a POST that was sent went to some
relayer. For `RequestCustody` the step that matters is the deletion: custody
passes from the queue to nobody only if the answer was no, which is
`DeletedForAReason`.

**Status path** (`StatusSync_proofs`). `SyncInv` has four parts. `NamesAreReal`:
rows and events name accepted relayer transactions, and confirmed is for good.
`LocalsAreSet`: what the stage of a status request says of what it has read.
`AllTruthful`: every snapshot (row, Redis entry, those on their way in webhook
handlers and status requests) is `Truthful`, that is, tells no outcome that did
not happen, and confirmed with its receipt only. A snapshot is copied, never
mixed from two, except by `updateMysql`, which keeps the old hash and time when
the event has none; a confirmed event has both. `LateAreLed`: a request asked once
the outcome was final will read it from the relayer if the caches have nothing
terminal. `OutcomesAreReal`, `ConfirmedHasItsReceipt`, `LateAnswersAreTerminal`
follow; `KeepsToTheRow` holds step by step.

**Whole service** (`RelayService_proofs`). Either half is proved under the
assumption that the other one keeps to what it is known by: the submission path's
invariant holds if others only write statuses as `StatusWritten` does, the status
path's if others only take `SharedRow`'s steps. Each assumption is a theorem about
the other half, which is no circle only because both are kept step by step: the
joint invariant `ServiceInv` is the conjunction of `IInv` and `SyncInv`, read
through the instance `Status`, and under it every step of the service is a step of
both specifications (`StepOfBoth`: `PathKept` and `ProceedSeen`, `WebhookSeen`,
`LookupSeen`, `ExpireSeen` say how each action is seen from the status path,
`ReadersSeen` how webhooks and status requests are seen from the submission path).
So `ImplementsThePath` and `ImplementsTheReaders` are proved, and
`PathPromisesHold` and `ReadersPromisesHold` carry over what was proved of the
halves. End to end, what is told is `Truthful`, so the row names a
relayer transaction; by `OneWorkerUnlessExposed` it is then the only one and the
transaction is quiet: `OneOutcome`. `OutcomeEndsRelaying` is
the action property, and `OutcomeEndsRelayingForGood` says it of all later states:
quiet is for good, even if the transaction is exposed afterwards.
`LateAnswersAreTrue` joins `LateAreLed` and `OneOutcome`: what a late request finds
is an outcome and the right one.

**Custody contract** (`RequestCustody_proofs`). That the 202 is honoured
(`YesIsHonoured`), and that neither answers nor the relayer's custody are taken
back (`TakesNothingBack`), follow from the contract alone, whoever implements it;
with `ImplementsCustody` they hold of the code.

**Routing** (`RelayerRouter_proofs`). Assumptions: the relayers form a nonempty
list without repetition, `TTL` is positive, what a health check can report is
typed. One invariant, `Fresh`, for all three properties: what the cache or a call
holds of a relayer is right, or the relayer changed since that check began, and
the same of its health alone (`AsOf`, of both clocks); the
age of an entry counts from `lastChecked`, so it does not matter which of two
overlapping checks settles last. That the `reduce` selects the least busy relayer
needs that nonempty sets of numbers have a least element (`Least`, from the
well-foundedness of `<`).

**Execution.** Assumptions: the bounds are natural numbers. Nonces and the clock
only grow (`Monotone`). `IInv` adds to `NeverAheadOfSigner` that only queued
requests are on the chain, and that the reason of a rejection by the Forwarder
itself (nonce used, deadline over, value rounded) does not go away. `NeverAhead` and
`RejectedIsFinal` follow; the target's verdicts need no assumption. `SmallValuesAreKept` rests on `SmallIsExact`: `ParsedValue`
of a value below 2^`Precision` is that value, for every precision, since the least
exponent is 0 then.

**Setup script** (`SetupGlm_proofs`). The invariant adds that what a run holds of a
file is its current version unless the file is exposed, and which files a run has
dealt with at each stage. `ExitZeroIsTrue`, `OthersAreKept` and `WreckIsNotSuccess`
follow.

**Only model-checked**: liveness under fairness (`AcceptedIsRelayedOrDeadLettered`,
`OutcomeIsReadInTheEnd`, `TryingAgainSucceeds`), which is out of the prover's
reach.

## 5. Not modelled

- `NotificationService`: one POST, not awaited and not retried, sent after both
  writes of a webhook. Nothing is kept and nothing waits for it, and the code
  promises neither that a notification arrives nor in which order; what remains to
  be said (it is sent after the row was updated) would hold by the shape of a
  model.
- `invalidateCache` and the other parts of `RelayerRouterService` that only its
  tests call.
- The blocking sends and `pollForConfirmation` of `OzRelayerClient`, the sends of
  `relay-api`'s `OzRelayerService` and its default relayer: no callers, or none
  that can reach them.
- Answers of a relayer that are not what its API promises: a transaction without a
  status (the lookup then says `unknown`, `status.service.ts:228`), or an accepted
  POST whose answer has no id (`oz-relayer.client.ts:413-414`: without `data` the
  handler fails, as `HandlerFails` after the relayer accepted).
- That one signed nonce is executed at most once, as a property: the Forwarder
  contract guarantees it, whatever this code does.
- Guards, validation, filters, health endpoints, configuration: checks of one
  request without state.
- A message that the SDK's own retry stores twice: it acts like more deliveries
  of one message, apart from a receive count of its own.
- Reorganisations of the chain; a relayer that replaces a transaction and changes
  its hash (a hash is named by its relayer transaction); loss of data in MySQL.
- The relayers' health and the router's choice inside `RelaySubmission`: any
  relayer may be chosen there.

Operators whose comment begins "(A mutation of ...)" are not part of any
specification. Each is a plausible mistake in the definition that follows it;
put in its place, it makes the property named in `PROJECT.json` fail.

## 6. How much of the code

The share that `PROJECT.json`'s map can be measured by depends on what counts as
implementation. Of the Python files, that is of `setup-glm.py` alone, nearly all
is mapped, which says nothing about the service. Of the TypeScript and Solidity
implementation (about 5,500 lines, comments included, tests not) the map covers
30 %: of `queue.service.ts`, `consumer.service.ts`, `relayer-router.service.ts`,
`status.service.ts`, `webhooks.service.ts` and `gasless.service.ts` all that
changes state (50 to 75 % of the lines, the others are comments, logging and
declarations), the live parts of `oz-relayer.client.ts` and
`signature-verifier.service.ts`, and little of the rest, which is wiring,
validation, documentation decorators, probes and code without a caller.

## 7. Plan

Done: submission path, custody contract, status path, routing, execution, the
contract on the row that joins submission and status path, the whole service on
one table, the setup script, and proofs of all safety properties.

What could follow:

1. Messages named apart from their rows, so that a row can have two (the SDK's
   retry of a send), each with its own receive count.
2. Routing composed with the consumer: the number of deliveries that a relayer
   which is down costs, and a POST to the guessed relayer id.
3. `Execution` on top of `RelayService`, so that one nonce and one row are followed
   from the request to the chain.
4. The router's `Fresh` and the setup script's invariant as invariants of the runs.
