# Verification of whatsapp-concurrency-lab

TLA+ models of the message backend under `src/`, TLC configurations that check
them on small instances, and TLAPS proofs for every value of the constants.

The program is a set of stateless API replicas and two CronJobs over one
PostgreSQL. All coordination happens in SQL: unique indexes, conditional
updates, row locks, one advisory lock. What can go wrong is therefore the order
in which transactions and statements of several processes meet, and that is what
the modules describe: one action per transaction or, where the locks inside it
or the commits between them matter, per statement. Around this core stand the
functions at the edge of the system (what a request says, what the audit
reports) and the process itself (its pool, its drain).

## 1. Inventory

| Component | State | Operations | Interacts with |
|---|---|---|---|
| Idempotency operations (`idempotency-operations.repository.ts`, migration 0002) | one row per (actor, route, key): status, attempt, lease, fingerprint, stored response | claim, find, take over an expired lease, complete, fail, retry | used by the send |
| Idempotent send (`send-message.service.ts`, `send`) | nothing beyond the attempt it read or owns | Tx1 claim or resolution; Tx2 effect; release on error | operations, stream, deliveries in one transaction |
| Stream order (`publish`, `publishAndDrain`, `buffer`, `resync`; device-sequences, messages repositories; migrations 0001, 0003) | `device_sequences` (next, state, gap_deadline), `conversation_sequences`, `messages` | publish and drain, buffer, adopt, resync, expire | the send; the gaps CronJob |
| Delivery (`ack.service.ts`, acks, cleanup, deliveries repositories; migrations 0004, 0005) | batch, envelopes, receipts of each published message | ack, cleanup by the completing ack, cleanup by the CronJob | rows are created by the transaction that publishes |
| Fingerprint (`fingerprint.ts`) | none | canonical text and hash of a request | the send; the panel |
| HTTP layer (`http/`) | none | parsing, mapping of errors to answers | the services |
| Audit (`invariants.repository.ts`, `scripts/verify-invariants.ts`) | none | read-only queries for I1..I9 | every table |
| Naive service (`naive.service.ts`, migration 0006) | its own four tables | the same operations, wrong on purpose | the panel |
| Lab service, panel, demos (`lab.service.ts`) | none | scenarios, reset | every table |
| Seed (`seed.repository.ts`, `scripts/seed.ts`) | none | insert the plan; `--fresh` deletes its traffic first | every table |
| Migrator (`migrator.ts`, `scripts/migrate.ts`) | `schema_migrations` | apply pending files under an advisory lock | runs before the API, from a Job or by hand |
| Pool (`database.ts`, `database.module.ts`) | bounded connections | connect, query, release, end | every service |
| Lifecycle (`bootstrap.ts`, `lifecycle.ts`) | started and draining flags, requests in flight | readiness, drain, close | HTTP server, pool |
| Metrics, logging | counters | increment | every service |

Hard behaviours, and what makes each component correct:

- **Operations.** Executions of one key race in several replicas, and act on an
  attempt they read earlier. Correct: a key changes owner only by raising its
  attempt; only the owner completes or fails it; a completed row is final.
- **Send.** A replica dies between Tx1 and Tx2; a COMMIT succeeds and its
  acknowledgement is lost; an owner comes back after its lease was taken over;
  one message is sent under two keys. Correct: one effect and one answer per
  key, no effect without its completed operation, no answer that later turns
  out false, and an answer in the end.
- **Stream.** Three paths publish and assign numbers (direct, cascade, resync);
  departures change recipients meanwhile; timers and clients race. Correct: the
  visible order is gapless and final, follows each device's own order, and while
  a message waits ahead of its pointer the stream says so and its deadline runs.
  What a resync has jumped over is not waited for any more (see *Stranded
  message*).
- **Delivery.** Acks duplicated, concurrent and late, against cleanups that lock
  the same rows in another order. Correct: progress is counted exactly, work is
  freed whole, once, for a reason that is true, and is freed in the end.
- **Edge.** Two fingerprints must be equal exactly when two clients meant the
  same; JavaScript numbers round. Correct: no two intents share a fingerprint,
  no intent has two, and a refusal is never answered as a crash.
- **Audit.** Eight queries stand for statements about the whole database.
  Correct: it alarms exactly when one of those statements is false, which it
  does of order and delivery and does not of I1.
- **Migrator.** Two pods start together, or a pod and a developer with another
  branch, and die in the middle. Correct: the history says what the schema is.
- **Lab, seed.** They rewrite the tables under running requests, which may find
  their key, stream or message gone and start over in the middle. Correct: no
  remains of what is gone, no stored answer without its message, and after a
  quiet `--fresh` a start as on the first day.
- **Process.** Bounded connections and row locks are waited for at once, and a
  signal arrives meanwhile. Correct: no circular wait, and a drain that loses
  nothing.
- **Naive service.** Correct here means honest: its damage comes from the races
  the panel names, and from nothing else.

`PROJECT.json` lists every component with its status and every hazard at its
line, with the properties that cover it or the reason why none does.

## 2. Modules

| Module | What it is |
|---|---|
| `ConversationLog` | abstract: one append-only log, each device in order |
| `MessageStream` | the stream transactions; implements `ConversationLog` |
| `GapDeadline` | `MessageStream` with the waiting time of each buffered message as a history variable |
| `IdempotencyOperations` | the conditional statements on the operations table |
| `SendOnce` | abstract: at most one effect per key, and every answer is that effect's |
| `SendMessage` | the protocol of `send` around instances of `MessageStream` and `IdempotencyOperations`; implements `SendOnce` |
| `DeliveryPromise` | abstract: acks and cleanups that happen one at a time |
| `Delivery` | acks and cleanups, statement by statement, with row locks; implements `DeliveryPromise` |
| `Requests` | pure functions: parsing, the effect of a request, statuses |
| `Fingerprints` | pure functions: the fingerprint, over one level of canonical text, and the panel's |
| `CanonicalJson` | pure functions: canonical text at every depth |
| `Audit` | pure functions: each query of the audit over a database |
| `NaiveService` | the wrong variant, one commit per statement |
| `LabDatabase` | lab reset, seed and `--fresh` against sends, with table and row locks |
| `Migrator` | concurrent runners with directories of their own, and crashes |
| `Replica` | one process: pool, row locks, readiness, drain, exit |
| `MessageStreamProofs` | theorems and proofs about `MessageStream` and `GapDeadline` |
| `IdempotencyOperationsProofs` | theorems and proofs about `IdempotencyOperations`, `Audit`, `Requests` and `Fingerprints` |
| `SendMessageProofs`, `DeliveryProofs`, `MigratorProofs`, `ReplicaProofs`, `LabDatabaseProofs`, `NaiveServiceProofs` | theorems and proofs about the module of that name |
| `MCMessageStream`, `MCIdempotencyOperations`, `MCSendMessage`, `MCDelivery`, `MCMigrator`, `MCNaive`, `MCLab`, `MCReplica` | instances for TLC |

Operators commented *Mutant of X* are defects that the code does not have. No
specification uses them; `PROJECT.json` pairs each with a property that fails
once the mutant stands in for X.

### MessageStream

State: `stream[d]` is the row of `device_sequences`, `nextServer` the
conversation counter, `messages[d][n]` the row at a stream position with the
recipients of its delivery batch, `active` the members whose `removed_at` is
null.

| Action | Code |
|---|---|
| `PublishAndDrain` | `publish` -> `publishAndDrain`: insert, cascade, `createDeliveries`, `advanceStream` |
| `BufferMessage` | `publish` -> `buffer`: insert without number, `markWaitingGap` |
| `Adopts` (guard, no change) | `publish` -> `adoptExistingMessage` |
| `Resync` | `resync`, `drainFrom` |
| `ExpireOverdueGaps` | the gaps-expire CronJob, one UPDATE for all streams |
| `LeaveConversation`, `Tick` | external: `removed_at`, the clock |

Every transaction that writes a stream locks its row first and keeps it until
COMMIT, and every one that publishes locks the conversation counter second, so
a transaction is one action; `Replica` shows that these waits never close a
circle. `CascadeEnds` says where the cascade loop stops as a relation, so no
recursion is needed. An absent stream row is the row `lockStream` would insert.
A transaction that throws is no step.

A deadline is the number of ticks left (`Overdue` and `NoDeadline` besides),
the only thing its readers distinguish.

### GapDeadline

Adds `waited`, how many ticks each buffered message has been waiting, up to one
more than the timeout. It changes nothing of `MessageStream`.

### IdempotencyOperations

One action per conditional statement, with its WHERE clause as a named guard
(`CanTakeOver`, `CanComplete`, `CanFail`, `CanRetry`). The callers are free: any
attempt may be passed. `lease` is what the database clock says of `lease_until`.

### SendMessage

Each caller is a client that sends and resends one request; `pc` is the
statement its current execution runs next, `attempt` the attempt it read or
owns. Tx1 and the resolution are single statements, each an action. Tx2
(`Commit`) composes one stream action with `CompleteOperation` in one step.
Faults: `Crash` between any two statements, `Rollback`, `CommitUnacknowledged`
(the COMMIT arrived, its acknowledgement did not), and `Release` whose statement
may fail. `OthersMoveStream` lets resyncs, the CronJob and the clock act
meanwhile. `answers` and `inserted` are history variables: what clients were
told, and which key inserted which message.

### Delivery

Starts where `createDeliveries` leaves a batch. A statement that locks rows is
an action that waits for the lock; what a transaction writes is applied by the
action that commits, since nobody else can change the rows it holds. This keeps
the lock order visible: an ack locks receipt, envelope, batch; a sweep locks
batches with SKIP LOCKED, then envelopes. `WaitsFor` reads off `Wanted` and
`held` who needs a row that another holds; a `Circle` is a set in which everyone
waits for someone of it, which is what a deadlock is.

`DeliveryPromise` has neither transactions nor locks: an ack moves a receipt and
the progress of its message in one step, and a cleanup frees the work of
complete or expired messages whole. The refinement maps `progress` to
`delivered_count`, `work` to the envelopes that are there and `expired` to the
batches past `expires_at`; statements before a COMMIT, roll backs and acks that
advance nothing are stutters.

### Requests, Fingerprints and Audit

All are functions of an input, held by one variable (`given`, `database`) that
no step changes. In `Requests` a JSON value is a tuple tagged with its type, an
object keeps the order its keys were written in, and numbers above
`MAX_SAFE_INTEGER` lose their last digit. A canonical text is a sequence of
tokens: quotes and escapes are what makes two texts differ, and tokens keep
exactly that. A `MessageEffect` has texts and one number in its fields, so its
text needs one level of `canonicalize`: drop what is undefined, order by key
(`InOrder`), join. That level is in `Fingerprints`;
`CanonicalJson` has the recursion over arrays and objects inside, built from the
same operators. Properties compare `canonicalize` with `Meaning` (objects as sets
of pairs), the fingerprint with `canonicalize` of the same object
(`CanonicalIffSameValue` says both), and the fingerprint with `Intent` (what was
written on the wire, before JavaScript rounds it). In `Audit` a database is a
record of sets of rows and a query is the set of groups or rows it returns. The
queries of order and delivery are compared with definitions of their own
(`IsHistory` lists the messages, instead of counting them). `IsDatabase` is what
the columns and `createDeliveries` make sure of, or a batch whose receipts are
lost, which the JOIN of I9 drops.

### NaiveService

One action per statement of `send`, `publishImmediately`, `ack` and `reset`; an
execution is named by its client and number, which stands for its random UUID.
`raced` records which executions had their read-to-write windows open at one
time, `cut` those that died.

### LabDatabase

Sends, seeds and the lab reset, each statement an action that waits for the
table locks (TRUNCATE excludes everybody) and row locks it takes. What a
transaction deletes is collected in `deleted` and applied at COMMIT, so a
statement sees what was committed when it started, as under READ COMMITTED; a
write to a row that is being deleted waits (`NobodyDeletesKey`, `MustWait`,
`NobodyDeletesMessages`).

| Action | Code |
|---|---|
| `Claim`, `Reclaim` | `claimOperation` in `send`, and again in `claimOrFail` |
| `Find` | `resolveExistingOperation`: the row has gone, and the key is claimed once more; a failed row or an expired lease changes hands; a replay; a 409 |
| `InsertStream`, `LockStream` | the two statements of `lockStream` |
| `LockCounter` | the second lock of `publishAndDrain`, which only a publication takes |
| `Insert`, then `Adopt`, `Buffer`, `Publish` | `insertMessage`, and the rest of the three ways through `publish`, up to COMMIT |
| `Release`, `Abandon` | `failOperation`; a replica that dies, a cancelled statement |
| `BeginReset`, `LockTable`, `CommitReset` | `LabService.reset` |
| `DeleteDeliveries` ... `CommitTraffic` | `resetTraffic` |
| `BeginSeed`, `SeedConversations`, `CommitSeed` | `seed.ts`, `seedFixtures` |
| `RollBack` | a transaction fails at any statement: an error, a deadlock that PostgreSQL ends, `statement_timeout` |

`lease[k]` names the clients whose claim is the id and attempt of the row of
`k`; deletion empties it, so `Owns` is the fence of `completeOperation` and
`failOperation`. A send that comes late meets two defences: the locks of the
tables and of its stream, and that fence, which finds the operation gone. What a
publication and the messages behind it write is one action at its last
statement: nobody else can write the rows of a stream that it has locked.

Two history variables say when a seed ran undisturbed: `quiet[s]`, that no send
to its plan was under way since it began, and `overlapped`, that this was not so
of the last deletion of traffic. Such a deletion may leave a message behind which
has a number that the counter gives again, so that later publications fail, or a
position that its stream comes to once more (`OnlyOverlapPoisons`); a quiet
second seed without `--fresh` does not repair it.

The expiry of gaps and the resync are not here: a stream that asks for a resync
would refuse more sends, and a resync would publish what is buffered.
`MessageStream` has both, over tables that nobody deletes.

### Migrator

One action per statement of a runner: look for the table, create it, lock,
read, apply one file in its transaction, unlock. `CREATE TABLE IF NOT EXISTS` is
two steps, because the existence check and the catalog insert are two.
`DirectoryOf` gives each runner its own files. Faults are bounded by `MaxFaults`
and may hit everywhere.

### Replica

| State | Code |
|---|---|
| `conns`, `open`, `locks` | the pool's clients, transactions, row locks of requests |
| `started`, `draining` | `Lifecycle` |
| `listener`, `shutdown`, `process` | `app.listen`, the shutdown function of `bootstrap.ts`, the exit |
| `routed`, `elapsed` | external: endpoint lists, time since SIGTERM |

What a statement does to the tables is left to the other modules; here it needs
a connection, may wait for a row, may fail. An ack outside the snapshot asks
for its second connection with the first still checked out, after ROLLBACK. A
sweep belongs to another process and locks one stream after the other. A second
signal finds `shuttingDown` set and a second close finds `closed` set; neither
has an action. `/health/ready` with the database down is not a separate state:
the flags decide what the drain depends on. A signal may come before `listen`
has returned, since `main.ts` installs the handlers first.

## 3. Runs

Twelve runs, by question. The last two are marked *violation*: each checks what
a comment of the repository promises, and the code does otherwise.

| Run | Instance | Shows |
|---|---|---|
| `stream` | two members and a stranger, three positions, a client that reuses a message id | gapless, ordered, final visible order; the pointer never rests on a message; implements `ConversationLog`; the first gap gets its whole timeout, buffered messages are resolved |
| `operations` | two keys, two contents, two responses, three attempts; beside it every small JSON value, request and database | ownership stays fenced whatever attempts callers pass; fingerprints agree with intents; the parsers keep positions; the audit finds every broken order and every early cleanup, and no other |
| `send_one_key` | two executions of one request and one of another body, four attempts | one owner, all-or-nothing effect, durable answers, `SendOnce`, and completion |
| `send_three_keys` | one buffered message under two keys, the message that drains it under a third | the second key adopts; one insert per message; all answers tell one order |
| `delivery` | one message, two devices, three racing acks, two cleanup runs, default settings | work kept and freed whole; no deadlock but of an ack with a sweep; implements `DeliveryPromise`, so progress is exact and no receipt goes back |
| `read_delivery` | two messages, `read` terminal, cleaning left to a CronJob of limit 1 | exact progress there too, completion of what has not expired, and both batches are cleaned |
| `migrations` | a Job, a developer, an edited branch and a `--status`, one fault | the schema is its history, nobody is confused, whoever agrees with it finishes |
| `naive` | two clients, three executions each, one key and position, one death | duplicates and collisions only from races; the panel's figures are the damage |
| `lab` | two sends, two seeds, one reset, one conversation of each kind with two positions | nothing outlives a reset, messages fall out of step by an overlap only, stored answers name messages that are there, `--fresh` is fresh |
| `replica` | a send, a resync, two acks and a sweep over two connections and three rows | no circular wait, the pool blocks no row, a drain loses nothing, everything ends |
| `ack_deadlock` | *violation*: one message, one cleanup run | an ack and a sweep lock envelope and batch in opposite orders |
| `stranded_message` | *violation*: one stream, a resync over a buffered message | `waiting_gap` with nothing ahead of the pointer |

### Bounds

- `MaxClientSequence` 3: three positions are the least with a gap, a buffered
  message behind it and one jumped over, and with a second gap after the first is
  closed, which inherits its deadline.
- `GapTimeout` 1 tick: a deadline can be whole, used up and over. In the send
  runs it is 0: there the timer only has to be able to fire.
- `MaxAttempt`: the executions of a key that may start (`Room`). Four allow a
  claim, a takeover of it, a retry of a failure and one more; faults are
  possible only while a further execution is allowed, and the last attempt keeps
  its lease, so that the bound never strands a key. It is a bound on the number
  of faults, not on their kind.
- Each caller sends one request over and over; each acker one ack. Two acks of
  one device in both states, and one of another device, produce duplicate, late
  and out-of-order arrivals.
- Two sweeps run beside each other in `delivery`: the CronJob forbids concurrent
  runs of itself, but `npm run deliveries:cleanup` exists.
- `operations`: JSON values up to depth two with two keys, which is where the
  order of keys and nesting show; `MAX_SAFE_INTEGER` is 9 with 10 and 11 beyond
  it, the least that round to one value; lengths are at most two, so that each
  limit is met and passed. Databases have three messages (a hole needs two, a tie
  and a hole three) of two conversations and two devices, two operations, one
  batch with as many receipts as it expects or with none; the tables are tried
  apart, because no query joins messages with operations.
- `migrations`: `MaxFaults` 1. Every fault leaves a state from which runners
  start again, and the proofs hold for every bound.
- `naive`: `MaxRuns` 3 lets a client send, retry and act once more; `MaxDeaths`
  1. Clients differ in nothing, so `ClientSymmetry` is sound; the run has no
  temporal property.
- `lab`: `MaxPosition`, `MaxSends`, `MaxSeeds` and one new conversation per
  reset. Two clients send once each, to one position or two, so that a message
  is published, buffered and drained by the other, adopted, or claimed again
  after its key was deleted; a seed and a reset overlap each other and both
  sends in every order; a second seed follows one that left something behind, or
  a reset. The proofs hold for every number of each.
- `replica`: two connections, so that two acks outside the snapshot use the
  pool up. Time is in ticks of no fixed length, of which only the order
  `EndpointLag` < `DrainDelay` < `Grace` is used (1, 2, 3). The code has
  `DRAIN_DELAY_MS` 5 s and the Deployment a grace period of 30 s; that endpoint
  lists are up to date within the drain delay is an assumption
  (`ReplicaAssumption`) about Kubernetes, which takes a pod out when its deletion
  begins. The readiness probe alone (every 3 s, two failures) could take longer.

`CHECK_DEADLOCK FALSE` appears where the system may really stop: every client
has been answered, every position is used, a runner is done. `Delivery` is
checked for deadlock, since acks can always arrive.

### Fairness

- Clock and gaps CronJob (`Fairness` in `MessageStream`): weak. The job runs
  every minute (`infra/k8s/base/50-cronjobs.yaml`), and nothing disables it but
  its own work.
- `SendMessage!FairSpec`: executions go on (weak), leases end (weak), clients
  resend (strong, because the bound `Room` may withhold a resend now and then,
  which nothing in the code does). `EveryKeyCompletes` allows for replicas that
  crash for ever.
- `Delivery!FairSpec`: statements of an ack go on (weak: a lock that is queued
  for is granted in turn). The sweep is strong in its claim, because SKIP LOCKED
  passes over a batch that happens to be locked but the job returns every five
  minutes, and in its DELETE, which competes with acks for envelopes. A deadlock
  is broken by rolling back either side, as PostgreSQL does: `Deadlocked` is an
  ack and a sweep that wait for each other with no other row to go on with
  (`Stuck`). Roll backs of other pairs need no fairness, since `OneDeadlock`
  proves that every circle of waits has such a pair.
  `EveryBatchIsCleaned` allows for sweeps that are rolled back for ever.
- `Migrator!FairSpec`: statements go on and a Job that failed is restarted
  (weak); the advisory lock is strong, since PostgreSQL grants it in the order of
  arrival.
- `Replica!FairSpec`: waits for connections and rows are bounded by
  `connectionTimeoutMillis` and `statement_timeout`, and timers fire (weak:
  `Step`, `Unroute`, `Tick`, `Close`, `EndPool`, `Exit`). No signal has to
  arrive. `Kill` needs no fairness: it stays possible, because a send may run
  several statements of up to ten seconds and outlive the grace period.
- Nothing is assumed of clients in `MessageStream`, or of acks in `Delivery`:
  they may never come.

## 4. Findings

With a run:

- **Lock order** (`ack_deadlock`). `ack` locks envelope then batch, the sweep
  batch then envelopes; PostgreSQL ends one of them, and the ack may be the one.
  It is the only deadlock there is, for any number of acks, sweeps and batches
  (`OnlySweepsDeadlockAcks`): although a completing ack locks all envelopes of
  its batch after its own, no two acks wait for each other. What else holds
  beside it: `WorkIsKept`, `EveryBatchIsCleaned`.
- **Stranded message** (`stranded_message`). `drainFrom` asks
  `hasBufferedMessages` about the whole stream (`send-message.service.ts:799`), so
  a buffered message below the new pointer keeps the stream in `waiting_gap`, with
  a deadline that expires into another `resync_required`. Migration 0001 (lines 75
  to 76) describes `waiting_gap` as a higher sequence waiting for a missing one.
  That message was accepted with 202 and is never published.
  `WaitingIsAccounted` is what holds: a message *ahead* of its pointer never
  leaves its stream `ok`.

Met while modelling, described here and not run, each with what the code does
keep:

- **Two operations, one message.** A second key adopts the message of the first,
  as `send-message.spec.ts:240` requires, so both completed operations name it.
  `invariants.spec.ts:91` calls that what I1 forbids, and
  `verify` reports it (`invariants.repository.ts:55`) and exits with 1: a client
  that changes its key between two retries makes a healthy database fail the
  audit. `SharedMessageIsAdopted` says what such messages are.
- **Message without operation.** The comment of I1
  (`invariants.repository.ts:52`) promises both directions; the one query asks for
  one of them. `EffectOnlyIfCompleted` says that the send leaves no such message.
- **Expired and completed.** ADR 0003 (lines 66 to 67) says `completed_at` stays
  NULL on an expired batch; `incrementDeliveredCount`
  (`acks.repository.ts:155`) does not look at `cleanup_at`, and late acks complete
  it. `cleanup_reason` stays `expired`; `ProgressMatchesReceipts` says what
  `completed_at` means beside it, and `WorkIsKept` holds.
- **Inherited deadline.** `advanceStream` (`device-sequences.repository.ts:151`)
  keeps a running deadline when the pointer moves on to another gap; ADR 0002
  (line 70) measures it from when the gap appeared. `FirstGapGetsFullTimeout`
  holds.
- **Audit of I8 and I9.** I8 looks for overcounts only, and a CHECK excludes
  them. I9 takes `delivered` for terminal, so under `DELIVERY_TERMINAL_STATE=read`
  it misses premature cleanups, and its JOIN drops a batch without receipts.
- **Second migrator.** The comment at `migrator.ts:91` has it wait for the first;
  it may instead fail, by losing the creation of the table or by the ten seconds
  of `statement_timeout`. The Job starts it again (`CompatibleRunnersMigrate`).
- **Two sweeps.** The UPDATE of `expireOverdueGaps`
  (`device-sequences.repository.ts:177`) locks the overdue streams in an order
  nobody prescribes. The comment above it (line 172) calls it safe for two
  concurrent workers, which is so for its result; but the CronJob and
  `POST /lab/expire-gaps` may run at once, and then wait for each other until
  PostgreSQL ends one. `DeadlocksAreOfSweeps` shows that it is the only circle
  there is among sends, resyncs and sweeps.
- **One photo.** `lab.service.ts:130` claims one picture of the database and runs
  nine queries on several connections.

## 5. Proofs

All theorems hold for every value of the constants that satisfies the named
assumptions, which the passing runs evaluate:

| Assumption | Says |
|---|---|
| `MessageStreamAssumption`, `SendMessageAssumption`, `OperationsAssumption` | types; null values are no values |
| `MigratorAssumption` | types; a file's content belongs to one version, a version has one file in a directory |
| `DeliveryAssumption` | a message has finitely many recipients and at least one (the sender is one); acks are of a device in the snapshot; the settings have the values the code reads |
| `ReplicaAssumption` | types; the conversation counter is not a stream row; `EndpointLag` < `DrainDelay` < `Grace` |
| `LabAssumption` | clients, seeders and the lab reset are different processes; there is a conversation, and a reset makes finitely many; bounds are numbers |
| `NaiveAssumption` | a publication of the panel has no key; bounds are numbers |
| `RequestsAssumption` | `MAX_SAFE_INTEGER` is odd, as 2^53 - 1 is; a body is a finite list of fields |
| `FingerprintsAssumption` | the six keys of an effect have JavaScript's order in `KeyOrder` |
| `AuditAssumption` | `IsDatabase`: finite tables, the columns' types, a batch has the receipts it expects, or none |

**IdempotencyOperationsProofs.** `TypeOK` and `RowCoherent` are proved together
with the type invariant as the inductive invariant; `OwnershipIsFenced` is an
action property that follows from both. One step per statement. The second part
is about `Audit` (`AuditMeansItsInvariants`), for databases of any size: maximum
= count and minimum = 1 together with *no number twice* make the numbers of a
conversation exactly 1..n (`NumbersFromOne`), so its messages can be listed in
order (`Listed`, `OrderAudited`), and the converse; a batch with as many reached
receipts as it expects has no other receipt (`DeliveryAudited`), and one without
receipts, which the JOIN drops, has none pending. So the alarms of I4, I5 and I9
are exactly the broken orders and deliveries. The third part is about
`Requests`: the number after `MAX_SAFE_INTEGER` is even, so a rounded number is
still beyond the range that the parsers accept (`AcceptedIsUnrounded`), and what
they accept is what was written (`EffectIsIntent`, `PositionsStayExact`); and
every class an endpoint throws is in a group of the filter
(`RefusalsStayExplained`). The fourth is about `Fingerprints`
(`FingerprintsTellIntents`), for any requests. The sort puts the six fields into
one order, whatever the values: the place of a field is the number of keys below
its own (`FieldPlaces`, `PlacesCounted`, `FieldsInOrder`). The text is then six
joined pieces between braces (`SixFlattened`, `EffectText`), each as long for one
effect as for another (`FieldTokens`), so two equal texts come apart piece by
piece (`AlikeComeApart`, `TextTellsFields`) down to equal fields. With
`EffectIsIntent` this gives both directions; `FormFields` shows that the panel's
form, where the conversation is a field of the body, has the same six.

**MessageStreamProofs.** The inductive invariant is

    IInv == TypeOK /\ VisibleOrderGapless /\ StreamOrderVisible
            /\ PointerAtFreePosition /\ DeliveredIffVisible

Its parts do not stand alone. A run gets the numbers from `nextServer` on, so it
extends 1..nextServer-1 without a hole, provided that none of its positions was
published before: the pointer bounds what is published
(`PointerAtFreePosition`). The run follows the device's order because every
number given earlier is below `nextServer` (`VisibleOrderGapless`) and every
position published earlier is below the run. The two transactions that publish
are first reduced to one shape (`PublishAndDrainPublishes`, `ResyncPublishes`,
`RunEffect`), so the invariance of a run is proved once (`PublishKeepsIInv`);
`BufferKeepsIInv` and `QuietKeepsIInv` treat the remaining actions. From `IInv`
follow four safety invariants, and the action properties `PublishedIsFinal` and
`OnlyResyncSkips`. That a stream is not `ok` exactly while something is buffered
anywhere in it (`StreamsAccount`) is inductive with `TypeOK`, and gives
`WaitingIsAccounted` with `PointerAtFreePosition`: nothing buffered is at the
pointer itself, so it is ahead of it or behind.

`StreamImplementsLog` is the refinement of `ConversationLog`. The abstract log is
the sequence of the visible entries in the order of their numbers; by `IInv`
every number up to the counter has exactly one entry (`EntriesUnique`), so a run
of the tables appends that run to the log (`GrowsByRun`, `PublishesAppends`), and
a step that publishes nothing is a stutter (`SilentStep`).

`FirstGapIsNeverCutShort` is about `GapDeadline`, with the invariant
`FirstGapOf`: ahead of a pointer that never moved waits a message at least as
old as the part of the timeout that is spent. A statement keeps it because no
message leaves the buffer while the pointer stands still, or because the
deadline is fresh; a tick ages both sides alike.

**SendMessageProofs.** The composition implements the stream
(`SendImplementsStream`: every step of a send is a step of `MessageStream` or
leaves it alone) and `SendOnce`, for any number of clients, keys, replicas that
die and acknowledgements that are lost. The inductive invariant is

    IInv == MessagesOK /\ OperationsOK /\ RequestsOK /\ OneOwner /\ RecordsOK

`OneOwner` is kept because an execution becomes an owner with an attempt above
the one in the row, and `RequestsOK` says that no execution holds an attempt
above the row's: the new owner's is nobody else's. `RecordsOK` relates the
history variables and the stored responses to the messages; it is kept because
`MessagesKept` (a step of the stream never changes the content of a message that
exists nor a number that was given) and because a completed row is final. From
`IInv` follow `OneOwner`, `EffectOnlyIfCompleted`, `AnswersAreDurable` and the step
simulation of `SendOnce`. `SharedMessagesAreAdopted` adds that every message has
exactly one entry in `inserted` (`InsertersOK`): a send inserts only where nothing
is, and resyncs, expiries and departures insert nothing.

What `MessageStreamProofs` proves of the stream is used from here as it stands,
by an instance of that module (`Proved`; its `waited` belongs to `GapDeadline`
and is set to 0). Every step of the send is a step of the instance
(`SameStep`), so the theorems carry over: `StreamPromisesHold`, and
`ReadersSeeOneLog`, the composition of the two refinements. Clients see that log
through their answers. `AnswersTellOneOrder` joins `AnswersAreDurable` (an answer
quotes the row) with the two order invariants of the stream: whatever was
answered, at whatever time and under whatever key, fits into one order.

**DeliveryProofs.** The inductive invariant is

    IInv == TypeOK /\ Shapes /\ LocksOK /\ CountsMatch /\ WorkIsKept

`LocksOK` is the argument for reading under a lock and writing at COMMIT: an ack
past its first statement holds each row it is going to write
(`HoldsWhatItWrites`), so the state it advances from, whether it crosses the
terminal state and whether it completes the batch cannot have changed in the
meantime; a batch that a sweep has claimed stays eligible (`StaysEligible`),
because its row is locked. `CountsMatch`, from which `ProgressMatchesReceipts`
follows, says that `completed_at` is set exactly when all recipients are at the
terminal state, expired or not: the code's rule, and not that of ADR 0003 (see
*Expired and completed*). It needs that one receipt more at the terminal state is
one more in the counter (cardinalities of finite sets), and `WorkIsKept` that a
counter equal to the number of recipients leaves
nobody out. `DeliveryNeverGoesBack` follows step by step.

`DeliveryImplementsPromise` uses the same invariant at the COMMITs. The commit of
an ack is an `Acknowledge`, because its new receipt makes the recipients at the
terminal state exactly one more, and it deletes the envelopes only if that is all
of them; the commit of a sweep is a `Clean` of the batches it holds; everything
else leaves the mapped state alone (`UntouchedIsSilent`).

`OneDeadlock` needs the converse of `LocksOK`: `NoStrayLocks`, a transaction
holds no row but those its statements have locked. Then a row that somebody
waits for says at which statement its holder is. Among acks: the one that
completes a batch and goes on to lock the other envelopes is alone with it, since
the counter leaves room for no second ack that is still to count
(`CleanerIsAlone`); so an ack that another ack waits for does not itself wait for
an ack (`AcksDoNotWaitInARow`), and acks make no circle. A sweep waits only for
an ack at the batch row of a batch it has claimed itself (`SweepsWaitForCounters`),
so a circle with a sweep contains such a pair.

**MigratorProofs.** The inductive invariant is

    IInv == TypeOK /\ SchemaIsHistory /\ RowsComeFromFiles /\ StartsAtFirst
            /\ NeverConfused /\ DoneMeansMigrated

`NeverConfused` carries `WorkersHoldTheLock`: whoever works on its files holds
the advisory lock, so nobody changes the rows between its read and its writes
(`Behind`). Rows come from files, and no content has two versions, so what a
runner does not find in the rows it read is not in the schema either
(`NewIsNotThere`). `HistoryIsFinal`, that no step removes or changes a row,
follows.

**ReplicaProofs.** The inductive invariant says of each request at each of its
steps which transaction, rows and connections it has (`RequestOK`), and of the
process what must have happened before what (`LifeOK`). It makes the three
properties short. *Deadlock*: who waits for the counter waits for a row whose
holder is about to commit; so a circle has nobody at the counter, its rows are
streams, and only sweeps hold a stream while they wait for one. A circle
therefore needs two sweeps (`DeadlocksAreOfSweeps`), and under
`[]OneSweepAtATime` there is none (`NeverDeadlock`). That hypothesis is
`concurrencyPolicy: Forbid` of `50-cronjobs.yaml:29`, together with a panel
whose button for the same sweep is not pressed meanwhile (see *Two sweeps*
above); it is a hypothesis of that theorem only. *Pool*: who asks for a
connection has no row and no open transaction. *Drain*: while a balancer may
name the replica it listens, and the pool ends with nobody in flight.

**LabDatabaseProofs.** The inductive invariant is

    LabInv == LocksInv /\ RowsInv /\ QuietInv /\ AgreeWhereQuiet /\ AnswersInv

The argument is of locks. A send past its stream and a seed past its first
DELETE hold tables that the TRUNCATE needs, and the TRUNCATE commits with all of
them, so it meets nobody half way (`SendersHold`, `DeletersHold`,
`ResetIsAlone`). A stream belongs to whoever holds its row, so what a send
decided there, to buffer or to publish at a free position, is so until it
commits (`DecisionsStand`). What a seed has collected is still there when it
commits, with all its deliveries (`DeletesWhatIsThere`), because a second seed
waits for it; this is what keeps `NothingOutlivesReset`. A quiet seed saw all
there is (`QuietSawAll`), which gives `FreshIsFresh` and, with the messages of the
conversations outside the plan (`AgreeWhereQuiet`), `OnlyOverlapPoisons`.

`AnsweredIsThere` needs two facts about a seed in the middle of its deletions,
since it does not see the operations of sends that complete meanwhile. Past its
DELETE of the operations every message it is going to delete either has its key
among the collected, or a key that is not completed and that nobody is about to
complete by adopting that message (`AnswersGoToo`). For that, no send may adopt a
message that is being deleted: its stream is locked by the seed, or was made
since and has its pointer at or below the message, so that the INSERT waits
(`StreamsComeLater`).

**NaiveServiceProofs.** The inductive invariant is

    NaiveInv == TracesInv /\ RaceInv /\ PanelInv

`raced` is true by definition of executions that are in their windows at one
time. The step to the messages is `UnseenMessagesRace`: a message of the same key
that an execution's SELECT did not return is of an execution it raced with, or
of one that died before its second INSERT (`UnrecordedIsInWindow`). Numbers have
the same shape with max + 1 in place of the SELECT (`UnseenNumbersRace`).
`PanelInv` accounts for every row of an execution that has not answered yet.

Proved, and not run, because the proof says more: the `TypeOK`s of the operations
and of the stream, `RowCoherent`, `DeliveredIffVisible`, `PublishedIsFinal`,
`DeadlineNotExtended`, `HistoryIsFinal`, `AcksHoldWhatTheyWrite` with
`ClaimsStayEligible`, `NoStrayLocks`, `NothingGoesBack`, `CirclesAreOfSweeps`,
`EffectIsIntent`, `RefusalsAreExplained`, that `SendMessage` implements
`MessageStream`, and with it `StreamPromises` and `ConversationLog` of the
streams under the send.

**Only model-checked.**

- Liveness, which is out of the prover's reach: `BufferedIsResolved`,
  `EveryKeyCompletes`, `EveryBatchIsCleaned`, `CompatibleRunnersMigrate`,
  `EverythingEnds`.
- `CanonicalIffSameValue`: canonical text at every depth is defined by recursion
  over JSON, and what a recursive definition computes for every input needs
  induction over data. That the fingerprint is the canonical text of its effect
  is part of this property, and so is checked by TLC and not proved.

## 6. Not modelled, and why

- `forceGapDeadlines` of the lab (`lab.service.ts:121`) moves deadlines into the
  past; `Tick` of `MessageStream` reaches the same states.
- The reads behind the panel (`state()`, message, stream and receipt lookups),
  the shape of answers, the metrics endpoint: nothing is decided on them.
- The queries of I2, I3 and I8 are modelled and part of what `verify` answers, but
  have no property of their own: each is the negation of the statement it audits.
- `parseAckBody`: `Delivery` starts from a valid ack.
- That the three inserts of `createDeliveries` agree on one snapshot: they are
  one transaction over one list.
- SHA-256 is taken as injective; UUIDs are compared as text by
  `adoptExistingMessage` and normalised by the database, and inputs whose case
  changes between two sends are not in the input sets.
- Metrics and logging, with the counter that is incremented before its COMMIT.
- Demonstrations: browser code of the panel, demo scripts, k6 and chaos
  scripts, manifests. The manifests justify fairness and bounds.
- Two replicas' pools at once: they share only row locks, which the sweep of
  `Replica` already takes from outside.

## 7. Plan

Order followed: the stream, the operations, the send that composes them,
delivery; then the edge, the audit, the migrator, what rewrites the tables and
the process; and the proofs, module by module. Every safety property of the
runs is proved, but for the one that *Only model-checked* names. Next:

1. `parseAckBody` beside the other parsers.
2. The snapshot of recipients as three inserts beside one another, so that
   `Delivery` starts from what `MessageStream` publishes.
