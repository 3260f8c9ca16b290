# WebhookX in TLA+

WebhookX is a webhook gateway. It accepts events over HTTP, stores them in
PostgreSQL, fans each one out to the endpoints of its workspace as *attempts*,
and delivers the attempts with retries. Any number of nodes run the same
program (`gateway`, `worker`, `admin` or all of them); they share PostgreSQL,
Redis and a PostgreSQL `LISTEN/NOTIFY` channel, and nothing else.

This directory holds TLA+ modules that model its core, the TLC configurations
that check them, and TLAPS proofs for every size of the instances.
`PROJECT.json` is the machine-readable index: which definition models which
lines, what each run checks, which hazards of the code the properties are for.

## The system

| part | state | operations | talks to |
|---|---|---|---|
| gateway (`proxy/gateway.go`) | router, its version | `handleRequest`, `ingestEvent`, `HandleMessages`, `dispatch`, `buildRouter` | event queue, dispatcher, task service |
| event queue (`pkg/queue/redis`) | a Redis stream, its consumer group and pending list | `Enqueue`, `dequeue`, `delete`, `listen`, the re-enqueue script | Redis |
| dispatcher (`dispatcher/dispatcher.go`) | events and attempts tables | `Dispatch`, `DispatchEndpoint`, `WarmUp` | registry, DAOs, transactions |
| endpoint registry (`dispatcher/registry.go`) | an LRU with a time to live, a singleflight group | `Warmup`, `LookUp`, `load`, `Unregister` | endpoints table, event bus |
| task service (`services/task`) | none | `ScheduleAttempts`, `ScheduleTask`, `GetTasks`, `DeleteTask`, `Notify` | task queue, attempts table |
| task queue (`pkg/taskqueue`) | a sorted set of ids by time, a hash of payloads | `Add`, `Schedule`, `Get` (script), `Delete` | Redis |
| worker (`worker/worker.go`) | counters | `run`, `submitTask`, `runTask`, `handleTask`, `loadPending`, `Stop` | all of the above, the endpoints |
| pool (`pkg/pool`) | a channel, consumers | `Submit`, `consume`, `Shutdown` | worker |
| deliverer (`worker/deliverer`) | HTTP client, its idle connections | `Send`, the ACL, the dial function | endpoints |
| request log queue (`pkg/batchqueue`) | a channel, a buffer per flusher | `Add`, `Close`, flush on size and on a timer | worker, request log table |
| circuit breaker (`worker/circuitbreaker`) | lock-free per-second buckets, Redis hashes per minute | `Record`, `Flush`, `GetCircuitBreaker`, detection job | Redis, endpoints table |
| multi-level cache (`mcache`) | L1 (an LRU per node), L2 (Redis) | `Load`, `Invalidate` | DAOs, event bus |
| event bus (`services/eventbus`) | subscribers, a LISTEN connection | `ClusteringBroadcast`, `Broadcast`, `Subscribe`, `listenClusterLoop` | PostgreSQL |
| router and plugins (`proxy/router`, `plugins`) | routes; plugins by source and endpoint | rebuild by a version token, chains of plugins | gateway, worker, DAOs |
| generic DAO (`db/dao/dao.go`) | the tables | `Select`, `Insert`, `Update`, `Upsert`, `Delete`, `List`, `Cursor`, `Iterate` | PostgreSQL, event bus |
| admin API (`admin/api`), declarative sync (`pkg/declarative`) | the configuration tables | create, update, delete, lists, `RetryEvent`, sync | DAOs, event bus, dispatcher |
| scheduler and lock (`services/schedule`, `services/distributed`) | cron entries; a key in Redis | start, stop, `TryLock` | jobs |
| retention (`services/retention`) | none | `purgeEvents`, `purgeAttempts` | tables |
| configuration and secrets (`config`, `pkg/envconfig`, `pkg/secret`) | the configuration, a cache of secrets | `Load`, `ResolveReference` | files, environment, providers |
| application, migrations, CLI (`app/app.go`, `db/migrator`, `cmd`) | services | `Start`, `stop`, `db up`, `db reset` | everything |

How an event travels: `handleRequest` either dispatches it at once (synchronous
source) or puts it in the stream (asynchronous source), where a listener of some
gateway reads it in a batch. `Dispatch` asks which unique ids exist, looks up
the endpoints, and inserts events and attempts in one transaction. After the
commit `ScheduleAttempts` adds a task per attempt to the task queue and marks
the rows `QUEUED`. A worker's `run` fetches due tasks under a lease (the
visibility timeout), submits them to the pool, and a consumer runs `handleTask`:
it loads what it needs, sends the request, records the result, inserts the next
attempt if one is due, and deletes the task. The job `worker.requeue` finds
attempts that are still `INIT` and schedules them again.

What is hard in it, and what makes each part correct:

* No call to Redis and PostgreSQL is atomic with another one. Every step may be
  the last one of a process. *An attempt must never be in a state where nobody
  will ever look at it again* (`QueuedIsRecoverable`, `PayloadlessIsSettled`,
  `RetryChainUnbroken`, `EveryAttemptSettles`).
* Leases run out while tasks are in use, gateways are slower than workers, the
  requeue job competes with both. *A settled attempt must stay settled, and a
  second request must have a cause* (`SettledStaysSettled`, `ExclusiveLease`,
  `DuplicateHasCause`).
* Stream messages are handled more than once, also at the same time. *An
  accepted event must not be lost nor fanned out twice* (`AcceptedIsNotLost`,
  `FannedOutOnce`, `OneEntryPerMessage`, `AcceptedIsStored`).
* Counters are updated without locks while they are read. *Every event must be
  counted once* (`CountedOnce`, `SyncedIsCounted`).
* Caches, the router and the iterator of plugins are filled by a load that races
  with the message that should have emptied them, and messages get lost or come
  before the commit they are about. *What is outdated must have a cause and an
  end* (`StaleHasCause` and `EventuallyFresh` of `Registry`, `MessagesSuffice`
  and `StaleIsBounded` of `MCache`, `StaleHasCause` and `EventuallyCurrent` of
  `Rebuild`).
* A request to the admin API is several statements, and others write in between.
  *Workspaces must not see each other, syncs must be exact, a disabled endpoint
  must stay so* (`WorkspaceIsolation`, `SyncIsExact`, `DefaultWorkspaceRemains`,
  `ReenabledOnPurpose`, `DisableReportedOnce`).
* `db up`, `db reset` and `start` are processes of their own that run side by side.
  *A node must find the database it has checked* (`ServesDefaultWorkspace`).
* A node stops while everything is in use. *What was handed over must have been
  tried, nobody stop waits for may find its resources closed, and stop must
  return* (`ResourcesOutliveUsers`, `HandedOverIsWritten`, `StopReturns`).
* Some results depend on orders and combinations that no test enumerates: pages of
  a table that changes, addresses and redirects, chains of plugins, sources of a
  configuration (`PagesAreExact`, `DialsAreAllowed`, `ChainsGuard`,
  `ConfigurationIsEffective`).

`PROJECT.json` lists the hazards with the line where each bites and the
properties that would catch it.

## The modules

| module | models | composed from |
|---|---|---|
| `DelayQueue` | abstract: what users of the task queue rely on | |
| `TaskQueue` | `pkg/taskqueue/redis.go`, command by command, with a clock | implements `DelayQueue` |
| `Delivery` | attempts table, task service, worker, pool, requeue job, retention of attempts | extends `DelayQueue` |
| `Ingestion` | gateway paths, stream, listeners, `Dispatch`, events table | |
| `Registry` | endpoint registry, its notices and transactions of endpoint updates | |
| `CircuitBreaker` | lock-free counters of `worker/circuitbreaker` and their flush to Redis | |
| `EventBus` | updates of a row, NOTIFY, the listeners and what is lost | |
| `MCache` | the cache of endpoints on two levels | extends `EventBus` |
| `Rebuild` | router and plugin iterator, the jobs that rebuild them | extends `EventBus` |
| `ControlPlane` | admin API, DAO writes, declarative sync, detection job and its lock | |
| `Migrations` | `db up`, `db reset` and the check of `start`, side by side | |
| `Lifecycle` | start and stop of a node, pool, request logs, breakers, cron, background goroutines | |
| `Paging` | lists, cursors, links and the iterator of the DAO, as operators | |
| `Deliverer` | ACL, dialling, redirects, result of an attempt, as operators | |
| `PluginChain` | plugins, their order, the chains of gateway and worker, as operators | |
| `Configuration` | sources, secrets, roles and services, as operators | |
| `Sorting` | the order that `ORDER BY` and `sort.Slice` give | used by `Paging`, `PluginChain` |
| `Algorithms` | the four modules of operators, with the inputs they are given | extends the four |
| `MC*` | instances for TLC (`MCAlgorithms`: the inputs of `Algorithms`) | one module each, `MCLifecycle` two |
| `*Proofs` | TLAPS proofs (`ComponentProofs`: `Algorithms`, `Registry` and `TaskQueue`; `LifecycleProofs`: `Migrations` as well) | the module named |

### DelayQueue and TaskQueue

`DelayQueue` says that a task id is `absent`, `future`, `due` or `leased`, and
has a payload or not. Its actions are the halves of the two pipelines (`PutData`
and `PutEntry`, `DropData` and `DropEntry`), `Lease` (what `Get` does) and
`Elapse` (time). `TaskQueue` has the sorted set's scores, the Redis clock, and
per client the second command of a pipeline under way. `Add` and `Delete` in the
code use `Pipeline`, not `TxPipeline`: other clients run in between, and
`Disconnect` leaves the first command without the second. Clients take scores
from their own clocks, so scores may be in the past.

`ExclusiveLease`: within one visibility timeout a task is handed out once,
unless a client set or removed its score. `ImplementsDelayQueue` is the
refinement: every command, and every tick of the clock, is a step of
`DelayQueue`. This justifies building `Delivery` on the abstract queue, without
scores and clock.

### Delivery

One process per actor and one step per call to PostgreSQL, Redis or the
endpoint. `Producers` run `Dispatch` and the `event.fanout` handler,
`Requeuers` run `loadPending`, `Holders` are tasks in the memory of a worker
from `Get` to the end of `runTask`. `ScheduleAttempts` is three steps (`hset`,
`zadd`, `mark`) of whichever process calls it, because the order *queue first,
status afterwards* is what the correctness turns on. The requeue job calls it
inside the transaction that holds the row locks, so its update is part of the
commit (`MarkInTransaction`, `Commit`, `Rollback`), while its tasks are in Redis
before.

Times are abstracted: an attempt is `far` (beyond the pre-schedule window) or
not, an entry is due or not, and `TimeOut` may happen at any moment, so every
race between a lease and its holder is included. The answer of an endpoint is
one of what `AttemptResult` tells apart; the length of the retry configuration
is chosen anew each time it is read, because it may be edited in between.
Plugin failures, unreachable stores and stopping nodes are `Abandon` and
`ScheduleFails`, bounded by `MaxFaults`. A call of `Add` that returns an error may
have taken effect, wholly or in half; the requeue job commits all the same.

### Ingestion

The handler of a synchronous request and the listeners run `Dispatch` in two
steps, the query of the existing unique ids and the transaction. The stream is
the sequence of unread entries, the pending list and the acknowledged entries
that `XDEL` has not removed; a listener remembers which of its entries are
still the ones it read, since the re-enqueue script replaces entries while a
listener may be at work. Every answer that may be lost is (`CommitUnanswered`,
`DeleteFails`, `EnqueueFails`). The Redis client repeats an `XADD` whose answer is
lost (`EnqueueRepeated`), so an event may have several *messages*; entries are of
messages (`OneEntryPerMessage`), and `FannedOutOnce` is about the events. Which events get attempts depends on the registry and is left
open here.

### Registry

One workspace: the database's version of its endpoints, the cached one, and two
loaders, `Warmup` and the goroutine that singleflight lets through. A loader
reads and adds in two steps, and the notices of updates (`endpoint.crud`) are
handled at any time. Updates inside a transaction send their notice before the
commit (`UpdateInTx`), as `executePropagate` does. The history variable `blind`
records that a version in the cache, or in the hands of a loader, will not be
corrected by any notice.

### CircuitBreaker

One endpoint's ring of per-second buckets. A step is one atomic operation of
`UnixAggregation.Record` and `Snapshot`, so resets, adds and reads interleave as
the hardware lets them; `Flush` walks the ring twice (hours, then minutes) and
sends one pipeline, which may fail after some of its commands. A counter is the
set of the events it has counted, so that *how many* becomes *which*, and a
Redis hash says of each event how often it was counted under which key. The
ring has two buckets instead of sixty, and a minute two seconds instead of
sixty. `wrapped` records that the ring came round on a second that was not
flushed yet, or on a `Record` not over; nothing is claimed from then on.

### EventBus, MCache and Rebuild

`EventBus` has one row whose content is the number of the update that made it. A
statement on its own propagates after its commit; one in a transaction before it,
and also when it is rolled back (`executePropagate`). The goroutine that
propagates publishes to its own node and sends NOTIFY for the others; NOTIFY may
fail, a message may come while the listener is not connected, and the process may
end, which a reconnect causes as well (see below).

`MCache` is `Load` step by step for two goroutines of one node (L1, L2, mutex,
database, put, add) and `Invalidate` as L2 first and L1 after. Entries carry the
time they have left, so `StaleIsBounded` is a statement about time:
`L1TTL + L2TTL + 2 * MaxLoad` after a change at the latest, no worker uses what
was there before. `MessagesSuffice` says when the bound is not needed: what is
outdated in L1 has a message on its way to that node, and what is outdated in L2
one to every node that has an L2. `undisturbed` names the three races that make it so: a lost message, a message
before its commit, a `Load` holding a value while its message is handled.

`Rebuild` is one object, either the router or the iterator. A message only sets a
token; runs of a cron job, which may overlap, compare the token, list the rows and
publish. The router and its token are two assignments (`StoreRouter`,
`MarkRouter`), the iterator is one, and it alone is rebuilt every minute.
`StaleHasCause` and `EventuallyCurrent` show what the difference amounts to.

### ControlPlane

The four tables of the configuration are one function from ids to rows, because
the DAO is generic; the unique indexes and the cascading foreign keys are
`Clashes` and `Deleted`. A handler is a step per statement: the middleware
resolves the workspace, an update reads, merges and writes every column, a sync
upserts in one transaction and then lists and deletes. What is created or synced carries its flag `enabled`, so
a sync may disable an endpoint while an update of it is under way (`overtaken`); no
property is about the flag of sources and plugins. The detection job runs
under a lock that only expires; whether a circuit breaker is open is a choice.
`SyncIsExact` is about endpoints and sources; of plugins it says that those of the
configuration are there, because a sync deletes no plugin of an endpoint or source
that it keeps.
Ids are fresh (KSUIDs): a client that reused the id of another workspace's row
between the list and the deletions of a sync would have its row deleted by it.

### Migrations

Any number of `db up` and `db reset` beside any number of nodes. golang-migrate
holds an advisory lock while it migrates or drops tables, table by table; the
insert of the default workspace comes after it is released, and the check of
`start` does not take it. A reset asks nothing of the nodes that serve. Commands
may end at every step. The histories name what a node may then meet: `upBroken`
(an `up` ended before its insert), `dropped` (the nodes under which a reset began, or
that started on half a one).

### Lifecycle

Stages of the main goroutine in the order of `Start` and `stop`, with the
goroutines that are alive at each: requests, the loop of the bus, the fetch loop,
the pool's handlers (which block on a full queue of request logs), the flushers,
the loop of the circuit breakers, cron's jobs, and those that nobody waits for
(`Background`: the listeners of the stream, the handlers of fan-outs, the
propagation of changes). `expired` are the contexts of stop (10 s for HTTP, 30 s for
all) that have run out. Tasks are counts; request logs have numbers, so that what
became of each is known: a batch is `written`, or its insert has `failed`, which
the code logs before it clears the buffer. The flushes of the circuit breakers
fail as well, and the next one makes up for it.

### Paging, Deliverer, PluginChain and Configuration

Operators without state, each with a reference definition of what its result
should be. A walk over pages is given the table that each of its queries finds, so
rows come and go between pages; only pages by cursor have links. A request of the
deliverer is the sequence of its hops, on a client that may have kept a connection
(`Hops`). Addresses and rules have the forms `netip` tells apart: plain, IPv4 mapped
into IPv6, with a zone. `Forbidden`, the reference, says which addresses the rules
name: an IPv4 address in both forms, nothing for a rule in the mapped form. A chain of plugins
changes the context of a request plugin by plugin, the highest priority first
(`Contexts`), and what a body is signed for, and how old the signature is, are part of
the request. A schema is absent, valid or broken, and a broken one rejects. A
configuration is loaded field by field (`Assigned`), with the cache of secrets as
part of the state; what the YAML parser makes of the text of a secret is a constant
(`YAML`), because the file's provider parses it again (`RewriteScalarNode`). One field of each sort stands for the others. Loops of the code
are recursive functions on the numbers of their rounds.

`Algorithms` makes a state machine of them: a behaviour picks one input and ends,
and an invariant says that the result for the input is right. The inputs are
constants. What they may be is said by `IsPaging`, `IsDelivery`, `IsChain` and
`IsConfiguration`: ids are unique and not null, a hop follows only a redirect,
names of plugins are unique on a source and on an endpoint, a license is there or
not. TLC takes the inputs of `MCAlgorithms`, the proofs take any.

## What the runs show

| run | instance | shows |
|---|---|---|
| `task_queue` | 2 tasks, 2 clients, timeout 2 | leases are exclusive; the refinement |
| `delivery` | 1 attempt, 1 gateway, 1 requeuer, 2 holders, 1 fault | recoverable, settled in the end and for good, duplicates have a cause |
| `delivery_retries` | 3 attempts, 1 requeuer, 1 holder, retry lengths 1 and 2, inserts that fail | no retry is dropped, chains end |
| `ingestion` | 1 synchronous and 2 asynchronous events, a shared unique id, 2 messages, 2 listeners, batches of 2, 1 fault | not lost, not doubled (also when an `XADD` is), stored in the end |
| `registry` | 2 callers, 3 updates, 2 faults | outdated only for a cause, and not for ever |
| `circuit_breaker` | 3 events, 2 buckets, 4 seconds, 1 failing pipeline | counted once, under the right key, none between two flushes |
| `mcache` | a control plane and a worker with 2 callers, 2 updates of which the second deletes, 1 fault, times to live 1 and 2 | messages suffice but for three races, the times to live bound the rest |
| `rebuild` | 2 nodes, 2 overlapping jobs, 2 updates, 1 fault, both kinds of object | outdated only for a cause, current in the end |
| `control_plane` | 2 clients with 3 requests, 2 detectors, 2 workspaces, 2 endpoints, 1 source, 1 plugin, 1 fault | isolation, exact syncs, the default workspace, disabling |
| `lifecycle` (`Migrations`) | 3 commands, 2 nodes, 2 migrations | a node has the default workspace but for three causes |
| `lifecycle` (`Lifecycle`) | 1 server, 2 handlers, 1 flusher, 1 job, a pool and a log queue of 1, 2 tasks, one kind of background goroutine at a time | order of stop, every log tried, stop returns |
| `algorithms` | 460,000 inputs, a state each | pages, dials, chains and configurations are as their references say |
| `duplicates_poison_batch` | 3 asynchronous events, two with one unique id, no fault | *violation*, see below |

The bounds are chosen so that each race has its actors. One attempt suffices for
contention because attempts share only the pool and the batch limits; two holders
are needed for an expired lease, and one fault anywhere for a gateway, a requeuer
or a worker that fails. Retries need a third attempt, one more than the longest
configuration. The proofs remove the bounds for every invariant and action
property, crashes in the middle of a retry and more faults included.

In `circuit_breaker` two buckets and four seconds let a bucket be used, flushed,
taken over and flushed again; three events let two share a second while the
third resets the bucket. States where the ring has come round are not explored
further (`InTime`), since the properties claim nothing of them.

In `mcache` two callers give one that loads from the database while another takes
from L2, and an L2 that lives longer than L1 gives the worst case of
`StaleIsBounded`: an entry moves to L1 at the end of its life in L2. In `rebuild`
two jobs cross, and two updates leave a token between them. In `control_plane`
three requests let an update or a sync be overtaken by another request, and two
detectors overlap when the lock expires. In `ingestion` two messages
are in the stream at most (`Bounded`): of the two events, or of the one whose `XADD`
was repeated. In `lifecycle` a behaviour is either of the commands and nodes of
`Migrations` or of the node of `Lifecycle`, which share no state (`part` of
`MCLifecycle`); three commands let a reset and an up run while another up is about to
insert the workspace, a queue of one log makes
a handler wait for the flusher, and a batch of two leaves a half-full buffer.
In `algorithms` a walk makes three queries over up to four rows, so that a row may
come or go on either side of the cursor; the second of two requests may be
redirected to the host of a kept connection; sets of three plugins have every pair
of a check and a change of the body, and one that ends the chain.

Deadlock is not checked for `Delivery`, `Ingestion`, `CircuitBreaker`,
`ControlPlane`, `Lifecycle` and the algorithms: when every attempt of the bounded
instance is settled, every event stored, the clock or the requests are used up,
the node has ended or the input is picked, nothing is left to do.

### A disagreement with what the repository says

**A duplicate within a batch blocks the batch for good**
(`duplicates_poison_batch`). Two messages with one unique id in one `XREADGROUP`
fail the insert of the whole batch; they stay pending, are re-enqueued, and are
read together again.

### What the models show of the code

Behaviour the code has, which the properties name as an exception or leave open:

* *Concurrent duplicates* (`Ingestion`). `Dispatch` queries the existing unique ids
  and inserts afterwards with `ON CONFLICT(id) DO NOTHING`; the unique index on
  `unique_id` is not covered by that clause. Of two concurrent synchronous
  requests the second gets an error instead of the answer to a duplicate.
* *An event without attempts* (`Registry`, `GetAgain`). `LookUp` ignores what the
  flight loaded and reads the LRU a second time. If the entry was removed in
  between it returns neither endpoints nor an error, and the event is stored
  without attempts.
* *Snapshots of two seconds* (`CircuitBreaker`). `Snapshot` reads the second and
  the counters one by one, and a reset in between gives the counts of the new
  second under the old one. `Flush` drops such a snapshot, because the old second
  is not in its window, as long as flushes come within one turn of the ring;
  `CountedOnce` shows that.
* *A router that stays outdated* (`Rebuild`: `missed`, `torn`). After a message
  that is lost or precedes its commit, or when two overlapping jobs leave the
  router of one with the token of the other, nothing rebuilds it until a source
  changes again. The iterator of plugins recovers within a minute.
* *A disabled endpoint that comes back* (`ControlPlane`: `overtaken`). An update
  that read the endpoint before it was disabled writes every column back.
* *A database without default workspace* (`Migrations`). A node that is started
  beside `db up` may serve between the last migration and `initDefaultWorkspace`.
  An `up` that ends there leaves it out for good (`upBroken`), since the next `db up`
  returns early when no migration is pending. `db reset` drops the tables under nodes
  that serve (`dropped`).
* *A database closed too early* (`Lifecycle`: `Background`). `stop` cancels the
  listeners of the stream and does not wait for them, nor for the handlers of
  fan-outs and the propagation of changes. Requests and jobs may outlast the time
  they are given.
* *Request logs that are dropped* (`Lifecycle`: `failed`). When the insert of a batch
  fails, the error is logged and the buffer cleared.
* *A rule that matches nothing* (`Deliverer`: `AllowIP`). The address is unmapped
  before it is compared, the rules are not: `::ffff:10.0.0.1` is accepted as a rule
  and refuses no address. A prefix contains no address with a zone.
* *A secret is YAML* (`Configuration`: `RewriteScalarNode`). In the file, a secret
  that reads as a mapping or a sequence leaves the reference in place, one that
  reads as null leaves the default, and quotes and comments are cut. The environment
  takes secrets as they are.
* *A nil notification* (`BusCrash`, `BusPanics`). The listener's channel gives nil
  after a reconnect and when Stop has closed it, and the loop dereferences it.
* *A plugin on both sides* (`PluginChain`: `Panic`). A plugin attached to a source
  and to an endpoint is loaded for both, and panics on the side it lacks.
* *Versions of a secret* (`Configuration`: `Confused`). The key of the cache of
  secrets leaves out the parameters of a reference; two references to one name
  with different versions get the value that was read first.
* *A proxy instead of the ACL* (`Deliverer`: `DialContext`). With a proxy the
  dial function of the ACL is not installed.
* *Numbered pages* (`Paging`: `NumbersCover`). The deprecated `page_no` is exact
  only while the table does not change; links are exact in any case.

## Fairness

`Delivery`: every process that is in the middle of its work goes on (goroutines
are scheduled, calls have timeouts); time passes. Strong fairness is assumed
where the code chooses among candidates and repeats the choice for ever: the
requeue job reaches every `INIT` row (it runs periodically and loops while a
round is full), `Get` reaches every due task (lowest score first), and the rate
limiter admits a task at some try (its window moves on). Nothing is assumed of
new events, of the retention job and of faults, which are finitely many.

`Ingestion`: listeners and request handlers go on, some listener reads when
there is something to read, and the re-enqueue ticker brings every idle message
back repeatedly; strong fairness, because a message may be read and abandoned in
between.

`Registry`: transactions end, notices that are not lost arrive, loads return,
and the time to live of 60 seconds evicts entries (weak fairness of `Evict`).
Without that last one `EventuallyFresh` is false, which is the mutant of that run.

`Rebuild`: goroutines and connections make progress, transactions commit in the
end, time passes (`Age`), cron ticks, a process that ended is started again by its
supervisor. Nothing is assumed of updates and faults.

`Lifecycle`: `stop` goes on, deliveries have timeouts, so handlers and flushers do
their steps, and the contexts of stop expire. Requests and jobs need not end.

`TaskQueue`, `CircuitBreaker`, `MCache`, `ControlPlane` and the algorithms are
about safety and state no fairness.

## Proofs

Every invariant and every action property of the runs is a theorem, as is the
refinement. The theorems hold for every number of tasks, clients, gateways,
requeuers, holders, events, listeners, callers, nodes, jobs, detectors, handlers,
commands, updates, seconds and faults, and for every input of the algorithms. For the state
machines with steps `Init => IndInv` and
`IndInv /\ [Next]_vars => IndInv'` are proved with one step per action and the
property follows from `IndInv`; TLC has checked each `IndInv` on the instance of
its run before.

The assumptions on constants are named in the modules that declare them, and TLC
evaluates them in the runs. They say that bounds are natural numbers and sizes
positive (`QueueAssumption`, `RegistryAssumption`, `EventBusAssumption`,
`MigrationsAssumption`, `LifecycleAssumption`), that actors of different roles differ
(`DeliveryAssumption`, `IngestionAssumption`), and beyond that:

* `IngestionAssumption`: messages are finitely many and of asynchronous events, since listeners read them in
  batches that are counted.
* `MCacheAssumption`: a goroutine that calls `Load` runs on a node with an L2;
  versions that delete the row are not the first.
* `RebuildAssumption`: the gateway is one of the nodes.
* `ControlPlaneAssumption`: an id belongs to one table (KSUIDs), and "never
  there", "deleted" and rows differ. `ConfigsAssumption`: a configuration is finite
  and has one item per table and name. `InitialRowsAssumption`: `db up` has made
  the default workspace, and only plugins have owners.
* `CircuitBreakerAssumption`: the clock does not start at 0, because 0 is the
  second of a bucket that was never used.
* `AlgorithmsAssumption`: the inputs are as `IsPaging`, `IsDelivery`, `IsChain` and
  `IsConfiguration` say. `DefaultsAssumption`: there is a default for each field.

The inductive invariants, and why the properties do not stand on their own:

* `ComponentProofs`, task queue. `IndInv` adds to the types that a lease nobody
  touched ends at `leasedAt + VisibilityTimeout`, and that a pipeline's second
  command has the arguments of the first. From it `LeasesAreExclusive` and
  `Refinement` (initial states map to initial states, steps to steps or
  stutters).
* `ComponentProofs`, registry. `LoadedHasCause` extends `StaleHasCause` to what
  a loader holds, which the next step may put in the cache. From it
  `StalenessIsExplained`.
* `DeliveryProofs`. `QueuedIsRecoverable` depends on what processes know.
  `HolderKnows` says that a holder past its recording step holds a settled
  attempt and that it has the payload until then; `SchedulerKnows` that between
  `zadd` and `mark` the task is in the queue or settled; `RowLocks` that the rows
  a requeuer has selected are `INIT` and are nobody else's. From these
  `Recoverability`, `HollowTasksAreSettled` and `SettledForGood`. A second
  invariant on top follows retries: `SoleHolder` says that a task that was never
  handed out while in use has one holder whose lease stands; `SentOnce` and
  `ResultIsFresh` follow a request from `Send` to the deletion; `ChainKnows`
  bounds the number of the attempt about to be inserted. From these
  `RetriesAreNotLost`, `DuplicatesAreExplained` and `ChainsAreBounded`.
* `IngestionProofs`. `DispatcherKnows` (what a listener filtered out or has
  inserted is known by its unique id), `LiveEntries` (the entries a listener may
  acknowledge are pending and its own), `FannedOutIsStored`, and `StreamIsSent` and
  `AcceptedIsSent` (what is in the stream was added, and an event that was accepted
  has a message). From these
  `AcceptedEventsAreNotLost`, `EventsAreFannedOutOnce` and `EntriesAreUnique`.
* `CircuitBreakerProofs`. All but the types and the clock holds until the ring
  comes round. `RingIsLarge` says what that means: no unflushed second, and no
  second a `Record` is at work on, is a turn of the ring ago. Two seconds of one
  bucket are a turn apart (`BucketGap`), so a bucket that is taken over has been
  flushed and nobody adds to it (`NoTakeover`, `TakeoverIsExclusive`), and no
  event is discarded as too late (`NoDiscard`). Hence `ResetIsExclusive` and
  `BucketsAreOfTheirSecond`: a bucket that is not being reset has counted events
  of its second only, and all of them while that second is unflushed.
  `SnapshotsAreClean` says that a snapshot which is used was not torn by a reset,
  `SnapshotsAreComplete` that the walk has left nothing behind it, and
  `OpenIsUncounted` that an event is in Redis only if a flush has covered its
  second. From these `EventsAreCountedOnce` and `FlushedSecondsAreComplete`.
* `MCacheProofs`. `MessagesSuffice` needs what a `Load` holds (`MessagesAhead`):
  the message that will remove the entry it is about to make is still to come to
  all nodes that have an L2, because any of them may remove it from L2.
  `StaleIsBounded` needs `AgesAreBounded`: how old a value can be at each stage
  between the database and L1, with the time that is left to it. From these
  `MessagesAreEnough` and `StalenessIsBounded`.
* `RebuildProofs`. `ListedHasCause` says that a job with the present token has
  listed the present rows or another message follows, `OwnerKnows` ties the
  router to the job that stored it, `EarlyIsMissed` covers messages that come
  before their commit. From these `StalenessIsExplained`.
* `LifecycleProofs`, migrations. `UnderLock` says what the lock protects, `UpToDate`
  that a database which was not reset half-way has the tables of its version and, at
  the latest one, the workspace or somebody to insert it; `ServesChecked` that a node
  serves on the version it checked unless a reset came. From these
  `WorkspaceBeforeService`.
* `LifecycleProofs`, a node. `StaysStopped` says that what a step of `stop` has waited
  for does not come back after it, `NothingDropped` that a request log is in the
  channel or in a buffer until its batch is tried. From these `ClosedAfterUse` and
  `WrittenAtExit`.
* `ControlPlaneProofs`. The properties are about steps, and need what a request
  has read before. `UpdatesAreOwn` and `DeletionsAreOwn` say that the row an
  update holds, and the rows a sync has listed, are of its workspace, and with
  `OnlyPluginsAreOwned` a cascade deletes plugins only; from these `Isolation`.
  `DefaultIsKept` names a default workspace that no request under way will rename
  or delete; from it `DefaultWorkspaceStays`. `EnablingHasCause` follows an update
  that holds an enabled row until it is written, `EnabledIsUnreported` says that
  an enabled endpoint has no report; from these `Reenabling` and `ReportedOnce`.
  `SyncIsOnItsWay` says what a sync that is alone has done at each step and that
  it has only to delete what it has listed or will list; from it
  `UndisturbedSyncIsExact`, where the number of rows it keeps is counted with the
  theorems on finite sets.

The algorithms loop, so what they compute needs an induction over data. The
library's induction theorems take the predicate as a parameter, which the provers
cannot instantiate. `ComponentProofs` puts a set in its place: by
`NatLessThanWellFounded` and `WFMin`, a set of natural numbers has a least element
(`LeastNumber`), and a set with 0 and all successors up to n has all numbers up to
n (`InductionUpTo`). With it a recursive function has its fixed point (`HopsDef`,
`ContextsDef`, `AssignedDef`, `WalkDef`, `IterateDef`), a finite set with unique
keys has its order and `Sorted` gives it (`SortedIs`), and a loop has an invariant
that each round keeps:

* `DeliveriesObey`. `After` says of a request after k hops that what it has used
  and what is kept idle is not forbidden, that it goes on only after redirects, and
  what its end means: an answer, a failure to connect, or a refusal by the rules.
  One hop keeps it (`AfterHop`), because a dial under the rules takes an address of
  the answer that they allow (`RestrictedDialObeys`), and a kept connection was
  such a dial before. The kept connections are what the second request starts from.
* `PluginsGuard`. `Admitted` says that a request which is still open after k plugins
  of the gateway satisfied these k as it was received, and that its body is the
  received one unless the function was among them: the checks have higher
  priorities, so they all see what was received. `Signed` says the same of the
  worker, where only the signature comes after wasm.
* `SourcesAreEffective`. The loader's state is well-formed (`IsLoader`) if the cache
  holds for a name the secret of some reference to that name. Then a text that is
  assigned is what its value means (`Means`), up to the confusion of versions.
  `ReadIs`, `LoadModuleIs` and `LoaderEndIs` carry this over the fields, the two
  sources and the three rounds of `Load`; the first round finds the providers that
  the last one resolves with (`AfterSecretsIs`, `AfterLogIs`).
* `ListsAreExact`. A list is a window: the first rows behind an id, and whether
  there are more (`IsWindow`). `Visiting` says of a walk that what it has visited is
  in order, none of it is behind the cursor, and all that last are visited or
  behind the cursor; a window of any later table keeps it (`VisitingGoesOn`), which
  is why rows may come and go. The walk of links and the iterator are its two
  uses. The link back is read in the other order: two windows of one table that
  face each other are each other's reverse (`BackWindow`). Numbered pages are
  consecutive slices (`SlicesCover`).

What the attempts showed of the models: the type of a version is kept only
because a transaction has room for the version it will commit (`BusTypeOK`);
`MessagesSuffice` for L2 is inductive only with a message ahead at *all* nodes
with an L2, which is what the code has; and a sync is exact only for
configurations with one item per name, which is what the upserts make of the
others.

Only model-checked: the liveness properties (`EveryAttemptSettles`,
`AcceptedIsStored`, `EventuallyFresh`, `EventuallyCurrent`, `StopReturns`), since
fairness and `ENABLED` are out of the prover's reach. `duplicates_poison_batch` is
a violation, and nothing is claimed of it.

## Not modelled

* A durable Redis is assumed: its data survives faults. If it is lost, `QUEUED`
  attempts are in no queue and nothing selects them.
* A task whose handling fails every time is handed out for ever (the code has a
  TODO for it); the liveness properties assume that faults stop. How fast the
  rounds of the requeue job follow each other while Redis is down has no
  counterpart without time.
* The sums of `GetCircuitBreaker` and their weighing by `timeProrate` are floating
  point; the verdict is a choice of `ControlPlane`.
* Algorithms of libraries: rate limiting, migrations, path matching, hashing, the
  JavaScript and WebAssembly engines, JSON schema. Their results are choices.
* Validation of request bodies against the OpenAPI document: a refusal changes
  nothing (`Refuse`).
* Fields of the configuration beyond one of each sort; formats of texts, headers
  and bodies.
* `db up` on a dirty database or without pending migrations, which changes nothing,
  and `db status`.
* A message of the stream that cannot be unmarshalled: what is read is what the
  gateway has marshalled.
* Logs, metrics, tracing and reports, which nothing reads back, and the license, a
  signature check at start. Their places in `Start` and `stop` are in `Lifecycle`.

`PROJECT.json` lists every component with its status.

## What could follow

1. A composition: `Ingestion` followed by `Delivery` as one abstract *outbox*
   (accepted, stored, settled), shown to be implemented by both.
2. What histories mean, such as that `wrapped` of `CircuitBreaker` stays false
   while flushes succeed within a turn of the ring.
3. `DialsAreAllowed` is about two requests on one client; `AfterSend` carries over
   to any number, which needs an invariant of the client instead of one input.
