# A verification of ProxyFarm

ProxyFarm (`src/proxies`) collects proxy share-links, probes them in stages of rising cost, keeps the
history of the probes in Postgres and publishes the lists of live proxies. This directory holds TLA+
models of its control, the TLC runs that check them, and TLAPS proofs of what matters most.
File and line references are to `src/proxies`.

## 1. Inventory

| Component | State | Operations |
|---|---|---|
| Fetcher (`cmd/fetcher`) | none of its own; `sources` table | a pass downloads each source, publishes RAW batches of 100 with a message id |
| Raw ingestion (`consume.go:29-88`) | `nodes` table | upsert a node, locate its host once |
| Planner (`plan.go`) | a tick in progress | query due nodes for L0, L1, L2 and each validator; publish them in jobs |
| JetStream (`internal/natsb`) | streams RAW, JOBS_L0/L1/L2/VAL, RESULTS; buckets PUBLISHES, REGISTRY | store once per message id, deliver at least once, AckWait, MaxDeliver 3 |
| Worker (`cmd/worker`) | jobs fetched, results so far | fetch, probe every node of a job, publish results, ack or nak |
| Probe runner (`internal/probe/l1.go`) | semaphore, ports, sing-box processes | ProbeL1, ProbeL2: two attempts, each with a sing-box and curl |
| Result ingestion (`consume.go:91-258`) | `node_checks`, aggregate columns of `nodes` | INSERT once per key, recompute the aggregate, queue L1 after a passed L0, ack |
| Leader lease (`bus.go:187-239`) | one entry of REGISTRY | claim, renew, release |
| Publisher (`publish.go:20-163`) | `publishes` table, PUBLISHES bucket, last set | publish the live set when due or changed |
| Maintenance (`publish.go:166-188`) | partitions, `nodes` | ensure and drop partitions, delete long-dead nodes |
| Migrations (`pg.go:37-80`, `migrations/`) | `schema_migrations` | apply each file once, in order, each in a transaction |
| Vantages (`consume.go:261-315`, `worker/main.go:123-137`, `api/main.go:374-418`) | `vantages` table, REGISTRY, validators' durables | heartbeat, register, edit, delete |
| API (`cmd/api`) | SSE subscribers | read-only queries, event stream, administration |
| Score, parser, geo, metrics | pure, or a counter table | |

How they interact. Fetcher → RAW → raw ingestion → `nodes` → planner → JOBS_* → worker (→ runner) →
RESULTS → result ingestion → `node_checks` and `nodes`, which the planner reads again; `nodes` →
publisher → PUBLISHES → API. Planner, both ingestions, publisher, maintenance and the vantage watcher
are goroutines of one coordinator process, run only by the holder of the lease. Workers (2 replicas)
and the API (2) are separate processes. Nothing but the two stores and the streams is shared between
processes, and no step spans two of them atomically; everything hard follows from that:

* **Delivery.** A job or a result batch may be delivered up to three times, concurrently with its first
  delivery when that is merely slow; a publish may fail with the message stored; acks may be lost.
* **Crashes.** A coordinator or worker may die between any two steps; ingestion of one item is three
  separate steps (INSERT, recompute, queue L1) and the batch is acked whatever happened.
* **Staleness.** The planner publishes from a query result while rows change; the aggregate is taken
  from the newest rows, of whatever stage.
* **Time.** The lease is a timestamp compared with a local clock; a probe call gives up on its body,
  which goes on.

What makes each correct: no acked job without its results in a safe place, every job settles, one L1
job for each passed L0, an aggregate that agrees with the history, costly probes only for nodes that
earned them (pipeline); a sole, timely leader is not displaced and a dead one is replaced (lease); no
two sing-box on a port, no probe through another's tunnel, no port lost, bounded processes, every call
returns (runner). An append-only log of versions that catches up (publisher); every published node
accounted for and located (raw ingestion); workers registered and attached, jobs only where they are
wanted, deletions that last (vantages); a partition for every result, no young data dropped
(maintenance). `PROJECT.json` lists every hazard at its line with the properties that watch it.

## 2. Modules

| Module | Models | State and actions |
|---|---|---|
| `CheckHistory` | the queries over `node_checks` | pure: `LatestByVantage`, `Aggregate` (recomputeNode's loop), `Due`, `Backoff`, `WantsL2`, `WantsValidation` |
| `JobLedger` | what the pipeline promises: a ledger of jobs asked, batches answered, jobs closed, rows recorded | `asked`, `answers`, `closed`, `recorded`; `Ask`, `Answer`, `Close`, `Record` |
| `Pipeline` | planner, JetStream, workers, result ingestion | see below |
| `Lease` | `TryAcquireLease` in several instances | `holder`, `age` are the entry; `phase`, `spent`, `since` an instance; one action per read, write, failure, stop |
| `ProbeRunner` | one worker's Runner | `call` is ProbeL1/L2 in its caller, `phase`/`port`/`try` the goroutine behind it, `free` the allocator's channel, `proc`/`bound` the sing-box processes |
| `PublishLog` | what publications promise: an append-only log of versions | `log`; one action, `Next` |
| `Publisher` | `publishLoop`, `publishVersion`, `/api/events` | `alive` the nodes' status; `version`, `rows`, `rowAge` the table; `kv` the bucket; `loop`, `last`, `ticked` publishLoop; `feed` the handlers |
| `RawIngest` | fetcher, RAW, `consumeRaw` | `fetcher`, `recent` a pass and the second it is in; `raw`, `arrived`, `durable` the stream and its consumer; `coord` consumeRaw; `row` the table |
| `Vantages` | heartbeats, `watchVantages`, `attach`, the administrator's edits, the planner's choice of validators | `worker` the workers; `entry` the bucket REGISTRY; `watch`, `updates`, `ensuring` watchVantages; `row` the table; `filter`, `waiting` JOBS_VAL; `plan` a planner tick |
| `Maintenance` | `maintenanceLoop` with the SQL functions it calls, `Migrate` | `now` the day; `done`, `applied`, `file`, `open` the migrations; `parts` the partitions; `loop` the chore at hand; `node` what the chores read of `nodes` |
| `MC*` | instances for TLC | |
| `*Proofs` | theorems | section 5 |

**Pipeline.** `jobs` is all JOBS_* streams, a job's phase being *ready* (in the stream), *leased*
(delivered, AckWait running), *acked*, or *dead* (out of deliveries). `exec` holds the deliveries workers
are at, `inbox` the RESULTS stream under the delivery that published, `dedup` the ids in JetStream's
duplicate window, `planner` and `coord` the two goroutines of the coordinator, `checks` and `row` the
tables. `PlanQuery`/`PlanPublish`/`PlanFail` are planJobs and publishBatched; `Fetch`, `Probe`,
`PublishResults`, `PublishFails`, `AckJob`, `LoseAck` are processJob; `FetchResults`, `InsertCheck`,
`SkipDuplicate`, `InsertFails`, `Recompute`, `RecomputeFails`, `EnqueueL1`, `EnqueueFails`,
`AckResults`, `LoseResultsAck` are consumeResults and ingestResults, cut at each call that another
process can observe; `JobAckWait`, `ResultsAckWait`, `WindowEnds` are JetStream's. `dropped`, `stale`
and `missed` are history variables that no guard reads. The stages of a planner tick may come in any
order and the LIMITs are left out, which only adds behaviours. So does letting a validator receive the
jobs of its subject: in the code the coordinator's heartbeat handler may have changed the durable's
filter until it receives none, which is the matter of `Vantages` (run `ValidatorJobs`).

**JobLedger** knows nothing of streams, deliveries, workers or crashes. `Ledger == INSTANCE JobLedger WITH asked
<- Asked, answers <- Answered, closed <- Closed, recorded <- checks` maps the pipeline to it: a job is asked
when it is in a JOBS stream, a batch answers when RESULTS has it, a job is closed when it is acked. `CountsFor` is
the vantage under which results are stored: the worker's own, so that an L2 job planned for a validator counts for
the cloud, whose testers serve it. All other steps (deliveries, probes, timers, faults, recomputes)
stutter. `IsLedger` says more than that nothing is lost: batches are complete and of the right stage and
vantage, jobs and rows are never taken back, and every job was earned when it was asked.

**Lease.** Time is kept as ages capped where larger values make no difference, so there is no bound on
the clock. `Lag` is the age a timestamp has when its Put arrives (at most the 3 s of its context),
`RenewGap` the longest gap between the writes of a leader in good health. A failed renewal is a leader
that comes late. The instances are told apart by HOSTNAME and their clocks agree.

**ProbeRunner.** A call returns when its body is done or its context is; the body goes on regardless.
The kill and the reaping of a sing-box are one step, since nothing happens to the port between them.

**Publisher.** A list is the set of its nodes, which stands for body, checksum and metadata (the code
puts the metadata only; `ARCHITECTURE.md:129` also speaks of the subscription itself). `List`, `InsertPublish`
and `PutPublish` cut a tick at the calls other processes can observe, `InsertFails` and `PutFails` cover
calls that did nothing and calls whose answer was lost; `Crash` and `Start` are a restart, which finds the
newest row's time and no set. Times are ages up to the period. `heard` and `lost` are history. The
implementation relation is `Log == INSTANCE PublishLog WITH log <- kv`, property `IsLog`.

**RawIngest.** A source is any set of nodes, flushed in any order in batches of `Batch`. The message id of
a batch holds source, length of the body and second; `recent` is the set of sources that have published in
the current second, whose id RAW knows, and `Second` ends it (the same id in a later second is taken not
to happen; the duplicate window is two minutes). RAW has interest retention: without the durable a
message is discarded, its id remembered and the publish answered as usual. `Fetch`, `Take`, `UpsertNode`,
`LocateNode`, `AckRaw` cut consumeRaw at its calls; `UpsertFails`, the faulty disjuncts of `LocateNode`,
`AckRaw`, `Fetch` and `CoordStart` are calls that fail or whose answer is lost. After `Shutdown` (SIGTERM)
every call with the context fails, acks still go out, and `CoordDies` ends the process half a second
later. A geo database is taken to be configured (without one nothing is ever located), and
DeleteLongDead, which removes rows again, belongs to `Maintenance`. `counted` and `lost` are history.

**Vantages.** The workers of a vantage count as one, in the phases of `consume`: *lookup* and *create* are
the two calls of `attach`, *idle* a process whose consume used up its attempts while its heartbeats go on.
`Heartbeat` puts the entry, and a watch that is up is sent it; `updates` keeps one update per vantage,
since a second one would write the same row. `FallSilent` is the bucket's TTL of two hours. `CoordStart`
sends what the bucket holds, `Register` and `EnsureDurable` are the two calls of a heartbeat's handling,
cut where the administrator, the planner and the worker can come between. `filter` is *subject* when it is
the subject the planner publishes to and *below* for `jobs.validator.<v>.>`, which does not match it.
`AdminPost` and `AdminDelete` are the API's requests, which write the same table from another process.
`quiet`, `retired`, `banned` and `misnamed` are history: silent vantages, those deleted in silence, those
added as disabled, those given a kind that is not their role's.

**Maintenance.** Time is days, `Month` the calendar. `MigrateCheck` and `Apply` are the check and the
committed transaction of one file, by processes that may end anywhere (`MigrateEnds`) or run beside each
other; of the bodies only the partitions of `0002` are followed. A tick of the loop ensures the partition
of now + 35 days and at three o'clock goes on to the drop and the deletion; each chore may fail, and the
coordinator may die between them. `AddNode` and `InsertCheck` are what the ingestions do to the same
tables, a result of any day at any time; the aggregate is any that recomputeNode may write. `created`,
`ensured` and `lapsed` are history: when partitions were first and last made, and whether they were once
not made for longer than `Pause`.

## 3. Runs

| Run | Question | Result |
|---|---|---|
| `PipelineChain` | one L1 job per passed L0; does the row agree with the history, whatever is redelivered, lost or crashed; do L2 and validator jobs go only to nodes with a passed L1; does it implement the ledger | holds |
| `PipelineBatch` | is any result lost; does every job settle; does each batch answer what its job asked, whatever is redelivered (the ledger) | holds |
| `PipelineL2` | is L2 without effect on aliveness (`ARCHITECTURE.md:96`) | **violated** |
| `PipelineRf` | do validated nodes get the class `rf` (`ARCHITECTURE.md:97`) | **violated** |
| `LeaseFaults` | what the lease does promise, when there is one writer, and take-over | holds |
| `LeaseRace` | are accidental duplicates kept out (`deploy/k8s/30-coordinator.yaml:7`) | **violated** |
| `Runner` | ports, tunnels, processes, and that calls return | holds |
| `Publish` | is the bucket an append-only log that catches up; are skipped ticks justified; do clients hear of it | holds |
| `Raw` | what becomes of a node the fetcher published; is it located, and once; do messages settle | holds |
| `Vantages` | who gets jobs; do deletions last; do running workers get registered and attached | holds |
| `ValidatorJobs` | does a validator get the jobs published for it (`ARCHITECTURE.md:122`) | **violated** |
| `Maintenance` | can migrations be taken up again; does every result find its partition; is young data kept, and a node in its grace time | holds |

The violations are disagreements between a document and the code, listed under `findings`:

* *PipelineL2*: LatestByVantage takes the newest row of *any* stage, and the aggregate looks for a
  passed L1 in it. Once an L2 (or L0, or VAL) result is newer than the vantage's L1 result, the node
  is "dead", its `last_l1_ok_at` NULL and its class none, though everything passed. In general the newest row from the cloud
  decides, of whatever stage, and nothing else (theorem `NewestCloudRowDecides`).
* *LeaseRace*: two claims read an absent entry before either writes. Nothing makes a leader read again. One writer
  there is in executions that are orderly: no leader late, no read failed, no two claims overlapping (`OrderlySingle`,
  proved). Each of the three is needed: without any one of them TLC finds two leaders.
* *PipelineRf*: a validator's results are stored under the job's stage, VAL; recomputeNode gives the class
  `rf` only for a passed L1 row of an edge vantage, which nobody writes. For the same reason
  NodesForValidation never sees that a node was validated. Neither depends on the run's bounds: no node ever gets
  the class, and every alive node is selected for validation at every tick (theorems `NobodyIsRf`, `ValidatedAgain`).
* *ValidatorJobs*: with every heartbeat the coordinator sets the filter of the validator's durable to
  `jobs.validator.<v>.>`, while the planner publishes to `jobs.validator.<v>`. The worker's own filter is
  right, but lasts only until the next heartbeat is handled, within 30 s.

Some consequences of the code are known from the models and allowed for in the properties, rather than
shown by runs of their own. A coordinator that dies between the INSERT of a result and its recompute
leaves the row as it was until another result of the node arrives, since the redelivered item is a
duplicate (`stale`, `missed` in `Pipeline`; `ARCHITECTURE.md:499` calls a crash in mid-batch safe). A
publisher that dies between row and entry has a successor that takes the row's time for the last
publication and has no set to compare with, so it is silent until the period is over, whatever changes
(`SkipJustified`; `ARCHITECTURE.md:108`). Batches of a source flushed within one second share a message
id, and RAW keeps the first (`lost.duplicate` in `RawIngest`; `fetcher/main.go:139`). A coordinator that dies
between insert and location leaves the node without a location for good, since its redelivery finds it there
(`RowsLocated` says that no fault does so to a second node; `consume.go:66`). A consumeRaw whose EnsureConsumer
fails at its start reads no more until the process ends for another reason (the only escape of `RawSettles`;
`consume.go:33`). A vantage deleted
while its heartbeats go on comes back with the next one (`Registered`). Only a vantage that is new can be added
as disabled: a POST for one that is there leaves its `enabled` as it is (`pg.go:387-390`), so that deletion alone
takes it out, and `JobsWhereWanted` speaks of those added as disabled. A node that dies loses its
`last_l1_ok_at`, so DeleteLongDead falls back to `first_seen` and deletes a node that was alive yesterday
if it was found more than 14 days ago (theorem `DeadNodesForget`; `ARCHITECTURE.md:106` has "dead for 14
days"); what `GraceKept` states is what is left of the grace time. A sing-box may outlive the call it served, whose
slot the next probe gets at once: `ProcessBound` counts the processes of calls whose context is live, where
`ARCHITECTURE.md:422` has a semaphore of processes; those beyond it run until their bodies kill them.

**Bounds.** Pipeline: two nodes, up to three jobs and three executions of jobs, `MaxDeliver` 2 instead
of 3, one fault of any kind. Two deliveries are enough for every overlap the properties speak of (a
slow first delivery and its successor, a batch ingested in part and delivered again); a third repeats
the second. In `PipelineChain` a node begins with L0 and one with L1, in batches of one: of three
jobs, two planned, two are executed, an L0 and the L1 that follows it, or an L1 and the retest, L2 or
validation planned after it, while the jobs of the other node come between; there are two instants, and
a retest is due at the later, so that timestamps may be equal or not. `PipelineBatch` has a job of two
nodes and up to three executions of it, since it is about a batch answered in part; it needs one instant.
Longer chains than these are left to the theorems, whose invariants look one step ahead only. Lease: three
instances (a leader, its successor, a bystander), three faults, TTL 4 = RenewGap 2 + Lag 1 + 1, the
tightest timing that keeps the code's inequality (30 s against 10 s + 3 s). Runner: three probes, one
slot and two ports, so that bodies outlive calls, ports run out and are used again. Publisher: two nodes
and a percentage of 60, so that one of two may change unnoticed and both may not; a period of two
minutes; three versions for a channel of one, so that events are dropped; two faults, so that a retry
or a restart can fail too. `CatchesUp` speaks only of states with a version left beside the one the loop is about
to take, so that running out of them is no excuse: the third version is what the bucket catches up with after
an old list or a row without entry. Raw ingestion: up to three nodes in batches of two, so that a source fills a
batch and a half, and a fetch of both messages; two deliveries and two faults, so that a message comes again
after any fault or merely because it was slow, and a process that gave up reading may die and be replaced. One pass and one source suffice, since each redelivery
finds its nodes a second time just as another source or pass does. Vantages: a validator and a tester, one
fault and two requests of the administrator, enough to add a vantage wrongly and delete it, or to delete
and re-add it, around a restart. Maintenance: months of three and four days in place of 28 to 31, with
`Ahead` 5, `Keep` 4, `Grace` 2 and `Pause` 2, which stand to each other and to the months as 35, 30, 14 and
24 do (a pause spans no month, `Ahead` spans one, both together not two, as `CalendarAssumption` has it),
over parts of five months; two migrators; one node. Every theorem of section 5 holds without these
bounds.

**Deadlock** is checked in `Vantages` and `Maintenance`, which go on for ever. In the others it is not: the
bounds on jobs, time and faults end every behaviour, a process whose calls have all returned has nothing
to do, and the coordinators may all stop; `Publisher` runs for ever, but its insert waits when the
versions are used up; `RawIngest` stops when the passes are over and RAW is empty.

## 4. Fairness

Weak fairness, but for one action of `Vantages`. `Pipeline`: running workers and a running coordinator continue,
AckWait timers run out, a ready message is fetched by some worker (`consume` polls in a loop), and the
Deployment restarts a dead coordinator (`restartPolicy` Always). None on faults, on planning or on the clock.
`Lease`: time passes, tickers fire, a claim's context ends it. `ProbeRunner`: goroutines are scheduled, timers
fire, and a blocked semaphore or channel is fair (Go's are FIFO); a body in a hung system call takes no step.
`Publisher`: minutes pass, a dead coordinator is restarted, publishLoop goes on, and so do the watch and the
writer of a connected client; connecting is never required. `RawIngest`: AckWait timers run out, a process that
is down is started, one that was told to stop ends, and consumeRaw goes on. The fetcher is not fair: a pass may
never come. A process whose consumeRaw gave up at its start need not end
either: `RawSettles` promises nothing if it stays for ever, and everything if it does not. `Vantages`:
a dead coordinator is restarted, a worker that runs sends its heartbeats, makes its durable and takes jobs, and
watchVantages goes on. `Register` is strongly fair in each vantage: the channel of the watch is a queue, so that
the heartbeats of one vantage do not keep it from those of another, which it would be enabled for only now and
then. Nothing is assumed of the administrator, of faults, of the planner or of the start of workers.
`Maintenance` states safety only: its loop promises nothing by a deadline but what `Pause` says, and that is a
premise of `ResultsFit`.

## 5. Proofs

| Theorem | Says | Inductive invariant |
|---|---|---|
| `TimelyLease`, `SoleLeader` (`LeaseProofs`) | the entry of a timely leader is unexpired; a sole leader stays so | the entry is at most `since + Lag` old for every timely leader |
| `PortIsExclusive`, `TunnelIsOwn`, `PortsAreConserved` (`ProbeRunnerProofs`) | the port properties for any number of probes and ports | `PortInv`: which port a body holds in each phase, that a sing-box has its body's port, that held ports are distinct and not free |
| `ProcessesBounded` (`ProbeRunnerProofs`) | processes of live calls stay within the semaphore | `SemInv`: the holders are finitely many, at most `Concurrency`, and a live process belongs to one; `Probe` may be infinite |
| `OneWriterWhenOrderly` (`LeaseProofs`) | one writer at a time in orderly executions (`OrderlySingle`) | `LedAlone`: every leader is sole, that is, holds the entry and nobody else leads or claims; with it and the age of the entry, a claim that is alone finds no leader |
| `TypeCorrect` (`PipelineProofs`) | the types, with MaxDeliver's bound on deliveries | `TypeInv`: TypeOK and the phases in which counters may still grow |
| `NothingLost` (`PipelineLossProofs`) | a job is acked only when all its results are accounted for | `LossInv`: a published delivery covers the job's nodes with its own batch or an earlier one under its id, an acked batch is settled item by item, the coordinator's batch is settled but for what it still has to do |
| `RowsAreFresh`, `OneFollowUp` (`PipelineProofs`) | a row agrees with its history; one L1 job for each passed L0 | `FollowInv`: a row that is not fresh, or a pass without job, is the one at hand, or a fault was counted; causes are in `checks` and the row at hand is no cause yet |
| `PipelineIsLedger` (`PipelineLossProofs`) | the pipeline implements `JobLedger` | `LedgerInv`: the invariants above, and that results fit the job that asked for them, in stage, vantage and nodes, while they are collected (`OutFits`), in RESULTS (`InboxFits`) and in the coordinator's hands (`TodoFits`) |
| `LedgerEvidence`, `PipelineEvidence` (`PipelineLossProofs`) | keys are recorded once, and behind every row stands an answered, earned job | on the ledger alone, four clauses on asked, answered and recorded; the pipeline inherits it |
| `NobodyIsRf`, `NewestCloudRowDecides`, `ValidatedAgain` (`PipelineLossProofs`) | what recomputeNode and NodesForValidation can make of the rows there are | `RowsCloud` in `LedgerInv`: rows that are not of stage VAL are of the cloud |
| `LateResultIgnored`, `OrderDoesNotMatter` (`PipelineProofs`) | late results change nothing; a computed row is a function of the history | `FollowInv`, and lemmas about `LatestByVantage` for every history |
| `NobodyIsForgotten` (`PipelineProofs`) | the queries for L0 and L1 leave no node out for ever | the types and that `checks` is finite; `BackoffBounded`, `RestBounded` for every count of failures |
| `SkipsAreJustified` (`PublisherProofs`) | a tick is skipped only inside the period, and without faults only when the newest entry is close | `SkipInv`: the loop's last publication is no younger than the newest row, and before any fault is the newest entry |
| `EntriesHaveRows`, `PublisherIsLog` (`PublisherProofs`) | entry and row agree; the bucket implements `PublishLog` | `PubInv`: the version in flight is the table's newest, above every entry, and its row holds the list in flight |
| `ClientsAreToldInOrder` (`PublisherProofs`) | a client is told what its watch read, or it had no room, once and in order: the safety half of `ClientHears` | itself, with versions that rise along the bucket |
| `NothingUnaccounted`, `LocatedAtOnce`, `RowsAreLocated` (`RawIngestProofs`) | published nodes are accounted for; locations are written once, and each fault costs at most one node its own | `RawInv`: an acked message's nodes are done with, so are those of the message at hand that are not to do; what was sent of a source is done with or waits; the node being located is a new row, and those without a location are finitely many |
| `ProbesEarned` (`PipelineProofs`) | costly jobs only for nodes with a passed L1 | `PlanInv`: alive rows, the planner's nodes and the jobs' nodes have a passed L1 in `checks`, which only grows |
| `MigrationsAlwaysResume` (`MaintenanceProofs`) | what has taken effect is what is recorded, in order | `MigrInv`: whoever is at a file finds its predecessors applied |
| `ResultsAlwaysFit`, `RawIsKept` (`MaintenanceProofs`) | a result finds its partition, no month with a young day is dropped | `FitInv`: there is a partition for every month from that of the oldest day that counts to that of `ensured + Ahead` |
| `DeadNodesForget`, `GraceIsKept` (`MaintenanceProofs`) | a dead node's time of a passed L1 is gone; no node is deleted in its grace time | `DeadForgets` with the types |
| `RetiredStaysDeleted` (`VantagesProofs`) | a deletion in silence lasts over restarts | `RetiredInv`: a silent vantage has no entry, and a retired one no update on its way either |
| `JobsOnlyWhereWanted` (`VantagesProofs`) | no job for a vantage added as disabled, nor for a tester nobody called edge | `WantedInv`: banned vantages are disabled and not in the planner's list; edge rows and listed vantages are validators or misnamed |

Hardly any is inductive as the runs state it: NoResultLost says nothing of a job still leased,
CostlyProbesEarned nothing of what the planner holds between query and publish, OneL1PerPass nothing of the row
the coordinator is about to queue a job for, EntryHasRow nothing of the version in flight, IsLedger nothing of
the results a worker still collects, OrderlySingle nothing of the entry a claim has read, and CountedAccounted
nothing of the nodes sent but not yet counted, or taken out of a message but not yet acked, ResultsFit nothing
of the months ahead that the days to come will need, RetiredStay nothing of the updates a watch has been sent,
and JobsWhereWanted nothing of the planner's list. The assumptions are the modules' `ASSUME`s: constants of the
right sort, `RenewGap + Lag < TTL` (code: 10 s + 3 s < 30 s), model values outside the sets they are told apart
from. `CalendarAssumption` holds of the real calendar with 35 days ahead, 30 kept and a pause of 24: 24 < 28,
the shortest month; 35 > 31, the longest; 24 + 35 = 59, the shortest two.

The refinement is used, not only shown: what `JobLedger` implies (`LedgerEvidence`) is proved of an arbitrary
behaviour of the ledger, and holds of the pipeline because it is one. Some theorems state no property of a run, but
what follows from one (`LedgerEvidence`, `PipelineEvidence`, `OrderDoesNotMatter`), why a finding does not depend on
its run's bounds (`NobodyIsRf`, `NewestCloudRowDecides`, `ValidatedAgain`), or what the operators of `CheckHistory`
do for every history (`LateResultIgnored`, `NobodyIsForgotten`).

Every safety property and every type invariant of the passing runs is proved. Only model-checked are the
liveness properties `JobSettles`, `TakeOver`, `CallReturns`, `PortReturns`, `CatchesUp`, `ClientHears`,
`RawSettles`, `Registered` and `AttachEnds` (beyond the prover).

## 6. Plan

Done, in this order: `CheckHistory`, `Pipeline`, `Lease`, `ProbeRunner`, their proofs, `Publisher` and its
refinement proof, `RawIngest` and its proofs, `Vantages` and `Maintenance` with theirs, `JobLedger` and the
proof that the pipeline implements it. What is left is small beside the cost of a model: the score as operators
checked against its reference, and the API's requests about sources together with the fetcher's pass over them.

## 7. Not modelled

The parser: it turns strings into records and back, and what matters of it is which strings, so that a model of
its control would be no shorter and say nothing; its golden tests cover it. The score: a formula over a row. The
geo cache, metrics and logging: no state that another part reads. The web page, and the API's read-only queries
and its requests about sources: single statements. MaxBytes of the streams, because a stream that discards makes
every promise of the pipeline void and none of the code reacts to it; the DLQ, which nothing reads. That a due
node is planned in the end: the queries select it sooner or later (`NobodyIsForgotten`), but their order and
LIMIT do not promise it a place. sing-box, curl, Postgres and NATS beyond what the code relies on.
`PROJECT.json` gives the reason for each component.
