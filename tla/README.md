# A TLA+ verification of jasil

jasil is a Python library that gives a web application durable background jobs,
an event outbox, pub/sub, object storage, an audit trail and similar services, on
top of the application's own SQL database and, optionally, Redis and S3. Almost
nothing in it happens in one process: workers, heartbeats, reapers, relayers,
sweeps and retention passes of many processes meet in a handful of tables. This
directory models the parts whose correctness depends on how those steps
interleave, model-checks them with TLC and proves the central results with TLAPS.

Contents: [the system](#1-the-system) · [modules and code](#2-modules-and-the-code-they-model) ·
[runs](#3-runs) · [fairness](#4-fairness) · [proofs](#5-proofs) ·
[disagreements](#6-where-the-code-and-its-documents-disagree) ·
[not modelled](#7-what-is-not-modelled) · [plan](#8-plan) · [how to run](#9-running-it)

## 1. The system

Paths are below `src/jasil/`. "Hard" names what makes a component difficult to
test; the full list, with lines, is `hazards` in `PROJECT.json`.

| component | state | operations | hard | correct when |
|---|---|---|---|---|
| job rows (`jobs/crud.py`, `jobs/models.py`) | `processing_jobs`: status, owner, lease, attempts, deferrals, continuations, budget offset | enqueue, claim, renew, release, finish, fail, defer, continue, reclaim, replay, prune | claims by compare-and-set after a stale select; a replay restarts the numbers that fence claims | a job runs at most its budget; a superseded worker changes nothing |
| attempt history (`jobs/_attempts.py`, `jobs/crud.py`) | `job_attempts` | open on claim, close on outcome or expiry, late outcomes | an outcome written after the job moved on | one open attempt exactly while claimed; late outcomes classified rightly |
| runner (`jobs/runner.py`) | the batch of one worker | claim, confirm, run, record, drain | every call can fail between two others | no job is lost, or counted twice |
| lease keeper, heartbeat, worker loop (`jobs/heartbeat.py`, `jobs/worker.py`) | held, lost and abandoned claims, shared by two threads | hold, begin, finalize, forget, renew, abandon, release | decides under a lock and writes after it | handlers whose claim is gone are told; waiting jobs are given back unrun |
| reaper (`jobs/service.py`, `jobs/crud.py`) | none | select and reclaim expired leases | races the renewals it overtakes | jobs of dead workers run again |
| dead-letter callbacks (`jobs/dead_letter.py`) | delivery columns of `processing_jobs` | sweep, claim, call, record, release, defer | callbacks outliving their claim; replays meanwhile | at most MAX_DELIVERIES calls; nobody is marked notified in error; no letter forgotten |
| publisher and outbox (`publisher.py`, `jobs/outbox.py`) | `outbox_events`, event log | stage one event or a batch, compare a reused id | concurrent inserts of one id; snapshots | a committed change's events are all delivered, an aborted one's none |
| relay (`jobs/relay.py`) | none | select, fan out, stamp, commit | overlap without SKIP LOCKED; a crash before commit | one job per publication and subscriber |
| after-commit callbacks (`_core/after_commit.py`) | list on the session | hold, hand up, drop, dispatch | savepoints; listeners that raise; callbacks that commit | exactly the durable events, once, in order |
| worker process, registry (`jobs/service.py`, `jobs/worker.py`, `jobs/_worker_registry.py`) | the attached worker, its loop and heartbeat threads, `job_workers` | start, stop, beat, record, prune | stops that time out; a handler that stops its own worker; a beat against a prune | one loop claims; a running handler keeps its heartbeat; rows tell the truth |
| scheduling, reconciliation (`jobs/service.py`, `jobs/reconciliation.py`) | none | periodic tasks under a cluster lock, comparison with declared jobs | overlap when the lock is optional | in the modules of what is scheduled |
| event bus and log (`backends/events_*.py`, `event_log/`) | handlers; a Redis stream and its group; `event_log` | publish, start, stop, poll, dispatch, acknowledge, record | overlapping consumers, failed acknowledgements, a flushed server, reused ids | handled at most once; what was read is handled; a row says what happened to its own event |
| realtime (`backends/realtime_*.py`) | a subscriber thread and its connection | notify, start, stop, receive, reconnect | a subscription not confirmed yet; connections that go silent | hints after `start` are heard; one subscriber |
| state store (`backends/state_*.py`) | keyed values with expiry | get, set, set-if-absent, increment, tiered lockout, delete by prefix | lazy expiry in one backend, server expiry in the other | both backends answer alike; a lockout lasts |
| object storage (`backends/storage_*.py`) | files or S3 objects, upload sessions | save, stream, create, read, list, delete, resumable uploads, cleanup | several files per object; lost answers; death between two calls | an object is whole or absent, what is gone stays gone |
| cluster locks (`backends/lock_*.py`) | advisory locks | acquire, release | lost connections | passes tolerate losing it |
| container, capabilities (`container.py`, `capabilities.py`, `profile.py`, `runtime.py`, `lifecycle.py`) | platforms, the published one | check, report, build, publish, close, shut down | a build that fails half-way; two platforms over one client | shared where the topology needs it; closed exactly at the end |
| reloading providers (`_reloading.py`) | the newest outcome, read numbers | resolve, rebuild, fall back | reads of the settings that return out of order | settings no older than the call |
| Redis clients (`_core/redis_clients.py`) | shared connections by count | acquire, release | release against acquire | closed exactly at zero |
| audit trail, checkpoints, maintenance (`audit/`) | `jasil_audit_log`, partitions, checkpoints, a write-once sink | record, seal, publish, verify, prune | rows that commit late; a crash between sink and database; changed settings | an honest log verifies; nothing unsealed is pruned |
| retention (`retention.py`, `_core/pruning.py`) | none | bounded delete passes | deletes rows others still compare with | only finished, old rows go |
| migrations (`migrations/`) | schema, recorded revision, a run lock | adopt, upgrade, check | concurrent upgrades; a run that dies in an index build; tables of the host | the recorded head is really there; a run resumes |
| mail, geocoding, admin, correlation | none of interest | I/O, validation, read-only queries | | |

How they meet. A producer's transaction stages events (outbox). A relayer turns
them into `processing_jobs` rows. Workers claim rows in batches and run handlers,
while a heartbeat thread of the same process renews the leases. The reaper, which
any process may run, takes rows back whose lease ran out. A job that is out of
budget becomes a dead letter, which a sweep reports through a callback and an
operator may replay. Retention deletes what is finished and old. All this passes
through the database; the only in-memory sharing is between the runner and the
heartbeat thread (`LeaseKeeper`, under one lock) and within one session. Around it,
every process builds a platform of capabilities (bus, hints, state, storage, locks,
mail), shares Redis clients between them, runs its own threads, and closes all of it
on shutdown; the audit trail and the migrations have their own tables and locks.

## 2. Modules and the code they model

`map` in `PROJECT.json` gives the lines of every definition. Definitions that are
a plausible bug (such as `FailedOneMore`) are not part of the model: each is a
mutant, listed under `mutants`, that the property named there must catch; a property
that is a conjunction has one for each of its parts that a single change can break.

### JobRow, JobAttempts — the writes

`JobRow` is one row of `processing_jobs` and one operator per UPDATE of
`jobs/crud.py`; `JobAttempts` is the same for `job_attempts`. Times are reduced to
what guards tell apart: `due` (is `available_at` past) and `expired` (is the lease
past). Attempt numbers stay numbers, because they fence claims and because
`attempts - deferrals - budget_offset` is the failure budget.

### JobQueue — rows, history, runner, heartbeat, reaper

One action is one database transaction or one critical section of `LeaseKeeper`.

| variable | code |
|---|---|
| `jobs`, `history` | the two tables |
| `pc`, `selected`, `batch`, `turn`, `out` | the runner thread: where it is, ids selected, claims to run, the current one, its handler's result |
| `held`, `lost`, `abandoned` | `LeaseKeeper` |
| `beat` | the heartbeat thread between deciding and writing |
| `reaping` | ids the reaper selected |

Runner: `ClaimSelect`, `ClaimUpdate`, `ReadBack` (`claim_jobs`), `BeginFirst`,
`StillHeld`, `BeginNext` (`run_once`, `_still_held`), `HandlerReturn`,
`Write...`, `FailInstead` (outcome writes; running out of deferrals or
continuations fails the job in a second transaction), `Finish`, `EndBatch`,
`StopSeen`, `Drain`, `ReleaseWaiting`; `...Fail` is the same call raising.
Heartbeat: `Renew`, `RenewNothing`, `RenewFail`, `Abandon`, `CloseAbandoned`,
`BeatRelease`. Reaper: `ReapSelect`, `ReapUpdate`, `ReapFail`. Others: `Enqueue`,
`BecomeDue`, `LeaseExpire`, `Replay`, `Prune`, `Crash`.

`gen` in a claim and `ran` in an attempt are history variables: `gen` names one
claim for ever, which `(worker, attempt)` does not once a replay restarts
`attempts`. No guard reads them.

Abstracted: `record_attempts` is on; the best-effort note that an attempt started
is part of `Begin`; jobs of a batch run in any order; delays are "not due yet"; a
commit that raises although it was applied is not modelled; the reaper locks no
rows, which allows more interleavings than SKIP LOCKED would.

### JobLifecycle — the abstract specification

What a client may rely on, one job at a time: status, failures spent, deferrals,
continuations. No workers, leases or attempts. `JobQueue` implements it under the
mapping `View` (spent = attempts − deferrals − offset), checked as
`ImplementsLifecycle` and proved as `QueueImplementsLifecycle`.

### LeaseFence — the same lease in discrete time

One handler, its heartbeat and the reaper with explicit clocks: `leaseAge`,
`silence`, and the phase of a beat (waiting, renewing, writing telemetry), each
phase taking up to `Interval`, `Latency`, `Telemetry`. The assumption
`Lease >= 3 * Interval` is the validator of `JobSettings`. `Horizon` caps the ages;
the model ends there. JobQueue says what happens when a lease runs out, LeaseFence
says when it can.

### DeadLetters — delivery callbacks

`letters` are the dead-letter columns, `pc`/`delivery` each sweeper's current
delivery, `registered` whether its process has the callback. The select and the
compare-and-set of `claim_dead_letter_callbacks` are separate steps, so a claim may
be charged to a later dead letter than the one that was selected; its outcome is
then never recorded, because the outcome write tests `completed_at`. `life`
stands for `completed_at`, assumed to differ between two dead letters of one job (a
database that keeps whole seconds could merge two of one second). `runs`,
`returned`, `late` are history variables. `MaxDeliveries` is `MAX_DELIVERIES`;
`MaxLives` bounds replays.

### Outbox — staging and relaying

A producer inserts its `plan` row by row in one transaction, on a database that
either has SKIP LOCKED or reads from snapshots (`database`, fixed). An insert waits
for another session's uncommitted row of the same id (`Contended`); an insert that
was ignored is followed by a read-back (`pc = "reading"`) that is compared
(`SameEvent`) and accepted or refused. A relayer selects unrelayed rows, then fans
out, stamps and commits in one step, or fails. `made` and `pruned` are history
variables. `publish()` is a batch of one. The order of rows inside a
batch is arbitrary. `Known` is each process's subscriber registry: a relayer that
lacks a registration stamps the row and makes no job for it, as documented, so
delivery is stated for subscribers all relayers know (`Everywhere`). Retention does
not delete a row a pass still has in its batch: no pass is as old as the retention
window. `MaxRows` is the relay's batch limit.

### AfterCommit — the best-effort route

The list `run_after_commit` keeps on a session, against a ghost of the database
(`written`, `durable`) that keeps or undoes writes made at the same places.
SQLAlchemy's events (when `after_commit` fires, which transaction ends) and the
database are external. Subtransactions of a flush end with no effect on the list
and are left out.

### LocalStorage, S3Storage — one object under concurrent calls

Both take the calls on one address, system call by system call or request by
request. `LocalStorage` has the files of the object in its three layouts (`disk`),
each writer's temporary file (`temp`), the staging directory of a resumable upload
(`session`) and each client's place in its call (`pc`). `S3Storage` has the object,
the open multipart uploads and the manifest (`bucket`); a request may fail, or be
performed and lose its answer. Bytes are short sequences of chunks. `Plans` are the
calls checked together; `history` and `trail` are ghosts.

### Audit — log, checkpoints, sink, retention

Transactions stage rows that become visible when they commit, perhaps after the grace
of their window. A maintenance run, under a lock it may lose, records a change of the
retention, creates partitions, seals each due window in the sink and then in the
database, and prunes. A hash stands for what was hashed, so signatures are perfect.
`AuditSettings` are the settings of a run as far as they matter here (`Key` are the
signing keys). A `Story` is a deployment with what happens to it: how the log is stored,
how far the clock of the database is behind, the settings that follow one another, and
how many runs, failures, crashes and lost locks there are. `Stories` are those of an
instance. A verification runs beside all of it.

### Deployment, Platform — from settings to a running platform

`Deployment` holds pure operators: how a URI resolves, what the topology is, the
consistency rules of `capabilities.py`, the report, and what each `_build_...` of
`container.py` makes of a URI. `Platform` builds capability by capability, because a
second host thread may acquire or release the same client in between, then publishes,
closes and shuts down. A URI keeps whether its scheme is written literally, because
rules and builders compare it differently.

### Reloading — providers whose settings are edited

Every call takes a read number, asks the source outside the lock, and applies the
answer under it. The settings are numbered by the host's edits.

### EventStream, Realtime, StateStore — the Redis backends

`EventStream`: one bus object per process whose consumer thread is started and
stopped, the stream and its group, and the rows of the event log, each of whose
writes may fail. The ghost `outcomes` keeps with which result the handlers of each event
ended. An event that is delivered again under its own id and type may have another result,
and its row then tells the newer one; an event of another type under the same id rewrites
nothing.

`Realtime`: one subscriber with its connection, which may fail or go silent. How long a
connection has been silent is counted in polls that heard nothing. The code reads the clock
after each poll and before it calls the handlers, so a handler that takes as long as the
keepalive would count as silence; the provider asks for short ones
(jasil/providers.py:1172).

`StateStore`: every operation given to the memory and the Redis backend side by side, by
one clock, and, in behaviours of their own, the steps of a prefix delete. The ghost `apart`
has the keys that a refused `incr` gave an expiry of their own in Redis (section 6): one
enters when its value is no integer and the call has an expiry, and leaves as soon as both
backends show the same of it. `BackendsAgree` is about all other keys, and about every
answer that does not involve one of these.

### WorkerProcess — the threads of a job worker and its row

Every start makes an instance: a loop thread and a heartbeat thread. The host's stop
waits and may give up; a handler may stop the worker it runs on. What the loop does
with a job is JobQueue's subject. `registry` is the row of each instance; writing it
may fail.

### Migrations — adopting and upgrading

Processes read the table names and the revision, wait for the lock, and run revisions.
The first five of ten revisions are kept, one of each kind; the later ones repeat
them. On PostgreSQL the changes of a revision are one transaction and each concurrent
index build is two steps, in which the index is there and not valid; on MySQL each
statement commits. `misread` and `restamped` are ghosts, see section 6. The commit of
an adoption follows the release of the lock at once and is one step with it here, so
that the second of two simultaneous adoptions stamps the same revision again; in the
code it may instead fail on the version table's key.

### HostProcess — the composition

What a process does with its capabilities is independent between them, so a behaviour
of `HostProcess` follows one, named by `part`, while the variables of the others stay
as they began. The parts are Platform itself (extended) and instances of Reloading,
EventStream, AfterCommit, Realtime, StateStore, WorkerProcess and Migrations.
`HostAssumption` is what their constants must satisfy. `MCPlatform` extends it with the
values of the `Platform` run.

## 3. Runs

| run | instance | shows |
|---|---|---|
| `JobQueue_replay` | 2 symmetric workers, 1 job with 1 attempt, 1 deferral, 1 continuation, 2 claims, replayable | `OverlapOnlyAfterExpiry`, `RunnerFenced`, `HistoryAgrees`, `BudgetOK`, `ImplementsLifecycle` |
| `JobQueue_batch` | 1 worker, batches of 2 jobs | `HeartbeatFenced` |
| `JobQueue_live` | an immortal and a mortal worker, SKIP LOCKED | `EveryJobSettles`, `LateRunIsSuperseded`, `NotClaimedEarly` |
| `LeaseFence_slow` | lease 19, interval 4, call 1, telemetry 1 | `OverrunBounded`, `TwoMissesTolerated` |
| `DeadLetters` | 2 sweepers, one of which may crash, 3 deliveries, 2 dead letters | `DeliveriesFenced`, `DeliveriesBounded`, `NotifiedTruthfully`, `EveryLetterDealtWith` |
| `Outbox` | 2 producers, 2 ids with conflicting contents, 2 relayers, both kinds of database | `FannedOutOnce`, `IdsFaithful`, `EveryEventDelivered` |
| `Storage` | 3 clients, one mortal, 8 sets of calls on disk in 3 layouts and 5 on S3, 1 fault, parts 1 to 3, uploads of at most 2 chunks | `WholeObjects`, `LooksAreCurrent`, `LastWriteStands`, `SessionsCloseForGood`, `NothingLeftBehind` |
| `Audit` | 2 transactions, 8 deployments, 2 maintenance runs, windows of half a day or a day over two days | `HonestLogVerifies`, `NoRowLost`, `SinkAgrees` |
| `Platform`: platforms | over a thousand settings; 2 hosts, 4 clients, 1 fault | `ClosedWhenDone`, `BuiltAsChecked` |
| `Platform`: reloading | 2 callers, 3 reads, 3 sequences of 3 edits | `SettingsApply` |
| `Platform`: bus | 2 processes, 2 threads, 3 sequences of events, symmetric processes, stream of 2, 2 troubles | `HandledOnceRead`, `RowsTellTheTruth`, `OneLoopEach`, `OthersKept` |
| `Platform`: held events | 3 events, 5 transactions, 3 deep | `DispatchedAsCommitted` |
| `Platform`: hints | 2 threads, 2 sequences of hints, 2 losses | `SubscriptionSound`, `OneLoopEach` |
| `Platform`: state | 2 symmetric keys and a gate of 2 tiers, 3 seconds in halves, values up to 2 | `StateKept`, `LockoutHolds` |
| `Platform`: worker | 2 instances, clock 2, 1 lost write | `BeatsUntilDone`, `OneLoopEach`, `OthersKept` |
| `Platform`: migrations | 2 processes, 9 databases, both dialects, 2 interruptions | `CurrentIsBuilt`, `RunsResume`, `OthersKept` |
| `JobQueue_replay_release`, `Storage_unreadable`, `Reloading_revoked` | | violations, see [section 6](#6-where-the-code-and-its-documents-disagree) |

Several of these are conjunctions of what belongs together; each part is defined, with
its own comment, in the module of the component.

| property | is the conjunction of |
|---|---|
| `HeartbeatFenced` | `BeatFenced`, `ReleasedNeverRan`, `RenewalsAreForWork` |
| `DeliveriesFenced` | `TokenUnique`, `OverlapOnlyWhenLate` |
| `FannedOutOnce` | `NothingLost`, `NothingInvented`, `OncePerPublication` |
| `IdsFaithful` | `IdNamesOneEvent`, `ReuseAccepted` |
| `WholeObjects` | `OnlyWholeObjects` and `UploadsWithinLimit` on disk, `S3WholeObjects` |
| `LooksAreCurrent` | `ReadsAreCurrent`, `ListedOnce`, `CommittedReadable`, all on disk |
| `LastWriteStands` | `GoneStaysGone` on disk, `CreatedStays` on S3 |
| `SessionsCloseForGood` | `ClosedStaysClosed` on disk, `S3ClosedStaysClosed` |
| `NothingLeftBehind` | `RefusedLeavesNothing` on disk, `UploadsFindable` on S3 |
| `NoRowLost` | `SealedBeforePruned`, `PruneAccounted`, `FloorRespected`, `PartitionsAhead` |
| `SinkAgrees` | `SinkFirst`, `ConflictExplained` |
| `ClosedWhenDone` | `ClientsOpenWhileHeld`, `ReferencesHeld`, `NoClientStranded`, `UnpublishedIsClosed` |
| `BuiltAsChecked` | `SharedWhereNeeded`, `BuiltAsReported` |
| `SettingsApply` | `SettingsNotStale`, `RefusedNotServed` |
| `HandledOnceRead` | `HandledAtMostOnce`, `ReadIsHandled` |
| `DispatchedAsCommitted` | `NeverUndone`, `InPublishOrder`, `NothingForgotten` |
| `SubscriptionSound` | `HeardOnceReady`, `SoundNotExpired`, `ClientNotHeldIdle` |
| `StateKept` | `BackendsAgree`, `PrefixDrained` |
| `BeatsUntilDone` | `HandlersKeepHeartbeat`, `StoppedIsQuiet` |
| `OneLoopEach` | `OneConsumer` of the bus, `OneSubscriber` of the hints, `OneClaimer` of the worker |
| `OthersKept` | the steps keep `QueuedIsTerminal` of the bus, `LiveRowsKept` of the registry, `HostTableKept` of the migrations |

Why the bounds are enough. The queue has no step in which three workers, or three
jobs, take part: two workers give every race for a claim, two jobs of one worker
every race between the running and the waiting part of a batch, and a second claim
is what a stale write has to be confused with. One attempt, one deferral and one
continuation are each used up and exceeded within two claims, and a replay restarts
them; that larger budgets are no different is what the proofs of `BudgetOK` and
`ImplementsLifecycle` show. In `JobQueue_live` three claims are never all used, so
`MaxClaims` cuts nothing off. Two dead letters of a job distinguish a stale delivery
from a current one, and three deliveries let one be released, one lapse and one be
the last. Two producers and two relayers give every pairwise race; the second id
makes a batch partly staged. Three levels of nesting give a savepoint with both a
parent and a child.

A storage hazard takes two writers and an observer, or a session with three callers.
In `Audit`, two runs are what one needs to crash between sink and database and the
other to find the copy; two transactions let one commit in time and one late. Either of
two maintainers makes a run, and where a lock may be lost the length of a window changes
meanwhile, so that two runs begin the chain with different windows. In
`Platform`, two hosts give every race for a client; a stream of two entries and three
events trims one; two threads are a consumer and the one a timed-out stop left behind;
the second tier of the gate and a clock that reaches its end let both lockouts end. Two instances
of the worker are the stopped one and its successor. With two migrating processes one
decides while the other runs; the second interruption is the one of the run that
resumes.

Deadlock is checked in `DeadLetters`. The other runs say `CHECK_DEADLOCK FALSE`
because the system may really stop: the queue drains and all workers stop, all
producers have committed, all calls were made, all events were published, or a bound
ends the instance.

## 4. Fairness

Only three runs need it.

`JobQueue_live`: time passes (`BecomeDue`, `LeaseExpire`), the scheduled reaper
selects, a runner outside a handler takes its next step, and the heartbeat notices
a handler over its limit (all weak). Handlers return only for the immortal worker:
those of the other may hang for ever. A database call may fail any finite number of
times, hence strong fairness for the immortal worker's claims and the reaper's
update; the loops of `worker.py` and the scheduler retry for ever.

`DeadLetters`: the sweep is scheduled for ever, callbacks return or raise, and a
steady process does not lose every race (strong fairness of `Select` and `Win`);
subscribers register at startup, so nobody registers for ever. The unsteady process
has no fairness of starting a sweep.

`Outbox`: a relayer that can commit again and again does so at last, and the select,
which takes the oldest rows first, reaches every row (strong, per relayer and
event).

## 5. Proofs

All theorems are proved by TLAPS to the last leaf, for every value of the constants.
The assumptions are the ones named in the modules: limits are natural numbers
(`BudgetAssumption`, `QueueAssumption`, `DeliveryAssumption`), the reserved model values
are outside the sets they extend (`NoWorkerAssumption`), the timing constraint of the
settings (`TimingAssumption`), and `OutboxAssumption` for the shapes of plans and
registries, `AuditAssumption` (a window divides a day, `Nothing` is no settings and no integer) and
`HostAssumption`. The last says that `Unset`, which stands for Python's `None`, is none of
the values it is told from, that sequences are sequences of what they should hold and that
bounds are numbers. `Bounds`, a hypothesis of the theorems about platforms and of those in
EventStreamProofs, is what else those two need of their constants.

**JobQueueProofs.** `TypeCorrect`, `BudgetCorrect`, `QueueImplementsLifecycle`.
`BudgetOK` alone is not inductive: a release subtracts an attempt, and only the
types and the claimed row's own budget show that there is one to subtract. The
invariant is `TypeAndBudget`. The argument goes through rows: `RowStep` lists the
ways a row may change, `StepsAreRowSteps` shows every action changes rows only so,
`RowStepKeepsRowOK` that the budget survives each, and `RowStepsAreMoves` that each
is a move of `JobLifecycle`, which gives the refinement.

Seven more theorems of the same module are about the claims of a job.

- `HistoryAlwaysAgrees` and `RunnerAlwaysFenced` hold with replays, crashes and
  retention, from `FenceInv`: the types and budget (`TypeAndBudget`), the history and
  the row agree (`HistoryAgrees`), a worker does not own what it selected and has not claimed yet
  (`SelectedUnowned`), a worker outside a batch remembers nothing (`AllTidy`),
  and a claim that a runner remembers is the newest one *of that worker* for its job
  (`RemembersNewest`). The last is what makes `(worker, attempt)` a good token although
  a replay starts the numbers again: a newer claim can only be another worker's, whose
  name does not match.
- `OverlapNeedsExpiryOrRelease` holds with replays too: `OverlapOnlyAfterExpiry` can
  fail only where `ReleasedNeverRan` has failed, because nobody but its own runner
  writes a returned outcome, and that one only once (`WritesOnce`, which also says that
  a runner's turn ran).
- `HeartbeatAlwaysFenced`, `OverlapNeedsExpiry` and `LateRunsAreRecorded` need
  `LifeInv`, which follows one claim from its being taken to its last write: attempt
  numbers grow along a history (`AttemptsGrow`), claims that wait in either thread
  have not run (`WaitingNeverRan`), what runs or was given up on has (`RunningRan`,
  `AbandonedRan`), the claims the heartbeat holds were once the runner's
  (`TakenFromRunner`, `BeatOpened`, `FreshlyClaimed`), and a lease is renewed only for
  them (`RenewalsAreForWork`). They assume `Replayable = {}`. The assumption is needed:
  after a replay numbers start again, the heartbeat's postponed release can match a
  newer claim of its own worker, and `ReleasedNeverRan` is false; that is the
  counterexample of `JobQueue_replay_release` (§6). It takes a batch of two; the
  `JobQueue_replay` run, whose batches hold one job, has no such release, and
  `OverlapOnlyAfterExpiry` holds there with replays. `LateRunsAreRecorded` also assumes
  `Prunable = {}`, since deleting a row takes away the numbers that are compared.
- `NeverClaimedEarly` assumes `SkipLocked = TRUE`; without it a stale selection does
  claim early (§6). Its invariant is `SelectedDue`.

**LeaseFenceProofs.** `OverrunIsBounded`: a handler outlives its lease unsignalled
by less than two calls and one registry write. `FencedWhenInstant`: the documented
promise holds if calls take no time. `TwoMissesToleratedIfPadded`: a lease of three
whole beats and one call survives two misses; the accepted minimum of three
intervals does not, when calls are slow. The invariants tie `leaseAge` to `silence`
(`FenceInv` of that module) and to the number of misses and the phase (`MissInv`).

**DeadLettersProofs.** `DeliveriesAreFenced`, from `TokensAreUnique` and
`OverlapNeedsLapse`, and `NotificationsAreTruthful`. A delivery count is a token only because a delivery that is
still current never exceeds the row's count (`CountCoversTokens`), the newest one
holds an unexpired claim unless it is late (`ClaimHolds`), and any older one is late
(`OlderIsLate`): so the only delivery that can take the count back is the newest.
`DeliveriesAreBounded` counts: the callbacks started for a dead letter and the
deliveries that may still start one (`Pending`) never exceed what the row has charged
(`ChargesBounded`), and the row charges at most `MaxDeliveries` (`CountBounded`). A
delivery that gives its count back leaves `Pending` in the same step, and a late one
stays in it until it has called or given up.

**OutboxProofs.** `FanOutIsExact`, from `NoEventIsLost`, `NoEventIsInvented` and
`PublishedOnce`, and `IdsStandForEvents`, from `IdsAreFaithful` and `ReuseIsAccepted`, for any number of producers, ids, contents,
relayers (with any registries) and subscribers, with and without SKIP LOCKED or
snapshots. `ProducerInv` says what a transaction holds and that no two hold the same
id, that what it staged or read is still what the table says unless retention
deleted it, and the same of what committed. `RelayInv` says that a stamped row has
its jobs, that a batch consists of stored rows, and that a job is made at most once
per row.

**EventStreamProofs.** `ReadOnceHandledOnce`, `LogTellsTheTruth`, `ConsumerIsAttached`
and `QueuedRowsAreKept`, for any number of processes and events, any cap of the stream
and any batch size. `Behind(n)` says that entry `n` was delivered, trimmed or flushed; no step
undoes that, so an entry that was read is not read again. `DeliveryInv` adds that entries are numbered in
order (`Numbered`), that a thread watches the stop event made for it (`Watching`), and
that what a thread carries, has handled or left pending is `Behind` and carried by one
thread only (`Delivered`). `OutcomeKnown` carries the
result of the handlers to the row that is written after them, so that a row cannot say
completed of handlers that failed.

**PlatformProofs, HostProcessProofs.** Fourteen theorems about the specification of the
composed process, `HostSpec`. Each argument has the same shape: the capability's invariant
holds when a process starts, whichever part it follows; a step of another part leaves its
variables alone; and a step of its own preserves it. PlatformProofs has what a process
builds and keeps in memory (platforms, settings, state, held events), HostProcessProofs its
threads (worker, bus, hints) and its migrations.

`PlatformsCloseClean` and `PlatformsBuildAsChecked` hold for any finite
set of hosts and any settings, from `PlatformInv`. The count of a shared client is the
number of references held to it plus those being given back (`ReferencesHeld`), which
survives builds that fail half way and closes that overlap because references are
held only while a platform is built or in use and are given back once (`PhaseSound`).
`BuildSound` says that a live platform has wired, in order, the backends of settings
that were accepted, `WiringSound` that a reference belongs to a capability wired before
and a wired client to a reference, `PoolSound` that the client of a key is open, its
own, and nobody's to close, `ShutdownSound` and `UnpublishedIsClosed` how far a shutdown
has come, `NoClientStranded` that an open client has a holder or a closer.
`Bounds`: the hosts are finite, `Unset` is no host and no scheme,
`Requests` are sequences of offered settings, and `Server` has every Redis server that
accepted settings name.

The other capabilities:

- `HeartbeatLastsAsLongAsWork`, for any number of instances. `WorkInv` says which loops,
  heartbeats and rows an instance can have together (`Together`), that only the current
  instance may claim (`Claims`), and that the cutoff of a prune is in the past.
- `EntriesAreHandledOnce` and `EventLogTellsTheTruth` carry the theorems of
  EventStreamProofs over: a process either follows its bus, and then satisfies that
  module's specification, or leaves the bus as it began.
- `SubscriptionIsSound`, from `HintInv`: what `start` reported is the attached thread,
  listening on a sound connection (`ReportSound`); what was published since is heard or in
  its inbox (`ExpectSound`); a sound connection is pinged before its keepalive ends
  (`LoopSound`); and a thread watches a stop event of its own (`ThreadSound`), without which
  an abandoned subscriber would go on beside its successor.
- `OneLoopOfEachKind` puts together what those say of the consumer, the subscriber and the
  job loop.
- `SettingsAlwaysApply`, from `ReloadInv`. Read numbers do not order the answers of the
  source (§6), yet a call that began later saw no older settings when it began
  (`ReadOrder`), and what is applied is no older than what any call up to the applied read
  began with (`CaughtUp`); so a call that was overtaken may go by the outcome it finds.
- `StateIsKept` and `LockoutsHold`, from `StateInv`: the two backends agree on what is
  visible of every key that no refused `incr` has set apart (`Agreed`), although one drops
  what has expired when it is looked at or swept and the other at once, and only keys kept
  as values side by side are ever apart (`NoneApart`); the gate's key outlives the second it names, which is the
  one callers were told (`GateSound`); and what a scan of a prefix found and nobody wrote
  since is deleted or still to be (`DrainSound`).
- `CommittedIsDispatched`, from `HeldInv`. The callbacks a session holds and the writes of
  its open transactions are of the same events, level by level and in the same order
  (`Placed`), where a savepoint that was released and has not ended yet counts for the level
  below. Every event of a commit was dispatched, waits in one batch behind the earlier
  events of that commit, or belongs to the commit whose end has not come (`Delivered`).
- `CurrentSchemaIsBuilt` and `InterruptedRunsResume`, from `MigrationInv`, which speaks of
  behaviours without a misreading (§6). `TablesSound` says which sets of tables and columns
  a database can have at the recorded revision, `IndexesSound` which indexes may be invalid
  then, `MigratorSound` that the prefix a run chose fits what is recorded meanwhile and how
  far its steps have come, `Straight` what is true besides as long as no adoption has
  stamped an older revision.
- `OthersAreKept`, an action property, from the invariants of worker and migrations and
  `QueuedRowsAreKept` of the bus.

**AuditProofs.** `NoRowIsLost`, `SinkAndChainAgree` and `HonestLogsVerify`, for any
transactions, maintainers, keys and stories, any grace and window. The first two follow from
`AuditInv` (`AuditHolds`). The argument rests on what a checkpoint is once its window and the grace are past (`Settled`): a row that
comes into the window afterwards is late, whoever writes it. So a document of the sink has
the rows of its window except late ones, and goes on where a checkpoint of the database
ends, or begins the chain with nothing before it (`DocumentSound`); an attempt to seal the
window again differs from it in late rows only, unless rows went meanwhile, which under the
lock happens only below sealed windows (`Alone`: one run at a time and a chain without
branches). Below the end of a checkpoint every row is late or in one (`ChainSound`), and a
cutoff is below such an end, below the floor, and accounted for before anything goes
(`PruneSound`); what went was so (`RemovedSound`). Partitions are there for every day that
the last run could foresee, and on MySQL a prune leaves the topmost one. Runs that go on
without the lock are covered: they may branch the chain, and the theorems say what still
holds then.

`HonestLogsVerify` needs `HonestInv` besides. A verification reads the checkpoints and the
pruning horizon first and the rows of each window later, so the invariant says what remains
true of what it has read: the checkpoints are still there (`SnapshotSound`), neighbours among
them are linked (`LinksSound`), and a row that is gone from a window still to be read is
excused, or its window is below the horizon (`RestSound`). The last is the hard part. A prune
stops at a cutoff, and only whole windows are excused by the horizon; a cutoff is where a
window begins (plain tables) or where a day ends (partitions), and no window goes across
either, because its length divides a day (`DocumentsAligned`, `GoneAllowed`). Without
overlapping windows every checkpoint but the first goes on where its neighbour ends or was
begun by a second run that saw only late rows before it (`NeighboursLinked`), and under the
lock there is no second beginning (`BegunOnce`).

Model-checked only:

- liveness (`EveryJobSettles`, `EveryLetterDealtWith`, `EveryEventDelivered`) and the
  fairness it needs: out of the prover's reach, as is ENABLED;
- `WholeObjects` of object storage: an object is the concatenation of its parts
  (`FlattenSeq`), and what that gives for every sequence is an induction over data;
- `LooksAreCurrent`, `LastWriteStands`, `SessionsCloseForGood`, `NothingLeftBehind`: they
  are stated of the sets of calls in `Plans` (one session to an address, distinct contents),
  where the history variables tell every call from every other. For arbitrary calls they
  would need an abstract specification of the store first; none is written.

## 6. Where the code and its documents disagree

Three are runs with a counterexample, under `findings` in `PROJECT.json`.

- `JobQueue_replay_release`: a release that an abandonment delayed past the lock can
  match a newer claim of the same worker and attempt number after a replay; the
  running job goes back to pending and its attempt is recorded as never run.
- `Storage_unreadable`: a save that falls between the two unlinks of a delete is left
  without its identity file; every read raises until the next save. `CommittedReadable`
  is what holds instead.
- `Reloading_revoked`: a call that began later and read earlier puts settings back
  that a rejection had replaced; a following call whose source raises is served by
  them. `SettingsNotStale` is what holds instead.

Others are facts TLC shows on a variation of a run, and the properties that are
checked say what holds instead.

- A claim the heartbeat drops just before `begin()` belongs to a handler that nothing
  signals any more: `HandlerSignalled` of JobQueue in the instance of
  `JobQueue_replay`. What the handler may still write is bounded by `RunnerFenced`.
- Without SKIP LOCKED a stale select claims a rescheduled job before `available_at`:
  `NotClaimedEarly` with `SkipLocked = FALSE`.
- `incr` of a value that is no integer raises `ValueError` on both backends. With an expiry,
  Redis sets it all the same: INCRBY and EXPIRE are sent in one MULTI/EXEC
  (jasil/backends/state_redis.py:138-143), which Redis does not undo, where the in-memory
  backend raises before it gets to the expiry (jasil/backends/state_memory.py:91).
  docs/providers-and-backends.md:50 holds the two to one test suite "because a behavioural
  difference between them is a bug"; the suite tries the refusal without an expiry
  (`BackendsAgree` without `apart`).
- With calls that take time a job may be reclaimed before its handler is signalled:
  `FencedInTime` of LeaseFence in `LeaseFence_slow`. `OverrunIsBounded` says by how
  much, `FencedWhenInstant` that instant calls remove it.
- `adopt_existing_schema` compares before it takes the lock. Of two processes that
  adopt and upgrade at once, the slower stamps the older revision over the head the
  faster has reached, and later upgrades meet columns that exist; its docstring says
  of a database that has a revision that it "is left unchanged" (`RunsResume` without
  `restamped`).
- `_fresh_install_prefix` reads the table names before the revision. A read that
  straddles the commit of rev0001 picks the unprefixed names; if the first run then
  dies before rev0002, the second alters unprefixed tables, of which there are none or
  one that is the host's (`RunsResume`, `CurrentIsBuilt` or `HostTableKept` without
  `misread`).
- On MySQL an interrupted revision is not resumed, since its statements are committed
  one by one: the next run meets its own objects. docs/observability.md:212 promises
  resumption from the last revision that committed (`RunsResume` without the dialect).

- Two maintenance runs, one of which has lost its lock, may both begin the chain. If the
  length of a window is changed between them, their first windows overlap, and
  `verify_checkpoints` reports a missing window or a broken chain of a log nobody touched;
  docs/audit.md:495 reads a gap as "a checkpoint was deleted" (`HonestLogVerifies` without
  the disjunct of `Overlapping`).

`LateRunIsSuperseded` is checked without replays and retention: after a replay the
attempt numbers it compares start again, and after the row was deleted the late
outcome stays `lease_expired`.

## 7. What is not modelled

By choice: the dialogue with mail and geocoding servers (I/O, formatting, parsing),
settings other than URIs and timing constraints, admin queries and summaries,
correlation and typing helpers, reconciliation (declarations and read-only
comparisons). A best-effort event is lost if the process dies between the commit and
the dispatch; that is by design and no property claims otherwise. Republishing an id
after retention deleted its outbox row, while a job of the first publication
remains, makes no new job. A runner thread stuck in a
database call without a timeout keeps its leases for ever; nothing in the code
notices, so no property covers it. The legacy recorder interface without
`record_queued_in` and MySQL's locks by ON DUPLICATE KEY UPDATE are left out or
over-approximated.

- Storage: conflicts between a key and a directory of the plain layout, copying, URLs
  and serving, the paging of S3 prefix deletes, validation of keys.
- Audit: forged signatures, validation of details, catalog synchronisation, the race
  of two processes for the instance row, the DDL of each database.
- Platform: two simultaneous closes of one platform, `reset_shared_clients`, the
  interfaces of `providers.py` and `deps.py`.
- Bus, hints, state: stream entries that cannot be decoded, upcasting of event
  versions, the in-process hints, corrupted counters, integers beyond 64 bits (which Redis
  refuses and the in-memory backend counts on with; `MaxValue` stays far below).
- Worker: the blocking `run_job_worker`, two simultaneous starts, summaries.
- Migrations: downgrades, offline SQL, an older target, a database of a newer release,
  the comparison of schemas column by column, revisions six to ten.
- Retention: the pass that runs the prunes one after the other; each prune is in the
  module of its table.

## 8. Plan

Done, in this order: JobRow → JobAttempts → JobQueue with JobLifecycle (composes
rows, history, runner, heartbeat, reaper) → LeaseFence → DeadLetters → Outbox →
AfterCommit → LocalStorage and S3Storage → Audit → Deployment, Platform, Reloading →
EventStream, Realtime, StateStore → WorkerProcess → Migrations → HostProcess (composes
the capabilities).

Next, most important first:

1. An atomic register per key as the abstract specification of object storage, with
   both backends refining it where the layouts allow, stated without the contents of
   parts so that theorems can be proved from it.
2. The retention pass as a composition of the prunes under one lock, and queue routing
   in the claim.
3. Downgrades and a rolling deployment of two releases over one schema.

## 9. Running it

    tlc -workers 2 -config JobQueue_replay.cfg MCJobQueue
    tlc -workers 2 -config Outbox.cfg MCOutbox
    tlc -workers 2 -config Platform.cfg MCPlatform
    tlapm OutboxProofs.tla
    tlapm HostProcessProofs.tla

The module of each run is in `PROJECT.json`. Every run ends within a few minutes,
and so does every proof but those of PlatformProofs and HostProcessProofs, which take
about a quarter of an hour each, and of AuditProofs, which takes half of that.
