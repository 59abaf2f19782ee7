---------------------------- MODULE HostProcess ----------------------------
(***************************************************************************)
(* One process of a deployment and everything it does with its             *)
(* capabilities: the platforms it builds and closes, a provider whose      *)
(* settings are edited, the event bus, events held until a commit,         *)
(* realtime hints, keyed state, the worker it runs, the migrations it      *)
(* starts.  These are independent of one another, so a behaviour follows   *)
(* one of them, named by part, and leaves the others as they began.        *)
(***************************************************************************)
EXTENDS Platform

CONSTANTS
    Caller, Edits, Shared, MaxReads, MaxSourceFaults, MaxTime, RetrySeconds,              \* Reloading
    BusProcess, Outbound, MaxLen, ReadBatch, MaxStarts, MaxTroubles,                      \* EventStream
    Event, MaxDepth, MaxTransactions,                                                     \* AfterCommit
    Hints, MaxThreads, MaxLosses, Keepalive,                                              \* Realtime
    Plain, Tiers, CounterTtl, SweepInterval, DeleteBatch, MaxTick, MaxValue, Text, ValueError,   \* StateStore
    MaxInstances, MaxClock, KeepFor, MaxLostWrites,                                       \* WorkerProcess
    Migrator, MaxInterruptions                                                            \* Migrations

(* What the constants stand for.  Unset is no number, no row of the event log, of the    *)
(* worker registry or of the state store, no outcome of a build and no process.         *)
Published == UNION {{o[i] : i \in DOMAIN o} : o \in Outbound}

Hint == UNION {{h[i] : i \in DOMAIN h} : h \in Hints}

ASSUME HostAssumption ==
    /\ Unset \notin Nat /\ Unset \notin Migrator
    /\ \A e \in Edits : e \in Seq({"unset", "good", "memory", "lookup", "bad"}) \ {<<>>}
    /\ Shared \in BOOLEAN /\ RetrySeconds \in Nat
    /\ Unset \notin [settings : Nat, result : {"built", "null", "transient", "rejected"}, retryAt : Nat \cup {Unset}]
    /\ MaxLen \in Nat /\ ReadBatch \in Nat /\ MaxStarts \in Nat
    /\ \A o \in Outbound : o \in Seq(Published)
    /\ Unset \notin [type : {e.type : e \in Published}, status : {"published", "queued", "processing", "completed", "failed"}]
    /\ \A h \in Hints : h \in Seq(Hint)
    /\ MaxThreads \in Nat /\ Keepalive \in Nat \ {0}
    /\ Tiers \in Seq([threshold : Nat, seconds : Nat]) /\ CounterTtl \in Nat
    /\ Text \notin Nat /\ Text # Unset
    /\ Unset \notin [value : Nat \cup {Text}, expiry : Nat \cup {Unset}]
    /\ Unset \notin [keys : SUBSET Plain, seen : SUBSET Plain, done : BOOLEAN]
    /\ MaxInstances \in Nat /\ KeepFor \in Nat
    /\ Unset \notin [beat : Nat, stopped : Nat \cup {Unset}]

VARIABLES
    part,           \* the capability this behaviour follows
    provider, edits, stored, resolver, now, reads, appliedRead, current, call, applied, raised,
    outbound, sending, stream, pending, consumer, signalled, watches, thread, rows, handled, outcomes, troubles,
    stack, begun, registered, committed, ending, broken, ready, dispatched, written, durable,
    hints, numbered, subscriber, starting, reported, halted, event, loop, inbox, heard, expected, losses,
    kind, tick, data, nextSweep, redis, alike, told, early, drain, apart,
    worker, started, halt, claims, quit, beat, host, registry, clock, prune, lost,
    dialect, schema, invalid, recorded, lock, mig, interrupted, restamped, misread

(***************************************************************************)
(* The capabilities, over variables of their own                           *)
(***************************************************************************)
Reloads == INSTANCE Reloading WITH Retry <- RetrySeconds, Nothing <- Unset

Bus == INSTANCE EventStream WITH Process <- BusProcess, Nothing <- Unset

Held == INSTANCE AfterCommit WITH pending <- registered

Channel == INSTANCE Realtime WITH MaxStarts <- MaxThreads, Nothing <- Unset, ready <- reported

State == INSTANCE StateStore WITH NotInteger <- ValueError, Nothing <- Unset

Work ==
    INSTANCE WorkerProcess WITH MaxTime <- MaxClock, MaxLosses <- MaxLostWrites, Absent <- Unset, loop <- claims

Migrating == INSTANCE Migrations WITH MaxFaults <- MaxInterruptions, Nobody <- Unset, faults <- interrupted

(***************************************************************************)
(* One capability at a time                                                *)
(***************************************************************************)
ReloadVars == <<provider, edits, stored, resolver, now, reads, appliedRead, current, call, applied, raised>>
BusVars == <<outbound, sending, stream, pending, consumer, signalled, watches, thread, rows, handled, outcomes, troubles>>
HeldVars == <<stack, begun, registered, committed, ending, broken, ready, dispatched, written, durable>>
HintVars == <<hints, numbered, subscriber, starting, reported, halted, event, loop, inbox, heard, expected, losses>>
StateVars == <<kind, tick, data, nextSweep, redis, alike, told, early, drain, apart>>
WorkerVars == <<worker, started, halt, claims, quit, beat, host, registry, clock, prune, lost>>
MigrationVars == <<dialect, schema, invalid, recorded, lock, mig, interrupted, restamped, misread>>

allVars == <<part, vars, ReloadVars, BusVars, HeldVars, HintVars, StateVars, WorkerVars, MigrationVars>>

NoPlatform == todo = [h \in Host |-> <<>>] /\ Unbuilt

HostInit ==
    /\ part \in {"platform", "reloading", "bus", "held", "hints", "state", "worker", "migrations"}
    /\ IF part = "platform" THEN Init ELSE NoPlatform
    /\ IF part = "reloading" THEN Reloads!Init ELSE Reloads!NoReloads
    /\ IF part = "bus" THEN Bus!Init ELSE Bus!NoBus
    /\ Held!Init
    /\ IF part = "hints" THEN Channel!Init ELSE Channel!NoHints
    /\ IF part = "state" THEN State!Init ELSE State!NoState
    /\ Work!Init
    /\ IF part = "migrations" THEN Migrating!Init ELSE Migrating!NoMigrations

HostNext ==
    \/ part = "platform" /\ Next
       /\ UNCHANGED <<part, ReloadVars, BusVars, HeldVars, HintVars, StateVars, WorkerVars, MigrationVars>>
    \/ part = "reloading" /\ Reloads!Next
       /\ UNCHANGED <<part, vars, BusVars, HeldVars, HintVars, StateVars, WorkerVars, MigrationVars>>
    \/ part = "bus" /\ Bus!Next
       /\ UNCHANGED <<part, vars, ReloadVars, HeldVars, HintVars, StateVars, WorkerVars, MigrationVars>>
    \/ part = "held" /\ Held!Next
       /\ UNCHANGED <<part, vars, ReloadVars, BusVars, HintVars, StateVars, WorkerVars, MigrationVars>>
    \/ part = "hints" /\ Channel!Next
       /\ UNCHANGED <<part, vars, ReloadVars, BusVars, HeldVars, StateVars, WorkerVars, MigrationVars>>
    \/ part = "state" /\ State!Next
       /\ UNCHANGED <<part, vars, ReloadVars, BusVars, HeldVars, HintVars, WorkerVars, MigrationVars>>
    \/ part = "worker" /\ Work!Next
       /\ UNCHANGED <<part, vars, ReloadVars, BusVars, HeldVars, HintVars, StateVars, MigrationVars>>
    \/ part = "migrations" /\ Migrating!Next
       /\ UNCHANGED <<part, vars, ReloadVars, BusVars, HeldVars, HintVars, StateVars, WorkerVars>>

HostSpec == HostInit /\ [][HostNext]_allVars

(***************************************************************************)
(* The properties of the capabilities                                      *)
(***************************************************************************)
(* An edit applies to every call that begins after it and whose source      *)
(* answers: it goes by no older settings, and refused ones serve nobody.    *)
SettingsApply == Reloads!SettingsApply

(* An entry whose read was answered is handled once and only once, whatever *)
(* acknowledgement or group is lost, unless its process dies (_poll_once).  *)
HandledOnceRead == Bus!HandledOnceRead

(* A row says completed or failed only of the event it was first written for, and only   *)
(* once that event's handlers ended so; a reused id rewrites nothing (_bus_row).         *)
RowsTellTheTruth == Bus!RowsTellTheTruth

(* publish_on_commit: what is dispatched is what was committed, all of it,  *)
(* once and in the order of publication.                                    *)
DispatchedAsCommitted == Held!DispatchedAsCommitted

(* A subscription that start reported is one: it hears what follows, is not *)
(* given up while it is sound and holds no connection it does not use.      *)
SubscriptionSound == Channel!SubscriptionSound

(* Keyed state is kept as long as it should be and no longer, by either     *)
(* backend alike: expiry does not show and a prefix that is deleted is gone.*)
StateKept == State!StateKept

(* A caller who was told a gate is closed until a second is not counted before that       *)
(* second: the gate's key outlives the time it names (record_tiered_failure).             *)
LockoutHolds == State!LockoutHolds

(* The heartbeat lasts exactly as long as the work of its instance: while a *)
(* handler runs it beats, and what is recorded stopped does neither.        *)
BeatsUntilDone == Work!BeatsUntilDone

(* The startup check passes only where the schema of the head is there under its final  *)
(* names, every index of it valid, however the runs that built it were interrupted and  *)
(* whichever of them ran at once (verify_schema_current).                               *)
CurrentIsBuilt == Migrating!CurrentIsBuilt

(* On PostgreSQL a run never meets an object that an earlier run left behind, nor misses *)
(* one it counts on: after any interruption the next run resumes (docs/observability.md). *)
RunsResume == Migrating!RunsResume

(* However often it is stopped and started, and whichever stop times out, a process has  *)
(* one consumer of the bus, one subscriber and one job loop that go on: the thread that  *)
(* the next stop would signal (start, stop, start_job_worker).                           *)
OneLoopEach == Bus!OneConsumer /\ Channel!OneSubscriber /\ Work!OneClaimer

(* No step rewrites what belongs to another: the row of a durable event stays queued,    *)
(* pruning spares a worker that beat since its cutoff, and a migration leaves a table of *)
(* the host's as it is (_bus_row, prune_worker_records_before, rev0003).                 *)
OthersKept == [][Bus!QueuedIsTerminal /\ Work!LiveRowsKept /\ Migrating!HostTableKept]_allVars
=============================================================================
