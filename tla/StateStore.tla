----------------------------- MODULE StateStore -----------------------------
(***************************************************************************)
(* The keyed state provider over process memory and over Redis             *)
(* (jasil/backends/state_memory.py, state_redis.py).                       *)
(*                                                                         *)
(* Every operation but Redis' delete_prefix is atomic, under the instance   *)
(* lock or as one command, transaction or script, so the two backends can   *)
(* be run side by side: each operation is given to both and their answers   *)
(* compared.  In a behaviour of Redis alone, delete_prefix is taken in its  *)
(* steps among the operations of other callers.  The clock counts half     *)
(* seconds, because the wall clock is read in whole seconds and expiries    *)
(* are not.                                                                *)
(***************************************************************************)
EXTENDS Naturals, Sequences, FiniteSets

CONSTANTS
    Plain,          \* keys hosts store values under; all share a prefix
    Tiers,          \* the thresholds of record_tiered_failure, with the seconds each locks for
    CounterTtl,     \* counter_ttl_seconds
    SweepInterval,  \* SWEEP_INTERVAL_SECONDS, in half seconds
    DeleteBatch,    \* scan_count: the keys of one DELETE
    MaxTick,        \* bound on the clock
    MaxValue,       \* bound on the integers incr stores; what a gate counts, the clock bounds
    Text,           \* a value that is no integer
    NotInteger,     \* a ValueError
    Nothing

VARIABLES
    kind,           \* what hosts keep in this behaviour: values or a gate, or a Redis prefix
    tick,
    data,           \* MemoryState._data
    nextSweep,      \* MemoryState._next_sweep
    redis,          \* the keys of the Redis server
    alike,          \* whether the backends gave the same answer so far
    told,           \* the latest second a caller was told the gate is closed until
    early,          \* whether an occurrence was counted before that second
    drain,          \* a delete_prefix of Redis in progress, or Nothing
    apart           \* the keys a refused incr left with an expiry of their own in Redis

stateVars == <<kind, tick, data, nextSweep, redis, alike, told, early, drain, apart>>

StateKey == Plain \cup {"counter", "gate"}

Unused ==
    /\ tick = 0 /\ nextSweep = SweepInterval
    /\ data = [k \in StateKey |-> Nothing] /\ redis = [k \in StateKey |-> Nothing]
    /\ alike = TRUE
    /\ told = 0 /\ early = FALSE
    /\ drain = Nothing
    /\ apart = {}

Init == kind \in {"values", "gate", "prefix"} /\ Unused

NoState == kind = "values" /\ Unused

SideBySide == kind # "prefix"

Second == tick \div 2

Expiry(ttl) == IF ttl = Nothing THEN Nothing ELSE tick + 2 * ttl

Entry(value, expiry) == [value |-> value, expiry |-> expiry]

IsExpired(entry) == entry # Nothing /\ entry.expiry # Nothing /\ entry.expiry <= tick

Visible(entry) == IF entry = Nothing \/ IsExpired(entry) THEN Nothing ELSE entry

(***************************************************************************)
(* MemoryState                                                             *)
(***************************************************************************)
(* Dropped when read, and by the sweep of a write once per interval. *)
LiveValue(d, k) == IF d[k] = Nothing \/ IsExpired(d[k]) THEN Nothing ELSE d[k].value

Evicted(d, k) == IF IsExpired(d[k]) THEN [d EXCEPT ![k] = Nothing] ELSE d

SweepDue == tick >= nextSweep

Swept == IF SweepDue THEN [k \in StateKey |-> IF IsExpired(data[k]) THEN Nothing ELSE data[k]] ELSE data

Sweep == nextSweep' = IF SideBySide /\ SweepDue THEN tick + SweepInterval ELSE nextSweep

(* Mutant: the expiry is the one the entry had, expired or not. *)
ExpiryKept(d, k, ttl) ==
    IF ttl # Nothing THEN Expiry(ttl) ELSE IF d[k] # Nothing THEN d[k].expiry ELSE Nothing

(* incr keeps the expiry of a live value unless it is given one. *)
IncrExpiry(d, k, ttl) ==
    IF ttl # Nothing THEN Expiry(ttl) ELSE IF LiveValue(d, k) # Nothing THEN d[k].expiry ELSE Nothing

Number(value) == IF value = Nothing THEN 0 ELSE value

Parses(value) == value # Text

(***************************************************************************)
(* The Redis server, as its documentation has it                           *)
(***************************************************************************)
Stored(k) == IF redis[k] = Nothing \/ IsExpired(redis[k]) THEN Nothing ELSE redis[k]

StoredValue(k) == IF Stored(k) = Nothing THEN Nothing ELSE Stored(k).value

RedisIncrExpiry(k, ttl) ==
    IF ttl # Nothing THEN Expiry(ttl) ELSE IF Stored(k) # Nothing THEN Stored(k).expiry ELSE Nothing

(***************************************************************************)
(* The operations, given to both backends                                  *)
(***************************************************************************)
Rewritten(k) == drain' = IF drain = Nothing THEN Nothing ELSE [drain EXCEPT !.seen = @ \ {k}]

Memory(update) == data' = IF SideBySide THEN update ELSE data

Differs(k) == Visible(data[k]) # Visible(redis[k])

(* A key is apart from the incr that refused it until both backends show the same again. *)
Parting(refused) == apart' = {k \in apart \cup refused : Differs(k)'}

(* The answers of an operation on keys, compared unless one of them is apart. *)
Answers(keys, memory, server) == alike' = (alike /\ (SideBySide /\ keys \cap apart = {} => memory = server))

Get(k) ==
    /\ Memory(Evicted(data, k))
    /\ Answers({k}, LiveValue(data, k), StoredValue(k))
    /\ UNCHANGED <<kind, tick, nextSweep, redis, told, early, drain>>
    /\ Parting({})

Set(k, value, ttl) ==
    /\ Memory([Swept EXCEPT ![k] = Entry(value, Expiry(ttl))]) /\ Sweep
    /\ redis' = [redis EXCEPT ![k] = Entry(value, Expiry(ttl))]
    /\ Answers({k}, "ok", "ok")
    /\ Rewritten(k)
    /\ UNCHANGED <<kind, tick, told, early>>
    /\ Parting({})

Delete(k) ==
    /\ Memory([data EXCEPT ![k] = Nothing])
    /\ redis' = [redis EXCEPT ![k] = Nothing]
    /\ Answers({k}, "ok", "ok")
    /\ UNCHANGED <<kind, tick, nextSweep, told, early, drain>>
    /\ Parting({})

(* A value that is no integer is refused by both; by Redis in a transaction, whose EXPIRE  *)
(* is run although its INCRBY was refused, where memory raises before it sets the expiry. *)
Incr(k, ttl) ==
    /\ MaxValue \notin {LiveValue(data, k), StoredValue(k)}
    /\ IF Parses(LiveValue(Swept, k))
       THEN Memory([Swept EXCEPT ![k] = Entry(Number(LiveValue(Swept, k)) + 1, IncrExpiry(Swept, k, ttl))])
       ELSE Memory(Swept)
    /\ Sweep
    /\ redis' = [redis EXCEPT ![k] = Entry(IF Parses(StoredValue(k)) THEN Number(StoredValue(k)) + 1 ELSE StoredValue(k),
                                           RedisIncrExpiry(k, ttl))]
    /\ Answers({k}, IF Parses(LiveValue(Swept, k)) THEN Number(LiveValue(Swept, k)) + 1 ELSE NotInteger,
                    IF Parses(StoredValue(k)) THEN Number(StoredValue(k)) + 1 ELSE NotInteger)
    /\ IF Parses(StoredValue(k)) THEN Rewritten(k) ELSE UNCHANGED drain
    /\ UNCHANGED <<kind, tick, told, early>>
    /\ Parting(IF SideBySide /\ ttl # Nothing /\ ~Parses(StoredValue(k)) THEN {k} ELSE {})

SetIfAbsent(k, ttl) ==
    /\ IF LiveValue(Swept, k) # Nothing THEN Memory(Swept) ELSE Memory([Swept EXCEPT ![k] = Entry(Text, Expiry(ttl))])
    /\ Sweep
    /\ IF Stored(k) # Nothing THEN UNCHANGED redis ELSE redis' = [redis EXCEPT ![k] = Entry(Text, Expiry(ttl))]
    /\ Answers({k}, LiveValue(Swept, k) = Nothing, Stored(k) = Nothing)
    /\ IF Stored(k) = Nothing THEN Rewritten(k) ELSE UNCHANGED drain
    /\ UNCHANGED <<kind, tick, told, early>>
    /\ Parting({})

GetAndDelete(k) ==
    /\ Memory([Evicted(data, k) EXCEPT ![k] = Nothing])
    /\ redis' = [redis EXCEPT ![k] = Nothing]
    /\ Answers({k}, LiveValue(data, k), StoredValue(k))
    /\ UNCHANGED <<kind, tick, nextSweep, told, early, drain>>
    /\ Parting({})

(* Memory leaves out, and drops, what expired and was not swept. *)
IterKeys ==
    /\ Memory([k \in StateKey |-> IF k \in Plain THEN Evicted(data, k)[k] ELSE data[k]])
    /\ Answers(Plain, {k \in Plain : LiveValue(data, k) # Nothing}, {k \in Plain : Stored(k) # Nothing})
    /\ UNCHANGED <<kind, tick, nextSweep, redis, told, early, drain>>
    /\ Parting({})

(***************************************************************************)
(* record_tiered_failure                                                   *)
(***************************************************************************)
(* The tiers ascend, and the last that the count has reached wins. *)
LockSeconds(count) ==
    LET reached == {i \in 1..Len(Tiers) : count >= Tiers[i].threshold} IN
    IF reached = {} THEN 0 ELSE Tiers[CHOOSE i \in reached : \A j \in reached : j <= i].seconds

(* Mutant: the gate's key expires in half the time its value says. *)
GateExpirySoon(lock) == tick + lock

GateExpiry(lock) == tick + 2 * lock

Shut(gate) == gate # Nothing /\ gate > Second

Counted(store, count) ==
    [store EXCEPT !["counter"] = Entry(count, Expiry(CounterTtl)),
                  !["gate"] = IF LockSeconds(count) > 0 THEN Entry(Second + LockSeconds(count), GateExpiry(LockSeconds(count)))
                              ELSE Nothing]

Outcome(gate, count) ==
    IF Shut(gate) THEN <<Number(count), gate, FALSE>>
    ELSE <<Number(count) + 1, IF LockSeconds(Number(count) + 1) > 0 THEN Second + LockSeconds(Number(count) + 1) ELSE Nothing,
           LockSeconds(Number(count) + 1) > 0>>

RecordTieredFailure ==
    /\ LET gate == LiveValue(Swept, "gate")
           count == LiveValue(Swept, "counter")
           outcome == Outcome(StoredValue("gate"), StoredValue("counter")) IN
       /\ Memory(IF Shut(gate) THEN Evicted(Swept, "counter") ELSE Counted(Swept, Number(count) + 1))
       /\ redis' = IF Shut(StoredValue("gate")) THEN redis ELSE Counted(redis, Number(StoredValue("counter")) + 1)
       /\ Answers({"counter", "gate"}, Outcome(gate, count), outcome)
       /\ told' = IF outcome[2] # Nothing THEN outcome[2] ELSE told
       /\ early' = (early \/ (~Shut(StoredValue("gate")) /\ Second < told))
    /\ Sweep
    /\ UNCHANGED <<kind, tick, drain>>
    /\ Parting({})

(***************************************************************************)
(* delete_prefix                                                           *)
(***************************************************************************)
DeletePrefix ==
    /\ data' = [k \in StateKey |-> IF k \in Plain THEN Nothing ELSE data[k]]
    /\ redis' = [k \in StateKey |-> IF k \in Plain THEN Nothing ELSE redis[k]]
    /\ Answers(Plain, Cardinality({k \in Plain : LiveValue(data, k) # Nothing}), Cardinality({k \in Plain : Stored(k) # Nothing}))
    /\ UNCHANGED <<kind, tick, nextSweep, told, early, drain>>
    /\ Parting({})

(* The scan is drained before anything is deleted: it yields every key that was there all *)
(* along, and seen are the ones nobody has written since.                                *)
ScanPrefix ==
    /\ drain = Nothing
    /\ LET found == {k \in Plain : Stored(k) # Nothing} IN
       drain' = [keys |-> found, seen |-> found, done |-> FALSE]
    /\ UNCHANGED <<kind, tick, data, nextSweep, redis, alike, told, early>>
    /\ Parting({})

(* Mutant: one DELETE is sent for the scan. *)
NoKeysLeft(keys, batch) == {}

KeysLeft(keys, batch) == keys \ batch

DeleteKeys ==
    /\ drain # Nothing /\ ~drain.done
    /\ \E batch \in SUBSET drain.keys :
        /\ Cardinality(batch) = IF Cardinality(drain.keys) < DeleteBatch THEN Cardinality(drain.keys) ELSE DeleteBatch
        /\ redis' = [k \in StateKey |-> IF k \in batch THEN Nothing ELSE redis[k]]
        /\ drain' = [drain EXCEPT !.keys = KeysLeft(@, batch), !.done = KeysLeft(drain.keys, batch) = {}]
    /\ UNCHANGED <<kind, tick, data, nextSweep, alike, told, early>>
    /\ Parting({})

PrefixDeleted ==
    /\ drain # Nothing /\ drain.done
    /\ drain' = Nothing
    /\ UNCHANGED <<kind, tick, data, nextSweep, redis, alike, told, early>>
    /\ Parting({})

TimePasses ==
    /\ tick < MaxTick
    /\ tick' = tick + 1
    /\ UNCHANGED <<kind, data, nextSweep, redis, alike, told, early, drain>>
    /\ Parting({})

Ttl == {Nothing, 1}

Next ==
    \/ /\ kind # "gate"
       /\ \E k \in Plain :
            \/ Get(k) \/ Delete(k) \/ GetAndDelete(k)
            \/ \E ttl \in Ttl : Set(k, Text, ttl) \/ Incr(k, ttl) \/ SetIfAbsent(k, ttl)
    \/ kind = "values" /\ (IterKeys \/ DeletePrefix)
    \/ kind = "prefix" /\ (ScanPrefix \/ DeleteKeys \/ PrefixDeleted)
    \/ kind = "gate" /\ RecordTieredFailure
    \/ TimePasses

Spec == Init /\ [][Next]_stateVars

(* Whatever the sequence of operations and expiries, the two backends answer alike and   *)
(* keep the same live keys, values and expiries: lazy eviction and the sweep never show.  *)
(* Only the expiry that Redis keeps of a refused incr sets a key apart, and no other key  *)
(* with it, until both show the same of it again (incr).                                  *)
BackendsAgree ==
    /\ alike
    /\ SideBySide => \A k \in StateKey \ apart : ~Differs(k)

(* A caller who was told a gate is closed until a second is not counted before that       *)
(* second: the gate's key outlives the time it names (record_tiered_failure).             *)
LockoutHolds == ~early

(* When delete_prefix of Redis returns, no key it found is left that nobody has written   *)
(* in the meantime, however many DELETEs it took (delete_matching_keys).                  *)
PrefixDrained ==
    (drain # Nothing /\ drain.done) => \A k \in drain.seen : Stored(k) = Nothing

(* Keyed state is kept as long as it should be and no longer, by either     *)
(* backend alike: expiry does not show and a prefix that is deleted is gone.*)
StateKept == BackendsAgree /\ PrefixDrained
=============================================================================
