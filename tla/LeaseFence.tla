----------------------------- MODULE LeaseFence -----------------------------
(***************************************************************************)
(* The timing of one running job's lease: the heartbeat loop that renews   *)
(* it (jobs/worker.py, jobs/heartbeat.py), a database whose calls take     *)
(* time and may fail, and the reaper.  Time is discrete; every variable    *)
(* that measures it counts from the last event that reset it, so no clock  *)
(* is needed.  The worker and the database agree on the time.              *)
(***************************************************************************)
EXTENDS Integers

CONSTANTS Lease,       \* lease_seconds
          Interval,    \* heartbeat_interval_seconds
          Latency,     \* longest a renewal (or the claim) takes to answer or fail
          Telemetry,   \* longest the worker registry write takes
          Horizon      \* bound: how far past the last renewal time is followed

(* JobSettings.__post_init__: the lease is at least three intervals. *)
ASSUME TimingAssumption ==
    /\ Interval \in Nat \ {0}
    /\ Latency \in Nat
    /\ Telemetry \in Nat
    /\ Lease \in Nat
    /\ Horizon \in Nat
    /\ Lease >= 3 * Interval

VARIABLES leaseAge,   \* since the "now" the lease was last computed from
          silence,    \* since LeaseKeeper._last_renewed
          phase,      \* what the heartbeat thread is doing ...
          timer,      \* ... and for how long
          misses,     \* renewals that failed since the last that succeeded
          lost,       \* the handler has been signalled
          reclaimed   \* the reaper took the job

vars == <<leaseAge, silence, phase, timer, misses, lost, reclaimed>>

(* The batch was just claimed: the claim read its clock before its          *)
(* transaction, hold() after it.  The heartbeat may be anywhere in its wait. *)
Init ==
    /\ leaseAge \in 0 .. Latency
    /\ silence = 0
    /\ phase = "wait"
    /\ timer \in 0 .. Interval
    /\ misses = 0
    /\ lost = FALSE
    /\ reclaimed = FALSE

Longest(p) ==
    IF p = "wait" THEN Interval ELSE IF p = "renew" THEN Latency ELSE Telemetry

Tick ==
    /\ leaseAge < Horizon
    /\ timer < Longest(phase)
    /\ leaseAge' = leaseAge + 1
    /\ silence' = silence + 1
    /\ timer' = timer + 1
    /\ UNCHANGED <<phase, misses, lost, reclaimed>>

(* _loop: the wait always lasts a whole interval, then the beat starts. *)
Beat ==
    /\ phase = "wait"
    /\ timer = Interval
    /\ phase' = "renew"
    /\ timer' = 0
    /\ UNCHANGED <<leaseAge, silence, misses, lost, reclaimed>>

AfterRenewal == phase = "renew" /\ phase' = "telemetry" /\ timer' = 0

(* The new lease counts from the clock read before the call, _last_renewed *)
(* from the one read after it.                                             *)
RenewOk ==
    /\ AfterRenewal
    /\ ~ reclaimed
    /\ leaseAge' = timer
    /\ silence' = 0
    /\ misses' = 0
    /\ UNCHANGED <<lost, reclaimed>>

RenewFindsItGone ==
    /\ AfterRenewal
    /\ reclaimed
    /\ lost' = TRUE
    /\ UNCHANGED <<leaseAge, silence, misses, reclaimed>>

(* Mutant of Silent: the handler is fenced at the lease, not a beat before. *)
SilentForALease == silence >= Lease

(* _fence_if_silent *)
Silent == silence >= Lease - Interval

RenewFail ==
    /\ AfterRenewal
    /\ misses' = misses + 1
    /\ lost' = (lost \/ Silent)
    /\ UNCHANGED <<leaseAge, silence, reclaimed>>

BeatDone ==
    /\ phase = "telemetry"
    /\ phase' = "wait"
    /\ timer' = 0
    /\ UNCHANGED <<leaseAge, silence, misses, lost, reclaimed>>

(* Mutant of Expired: the reaper compares with <=. *)
ExpiredEarly == leaseAge >= Lease

(* reclaim_expired_leases: lease_expires_at < now, strictly. *)
Expired == leaseAge > Lease

Reclaim ==
    /\ Expired
    /\ ~ reclaimed
    /\ reclaimed' = TRUE
    /\ UNCHANGED <<leaseAge, silence, phase, timer, misses, lost>>

Next ==
    \/ Tick \/ Beat \/ RenewOk \/ RenewFindsItGone \/ RenewFail \/ BeatDone \/ Reclaim

Spec == Init /\ [][Next]_vars

-----------------------------------------------------------------------------
TypeOK ==
    /\ leaseAge \in Nat /\ silence \in Nat /\ timer \in Nat /\ misses \in Nat
    /\ phase \in {"wait", "renew", "telemetry"}
    /\ lost \in BOOLEAN /\ reclaimed \in BOOLEAN

(* docs/durable-jobs.md, self-fencing: "the handler is signalled before      *)
(* another worker can have reclaimed the job".                               *)
FencedInTime == reclaimed => lost

(* What renew and _fence_if_silent do guarantee: the handler runs on, not    *)
(* signalled, for less than two database calls and one registry write after  *)
(* its lease ran out.                                                        *)
OverrunBounded == ~ lost => leaseAge < Lease + 2 * Latency + Telemetry

(* JobSettings: "two missed beats must not expire a lease". *)
TwoMissesTolerated == Expired => misses > 2
=============================================================================
