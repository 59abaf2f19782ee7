-------------------------- MODULE LeaseFenceProofs --------------------------
(***************************************************************************)
(* Proofs about LeaseFence for every lease, interval and latency.          *)
(***************************************************************************)
EXTENDS LeaseFence, TLAPS

(* How long renewals can have been silent, phase by phase, while the handler *)
(* is not signalled: the last check found the silence below the threshold.   *)
SilenceBound ==
    /\ phase = "telemetry" => silence < Lease - Interval + timer
    /\ phase = "wait" => silence < Lease - Interval + Telemetry + timer
    /\ phase = "renew" => silence < Lease + Telemetry + timer

FenceInv ==
    /\ TypeOK
    /\ silence <= leaseAge
    /\ leaseAge <= silence + Latency
    /\ timer <= Longest(phase)
    /\ ~ lost => SilenceBound

(* The invariant holds when a batch was just claimed. *)
LEMMA FenceInvInit == Init => FenceInv
<1> SUFFICES ASSUME Init PROVE FenceInv
  OBVIOUS
<1>1. lost \in BOOLEAN /\ reclaimed \in BOOLEAN
  BY Zenon DEF Init
<1> QED
  BY <1>1, TimingAssumption DEF Init, FenceInv, TypeOK, SilenceBound, Longest

(* Every step preserves it. *)
LEMMA FenceInvStep == FenceInv /\ [Next]_vars => FenceInv'
<1> SUFFICES ASSUME FenceInv, [Next]_vars PROVE FenceInv'
  OBVIOUS
<1> USE TimingAssumption DEF FenceInv, TypeOK, SilenceBound, Longest
<1>1. CASE UNCHANGED vars
  BY <1>1 DEF vars
<1>2. CASE Tick
  BY <1>2 DEF Tick
<1>3. CASE Beat
  BY <1>3 DEF Beat
<1>4. CASE RenewOk
  BY <1>4 DEF RenewOk, AfterRenewal
<1>5. CASE RenewFindsItGone
  BY <1>5 DEF RenewFindsItGone, AfterRenewal
<1>6. CASE RenewFail
  <2>1. lost' \in BOOLEAN /\ (~ lost' => ~ lost /\ ~ Silent)
    BY <1>6, Zenon DEF RenewFail
  <2> QED
    BY <1>6, <2>1 DEF RenewFail, AfterRenewal, Silent
<1>7. CASE BeatDone
  BY <1>7 DEF BeatDone
<1>8. CASE Reclaim
  BY <1>8 DEF Reclaim
<1> QED
  BY <1>1, <1>2, <1>3, <1>4, <1>5, <1>6, <1>7, <1>8 DEF Next

(* The silence bound caps how far a handler can outlive its lease unsignalled. *)
LEMMA FenceInvBounds == FenceInv => OverrunBounded
BY TimingAssumption DEF FenceInv, TypeOK, SilenceBound, Longest, OverrunBounded

(* Self-fencing, as heartbeat.py implements it: for any timing that         *)
(* JobSettings accepts, an unsignalled handler outlives its lease by less   *)
(* than two database calls and one registry write.                          *)
THEOREM OverrunIsBounded == Spec => []OverrunBounded
BY FenceInvInit, FenceInvStep, FenceInvBounds, PTL DEF Spec

(* The documented promise holds exactly in the limit it ignores: if database *)
(* calls took no time, no job would be reclaimed before its handler is       *)
(* signalled.                                                                *)
THEOREM FencedWhenInstant ==
    ASSUME Latency = 0, Telemetry = 0
    PROVE  Spec => []FencedInTime
<1>1. Init => FencedInTime
  BY DEF Init, FencedInTime
<1>2. FenceInv /\ FencedInTime /\ [Next]_vars => FencedInTime'
  <2> SUFFICES ASSUME FenceInv, FencedInTime, [Next]_vars PROVE FencedInTime'
    OBVIOUS
  <2>1. CASE Reclaim
    <3>1. OverrunBounded /\ leaseAge \in Nat
      BY FenceInvBounds DEF FenceInv, TypeOK
    <3>2. lost
      BY <2>1, <3>1, TimingAssumption DEF Reclaim, Expired, OverrunBounded
    <3> QED
      BY <2>1, <3>2 DEF Reclaim, FencedInTime
  <2>2. CASE Tick \/ Beat \/ RenewOk \/ RenewFindsItGone \/ RenewFail \/ BeatDone
    BY <2>2 DEF Tick, Beat, RenewOk, RenewFindsItGone, RenewFail, BeatDone, FencedInTime
  <2>3. CASE UNCHANGED vars
    BY <2>3 DEF vars, FencedInTime
  <2> QED
    BY <2>1, <2>2, <2>3 DEF Next
<1> QED
  BY <1>1, <1>2, FenceInvInit, FenceInvStep, PTL DEF Spec

-----------------------------------------------------------------------------
(* One beat that fails costs at most this much time. *)
Period == Interval + Latency + Telemetry

(* The age of the lease on entering the registry write after the last *)
(* renewal, by the number of renewals that failed.                    *)
AgeBound(base) ==
    /\ phase = "telemetry" => leaseAge <= base + timer
    /\ phase = "wait" => leaseAge <= base + Telemetry + timer
    /\ phase = "renew" => leaseAge <= base + Telemetry + Interval + timer

MissInv ==
    /\ TypeOK
    /\ timer <= Longest(phase)
    /\ misses = 0 => AgeBound(Latency)
    /\ misses = 1 => AgeBound(Latency + Period)
    /\ misses = 2 => AgeBound(Latency + 2 * Period)
    /\ reclaimed => misses > 2

(* The rule of JobSettings, lease >= three intervals, with the time the calls *)
(* themselves take: a lease of three whole beats and one call survives two    *)
(* missed beats.                                                              *)
THEOREM TwoMissesToleratedIfPadded ==
    ASSUME Lease >= 3 * Period + Latency
    PROVE  Spec => []TwoMissesTolerated
<1> USE TimingAssumption DEF MissInv, TypeOK, AgeBound, Period, Longest
<1>1. Init => MissInv
  <2> SUFFICES ASSUME Init PROVE MissInv
    OBVIOUS
  <2>1. lost \in BOOLEAN /\ reclaimed \in BOOLEAN
    BY Zenon DEF Init
  <2> QED
    BY <2>1 DEF Init
<1>2. MissInv /\ [Next]_vars => MissInv'
  <2> SUFFICES ASSUME MissInv, [Next]_vars PROVE MissInv'
    OBVIOUS
  <2>1. CASE UNCHANGED vars
    BY <2>1 DEF vars
  <2>2. CASE Tick
    BY <2>2 DEF Tick
  <2>3. CASE Beat
    BY <2>3 DEF Beat
  <2>4. CASE RenewOk
    BY <2>4 DEF RenewOk, AfterRenewal
  <2>5. CASE RenewFindsItGone
    BY <2>5 DEF RenewFindsItGone, AfterRenewal
  <2>6. CASE RenewFail
    <3>1. lost' \in BOOLEAN
      BY <2>6, Zenon DEF RenewFail
    <3> QED
      BY <2>6, <3>1 DEF RenewFail, AfterRenewal
  <2>7. CASE BeatDone
    BY <2>7 DEF BeatDone
  <2>8. CASE Reclaim
    BY <2>8 DEF Reclaim, Expired
  <2> QED
    BY <2>1, <2>2, <2>3, <2>4, <2>5, <2>6, <2>7, <2>8 DEF Next
<1>3. MissInv => TwoMissesTolerated
  BY DEF TwoMissesTolerated, Expired
<1> QED
  BY <1>1, <1>2, <1>3, PTL DEF Spec
=============================================================================
