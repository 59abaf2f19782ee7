------------------------- MODULE HostProcessProofs -------------------------
(***************************************************************************)
(* What HostSpec guarantees of the threads of a process and of the         *)
(* migrations it runs, for every value of the constants that               *)
(* HostAssumption admits: its worker, its bus, its realtime subscription.  *)
(* A behaviour follows one capability, so each argument has one shape:     *)
(* the capability's invariant holds when a process starts, whichever part  *)
(* it follows; a step of another part leaves the capability's variables    *)
(* alone; and a step of the capability preserves its invariant.            *)
(***************************************************************************)
EXTENDS HostProcess, SequenceTheorems, FiniteSetTheorems, TLAPS

(***************************************************************************)
(* The worker                                                              *)
(***************************************************************************)
RegistryRow == [beat : Nat, stopped : Nat \cup {Unset}]

Selections == [at : {"selected"}, cutoff : Nat, ids : SUBSET Work!Instance]

(* What the bounds and the missing row are: Unset is no row. *)
WorkBounds == MaxInstances \in Nat /\ KeepFor \in Nat /\ Unset \notin RegistryRow

(* What the constants are. *)
LEMMA WorkBounded == WorkBounds
  BY HostAssumption DEF WorkBounds, RegistryRow

WorkTypes ==
    /\ worker \in 0..MaxInstances /\ started \in 0..MaxInstances
    /\ halt \subseteq Work!Instance /\ quit \subseteq Work!Instance
    /\ claims \in [Work!Instance -> {"none", "starting", "polling", "handling", "leaving", "ended"}]
    /\ beat \in [Work!Instance -> {"none", "waiting", "beating", "ended"}]
    /\ registry \in [Work!Instance -> RegistryRow \cup {Unset}]
    /\ clock \in Nat
    /\ prune \in Selections \cup {Work!NoPrune}

(* An instance not made yet, or not begun, has no heartbeat and no row; one that works *)
(* has a heartbeat nobody has told to stop; one recorded stopped has ended.            *)
Together(i) ==
    /\ i > started => claims[i] = "none"
    /\ claims[i] \in {"none", "starting"} => beat[i] = "none" /\ i \notin quit /\ registry[i] = Unset
    /\ claims[i] \in {"polling", "handling"} => beat[i] \in {"waiting", "beating"} /\ i \notin quit
    /\ (registry[i] # Unset /\ registry[i].stopped # Unset) => claims[i] = "ended" /\ beat[i] = "ended"

(* Only the attached instance takes further jobs. *)
Claims(i) == (claims[i] \in {"starting", "polling", "handling"} /\ i \notin halt) => i = worker

(* A stop is the last sign of life, and the cutoff of a prune lies KeepFor back. *)
WorkPast ==
    /\ \A i \in Work!Instance : (registry[i] # Unset /\ registry[i].stopped # Unset) => registry[i].stopped = registry[i].beat
    /\ prune.at = "selected" => prune.cutoff + KeepFor <= clock

WorkInv == WorkTypes /\ (\A i \in Work!Instance : Together(i) /\ Claims(i)) /\ WorkPast

(* Every action keeps the types of what it writes. *)
LEMMA WorkTypeStep ==
    ASSUME WorkBounds, WorkTypes, [Work!Next]_WorkerVars
    PROVE  WorkTypes'
  <1> USE DEF WorkBounds, WorkTypes
  <1>a. Work!StartRow \in RegistryRow /\ [beat |-> clock, stopped |-> clock] \in RegistryRow
    BY DEF RegistryRow, Work!StartRow
  <1>b. ASSUME NEW r \in RegistryRow  PROVE [r EXCEPT !.beat = clock] \in RegistryRow
    BY DEF RegistryRow
  <1>1. ASSUME NEW i \in Work!Instance, Work!StartHeartbeat(i)  PROVE WorkTypes'
    <2>1. [registry EXCEPT ![i] = Work!StartRow] \in [Work!Instance -> RegistryRow \cup {Unset}]
      BY <1>a
    <2>2. registry' \in [Work!Instance -> RegistryRow \cup {Unset}]
      BY <1>1, <2>1 DEF Work!StartHeartbeat, Work!Telemetry
    <2> QED BY <1>1, <2>2 DEF Work!StartHeartbeat
  <1>2. ASSUME NEW i \in Work!Instance, Work!RunOnce(i) \/ Work!HandlerReturns(i) \/ Work!Leave(i) \/ Work!AbandonHeartbeat(i)  PROVE WorkTypes'
    BY <1>2 DEF Work!RunOnce, Work!HandlerReturns, Work!Leave, Work!AbandonHeartbeat
  <1>3. ASSUME NEW i \in Work!Instance, Work!RecordStop(i)  PROVE WorkTypes'
    <2>1. [registry EXCEPT ![i] = IF @ = Unset THEN @ ELSE [beat |-> clock, stopped |-> clock]]
              \in [Work!Instance -> RegistryRow \cup {Unset}]
      BY <1>a
    <2>2. registry' \in [Work!Instance -> RegistryRow \cup {Unset}]
      BY <1>3, <2>1 DEF Work!RecordStop, Work!Telemetry
    <2> QED BY <1>3, <2>2 DEF Work!RecordStop
  <1>4. ASSUME NEW i \in Work!Instance, Work!EndBeat(i)  PROVE WorkTypes'
    <2>1. [registry EXCEPT ![i] = IF @ = Unset THEN Work!StartRow ELSE [@ EXCEPT !.beat = clock]]
              \in [Work!Instance -> RegistryRow \cup {Unset}]
      BY <1>a, <1>b
    <2>2. registry' \in [Work!Instance -> RegistryRow \cup {Unset}]
      BY <1>4, <2>1 DEF Work!EndBeat, Work!Telemetry
    <2> QED BY <1>4, <2>2 DEF Work!EndBeat
  <1>5. ASSUME NEW i \in Work!Instance, Work!BeginBeat(i) \/ Work!EndHeartbeat(i)  PROVE WorkTypes'
    BY <1>5 DEF Work!BeginBeat, Work!EndHeartbeat
  <1>6. ASSUME Work!StartJobWorker  PROVE WorkTypes'
    BY <1>6 DEF Work!StartJobWorker, Work!Instance
  <1>7. ASSUME Work!StopJobWorker \/ Work!StopFromHandler \/ Work!StopReturns  PROVE WorkTypes'
    <2>1. worker # 0 => worker \in Work!Instance
      BY DEF Work!Instance
    <2> QED BY <1>7, <2>1 DEF Work!StopJobWorker, Work!StopFromHandler, Work!StopReturns, Work!LoopToldToStop
  <1>8. ASSUME Work!SelectOld  PROVE WorkTypes'
    <2>1. prune' \in Selections
      BY <1>8 DEF Work!SelectOld, Selections
    <2> QED BY <1>8, <2>1 DEF Work!SelectOld
  <1>9. ASSUME Work!DeleteOld \/ Work!TimePasses  PROVE WorkTypes'
    BY <1>9 DEF Work!DeleteOld, Work!TimePasses
  <1>10. ASSUME UNCHANGED WorkerVars  PROVE WorkTypes'
    BY <1>10 DEF WorkerVars
  <1> QED BY <1>1, <1>2, <1>3, <1>4, <1>5, <1>6, <1>7, <1>8, <1>9, <1>10 DEF Work!Next

(* Whatever instance acts, each loop, its heartbeat and its row go on fitting together. *)
LEMMA TogetherStep ==
    ASSUME WorkBounds, WorkTypes, [Work!Next]_WorkerVars, NEW i \in Work!Instance, Together(i)
    PROVE  Together(i)'
  <1> USE DEF Together
  <1>t. WorkTypes'
    BY WorkTypeStep
  <1>s. i \in Nat /\ started \in Nat
    BY DEF WorkBounds, WorkTypes, Work!Instance
  <1>1. ASSUME NEW j \in Work!Instance, Work!StartHeartbeat(j)  PROVE Together(i)'
    <2>1. i # j => registry'[i] = registry[i] /\ claims'[i] = claims[i] /\ beat'[i] = beat[i]
      BY <1>1 DEF Work!StartHeartbeat, Work!Telemetry, WorkTypes
    <2>2. i = j => claims'[i] = "polling" /\ beat'[i] = "waiting" /\ claims[i] = "starting"
      BY <1>1 DEF Work!StartHeartbeat, WorkTypes
    <2>3. i = j => registry'[i] \in {registry[i], Work!StartRow}
      BY <1>1 DEF Work!StartHeartbeat, Work!Telemetry, WorkTypes
    <2>4. Work!StartRow.stopped = Unset
      BY DEF Work!StartRow
    <2> QED BY <1>1, <1>s, <2>1, <2>2, <2>3, <2>4 DEF Work!StartHeartbeat
  <1>2. ASSUME NEW j \in Work!Instance, Work!RunOnce(j) \/ Work!HandlerReturns(j) \/ Work!Leave(j) \/ Work!AbandonHeartbeat(j)  PROVE Together(i)'
    BY <1>2, <1>s DEF Work!RunOnce, Work!HandlerReturns, Work!Leave, Work!AbandonHeartbeat, WorkTypes
  <1>3. ASSUME NEW j \in Work!Instance, Work!RecordStop(j)  PROVE Together(i)'
    <2>1. i # j => registry'[i] = registry[i] /\ claims'[i] = claims[i]
      BY <1>3 DEF Work!RecordStop, Work!Telemetry, WorkTypes
    <2>2. i = j => claims'[i] = "ended" /\ beat[i] = "ended" /\ claims[i] = "leaving"
      BY <1>3 DEF Work!RecordStop, Work!Joined, WorkTypes
    <2> QED BY <1>3, <1>s, <2>1, <2>2 DEF Work!RecordStop
  <1>4. ASSUME NEW j \in Work!Instance, Work!EndBeat(j)  PROVE Together(i)'
    <2>1. i # j => registry'[i] = registry[i] /\ beat'[i] = beat[i]
      BY <1>4 DEF Work!EndBeat, Work!Telemetry, WorkTypes
    <2>2. i = j => beat'[i] = "waiting" /\ beat[i] = "beating"
      BY <1>4 DEF Work!EndBeat, WorkTypes
    <2>3. i = j => registry'[i] \in {registry[i], Work!StartRow, [registry[i] EXCEPT !.beat = clock]}
      BY <1>4 DEF Work!EndBeat, Work!Telemetry, WorkTypes
    <2>4. Work!StartRow.stopped = Unset
      BY DEF Work!StartRow
    <2>5. i = j /\ registry'[i] # Unset => registry'[i].stopped = Unset
      <3> SUFFICES ASSUME i = j, registry'[i] # Unset  PROVE registry'[i].stopped = Unset
        OBVIOUS
      <3>1. CASE registry[i] = Unset
        <4>1. registry'[i] \in {registry[i], Work!StartRow}
          BY <1>4, <3>1 DEF Work!EndBeat, Work!Telemetry, WorkTypes
        <4> QED BY <3>1, <4>1, <2>4
      <3>2. CASE registry[i] # Unset
        <4>1. registry[i].stopped = Unset /\ registry[i] \in RegistryRow
          BY <2>2, <3>2 DEF WorkTypes
        <4>2. [registry[i] EXCEPT !.beat = clock].stopped = Unset
          BY <4>1 DEF RegistryRow
        <4> QED BY <2>3, <2>4, <4>1, <4>2
      <3> QED BY <3>1, <3>2
    <2> QED BY <1>4, <1>s, <2>1, <2>2, <2>5 DEF Work!EndBeat
  <1>5. ASSUME NEW j \in Work!Instance, Work!BeginBeat(j) \/ Work!EndHeartbeat(j)  PROVE Together(i)'
    BY <1>5, <1>s DEF Work!BeginBeat, Work!EndHeartbeat, WorkTypes
  <1>6. ASSUME Work!StartJobWorker  PROVE Together(i)'
    BY <1>6, <1>s DEF Work!StartJobWorker, WorkTypes
  <1>7. ASSUME Work!StopJobWorker \/ Work!StopFromHandler \/ Work!StopReturns \/ Work!SelectOld \/ Work!TimePasses \/ UNCHANGED WorkerVars  PROVE Together(i)'
    BY <1>7 DEF Work!StopJobWorker, Work!StopFromHandler, Work!StopReturns, Work!LoopToldToStop, Work!SelectOld, Work!TimePasses, WorkerVars
  <1>8. ASSUME Work!DeleteOld  PROVE Together(i)'
    <2>1. registry'[i] \in {registry[i], Unset}
      BY <1>8 DEF Work!DeleteOld
    <2> QED BY <1>8, <2>1 DEF Work!DeleteOld
  <1> QED BY <1>1, <1>2, <1>3, <1>4, <1>5, <1>6, <1>7, <1>8 DEF Work!Next

(* A start follows a loop that has ended, and a stop that gives up leaves its loop attached. *)
LEMMA ClaimsStep ==
    ASSUME WorkBounds, WorkTypes, [Work!Next]_WorkerVars, NEW i \in Work!Instance, Claims(i)
    PROVE  Claims(i)'
  <1> USE DEF Claims
  <1>1. ASSUME NEW j \in Work!Instance, Work!StartHeartbeat(j) \/ Work!RunOnce(j) \/ Work!HandlerReturns(j)  PROVE Claims(i)'
    BY <1>1 DEF Work!StartHeartbeat, Work!RunOnce, Work!HandlerReturns, WorkTypes
  <1>2. ASSUME NEW j \in Work!Instance, Work!Leave(j) \/ Work!RecordStop(j) \/ Work!AbandonHeartbeat(j)  PROVE Claims(i)'
    BY <1>2 DEF Work!Leave, Work!RecordStop, Work!AbandonHeartbeat, WorkTypes
  <1>3. ASSUME NEW j \in Work!Instance, Work!BeginBeat(j) \/ Work!EndBeat(j) \/ Work!EndHeartbeat(j)  PROVE Claims(i)'
    BY <1>3 DEF Work!BeginBeat, Work!EndBeat, Work!EndHeartbeat
  <1>4. ASSUME Work!StartJobWorker  PROVE Claims(i)'
    <2>1. i # started + 1 => claims'[i] = claims[i]
      BY <1>4 DEF Work!StartJobWorker, WorkTypes
    <2>2. i = worker => worker # 0
      BY DEF Work!Instance, WorkBounds
    <2>3. claims[i] \in {"starting", "polling", "handling"} => i \in halt
      BY <1>4, <2>2 DEF Work!StartJobWorker, Work!Startable, Work!IsAlive
    <2> QED BY <1>4, <2>1, <2>3 DEF Work!StartJobWorker
  <1>5. ASSUME Work!StopJobWorker \/ Work!StopFromHandler  PROVE Claims(i)'
    BY <1>5 DEF Work!StopJobWorker, Work!StopFromHandler
  <1>6. ASSUME Work!StopReturns  PROVE Claims(i)'
    BY <1>6 DEF Work!StopReturns, Work!IsAlive
  <1>7. ASSUME Work!SelectOld \/ Work!DeleteOld \/ Work!TimePasses \/ UNCHANGED WorkerVars  PROVE Claims(i)'
    BY <1>7 DEF Work!SelectOld, Work!DeleteOld, Work!TimePasses, WorkerVars
  <1> QED BY <1>1, <1>2, <1>3, <1>4, <1>5, <1>6, <1>7 DEF Work!Next

(* Rows and cutoffs stay in the past: only a stop writes the time of one, and it is the last beat too. *)
LEMMA PastStep ==
    ASSUME WorkBounds, WorkTypes, [Work!Next]_WorkerVars, \A i \in Work!Instance : Together(i), WorkPast
    PROVE  WorkPast'
  <1> DEFINE RowPast(r) == (r # Unset /\ r.stopped # Unset) => r.stopped = r.beat
  <1>r. ASSUME NEW i \in Work!Instance  PROVE RowPast(registry[i])
    BY DEF WorkPast
  <1>s. RowPast(Work!StartRow) /\ RowPast([beat |-> clock, stopped |-> clock])
    BY DEF Work!StartRow
  <1>1. ASSUME NEW i \in Work!Instance  PROVE RowPast(registry'[i])
    <2> HIDE DEF RowPast
    <2>1. ASSUME NEW j \in Work!Instance, Work!StartHeartbeat(j)  PROVE RowPast(registry'[i])
      <3>1. registry'[i] \in {registry[i], Work!StartRow}
        BY <2>1 DEF Work!StartHeartbeat, Work!Telemetry, WorkTypes
      <3> QED BY <3>1, <1>r, <1>s
    <2>2. ASSUME NEW j \in Work!Instance, Work!RecordStop(j)  PROVE RowPast(registry'[i])
      <3>1. registry'[i] \in {registry[i], [beat |-> clock, stopped |-> clock]}
        BY <2>2 DEF Work!RecordStop, Work!Telemetry, WorkTypes
      <3> QED BY <3>1, <1>r, <1>s
    <2>3. ASSUME NEW j \in Work!Instance, Work!EndBeat(j)  PROVE RowPast(registry'[i])
      <3>1. CASE i # j
        <4>1. registry'[i] = registry[i]
          BY <2>3, <3>1 DEF Work!EndBeat, Work!Telemetry, WorkTypes
        <4> QED BY <4>1, <1>r
      <3>2. CASE i = j /\ registry[i] = Unset
        <4>1. registry'[i] \in {registry[i], Work!StartRow}
          BY <2>3, <3>2 DEF Work!EndBeat, Work!Telemetry, WorkTypes
        <4> QED BY <4>1, <1>r, <1>s
      <3>3. CASE i = j /\ registry[i] # Unset
        <4>1. registry[i].stopped = Unset /\ registry[i] \in RegistryRow
          BY <2>3, <3>3 DEF Work!EndBeat, Together, WorkTypes
        <4>2. [registry[i] EXCEPT !.beat = clock].stopped = Unset
          BY <4>1 DEF RegistryRow
        <4>3. RowPast([registry[i] EXCEPT !.beat = clock])
          BY <4>2 DEF RowPast
        <4>4. registry'[i] \in {registry[i], [registry[i] EXCEPT !.beat = clock]}
          BY <2>3, <3>3 DEF Work!EndBeat, Work!Telemetry, WorkTypes
        <4> QED BY <4>3, <4>4, <1>r
      <3> QED BY <3>1, <3>2, <3>3
    <2>4. ASSUME Work!DeleteOld  PROVE RowPast(registry'[i])
      <3>1. registry'[i] \in {registry[i], Unset}
        BY <2>4 DEF Work!DeleteOld
      <3>2. RowPast(Unset)
        BY DEF RowPast
      <3> QED BY <3>1, <3>2, <1>r
    <2>5. ASSUME registry' = registry  PROVE RowPast(registry'[i])
      BY <2>5, <1>r
    <2> QED
      BY <2>1, <2>2, <2>3, <2>4, <2>5 DEF Work!Next, Work!RunOnce, Work!HandlerReturns, Work!Leave, Work!AbandonHeartbeat, Work!BeginBeat,
         Work!EndHeartbeat, Work!StartJobWorker, Work!StopJobWorker, Work!StopFromHandler, Work!StopReturns, Work!SelectOld, Work!TimePasses, WorkerVars
  <1>2. prune'.at = "selected" => prune'.cutoff + KeepFor <= clock'
    <2>1. ASSUME Work!SelectOld  PROVE prune'.cutoff + KeepFor <= clock'
      <3>1. prune'.cutoff = clock - KeepFor /\ clock' = clock /\ clock >= KeepFor
        BY <2>1 DEF Work!SelectOld
      <3> QED BY <3>1 DEF WorkTypes, WorkBounds
    <2>2. ASSUME Work!DeleteOld  PROVE prune'.at # "selected"
      BY <2>2 DEF Work!DeleteOld, Work!NoPrune
    <2>3. ASSUME Work!TimePasses  PROVE prune'.at = "selected" => prune'.cutoff + KeepFor <= clock'
      <3>1. prune' = prune /\ clock' = clock + 1
        BY <2>3 DEF Work!TimePasses
      <3>2. prune.at = "selected" => prune.cutoff \in Nat
        BY DEF WorkTypes, Selections, Work!NoPrune
      <3> QED BY <3>1, <3>2 DEF WorkPast, WorkTypes, WorkBounds
    <2>4. ASSUME prune' = prune, clock' = clock  PROVE prune'.at = "selected" => prune'.cutoff + KeepFor <= clock'
      BY <2>4 DEF WorkPast
    <2> QED
      BY <2>1, <2>2, <2>3, <2>4 DEF Work!Next, Work!StartHeartbeat, Work!RunOnce, Work!HandlerReturns, Work!Leave, Work!RecordStop, Work!AbandonHeartbeat,
         Work!BeginBeat, Work!EndBeat, Work!EndHeartbeat, Work!StartJobWorker, Work!StopJobWorker, Work!StopFromHandler, Work!StopReturns, WorkerVars
  <1> QED BY <1>1, <1>2 DEF WorkPast

(* A step of the process is a step of its worker or leaves it alone. *)
LEMMA WorkerSteps == [HostNext]_allVars => [Work!Next]_WorkerVars
  BY DEF HostNext, allVars, WorkerVars

(* The strengthening holds of every reachable state. *)
LEMMA WorkKept == HostSpec => []WorkInv
  <1>1. HostInit => WorkInv
    <2> SUFFICES ASSUME Work!Init  PROVE WorkInv
      BY DEF HostInit
    <2>1. WorkTypes
      BY WorkBounded DEF Work!Init, WorkTypes, Work!Instance, WorkBounds
    <2>2. \A i \in Work!Instance : Together(i) /\ Claims(i)
      BY DEF Work!Init, Together, Claims
    <2>3. WorkPast
      BY DEF Work!Init, WorkPast, Work!NoPrune
    <2> QED BY <2>1, <2>2, <2>3 DEF WorkInv
  <1>2. WorkInv /\ [Work!Next]_WorkerVars => WorkInv'
    <2> SUFFICES ASSUME WorkInv, [Work!Next]_WorkerVars  PROVE WorkInv'
      OBVIOUS
    <2>1. WorkTypes'
      BY WorkBounded, WorkTypeStep DEF WorkInv
    <2>2. ASSUME NEW i \in Work!Instance  PROVE Together(i)'
      BY WorkBounded, TogetherStep DEF WorkInv
    <2>3. ASSUME NEW i \in Work!Instance  PROVE Claims(i)'
      BY WorkBounded, ClaimsStep DEF WorkInv
    <2>4. WorkPast'
      BY WorkBounded, PastStep DEF WorkInv
    <2>5. Work!Instance' = Work!Instance
      BY DEF Work!Instance
    <2> QED BY <2>1, <2>2, <2>3, <2>4, <2>5 DEF WorkInv
  <1> QED BY <1>1, <1>2, WorkerSteps, PTL DEF HostSpec

(* While a handler runs its instance has a heartbeat that nobody has told to stop, and an instance *)
(* recorded stopped runs nothing: for any number of instances, losses and prunes (run_worker).     *)
THEOREM HeartbeatLastsAsLongAsWork == HostSpec => []BeatsUntilDone
  <1>1. WorkInv => BeatsUntilDone
    BY DEF WorkInv, Together, BeatsUntilDone, Work!BeatsUntilDone, Work!HandlersKeepHeartbeat, Work!StoppedIsQuiet
  <1> QED BY <1>1, WorkKept, PTL

(* At most one loop of the worker takes further jobs: the attached one. *)
LEMMA AtMostOneClaimer == WorkInv => Work!OneClaimer
  BY DEF WorkInv, Claims, Work!OneClaimer, Work!Claiming

(* A row that disappears has shown no sign of life for longer than it is kept, though the rows are *)
(* selected in one transaction and deleted in the next (prune_worker_records_before).              *)
LEMMA PruneSparesTheLiving ==
    ASSUME WorkInv, [Work!Next]_WorkerVars
    PROVE  Work!LiveRowsKept \/ UNCHANGED WorkerVars
  <1> SUFFICES ASSUME Work!Next, NEW i \in Work!Instance, registry[i] # Unset, registry'[i] = Unset
               PROVE  registry[i].beat + KeepFor < clock
    BY DEF Work!LiveRowsKept
  <1>b. WorkBounds
    BY WorkBounded
  <1>r. registry[i] \in RegistryRow
    BY DEF WorkInv, WorkTypes
  <1>1. ASSUME NEW j \in Work!Instance, Work!StartHeartbeat(j)  PROVE FALSE
    BY <1>1 DEF Work!StartHeartbeat, Work!Telemetry, WorkInv, WorkTypes, Together
  <1>2. ASSUME NEW j \in Work!Instance, Work!RecordStop(j)  PROVE FALSE
    <2>1. [beat |-> clock, stopped |-> clock] \in RegistryRow
      BY DEF RegistryRow, WorkInv, WorkTypes
    <2>2. registry'[i] \in {registry[i], [beat |-> clock, stopped |-> clock]}
      BY <1>2 DEF Work!RecordStop, Work!Telemetry, WorkInv, WorkTypes
    <2> QED BY <1>b, <2>1, <2>2 DEF WorkBounds
  <1>3. ASSUME NEW j \in Work!Instance, Work!EndBeat(j)  PROVE FALSE
    <2>1. [registry[i] EXCEPT !.beat = clock] \in RegistryRow
      BY <1>r DEF RegistryRow, WorkInv, WorkTypes
    <2>2. registry'[i] \in {registry[i], [registry[i] EXCEPT !.beat = clock]}
      BY <1>3 DEF Work!EndBeat, Work!Telemetry, WorkInv, WorkTypes
    <2> QED BY <1>b, <2>1, <2>2 DEF WorkBounds
  <1>4. ASSUME Work!DeleteOld  PROVE registry[i].beat + KeepFor < clock
    <2>1. prune.at = "selected" /\ Work!Old(i, prune.cutoff)
      BY <1>4 DEF Work!DeleteOld, Work!StillOld
    <2>2. prune.cutoff \in Nat /\ prune.cutoff + KeepFor <= clock
      BY <2>1 DEF WorkInv, WorkPast, WorkTypes, Selections, Work!NoPrune
    <2>3. registry[i].beat \in Nat /\ registry[i].beat < prune.cutoff
      BY <2>1, <1>r DEF Work!Old, WorkInv, WorkPast, RegistryRow
    <2> QED BY <1>b, <2>2, <2>3 DEF WorkBounds, WorkInv, WorkTypes
  <1>5. registry' # registry
    OBVIOUS
  <1> QED
    BY <1>1, <1>2, <1>3, <1>4, <1>5 DEF Work!Next, Work!RunOnce, Work!HandlerReturns, Work!Leave, Work!AbandonHeartbeat, Work!BeginBeat,
       Work!EndHeartbeat, Work!StartJobWorker, Work!StopJobWorker, Work!StopFromHandler, Work!StopReturns, Work!SelectOld, Work!TimePasses
(***************************************************************************)
(* The event bus: what EventStreamProofs shows of it, in the process       *)
(***************************************************************************)
BusProofs == INSTANCE EventStreamProofs WITH Process <- BusProcess, Nothing <- Unset

(* The bus whose proofs are cited is the bus of the process. *)
LEMMA BusSame == BusProofs!Next <=> Bus!Next
  BY DEF BusProofs!Next, BusProofs!RecordPublished, BusProofs!AddEntry, BusProofs!RecordQueued,
         BusProofs!Flush, BusProofs!PublishInline, BusProofs!Start, BusProofs!Stop, BusProofs!End,
         BusProofs!Poll, BusProofs!PollFails, BusProofs!MarkProcessing, BusProofs!CallHandlers,
         BusProofs!MarkFinished, BusProofs!Ack, BusProofs!Crash, BusProofs!Trouble, BusProofs!Safely,
         BusProofs!Inserted, BusProofs!Marked, BusProofs!BusRow, BusProofs!Row, BusProofs!Upcoming,
         BusProofs!Trimmed, BusProofs!EnsureGroup, BusProofs!FreshEvent, BusProofs!Batch, BusProofs!Unread,
         BusProofs!FirstUnread, BusProofs!Polls, BusProofs!Entry, BusProofs!At, BusProofs!AfterAck,
         BusProofs!Ended, BusProofs!Thread,
         Bus!Next, Bus!RecordPublished, Bus!AddEntry, Bus!RecordQueued, Bus!Flush, Bus!PublishInline,
         Bus!Start, Bus!Stop, Bus!End, Bus!Poll, Bus!PollFails, Bus!MarkProcessing, Bus!CallHandlers,
         Bus!MarkFinished, Bus!Ack, Bus!Crash, Bus!Trouble, Bus!Safely, Bus!Inserted, Bus!Marked, Bus!BusRow,
         Bus!Row, Bus!Upcoming, Bus!Trimmed, Bus!EnsureGroup, Bus!FreshEvent, Bus!Batch, Bus!Unread,
         Bus!FirstUnread, Bus!Polls, Bus!Entry, Bus!At, Bus!AfterAck, Bus!Ended, Bus!Thread

(* A step of the process is a step of the bus or leaves it alone. *)
LEMMA BusSteps == [HostNext]_allVars => [BusProofs!Next]_(BusProofs!busVars)
  <1>1. [HostNext]_allVars => [Bus!Next]_BusVars
    BY DEF HostNext, allVars, BusVars
  <1> QED BY <1>1, BusSame DEF BusVars, BusProofs!busVars

(* What the constants of the bus are. *)
LEMMA BusBounds == BusProofs!Bounds
  <1>1. BusProofs!Event = Published
    <2>1. ASSUME NEW o \in Outbound  PROVE DOMAIN o = 1..Len(o)
      BY HostAssumption
    <2> QED BY <2>1 DEF BusProofs!Event, Published
  <1>2. Unset \notin BusProofs!LogRow
    BY <1>1, HostAssumption DEF BusProofs!LogRow, BusProofs!Types, BusProofs!Status
  <1> QED BY <1>1, <1>2, HostAssumption DEF BusProofs!Bounds

(* The bus as it began, in a behaviour that follows something else. *)
BusIdle == part # "bus" /\ Bus!NoBus

(* Where the behaviour follows the bus it starts as the bus does, and elsewhere it stays as it began. *)
LEMMA BusStarts == HostInit => BusProofs!Init \/ BusIdle
  <1> SUFFICES ASSUME HostInit, part = "bus"  PROVE BusProofs!Init
    BY DEF HostInit, BusIdle
  <1>1. Bus!Init
    BY DEF HostInit
  <1>2. Bus!AllIds = BusProofs!AllIds
    BY DEF Bus!AllIds, Bus!Ids, BusProofs!AllIds, BusProofs!Ids
  <1> QED BY <1>1, <1>2 DEF Bus!Init, Bus!Started, Bus!Ended, Bus!Thread, BusProofs!Init, BusProofs!Started, BusProofs!Ended,
                 BusProofs!Thread

(* What does not follow the bus never does. *)
LEMMA BusStaysIdle == BusIdle /\ [HostNext]_allVars => BusIdle'
  <1>1. part # "bus" /\ [HostNext]_allVars => part' = part /\ UNCHANGED BusVars
    BY DEF HostNext, allVars
  <1> QED BY <1>1 DEF BusIdle, BusVars, Bus!NoBus, Bus!Started

(* Of the entries of the stream each is handled at most once, and one whose read was answered is handled, *)
(* in a process that restarts, loses acknowledgements and finds the stream flushed (_poll_once).           *)
THEOREM EntriesAreHandledOnce == HostSpec => []HandledOnceRead
  <1>1. BusIdle => HandledOnceRead
    BY EmptySeq DEF BusIdle, Bus!NoBus, Bus!Started, HandledOnceRead, Bus!HandledOnceRead, Bus!HandledAtMostOnce, Bus!ReadIsHandled
  <1>2. BusProofs!HandledOnceRead => HandledOnceRead
    BY DEF HandledOnceRead, Bus!HandledOnceRead, Bus!HandledAtMostOnce, Bus!ReadIsHandled, Bus!Holding, Bus!Thread,
           BusProofs!HandledOnceRead, BusProofs!HandledAtMostOnce, BusProofs!ReadIsHandled, BusProofs!Holding, BusProofs!Thread
  <1>3. BusProofs!Spec => []BusProofs!HandledOnceRead
    BY BusBounds, BusProofs!ReadOnceHandledOnce
  <1> QED BY <1>1, <1>2, <1>3, BusSteps, BusStarts, BusStaysIdle, PTL DEF HostSpec, BusProofs!Spec

(* A row of the event log says completed or failed only of the event and type it was first written for, *)
(* and only as the handlers of a delivery of it ended (_bus_row).                                      *)
THEOREM EventLogTellsTheTruth == HostSpec => []RowsTellTheTruth
  <1>1. BusIdle => RowsTellTheTruth
    BY DEF BusIdle, Bus!NoBus, Bus!Started, RowsTellTheTruth, Bus!RowsTellTheTruth
  <1>2. BusProofs!RowsTellTheTruth => RowsTellTheTruth
    <2>1. Bus!AllIds = BusProofs!AllIds
      BY DEF Bus!AllIds, Bus!Ids, BusProofs!AllIds, BusProofs!Ids
    <2> QED BY <2>1 DEF RowsTellTheTruth, Bus!RowsTellTheTruth, BusProofs!RowsTellTheTruth
  <1>3. BusProofs!Spec => []BusProofs!RowsTellTheTruth
    BY BusBounds, BusProofs!LogTellsTheTruth
  <1> QED BY <1>1, <1>2, <1>3, BusSteps, BusStarts, BusStaysIdle, PTL DEF HostSpec, BusProofs!Spec

(* A thread of the bus that nobody has told to stop is the one the next stop would tell. *)
LEMMA OneConsumerEach == HostSpec => []Bus!OneConsumer
  <1>1. BusIdle => Bus!OneConsumer
    BY DEF BusIdle, Bus!NoBus, Bus!Started, Bus!OneConsumer, Bus!Ended
  <1>2. BusProofs!OneConsumer => Bus!OneConsumer
    BY DEF Bus!OneConsumer, Bus!Thread, BusProofs!OneConsumer, BusProofs!Thread
  <1>3. BusProofs!Spec => []BusProofs!OneConsumer
    BY BusBounds, BusProofs!ConsumerIsAttached
  <1> QED BY <1>1, <1>2, <1>3, BusSteps, BusStarts, BusStaysIdle, PTL DEF HostSpec, BusProofs!Spec

(* The row of a durable event is never rewritten by the bus. *)
LEMMA QueuedRowsStay == HostSpec => [][Bus!QueuedIsTerminal]_BusVars
  <1>1. BusIdle => [Bus!QueuedIsTerminal]_BusVars
    BY DEF BusIdle, Bus!NoBus, Bus!Started, Bus!QueuedIsTerminal
  <1>2. [BusProofs!QueuedIsTerminal]_(BusProofs!busVars) => [Bus!QueuedIsTerminal]_BusVars
    <2>1. Bus!AllIds = BusProofs!AllIds
      BY DEF Bus!AllIds, Bus!Ids, BusProofs!AllIds, BusProofs!Ids
    <2> QED BY <2>1 DEF Bus!QueuedIsTerminal, BusProofs!QueuedIsTerminal, BusVars, BusProofs!busVars
  <1>3. BusProofs!Spec => [][BusProofs!QueuedIsTerminal]_(BusProofs!busVars)
    BY BusBounds, BusProofs!QueuedRowsAreKept
  <1> QED BY <1>1, <1>2, <1>3, BusSteps, BusStarts, BusStaysIdle, PTL DEF HostSpec, BusProofs!Spec

(***************************************************************************)
(* Realtime hints                                                          *)
(*                                                                         *)
(* What start reported is the attached thread, listening; what was sent    *)
(* since is heard or waits in its inbox.  That the attached thread alone   *)
(* goes on needs that every thread watches an event of its own.            *)
(***************************************************************************)
SubscriberLoop ==
    [at : {"ended", "connecting", "confirming", "listening", "backoff"}, client : BOOLEAN, subscribed : BOOLEAN,
     silent : Nat, pinged : BOOLEAN, sound : BOOLEAN]

HintTypes ==
    /\ hints \in Seq(Hint) /\ numbered \in Nat
    /\ subscriber \in Channel!Thread \cup {Unset}
    /\ starting \in Channel!Thread \cup {Unset}
    /\ reported \in Channel!Thread \cup {Unset}
    /\ halted \subseteq Channel!Thread
    /\ event \in [Channel!Thread -> Channel!Thread \cup {Unset}]
    /\ loop \in [Channel!Thread -> SubscriberLoop]
    /\ inbox \in [Channel!Thread -> Seq([number : Nat, hint : Hint])]
    /\ expected \subseteq Channel!Thread \X Nat

(* A thread watches an event of its own, and only the attached one is not signalled. *)
ThreadSound(t) ==
    /\ event[t] \in {Unset, t}
    /\ event[t] = Unset => loop[t].at = "ended"
    /\ loop[t].at # "ended" /\ event[t] \notin halted => subscriber = t

(* What start reported is the attached thread, listening on a sound connection. *)
ReportSound ==
    /\ starting # Unset => reported = Unset
    /\ subscriber # Unset => event[subscriber] = subscriber /\ subscriber \notin halted
    /\ reported # Unset => reported = subscriber /\ loop[reported].subscribed

(* A client is there for a connection; a sound one is pinged before it has been silent *)
(* for longer than a keepalive.                                                        *)
LoopSound(r) ==
    /\ r.client => r.at \in {"confirming", "listening"}
    /\ r.subscribed <=> r.at = "listening"
    /\ r.sound => r.silent <= Keepalive /\ (r.silent = Keepalive => r.pinged)

(* What is expected was published for the thread that was reported. *)
ExpectSound ==
    \A x \in expected :
        /\ x[1] = reported
        /\ loop[x[1]].sound
        /\ \/ x[2] \in heard
           \/ \E i \in 1..Len(inbox[x[1]]) : inbox[x[1]][i].number = x[2] /\ Channel!Decodes(inbox[x[1]][i].hint)

HintInv ==
    /\ HintTypes
    /\ \A t \in Channel!Thread : ThreadSound(t)
    /\ \A t \in Channel!Thread : LoopSound(loop[t])
    /\ ReportSound
    /\ ExpectSound

(* What the proofs about the subscriber need of the constants. *)
LEMMA ChannelBounds ==
    /\ MaxThreads \in Nat /\ Keepalive \in Nat /\ Keepalive > 0
    /\ Channel!Thread \subseteq Nat /\ Unset \notin Channel!Thread
  BY HostAssumption DEF Channel!Thread

(* A thread that has ended, or only begins, has nothing. *)
LEMMA DownSound ==
    ASSUME NEW a \in {"ended", "connecting", "backoff"}
    PROVE  /\ [Channel!Down EXCEPT !.at = a] \in SubscriberLoop
           /\ LoopSound([Channel!Down EXCEPT !.at = a])
           /\ [Channel!Down EXCEPT !.at = a].at = a
           /\ ~[Channel!Down EXCEPT !.at = a].sound
  BY ChannelBounds DEF Channel!Down, SubscriberLoop, LoopSound

(* A step of one thread that leaves who watches and who is signalled as it is. *)
LEMMA LoopStep ==
    ASSUME HintInv, NEW t \in Channel!Thread, NEW r \in SubscriberLoop, LoopSound(r),
           loop[t].at # "ended" \/ r.at = "ended",
           loop' = [loop EXCEPT ![t] = r], UNCHANGED <<subscriber, halted, event>>
    PROVE  /\ loop' \in [Channel!Thread -> SubscriberLoop]
           /\ loop'[t] = r /\ \A u \in Channel!Thread \ {t} : loop'[u] = loop[u]
           /\ (\A u \in Channel!Thread : ThreadSound(u))'
           /\ (\A u \in Channel!Thread : LoopSound(loop[u]))'
  <1>1. /\ loop' \in [Channel!Thread -> SubscriberLoop]
        /\ loop'[t] = r /\ \A u \in Channel!Thread \ {t} : loop'[u] = loop[u]
    BY DEF HintInv, HintTypes
  <1>2. ASSUME NEW u \in Channel!Thread  PROVE ThreadSound(u)'
    BY <1>1 DEF HintInv, ThreadSound
  <1>3. ASSUME NEW u \in Channel!Thread  PROVE LoopSound(loop[u])'
    <2>1. LoopSound(loop'[u])
      BY <1>1 DEF HintInv
    <2> QED BY <2>1 DEF LoopSound
  <1> QED BY <1>1, <1>2, <1>3

(* Subscribed keeps the invariant of the subscriber. *)
LEMMA HintSubscribed ==
    ASSUME HintInv, NEW t \in Channel!Thread, Channel!Subscribed(t)
    PROVE  HintInv'
  <1> DEFINE r == [loop[t] EXCEPT !.subscribed = TRUE, !.at = "listening"]
  <1>1. r \in SubscriberLoop /\ LoopSound(r) /\ r.sound = loop[t].sound /\ r.subscribed
    BY ChannelBounds DEF HintInv, HintTypes, SubscriberLoop, LoopSound, Channel!Subscribed
  <1>2. loop' = [loop EXCEPT ![t] = r]
    BY DEF HintInv, HintTypes, Channel!Subscribed
  <1>3. UNCHANGED <<hints, numbered, subscriber, starting, halted, event>>
    BY DEF Channel!Subscribed
  <1>a. loop[t].at # "ended" \/ r.at = "ended"
    BY <1>1 DEF HintInv, ThreadSound, Channel!Subscribed
  <1> HIDE DEF r
  <1>4. /\ loop' \in [Channel!Thread -> SubscriberLoop]
        /\ loop'[t] = r /\ \A u \in Channel!Thread \ {t} : loop'[u] = loop[u]
        /\ (\A u \in Channel!Thread : ThreadSound(u))'
        /\ (\A u \in Channel!Thread : LoopSound(loop[u]))'
    BY <1>1, <1>2, <1>3, <1>a, LoopStep
  <1>5. HintTypes'
    BY <1>3, <1>4, ChannelBounds DEF HintInv, HintTypes, Channel!Subscribed
  <1>6. ReportSound'
    BY <1>1, <1>3, <1>4, ChannelBounds DEF HintInv, ReportSound, ThreadSound, HintTypes, Channel!Subscribed
  <1>7. ExpectSound'
    BY <1>1, <1>3, <1>4, ChannelBounds DEF HintInv, ExpectSound, ReportSound, ThreadSound, HintTypes, Channel!Subscribed
  <1> QED BY <1>4, <1>5, <1>6, <1>7 DEF HintInv

(* Retry keeps the invariant of the subscriber. *)
LEMMA HintRetry ==
    ASSUME HintInv, NEW t \in Channel!Thread, Channel!Retry(t)
    PROVE  HintInv'
  <1> DEFINE r == [loop[t] EXCEPT !.at = "connecting"]
  <1>1. r \in SubscriberLoop /\ LoopSound(r) /\ r.sound = loop[t].sound /\ r.subscribed = loop[t].subscribed
    BY ChannelBounds DEF HintInv, HintTypes, SubscriberLoop, LoopSound, Channel!Retry, Channel!Running
  <1>2. loop' = [loop EXCEPT ![t] = r]
    BY DEF HintInv, HintTypes, Channel!Retry, Channel!Running
  <1>3. UNCHANGED <<hints, numbered, subscriber, starting, halted, event>>
    BY DEF Channel!Retry
  <1>a. loop[t].at # "ended" \/ r.at = "ended"
    BY <1>1 DEF HintInv, ThreadSound, Channel!Retry, Channel!Running
  <1> HIDE DEF r
  <1>4. /\ loop' \in [Channel!Thread -> SubscriberLoop]
        /\ loop'[t] = r /\ \A u \in Channel!Thread \ {t} : loop'[u] = loop[u]
        /\ (\A u \in Channel!Thread : ThreadSound(u))'
        /\ (\A u \in Channel!Thread : LoopSound(loop[u]))'
    BY <1>1, <1>2, <1>3, <1>a, LoopStep
  <1>5. HintTypes'
    BY <1>3, <1>4, ChannelBounds DEF HintInv, HintTypes, Channel!Retry, Channel!Running
  <1>6. ReportSound'
    BY <1>1, <1>3, <1>4, ChannelBounds DEF HintInv, ReportSound, ThreadSound, HintTypes, Channel!Retry, Channel!Running
  <1>7. ExpectSound'
    BY <1>1, <1>3, <1>4, ChannelBounds DEF HintInv, ExpectSound, ReportSound, ThreadSound, HintTypes, Channel!Retry, Channel!Running
  <1> QED BY <1>4, <1>5, <1>6, <1>7 DEF HintInv

(* GoSilent keeps the invariant of the subscriber. *)
LEMMA HintGoSilent ==
    ASSUME HintInv, NEW t \in Channel!Thread, Channel!GoSilent(t)
    PROVE  HintInv'
  <1> DEFINE r == [loop[t] EXCEPT !.sound = FALSE]
  <1>1. r \in SubscriberLoop /\ LoopSound(r) /\ ~r.sound /\ r.subscribed = loop[t].subscribed
    BY ChannelBounds, ZenonT(30) DEF HintInv, HintTypes, SubscriberLoop, LoopSound, Channel!GoSilent, Channel!Unless
  <1>2. loop' = [loop EXCEPT ![t] = r]
    BY DEF HintInv, HintTypes, Channel!GoSilent, Channel!Unless
  <1>3. UNCHANGED <<hints, numbered, subscriber, starting, halted, event>>
    BY DEF Channel!GoSilent
  <1>a. loop[t].at # "ended" \/ r.at = "ended"
    BY <1>1 DEF HintInv, ThreadSound, Channel!GoSilent, Channel!Unless
  <1> HIDE DEF r
  <1>4. /\ loop' \in [Channel!Thread -> SubscriberLoop]
        /\ loop'[t] = r /\ \A u \in Channel!Thread \ {t} : loop'[u] = loop[u]
        /\ (\A u \in Channel!Thread : ThreadSound(u))'
        /\ (\A u \in Channel!Thread : LoopSound(loop[u]))'
    BY <1>1, <1>2, <1>3, <1>a, LoopStep
  <1>5. HintTypes'
    BY <1>3, <1>4, ChannelBounds DEF HintInv, HintTypes, Channel!GoSilent, Channel!Unless
  <1>6. ReportSound'
    BY <1>1, <1>3, <1>4, ChannelBounds DEF HintInv, ReportSound, ThreadSound, HintTypes, Channel!GoSilent, Channel!Unless
  <1>7. ExpectSound'
    BY <1>1, <1>3, <1>4, ChannelBounds DEF HintInv, ExpectSound, ReportSound, ThreadSound, HintTypes, Channel!GoSilent, Channel!Unless
  <1> QED BY <1>4, <1>5, <1>6, <1>7 DEF HintInv

(* The fields of a record some of which are set. *)
LEMMA SetFields ==
    ASSUME NEW q \in SubscriberLoop, NEW k \in Nat, NEW p \in BOOLEAN, NEW c \in BOOLEAN, NEW s \in BOOLEAN,
           NEW a \in {"ended", "connecting", "confirming", "listening", "backoff"}
    PROVE  /\ [q EXCEPT !.silent = k, !.pinged = p] \in SubscriberLoop
           /\ [q EXCEPT !.at = a, !.client = c, !.sound = s] \in SubscriberLoop
           /\ [q EXCEPT !.at = a, !.client = c] \in SubscriberLoop
  BY DEF SubscriberLoop

(* A poll that found nothing keeps a record sound. *)
LEMMA PollSound ==
    ASSUME NEW q \in SubscriberLoop, LoopSound(q), q.at = "listening"
    PROVE  /\ [q EXCEPT !.silent = 0, !.pinged = FALSE] \in SubscriberLoop
           /\ LoopSound([q EXCEPT !.silent = 0, !.pinged = FALSE])
           /\ Channel!Polled(q) \in SubscriberLoop /\ LoopSound(Channel!Polled(q))
           /\ Channel!Polled(q).sound = q.sound /\ Channel!Polled(q).subscribed = q.subscribed
  <1> DEFINE z == [q EXCEPT !.silent = 0, !.pinged = FALSE]
  <1>1. /\ z \in SubscriberLoop /\ z.at = q.at /\ z.client = q.client /\ z.subscribed = q.subscribed
        /\ z.silent = 0 /\ z.sound = q.sound
    BY DEF SubscriberLoop
  <1>2. LoopSound(z)
    BY <1>1, ChannelBounds DEF LoopSound
  <1>3. CASE q.pinged /\ q.sound
    BY <1>1, <1>2, <1>3 DEF Channel!Polled
  <1>4. CASE ~(q.pinged /\ q.sound)
    <2>1. q.silent \in Nat /\ q.silent + 1 \in Nat
      BY DEF SubscriberLoop
    <2>2. PICK p \in BOOLEAN : p = (q.pinged \/ q.silent + 1 >= Keepalive)
      OBVIOUS
    <2> DEFINE n == [q EXCEPT !.silent = q.silent + 1, !.pinged = p]
    <2>3. Channel!Polled(q) = n
      BY <1>4, <2>2 DEF Channel!Polled
    <2>4. n \in SubscriberLoop
      BY <2>1, SetFields
    <2>5. /\ n.at = q.at /\ n.client = q.client /\ n.subscribed = q.subscribed
          /\ n.silent = q.silent + 1 /\ n.pinged = p /\ n.sound = q.sound
      BY DEF SubscriberLoop
    <2> HIDE DEF n
    <2>a. ASSUME q.sound  PROVE q.silent + 1 <= Keepalive
      BY <1>4, <2>1, <2>a, ChannelBounds DEF LoopSound
    <2>b. ASSUME q.silent + 1 = Keepalive  PROVE p
      <3>1. q.silent + 1 >= Keepalive
        BY <2>1, <2>b, ChannelBounds
      <3> QED BY <2>2, <3>1, Zenon
    <2>6. LoopSound(n)
      BY <2>5, <2>a, <2>b DEF LoopSound
    <2> QED BY <1>1, <1>2, <2>3, <2>4, <2>5, <2>6
  <1> QED BY <1>3, <1>4

(* SilentPoll keeps the invariant of the subscriber. *)
LEMMA HintSilentPoll ==
    ASSUME HintInv, NEW t \in Channel!Thread, Channel!SilentPoll(t)
    PROVE  HintInv'
  <1> DEFINE r == Channel!Polled(loop[t])
  <1>0. loop[t] \in SubscriberLoop /\ LoopSound(loop[t]) /\ loop[t].at = "listening"
    BY DEF HintInv, HintTypes, Channel!SilentPoll, Channel!Listening
  <1>1. r \in SubscriberLoop /\ LoopSound(r) /\ r.sound = loop[t].sound /\ r.subscribed = loop[t].subscribed
    BY <1>0, PollSound
  <1>2. loop' = [loop EXCEPT ![t] = r]
    BY DEF Channel!SilentPoll
  <1>3. UNCHANGED <<hints, numbered, subscriber, starting, halted, event>>
    BY DEF Channel!SilentPoll
  <1>a. loop[t].at # "ended" \/ r.at = "ended"
    BY <1>1 DEF HintInv, ThreadSound, Channel!SilentPoll, Channel!Listening
  <1> HIDE DEF r
  <1>4. /\ loop' \in [Channel!Thread -> SubscriberLoop]
        /\ loop'[t] = r /\ \A u \in Channel!Thread \ {t} : loop'[u] = loop[u]
        /\ (\A u \in Channel!Thread : ThreadSound(u))'
        /\ (\A u \in Channel!Thread : LoopSound(loop[u]))'
    BY <1>1, <1>2, <1>3, <1>a, LoopStep
  <1>5. HintTypes'
    BY <1>3, <1>4, ChannelBounds DEF HintInv, HintTypes, Channel!SilentPoll, Channel!Listening
  <1>6. ReportSound'
    BY <1>1, <1>3, <1>4, ChannelBounds DEF HintInv, ReportSound, ThreadSound, HintTypes, Channel!SilentPoll, Channel!Listening
  <1>7. ExpectSound'
    BY <1>1, <1>3, <1>4, ChannelBounds DEF HintInv, ExpectSound, ReportSound, ThreadSound, HintTypes, Channel!SilentPoll, Channel!Listening
  <1> QED BY <1>4, <1>5, <1>6, <1>7 DEF HintInv

(* What is left of an inbox when its first message is taken. *)
LEMMA InboxTail ==
    ASSUME NEW S, NEW q \in Seq(S), q # <<>>
    PROVE  /\ Head(q) \in S /\ Tail(q) \in Seq(S) /\ Head(q) = q[1]
           /\ \A i \in 1..Len(q) : i = 1 \/ (i - 1 \in 1..Len(Tail(q)) /\ Tail(q)[i - 1] = q[i])
  <1>1. Head(q) \in S /\ Tail(q) \in Seq(S) /\ Len(Tail(q)) = Len(q) - 1 /\ \A i \in 1..Len(Tail(q)) : Tail(q)[i] = q[i + 1]
    BY HeadTailProperties
  <1>2. Len(q) \in Nat /\ Head(q) = q[1]
    BY LenProperties
  <1>3. ASSUME NEW i \in 1..Len(q), i # 1  PROVE i - 1 \in 1..Len(Tail(q)) /\ Tail(q)[i - 1] = q[i]
    <2>1. i \in Nat /\ i - 1 \in 1..(Len(q) - 1) /\ (i - 1) + 1 = i
      BY <1>2, <1>3
    <2> QED BY <1>1, <2>1
  <1> QED BY <1>1, <1>2, <1>3

(* Receive keeps the invariant of the subscriber. *)
LEMMA HintReceive ==
    ASSUME HintInv, NEW t \in Channel!Thread, Channel!Receive(t)
    PROVE  HintInv'
  <1> DEFINE r == [loop[t] EXCEPT !.silent = 0, !.pinged = FALSE]
  <1>0. loop[t] \in SubscriberLoop /\ LoopSound(loop[t]) /\ loop[t].at = "listening"
    BY DEF HintInv, HintTypes, Channel!Receive, Channel!Listening
  <1>1. r \in SubscriberLoop /\ LoopSound(r) /\ r.sound = loop[t].sound /\ r.subscribed = loop[t].subscribed
    BY <1>0, PollSound DEF SubscriberLoop
  <1>2. loop' = [loop EXCEPT ![t] = r]
    BY DEF HintInv, HintTypes, Channel!Receive
  <1>3. UNCHANGED <<hints, numbered, subscriber, starting, halted, event>>
    BY DEF Channel!Receive
  <1>a. loop[t].at # "ended" \/ r.at = "ended"
    BY <1>1 DEF HintInv, ThreadSound, Channel!Receive, Channel!Listening
  <1> HIDE DEF r
  <1>4. /\ loop' \in [Channel!Thread -> SubscriberLoop]
        /\ loop'[t] = r /\ \A u \in Channel!Thread \ {t} : loop'[u] = loop[u]
        /\ (\A u \in Channel!Thread : ThreadSound(u))'
        /\ (\A u \in Channel!Thread : LoopSound(loop[u]))'
    BY <1>1, <1>2, <1>3, <1>a, LoopStep
  <1>b. /\ inbox[t] \in Seq([number : Nat, hint : Hint]) /\ inbox[t] # <<>>
        /\ inbox' = [inbox EXCEPT ![t] = Tail(inbox[t])] /\ inbox \in [Channel!Thread -> Seq([number : Nat, hint : Hint])]
        /\ heard' = IF Channel!Decodes(Head(inbox[t]).hint) THEN heard \cup {Head(inbox[t]).number} ELSE heard
        /\ expected' = expected /\ reported' = reported
    BY DEF HintInv, HintTypes, Channel!Receive
  <1>c. /\ Tail(inbox[t]) \in Seq([number : Nat, hint : Hint])
        /\ Head(inbox[t]) = inbox[t][1]
        /\ \A i \in 1..Len(inbox[t]) :
              i = 1 \/ (i - 1 \in 1..Len(Tail(inbox[t])) /\ Tail(inbox[t])[i - 1] = inbox[t][i])
    BY <1>b, InboxTail
  <1>d. inbox' \in [Channel!Thread -> Seq([number : Nat, hint : Hint])]
    BY <1>b, <1>c
  <1>e. inbox'[t] = Tail(inbox[t]) /\ \A u \in Channel!Thread \ {t} : inbox'[u] = inbox[u]
    BY <1>b
  <1>5. HintTypes'
    BY <1>3, <1>4, <1>b, <1>d DEF HintInv, HintTypes
  <1>6. ReportSound'
    BY <1>1, <1>3, <1>4, <1>b, ChannelBounds DEF HintInv, ReportSound, HintTypes
  <1>7. ExpectSound'
    <2> SUFFICES ASSUME NEW x \in expected
                 PROVE  /\ x[1] = reported /\ loop'[x[1]].sound
                        /\ \/ x[2] \in heard'
                           \/ \E i \in 1..Len(inbox'[x[1]]) :
                                inbox'[x[1]][i].number = x[2] /\ Channel!Decodes(inbox'[x[1]][i].hint)
      BY <1>b DEF ExpectSound, Channel!Decodes
    <2>1. /\ x[1] = reported /\ loop[x[1]].sound /\ x[1] \in Channel!Thread
          /\ \/ x[2] \in heard
             \/ \E i \in 1..Len(inbox[x[1]]) :
                  inbox[x[1]][i].number = x[2] /\ Channel!Decodes(inbox[x[1]][i].hint)
      BY DEF HintInv, HintTypes, ExpectSound
    <2>2. loop'[x[1]].sound
      BY <2>1, <1>1, <1>4
    <2>3. heard \subseteq heard'
      BY <1>b
    <2>4. CASE x[2] \in heard \/ x[1] # t
      BY <2>1, <2>2, <2>3, <2>4, <1>e
    <2>5. CASE x[2] \notin heard /\ x[1] = t
      <3>1. PICK i \in 1..Len(inbox[t]) : inbox[t][i].number = x[2] /\ Channel!Decodes(inbox[t][i].hint)
        BY <2>1, <2>5
      <3>2. CASE i = 1
        <4>1. x[2] \in heard'
          BY <3>1, <3>2, <1>b, <1>c
        <4> QED BY <4>1, <2>1, <2>2
      <3>3. CASE i # 1
        <4>1. i - 1 \in 1..Len(inbox'[t]) /\ inbox'[t][i - 1] = inbox[t][i]
          BY <3>3, <1>c, <1>e
        <4> QED BY <4>1, <3>1, <2>1, <2>2, <2>5
      <3> QED BY <3>2, <3>3
    <2> QED BY <2>4, <2>5
  <1> QED BY <1>4, <1>5, <1>6, <1>7 DEF HintInv

(* Disconnect keeps the invariant of the subscriber. *)
LEMMA HintDisconnect ==
    ASSUME HintInv, NEW t \in Channel!Thread, Channel!Disconnect(t)
    PROVE  HintInv'
  <1> DEFINE r == [Channel!Down EXCEPT !.at = "backoff", !.client = FALSE]
  <1>1. r \in SubscriberLoop /\ LoopSound(r) /\ ~r.sound /\ ~r.subscribed
    BY ChannelBounds DEF SubscriberLoop, LoopSound, Channel!Down
  <1>2. loop' = [loop EXCEPT ![t] = r]
    BY DEF Channel!Disconnect, Channel!ClosedNow
  <1>3. UNCHANGED <<hints, numbered, subscriber, starting, halted, event>>
    BY DEF Channel!Disconnect
  <1>a. loop[t].at # "ended" \/ r.at = "ended"
    BY <1>1 DEF HintInv, ThreadSound, Channel!Disconnect
  <1> HIDE DEF r
  <1>4. /\ loop' \in [Channel!Thread -> SubscriberLoop]
        /\ loop'[t] = r /\ \A u \in Channel!Thread \ {t} : loop'[u] = loop[u]
        /\ (\A u \in Channel!Thread : ThreadSound(u))'
        /\ (\A u \in Channel!Thread : LoopSound(loop[u]))'
    BY <1>1, <1>2, <1>3, <1>a, LoopStep
  <1>b. /\ inbox' = [inbox EXCEPT ![t] = <<>>] /\ inbox \in [Channel!Thread -> Seq([number : Nat, hint : Hint])]
    BY DEF HintInv, HintTypes, Channel!Disconnect
  <1>d. inbox' \in [Channel!Thread -> Seq([number : Nat, hint : Hint])]
    <2>1. <<>> \in Seq([number : Nat, hint : Hint])
      OBVIOUS
    <2> HIDE DEF Hint
    <2> QED BY <1>b, <2>1
  <1>e. \A u \in Channel!Thread \ {t} : inbox'[u] = inbox[u]
    BY <1>b
  <1>f. /\ expected' \subseteq expected /\ heard' = heard /\ \A x \in expected' : x[1] # t
        /\ reported' = IF reported = t THEN Unset ELSE reported
    BY DEF Channel!Disconnect, Channel!Unless
  <1>5. HintTypes'
    BY <1>3, <1>4, <1>d, <1>f DEF HintInv, HintTypes
  <1>6. ReportSound'
    BY <1>1, <1>3, <1>4, <1>f, ChannelBounds DEF HintInv, ReportSound, HintTypes
  <1>7. ExpectSound'
    <2> SUFFICES ASSUME NEW x \in expected'
                 PROVE  /\ x[1] = reported' /\ loop'[x[1]].sound
                        /\ \/ x[2] \in heard'
                           \/ \E i \in 1..Len(inbox'[x[1]]) :
                                inbox'[x[1]][i].number = x[2] /\ Channel!Decodes(inbox'[x[1]][i].hint)
      BY DEF ExpectSound, Channel!Decodes
    <2>1. /\ x[1] = reported /\ loop[x[1]].sound /\ x[1] \in Channel!Thread
          /\ \/ x[2] \in heard
             \/ \E i \in 1..Len(inbox[x[1]]) :
                  inbox[x[1]][i].number = x[2] /\ Channel!Decodes(inbox[x[1]][i].hint)
      BY <1>f DEF HintInv, HintTypes, ExpectSound
    <2>2. x[1] # t
      BY <1>f, <2>1
    <2> QED BY <2>1, <2>2, <1>4, <1>e, <1>f
  <1> QED BY <1>4, <1>5, <1>6, <1>7 DEF HintInv

(* Finish keeps the invariant of the subscriber. *)
LEMMA HintFinish ==
    ASSUME HintInv, NEW t \in Channel!Thread, Channel!Finish(t)
    PROVE  HintInv'
  <1> DEFINE r == Channel!Down
  <1>1. r \in SubscriberLoop /\ LoopSound(r) /\ ~r.sound /\ ~r.subscribed /\ r.at = "ended"
    BY ChannelBounds DEF SubscriberLoop, LoopSound, Channel!Down
  <1>2. loop' = [loop EXCEPT ![t] = r]
    BY DEF Channel!Finish
  <1>3. UNCHANGED <<hints, numbered, subscriber, starting, halted, event>>
    BY DEF Channel!Finish
  <1>a. loop[t].at # "ended" \/ r.at = "ended"
    BY <1>1 DEF HintInv, ThreadSound, Channel!Finish
  <1> HIDE DEF r
  <1>4. /\ loop' \in [Channel!Thread -> SubscriberLoop]
        /\ loop'[t] = r /\ \A u \in Channel!Thread \ {t} : loop'[u] = loop[u]
        /\ (\A u \in Channel!Thread : ThreadSound(u))'
        /\ (\A u \in Channel!Thread : LoopSound(loop[u]))'
    BY <1>1, <1>2, <1>3, <1>a, LoopStep
  <1>b. /\ inbox' = [inbox EXCEPT ![t] = <<>>] /\ inbox \in [Channel!Thread -> Seq([number : Nat, hint : Hint])]
    BY DEF HintInv, HintTypes, Channel!Finish
  <1>d. inbox' \in [Channel!Thread -> Seq([number : Nat, hint : Hint])]
    <2>1. <<>> \in Seq([number : Nat, hint : Hint])
      OBVIOUS
    <2> HIDE DEF Hint
    <2> QED BY <1>b, <2>1
  <1>e. \A u \in Channel!Thread \ {t} : inbox'[u] = inbox[u]
    BY <1>b
  <1>f. /\ expected' = expected /\ heard' = heard /\ reported' = reported /\ reported # t
    BY ChannelBounds DEF Channel!Finish, HintInv, HintTypes, ReportSound
  <1>5. HintTypes'
    BY <1>3, <1>4, <1>d, <1>f DEF HintInv, HintTypes
  <1>6. ReportSound'
    BY <1>1, <1>3, <1>4, <1>f, ChannelBounds DEF HintInv, ReportSound, HintTypes
  <1>7. ExpectSound'
    <2> SUFFICES ASSUME NEW x \in expected'
                 PROVE  /\ x[1] = reported' /\ loop'[x[1]].sound
                        /\ \/ x[2] \in heard'
                           \/ \E i \in 1..Len(inbox'[x[1]]) :
                                inbox'[x[1]][i].number = x[2] /\ Channel!Decodes(inbox'[x[1]][i].hint)
      BY DEF ExpectSound, Channel!Decodes
    <2>1. /\ x[1] = reported /\ loop[x[1]].sound /\ x[1] \in Channel!Thread
          /\ \/ x[2] \in heard
             \/ \E i \in 1..Len(inbox[x[1]]) :
                  inbox[x[1]][i].number = x[2] /\ Channel!Decodes(inbox[x[1]][i].hint)
      BY <1>f DEF HintInv, HintTypes, ExpectSound
    <2>2. x[1] # t
      BY <1>f, <2>1
    <2> QED BY <2>1, <2>2, <1>4, <1>e, <1>f
  <1> QED BY <1>4, <1>5, <1>6, <1>7 DEF HintInv

(* Connect keeps the invariant of the subscriber. *)
LEMMA HintConnect ==
    ASSUME HintInv, NEW t \in Channel!Thread, Channel!Connect(t)
    PROVE  HintInv'
  <1>1. PICK r \in SubscriberLoop :
            /\ LoopSound(r) /\ ~r.subscribed
            /\ loop' = [loop EXCEPT ![t] = r]
    <2>1. CASE loop' = [loop EXCEPT ![t] = Channel!Connected]
      <3>1. Channel!Connected \in SubscriberLoop
        <4>1. Channel!Down \in SubscriberLoop
          BY DEF Channel!Down, SubscriberLoop
        <4> QED BY <4>1, SetFields DEF Channel!Connected
      <3>2. /\ Channel!Connected.at = "confirming" /\ ~Channel!Connected.subscribed
            /\ Channel!Connected.silent = 0
        BY DEF Channel!Connected, Channel!Down
      <3>3. LoopSound(Channel!Connected)
        BY <3>2, ChannelBounds DEF LoopSound
      <3> QED BY <2>1, <3>1, <3>2, <3>3
    <2>2. CASE loop' = [loop EXCEPT ![t].at = "backoff"]
      <3> DEFINE b == [loop[t] EXCEPT !.at = "backoff"]
      <3>0. loop[t] \in SubscriberLoop /\ LoopSound(loop[t]) /\ loop[t].at = "connecting"
        BY DEF HintInv, HintTypes, Channel!Connect
      <3>1. b \in SubscriberLoop /\ LoopSound(b) /\ ~b.subscribed
        BY <3>0, ChannelBounds DEF SubscriberLoop, LoopSound
      <3>2. loop' = [loop EXCEPT ![t] = b]
        BY <2>2 DEF HintInv, HintTypes
      <3> QED BY <3>1, <3>2
    <2> QED BY <2>1, <2>2 DEF Channel!Connect
  <1>2. ~loop[t].subscribed /\ loop[t].at = "connecting"
    BY DEF Channel!Connect, HintInv, LoopSound
  <1>3. UNCHANGED <<hints, numbered, subscriber, starting, reported, halted, event, inbox, heard, expected>>
    BY DEF Channel!Connect
  <1>4. /\ loop' \in [Channel!Thread -> SubscriberLoop]
        /\ loop'[t] = r /\ \A u \in Channel!Thread \ {t} : loop'[u] = loop[u]
        /\ (\A u \in Channel!Thread : ThreadSound(u))'
        /\ (\A u \in Channel!Thread : LoopSound(loop[u]))'
    BY <1>1, <1>2, <1>3, LoopStep
  <1>5. HintTypes'
    BY <1>3, <1>4 DEF HintInv, HintTypes
  <1>6. reported # t /\ (reported = Unset \/ reported \in Channel!Thread)
    BY <1>2, ChannelBounds DEF HintInv, HintTypes, ReportSound
  <1>7. ReportSound'
    BY <1>3, <1>4, <1>6, ChannelBounds DEF HintInv, ReportSound, HintTypes
  <1>8. ExpectSound'
    BY <1>3, <1>4, <1>6, ChannelBounds DEF HintInv, ExpectSound, HintTypes, Channel!Decodes
  <1> QED BY <1>4, <1>5, <1>7, <1>8 DEF HintInv

(* The first hint that is left, and the rest. *)
LEMMA HintsTail ==
    ASSUME HintInv, hints # <<>>
    PROVE  Head(hints) \in Hint /\ Tail(hints) \in Seq(Hint)
  BY HeadTailProperties DEF HintInv, HintTypes

(* Notify keeps the invariant of the subscriber. *)
LEMMA HintNotify ==
    ASSUME HintInv, Channel!Notify
    PROVE  HintInv'
  <1> DEFINE h == Head(hints)
             M == [number : Nat, hint : Hint]
             m == [number |-> numbered + 1, hint |-> h]
  <1>0. /\ numbered \in Nat /\ inbox \in [Channel!Thread -> Seq(M)] /\ expected \subseteq Channel!Thread \X Nat
        /\ h \in Hint /\ hints' \in Seq(Hint)
    BY HintsTail DEF HintInv, HintTypes, Channel!Notify
  <1>1. m \in M
    BY <1>0
  <1>2. UNCHANGED <<subscriber, starting, reported, halted, event, loop, heard, losses>>
    BY DEF Channel!Notify
  <1>3. CASE UNCHANGED <<numbered, inbox, expected>>
    <2>1. HintTypes'
      BY <1>0, <1>2, <1>3 DEF HintInv, HintTypes
    <2> QED BY <2>1, <1>2, <1>3 DEF HintInv, ThreadSound, LoopSound, ReportSound, ExpectSound, Channel!Decodes
  <1>4. CASE /\ numbered' = numbered + 1
             /\ inbox' = Channel!Published(h)
             /\ expected' = IF Channel!Decodes(h) THEN expected \cup (Channel!Promised \X {numbered + 1}) ELSE expected
    <2> HIDE DEF h, M, m
    <2>1. inbox' = [t \in Channel!Thread |-> IF Channel!Receiving(t) THEN Append(inbox[t], m) ELSE inbox[t]]
      BY <1>4 DEF Channel!Published, m
    <2>2. ASSUME NEW t \in Channel!Thread
          PROVE  /\ inbox'[t] \in Seq(M)
                 /\ Len(inbox[t]) \in Nat
                 /\ \A i \in 1..Len(inbox[t]) : i \in 1..Len(inbox'[t]) /\ inbox'[t][i] = inbox[t][i]
                 /\ Channel!Receiving(t) =>
                      Len(inbox[t]) + 1 \in 1..Len(inbox'[t]) /\ inbox'[t][Len(inbox[t]) + 1] = m
      <3>1. inbox[t] \in Seq(M) /\ Len(inbox[t]) \in Nat
        BY <1>0, LenProperties
      <3>2. CASE ~Channel!Receiving(t)
        BY <2>1, <3>1, <3>2
      <3>3. CASE Channel!Receiving(t)
        <4>1. inbox'[t] = Append(inbox[t], m)
          BY <2>1, <3>3
        <4> QED BY <4>1, <3>1, <1>1, AppendProperties
      <3> QED BY <3>2, <3>3
    <2>3. inbox' \in [Channel!Thread -> Seq(M)]
      BY <2>1, <2>2
    <2>4. /\ expected' \subseteq Channel!Thread \X Nat
          /\ \A x \in expected' : x \in expected \/ (Channel!Decodes(h) /\ x \in Channel!Promised \X {numbered + 1})
      BY <1>0, <1>4 DEF Channel!Promised
    <2>5. HintTypes'
      <3>1. numbered' \in Nat
        BY <1>0, <1>4
      <3>2. UNCHANGED <<subscriber, starting, reported, halted, event, loop>>
        BY <1>2
      <3> HIDE <1>4
      <3> QED BY <1>0, <2>3, <2>4, <3>1, <3>2 DEF HintInv, HintTypes, M
    <2>6. ExpectSound'
      <3> SUFFICES ASSUME NEW x \in expected'
                   PROVE  /\ x[1] = reported /\ loop[x[1]].sound
                          /\ \/ x[2] \in heard
                             \/ \E i \in 1..Len(inbox'[x[1]]) :
                                  inbox'[x[1]][i].number = x[2] /\ Channel!Decodes(inbox'[x[1]][i].hint)
        BY <1>2 DEF ExpectSound, Channel!Decodes
      <3>1. CASE x \in expected
        <4>1. /\ x[1] = reported /\ loop[x[1]].sound /\ x[1] \in Channel!Thread
              /\ \/ x[2] \in heard
                 \/ \E i \in 1..Len(inbox[x[1]]) :
                      inbox[x[1]][i].number = x[2] /\ Channel!Decodes(inbox[x[1]][i].hint)
          BY <3>1, <1>0 DEF HintInv, ExpectSound
        <4> QED BY <4>1, <2>2
      <3>2. CASE Channel!Decodes(h) /\ x \in Channel!Promised \X {numbered + 1}
        <4>1. /\ x[1] \in Channel!Thread /\ x[1] = reported /\ loop[x[1]].sound /\ x[2] = numbered + 1
          BY <3>2 DEF Channel!Promised
        <4>2. Channel!Receiving(x[1])
          BY <4>1, ChannelBounds DEF HintInv, ReportSound, Channel!Receiving
        <4>3. m.number = x[2] /\ m.hint = h
          BY <4>1 DEF m
        <4> QED BY <4>1, <4>2, <4>3, <2>2, <3>2, SMTT(20)
      <3> QED BY <2>4, <3>1, <3>2
    <2> QED BY <1>2, <2>5, <2>6 DEF HintInv, ThreadSound, LoopSound, ReportSound
  <1> QED BY <1>3, <1>4 DEF Channel!Notify

(* NotifyFails keeps the invariant of the subscriber. *)
LEMMA HintNotifyFails ==
    ASSUME HintInv, Channel!NotifyFails
    PROVE  HintInv'
  <1>1. hints' \in Seq(Hint)
    BY HintsTail DEF Channel!NotifyFails
  <1>2. UNCHANGED <<numbered, subscriber, starting, reported, halted, event, loop, inbox, heard, expected>>
    BY DEF Channel!NotifyFails
  <1>3. HintTypes'
    BY <1>1, <1>2 DEF HintInv, HintTypes
  <1> QED BY <1>2, <1>3 DEF HintInv, ThreadSound, LoopSound, ReportSound, ExpectSound, Channel!Decodes

(* Start keeps the invariant of the subscriber. *)
LEMMA HintStart ==
    ASSUME HintInv, Channel!Start
    PROVE  HintInv'
  <1>1. PICK t \in Channel!Thread :
            /\ \A u \in Channel!Thread : event[u] = Unset <=> u >= t
            /\ subscriber' = t /\ starting' = t
            /\ event' = [event EXCEPT ![t] = t]
            /\ halted' = halted \ {t}
            /\ loop' = [loop EXCEPT ![t] = [Channel!Down EXCEPT !.at = "connecting"]]
    BY DEF Channel!Start, Channel!FreshEvent
  <1>2. UNCHANGED <<hints, numbered, reported, inbox, heard, expected, losses>>
    BY DEF Channel!Start
  <1>3. subscriber = Unset /\ starting = Unset /\ reported = Unset /\ event[t] = Unset
    BY <1>1, ChannelBounds DEF Channel!Start, HintInv, HintTypes, ReportSound
  <1> DEFINE r == [Channel!Down EXCEPT !.at = "connecting"]
  <1>4. r \in SubscriberLoop /\ LoopSound(r)
    BY DownSound
  <1> HIDE DEF r
  <1>5. /\ loop' \in [Channel!Thread -> SubscriberLoop]
        /\ loop'[t] = r /\ \A u \in Channel!Thread \ {t} : loop'[u] = loop[u]
    BY <1>1, <1>4 DEF HintInv, HintTypes, r
  <1>6. /\ event' \in [Channel!Thread -> Channel!Thread \cup {Unset}]
        /\ event'[t] = t /\ \A u \in Channel!Thread \ {t} : event'[u] = event[u]
    BY <1>1 DEF HintInv, HintTypes
  <1>7. HintTypes'
    BY <1>1, <1>2, <1>5, <1>6 DEF HintInv, HintTypes
  <1>8. expected = {}
    BY <1>3, ChannelBounds DEF HintInv, HintTypes, ExpectSound
  <1>9. ReportSound' /\ ExpectSound'
    BY <1>1, <1>2, <1>3, <1>6, <1>8 DEF ReportSound, ExpectSound
  <1>a. (\A u \in Channel!Thread : LoopSound(loop[u]))'
    <2>1. ASSUME NEW u \in Channel!Thread  PROVE LoopSound(loop'[u])
      BY <1>4, <1>5 DEF HintInv
    <2> QED BY <2>1 DEF LoopSound
  <1>b. ASSUME NEW u \in Channel!Thread  PROVE ThreadSound(u)'
    <2>1. CASE u = t
      BY <2>1, <1>1, <1>6, ChannelBounds DEF ThreadSound
    <2>2. CASE u # t
      BY <2>2, <1>1, <1>3, <1>5, <1>6, ChannelBounds DEF HintInv, ThreadSound
    <2> QED BY <2>1, <2>2
  <1>c. (\A u \in Channel!Thread : ThreadSound(u))'
    BY <1>b
  <1> QED BY <1>7, <1>9, <1>a, <1>c DEF HintInv

(* StartReturns keeps the invariant of the subscriber. *)
LEMMA HintStartReturns ==
    ASSUME HintInv, Channel!StartReturns
    PROVE  HintInv'
  <1>1. UNCHANGED <<hints, numbered, subscriber, halted, event, loop, inbox, heard, expected, losses>> /\ starting' = Unset
    BY DEF Channel!StartReturns
  <1>2. reported = Unset /\ expected = {}
    BY ChannelBounds DEF Channel!StartReturns, HintInv, HintTypes, ReportSound, ExpectSound
  <1>3. /\ reported' \in Channel!Thread \cup {Unset}
        /\ reported' # Unset => reported' = subscriber /\ loop[reported'].subscribed
    BY DEF Channel!StartReturns, Channel!Confirmed, HintInv, HintTypes, LoopSound
  <1>4. HintTypes'
    BY <1>1, <1>3 DEF HintInv, HintTypes
  <1>5. ReportSound' /\ ExpectSound'
    BY <1>1, <1>2, <1>3 DEF HintInv, ReportSound, ExpectSound
  <1> QED BY <1>1, <1>4, <1>5 DEF HintInv, ThreadSound, LoopSound

(* Stop keeps the invariant of the subscriber. *)
LEMMA HintStop ==
    ASSUME HintInv, Channel!Stop
    PROVE  HintInv'
  <1>1. UNCHANGED <<hints, numbered, starting, event, loop, inbox, heard, losses>>
    BY DEF Channel!Stop
  <1>2. /\ subscriber \in Channel!Thread /\ event[subscriber] = subscriber
        /\ halted' = halted \cup {subscriber} /\ reported' = Unset /\ expected' = {} /\ subscriber' = Unset
    BY DEF Channel!Stop, HintInv, HintTypes, ReportSound
  <1>3. HintTypes'
    BY <1>1, <1>2 DEF HintInv, HintTypes
  <1>4. ReportSound' /\ ExpectSound'
    BY <1>1, <1>2 DEF HintInv, ReportSound, ExpectSound
  <1>5. (\A u \in Channel!Thread : ThreadSound(u))'
    <2>1. ASSUME NEW u \in Channel!Thread  PROVE ThreadSound(u)'
      BY <1>1, <1>2, ChannelBounds DEF HintInv, ThreadSound
    <2> QED BY <2>1
  <1> QED BY <1>1, <1>3, <1>4, <1>5 DEF HintInv, LoopSound

(* A step of the process is a step of the channel or leaves it alone. *)
LEMMA HintSteps == [HostNext]_allVars => [Channel!Next]_HintVars
  BY DEF HostNext, allVars, HintVars

(* The invariant of the subscriber holds from the start and is kept. *)
LEMMA HintKept == HostSpec => []HintInv
  <1>1. HostInit => HintInv
    <2> SUFFICES ASSUME HostInit  PROVE HintInv
      OBVIOUS
    <2>0. (hints \in Hints \/ hints = <<>>) /\ Channel!Quiet
      BY DEF HostInit, Channel!Init, Channel!NoHints
    <2>1. hints \in Seq(Hint)
      BY <2>0, HostAssumption, EmptySeq
    <2>2. ASSUME NEW t \in Channel!Thread
          PROVE  /\ loop[t] = Channel!Down /\ event[t] = Unset /\ loop[t].at = "ended"
                 /\ loop[t] \in SubscriberLoop /\ LoopSound(loop[t])
      BY <2>0, ChannelBounds DEF Channel!Quiet, Channel!Down, SubscriberLoop, LoopSound
    <2>3. loop \in [Channel!Thread -> SubscriberLoop]
      BY <2>0, <2>2 DEF Channel!Quiet
    <2>4. HintTypes
      BY <2>0, <2>1, <2>3 DEF HintTypes, Channel!Quiet
    <2>5. \A t \in Channel!Thread : ThreadSound(t)
      BY <2>2 DEF ThreadSound
    <2>6. ReportSound /\ ExpectSound
      BY <2>0 DEF ReportSound, ExpectSound, Channel!Quiet
    <2> QED BY <2>2, <2>4, <2>5, <2>6 DEF HintInv
  <1>2. HintInv /\ [Channel!Next]_HintVars => HintInv'
    <2> SUFFICES ASSUME HintInv, [Channel!Next]_HintVars  PROVE HintInv'
      OBVIOUS
    <2>1. CASE UNCHANGED HintVars
      BY <2>1 DEF HintVars, HintInv, HintTypes, ThreadSound, LoopSound, ReportSound, ExpectSound, Channel!Decodes
    <2>2. CASE Channel!Notify \/ Channel!NotifyFails \/ Channel!Start \/ Channel!StartReturns \/ Channel!Stop
      BY <2>2, HintNotify, HintNotifyFails, HintStart, HintStartReturns, HintStop
    <2>3. ASSUME NEW t \in Channel!Thread,
                 \/ Channel!Connect(t) \/ Channel!Subscribed(t) \/ Channel!Receive(t) \/ Channel!SilentPoll(t)
                 \/ Channel!Disconnect(t) \/ Channel!GoSilent(t) \/ Channel!Retry(t) \/ Channel!Finish(t)
          PROVE  HintInv'
      BY <2>3, HintConnect, HintSubscribed, HintReceive, HintSilentPoll, HintDisconnect, HintGoSilent, HintRetry, HintFinish
    <2> QED BY <2>1, <2>2, <2>3 DEF Channel!Next
  <1> QED BY <1>1, <1>2, HintSteps, PTL DEF HostSpec

(* The invariant gives what a reader of the subscription is promised. *)
LEMMA HintSafe == HintInv => SubscriptionSound /\ Channel!OneSubscriber
  <1> SUFFICES ASSUME HintInv  PROVE SubscriptionSound /\ Channel!OneSubscriber
    OBVIOUS
  <1>1. Channel!HeardOnceReady
    BY DEF HintInv, ExpectSound, Channel!HeardOnceReady
  <1>2. Channel!ClientNotHeldIdle
    BY DEF HintInv, LoopSound, Channel!ClientNotHeldIdle
  <1>3. ASSUME NEW t \in Channel!Thread, loop[t].sound  PROVE ~Channel!Expired(t)
    <2>1. loop[t].silent \in Nat /\ loop[t].silent <= Keepalive
      BY <1>3 DEF HintInv, HintTypes, SubscriberLoop, LoopSound
    <2> QED BY <2>1, ChannelBounds DEF Channel!Expired
  <1>4. Channel!SoundNotExpired
    BY <1>3 DEF Channel!SoundNotExpired
  <1>5. Channel!OneSubscriber
    BY DEF HintInv, ThreadSound, Channel!OneSubscriber, Channel!Running
  <1> QED BY <1>1, <1>2, <1>4, <1>5 DEF SubscriptionSound, Channel!SubscriptionSound

(* A subscription that start reported hears what follows, is not given up while it is sound, and holds no *)
(* connection it does not use: for any number of restarts, lost connections and silences (_run, _listen). *)
THEOREM SubscriptionIsSound == HostSpec => []SubscriptionSound
  BY HintKept, HintSafe, PTL

(* Stopped, abandoned and started as often as one likes, a process has one consumer of the bus, one *)
(* subscriber and one job loop that go on (start, stop, start_job_worker).                          *)
THEOREM OneLoopOfEachKind == HostSpec => []OneLoopEach
  BY OneConsumerEach, HintKept, HintSafe, WorkKept, AtMostOneClaimer, PTL DEF OneLoopEach

(***************************************************************************)
(* The migrations                                                          *)
(***************************************************************************)
(* The tables, under their final names and under those of before 0.9, where the host may have one. *)
NewJobs == schema["prefixed"]["processing_jobs"]

OldJobs == schema["plain"]["processing_jobs"]

NewLog == schema["prefixed"]["event_log"]

OldLog == schema["plain"]["event_log"]

OwnObjects ==
    {"table", "queue", "queue_claim", "worker_claim", "dead_letter_notified_at", "dead_letter", "deferrals"}

Schemas == [Migrating!Naming -> [Migrating!Table -> SUBSET (OwnObjects \cup {"host"})]]

(* What each revision changes, in its transaction. *)
LEMMA ChangesOfEach ==
    /\ Migrating!Changes(1) = <<[do |-> "create", table |-> "event_log"], [do |-> "create", table |-> "processing_jobs"]>>
    /\ Migrating!Changes(2) = <<[do |-> "add", column |-> "queue"]>>
    /\ Migrating!Changes(3) = <<[do |-> "rename", table |-> "event_log"], [do |-> "rename", table |-> "processing_jobs"]>>
    /\ Migrating!Changes(4) = <<[do |-> "add", column |-> "dead_letter_notified_at"]>>
    /\ Migrating!Changes(5) = <<[do |-> "add", column |-> "deferrals"]>>
  BY DEF Migrating!Changes, Migrating!Initial, Migrating!DurableJobQueues, Migrating!PrefixTableNames,
         Migrating!DeadLetterNotified, Migrating!JobDeferrals

(* The indexes that each revision builds. *)
LEMMA IndexesOfEach ==
    /\ Migrating!Indexes(1) = <<>>
    /\ Migrating!Indexes(2) = <<"queue_claim", "worker_claim">>
    /\ Migrating!Indexes(3) = <<>>
    /\ Migrating!Indexes(4) = <<"dead_letter">>
    /\ Migrating!Indexes(5) = <<>>
  BY DEF Migrating!Indexes

(* The columns that each revision adds. *)
LEMMA ColumnsOfEach ==
    /\ Migrating!Columns(1) = {}
    /\ Migrating!Columns(2) = {"queue"}
    /\ Migrating!Columns(3) = {}
    /\ Migrating!Columns(4) = {"dead_letter_notified_at"}
    /\ Migrating!Columns(5) = {"deferrals"}
  <1>1. Migrating!Columns(1) = {}
    BY ChangesOfEach DEF Migrating!Columns
  <1>2. Migrating!Columns(2) = {"queue"}
    BY ChangesOfEach DEF Migrating!Columns
  <1>3. Migrating!Columns(3) = {}
    BY ChangesOfEach DEF Migrating!Columns
  <1>4. Migrating!Columns(4) = {"dead_letter_notified_at"}
    BY ChangesOfEach DEF Migrating!Columns
  <1>5. Migrating!Columns(5) = {"deferrals"}
    BY ChangesOfEach DEF Migrating!Columns
  <1> QED BY <1>1, <1>2, <1>3, <1>4, <1>5

(* The objects of the job table after each revision. *)
LEMMA ObjectsOfEach ==
    /\ Migrating!JobObjects(1) = {"table"}
    /\ Migrating!JobObjects(2) = {"table", "queue", "queue_claim", "worker_claim"}
    /\ Migrating!JobObjects(3) = {"table", "queue", "queue_claim", "worker_claim"}
    /\ Migrating!JobObjects(4) = OwnObjects \ {"deferrals"}
    /\ Migrating!JobObjects(5) = OwnObjects
  <1> DEFINE Of(q) == Migrating!Columns(q) \cup Migrating!Range(Migrating!Indexes(q))
  <1>1. Of(1) = {} /\ Of(3) = {} /\ Of(5) = {"deferrals"}
    BY ColumnsOfEach, IndexesOfEach DEF Migrating!Range
  <1>2. Of(2) = {"queue", "queue_claim", "worker_claim"}
    BY ColumnsOfEach, IndexesOfEach DEF Migrating!Range
  <1>3. Of(4) = {"dead_letter_notified_at", "dead_letter"}
    BY ColumnsOfEach, IndexesOfEach DEF Migrating!Range
  <1>4. ASSUME NEW r \in 1..5  PROVE Migrating!JobObjects(r) = {"table"} \cup UNION {Of(q) : q \in 1..r}
    BY DEF Migrating!JobObjects
  <1> HIDE DEF Of
  <1>5. 1..1 = {1} /\ 1..2 = {1, 2} /\ 1..3 = {1, 2, 3} /\ 1..4 = {1, 2, 3, 4} /\ 1..5 = {1, 2, 3, 4, 5}
    OBVIOUS
  <1>6. Migrating!JobObjects(1) = {"table"} \cup Of(1)
    BY <1>4, <1>5
  <1>7. Migrating!JobObjects(2) = {"table"} \cup Of(1) \cup Of(2)
    BY <1>4, <1>5
  <1>8. Migrating!JobObjects(3) = {"table"} \cup Of(1) \cup Of(2) \cup Of(3)
    BY <1>4, <1>5
  <1>9. Migrating!JobObjects(4) = {"table"} \cup Of(1) \cup Of(2) \cup Of(3) \cup Of(4)
    BY <1>4, <1>5
  <1>10. Migrating!JobObjects(5) = {"table"} \cup Of(1) \cup Of(2) \cup Of(3) \cup Of(4) \cup Of(5)
    BY <1>4, <1>5
  <1> QED BY <1>1, <1>2, <1>3, <1>6, <1>7, <1>8, <1>9, <1>10 DEF OwnObjects

(* The statements of each revision, on MySQL. *)
LEMMA StatementsOfEach ==
    /\ Migrating!Statements(1) = Migrating!Changes(1)
    /\ Migrating!Statements(2) = <<[do |-> "add", column |-> "queue"], [do |-> "add", column |-> "queue_claim"],
                                   [do |-> "add", column |-> "worker_claim"]>>
    /\ Migrating!Statements(3) = Migrating!Changes(3)
    /\ Migrating!Statements(4) = <<[do |-> "add", column |-> "dead_letter_notified_at"], [do |-> "add", column |-> "dead_letter"]>>
    /\ Migrating!Statements(5) = Migrating!Changes(5)
  <1> DEFINE Builds(r) == [i \in 1..Len(Migrating!Indexes(r)) |-> [do |-> "add", column |-> Migrating!Indexes(r)[i]]]
  <1>1. Builds(1) = <<>> /\ Builds(3) = <<>> /\ Builds(5) = <<>>
    BY IndexesOfEach
  <1>2. Builds(2) = <<[do |-> "add", column |-> "queue_claim"], [do |-> "add", column |-> "worker_claim"]>>
    <2> DEFINE Add(o) == [do |-> "add", column |-> o]
           I == Migrating!Indexes(2)
    <2>1. Builds(2) = [i \in 1..Len(I) |-> Add(I[i])]
      OBVIOUS
    <2>2. I = <<"queue_claim", "worker_claim">>
      BY IndexesOfEach
    <2> HIDE DEF Add, I, Builds
    <2>3. Builds(2) = <<Add("queue_claim"), Add("worker_claim")>>
      BY <2>1, <2>2
    <2> QED BY <2>3 DEF Add
  <1>3. Builds(4) = <<[do |-> "add", column |-> "dead_letter"]>>
    BY IndexesOfEach, SMTT(30)
  <1>4. \A r : Migrating!Statements(r) = Migrating!Changes(r) \o Builds(r)
    BY DEF Migrating!Statements
  <1> HIDE DEF Builds
  <1>5. Migrating!Statements(1) = Migrating!Changes(1) \o <<>> /\ Migrating!Statements(3) = Migrating!Changes(3) \o <<>>
        /\ Migrating!Statements(5) = Migrating!Changes(5) \o <<>>
    BY <1>1, <1>4
  <1>6. Migrating!Statements(1) = Migrating!Changes(1) /\ Migrating!Statements(3) = Migrating!Changes(3)
        /\ Migrating!Statements(5) = Migrating!Changes(5)
    BY <1>5, ChangesOfEach
  <1>7. Migrating!Statements(2) = <<[do |-> "add", column |-> "queue"], [do |-> "add", column |-> "queue_claim"],
                                   [do |-> "add", column |-> "worker_claim"]>>
    <2>1. ASSUME NEW a, NEW b, NEW c  PROVE <<a>> \o <<b, c>> = <<a, b, c>>
      <3> DEFINE S == {a, b, c}
      <3>1. <<a>> \in Seq(S) /\ <<b, c>> \in Seq(S) /\ <<a, b, c>> \in Seq(S)
        OBVIOUS
      <3> HIDE DEF S
      <3>2. <<a>> \o <<b, c>> \in Seq(S) /\ Len(<<a>> \o <<b, c>>) = 3
        BY <3>1
      <3>3. \A i \in 1..3 : (<<a>> \o <<b, c>>)[i] = <<a, b, c>>[i]
        BY <3>1
      <3>4. Len(<<a, b, c>>) = 3
        OBVIOUS
      <3> QED BY <3>1, <3>2, <3>3, <3>4, SeqEqual
    <2> QED BY <1>2, <1>4, <2>1, ChangesOfEach, Zenon
  <1>8. Migrating!Statements(4) = <<[do |-> "add", column |-> "dead_letter_notified_at"], [do |-> "add", column |-> "dead_letter"]>>
    <2>1. ASSUME NEW a, NEW b  PROVE <<a>> \o <<b>> = <<a, b>>
      <3> DEFINE S == {a, b}
      <3>1. <<a>> \in Seq(S) /\ <<b>> \in Seq(S) /\ <<a, b>> \in Seq(S)
        OBVIOUS
      <3> HIDE DEF S
      <3>2. <<a>> \o <<b>> \in Seq(S) /\ Len(<<a>> \o <<b>>) = 2
        BY <3>1
      <3>3. \A i \in 1..2 : (<<a>> \o <<b>>)[i] = <<a, b>>[i]
        BY <3>1
      <3>4. Len(<<a, b>>) = 2
        OBVIOUS
      <3> QED BY <3>1, <3>2, <3>3, <3>4, SeqEqual
    <2> QED BY <1>3, <1>4, <2>1, ChangesOfEach, Zenon
  <1> QED BY <1>6, <1>7, <1>8

(* What a table's creation makes of the schema. *)
LEMMA Creates ==
    ASSUME NEW s \in Schemas, NEW n \in Migrating!Naming, NEW t \in Migrating!Table
    PROVE  LET z == Migrating!Changed(s, n, [do |-> "create", table |-> t]) IN
           /\ z \in Schemas
           /\ \A a \in Migrating!Naming, b \in Migrating!Table : z[a][b] = IF a = n /\ b = t THEN {"table"} ELSE s[a][b]
  BY DEF Migrating!Changed, Schemas, OwnObjects

(* The schema with a column or an index more. *)
WithColumn(s, n, o) == Migrating!Changed(s, n, [do |-> "add", column |-> o])

(* What an object added to the job table makes of it. *)
LEMMA Adds ==
    ASSUME NEW s \in Schemas, NEW n \in Migrating!Naming, NEW o \in OwnObjects
    PROVE  WithColumn(s, n, o) \in Schemas
  BY DEF WithColumn, Migrating!Changed, Schemas, Migrating!Table

(* It is in the job table of the names it was added under, and nothing else is new. *)
LEMMA AddsOne ==
    ASSUME NEW s \in Schemas, NEW n \in Migrating!Naming, NEW o \in OwnObjects,
           NEW a \in Migrating!Naming, NEW b \in Migrating!Table
    PROVE  WithColumn(s, n, o)[a][b] = IF a = n /\ b = "processing_jobs" THEN s[a][b] \cup {o} ELSE s[a][b]
  BY DEF WithColumn, Migrating!Changed, Schemas, Migrating!Table

(* What a renaming makes of it. *)
LEMMA RenamesOne ==
    ASSUME NEW s \in Schemas, NEW n \in Migrating!Naming, NEW t \in Migrating!Table
    PROVE  LET z == Migrating!Changed(s, n, [do |-> "rename", table |-> t]) IN
           /\ z \in Schemas
           /\ \A b \in Migrating!Table : b # t => z["prefixed"][b] = s["prefixed"][b] /\ z["plain"][b] = s["plain"][b]
           /\ s["plain"][t] # {} /\ s["prefixed"][t] = {} => z["prefixed"][t] = s["plain"][t] /\ z["plain"][t] = {}
           /\ s["plain"][t] = {} \/ s["prefixed"][t] # {} =>
                z["prefixed"][t] = s["prefixed"][t] /\ z["plain"][t] = s["plain"][t]
  <1> DEFINE z == Migrating!Changed(s, n, [do |-> "rename", table |-> t])
         y == [s EXCEPT !["prefixed"][t] = s["plain"][t], !["plain"][t] = {}]
  <1>1. z = IF Migrating!Renames(s, t) THEN y ELSE s
    BY DEF Migrating!Changed
  <1>2. Migrating!Renames(s, t) <=> s["plain"][t] # {} /\ s["prefixed"][t] = {}
    BY DEF Migrating!Renames
  <1>3. /\ y \in Schemas
        /\ \A b \in Migrating!Table : b # t => y["prefixed"][b] = s["prefixed"][b] /\ y["plain"][b] = s["plain"][b]
        /\ y["prefixed"][t] = s["plain"][t] /\ y["plain"][t] = {}
    <2> DEFINE x == [s EXCEPT !["prefixed"][t] = s["plain"][t]]
    <2>1. x \in Schemas /\ x["prefixed"] = [s["prefixed"] EXCEPT ![t] = s["plain"][t]] /\ x["plain"] = s["plain"]
      BY DEF Schemas, Migrating!Naming
    <2>2. y = [x EXCEPT !["plain"][t] = {}]
      BY DEF Schemas
    <2> HIDE DEF x, y
    <2>3. y \in Schemas /\ y["prefixed"] = x["prefixed"] /\ y["plain"] = [x["plain"] EXCEPT ![t] = {}]
      BY <2>1, <2>2 DEF Schemas, Migrating!Naming
    <2>4. s["prefixed"] \in [Migrating!Table -> SUBSET (OwnObjects \cup {"host"})]
          /\ s["plain"] \in [Migrating!Table -> SUBSET (OwnObjects \cup {"host"})]
      BY DEF Schemas, Migrating!Naming
    <2> QED BY <2>1, <2>3, <2>4
  <1> HIDE DEF y, z
  <1>4. CASE Migrating!Renames(s, t)
    BY <1>1, <1>2, <1>3, <1>4 DEF z
  <1>5. CASE ~Migrating!Renames(s, t)
    BY <1>1, <1>2, <1>5 DEF z
  <1> QED BY <1>4, <1>5

(* The objects of the job table are added in one order: of those of a revision the last one tells that   *)
(* all are there.                                                                                        *)
Chained(X) ==
    /\ X \subseteq OwnObjects
    /\ X # {} => "table" \in X
    /\ "queue_claim" \in X => "queue" \in X
    /\ "worker_claim" \in X => "queue_claim" \in X
    /\ "dead_letter_notified_at" \in X => "worker_claim" \in X
    /\ "dead_letter" \in X => "dead_letter_notified_at" \in X
    /\ "deferrals" \in X => "dead_letter" \in X

Complete(X, r) ==
    /\ r >= 1 => "table" \in X
    /\ r >= 2 => "worker_claim" \in X
    /\ r >= 4 => "dead_letter" \in X
    /\ r >= 5 => "deferrals" \in X

(* The schema of a revision is there: from 0003 on under the final names, before it under either. *)
Reached(r) == Complete(NewJobs, r) \/ (r < 3 /\ Complete(OldJobs, r))

OfHost == OldJobs = {"host"}

(* The tables: JASIL has each under one name at most, renames the event log before the job table, and on *)
(* PostgreSQL both at once; what is recorded is there, and what is not valid is not counted.             *)
TablesSound ==
    /\ Chained(NewJobs)
    /\ OfHost \/ (Chained(OldJobs) /\ "dead_letter_notified_at" \notin OldJobs)
    /\ NewLog \in {{}, {"table"}} /\ OldLog \in {{}, {"table"}}
    /\ OldJobs # {} /\ ~OfHost => NewJobs = {} /\ (NewLog # {} \/ OldLog # {})
    /\ OldLog # {} => NewLog = {} /\ OldJobs # {} /\ ~OfHost
    /\ NewJobs # {} => NewLog # {}
    /\ dialect = "postgresql" /\ NewLog # {} => NewJobs # {}
    /\ Reached(recorded)

IndexesSound ==
    /\ invalid \subseteq {"queue_claim", "worker_claim", "dead_letter"}
    /\ \A i \in invalid : i \notin NewJobs /\ i \notin OldJobs
    /\ recorded = 0 \/ dialect = "mysql" => invalid = {}

Going(m) == mig[m].at \in {"waiting", "running", "building"}

AtWork(m) == mig[m].at \in {"running", "building"}

(* A run that will take the database for a fresh one. *)
WouldCreate(m) == mig[m].at = "inspecting" /\ mig[m].prefixed = {} /\ mig[m].plain # Migrating!Table

(* A database in which no run has completed the first revision and nothing of 0.8 is. *)
FreshDatabase ==
    /\ OldLog = {} /\ (OldJobs = {} \/ OfHost)
    /\ NewJobs \subseteq {"table"}
    /\ dialect = "postgresql" => NewJobs = {} /\ NewLog = {}

(* How far a run has come in a revision: what its earlier steps have made of the job table X. *)
StepSound(r, s, X) ==
    \/ s = 1
    \/ r = 1 /\ dialect = "mysql" /\ NewLog # {} /\ s \in {2, 3} /\ (s = 3 => NewJobs # {})
    \/ r = 2 /\ s = 2 /\ "queue" \in X
    \/ r = 2 /\ s = 3 /\ "queue_claim" \in X
    \/ r = 2 /\ s = 4 /\ "worker_claim" \in X
    \/ r = 3 /\ dialect = "mysql" /\ NewLog # {} /\ s \in {2, 3} /\ (s = 3 => OldJobs = {} \/ OfHost)
    \/ r = 4 /\ s = 2 /\ "dead_letter_notified_at" \in X
    \/ r = 4 /\ s = 3 /\ "dead_letter" \in X
    \/ r = 5 /\ dialect = "mysql" /\ s = 2 /\ "deferrals" \in X

(* The job table that a run changes. *)
JobsOf(m) == IF recorded >= 2 \/ mig[m].prefix = "prefixed" THEN NewJobs ELSE OldJobs

(* The prefix that a run has chosen still fits what is recorded. *)
PrefixSound(m) ==
    /\ mig[m].prefix \in Migrating!Naming
    /\ recorded = 0 => mig[m].prefix = "prefixed"
    /\ OfHost /\ mig[m].prefix = "plain" => recorded >= 3

WorkSound(m) ==
    /\ mig[m] \in [at : {"running", "building"}, prefix : Migrating!Naming, step : Nat]
    /\ lock = m /\ recorded < 5
    /\ StepSound(recorded + 1, mig[m].step, JobsOf(m))

BuildSound(m) ==
    /\ dialect = "postgresql"
    /\ (recorded = 1 /\ mig[m].step \in {2, 3}) \/ (recorded = 3 /\ mig[m].step = 2)

(* The revision that an adoption has found is there, and as long as none is recorded no other is. *)
MatchSound(m) ==
    /\ mig[m].match \in 1..5 /\ Reached(mig[m].match)
    /\ OfHost => mig[m].match >= 3
    /\ recorded = 0 /\ mig[m].match < 3 => OldLog # {}
    /\ recorded = 0 /\ "deferrals" \in NewJobs => mig[m].match = 5

MigratorSound(m) ==
    /\ mig[m].at = "inspecting" /\ mig[m].prefixed # {} => NewLog # {}
    /\ recorded = 0 /\ (Going(m) \/ WouldCreate(m)) => FreshDatabase
    /\ Going(m) => PrefixSound(m)
    /\ AtWork(m) => WorkSound(m)
    /\ mig[m].at = "building" => BuildSound(m)
    /\ mig[m].at = "stamping" => MatchSound(m)

(* No adoption has gone back over what another process did. *)
StraightSchema == "deferrals" \in NewJobs => recorded \in {0, 5}

StraightRun(m) ==
    /\ mig[m].at # "clashed"
    /\ Going(m) /\ recorded \in 1..2 /\ mig[m].prefix = "prefixed" => NewJobs # {}
    /\ Going(m) /\ recorded \in 1..2 /\ mig[m].prefix = "plain" => "table" \in OldJobs

Straight == StraightSchema /\ \A m \in Migrator : StraightRun(m)

MigrationTypes ==
    /\ dialect \in {"postgresql", "mysql"}
    /\ schema \in Schemas
    /\ recorded \in 0..5
    /\ mig = [m \in Migrator |-> mig[m]]

(* The migrations, as long as no run has chosen the old names beside new tables. *)
MigrationsSound ==
    /\ MigrationTypes /\ TablesSound /\ IndexesSound
    /\ \A m \in Migrator : MigratorSound(m)
    /\ dialect = "postgresql" /\ ~restamped => Straight

MigrationInv == ~misread => MigrationsSound

(***************************************************************************)
(* The migrations: what their steps make of the tables                     *)
(***************************************************************************)
TablesKept == NewJobs' = NewJobs /\ OldJobs' = OldJobs /\ NewLog' = NewLog /\ OldLog' = OldLog

AddedTo(n, o) ==
    /\ NewJobs' = IF n = "prefixed" THEN NewJobs \cup {o} ELSE NewJobs
    /\ OldJobs' = IF n = "prefixed" THEN OldJobs ELSE OldJobs \cup {o}
    /\ NewLog' = NewLog /\ OldLog' = OldLog

LogRenamed ==
    IF OldLog # {} /\ NewLog = {} THEN NewLog' = OldLog /\ OldLog' = {} ELSE NewLog' = NewLog /\ OldLog' = OldLog

JobsRenamed ==
    IF OldJobs # {} /\ NewJobs = {} THEN NewJobs' = OldJobs /\ OldJobs' = {} ELSE NewJobs' = NewJobs /\ OldJobs' = OldJobs

(* The names a run works under. *)
Place(m) == IF recorded >= 2 \/ mig[m].prefix = "prefixed" THEN "prefixed" ELSE "plain"

(* A run at work, by what the invariant says of it. *)
RunOf(m) ==
    /\ MigrationTypes
    /\ mig[m].prefix \in Migrating!Naming
    /\ recorded \in 0..4
    /\ recorded = 0 => mig[m].prefix = "prefixed"

(* They are those of its revision. *)
LEMMA PlaceOfRun ==
    ASSUME NEW m \in Migrator, RunOf(m)
    PROVE  /\ Migrating!NamingOf(m) = Place(m) /\ Place(m) \in Migrating!Naming
           /\ schema[Place(m)]["processing_jobs"] = JobsOf(m)
           /\ Migrating!Objects(m) = JobsOf(m)
           /\ Migrating!Revision = recorded + 1
  BY DEF Migrating!NamingOf, Migrating!Revision, Migrating!PrefixedFrom, Migrating!Objects, Migrating!Naming, Place, JobsOf,
         RunOf, NewJobs, OldJobs

(* An object added to the job table of a run. *)
LEMMA AddedThere ==
    ASSUME NEW m \in Migrator, RunOf(m), NEW o \in OwnObjects,
           schema' = Migrating!Changed(schema, Place(m), [do |-> "add", column |-> o])
    PROVE  schema' \in Schemas /\ AddedTo(Place(m), o)
  <1>1. schema \in Schemas /\ Place(m) \in Migrating!Naming
    BY PlaceOfRun DEF RunOf, MigrationTypes
  <1> DEFINE z == WithColumn(schema, Place(m), o)
  <1>2. /\ z \in Schemas
        /\ \A a \in Migrating!Naming, b \in Migrating!Table :
             z[a][b] = IF a = Place(m) /\ b = "processing_jobs" THEN schema[a][b] \cup {o} ELSE schema[a][b]
    <2>1. PICK n \in Migrating!Naming : n = Place(m)
      BY <1>1
    <2>2. PICK s \in Schemas : s = schema
      BY <1>1
    <2>3. WithColumn(s, n, o) \in Schemas
      BY Adds
    <2>4. ASSUME NEW a \in Migrating!Naming, NEW b \in Migrating!Table
          PROVE  WithColumn(s, n, o)[a][b] = IF a = n /\ b = "processing_jobs" THEN s[a][b] \cup {o} ELSE s[a][b]
      BY AddsOne
    <2> QED BY <2>1, <2>2, <2>3, <2>4
  <1>3. Place(m) = "prefixed" \/ Place(m) = "plain"
    BY DEF Place
  <1>4. schema' = z
    BY DEF WithColumn
  <1> HIDE DEF z
  <1> QED BY <1>2, <1>3, <1>4 DEF AddedTo, NewJobs, OldJobs, NewLog, OldLog, Migrating!Naming, Migrating!Table

(* A table that is created under the final names. *)
LEMMA CreatedThere ==
    ASSUME NEW s \in Schemas, NEW t \in Migrating!Table
    PROVE  LET z == Migrating!Changed(s, "prefixed", [do |-> "create", table |-> t]) IN
           /\ z \in Schemas
           /\ z["prefixed"][t] = {"table"}
           /\ z["plain"]["event_log"] = s["plain"]["event_log"]
           /\ z["plain"]["processing_jobs"] = s["plain"]["processing_jobs"]
           /\ \A b \in Migrating!Table : b # t => z["prefixed"][b] = s["prefixed"][b]
  BY Creates DEF Migrating!Naming, Migrating!Table

(* The changes of a revision that makes one, and of one that makes two. *)
LEMMA OneChange == ASSUME NEW s, NEW n, NEW c  PROVE Migrating!ChangedBy(s, n, <<c>>) = Migrating!Changed(s, n, c)
  <1>1. <<c>> # <<>> /\ Len(<<c>>) = 1 /\ <<c>>[1] = c
    OBVIOUS
  <1> QED BY <1>1 DEF Migrating!ChangedBy

(* A revision that makes two makes the second of what the first left. *)
LEMMA TwoChanges ==
    ASSUME NEW s, NEW n, NEW c, NEW d
    PROVE  Migrating!ChangedBy(s, n, <<c, d>>) = Migrating!Changed(Migrating!Changed(s, n, c), n, d)
  <1>1. <<c, d>> # <<>> /\ Len(<<c, d>>) = 2 /\ <<c, d>>[1] = c /\ <<c, d>>[2] = d
    OBVIOUS
  <1> QED BY <1>1 DEF Migrating!ChangedBy

(* A revision that resumes makes none. *)
LEMMA NoChange == ASSUME NEW s, NEW n  PROVE Migrating!ChangedBy(s, n, <<>>) = s
  BY DEF Migrating!ChangedBy

(* The transaction of a revision is made of its changes, unless an earlier run committed them. *)
TransactionOf(m, changes) ==
    IF \A i \in DOMAIN changes : Migrating!Accepted(schema, Place(m), changes[i])
    THEN /\ schema' = Migrating!ChangedBy(schema, Place(m), changes)
         /\ IF Migrating!Indexes(recorded + 1) = <<>> THEN Migrating!Recorded(m)
            ELSE mig' = [mig EXCEPT ![m].step = 2] /\ UNCHANGED <<recorded, lock>>
    ELSE Migrating!Clash(m)

(* That is what a run does on PostgreSQL. *)
LEMMA TransactionIs ==
    ASSUME NEW m \in Migrator, RunOf(m), Migrating!RunTransaction(m)
    PROVE  TransactionOf(m, IF Migrating!Resumed(Place(m), recorded + 1) THEN <<>> ELSE Migrating!Changes(recorded + 1))
  BY PlaceOfRun DEF Migrating!RunTransaction, TransactionOf

(* What was committed already is asked for only where indexes follow. *)
LEMMA ResumedIs ==
    ASSUME NEW m \in Migrator, RunOf(m)
    PROVE  Migrating!Resumed(Place(m), recorded + 1) <=>
             \/ recorded = 1 /\ "queue" \in JobsOf(m)
             \/ recorded = 3 /\ "dead_letter_notified_at" \in JobsOf(m)
  <1>1. recorded \in {0, 1, 2, 3, 4}
    BY DEF RunOf
  <1>2. schema[Place(m)]["processing_jobs"] = JobsOf(m)
    BY PlaceOfRun
  <1>3. Migrating!Indexes(2) # <<>> /\ Migrating!Indexes(4) # <<>>
    BY IndexesOfEach
  <1>4. \A r : Migrating!Resumed(Place(m), r) <=> Migrating!Indexes(r) # <<>> /\ Migrating!Columns(r) \subseteq JobsOf(m)
    BY <1>2 DEF Migrating!Resumed
  <1> QED BY <1>1, <1>3, <1>4, IndexesOfEach, ColumnsOfEach

(* The first revision creates both tables. *)
LEMMA TransactionOne ==
    ASSUME NEW m \in Migrator, RunOf(m), Migrating!RunTransaction(m), recorded = 0
    PROVE  \/ Migrating!Clash(m) /\ (NewLog # {} \/ NewJobs # {})
           \/ /\ Migrating!Recorded(m) /\ schema' \in Schemas
              /\ NewLog = {} /\ NewJobs = {} /\ NewLog' = {"table"} /\ NewJobs' = {"table"}
              /\ OldLog' = OldLog /\ OldJobs' = OldJobs
  <1> DEFINE c == [do |-> "create", table |-> "event_log"]
         d == [do |-> "create", table |-> "processing_jobs"]
         y == Migrating!Changed(schema, "prefixed", c)
         z == Migrating!Changed(y, "prefixed", d)
  <1>1. TransactionOf(m, <<c, d>>)
    BY TransactionIs, ResumedIs, ChangesOfEach
  <1>2. Place(m) = "prefixed"
    BY DEF RunOf, Place
  <1>3. Migrating!Accepted(schema, "prefixed", c) <=> NewLog = {}
    BY DEF Migrating!Accepted, NewLog
  <1>4. Migrating!Accepted(schema, "prefixed", d) <=> NewJobs = {}
    BY DEF Migrating!Accepted, NewJobs
  <1>5. schema \in Schemas
    BY DEF RunOf, MigrationTypes
  <1>6. y \in Schemas /\ y["prefixed"]["event_log"] = {"table"} /\ y["plain"]["event_log"] = OldLog
        /\ y["plain"]["processing_jobs"] = OldJobs
    BY <1>5, CreatedThere DEF OldLog, OldJobs, Migrating!Table
  <1>7. z \in Schemas /\ z["prefixed"]["event_log"] = {"table"} /\ z["plain"]["event_log"] = OldLog
        /\ z["plain"]["processing_jobs"] = OldJobs /\ z["prefixed"]["processing_jobs"] = {"table"}
    <2> HIDE DEF y
    <2> QED BY <1>6, CreatedThere DEF Migrating!Table
  <1>8. Migrating!ChangedBy(schema, "prefixed", <<c, d>>) = z
    BY TwoChanges
  <1> HIDE DEF c, d, y, z
  <1>9. (\A i \in DOMAIN <<c, d>> : Migrating!Accepted(schema, "prefixed", <<c, d>>[i])) <=> NewLog = {} /\ NewJobs = {}
    BY <1>3, <1>4
  <1>10. Migrating!Indexes(recorded + 1) = <<>>
    BY IndexesOfEach
  <1>11. CASE NewLog = {} /\ NewJobs = {}
    <2>1. Migrating!Recorded(m) /\ schema' = z
      BY <1>1, <1>2, <1>8, <1>9, <1>10, <1>11 DEF TransactionOf
    <2> QED BY <1>7, <1>11, <2>1 DEF NewLog, NewJobs, OldLog, OldJobs
  <1>12. CASE ~(NewLog = {} /\ NewJobs = {})
    BY <1>1, <1>2, <1>9, <1>12 DEF TransactionOf
  <1> QED BY <1>11, <1>12

(* A transaction of one addition. *)
LEMMA TransactionAdds ==
    ASSUME NEW m \in Migrator, RunOf(m), NEW o \in OwnObjects, TransactionOf(m, <<[do |-> "add", column |-> o]>>)
    PROVE  \/ Migrating!Clash(m) /\ (JobsOf(m) = {} \/ o \in JobsOf(m))
           \/ /\ schema' \in Schemas /\ JobsOf(m) # {} /\ o \notin JobsOf(m) /\ AddedTo(Place(m), o)
              /\ IF Migrating!Indexes(recorded + 1) = <<>> THEN Migrating!Recorded(m)
                 ELSE mig' = [mig EXCEPT ![m].step = 2] /\ UNCHANGED <<recorded, lock>>
  <1> DEFINE c == [do |-> "add", column |-> o]
  <1>1. Migrating!Accepted(schema, Place(m), c) <=> JobsOf(m) # {} /\ o \notin JobsOf(m)
    BY PlaceOfRun DEF Migrating!Accepted
  <1>2. schema' = Migrating!Changed(schema, Place(m), c) => schema' \in Schemas /\ AddedTo(Place(m), o)
    BY AddedThere
  <1> HIDE DEF c
  <1>3. (\A i \in DOMAIN <<c>> : Migrating!Accepted(schema, Place(m), <<c>>[i])) <=> Migrating!Accepted(schema, Place(m), c)
    OBVIOUS
  <1>4. TransactionOf(m, <<c>>)
    BY DEF c
  <1> QED BY <1>1, <1>2, <1>3, <1>4, OneChange DEF TransactionOf

(* A transaction that finds its changes there. *)
LEMMA TransactionSkips ==
    ASSUME NEW m \in Migrator, TransactionOf(m, <<>>)
    PROVE  /\ schema' = schema
           /\ IF Migrating!Indexes(recorded + 1) = <<>> THEN Migrating!Recorded(m)
              ELSE mig' = [mig EXCEPT ![m].step = 2] /\ UNCHANGED <<recorded, lock>>
  <1>1. \A i \in DOMAIN <<>> : Migrating!Accepted(schema, Place(m), <<>>[i])
    OBVIOUS
  <1> QED BY <1>1, NoChange DEF TransactionOf

(* Where the schema is kept the tables are. *)
LEMMA SchemaKept == schema' = schema => TablesKept
  BY DEF TablesKept, NewJobs, OldJobs, NewLog, OldLog

(* A revision that builds indexes adds its column first, or finds it. *)
LEMMA TransactionBuilds ==
    ASSUME NEW m \in Migrator, RunOf(m), Migrating!RunTransaction(m), recorded \in {1, 3}
    PROVE  LET o == IF recorded = 1 THEN "queue" ELSE "dead_letter_notified_at" IN
           \/ Migrating!Clash(m) /\ JobsOf(m) = {}
           \/ /\ mig' = [mig EXCEPT ![m].step = 2] /\ UNCHANGED <<recorded, lock>>
              /\ schema' \in Schemas
              /\ \/ o \in JobsOf(m) /\ TablesKept
                 \/ JobsOf(m) # {} /\ o \notin JobsOf(m) /\ AddedTo(Place(m), o)
  <1> DEFINE o == IF recorded = 1 THEN "queue" ELSE "dead_letter_notified_at"
  <1>1. o \in OwnObjects
    BY DEF OwnObjects
  <1>2. Migrating!Indexes(recorded + 1) # <<>>
    BY IndexesOfEach
  <1>3. Migrating!Resumed(Place(m), recorded + 1) <=> o \in JobsOf(m)
    BY ResumedIs
  <1>4. Migrating!Changes(recorded + 1) = <<[do |-> "add", column |-> o]>>
    BY ChangesOfEach
  <1>5. schema \in Schemas
    BY DEF RunOf, MigrationTypes
  <1> HIDE DEF o
  <1>6. CASE o \in JobsOf(m)
    <2>1. TransactionOf(m, <<>>)
      BY <1>3, <1>6, TransactionIs
    <2> QED BY <1>2, <1>5, <1>6, <2>1, TransactionSkips, SchemaKept DEF o
  <1>7. CASE o \notin JobsOf(m)
    <2>1. TransactionOf(m, <<[do |-> "add", column |-> o]>>)
      BY <1>3, <1>4, <1>7, TransactionIs
    <2> QED BY <1>1, <1>2, <1>7, <2>1, TransactionAdds DEF o
  <1> QED BY <1>6, <1>7

(* The third revision renames what is not under its final name. *)
LEMMA TransactionThree ==
    ASSUME NEW m \in Migrator, RunOf(m), Migrating!RunTransaction(m), recorded = 2
    PROVE  Migrating!Recorded(m) /\ schema' \in Schemas /\ LogRenamed /\ JobsRenamed
  <1> DEFINE c == [do |-> "rename", table |-> "event_log"]
         d == [do |-> "rename", table |-> "processing_jobs"]
         y == Migrating!Changed(schema, "prefixed", c)
         z == Migrating!Changed(y, "prefixed", d)
  <1>1. TransactionOf(m, <<c, d>>)
    BY TransactionIs, ResumedIs, ChangesOfEach
  <1>2. Place(m) = "prefixed"
    BY DEF Place
  <1>3. Migrating!Accepted(schema, "prefixed", c) /\ Migrating!Accepted(schema, "prefixed", d)
    BY DEF Migrating!Accepted
  <1>4. schema \in Schemas /\ "prefixed" \in Migrating!Naming /\ "event_log" \in Migrating!Table /\ "processing_jobs" \in Migrating!Table
    BY DEF RunOf, MigrationTypes, Migrating!Naming, Migrating!Table
  <1>5. /\ y \in Schemas
        /\ y["prefixed"]["processing_jobs"] = NewJobs /\ y["plain"]["processing_jobs"] = OldJobs
        /\ OldLog # {} /\ NewLog = {} => y["prefixed"]["event_log"] = OldLog /\ y["plain"]["event_log"] = {}
        /\ OldLog = {} \/ NewLog # {} => y["prefixed"]["event_log"] = NewLog /\ y["plain"]["event_log"] = OldLog
    BY <1>4, RenamesOne DEF NewLog, OldLog, NewJobs, OldJobs
  <1>6. /\ z \in Schemas
        /\ z["prefixed"]["event_log"] = y["prefixed"]["event_log"] /\ z["plain"]["event_log"] = y["plain"]["event_log"]
        /\ OldJobs # {} /\ NewJobs = {} => z["prefixed"]["processing_jobs"] = OldJobs /\ z["plain"]["processing_jobs"] = {}
        /\ OldJobs = {} \/ NewJobs # {} =>
             z["prefixed"]["processing_jobs"] = NewJobs /\ z["plain"]["processing_jobs"] = OldJobs
    <2> HIDE DEF y
    <2>1. /\ z \in Schemas
          /\ \A b \in Migrating!Table : b # "processing_jobs" =>
                z["prefixed"][b] = y["prefixed"][b] /\ z["plain"][b] = y["plain"][b]
          /\ y["plain"]["processing_jobs"] # {} /\ y["prefixed"]["processing_jobs"] = {} =>
                z["prefixed"]["processing_jobs"] = y["plain"]["processing_jobs"] /\ z["plain"]["processing_jobs"] = {}
          /\ y["plain"]["processing_jobs"] = {} \/ y["prefixed"]["processing_jobs"] # {} =>
                z["prefixed"]["processing_jobs"] = y["prefixed"]["processing_jobs"]
                /\ z["plain"]["processing_jobs"] = y["plain"]["processing_jobs"]
      BY <1>4, <1>5, RenamesOne
    <2> HIDE DEF z
    <2> QED BY <1>4, <1>5, <2>1
  <1>7. Migrating!ChangedBy(schema, "prefixed", <<c, d>>) = z
    BY TwoChanges
  <1> HIDE DEF c, d, y, z
  <1>8. \A i \in DOMAIN <<c, d>> : Migrating!Accepted(schema, "prefixed", <<c, d>>[i])
    BY <1>3
  <1>9. Migrating!Indexes(recorded + 1) = <<>>
    BY IndexesOfEach
  <1>10. Migrating!Recorded(m) /\ schema' = z
    BY <1>1, <1>2, <1>7, <1>8, <1>9 DEF TransactionOf
  <1>11. NewLog' = z["prefixed"]["event_log"] /\ OldLog' = z["plain"]["event_log"]
         /\ NewJobs' = z["prefixed"]["processing_jobs"] /\ OldJobs' = z["plain"]["processing_jobs"]
    BY <1>10 DEF NewLog, OldLog, NewJobs, OldJobs
  <1>12. LogRenamed
    BY <1>5, <1>6, <1>11 DEF LogRenamed
  <1>13. JobsRenamed
    BY <1>6, <1>11 DEF JobsRenamed
  <1> QED BY <1>6, <1>10, <1>12, <1>13

(* The fifth adds its column. *)
LEMMA TransactionFive ==
    ASSUME NEW m \in Migrator, RunOf(m), Migrating!RunTransaction(m), recorded = 4
    PROVE  \/ Migrating!Clash(m) /\ (NewJobs = {} \/ "deferrals" \in NewJobs)
           \/ /\ Migrating!Recorded(m) /\ schema' \in Schemas /\ NewJobs # {} /\ "deferrals" \notin NewJobs
              /\ AddedTo("prefixed", "deferrals")
  <1>1. TransactionOf(m, <<[do |-> "add", column |-> "deferrals"]>>)
    BY TransactionIs, ResumedIs, ChangesOfEach
  <1>2. Place(m) = "prefixed" /\ JobsOf(m) = NewJobs
    BY DEF Place, JobsOf
  <1>3. Migrating!Indexes(recorded + 1) = <<>>
    BY IndexesOfEach
  <1> QED BY <1>1, <1>2, <1>3, TransactionAdds DEF OwnObjects

(* A statement of MySQL commits by itself, or is refused and the run with it. *)
StatementOf(m, change) ==
    IF Migrating!Accepted(schema, Place(m), change)
    THEN /\ schema' = Migrating!Changed(schema, Place(m), change)
         /\ mig' = [mig EXCEPT ![m].step = mig[m].step + 1]
         /\ UNCHANGED <<recorded, lock>>
    ELSE Migrating!Clash(m)

(* A run on MySQL runs the statement of its step. *)
LEMMA StatementIs ==
    ASSUME NEW m \in Migrator, RunOf(m), Migrating!RunStatement(m)
    PROVE  /\ mig[m].step \in 1..Len(Migrating!Statements(recorded + 1))
           /\ StatementOf(m, Migrating!Statements(recorded + 1)[mig[m].step])
  <1> DEFINE c == Migrating!Statements(recorded + 1)[mig[m].step]
  <1>1. mig[m].step \in 1..Len(Migrating!Statements(recorded + 1))
    BY PlaceOfRun DEF Migrating!RunStatement, Migrating!Step
  <1>2. IF Migrating!Accepted(schema, Place(m), c)
        THEN /\ schema' = Migrating!Changed(schema, Place(m), c)
             /\ mig' = [mig EXCEPT ![m].step = @ + 1]
             /\ UNCHANGED <<recorded, lock>>
        ELSE Migrating!Clash(m)
    BY PlaceOfRun DEF Migrating!RunStatement, Migrating!Step
  <1> QED BY <1>1, <1>2 DEF StatementOf

NextStep(m) == mig' = [mig EXCEPT ![m].step = mig[m].step + 1] /\ UNCHANGED <<recorded, lock>>

(* What each statement does. *)
LEMMA StatementCreates ==
    ASSUME NEW m \in Migrator, RunOf(m), recorded = 0
    PROVE  /\ StatementOf(m, [do |-> "create", table |-> "event_log"]) =>
                \/ Migrating!Clash(m)
                \/ /\ NextStep(m) /\ schema' \in Schemas
                   /\ NewLog' = {"table"} /\ NewJobs' = NewJobs /\ OldLog' = OldLog /\ OldJobs' = OldJobs
           /\ StatementOf(m, [do |-> "create", table |-> "processing_jobs"]) =>
                \/ Migrating!Clash(m)
                \/ /\ NextStep(m) /\ schema' \in Schemas /\ NewJobs = {}
                   /\ NewLog' = NewLog /\ NewJobs' = {"table"} /\ OldLog' = OldLog /\ OldJobs' = OldJobs
  <1>1. schema \in Schemas /\ Place(m) = "prefixed"
    BY DEF RunOf, MigrationTypes, Place
  <1>2. ASSUME StatementOf(m, [do |-> "create", table |-> "event_log"]), ~Migrating!Clash(m)
        PROVE  NextStep(m) /\ schema' \in Schemas
               /\ NewLog' = {"table"} /\ NewJobs' = NewJobs /\ OldLog' = OldLog /\ OldJobs' = OldJobs
    <2>1. NextStep(m) /\ schema' = Migrating!Changed(schema, "prefixed", [do |-> "create", table |-> "event_log"])
      BY <1>1, <1>2 DEF StatementOf, NextStep
    <2> QED BY <1>1, <2>1, CreatedThere DEF NewLog, NewJobs, OldLog, OldJobs, Migrating!Table
  <1>3. ASSUME StatementOf(m, [do |-> "create", table |-> "processing_jobs"]), ~Migrating!Clash(m)
        PROVE  NextStep(m) /\ schema' \in Schemas /\ NewJobs = {}
               /\ NewLog' = NewLog /\ NewJobs' = {"table"} /\ OldLog' = OldLog /\ OldJobs' = OldJobs
    <2>1. NextStep(m) /\ schema' = Migrating!Changed(schema, "prefixed", [do |-> "create", table |-> "processing_jobs"])
      BY <1>1, <1>3 DEF StatementOf, NextStep
    <2>2. NewJobs = {}
      BY <1>1, <1>3 DEF StatementOf, Migrating!Accepted, NewJobs
    <2> QED BY <1>1, <2>1, <2>2, CreatedThere DEF NewLog, NewJobs, OldLog, OldJobs, Migrating!Table
  <1> QED BY <1>2, <1>3

(* A statement that adds an object, under the names of the run. *)
LEMMA StatementAdds ==
    ASSUME NEW m \in Migrator, RunOf(m), NEW o \in OwnObjects, StatementOf(m, [do |-> "add", column |-> o])
    PROVE  \/ Migrating!Clash(m)
           \/ NextStep(m) /\ schema' \in Schemas /\ JobsOf(m) # {} /\ o \notin JobsOf(m) /\ AddedTo(Place(m), o)
  <1> DEFINE c == [do |-> "add", column |-> o]
  <1>1. Migrating!Accepted(schema, Place(m), c) <=> JobsOf(m) # {} /\ o \notin JobsOf(m)
    BY PlaceOfRun DEF Migrating!Accepted
  <1>2. schema' = Migrating!Changed(schema, Place(m), c) => schema' \in Schemas /\ AddedTo(Place(m), o)
    BY AddedThere
  <1>3. StatementOf(m, c)
    OBVIOUS
  <1> HIDE DEF c
  <1> QED BY <1>1, <1>2, <1>3 DEF StatementOf, NextStep

(* A statement that renames a table, where the other name is free. *)
LEMMA StatementRenames ==
    ASSUME NEW m \in Migrator, RunOf(m), recorded = 2
    PROVE  /\ StatementOf(m, [do |-> "rename", table |-> "event_log"]) =>
                NextStep(m) /\ schema' \in Schemas /\ LogRenamed /\ NewJobs' = NewJobs /\ OldJobs' = OldJobs
           /\ StatementOf(m, [do |-> "rename", table |-> "processing_jobs"]) =>
                NextStep(m) /\ schema' \in Schemas /\ JobsRenamed /\ NewLog' = NewLog /\ OldLog' = OldLog
  <1>1. schema \in Schemas /\ Place(m) = "prefixed"
    BY DEF RunOf, MigrationTypes, Place
  <1>2. ASSUME NEW t \in Migrating!Table, StatementOf(m, [do |-> "rename", table |-> t])
        PROVE  /\ NextStep(m) /\ schema' \in Schemas
               /\ \A b \in Migrating!Table : b # t =>
                    schema'["prefixed"][b] = schema["prefixed"][b] /\ schema'["plain"][b] = schema["plain"][b]
               /\ schema["plain"][t] # {} /\ schema["prefixed"][t] = {} =>
                    schema'["prefixed"][t] = schema["plain"][t] /\ schema'["plain"][t] = {}
               /\ schema["plain"][t] = {} \/ schema["prefixed"][t] # {} =>
                    schema'["prefixed"][t] = schema["prefixed"][t] /\ schema'["plain"][t] = schema["plain"][t]
    <2> DEFINE c == [do |-> "rename", table |-> t]
           z == Migrating!Changed(schema, "prefixed", c)
    <2>1. Migrating!Accepted(schema, Place(m), c)
      BY DEF Migrating!Accepted
    <2>2. NextStep(m) /\ schema' = z
      BY <1>1, <1>2, <2>1 DEF StatementOf, NextStep
    <2>3. /\ z \in Schemas
          /\ \A b \in Migrating!Table : b # t => z["prefixed"][b] = schema["prefixed"][b] /\ z["plain"][b] = schema["plain"][b]
          /\ schema["plain"][t] # {} /\ schema["prefixed"][t] = {} => z["prefixed"][t] = schema["plain"][t] /\ z["plain"][t] = {}
          /\ schema["plain"][t] = {} \/ schema["prefixed"][t] # {} =>
               z["prefixed"][t] = schema["prefixed"][t] /\ z["plain"][t] = schema["plain"][t]
      BY <1>1, RenamesOne DEF Migrating!Naming
    <2> HIDE DEF c, z
    <2> QED BY <2>2, <2>3
  <1>3. ASSUME StatementOf(m, [do |-> "rename", table |-> "event_log"])
        PROVE  NextStep(m) /\ schema' \in Schemas /\ LogRenamed /\ NewJobs' = NewJobs /\ OldJobs' = OldJobs
    BY <1>2, <1>3 DEF LogRenamed, NewLog, NewJobs, OldLog, OldJobs, Migrating!Table
  <1>4. ASSUME StatementOf(m, [do |-> "rename", table |-> "processing_jobs"])
        PROVE  NextStep(m) /\ schema' \in Schemas /\ JobsRenamed /\ NewLog' = NewLog /\ OldLog' = OldLog
    BY <1>2, <1>4 DEF JobsRenamed, NewLog, NewJobs, OldLog, OldJobs, Migrating!Table
  <1> QED BY <1>3, <1>4

(* The objects that the statements of a revision add. *)
AddedBy(r, s) ==
    IF r = 2 THEN (IF s = 1 THEN "queue" ELSE IF s = 2 THEN "queue_claim" ELSE "worker_claim")
    ELSE IF r = 4 THEN (IF s = 1 THEN "dead_letter_notified_at" ELSE "dead_letter")
    ELSE "deferrals"

(* What a run does on MySQL. *)
LEMMA StatementEffect ==
    ASSUME NEW m \in Migrator, RunOf(m), Migrating!RunStatement(m)
    PROVE  \/ Migrating!Clash(m)
           \/ /\ recorded = 0 /\ mig[m].step = 1 /\ NextStep(m) /\ schema' \in Schemas
              /\ NewLog' = {"table"} /\ NewJobs' = NewJobs /\ OldLog' = OldLog /\ OldJobs' = OldJobs
           \/ /\ recorded = 0 /\ mig[m].step = 2 /\ NextStep(m) /\ schema' \in Schemas /\ NewJobs = {}
              /\ NewLog' = NewLog /\ NewJobs' = {"table"} /\ OldLog' = OldLog /\ OldJobs' = OldJobs
           \/ /\ recorded = 2 /\ mig[m].step = 1 /\ NextStep(m) /\ schema' \in Schemas
              /\ LogRenamed /\ NewJobs' = NewJobs /\ OldJobs' = OldJobs
           \/ /\ recorded = 2 /\ mig[m].step = 2 /\ NextStep(m) /\ schema' \in Schemas
              /\ JobsRenamed /\ NewLog' = NewLog /\ OldLog' = OldLog
           \/ /\ recorded \in {1, 3, 4} /\ NextStep(m) /\ schema' \in Schemas
              /\ recorded = 1 => mig[m].step \in 1..3
              /\ recorded = 3 => mig[m].step \in 1..2
              /\ recorded = 4 => mig[m].step = 1
              /\ JobsOf(m) # {} /\ AddedBy(recorded + 1, mig[m].step) \notin JobsOf(m)
              /\ AddedTo(Place(m), AddedBy(recorded + 1, mig[m].step))
  <1>1. recorded \in {0, 1, 2, 3, 4}
    BY DEF RunOf
  <1> DEFINE S == Migrating!Statements(recorded + 1)
  <1>2. mig[m].step \in 1..Len(S) /\ StatementOf(m, S[mig[m].step])
    BY StatementIs
  <1>3. CASE recorded \in {0, 2}
    <2>1. Len(S) = 2
      BY <1>3, StatementsOfEach, ChangesOfEach
    <2>2. mig[m].step \in {1, 2}
      BY <1>2, <2>1
    <2>3. CASE recorded = 0
      <3>1. S[1] = [do |-> "create", table |-> "event_log"] /\ S[2] = [do |-> "create", table |-> "processing_jobs"]
        BY <2>3, StatementsOfEach, ChangesOfEach
      <3> QED BY <1>2, <2>2, <2>3, <3>1, StatementCreates
    <2>4. CASE recorded = 2
      <3>1. S[1] = [do |-> "rename", table |-> "event_log"] /\ S[2] = [do |-> "rename", table |-> "processing_jobs"]
        BY <2>4, StatementsOfEach, ChangesOfEach
      <3> QED BY <1>2, <2>2, <2>4, <3>1, StatementRenames
    <2> QED BY <1>3, <2>3, <2>4
  <1>4. CASE recorded \in {1, 3, 4}
    <2> DEFINE o == AddedBy(recorded + 1, mig[m].step)
    <2>1. o \in OwnObjects
      BY DEF AddedBy, OwnObjects
    <2>2. /\ S[mig[m].step] = [do |-> "add", column |-> o]
          /\ recorded = 1 => mig[m].step \in 1..3
          /\ recorded = 3 => mig[m].step \in 1..2
          /\ recorded = 4 => mig[m].step = 1
      <3>1. CASE recorded = 1
        <4>1. Len(S) = 3 /\ S[1] = [do |-> "add", column |-> "queue"] /\ S[2] = [do |-> "add", column |-> "queue_claim"]
              /\ S[3] = [do |-> "add", column |-> "worker_claim"]
          BY <3>1, StatementsOfEach
        <4>2. mig[m].step \in {1, 2, 3}
          BY <1>2, <4>1
        <4> QED BY <3>1, <4>1, <4>2 DEF AddedBy
      <3>2. CASE recorded = 3
        <4>1. Len(S) = 2 /\ S[1] = [do |-> "add", column |-> "dead_letter_notified_at"]
              /\ S[2] = [do |-> "add", column |-> "dead_letter"]
          BY <3>2, StatementsOfEach
        <4>2. mig[m].step \in {1, 2}
          BY <1>2, <4>1
        <4> QED BY <3>2, <4>1, <4>2 DEF AddedBy
      <3>3. CASE recorded = 4
        <4>1. Len(S) = 1 /\ S[1] = [do |-> "add", column |-> "deferrals"]
          BY <3>3, StatementsOfEach, ChangesOfEach
        <4>2. mig[m].step = 1
          BY <1>2, <4>1
        <4> QED BY <3>3, <4>1, <4>2 DEF AddedBy
      <3> QED BY <1>4, <3>1, <3>2, <3>3
    <2>3. StatementOf(m, [do |-> "add", column |-> o])
      BY <1>2, <2>2
    <2> HIDE DEF o, S
    <2>4. \/ Migrating!Clash(m)
          \/ NextStep(m) /\ schema' \in Schemas /\ JobsOf(m) # {} /\ o \notin JobsOf(m) /\ AddedTo(Place(m), o)
      BY <2>1, <2>3, StatementAdds
    <2> QED BY <1>4, <2>2, <2>4 DEF o
  <1> QED BY <1>1, <1>3, <1>4

(* The index that a run builds, and its end. *)
LEMMA BuildOfRun ==
    ASSUME NEW m \in Migrator, RunOf(m), recorded \in {1, 3}, recorded = 1 => mig[m].step \in {2, 3}, recorded = 3 => mig[m].step = 2
    PROVE  /\ Migrating!BuildOf(m) = AddedBy(recorded + 1, mig[m].step)
           /\ AddedBy(recorded + 1, mig[m].step) \in {"queue_claim", "worker_claim", "dead_letter"}
  BY IndexesOfEach, PlaceOfRun DEF Migrating!BuildOf, Migrating!Step, AddedBy

(* A build that ends adds its index to the table of the run. *)
LEMMA BuildEnds ==
    ASSUME NEW m \in Migrator, RunOf(m), recorded \in {1, 3}, recorded = 1 => mig[m].step \in {2, 3}, recorded = 3 => mig[m].step = 2,
           Migrating!EndBuild(m)
    PROVE  schema' \in Schemas /\ AddedTo(Place(m), AddedBy(recorded + 1, mig[m].step))
  <1> DEFINE o == AddedBy(recorded + 1, mig[m].step)
  <1>1. o \in OwnObjects /\ Migrating!BuildOf(m) = o
    BY BuildOfRun DEF OwnObjects
  <1> HIDE DEF o
  <1>2. schema' = [schema EXCEPT ![Place(m)]["processing_jobs"] = @ \cup {o}]
    BY <1>1, PlaceOfRun DEF Migrating!EndBuild
  <1>3. schema' = Migrating!Changed(schema, Place(m), [do |-> "add", column |-> o])
    BY <1>2 DEF Migrating!Changed
  <1> QED BY <1>1, <1>3, AddedThere DEF o

(***************************************************************************)
(* The migrations: a process that moves without changing the database      *)
(***************************************************************************)
(* Only the process m moves. *)
Moved(m, c) == mig' = [mig EXCEPT ![m] = c]

(* One process moves and the others stay where they are. *)
LEMMA MovedIs ==
    ASSUME MigrationTypes, NEW m \in Migrator, NEW c, Moved(m, c)
    PROVE  /\ mig'[m] = c
           /\ \A x \in Migrator : x # m => mig'[x] = mig[x]
           /\ mig' = [x \in Migrator |-> mig'[x]]
  BY DEF MigrationTypes, Moved

DatabaseKept == UNCHANGED <<dialect, schema, recorded>>

(* Nothing that is said of a database changes with it kept. *)
LEMMA KeptDatabase ==
    ASSUME DatabaseKept
    PROVE  /\ TablesKept
           /\ TablesSound => TablesSound'
           /\ FreshDatabase <=> FreshDatabase'
           /\ OfHost <=> OfHost'
           /\ \A r \in Nat : Reached(r) <=> Reached(r)'
           /\ StraightSchema => StraightSchema'
  <1>1. TablesKept /\ recorded' = recorded /\ dialect' = dialect
    BY SchemaKept DEF DatabaseKept
  <1>2. OfHost <=> OfHost'
    BY <1>1 DEF TablesKept, OfHost
  <1>3. \A r : Reached(r) <=> Reached(r)'
    BY <1>1 DEF TablesKept, Reached
  <1>4. FreshDatabase <=> FreshDatabase'
    BY <1>1, <1>2 DEF TablesKept, FreshDatabase
  <1>5. TablesSound => TablesSound'
    BY <1>1, <1>2, <1>3 DEF TablesKept, TablesSound
  <1>6. StraightSchema => StraightSchema'
    BY <1>1 DEF TablesKept, StraightSchema
  <1> QED BY <1>1, <1>2, <1>3, <1>4, <1>5, <1>6

(* A process that stays where it is, in a database that does. *)
LEMMA StillSound ==
    ASSUME DatabaseKept, NEW x, mig'[x] = mig[x], AtWork(x) => lock' = lock, MigratorSound(x)
    PROVE  MigratorSound(x)'
  <1>1. TablesKept /\ recorded' = recorded /\ dialect' = dialect /\ (FreshDatabase <=> FreshDatabase') /\ (OfHost <=> OfHost')
    BY KeptDatabase DEF DatabaseKept
  <1>2. (Going(x) <=> Going(x)') /\ (AtWork(x) <=> AtWork(x)') /\ (WouldCreate(x) <=> WouldCreate(x)')
    BY DEF Going, AtWork, WouldCreate
  <1>3. PrefixSound(x) <=> PrefixSound(x)'
    BY <1>1 DEF PrefixSound
  <1>4. AtWork(x) => (WorkSound(x) <=> WorkSound(x)')
    <2>1. JobsOf(x)' = JobsOf(x)
      BY <1>1 DEF JobsOf, TablesKept
    <2>2. StepSound(recorded + 1, mig[x].step, JobsOf(x)) <=> StepSound(recorded + 1, mig[x].step, JobsOf(x))'
      BY <1>1, <2>1 DEF StepSound, TablesKept
    <2> QED BY <1>1, <2>2 DEF WorkSound
  <1>5. BuildSound(x) <=> BuildSound(x)'
    BY <1>1 DEF BuildSound
  <1>6. MatchSound(x) <=> MatchSound(x)'
    <2>1. \A r \in Nat : Reached(r) <=> Reached(r)'
      BY KeptDatabase
    <2> QED BY <1>1, <2>1 DEF MatchSound, TablesKept
  <1> QED BY <1>1, <1>2, <1>3, <1>4, <1>5, <1>6 DEF MigratorSound, TablesKept

(* The same of a process on PostgreSQL that nobody has gone back over. *)
LEMMA StillStraight ==
    ASSUME DatabaseKept, NEW x, mig'[x] = mig[x], StraightRun(x)
    PROVE  StraightRun(x)'
  <1>1. TablesKept /\ recorded' = recorded
    BY KeptDatabase DEF DatabaseKept
  <1> QED BY <1>1 DEF StraightRun, Going, TablesKept

(* So only the process that moves is to be looked at. *)
LEMMA QuietStep ==
    ASSUME MigrationsSound, NEW m \in Migrator, NEW c, Moved(m, c), DatabaseKept, IndexesSound', restamped' = restamped,
           \A x \in Migrator : x # m /\ AtWork(x) => lock' = lock,
           MigratorSound(m)',
           dialect = "postgresql" /\ ~restamped => StraightRun(m)'
    PROVE  MigrationsSound'
  <1>1. MigrationTypes'
    BY MovedIs DEF MigrationsSound, MigrationTypes, DatabaseKept
  <1>2. TablesSound'
    BY KeptDatabase DEF MigrationsSound
  <1>3. \A x \in Migrator : x # m => mig'[x] = mig[x]
    BY MovedIs DEF MigrationsSound
  <1>4. ASSUME NEW x \in Migrator  PROVE MigratorSound(x)'
    BY <1>3, StillSound DEF MigrationsSound
  <1>5. ASSUME dialect' = "postgresql", ~restamped'  PROVE Straight'
    <2>1. Straight /\ StraightRun(m)'
      BY <1>5 DEF MigrationsSound, DatabaseKept
    <2>2. ASSUME NEW x \in Migrator  PROVE StraightRun(x)'
      BY <1>3, <2>1, StillStraight DEF Straight
    <2> QED BY <2>1, <2>2, KeptDatabase DEF Straight
  <1> QED BY <1>1, <1>2, <1>4, <1>5 DEF MigrationsSound

(* A process that is at nothing that counts. *)
Resting(c) == c.at \in {"idle", "refused", "clashed", "failed", "matching", "done"}

(* Nothing is asked of a process that holds nothing, except that it has not clashed. *)
LEMMA RestingSound ==
    ASSUME NEW m, Resting(mig'[m])
    PROVE  MigratorSound(m)' /\ (mig'[m].at # "clashed" => StraightRun(m)')
  BY DEF Resting, MigratorSound, StraightRun, Going, AtWork, WouldCreate

(* The indexes are as sound as the database that is kept. *)
LEMMA IndexesKept == IndexesSound /\ DatabaseKept /\ UNCHANGED invalid => IndexesSound'
  <1> SUFFICES ASSUME IndexesSound, DatabaseKept, UNCHANGED invalid  PROVE IndexesSound'
    OBVIOUS
  <1>1. TablesKept
    BY KeptDatabase
  <1> QED BY <1>1 DEF IndexesSound, DatabaseKept, TablesKept

(* A process at work has the lock, and so no other is. *)
LEMMA OneAtWork ==
    ASSUME MigrationsSound, NEW m \in Migrator, NEW x \in Migrator, lock # x \/ (AtWork(m) /\ x # m)
    PROVE  ~AtWork(x)
  BY DEF MigrationsSound, MigratorSound, WorkSound

(* Which names there are tables under. *)
LEMMA PresentIs ==
    ASSUME MigrationsSound
    PROVE  /\ Migrating!Present("prefixed") # {} <=> NewLog # {}
           /\ Migrating!Present("plain") # Migrating!Table => OldLog = {} \/ OldJobs = {}
           /\ Migrating!Present("plain") = Migrating!Table => OldLog # {} /\ OldJobs # {}
  BY DEF Migrating!Present, Migrating!Table, MigrationsSound, TablesSound, NewLog, NewJobs, OldLog, OldJobs

(* upgrade looks at the tables. *)
LEMMA ReadTablesSound ==
    ASSUME MigrationsSound, NEW m \in Migrator, Migrating!ReadTables(m)
    PROVE  MigrationsSound'
  <1> DEFINE c == [at |-> "inspecting", prefixed |-> Migrating!Present("prefixed"), plain |-> Migrating!Present("plain")]
  <1>1. Moved(m, c) /\ DatabaseKept /\ UNCHANGED <<invalid, lock, restamped>>
    BY DEF Migrating!ReadTables, Moved, DatabaseKept
  <1>2. mig'[m] = c
    BY <1>1, MovedIs DEF MigrationsSound
  <1>3. c.at = "inspecting" /\ c.prefixed = Migrating!Present("prefixed") /\ c.plain = Migrating!Present("plain")
    OBVIOUS
  <1> HIDE DEF c
  <1>4. TablesKept /\ recorded' = recorded /\ (FreshDatabase <=> FreshDatabase')
    BY <1>1, KeptDatabase DEF DatabaseKept
  <1>5. WouldCreate(m)' /\ recorded = 0 => FreshDatabase
    <2> SUFFICES ASSUME WouldCreate(m)', recorded = 0  PROVE FreshDatabase
      OBVIOUS
    <2>1. Migrating!Present("prefixed") = {} /\ Migrating!Present("plain") # Migrating!Table
      BY <1>2, <1>3 DEF WouldCreate
    <2>2. NewLog = {} /\ (OldLog = {} \/ OldJobs = {})
      BY <2>1, PresentIs
    <2> QED BY <2>2 DEF MigrationsSound, TablesSound, FreshDatabase
  <1>6. MigratorSound(m)'
    BY <1>2, <1>3, <1>4, <1>5, PresentIs DEF MigratorSound, Going, AtWork, TablesKept, MigrationsSound
  <1>7. StraightRun(m)'
    BY <1>2, <1>3 DEF StraightRun, Going
  <1>8. IndexesSound'
    BY <1>1, IndexesKept DEF MigrationsSound
  <1> QED BY <1>1, <1>6, <1>7, <1>8, QuietStep

(* upgrade reads the revision and chooses the names. *)
LEMMA ReadRevisionSound ==
    ASSUME MigrationsSound, NEW m \in Migrator, Migrating!ReadRevision(m), ~misread'
    PROVE  MigrationsSound'
  <1> DEFINE p == Migrating!FreshInstallPrefix(mig[m])
         c == IF p = "refused" THEN [at |-> "refused"] ELSE [at |-> "waiting", prefix |-> p]
  <1>1. Moved(m, c) /\ DatabaseKept /\ UNCHANGED <<invalid, lock, restamped>> /\ mig[m].at = "inspecting"
    BY DEF Migrating!ReadRevision, Moved, DatabaseKept
  <1>2. mig'[m] = c
    BY <1>1, MovedIs DEF MigrationsSound
  <1>3. ~(p = "plain" /\ recorded < 3 /\ Migrating!Present("prefixed") # {})
    BY DEF Migrating!ReadRevision, Migrating!PrefixedFrom
  <1>4. /\ recorded # 0 /\ mig[m].prefixed # {} => p = "prefixed"
        /\ recorded # 0 /\ mig[m].prefixed = {} => p = "plain"
        /\ recorded = 0 /\ (mig[m].prefixed # {} \/ mig[m].plain = Migrating!Table) => p = "refused"
        /\ recorded = 0 /\ mig[m].prefixed = {} /\ mig[m].plain # Migrating!Table => p = "prefixed"
    BY DEF Migrating!FreshInstallPrefix
  <1> HIDE DEF p
  <1>5. TablesKept /\ recorded' = recorded /\ (FreshDatabase <=> FreshDatabase') /\ (OfHost <=> OfHost')
    BY <1>1, KeptDatabase DEF DatabaseKept
  <1>6. recorded \in 0..5 /\ TablesSound /\ MigratorSound(m)
    BY DEF MigrationsSound, MigrationTypes
  <1>7. IndexesSound'
    BY <1>1, IndexesKept DEF MigrationsSound
  <1>8. CASE p = "refused"
    <2>1. Resting(mig'[m]) /\ mig'[m].at # "clashed"
      BY <1>2, <1>8 DEF Resting
    <2> QED BY <1>1, <1>7, <2>1, RestingSound, QuietStep
  <1>9. CASE p # "refused"
    <2>1. mig'[m].at = "waiting" /\ mig'[m].prefix = p
      BY <1>2, <1>9
    <2>2. p \in Migrating!Naming /\ (recorded = 0 => p = "prefixed")
      BY <1>4, <1>9 DEF Migrating!Naming
    <2>3. recorded = 0 => FreshDatabase
      BY <1>1, <1>4, <1>6, <1>9 DEF MigratorSound, WouldCreate
    <2>4. p = "plain" /\ recorded < 3 => recorded # 0 /\ NewLog = {}
      BY <1>3, <2>2, PresentIs
    <2>5. p = "plain" /\ recorded < 3 => "table" \in OldJobs
      BY <1>6, <2>4 DEF TablesSound, Reached, Complete
    <2>6. OfHost /\ p = "plain" => recorded >= 3
      BY <1>6, <2>5 DEF OfHost
    <2>7. PrefixSound(m)'
      BY <1>5, <2>1, <2>2, <2>6 DEF PrefixSound
    <2>8. MigratorSound(m)'
      BY <1>5, <2>1, <2>3, <2>7 DEF MigratorSound, Going, AtWork, WouldCreate
    <2>9. dialect = "postgresql" => StraightRun(m)'
      <3>1. ASSUME dialect = "postgresql", recorded \in 1..2, p = "prefixed"  PROVE NewJobs # {}
        <4>1. NewLog # {}
          BY <1>1, <1>4, <1>6, <3>1 DEF MigratorSound
        <4> QED BY <1>6, <3>1, <4>1 DEF TablesSound
      <3> QED BY <1>5, <2>1, <2>5, <3>1 DEF StraightRun, Going, TablesKept
    <2> QED BY <1>1, <1>7, <2>8, <2>9, QuietStep
  <1> QED BY <1>8, <1>9

(* A run takes the lock, or finds nothing to do. *)
LEMMA TakeLockSound ==
    ASSUME MigrationsSound, NEW m \in Migrator, Migrating!TakeLock(m)
    PROVE  MigrationsSound'
  <1>1. DatabaseKept /\ UNCHANGED <<invalid, restamped>> /\ mig[m].at = "waiting" /\ lock = Unset
    BY DEF Migrating!TakeLock, Migrating!LockFree, DatabaseKept
  <1>2. IndexesSound'
    BY <1>1, IndexesKept DEF MigrationsSound
  <1>3. ASSUME NEW x \in Migrator  PROVE ~AtWork(x)
    <2>1. lock # x
      BY <1>1, HostAssumption
    <2> QED BY <2>1, OneAtWork
  <1>4. CASE recorded = 5
    <2>1. Moved(m, [at |-> "done"])
      BY <1>4 DEF Migrating!TakeLock, Migrating!HeadRevision, Moved
    <2>2. mig'[m] = [at |-> "done"]
      BY <2>1, MovedIs DEF MigrationsSound
    <2>3. Resting(mig'[m]) /\ mig'[m].at # "clashed"
      BY <2>2 DEF Resting
    <2> QED BY <1>1, <1>2, <1>3, <2>1, <2>3, RestingSound, QuietStep
  <1>5. CASE recorded # 5
    <2> DEFINE c == [at |-> "running", prefix |-> mig[m].prefix, step |-> 1]
    <2>1. Moved(m, c) /\ lock' = m
      BY <1>5 DEF Migrating!TakeLock, Migrating!HeadRevision, Moved
    <2>2. mig'[m] = c
      BY <2>1, MovedIs DEF MigrationsSound
    <2>3. c.at = "running" /\ c.prefix = mig[m].prefix /\ c.step = 1
      OBVIOUS
    <2>4. TablesKept /\ recorded' = recorded /\ (FreshDatabase <=> FreshDatabase') /\ (OfHost <=> OfHost')
      BY <1>1, KeptDatabase DEF DatabaseKept
    <2>5. MigratorSound(m) /\ recorded \in 0..5
      BY DEF MigrationsSound, MigrationTypes
    <2>6. Going(m) /\ PrefixSound(m) /\ (recorded = 0 => FreshDatabase)
      BY <1>1, <2>5 DEF MigratorSound, Going
    <2>7. PrefixSound(m)'
      BY <2>2, <2>3, <2>4, <2>6 DEF PrefixSound
    <2>8. WorkSound(m)'
      <3>1. mig'[m] \in [at : {"running", "building"}, prefix : Migrating!Naming, step : Nat]
        BY <2>2, <2>6 DEF PrefixSound
      <3>2. mig'[m].step = 1 /\ recorded' < 5
        BY <1>5, <2>2, <2>3, <2>4, <2>5
      <3> QED BY <2>1, <3>1, <3>2 DEF WorkSound, StepSound
    <2>9. MigratorSound(m)'
      BY <2>2, <2>3, <2>4, <2>6, <2>7, <2>8 DEF MigratorSound, Going, AtWork, WouldCreate
    <2>10. dialect = "postgresql" /\ ~restamped => StraightRun(m)'
      <3>1. dialect = "postgresql" /\ ~restamped => StraightRun(m)
        BY DEF MigrationsSound, Straight
      <3> QED BY <2>2, <2>3, <2>4, <2>6, <3>1 DEF StraightRun, Going, TablesKept
    <2> QED BY <1>1, <1>2, <1>3, <2>1, <2>9, <2>10, QuietStep
  <1> QED BY <1>4, <1>5

(* What the invariant says of a run at work. *)
LEMMA RunAtWork ==
    ASSUME MigrationsSound, NEW m \in Migrator, AtWork(m)
    PROVE  /\ RunOf(m) /\ PrefixSound(m) /\ WorkSound(m)
           /\ mig[m].step \in Nat
           /\ \A x \in Migrator : x # m => ~AtWork(x)
           /\ recorded = 0 => FreshDatabase
  <1>1. MigratorSound(m) /\ Going(m) /\ MigrationTypes
    BY DEF MigrationsSound, Going, AtWork
  <1>2. PrefixSound(m) /\ WorkSound(m) /\ (recorded = 0 => FreshDatabase)
    BY <1>1 DEF MigratorSound
  <1>3. recorded \in 0..4 /\ mig[m].step \in Nat
    BY <1>1, <1>2 DEF MigrationTypes, WorkSound
  <1>4. RunOf(m)
    BY <1>1, <1>2, <1>3 DEF RunOf, PrefixSound
  <1> QED BY <1>2, <1>3, <1>4, OneAtWork

(* A run that goes on to another step of its revision, in a database that is kept. *)
LEMMA StepTaken ==
    ASSUME MigrationsSound, NEW m \in Migrator, AtWork(m), NEW a \in {"running", "building"}, NEW s \in Nat,
           Moved(m, [at |-> a, prefix |-> mig[m].prefix, step |-> s]), DatabaseKept, lock' = lock,
           StepSound(recorded + 1, s, JobsOf(m)),
           a = "building" => dialect = "postgresql" /\ ((recorded = 1 /\ s \in {2, 3}) \/ (recorded = 3 /\ s = 2))
    PROVE  MigratorSound(m)' /\ (dialect = "postgresql" /\ ~restamped => StraightRun(m)')
  <1> DEFINE c == [at |-> a, prefix |-> mig[m].prefix, step |-> s]
  <1>1. mig'[m] = c
    BY MovedIs DEF MigrationsSound
  <1>2. c.at = a /\ c.prefix = mig[m].prefix /\ c.step = s
    OBVIOUS
  <1>3. PrefixSound(m) /\ WorkSound(m) /\ (recorded = 0 => FreshDatabase)
    BY RunAtWork
  <1>4. c \in [at : {"running", "building"}, prefix : Migrating!Naming, step : Nat]
    BY <1>3 DEF PrefixSound
  <1> HIDE DEF c
  <1>5. TablesKept /\ recorded' = recorded /\ dialect' = dialect /\ (FreshDatabase <=> FreshDatabase') /\ (OfHost <=> OfHost')
    BY KeptDatabase DEF DatabaseKept
  <1>6. PrefixSound(m)'
    BY <1>1, <1>2, <1>3, <1>5 DEF PrefixSound
  <1>7. WorkSound(m)'
    <2>1. JobsOf(m)' = JobsOf(m)
      BY <1>1, <1>2, <1>5 DEF JobsOf, TablesKept
    <2>2. StepSound(recorded + 1, mig[m].step, JobsOf(m))'
      BY <1>1, <1>2, <1>5, <2>1 DEF StepSound, TablesKept, OfHost
    <2> QED BY <1>1, <1>3, <1>4, <1>5, <2>2 DEF WorkSound
  <1>8. mig'[m].at = "building" => BuildSound(m)'
    BY <1>1, <1>2, <1>5 DEF BuildSound
  <1>9. MigratorSound(m)'
    BY <1>1, <1>2, <1>3, <1>5, <1>6, <1>7, <1>8 DEF MigratorSound, WouldCreate
  <1>10. dialect = "postgresql" /\ ~restamped => StraightRun(m)'
    <2>1. dialect = "postgresql" /\ ~restamped => StraightRun(m)
      BY DEF MigrationsSound, Straight
    <2> QED BY <1>1, <1>2, <1>5, <2>1 DEF StraightRun, Going, AtWork, TablesKept
  <1> QED BY <1>9, <1>10

(* The record of a run at work, at another step. *)
LEMMA StepIs ==
    ASSUME MigrationsSound, NEW m \in Migrator, AtWork(m), NEW s, mig' = [mig EXCEPT ![m].step = s]
    PROVE  Moved(m, [at |-> mig[m].at, prefix |-> mig[m].prefix, step |-> s])
  <1>1. mig[m] \in [at : {"running", "building"}, prefix : Migrating!Naming, step : Nat]
    BY RunAtWork DEF WorkSound
  <1>2. [mig[m] EXCEPT !.step = s] = [at |-> mig[m].at, prefix |-> mig[m].prefix, step |-> s]
    BY <1>1
  <1>3. mig' = [mig EXCEPT ![m] = [mig[m] EXCEPT !.step = s]]
    BY DEF MigrationsSound, MigrationTypes
  <1> QED BY <1>2, <1>3 DEF Moved

(* A run at an index build. *)
LEMMA BuildingIs ==
    ASSUME MigrationsSound, NEW m \in Migrator, Migrating!Building(m)
    PROVE  /\ AtWork(m) /\ mig[m].at = "running" /\ dialect = "postgresql" /\ recorded \in {1, 3}
           /\ recorded = 1 => mig[m].step \in {2, 3}
           /\ recorded = 3 => mig[m].step = 2
           /\ Migrating!BuildOf(m) = AddedBy(recorded + 1, mig[m].step)
           /\ AddedBy(recorded + 1, mig[m].step) \in {"queue_claim", "worker_claim", "dead_letter"}
           /\ Migrating!Objects(m) = JobsOf(m)
  <1>1. AtWork(m) /\ mig[m].at = "running" /\ dialect = "postgresql"
    BY DEF Migrating!Building, Migrating!Running, AtWork
  <1>2. RunOf(m)
    BY <1>1, RunAtWork
  <1>3. mig[m].step \in 2..Len(Migrating!Indexes(recorded + 1)) + 1 /\ Migrating!Objects(m) = JobsOf(m)
    BY <1>2, PlaceOfRun DEF Migrating!Building, Migrating!Step
  <1>4. recorded \in {0, 1, 2, 3, 4}
    BY <1>2 DEF RunOf
  <1>5. recorded \in {1, 3} /\ (recorded = 1 => mig[m].step \in {2, 3}) /\ (recorded = 3 => mig[m].step = 2)
    <2>1. Len(Migrating!Indexes(1)) = 0 /\ Len(Migrating!Indexes(2)) = 2 /\ Len(Migrating!Indexes(3)) = 0
          /\ Len(Migrating!Indexes(4)) = 1 /\ Len(Migrating!Indexes(5)) = 0
      BY IndexesOfEach
    <2>2. /\ recorded \in {0, 2, 4} => Len(Migrating!Indexes(recorded + 1)) = 0
          /\ recorded = 1 => Len(Migrating!Indexes(recorded + 1)) = 2
          /\ recorded = 3 => Len(Migrating!Indexes(recorded + 1)) = 1
      BY <1>4, <2>1
    <2>3. recorded = 1 => mig[m].step \in 2..2 + 1
      BY <1>3, <2>2
    <2>4. recorded = 3 => mig[m].step \in 2..1 + 1
      BY <1>3, <2>2
    <2>5. recorded \notin {0, 2, 4}
      <3>1. recorded \in {0, 2, 4} => mig[m].step \in 2..0 + 1
        BY <1>3, <2>2
      <3> QED BY <3>1
    <2> QED BY <1>4, <2>3, <2>4, <2>5
  <1> QED BY <1>1, <1>2, <1>3, <1>5, BuildOfRun

(* The index is there and valid. *)
LEMMA KeepIndexSound ==
    ASSUME MigrationsSound, NEW m \in Migrator, Migrating!KeepIndex(m)
    PROVE  MigrationsSound'
  <1>1. DatabaseKept /\ UNCHANGED <<invalid, lock, restamped>> /\ Migrating!Building(m)
        /\ Migrating!BuildOf(m) \in Migrating!Objects(m)
    BY DEF Migrating!KeepIndex, Migrating!IsBuilt, DatabaseKept
  <1>2. AtWork(m) /\ mig[m].at = "running" /\ recorded \in {1, 3} /\ (recorded = 1 => mig[m].step \in {2, 3})
        /\ (recorded = 3 => mig[m].step = 2) /\ AddedBy(recorded + 1, mig[m].step) \in JobsOf(m)
    BY <1>1, BuildingIs
  <1>3. mig' = [mig EXCEPT ![m].step = mig[m].step + 1]
    BY DEF Migrating!KeepIndex
  <1>4. Moved(m, [at |-> "running", prefix |-> mig[m].prefix, step |-> mig[m].step + 1])
    BY <1>2, <1>3, StepIs
  <1>5. StepSound(recorded + 1, mig[m].step + 1, JobsOf(m)) /\ mig[m].step + 1 \in Nat
    BY <1>2 DEF StepSound, AddedBy
  <1>6. MigratorSound(m)' /\ (dialect = "postgresql" /\ ~restamped => StraightRun(m)')
    BY <1>1, <1>2, <1>4, <1>5, StepTaken
  <1>7. IndexesSound'
    BY <1>1, IndexesKept DEF MigrationsSound
  <1> QED BY <1>1, <1>4, <1>6, <1>7, QuietStep

(* The build begins: the index is there and not valid. *)
LEMMA BeginBuildSound ==
    ASSUME MigrationsSound, NEW m \in Migrator, Migrating!BeginBuild(m)
    PROVE  MigrationsSound'
  <1> PICK o : o = AddedBy(recorded + 1, mig[m].step)
    OBVIOUS
  <1>1. DatabaseKept /\ UNCHANGED <<lock, restamped>> /\ Migrating!Building(m)
        /\ Migrating!BuildOf(m) \notin Migrating!Objects(m) /\ invalid' = invalid \cup {Migrating!BuildOf(m)}
    BY DEF Migrating!BeginBuild, Migrating!IsBuilt, DatabaseKept
  <1>2. /\ AtWork(m) /\ mig[m].at = "running" /\ recorded \in {1, 3} /\ dialect = "postgresql"
        /\ recorded = 1 => mig[m].step \in {2, 3}
        /\ recorded = 3 => mig[m].step = 2
        /\ o \notin JobsOf(m) /\ invalid' = invalid \cup {o}
        /\ o \in {"queue_claim", "worker_claim", "dead_letter"}
    BY <1>1, BuildingIs
  <1>3. Moved(m, [at |-> "building", prefix |-> mig[m].prefix, step |-> mig[m].step])
    BY DEF Migrating!BeginBuild, Migrating!Step, Moved
  <1>4. StepSound(recorded + 1, mig[m].step, JobsOf(m)) /\ mig[m].step \in Nat
    BY <1>2, RunAtWork DEF WorkSound
  <1>5. MigratorSound(m)' /\ (dialect = "postgresql" /\ ~restamped => StraightRun(m)')
    BY <1>1, <1>2, <1>3, <1>4, StepTaken
  <1>6. JobsOf(m) # {}
    BY <1>2, <1>4 DEF StepSound
  <1>7. o \notin NewJobs /\ o \notin OldJobs
    <2>1. (OldJobs # {} /\ ~OfHost => NewJobs = {}) /\ (OfHost => "table" \notin OldJobs)
      BY DEF MigrationsSound, TablesSound, OfHost
    <2>2. CASE JobsOf(m) = NewJobs
      BY <1>2, <1>6, <2>1, <2>2 DEF OfHost
    <2>3. CASE JobsOf(m) # NewJobs
      <3>1. JobsOf(m) = OldJobs /\ mig[m].prefix # "prefixed" /\ recorded < 2
        BY <1>2, <2>3 DEF JobsOf
      <3>2. ~OfHost
        BY <1>2, <3>1, RunAtWork DEF PrefixSound, Migrating!Naming
      <3> QED BY <1>2, <1>6, <2>1, <3>1, <3>2
    <2> QED BY <2>2, <2>3
  <1>8. IndexesSound'
    <2>1. TablesKept /\ recorded' = recorded /\ dialect' = dialect
      BY <1>1, KeptDatabase DEF DatabaseKept
    <2>2. IndexesSound
      BY DEF MigrationsSound
    <2>3. NewJobs' = NewJobs /\ OldJobs' = OldJobs /\ invalid' = invalid \cup {o}
      BY <1>2, <2>1 DEF TablesKept
    <2>4. invalid' \subseteq {"queue_claim", "worker_claim", "dead_letter"}
      BY <1>2, <2>2 DEF IndexesSound
    <2>5. \A i \in invalid' : i \notin NewJobs' /\ i \notin OldJobs'
      BY <1>7, <2>2, <2>3 DEF IndexesSound
    <2>6. ~(recorded' = 0 \/ dialect' = "mysql")
      BY <1>2, <2>1
    <2> QED BY <2>4, <2>5, <2>6 DEF IndexesSound
  <1> QED BY <1>1, <1>3, <1>5, <1>8, QuietStep

(* A run is interrupted. *)
LEMMA FailSound ==
    ASSUME MigrationsSound, NEW m \in Migrator, Migrating!Fail(m)
    PROVE  MigrationsSound'
  <1>1. Moved(m, [at |-> "failed"]) /\ DatabaseKept /\ UNCHANGED <<invalid, restamped>>
        /\ lock' = IF lock = m THEN Unset ELSE lock
    BY DEF Migrating!Fail, Moved, DatabaseKept
  <1>2. \A x \in Migrator : x # m /\ AtWork(x) => lock' = lock
    BY <1>1, OneAtWork
  <1>3. mig'[m] = [at |-> "failed"]
    BY <1>1, MovedIs DEF MigrationsSound
  <1>4. Resting(mig'[m]) /\ mig'[m].at # "clashed"
    BY <1>3 DEF Resting
  <1>5. IndexesSound'
    BY <1>1, IndexesKept DEF MigrationsSound
  <1> QED BY <1>1, <1>2, <1>4, <1>5, RestingSound, QuietStep

(* A statement is refused: on PostgreSQL only behind an adoption that went back. *)
LEMMA ClashSound ==
    ASSUME MigrationsSound, NEW m \in Migrator, AtWork(m), Migrating!Clash(m), UNCHANGED <<dialect, invalid, restamped>>,
           ~(dialect = "postgresql" /\ ~restamped)
    PROVE  MigrationsSound'
  <1>1. Moved(m, [at |-> "clashed"]) /\ DatabaseKept
    BY DEF Migrating!Clash, Moved, DatabaseKept
  <1>2. \A x \in Migrator : x # m => ~AtWork(x)
    BY RunAtWork
  <1>3. mig'[m] = [at |-> "clashed"]
    BY <1>1, MovedIs DEF MigrationsSound
  <1>4. Resting(mig'[m])
    BY <1>3 DEF Resting
  <1>5. IndexesSound'
    BY <1>1, IndexesKept DEF MigrationsSound
  <1> QED BY <1>1, <1>2, <1>4, <1>5, RestingSound, QuietStep

(* adopt_existing_schema looks. *)
LEMMA AdoptLookSound ==
    ASSUME MigrationsSound, NEW m \in Migrator, Migrating!AdoptLook(m)
    PROVE  MigrationsSound'
  <1>1. Moved(m, [at |-> "matching"]) /\ DatabaseKept /\ UNCHANGED <<invalid, lock, restamped>>
    BY DEF Migrating!AdoptLook, Moved, DatabaseKept
  <1>2. mig'[m] = [at |-> "matching"]
    BY <1>1, MovedIs DEF MigrationsSound
  <1>3. Resting(mig'[m]) /\ mig'[m].at # "clashed"
    BY <1>2 DEF Resting
  <1>4. IndexesSound'
    BY <1>1, IndexesKept DEF MigrationsSound
  <1> QED BY <1>1, <1>3, <1>4, RestingSound, QuietStep

(* A revision whose schema is exactly the one that is there. *)
LEMMA CandidateIs ==
    ASSUME MigrationsSound, NEW r \in Migrating!Candidates
    PROVE  /\ r \in 1..5 /\ Reached(r)
           /\ OfHost => r >= 3
           /\ r < 3 => OldLog # {}
           /\ "deferrals" \in NewJobs => r = 5
  <1>1. CASE Migrating!Present("prefixed") # {}
    <2>1. r \in 3..5 /\ Migrating!Matches("prefixed", r)
      BY <1>1 DEF Migrating!Candidates, Migrating!PrefixedFrom, Migrating!HeadRevision
    <2>2. r \in {3, 4, 5}
      BY <2>1
    <2>3. NewJobs = Migrating!JobObjects(r)
      BY <2>1, <2>2 DEF Migrating!Matches, Migrating!Built, Migrating!Table, NewJobs
    <2>4. Complete(NewJobs, r) /\ ("deferrals" \in NewJobs => r = 5)
      BY <2>2, <2>3, ObjectsOfEach DEF Complete, OwnObjects
    <2> QED BY <2>2, <2>4 DEF Reached
  <1>2. CASE Migrating!Present("prefixed") = {}
    <2>1. r \in 1..2 /\ Migrating!Matches("plain", r)
      BY <1>2 DEF Migrating!Candidates, Migrating!PrefixedFrom
    <2>2. r \in {1, 2}
      BY <2>1
    <2>3. OldJobs = Migrating!JobObjects(r) /\ OldLog = {"table"}
      BY <2>1, <2>2 DEF Migrating!Matches, Migrating!Built, Migrating!Table, OldJobs, OldLog
    <2>4. Complete(OldJobs, r) /\ "table" \in OldJobs
      BY <2>2, <2>3, ObjectsOfEach DEF Complete, OwnObjects
    <2>5. NewJobs = {}
      BY <1>2, PresentIs DEF MigrationsSound, TablesSound
    <2> QED BY <2>2, <2>3, <2>4, <2>5 DEF Reached, OfHost
  <1> QED BY <1>1, <1>2

(* Among some revisions there is a newest. *)
LEMMA NewestOfSome ==
    ASSUME NEW C \in SUBSET (1..5), C # {}
    PROVE  \E r \in C : \A q \in C : q <= r
  <1>1. \A q \in C : q \in {1, 2, 3, 4, 5}
    OBVIOUS
  <1>2. CASE 5 \in C
    BY <1>1, <1>2
  <1>3. CASE 5 \notin C /\ 4 \in C
    BY <1>1, <1>3
  <1>4. CASE 5 \notin C /\ 4 \notin C /\ 3 \in C
    BY <1>1, <1>4
  <1>5. CASE 5 \notin C /\ 4 \notin C /\ 3 \notin C /\ 2 \in C
    BY <1>1, <1>5
  <1>6. CASE 5 \notin C /\ 4 \notin C /\ 3 \notin C /\ 2 \notin C
    <2>1. 1 \in C /\ \A q \in C : q = 1
      BY <1>1, <1>6
    <2> QED BY <2>1
  <1> QED BY <1>2, <1>3, <1>4, <1>5, <1>6

(* adopt_existing_schema compares. *)
LEMMA AdoptMatchSound ==
    ASSUME MigrationsSound, NEW m \in Migrator, Migrating!AdoptMatch(m)
    PROVE  MigrationsSound'
  <1> DEFINE best == CHOOSE r \in Migrating!Candidates : \A q \in Migrating!Candidates : q <= r
         c == IF Migrating!Present("prefixed") = {} /\ Migrating!Present("plain") # Migrating!Table THEN Migrating!Idle
              ELSE IF Migrating!Candidates = {} THEN [at |-> "refused"]
              ELSE [at |-> "stamping", match |-> best]
  <1>1. Moved(m, c) /\ DatabaseKept /\ UNCHANGED <<invalid, lock, restamped>>
    BY DEF Migrating!AdoptMatch, Moved, DatabaseKept
  <1>2. mig'[m] = c
    BY <1>1, MovedIs DEF MigrationsSound
  <1>3. IndexesSound'
    BY <1>1, IndexesKept DEF MigrationsSound
  <1>4. CASE c.at \in {"idle", "refused"}
    <2>1. Resting(mig'[m]) /\ mig'[m].at # "clashed"
      BY <1>2, <1>4 DEF Resting
    <2> QED BY <1>1, <1>3, <2>1, RestingSound, QuietStep
  <1>5. CASE c.at \notin {"idle", "refused"}
    <2>1. Migrating!Candidates # {} /\ c.at = "stamping" /\ c.match = best
      BY <1>5 DEF Migrating!Idle
    <2>2. best \in Migrating!Candidates
      <3>1. Migrating!Candidates \subseteq 1..5
        BY CandidateIs
      <3>2. \E r \in Migrating!Candidates : \A q \in Migrating!Candidates : q <= r
        BY <2>1, <3>1, NewestOfSome
      <3> QED BY <3>2
    <2> PICK b : b = best
      OBVIOUS
    <2> HIDE DEF best, c
    <2>3. /\ b \in 1..5 /\ Reached(b)
          /\ OfHost => b >= 3
          /\ b < 3 => OldLog # {}
          /\ "deferrals" \in NewJobs => b = 5
      BY <2>2, CandidateIs
    <2>4. mig'[m].at = "stamping" /\ mig'[m].match = b
      BY <1>2, <2>1
    <2>5. MatchSound(m)'
      <3>1. TablesKept /\ (OfHost <=> OfHost') /\ \A r \in Nat : Reached(r) <=> Reached(r)'
        BY <1>1, KeptDatabase
      <3>2. Reached(b)'
        BY <2>3, <3>1
      <3> QED BY <2>3, <2>4, <3>1, <3>2 DEF MatchSound, TablesKept
    <2>6. MigratorSound(m)' /\ StraightRun(m)'
      BY <2>4, <2>5 DEF MigratorSound, StraightRun, Going, AtWork, WouldCreate
    <2> QED BY <1>1, <1>3, <2>6, QuietStep
  <1> QED BY <1>4, <1>5

(***************************************************************************)
(* The migrations: a run that changes the database                         *)
(***************************************************************************)
(* What is there stays there, under the one name or the other, and a table of the host's stays its own. *)
Grown ==
    /\ NewLog # {} => NewLog' # {}
    /\ OfHost <=> OfHost'
    /\ \A r \in 1..5 : Reached(r) => Reached(r)'
    /\ recorded' \in 0..5 /\ recorded' >= recorded
    /\ recorded' = 0 => OldLog' = OldLog /\ (FreshDatabase => FreshDatabase') /\ ("deferrals" \in NewJobs' => "deferrals" \in NewJobs)

(* For a process that is not at work nothing else matters. *)
LEMMA GrownSound ==
    ASSUME MigrationsSound, NEW x \in Migrator, mig'[x] = mig[x], ~AtWork(x), Grown
    PROVE  MigratorSound(x)'
  <1>1. MigratorSound(x) /\ recorded \in 0..5
    BY DEF MigrationsSound, MigrationTypes
  <1>2. (Going(x) <=> Going(x)') /\ ~AtWork(x)' /\ (WouldCreate(x) <=> WouldCreate(x)') /\ mig[x].at # "building"
    BY DEF Going, AtWork, WouldCreate
  <1>3. recorded' = 0 => recorded = 0
    BY <1>1 DEF Grown
  <1>4. Going(x) => PrefixSound(x)'
    <2>1. Going(x) => PrefixSound(x)
      BY <1>1 DEF MigratorSound
    <2> QED BY <1>1, <1>3, <2>1 DEF PrefixSound, Grown
  <1>5. mig[x].at = "stamping" => MatchSound(x)'
    <2>1. mig[x].at = "stamping" => MatchSound(x)
      BY <1>1 DEF MigratorSound
    <2>2. MatchSound(x) => Reached(mig[x].match)'
      BY DEF MatchSound, Grown
    <2> QED BY <1>3, <2>1, <2>2 DEF MatchSound, Grown
  <1>6. recorded' = 0 /\ (Going(x) \/ WouldCreate(x)) => FreshDatabase'
    BY <1>1, <1>3 DEF MigratorSound, Grown
  <1>7. mig[x].at = "inspecting" /\ mig[x].prefixed # {} => NewLog' # {}
    BY <1>1 DEF MigratorSound, Grown
  <1> QED BY <1>2, <1>4, <1>5, <1>6, <1>7 DEF MigratorSound

(* Where nobody has gone back, a run that waits still finds the tables that its names promise. *)
GrownStraight ==
    /\ recorded' \in 1..2 /\ recorded = 0 => NewJobs' # {}
    /\ recorded' \in 1..2 /\ recorded # 0 =>
        recorded \in 1..2 /\ (NewJobs # {} => NewJobs' # {}) /\ ("table" \in OldJobs => "table" \in OldJobs')

(* So it stays straight as the database grows. *)
LEMMA GrownRuns ==
    ASSUME MigrationsSound, NEW x \in Migrator, mig'[x] = mig[x], StraightRun(x), GrownStraight
    PROVE  StraightRun(x)'
  <1>1. Going(x) /\ recorded = 0 => mig[x].prefix = "prefixed"
    BY DEF MigrationsSound, MigratorSound, PrefixSound
  <1>2. Going(x) <=> Going(x)'
    BY DEF Going
  <1>3. ASSUME Going(x), recorded' \in 1..2, mig[x].prefix = "prefixed"  PROVE NewJobs' # {}
    BY <1>3 DEF GrownStraight, StraightRun
  <1>4. ASSUME Going(x), recorded' \in 1..2, mig[x].prefix = "plain"  PROVE "table" \in OldJobs'
    BY <1>1, <1>4 DEF GrownStraight, StraightRun
  <1> QED BY <1>2, <1>3, <1>4 DEF StraightRun

(* So a run that changes the database has to look after the tables and itself. *)
LEMMA LoudStep ==
    ASSUME MigrationsSound, NEW m \in Migrator, AtWork(m), NEW c, Moved(m, c), dialect' = dialect, restamped' = restamped,
           schema' \in Schemas, TablesSound', IndexesSound', Grown, MigratorSound(m)',
           dialect = "postgresql" /\ ~restamped => GrownStraight /\ StraightSchema' /\ StraightRun(m)'
    PROVE  MigrationsSound'
  <1>1. \A x \in Migrator : x # m => mig'[x] = mig[x] /\ ~AtWork(x)
    BY MovedIs, RunAtWork DEF MigrationsSound
  <1>2. MigrationTypes'
    BY MovedIs DEF MigrationsSound, MigrationTypes, Grown
  <1>3. ASSUME NEW x \in Migrator  PROVE MigratorSound(x)'
    BY <1>1, GrownSound
  <1>4. ASSUME dialect' = "postgresql", ~restamped'  PROVE Straight'
    <2>1. Straight /\ GrownStraight /\ StraightSchema' /\ StraightRun(m)'
      BY <1>4 DEF MigrationsSound
    <2>2. ASSUME NEW x \in Migrator  PROVE StraightRun(x)'
      BY <1>1, <2>1, GrownRuns DEF Straight
    <2> QED BY <2>1, <2>2 DEF Straight
  <1> QED BY <1>2, <1>3, <1>4 DEF MigrationsSound

(* The object that comes before another. *)
Follows(X, o) ==
    /\ o = "queue" => "table" \in X
    /\ o = "queue_claim" => "queue" \in X
    /\ o = "worker_claim" => "queue_claim" \in X
    /\ o = "dead_letter_notified_at" => "worker_claim" \in X
    /\ o = "dead_letter" => "dead_letter_notified_at" \in X
    /\ o = "deferrals" => "dead_letter" \in X

(* An object that follows what is there keeps the order. *)
LEMMA ChainedMore ==
    ASSUME NEW X, Chained(X), "table" \in X, NEW o \in OwnObjects, Follows(X, o)
    PROVE  Chained(X \cup {o})
  <1> DEFINE Y == X \cup {o}
  <1>1. Y \subseteq OwnObjects /\ "table" \in Y
    BY DEF Chained
  <1>2. ("queue_claim" \in Y => "queue" \in Y) /\ ("worker_claim" \in Y => "queue_claim" \in Y)
    BY DEF Chained, Follows
  <1>3. ("dead_letter_notified_at" \in Y => "worker_claim" \in Y) /\ ("dead_letter" \in Y => "dead_letter_notified_at" \in Y)
    BY DEF Chained, Follows
  <1>4. "deferrals" \in Y => "dead_letter" \in Y
    BY DEF Chained, Follows
  <1> HIDE DEF Y
  <1>5. Chained(Y)
    BY <1>1, <1>2, <1>3, <1>4 DEF Chained
  <1> QED BY <1>5 DEF Y

(* What is complete stays so with more in it. *)
LEMMA CompleteMore ==
    ASSUME NEW X, NEW Y, X \subseteq Y, NEW r, Complete(X, r)
    PROVE  Complete(Y, r)
  BY DEF Complete

(* An object added under the final names. *)
LEMMA AddedNew ==
    ASSUME MigrationsSound, NEW o \in OwnObjects, AddedTo("prefixed", o), NewJobs # {}, Follows(NewJobs, o), recorded \in 1..4,
           \/ recorded' = recorded
           \/ recorded' = 5 /\ recorded = 4 /\ o = "deferrals",
           dialect' = dialect
    PROVE  TablesSound' /\ Grown /\ GrownStraight
  <1>1. NewJobs' = NewJobs \cup {o} /\ OldJobs' = OldJobs /\ NewLog' = NewLog /\ OldLog' = OldLog
    BY DEF AddedTo
  <1>2. TablesSound
    BY DEF MigrationsSound
  <1>3. Chained(NewJobs) /\ "table" \in NewJobs /\ NewLog # {}
    BY <1>2 DEF TablesSound, Chained
  <1>4. Chained(NewJobs')
    BY <1>1, <1>3, ChainedMore
  <1>5. OfHost <=> OfHost'
    BY <1>1 DEF OfHost
  <1>6. \A r : Reached(r) => Reached(r)'
    BY <1>1, CompleteMore DEF Reached
  <1>7. Reached(recorded)'
    <2>1. Reached(recorded)
      BY <1>2 DEF TablesSound
    <2>2. CASE recorded' = recorded
      BY <1>6, <2>1, <2>2
    <2>3. CASE recorded' = 5 /\ recorded = 4 /\ o = "deferrals"
      <3>1. Complete(NewJobs, 4)
        BY <2>1, <2>3 DEF Reached
      <3> QED BY <1>1, <2>3, <3>1 DEF Reached, Complete
    <2> QED BY <2>2, <2>3
  <1>8. NewJobs' # {} /\ (OldJobs # {} /\ ~OfHost => NewJobs = {})
    BY <1>1, <1>2 DEF TablesSound
  <1>9. TablesSound'
    BY <1>1, <1>2, <1>3, <1>4, <1>5, <1>7, <1>8 DEF TablesSound
  <1>10. Grown
    BY <1>1, <1>5, <1>6 DEF Grown
  <1>11. GrownStraight
    BY <1>1 DEF GrownStraight
  <1> QED BY <1>9, <1>10, <1>11

(* An object added under the old ones. *)
LEMMA AddedOld ==
    ASSUME MigrationsSound, NEW o \in OwnObjects, AddedTo("plain", o), OldJobs # {}, ~OfHost, Follows(OldJobs, o), recorded = 1,
           o # "dead_letter_notified_at", recorded' = recorded, dialect' = dialect
    PROVE  TablesSound' /\ Grown /\ GrownStraight
  <1>1. OldJobs' = OldJobs \cup {o} /\ NewJobs' = NewJobs /\ NewLog' = NewLog /\ OldLog' = OldLog
    BY DEF AddedTo
  <1>2. TablesSound
    BY DEF MigrationsSound
  <1>3. Chained(OldJobs) /\ "table" \in OldJobs /\ "dead_letter_notified_at" \notin OldJobs /\ NewJobs = {}
    BY <1>2 DEF TablesSound, Chained
  <1>4. Chained(OldJobs') /\ "dead_letter_notified_at" \notin OldJobs'
    BY <1>1, <1>3, ChainedMore
  <1>5. ~OfHost'
    BY <1>1, <1>3 DEF OfHost
  <1>6. \A r : Reached(r) => Reached(r)'
    BY <1>1, CompleteMore DEF Reached
  <1>7. Reached(recorded)'
    BY <1>2, <1>6 DEF TablesSound
  <1>8. TablesSound'
    BY <1>1, <1>2, <1>3, <1>4, <1>5, <1>7 DEF TablesSound
  <1>9. Grown
    BY <1>1, <1>5, <1>6 DEF Grown
  <1>10. GrownStraight
    BY <1>1 DEF GrownStraight
  <1> QED BY <1>8, <1>9, <1>10

(* Either way, by a run at work. *)
LEMMA AddedByRun ==
    ASSUME MigrationsSound, NEW m \in Migrator, AtWork(m), NEW o \in OwnObjects, AddedTo(Place(m), o), JobsOf(m) # {},
           Follows(JobsOf(m), o), recorded \in {1, 3, 4}, recorded = 1 => o # "dead_letter_notified_at",
           \/ recorded' = recorded
           \/ recorded' = 5 /\ recorded = 4 /\ o = "deferrals",
           dialect' = dialect, invalid' \subseteq invalid, o \notin invalid'
    PROVE  TablesSound' /\ IndexesSound' /\ Grown /\ GrownStraight
  <1>1. recorded \in 1..4 /\ PrefixSound(m)
    BY RunAtWork
  <1>2. TablesSound' /\ Grown /\ GrownStraight
    <2>1. CASE Place(m) = "prefixed"
      <3>1. JobsOf(m) = NewJobs
        BY <2>1 DEF Place, JobsOf
      <3> QED BY <1>1, <2>1, <3>1, AddedNew
    <2>2. CASE Place(m) # "prefixed"
      <3>1. recorded = 1 /\ mig[m].prefix # "prefixed" /\ Place(m) = "plain" /\ JobsOf(m) = OldJobs
        BY <2>2 DEF Place, JobsOf
      <3>2. ~OfHost
        BY <1>1, <3>1 DEF PrefixSound, Migrating!Naming
      <3> QED BY <3>1, <3>2, AddedOld
    <2> QED BY <2>1, <2>2
  <1>3. IndexesSound'
    <2>1. IndexesSound
      BY DEF MigrationsSound
    <2>2. \A i : i \in NewJobs' => i \in NewJobs \/ i = o
      BY DEF AddedTo
    <2>3. \A i : i \in OldJobs' => i \in OldJobs \/ i = o
      BY DEF AddedTo
    <2>4. recorded' # 0
      BY <1>1
    <2>5. \A i \in invalid' : i \notin NewJobs' /\ i \notin OldJobs'
      BY <2>1, <2>2, <2>3 DEF IndexesSound
    <2> QED BY <2>1, <2>4, <2>5 DEF IndexesSound
  <1> QED BY <1>2, <1>3

(* A run that goes on has what its next step counts on. *)
LEMMA RunGoesOn ==
    ASSUME MigrationsSound, NEW m \in Migrator, AtWork(m), NEW s \in Nat,
           Moved(m, [at |-> "running", prefix |-> mig[m].prefix, step |-> s]),
           Grown, recorded' < 5, lock' = lock, StepSound(recorded + 1, mig[m].step, JobsOf(m))'
    PROVE  MigratorSound(m)' /\ (StraightRun(m) /\ GrownStraight => StraightRun(m)')
  <1> DEFINE c == [at |-> "running", prefix |-> mig[m].prefix, step |-> s]
  <1>1. mig'[m] = c
    BY MovedIs DEF MigrationsSound
  <1>2. c.at = "running" /\ c.prefix = mig[m].prefix /\ c.step = s
    OBVIOUS
  <1>3. PrefixSound(m) /\ WorkSound(m) /\ (recorded = 0 => FreshDatabase) /\ recorded \in 0..4
    BY RunAtWork DEF RunOf
  <1>4. c \in [at : {"running", "building"}, prefix : Migrating!Naming, step : Nat]
    BY <1>3 DEF PrefixSound
  <1> HIDE DEF c
  <1>5. recorded' = 0 => recorded = 0
    BY <1>3 DEF Grown
  <1>6. PrefixSound(m)'
    BY <1>1, <1>2, <1>3, <1>5 DEF PrefixSound, Grown
  <1>7. WorkSound(m)'
    BY <1>1, <1>3, <1>4 DEF WorkSound
  <1>8. MigratorSound(m)'
    BY <1>1, <1>2, <1>3, <1>5, <1>6, <1>7 DEF MigratorSound, Grown, WouldCreate
  <1>9. ASSUME StraightRun(m), GrownStraight  PROVE StraightRun(m)'
    <2>1. Going(m)
      BY DEF Going, AtWork
    <2>2. recorded' \in 1..2 /\ mig[m].prefix = "prefixed" => NewJobs' # {}
      BY <1>9, <2>1 DEF GrownStraight, StraightRun
    <2>3. recorded' \in 1..2 /\ mig[m].prefix = "plain" => "table" \in OldJobs'
      BY <1>3, <1>9, <2>1 DEF GrownStraight, StraightRun, PrefixSound
    <2> QED BY <1>1, <1>2, <2>2, <2>3 DEF StraightRun
  <1> QED BY <1>8, <1>9

(* A run that records its revision begins the next one, or is over. *)
LEMMA RecordedSound ==
    ASSUME MigrationsSound, NEW m \in Migrator, AtWork(m), mig[m].at = "running", Migrating!Recorded(m), Grown
    PROVE  /\ recorded' = recorded + 1
           /\ \E c : Moved(m, c)
           /\ MigratorSound(m)'
           /\ StraightRun(m) /\ GrownStraight => StraightRun(m)'
  <1>1. RunOf(m) /\ WorkSound(m) /\ recorded \in 0..4
    BY RunAtWork DEF RunOf
  <1>2. recorded' = recorded + 1
    BY <1>1, PlaceOfRun DEF Migrating!Recorded
  <1>3. CASE recorded = 4
    <2>1. Moved(m, [at |-> "done"])
      BY <1>1, <1>3, PlaceOfRun DEF Migrating!Recorded, Migrating!HeadRevision, Moved
    <2>2. mig'[m] = [at |-> "done"]
      BY <2>1, MovedIs DEF MigrationsSound
    <2>3. Resting(mig'[m]) /\ mig'[m].at # "clashed"
      BY <2>2 DEF Resting
    <2> QED BY <1>2, <2>1, <2>3, RestingSound
  <1>4. CASE recorded # 4
    <2>1. mig' = [mig EXCEPT ![m].step = 1] /\ lock' = lock
      BY <1>1, <1>4, PlaceOfRun DEF Migrating!Recorded, Migrating!HeadRevision
    <2>2. Moved(m, [at |-> "running", prefix |-> mig[m].prefix, step |-> 1])
      BY <2>1, StepIs
    <2>3. mig'[m].step = 1
      BY <2>2, MovedIs DEF MigrationsSound
    <2>4. StepSound(recorded + 1, mig[m].step, JobsOf(m))'
      BY <2>3 DEF StepSound
    <2> QED BY <1>1, <1>2, <1>4, <2>1, <2>2, <2>4, RunGoesOn
  <1> QED BY <1>3, <1>4

(* The tables are created in a fresh database. *)
LEMMA CreatedSound ==
    ASSUME MigrationsSound, FreshDatabase, recorded = 0, dialect' = dialect, invalid' = invalid,
           NewLog' = {"table"}, OldLog' = OldLog, OldJobs' = OldJobs,
           NewJobs' = NewJobs \/ (NewJobs = {} /\ NewJobs' = {"table"}),
           dialect = "postgresql" => recorded' = 1 /\ NewJobs' = {"table"},
           dialect = "mysql" => recorded' = 0
    PROVE  TablesSound' /\ IndexesSound' /\ Grown /\ GrownStraight /\ StraightSchema'
  <1>1. TablesSound /\ IndexesSound /\ dialect \in {"postgresql", "mysql"}
    BY DEF MigrationsSound, MigrationTypes
  <1>2. NewJobs' \subseteq {"table"} /\ NewJobs \subseteq NewJobs' /\ "deferrals" \notin NewJobs'
    BY DEF FreshDatabase
  <1>3. OfHost <=> OfHost'
    BY DEF OfHost
  <1>4. OldLog' = {} /\ (OldJobs' = {} \/ OfHost')
    BY <1>3 DEF FreshDatabase
  <1>5. Reached(recorded)'
    BY <1>1 DEF Reached, Complete
  <1>6. Chained(NewJobs')
    BY <1>2 DEF Chained, OwnObjects
  <1>7. TablesSound'
    BY <1>1, <1>3, <1>4, <1>5, <1>6 DEF TablesSound
  <1>8. \A r : Reached(r) => Reached(r)'
    BY <1>2, CompleteMore DEF Reached
  <1>9. dialect = "mysql" => FreshDatabase'
    BY <1>2, <1>4 DEF FreshDatabase
  <1>10. Grown
    BY <1>1, <1>2, <1>3, <1>8, <1>9 DEF Grown
  <1>11. invalid' = {}
    BY <1>1 DEF IndexesSound
  <1>12. IndexesSound'
    BY <1>11 DEF IndexesSound
  <1>13. GrownStraight
    BY <1>1 DEF GrownStraight
  <1> QED BY <1>2, <1>7, <1>10, <1>12, <1>13 DEF StraightSchema

(* What was JASIL's under the old names is its own under the final ones, and what is the host's stays. *)
LEMMA JobsAfter ==
    ASSUME MigrationsSound, recorded = 2, JobsRenamed
    PROVE  /\ Complete(NewJobs, 2) \/ Complete(OldJobs, 2)
           /\ Complete(NewJobs', 2) /\ Chained(NewJobs')
           /\ OfHost <=> OfHost'
           /\ OldJobs' = {} \/ OfHost'
           /\ \/ NewJobs' = NewJobs /\ OldJobs' = OldJobs
              \/ NewJobs' = OldJobs /\ OldJobs' = {} /\ NewJobs = {} /\ "dead_letter_notified_at" \notin OldJobs
  <1>1. TablesSound
    BY DEF MigrationsSound
  <1>2. Complete(NewJobs, 2) \/ Complete(OldJobs, 2)
    BY <1>1 DEF TablesSound, Reached
  <1>3. CASE OldJobs # {} /\ NewJobs = {}
    <2>1. Complete(OldJobs, 2)
      BY <1>2, <1>3 DEF Complete
    <2>2. ~OfHost
      BY <2>1 DEF OfHost, Complete
    <2>3. NewJobs' = OldJobs /\ OldJobs' = {}
      BY <1>3 DEF JobsRenamed
    <2>4. Chained(OldJobs) /\ "dead_letter_notified_at" \notin OldJobs
      BY <1>1, <2>2 DEF TablesSound
    <2>5. ~OfHost'
      BY <2>3 DEF OfHost
    <2> QED BY <1>2, <1>3, <2>1, <2>2, <2>3, <2>4, <2>5
  <1>4. CASE ~(OldJobs # {} /\ NewJobs = {})
    <2>1. NewJobs' = NewJobs /\ OldJobs' = OldJobs
      BY <1>4 DEF JobsRenamed
    <2>2. OfHost <=> OfHost'
      BY <2>1 DEF OfHost
    <2>3. OldJobs = {} \/ OfHost
      BY <1>1, <1>4 DEF TablesSound
    <2>4. Complete(NewJobs, 2)
      BY <1>2, <2>3 DEF Complete, OfHost
    <2>5. Chained(NewJobs)
      BY <1>1 DEF TablesSound
    <2> QED BY <1>2, <2>1, <2>2, <2>3, <2>4, <2>5
  <1> QED BY <1>3, <1>4

(* The event log is under its final name once it has been renamed, or was there before. *)
LEMMA LogAfter ==
    ASSUME MigrationsSound, recorded = 2, LogRenamed \/ (NewLog # {} /\ NewLog' = NewLog /\ OldLog' = OldLog)
    PROVE  NewLog' = {"table"} /\ OldLog' = {}
  <1>1. TablesSound
    BY DEF MigrationsSound
  <1>2. Complete(NewJobs, 2) \/ Complete(OldJobs, 2)
    BY <1>1 DEF TablesSound, Reached
  <1>3. NewLog # {} \/ OldLog # {}
    <2>1. CASE Complete(NewJobs, 2)
      BY <1>1, <2>1 DEF TablesSound, Complete
    <2>2. CASE Complete(OldJobs, 2)
      <3>1. OldJobs # {} /\ ~OfHost
        BY <2>2 DEF Complete, OfHost
      <3> QED BY <1>1, <3>1 DEF TablesSound
    <2> QED BY <1>2, <2>1, <2>2
  <1>4. (OldLog # {} => NewLog = {}) /\ NewLog \in {{}, {"table"}} /\ OldLog \in {{}, {"table"}}
    BY <1>1 DEF TablesSound
  <1> QED BY <1>3, <1>4 DEF LogRenamed

(* The renaming of both tables, or on MySQL of one. *)
LEMMA RenamedSound ==
    ASSUME MigrationsSound, recorded = 2, dialect' = dialect, invalid' = invalid,
           NewLog' = {"table"}, OldLog' = {},
           \/ JobsRenamed /\ recorded' \in {2, 3}
           \/ NewJobs' = NewJobs /\ OldJobs' = OldJobs /\ recorded' = 2 /\ dialect = "mysql"
    PROVE  /\ TablesSound' /\ IndexesSound' /\ Grown
           /\ recorded' = 3 => GrownStraight
           /\ StraightSchema => "deferrals" \notin NewJobs'
  <1>1. TablesSound /\ IndexesSound
    BY DEF MigrationsSound
  <1>2. CASE JobsRenamed /\ recorded' \in {2, 3}
    <2>1. /\ Complete(NewJobs', 2) /\ Chained(NewJobs')
          /\ OfHost <=> OfHost'
          /\ OldJobs' = {} \/ OfHost'
          /\ \/ NewJobs' = NewJobs /\ OldJobs' = OldJobs
             \/ NewJobs' = OldJobs /\ OldJobs' = {} /\ NewJobs = {} /\ "dead_letter_notified_at" \notin OldJobs
      BY <1>2, JobsAfter
    <2>2. Reached(recorded)'
      BY <1>2, <2>1 DEF Reached, Complete
    <2>3. Chained({}) /\ "dead_letter_notified_at" \notin {}
      BY DEF Chained
    <2>4. NewJobs' # {}
      BY <2>1 DEF Complete
    <2>5. TablesSound'
      BY <2>1, <2>2, <2>3, <2>4 DEF TablesSound
    <2>6. ASSUME NEW r \in 1..5, Reached(r)  PROVE Reached(r)'
      <3>1. CASE NewJobs' = NewJobs /\ OldJobs' = OldJobs
        BY <2>6, <3>1 DEF Reached
      <3>2. CASE NewJobs' = OldJobs /\ NewJobs = {}
        <4>1. ~Complete({}, r)
          BY DEF Complete
        <4> QED BY <2>6, <3>2, <4>1 DEF Reached
      <3> QED BY <2>1, <3>1, <3>2
    <2>7. Grown
      BY <1>2, <2>1, <2>6 DEF Grown
    <2>8. \A i : i \in NewJobs' \/ i \in OldJobs' => i \in NewJobs \/ i \in OldJobs
      BY <2>1
    <2>9. IndexesSound'
      BY <1>1, <1>2, <2>8 DEF IndexesSound
    <2>10. StraightSchema => "deferrals" \notin NewJobs'
      <3>1. CASE NewJobs' = NewJobs
        BY <3>1 DEF StraightSchema
      <3>2. CASE NewJobs' = OldJobs /\ "dead_letter_notified_at" \notin OldJobs
        BY <2>1, <3>2 DEF Chained
      <3> QED BY <2>1, <3>1, <3>2
    <2> QED BY <2>5, <2>7, <2>9, <2>10 DEF GrownStraight
  <1>3. CASE NewJobs' = NewJobs /\ OldJobs' = OldJobs /\ recorded' = 2 /\ dialect = "mysql"
    <2>1. OfHost <=> OfHost'
      BY <1>3 DEF OfHost
    <2>2. \A r : Reached(r) => Reached(r)'
      BY <1>3 DEF Reached
    <2>3. Reached(recorded)'
      BY <1>1, <1>3, <2>2 DEF TablesSound
    <2>4. TablesSound'
      BY <1>1, <1>3, <2>1, <2>3 DEF TablesSound
    <2>5. Grown
      BY <1>3, <2>1, <2>2 DEF Grown
    <2>6. IndexesSound'
      BY <1>1, <1>3 DEF IndexesSound
    <2> QED BY <1>3, <2>4, <2>5, <2>6 DEF StraightSchema
  <1> QED BY <1>2, <1>3

(* A revision is recorded whose steps are all done. *)
LEMMA RecordSound ==
    ASSUME MigrationsSound, NEW m \in Migrator, Migrating!Record(m)
    PROVE  MigrationsSound'
  <1>1. AtWork(m) /\ mig[m].at = "running" /\ Migrating!Recorded(m) /\ UNCHANGED <<dialect, schema, invalid, restamped>>
    BY DEF Migrating!Record, Migrating!Running, AtWork
  <1>2. RunOf(m) /\ WorkSound(m)
    BY <1>1, RunAtWork
  <1>3. recorded \in {0, 1, 2, 3, 4} /\ dialect \in {"postgresql", "mysql"}
    BY <1>2 DEF RunOf, MigrationTypes
  <1>4. mig[m].step = IF dialect = "mysql" THEN Len(Migrating!Statements(recorded + 1)) + 1
                      ELSE Len(Migrating!Indexes(recorded + 1)) + 2
    BY <1>2, PlaceOfRun DEF Migrating!Record, Migrating!Step
  <1>5. /\ recorded \in {0, 2} => mig[m].step = IF dialect = "mysql" THEN 3 ELSE 2
        /\ recorded = 1 => mig[m].step = 4
        /\ recorded = 3 => mig[m].step = 3
        /\ recorded = 4 => mig[m].step = 2
    <2>1. Len(Migrating!Statements(1)) = 2 /\ Len(Migrating!Statements(2)) = 3 /\ Len(Migrating!Statements(3)) = 2
          /\ Len(Migrating!Statements(4)) = 2 /\ Len(Migrating!Statements(5)) = 1
      BY StatementsOfEach, ChangesOfEach
    <2>2. Len(Migrating!Indexes(1)) = 0 /\ Len(Migrating!Indexes(2)) = 2 /\ Len(Migrating!Indexes(3)) = 0
          /\ Len(Migrating!Indexes(4)) = 1 /\ Len(Migrating!Indexes(5)) = 0
      BY IndexesOfEach
    <2>3. CASE dialect = "mysql"
      <3> DEFINE n == Len(Migrating!Statements(recorded + 1))
      <3>1. mig[m].step = n + 1
        BY <1>4, <2>3
      <3>2. /\ recorded = 0 => n = 2
            /\ recorded = 1 => n = 3
            /\ recorded = 2 => n = 2
            /\ recorded = 3 => n = 2
            /\ recorded = 4 => n = 1
        BY <2>1
      <3> HIDE DEF n
      <3>3. n \in Nat
        BY <1>3, <3>2
      <3> QED BY <2>3, <3>1, <3>2, <3>3
    <2>4. CASE dialect # "mysql"
      <3> DEFINE n == Len(Migrating!Indexes(recorded + 1))
      <3>1. mig[m].step = n + 2
        BY <1>4, <2>4
      <3>2. /\ recorded = 0 => n = 0
            /\ recorded = 1 => n = 2
            /\ recorded = 2 => n = 0
            /\ recorded = 3 => n = 1
            /\ recorded = 4 => n = 0
        BY <2>2
      <3> HIDE DEF n
      <3>3. n \in Nat
        BY <1>3, <3>2
      <3> QED BY <2>4, <3>1, <3>2, <3>3
    <2> QED BY <2>3, <2>4
  <1>6. StepSound(recorded + 1, mig[m].step, JobsOf(m)) /\ TablesSound /\ IndexesSound
    BY <1>2 DEF WorkSound, MigrationsSound
  <1>7. /\ recorded = 0 => dialect = "mysql" /\ NewJobs # {}
        /\ recorded = 1 => "worker_claim" \in JobsOf(m)
        /\ recorded = 2 => dialect = "mysql" /\ (OldJobs = {} \/ OfHost)
        /\ recorded = 3 => "dead_letter" \in JobsOf(m)
        /\ recorded = 4 => dialect = "mysql" /\ "deferrals" \in JobsOf(m)
    BY <1>3, <1>5, <1>6 DEF StepSound
  <1>8. recorded \in {3, 4} => JobsOf(m) = NewJobs
    BY DEF JobsOf
  <1>9. recorded' = recorded + 1
    BY <1>2, PlaceOfRun, <1>1 DEF Migrating!Recorded
  <1>10. TablesKept
    BY <1>1, SchemaKept
  <1>11. Reached(recorded + 1)
    <2>1. recorded \in {3, 4} => Complete(NewJobs, recorded + 1)
      BY <1>6, <1>7, <1>8 DEF TablesSound, Chained, Complete
    <2>2. recorded = 0 => Complete(NewJobs, recorded + 1)
      BY <1>6, <1>7 DEF TablesSound, Chained, Complete
    <2>3. recorded = 2 => Complete(NewJobs, recorded + 1)
      BY <1>6, <1>7 DEF TablesSound, Reached, OfHost, Complete
    <2>4. recorded = 1 => Complete(NewJobs, recorded + 1) \/ Complete(OldJobs, recorded + 1)
      <3>1. "worker_claim" \in NewJobs => "table" \in NewJobs
        BY <1>6 DEF TablesSound, Chained
      <3>2. "worker_claim" \in OldJobs => "table" \in OldJobs
        BY <1>6 DEF TablesSound, Chained, OfHost
      <3> QED BY <1>7, <3>1, <3>2 DEF JobsOf, Complete
    <2> QED BY <1>3, <2>1, <2>2, <2>3, <2>4 DEF Reached
  <1>12. OfHost <=> OfHost'
    BY <1>10 DEF TablesKept, OfHost
  <1>13. \A r : Reached(r) => Reached(r)'
    BY <1>10 DEF TablesKept, Reached
  <1>14. Reached(recorded)'
    BY <1>9, <1>10, <1>11 DEF TablesKept, Reached
  <1>15. TablesSound'
    BY <1>1, <1>6, <1>10, <1>12, <1>14 DEF TablesKept, TablesSound
  <1>16. IndexesSound'
    BY <1>1, <1>3, <1>6, <1>9, <1>10 DEF TablesKept, IndexesSound
  <1>17. Grown
    BY <1>3, <1>9, <1>10, <1>12, <1>13 DEF Grown, TablesKept
  <1>18. GrownStraight
    BY <1>3, <1>7, <1>9, <1>10 DEF GrownStraight, TablesKept
  <1>19. dialect = "postgresql" /\ ~restamped => StraightSchema' /\ StraightRun(m)
    <2> SUFFICES ASSUME dialect = "postgresql", ~restamped  PROVE StraightSchema' /\ StraightRun(m)
      OBVIOUS
    <2>1. Straight /\ recorded \in {1, 3}
      BY <1>3, <1>7 DEF MigrationsSound
    <2> QED BY <1>10, <2>1 DEF Straight, StraightSchema, TablesKept
  <1>20. schema' \in Schemas
    BY <1>1 DEF MigrationsSound, MigrationTypes
  <1>21. PICK c : Moved(m, c)
    BY <1>1, <1>17, RecordedSound
  <1>22. MigratorSound(m)' /\ (StraightRun(m) => StraightRun(m)')
    BY <1>1, <1>17, <1>18, RecordedSound
  <1> QED BY <1>1, <1>15, <1>16, <1>17, <1>18, <1>19, <1>20, <1>21, <1>22, LoudStep

(* An index is built. *)
LEMMA EndBuildSound ==
    ASSUME MigrationsSound, NEW m \in Migrator, Migrating!EndBuild(m)
    PROVE  MigrationsSound'
  <1> PICK o : o = AddedBy(recorded + 1, mig[m].step)
    OBVIOUS
  <1>1. AtWork(m) /\ mig[m].at = "building" /\ UNCHANGED <<dialect, recorded, lock, restamped>>
        /\ invalid' = invalid \ {Migrating!BuildOf(m)}
        /\ Moved(m, [at |-> "running", prefix |-> mig[m].prefix, step |-> mig[m].step + 1])
    BY DEF Migrating!EndBuild, Migrating!Step, AtWork, Moved
  <1>2. RunOf(m) /\ WorkSound(m) /\ BuildSound(m) /\ mig[m].step \in Nat
    BY <1>1, RunAtWork DEF MigrationsSound, MigratorSound
  <1>3. recorded \in {1, 3} /\ (recorded = 1 => mig[m].step \in {2, 3}) /\ (recorded = 3 => mig[m].step = 2)
    BY <1>2 DEF BuildSound
  <1>4. Migrating!BuildOf(m) = o /\ o \in {"queue_claim", "worker_claim", "dead_letter"}
    BY <1>2, <1>3, BuildOfRun
  <1>5. schema' \in Schemas /\ AddedTo(Place(m), o)
    BY <1>2, <1>3, BuildEnds
  <1>6. StepSound(recorded + 1, mig[m].step, JobsOf(m))
    BY <1>2 DEF WorkSound
  <1>7. JobsOf(m) # {} /\ Follows(JobsOf(m), o)
    BY <1>3, <1>6 DEF StepSound, Follows, AddedBy
  <1>8. TablesSound' /\ IndexesSound' /\ Grown /\ GrownStraight
    BY <1>1, <1>3, <1>4, <1>5, <1>7, AddedByRun DEF OwnObjects
  <1>9. mig'[m].step = mig[m].step + 1 /\ mig'[m].prefix = mig[m].prefix
    BY <1>1, MovedIs DEF MigrationsSound
  <1>10. o \in JobsOf(m)'
    <2>1. JobsOf(m)' = IF recorded >= 2 \/ mig[m].prefix = "prefixed" THEN NewJobs' ELSE OldJobs'
      BY <1>1, <1>9 DEF JobsOf
    <2> QED BY <1>5, <2>1 DEF AddedTo, Place
  <1>11. StepSound(recorded + 1, mig[m].step, JobsOf(m))'
    BY <1>1, <1>3, <1>9, <1>10 DEF StepSound, AddedBy
  <1>12. MigratorSound(m)' /\ (StraightRun(m) => StraightRun(m)')
    BY <1>1, <1>2, <1>3, <1>8, <1>11, RunGoesOn
  <1>13. dialect = "postgresql" /\ ~restamped => StraightSchema' /\ StraightRun(m)
    <2> SUFFICES ASSUME dialect = "postgresql", ~restamped  PROVE StraightSchema' /\ StraightRun(m)
      OBVIOUS
    <2>1. Straight
      BY DEF MigrationsSound
    <2>2. "deferrals" \in NewJobs' => "deferrals" \in NewJobs
      BY <1>4, <1>5 DEF AddedTo
    <2> QED BY <1>1, <2>1, <2>2 DEF Straight, StraightSchema
  <1> QED BY <1>1, <1>5, <1>8, <1>12, <1>13, LoudStep

(* A transaction of a run on PostgreSQL. *)
LEMMA RunTransactionSound ==
    ASSUME MigrationsSound, NEW m \in Migrator, Migrating!RunTransaction(m)
    PROVE  MigrationsSound'
  <1>1. AtWork(m) /\ mig[m].at = "running" /\ dialect = "postgresql" /\ UNCHANGED <<dialect, invalid, restamped>>
    BY DEF Migrating!RunTransaction, Migrating!Running, AtWork
  <1>2. RunOf(m) /\ WorkSound(m) /\ PrefixSound(m) /\ (recorded = 0 => FreshDatabase)
    BY <1>1, RunAtWork
  <1>3. recorded \in {0, 1, 2, 3, 4}
    BY <1>2 DEF RunOf
  <1>4. TablesSound /\ IndexesSound /\ (~restamped => Straight /\ StraightRun(m)) /\ Going(m)
    BY <1>1 DEF MigrationsSound, Straight, Going
  <1>5. CASE recorded = 0
    <2>1. NewLog = {} /\ NewJobs = {}
      BY <1>1, <1>2, <1>5 DEF FreshDatabase
    <2>2. /\ Migrating!Recorded(m) /\ schema' \in Schemas
          /\ NewLog' = {"table"} /\ NewJobs' = {"table"} /\ OldLog' = OldLog /\ OldJobs' = OldJobs
      BY <1>2, <1>5, <2>1, TransactionOne
    <2>3. recorded' = 1
      BY <1>2, <1>5, <2>2, PlaceOfRun DEF Migrating!Recorded
    <2>4. TablesSound' /\ IndexesSound' /\ Grown /\ GrownStraight /\ StraightSchema'
      BY <1>1, <1>2, <1>5, <2>1, <2>2, <2>3, CreatedSound
    <2>5. PICK c : Moved(m, c)
      BY <1>1, <2>2, <2>4, RecordedSound
    <2>6. MigratorSound(m)' /\ (StraightRun(m) => StraightRun(m)')
      BY <1>1, <2>2, <2>4, RecordedSound
    <2> QED BY <1>1, <1>4, <2>2, <2>4, <2>5, <2>6, LoudStep
  <1>6. CASE recorded \in {1, 3}
    <2> PICK o : o = IF recorded = 1 THEN "queue" ELSE "dead_letter_notified_at"
      OBVIOUS
    <2>1. \/ Migrating!Clash(m) /\ JobsOf(m) = {}
          \/ /\ mig' = [mig EXCEPT ![m].step = 2] /\ UNCHANGED <<recorded, lock>>
             /\ schema' \in Schemas
             /\ \/ o \in JobsOf(m) /\ TablesKept
                \/ JobsOf(m) # {} /\ o \notin JobsOf(m) /\ AddedTo(Place(m), o)
      BY <1>2, <1>6, TransactionBuilds
    <2>2. recorded = 3 => JobsOf(m) = NewJobs /\ "worker_claim" \in NewJobs /\ Place(m) = "prefixed"
      BY <1>4 DEF JobsOf, Place, TablesSound, Reached, Complete
    <2>3. CASE Migrating!Clash(m) /\ JobsOf(m) = {}
      <3>1. recorded = 1
        BY <1>6, <2>2, <2>3
      <3>2. restamped
        <4> SUFFICES ASSUME ~restamped  PROVE FALSE
          OBVIOUS
        <4>1. StraightRun(m) /\ Going(m) /\ mig[m].prefix \in {"plain", "prefixed"}
          BY <1>2, <1>4 DEF PrefixSound, Migrating!Naming
        <4>2. JobsOf(m) # {}
          BY <3>1, <4>1 DEF StraightRun, JobsOf
        <4> QED BY <2>3, <4>2
      <3> QED BY <1>1, <2>3, <3>2, ClashSound
    <2>4. CASE ~(Migrating!Clash(m) /\ JobsOf(m) = {})
      <3>1. mig' = [mig EXCEPT ![m].step = 2] /\ UNCHANGED <<recorded, lock>> /\ schema' \in Schemas
        BY <2>1, <2>4
      <3>2. Moved(m, [at |-> "running", prefix |-> mig[m].prefix, step |-> 2])
        BY <1>1, <3>1, StepIs
      <3>3. mig'[m].step = 2 /\ mig'[m].prefix = mig[m].prefix
        BY <3>2, MovedIs DEF MigrationsSound
      <3>4. JobsOf(m)' = IF recorded >= 2 \/ mig[m].prefix = "prefixed" THEN NewJobs' ELSE OldJobs'
        BY <3>1, <3>3 DEF JobsOf
      <3>5. TablesSound' /\ IndexesSound' /\ Grown /\ GrownStraight /\ o \in JobsOf(m)'
            /\ ("deferrals" \in NewJobs' => "deferrals" \in NewJobs)
        <4>1. CASE o \in JobsOf(m) /\ TablesKept
          <5>1. OfHost <=> OfHost'
            BY <4>1 DEF TablesKept, OfHost
          <5>2. \A r : Reached(r) => Reached(r)'
            BY <4>1 DEF TablesKept, Reached
          <5>3. Reached(recorded)'
            BY <1>4, <3>1, <5>2 DEF TablesSound
          <5>4. TablesSound'
            BY <1>1, <1>4, <4>1, <5>1, <5>3 DEF TablesKept, TablesSound
          <5>5. IndexesSound'
            BY <1>1, <1>4, <3>1, <4>1 DEF TablesKept, IndexesSound
          <5>6. Grown
            BY <1>3, <1>6, <3>1, <4>1, <5>1, <5>2 DEF Grown, TablesKept
          <5>7. GrownStraight
            BY <1>6, <3>1, <4>1 DEF GrownStraight, TablesKept
          <5>8. JobsOf(m)' = JobsOf(m)
            BY <3>4, <4>1 DEF JobsOf, TablesKept
          <5> QED BY <4>1, <5>4, <5>5, <5>6, <5>7, <5>8 DEF TablesKept
        <4>2. CASE JobsOf(m) # {} /\ o \notin JobsOf(m) /\ AddedTo(Place(m), o)
          <5>1. Follows(JobsOf(m), o)
            <6>1. recorded = 1 => "table" \in JobsOf(m)
              <7>1. CASE JobsOf(m) = NewJobs
                BY <1>4, <4>2, <7>1 DEF TablesSound, Chained
              <7>2. CASE JobsOf(m) # NewJobs /\ recorded = 1
                <8>1. JobsOf(m) = OldJobs /\ mig[m].prefix = "plain"
                  BY <1>2, <7>2 DEF JobsOf, PrefixSound, Migrating!Naming
                <8>2. ~OfHost
                  BY <1>2, <7>2, <8>1 DEF PrefixSound
                <8> QED BY <1>4, <4>2, <8>1, <8>2 DEF TablesSound, Chained
              <7> QED BY <7>1, <7>2
            <6> QED BY <1>6, <2>2, <6>1 DEF Follows
          <5>2. o \in OwnObjects /\ o \notin invalid' /\ invalid' \subseteq invalid
            BY <1>1, <1>4 DEF OwnObjects, IndexesSound
          <5>3. TablesSound' /\ IndexesSound' /\ Grown /\ GrownStraight
            BY <1>1, <1>6, <3>1, <4>2, <5>1, <5>2, AddedByRun
          <5>4. o \in JobsOf(m)'
            BY <3>4, <4>2 DEF AddedTo, Place
          <5>5. "deferrals" \in NewJobs' => "deferrals" \in NewJobs
            BY <4>2 DEF AddedTo
          <5> QED BY <5>3, <5>4, <5>5
        <4> QED BY <2>1, <2>4, <4>1, <4>2
      <3>6. StepSound(recorded + 1, mig[m].step, JobsOf(m))'
        BY <1>6, <3>1, <3>3, <3>5 DEF StepSound
      <3>7. MigratorSound(m)' /\ (StraightRun(m) => StraightRun(m)')
        BY <1>1, <1>6, <3>1, <3>2, <3>5, <3>6, RunGoesOn
      <3>8. ~restamped => StraightSchema'
        BY <1>4, <3>1, <3>5 DEF Straight, StraightSchema
      <3> QED BY <1>1, <1>4, <3>1, <3>2, <3>5, <3>7, <3>8, LoudStep
    <2> QED BY <2>3, <2>4
  <1>7. CASE recorded = 2
    <2>1. Migrating!Recorded(m) /\ schema' \in Schemas /\ LogRenamed /\ JobsRenamed
      BY <1>2, <1>7, TransactionThree
    <2>2. recorded' = 3
      BY <1>2, <1>7, <2>1, PlaceOfRun DEF Migrating!Recorded
    <2>3. NewLog' = {"table"} /\ OldLog' = {}
      BY <1>7, <2>1, LogAfter
    <2>4. TablesSound' /\ IndexesSound' /\ Grown /\ GrownStraight /\ (StraightSchema => "deferrals" \notin NewJobs')
      BY <1>1, <1>7, <2>1, <2>2, <2>3, RenamedSound
    <2>5. PICK c : Moved(m, c)
      BY <1>1, <2>1, <2>4, RecordedSound
    <2>6. MigratorSound(m)' /\ (StraightRun(m) => StraightRun(m)')
      BY <1>1, <2>1, <2>4, RecordedSound
    <2>7. ~restamped => StraightSchema'
      BY <1>4, <2>4 DEF Straight, StraightSchema
    <2> QED BY <1>1, <1>4, <2>1, <2>4, <2>5, <2>6, <2>7, LoudStep
  <1>8. CASE recorded = 4
    <2>1. \/ Migrating!Clash(m) /\ (NewJobs = {} \/ "deferrals" \in NewJobs)
          \/ /\ Migrating!Recorded(m) /\ schema' \in Schemas /\ NewJobs # {} /\ "deferrals" \notin NewJobs
             /\ AddedTo("prefixed", "deferrals")
      BY <1>2, <1>8, TransactionFive
    <2>2. "dead_letter" \in NewJobs
      BY <1>4, <1>8 DEF TablesSound, Reached, Complete
    <2>3. CASE Migrating!Clash(m) /\ (NewJobs = {} \/ "deferrals" \in NewJobs)
      <3>1. restamped
        BY <1>4, <1>8, <2>2, <2>3 DEF Straight, StraightSchema
      <3> QED BY <1>1, <2>3, <3>1, ClashSound
    <2>4. CASE Migrating!Recorded(m) /\ schema' \in Schemas /\ AddedTo("prefixed", "deferrals")
      <3>1. recorded' = 5
        BY <1>2, <1>8, <2>4, PlaceOfRun DEF Migrating!Recorded
      <3>2. Place(m) = "prefixed" /\ JobsOf(m) = NewJobs /\ "deferrals" \in OwnObjects /\ Follows(NewJobs, "deferrals")
        BY <1>8, <2>2 DEF Place, JobsOf, OwnObjects, Follows
      <3>3. invalid' \subseteq invalid /\ "deferrals" \notin invalid'
        BY <1>1, <1>4 DEF IndexesSound
      <3>4. TablesSound' /\ IndexesSound' /\ Grown /\ GrownStraight
        BY <1>1, <1>8, <2>2, <2>4, <3>1, <3>2, <3>3, AddedByRun
      <3>5. PICK c : Moved(m, c)
        BY <1>1, <2>4, <3>4, RecordedSound
      <3>6. MigratorSound(m)' /\ (StraightRun(m) => StraightRun(m)')
        BY <1>1, <2>4, <3>4, RecordedSound
      <3>7. StraightSchema'
        BY <3>1 DEF StraightSchema
      <3> QED BY <1>1, <1>4, <2>4, <3>4, <3>5, <3>6, <3>7, LoudStep
    <2> QED BY <2>1, <2>3, <2>4
  <1> QED BY <1>3, <1>5, <1>6, <1>7, <1>8

(* A statement of a run on MySQL. *)
LEMMA RunStatementSound ==
    ASSUME MigrationsSound, NEW m \in Migrator, Migrating!RunStatement(m)
    PROVE  MigrationsSound'
  <1>1. AtWork(m) /\ mig[m].at = "running" /\ dialect = "mysql" /\ UNCHANGED <<dialect, invalid, restamped>>
    BY DEF Migrating!RunStatement, Migrating!Running, AtWork
  <1>2. RunOf(m) /\ WorkSound(m) /\ PrefixSound(m) /\ (recorded = 0 => FreshDatabase) /\ mig[m].step \in Nat
    BY <1>1, RunAtWork
  <1>3. TablesSound /\ IndexesSound /\ invalid = {} /\ StepSound(recorded + 1, mig[m].step, JobsOf(m)) /\ recorded \in 0..4
    BY <1>1, <1>2 DEF MigrationsSound, IndexesSound, WorkSound, RunOf
  <1>4. CASE Migrating!Clash(m)
    BY <1>1, <1>4, ClashSound
  <1>5. ASSUME NextStep(m), schema' \in Schemas, TablesSound', IndexesSound', Grown,
               StepSound(recorded + 1, mig[m].step, JobsOf(m))'
        PROVE  MigrationsSound'
    <2>1. Moved(m, [at |-> "running", prefix |-> mig[m].prefix, step |-> mig[m].step + 1])
      BY <1>1, <1>5, StepIs DEF NextStep
    <2>2. MigratorSound(m)'
      BY <1>1, <1>2, <1>3, <1>5, <2>1, RunGoesOn DEF NextStep
    <2> QED BY <1>1, <1>5, <2>1, <2>2, LoudStep
  <1>6. ASSUME NextStep(m)
        PROVE  recorded' = recorded /\ mig'[m].step = mig[m].step + 1 /\ mig'[m].prefix = mig[m].prefix
               /\ JobsOf(m)' = IF recorded >= 2 \/ mig[m].prefix = "prefixed" THEN NewJobs' ELSE OldJobs'
    <2>1. Moved(m, [at |-> "running", prefix |-> mig[m].prefix, step |-> mig[m].step + 1])
      BY <1>1, <1>6, StepIs DEF NextStep
    <2>2. mig'[m] = [at |-> "running", prefix |-> mig[m].prefix, step |-> mig[m].step + 1]
      BY <2>1, MovedIs DEF MigrationsSound
    <2> QED BY <1>6, <2>2 DEF NextStep, JobsOf
  <1>7. CASE /\ recorded = 0 /\ mig[m].step = 1 /\ NextStep(m) /\ schema' \in Schemas
             /\ NewLog' = {"table"} /\ NewJobs' = NewJobs /\ OldLog' = OldLog /\ OldJobs' = OldJobs
    <2>1. TablesSound' /\ IndexesSound' /\ Grown
      BY <1>1, <1>2, <1>6, <1>7, CreatedSound
    <2>2. StepSound(recorded + 1, mig[m].step, JobsOf(m))'
      BY <1>1, <1>6, <1>7 DEF StepSound
    <2> QED BY <1>5, <1>7, <2>1, <2>2
  <1>8. CASE /\ recorded = 0 /\ mig[m].step = 2 /\ NextStep(m) /\ schema' \in Schemas /\ NewJobs = {}
             /\ NewLog' = NewLog /\ NewJobs' = {"table"} /\ OldLog' = OldLog /\ OldJobs' = OldJobs
    <2>1. NewLog = {"table"}
      BY <1>3, <1>8 DEF StepSound, TablesSound
    <2>2. TablesSound' /\ IndexesSound' /\ Grown
      BY <1>1, <1>2, <1>6, <1>8, <2>1, CreatedSound
    <2>3. StepSound(recorded + 1, mig[m].step, JobsOf(m))'
      BY <1>1, <1>6, <1>8, <2>1 DEF StepSound
    <2> QED BY <1>5, <1>8, <2>2, <2>3
  <1>9. CASE /\ recorded = 2 /\ mig[m].step = 1 /\ NextStep(m) /\ schema' \in Schemas
             /\ LogRenamed /\ NewJobs' = NewJobs /\ OldJobs' = OldJobs
    <2>1. NewLog' = {"table"} /\ OldLog' = {}
      BY <1>9, LogAfter
    <2>2. TablesSound' /\ IndexesSound' /\ Grown
      BY <1>1, <1>6, <1>9, <2>1, RenamedSound
    <2>3. StepSound(recorded + 1, mig[m].step, JobsOf(m))'
      BY <1>1, <1>6, <1>9, <2>1 DEF StepSound
    <2> QED BY <1>5, <1>9, <2>2, <2>3
  <1>10. CASE /\ recorded = 2 /\ mig[m].step = 2 /\ NextStep(m) /\ schema' \in Schemas
              /\ JobsRenamed /\ NewLog' = NewLog /\ OldLog' = OldLog
    <2>1. NewLog # {}
      BY <1>3, <1>10 DEF StepSound
    <2>2. NewLog' = {"table"} /\ OldLog' = {}
      BY <1>10, <2>1, LogAfter
    <2>3. TablesSound' /\ IndexesSound' /\ Grown
      BY <1>1, <1>6, <1>10, <2>2, RenamedSound
    <2>4. OldJobs' = {} \/ OfHost'
      BY <1>10, JobsAfter
    <2>5. StepSound(recorded + 1, mig[m].step, JobsOf(m))'
      BY <1>1, <1>6, <1>10, <2>2, <2>4 DEF StepSound
    <2> QED BY <1>5, <1>10, <2>3, <2>5
  <1>11. CASE /\ recorded \in {1, 3, 4} /\ NextStep(m) /\ schema' \in Schemas
              /\ recorded = 1 => mig[m].step \in 1..3
              /\ recorded = 3 => mig[m].step \in 1..2
              /\ recorded = 4 => mig[m].step = 1
              /\ JobsOf(m) # {} /\ AddedBy(recorded + 1, mig[m].step) \notin JobsOf(m)
              /\ AddedTo(Place(m), AddedBy(recorded + 1, mig[m].step))
    <2> PICK o : o = AddedBy(recorded + 1, mig[m].step)
      OBVIOUS
    <2>1. o \in OwnObjects
      BY DEF AddedBy, OwnObjects
    <2>2. "table" \in JobsOf(m)
      <3>1. CASE JobsOf(m) = NewJobs
        BY <1>3, <1>11, <3>1 DEF TablesSound, Chained
      <3>2. CASE JobsOf(m) # NewJobs
        <4>1. JobsOf(m) = OldJobs /\ mig[m].prefix = "plain" /\ recorded < 2
          BY <1>2, <1>3, <3>2 DEF JobsOf, PrefixSound, Migrating!Naming
        <4>2. ~OfHost
          BY <1>2, <1>3, <4>1 DEF PrefixSound
        <4> QED BY <1>3, <1>11, <4>1, <4>2 DEF TablesSound, Chained
      <3> QED BY <3>1, <3>2
    <2>3. /\ recorded = 3 => JobsOf(m) = NewJobs /\ "worker_claim" \in NewJobs
          /\ recorded = 4 => JobsOf(m) = NewJobs /\ "dead_letter" \in NewJobs
      BY <1>3 DEF TablesSound, Reached, Complete, JobsOf
    <2>4. Follows(JobsOf(m), o)
      <3>1. CASE recorded = 1
        BY <1>3, <1>11, <2>2, <3>1 DEF StepSound, AddedBy, Follows
      <3>2. CASE recorded = 3
        BY <1>3, <1>11, <2>3, <3>2 DEF StepSound, AddedBy, Follows
      <3>3. CASE recorded = 4
        BY <1>11, <2>3, <3>3 DEF AddedBy, Follows
      <3> QED BY <1>11, <3>1, <3>2, <3>3
    <2>5. recorded = 1 => o # "dead_letter_notified_at"
      BY DEF AddedBy
    <2>6. invalid' \subseteq invalid /\ o \notin invalid'
      BY <1>1, <1>3
    <2>7. TablesSound' /\ IndexesSound' /\ Grown
      BY <1>1, <1>6, <1>11, <2>1, <2>4, <2>5, <2>6, AddedByRun
    <2>8. o \in JobsOf(m)'
      BY <1>6, <1>11 DEF AddedTo, Place
    <2>9. StepSound(recorded + 1, mig[m].step, JobsOf(m))'
      BY <1>1, <1>6, <1>11, <2>8 DEF StepSound, AddedBy
    <2> QED BY <1>5, <1>11, <2>7, <2>9
  <1>12. \/ Migrating!Clash(m)
         \/ /\ recorded = 0 /\ mig[m].step = 1 /\ NextStep(m) /\ schema' \in Schemas
            /\ NewLog' = {"table"} /\ NewJobs' = NewJobs /\ OldLog' = OldLog /\ OldJobs' = OldJobs
         \/ /\ recorded = 0 /\ mig[m].step = 2 /\ NextStep(m) /\ schema' \in Schemas /\ NewJobs = {}
            /\ NewLog' = NewLog /\ NewJobs' = {"table"} /\ OldLog' = OldLog /\ OldJobs' = OldJobs
         \/ /\ recorded = 2 /\ mig[m].step = 1 /\ NextStep(m) /\ schema' \in Schemas
            /\ LogRenamed /\ NewJobs' = NewJobs /\ OldJobs' = OldJobs
         \/ /\ recorded = 2 /\ mig[m].step = 2 /\ NextStep(m) /\ schema' \in Schemas
            /\ JobsRenamed /\ NewLog' = NewLog /\ OldLog' = OldLog
         \/ /\ recorded \in {1, 3, 4} /\ NextStep(m) /\ schema' \in Schemas
            /\ recorded = 1 => mig[m].step \in 1..3
            /\ recorded = 3 => mig[m].step \in 1..2
            /\ recorded = 4 => mig[m].step = 1
            /\ JobsOf(m) # {} /\ AddedBy(recorded + 1, mig[m].step) \notin JobsOf(m)
            /\ AddedTo(Place(m), AddedBy(recorded + 1, mig[m].step))
    BY <1>2, StatementEffect
  <1> QED BY <1>4, <1>7, <1>8, <1>9, <1>10, <1>11, <1>12

(* adopt_existing_schema stamps what it matched, under the lock: nobody is at work, and nobody who takes   *)
(* the database for a fresh one.                                                                          *)
LEMMA AdoptStampSound ==
    ASSUME MigrationsSound, NEW m \in Migrator, Migrating!AdoptStamp(m)
    PROVE  MigrationsSound'
  <1>1. /\ mig[m].at = "stamping" /\ lock = Unset /\ recorded' = mig[m].match
        /\ restamped' = (restamped \/ recorded \notin {0, mig[m].match})
        /\ Moved(m, [at |-> "idle"]) /\ UNCHANGED <<dialect, schema, invalid, lock>>
    BY DEF Migrating!AdoptStamp, Migrating!LockFree, Migrating!Idle, Moved
  <1>2. MatchSound(m) /\ TablesSound /\ IndexesSound /\ recorded \in 0..5
    BY <1>1 DEF MigrationsSound, MigratorSound, MigrationTypes
  <1>3. recorded' \in 1..5 /\ Reached(mig[m].match)
    BY <1>1, <1>2 DEF MatchSound
  <1>4. TablesKept
    BY <1>1, SchemaKept
  <1>5. (OfHost <=> OfHost') /\ Reached(recorded)'
    BY <1>1, <1>3, <1>4 DEF TablesKept, OfHost, Reached
  <1>6. TablesSound'
    BY <1>1, <1>2, <1>4, <1>5 DEF TablesKept, TablesSound
  <1>7. IndexesSound'
    BY <1>1, <1>2, <1>3, <1>4 DEF TablesKept, IndexesSound
  <1>8. mig'[m] = [at |-> "idle"] /\ \A x \in Migrator : x # m => mig'[x] = mig[x]
    BY <1>1, MovedIs DEF MigrationsSound
  <1>9. ASSUME NEW x \in Migrator  PROVE ~AtWork(x)
    <2>1. lock # x
      BY <1>1, HostAssumption
    <2> QED BY <2>1, OneAtWork
  <1>10. Resting(mig'[m]) /\ mig'[m].at # "clashed"
    BY <1>8 DEF Resting
  <1>11. ASSUME NEW x \in Migrator, x # m  PROVE MigratorSound(x)'
    <2>1. MigratorSound(x) /\ mig'[x] = mig[x] /\ ~AtWork(x)
      BY <1>8, <1>9, <1>11 DEF MigrationsSound
    <2>2. (Going(x) <=> Going(x)') /\ ~AtWork(x)' /\ (WouldCreate(x) <=> WouldCreate(x)') /\ mig[x].at # "building"
      BY <2>1 DEF Going, AtWork, WouldCreate
    <2>3. Going(x) => PrefixSound(x)'
      <3>1. Going(x) => mig[x].prefix \in Migrating!Naming
        BY <2>1 DEF MigratorSound, PrefixSound
      <3>2. OfHost => recorded' >= 3
        BY <1>1, <1>2 DEF MatchSound
      <3> QED BY <1>3, <1>5, <2>1, <3>1, <3>2 DEF PrefixSound
    <2>4. mig[x].at = "stamping" => MatchSound(x)'
      <3>1. mig[x].at = "stamping" => MatchSound(x)
        BY <2>1 DEF MigratorSound
      <3>2. MatchSound(x) => Reached(mig[x].match)'
        BY <1>4, <2>1 DEF MatchSound, Reached, TablesKept
      <3> QED BY <1>3, <1>5, <2>1, <3>1, <3>2 DEF MatchSound
    <2>5. mig[x].at = "inspecting" /\ mig[x].prefixed # {} => NewLog' # {}
      BY <1>4, <2>1 DEF MigratorSound, TablesKept
    <2> QED BY <1>3, <2>1, <2>2, <2>3, <2>4, <2>5 DEF MigratorSound
  <1>12. MigratorSound(m)' /\ StraightRun(m)'
    BY <1>10, RestingSound
  <1>13. ASSUME dialect' = "postgresql", ~restamped'  PROVE Straight'
    <2>1. Straight /\ recorded \in {0, mig[m].match}
      BY <1>1, <1>13 DEF MigrationsSound
    <2>2. CASE recorded = mig[m].match
      <3>1. DatabaseKept
        BY <1>1, <2>2 DEF DatabaseKept
      <3>2. ASSUME NEW x \in Migrator, x # m  PROVE StraightRun(x)'
        BY <1>8, <2>1, <3>1, <3>2, StillStraight DEF Straight
      <3> QED BY <1>12, <2>1, <3>1, <3>2, KeptDatabase DEF Straight
    <2>3. CASE recorded = 0
      <3>1. StraightSchema'
        BY <1>1, <1>2, <1>4, <2>3 DEF MatchSound, StraightSchema, TablesKept
      <3>2. ~FreshDatabase
        <4>1. CASE mig[m].match < 3
          BY <1>2, <2>3, <4>1 DEF MatchSound, FreshDatabase
        <4>2. CASE mig[m].match >= 3
          BY <1>2, <1>3, <4>2 DEF MatchSound, Reached, Complete, FreshDatabase
        <4> QED BY <1>2, <4>1, <4>2 DEF MatchSound
      <3>3. ASSUME NEW x \in Migrator, x # m  PROVE StraightRun(x)'
        <4>1. ~Going(x) /\ mig'[x] = mig[x] /\ mig[x].at # "clashed"
          BY <1>8, <2>1, <2>3, <3>2, <3>3 DEF MigrationsSound, MigratorSound, Straight, StraightRun
        <4> QED BY <4>1 DEF StraightRun, Going
      <3> QED BY <1>12, <3>1, <3>3 DEF Straight
    <2> QED BY <2>1, <2>2, <2>3
  <1>14. MigrationTypes'
    BY <1>1, <1>3, MovedIs DEF MigrationsSound, MigrationTypes
  <1> QED BY <1>6, <1>7, <1>11, <1>12, <1>13, <1>14 DEF MigrationsSound

(***************************************************************************)
(* The migrations: from the start, and along every step                    *)
(***************************************************************************)
(* A database that nobody has begun to migrate is sound if its tables are. *)
LEMMA UnstartedSound ==
    ASSUME Migrating!Unstarted, dialect \in {"postgresql", "mysql"}, schema \in Schemas, recorded \in 0..5, TablesSound,
           "deferrals" \in NewJobs => recorded = 0
    PROVE  MigrationInv
  <1>1. invalid = {} /\ mig = [m \in Migrator |-> Migrating!Idle]
    BY DEF Migrating!Unstarted
  <1>2. \A m \in Migrator : mig[m].at = "idle"
    BY <1>1 DEF Migrating!Idle
  <1>3. MigrationTypes
    BY <1>1 DEF MigrationTypes
  <1>4. IndexesSound
    BY <1>1 DEF IndexesSound
  <1>5. \A m \in Migrator : MigratorSound(m) /\ StraightRun(m)
    BY <1>2 DEF MigratorSound, StraightRun, Going, AtWork, WouldCreate
  <1>6. Straight
    BY <1>5 DEF Straight, StraightSchema
  <1> QED BY <1>3, <1>4, <1>5, <1>6 DEF MigrationInv, MigrationsSound

(* The tables that a revision left behind, under the one names or the other. *)
LEMMA BuiltSound ==
    ASSUME NEW r \in 1..5, NEW n \in Migrating!Naming, n = IF r < 3 THEN "plain" ELSE "prefixed",
           schema = [Migrating!NoTables EXCEPT ![n] = [t \in Migrating!Table |-> Migrating!Built(r, t)]],
           recorded = 0 \/ (recorded = r /\ r < 3)
    PROVE  schema \in Schemas /\ TablesSound /\ ("deferrals" \in NewJobs => recorded = 0)
  <1> DEFINE X == Migrating!JobObjects(r)
  <1>1. r \in {1, 2, 3, 4, 5}
    OBVIOUS
  <1>2. Chained(X) /\ Complete(X, r) /\ X # {} /\ X # {"host"}
    BY <1>1, ObjectsOfEach DEF Chained, Complete, OwnObjects
  <1>3. r < 3 => "dead_letter_notified_at" \notin X
    BY <1>1, ObjectsOfEach
  <1>4. X \subseteq OwnObjects
    BY <1>2 DEF Chained
  <1>5. Migrating!Built(r, "event_log") = {"table"} /\ Migrating!Built(r, "processing_jobs") = X
    BY <1>1 DEF Migrating!Built
  <1> HIDE DEF X
  <1>6. \A t \in Migrating!Table : Migrating!Built(r, t) \in SUBSET (OwnObjects \cup {"host"})
    BY <1>4, <1>5 DEF Migrating!Table, OwnObjects
  <1>7. [t \in Migrating!Table |-> Migrating!Built(r, t)] \in [Migrating!Table -> SUBSET (OwnObjects \cup {"host"})]
    BY <1>6
  <1>8. Migrating!NoTables \in Schemas
    BY DEF Migrating!NoTables, Migrating!Bare, Schemas
  <1>9. schema \in Schemas
    BY <1>7, <1>8 DEF Schemas
  <1>10. CASE r < 3
    <2>1. NewJobs = {} /\ NewLog = {} /\ OldJobs = X /\ OldLog = {"table"}
      BY <1>5, <1>8, <1>10 DEF Migrating!NoTables, Migrating!Bare, Migrating!Table, Migrating!Naming, NewJobs, NewLog, OldJobs, OldLog
    <2>2. ~OfHost /\ Chained({})
      BY <1>2, <2>1 DEF OfHost, Chained
    <2>3. Reached(recorded)
      BY <1>2, <1>10, <2>1 DEF Reached, Complete
    <2>4. TablesSound
      BY <1>2, <1>3, <1>10, <2>1, <2>2, <2>3 DEF TablesSound
    <2> QED BY <1>9, <2>1, <2>4
  <1>11. CASE r >= 3
    <2>1. NewJobs = X /\ NewLog = {"table"} /\ OldJobs = {} /\ OldLog = {}
      BY <1>5, <1>8, <1>11 DEF Migrating!NoTables, Migrating!Bare, Migrating!Table, Migrating!Naming, NewJobs, NewLog, OldJobs, OldLog
    <2>2. Chained({}) /\ "dead_letter_notified_at" \notin {}
      BY DEF Chained
    <2>3. Reached(recorded) /\ recorded = 0
      BY <1>11 DEF Reached, Complete
    <2>4. TablesSound
      BY <1>2, <2>1, <2>2, <2>3 DEF TablesSound
    <2> QED BY <1>9, <2>3, <2>4
  <1> QED BY <1>10, <1>11

(* A fresh database, which may have a table of the host's. *)
LEMMA FreshSound ==
    ASSUME recorded = 0,
           \/ schema = Migrating!NoTables
           \/ schema = [Migrating!NoTables EXCEPT !["plain"]["processing_jobs"] = {"host"}]
    PROVE  schema \in Schemas /\ TablesSound /\ "deferrals" \notin NewJobs
  <1>1. Migrating!NoTables \in Schemas
    BY DEF Migrating!NoTables, Migrating!Bare, Schemas
  <1>2. schema \in Schemas /\ NewJobs = {} /\ NewLog = {} /\ OldLog = {} /\ (OldJobs = {} \/ OfHost)
    BY <1>1 DEF Migrating!NoTables, Migrating!Bare, Migrating!Table, Migrating!Naming, Schemas, NewJobs, NewLog, OldJobs, OldLog, OfHost
  <1>3. Chained({}) /\ Reached(0)
    BY DEF Chained, Reached, Complete
  <1> QED BY <1>2, <1>3 DEF TablesSound

(* Every database that the processes may find is sound. *)
LEMMA MigrationsStart == HostInit => MigrationInv
  <1> SUFFICES ASSUME HostInit  PROVE MigrationInv
    OBVIOUS
  <1>1. CASE Migrating!NoMigrations
    <2>1. schema = Migrating!NoTables /\ recorded = 0 /\ Migrating!Unstarted /\ dialect = "postgresql"
      BY <1>1 DEF Migrating!NoMigrations
    <2> QED BY <2>1, FreshSound, UnstartedSound
  <1>2. CASE Migrating!Init
    <2>1. Migrating!Unstarted /\ dialect \in {"postgresql", "mysql"}
      BY <1>2 DEF Migrating!Init
    <2>2. PICK d \in Migrating!Databases : schema = d.schema /\ recorded = d.recorded
      BY <1>2 DEF Migrating!Init
    <2>3. \/ recorded = 0 /\ schema = Migrating!NoTables
          \/ recorded = 0 /\ schema = [Migrating!NoTables EXCEPT !["plain"]["processing_jobs"] = {"host"}]
          \/ \E r \in 1..2 : recorded \in {0, r}
               /\ schema = [Migrating!NoTables EXCEPT !["plain"] = [t \in Migrating!Table |-> Migrating!Built(r, t)]]
          \/ \E r \in 3..5 : recorded = 0
               /\ schema = [Migrating!NoTables EXCEPT !["prefixed"] = [t \in Migrating!Table |-> Migrating!Built(r, t)]]
      <3> DEFINE D1 == [schema |-> Migrating!NoTables, recorded |-> 0]
             D2 == [schema |-> [Migrating!NoTables EXCEPT !["plain"]["processing_jobs"] = {"host"}], recorded |-> 0]
             Old(r) == [Migrating!NoTables EXCEPT !["plain"] = [t \in Migrating!Table |-> Migrating!Built(r, t)]]
             New(r) == [Migrating!NoTables EXCEPT !["prefixed"] = [t \in Migrating!Table |-> Migrating!Built(r, t)]]
             D3(r, kept) == [schema |-> Old(r), recorded |-> IF kept THEN r ELSE 0]
             D4(r) == [schema |-> New(r), recorded |-> 0]
      <3>1. 1..Migrating!PrefixedFrom - 1 = 1..2 /\ Migrating!PrefixedFrom..Migrating!HeadRevision = 3..5
        BY DEF Migrating!PrefixedFrom, Migrating!HeadRevision
      <3>2. d \in {D1, D2} \cup {D3(r, kept) : r \in 1..Migrating!PrefixedFrom - 1, kept \in BOOLEAN}
                 \cup {D4(r) : r \in Migrating!PrefixedFrom..Migrating!HeadRevision}
        BY <2>2 DEF Migrating!Databases
      <3>3. /\ D1.schema = Migrating!NoTables /\ D1.recorded = 0
            /\ D2.schema = [Migrating!NoTables EXCEPT !["plain"]["processing_jobs"] = {"host"}] /\ D2.recorded = 0
            /\ \A r, kept : D3(r, kept).schema = Old(r) /\ D3(r, kept).recorded \in {0, r}
            /\ \A r : D4(r).schema = New(r) /\ D4(r).recorded = 0
        OBVIOUS
      <3> HIDE DEF D1, D2, D3, D4, Old, New
      <3>4. \/ d = D1 \/ d = D2
            \/ \E r \in 1..2, kept \in BOOLEAN : d = D3(r, kept)
            \/ \E r \in 3..5 : d = D4(r)
        BY <3>1, <3>2
      <3>5. ASSUME NEW r \in 1..2, NEW kept \in BOOLEAN, d = D3(r, kept)  PROVE schema = Old(r) /\ recorded \in {0, r}
        BY <2>2, <3>3, <3>5
      <3>6. ASSUME NEW r \in 3..5, d = D4(r)  PROVE schema = New(r) /\ recorded = 0
        BY <2>2, <3>3, <3>6
      <3>7. d = D1 \/ d = D2 => recorded = 0 /\ (schema = Migrating!NoTables
                                  \/ schema = [Migrating!NoTables EXCEPT !["plain"]["processing_jobs"] = {"host"}])
        BY <2>2, <3>3
      <3> QED BY <3>4, <3>5, <3>6, <3>7 DEF Old, New
    <2>4. CASE recorded = 0 /\ (schema = Migrating!NoTables
                                \/ schema = [Migrating!NoTables EXCEPT !["plain"]["processing_jobs"] = {"host"}])
      BY <2>1, <2>4, FreshSound, UnstartedSound
    <2>5. ASSUME NEW r \in 1..2, recorded \in {0, r},
                 schema = [Migrating!NoTables EXCEPT !["plain"] = [t \in Migrating!Table |-> Migrating!Built(r, t)]]
          PROVE  MigrationInv
      <3>1. schema \in Schemas /\ TablesSound /\ ("deferrals" \in NewJobs => recorded = 0)
        <4>1. r \in 1..5 /\ "plain" = (IF r < 3 THEN "plain" ELSE "prefixed") /\ "plain" \in Migrating!Naming
              /\ (recorded = 0 \/ (recorded = r /\ r < 3))
          BY <2>5 DEF Migrating!Naming
        <4> QED BY <2>5, <4>1, BuiltSound, Zenon
      <3> QED BY <2>1, <2>5, <3>1, UnstartedSound
    <2>6. ASSUME NEW r \in 3..5, recorded = 0,
                 schema = [Migrating!NoTables EXCEPT !["prefixed"] = [t \in Migrating!Table |-> Migrating!Built(r, t)]]
          PROVE  MigrationInv
      <3>1. schema \in Schemas /\ TablesSound /\ ("deferrals" \in NewJobs => recorded = 0)
        <4>1. r \in 1..5 /\ "prefixed" = (IF r < 3 THEN "plain" ELSE "prefixed") /\ "prefixed" \in Migrating!Naming
          BY DEF Migrating!Naming
        <4> QED BY <2>6, <4>1, BuiltSound, Zenon
      <3> QED BY <2>1, <2>6, <3>1, UnstartedSound
    <2> QED BY <2>3, <2>4, <2>5, <2>6
  <1> QED BY <1>1, <1>2 DEF HostInit

(* A step of the process is a step of a migration or leaves them alone. *)
LEMMA MigrationSteps == [HostNext]_allVars => [Migrating!Next]_MigrationVars
  BY DEF HostNext, allVars, MigrationVars

(* Left alone, they are as they were. *)
LEMMA MigrationsLeft ==
    ASSUME MigrationsSound, UNCHANGED MigrationVars
    PROVE  MigrationsSound'
  <1>1. DatabaseKept /\ UNCHANGED <<invalid, lock, restamped>> /\ mig' = mig
    BY DEF MigrationVars, DatabaseKept
  <1>2. MigrationTypes' /\ TablesSound' /\ IndexesSound'
    <2>1. MigrationTypes'
      BY <1>1 DEF MigrationsSound, MigrationTypes, DatabaseKept
    <2> QED BY <1>1, <2>1, KeptDatabase, IndexesKept DEF MigrationsSound
  <1>3. ASSUME NEW x \in Migrator  PROVE MigratorSound(x)'
    BY <1>1, StillSound DEF MigrationsSound
  <1>4. ASSUME dialect' = "postgresql", ~restamped'  PROVE Straight'
    <2>1. Straight
      BY <1>1, <1>4 DEF MigrationsSound, DatabaseKept
    <2>2. ASSUME NEW x \in Migrator  PROVE StraightRun(x)'
      BY <1>1, <2>1, StillStraight DEF Straight
    <2> QED BY <1>1, <2>1, <2>2, KeptDatabase DEF Straight
  <1> QED BY <1>2, <1>3, <1>4 DEF MigrationsSound

(* The invariant is kept by every step. *)
LEMMA MigrationStep ==
    ASSUME MigrationInv, [Migrating!Next]_MigrationVars
    PROVE  MigrationInv'
  <1> SUFFICES ASSUME ~misread'  PROVE MigrationsSound'
    BY DEF MigrationInv
  <1>1. ~misread
    BY DEF Migrating!Next, Migrating!ReadTables, Migrating!ReadRevision, Migrating!TakeLock, Migrating!RunTransaction,
           Migrating!KeepIndex, Migrating!BeginBuild, Migrating!EndBuild, Migrating!RunStatement, Migrating!Record,
           Migrating!Fail, Migrating!AdoptLook, Migrating!AdoptMatch, Migrating!AdoptStamp, MigrationVars
  <1>2. MigrationsSound
    BY <1>1 DEF MigrationInv
  <1>3. CASE UNCHANGED MigrationVars
    BY <1>2, <1>3, MigrationsLeft
  <1>4. CASE Migrating!Next
    <2>1. PICK m \in Migrator :
             \/ Migrating!ReadTables(m) \/ Migrating!ReadRevision(m) \/ Migrating!TakeLock(m) \/ Migrating!RunTransaction(m)
             \/ Migrating!KeepIndex(m) \/ Migrating!BeginBuild(m) \/ Migrating!EndBuild(m) \/ Migrating!RunStatement(m)
             \/ Migrating!Record(m) \/ Migrating!Fail(m) \/ Migrating!AdoptLook(m) \/ Migrating!AdoptMatch(m)
             \/ Migrating!AdoptStamp(m)
      BY <1>4 DEF Migrating!Next
    <2>2. CASE Migrating!ReadTables(m)
      BY <1>2, <2>2, ReadTablesSound
    <2>3. CASE Migrating!ReadRevision(m)
      BY <1>2, <2>3, ReadRevisionSound
    <2>4. CASE Migrating!TakeLock(m)
      BY <1>2, <2>4, TakeLockSound
    <2>5. CASE Migrating!RunTransaction(m)
      BY <1>2, <2>5, RunTransactionSound
    <2>6. CASE Migrating!KeepIndex(m)
      BY <1>2, <2>6, KeepIndexSound
    <2>7. CASE Migrating!BeginBuild(m)
      BY <1>2, <2>7, BeginBuildSound
    <2>8. CASE Migrating!EndBuild(m)
      BY <1>2, <2>8, EndBuildSound
    <2>9. CASE Migrating!RunStatement(m)
      BY <1>2, <2>9, RunStatementSound
    <2>10. CASE Migrating!Record(m)
      BY <1>2, <2>10, RecordSound
    <2>11. CASE Migrating!Fail(m)
      BY <1>2, <2>11, FailSound
    <2>12. CASE Migrating!AdoptLook(m)
      BY <1>2, <2>12, AdoptLookSound
    <2>13. CASE Migrating!AdoptMatch(m)
      BY <1>2, <2>13, AdoptMatchSound
    <2>14. CASE Migrating!AdoptStamp(m)
      BY <1>2, <2>14, AdoptStampSound
    <2> QED BY <2>1, <2>2, <2>3, <2>4, <2>5, <2>6, <2>7, <2>8, <2>9, <2>10, <2>11, <2>12, <2>13, <2>14
  <1> QED BY <1>3, <1>4

(* It holds of every reachable state. *)
LEMMA MigrationsKept == HostSpec => []MigrationInv
  BY MigrationsStart, MigrationStep, MigrationSteps, PTL DEF HostSpec

(* A database whose recorded revision is the head has the head's tables under their final names and no    *)
(* index that is not valid, whatever runs and adoptions of however many processes were interrupted or ran *)
(* at once, on either database, as long as none misread the names (verify_schema_current).                *)
THEOREM CurrentSchemaIsBuilt == HostSpec => []CurrentIsBuilt
  <1>1. MigrationInv => CurrentIsBuilt
    <2> SUFFICES ASSUME MigrationInv, recorded = 5, ~misread
                 PROVE  invalid = {} /\ \A t \in Migrating!Table : schema["prefixed"][t] = Migrating!Built(5, t)
      BY DEF CurrentIsBuilt, Migrating!CurrentIsBuilt, Migrating!IsCurrent, Migrating!HeadRevision
    <2>1. TablesSound /\ IndexesSound
      BY DEF MigrationInv, MigrationsSound
    <2>2. Chained(NewJobs) /\ Complete(NewJobs, 5)
      BY <2>1 DEF TablesSound, Reached
    <2>3. OwnObjects \subseteq NewJobs
      BY <2>2 DEF Chained, Complete, OwnObjects
    <2>4. NewJobs = OwnObjects
      BY <2>2, <2>3 DEF Chained
    <2>5. NewLog = {"table"}
      BY <2>1, <2>2 DEF TablesSound, Complete
    <2>6. Migrating!Built(5, "event_log") = {"table"} /\ Migrating!Built(5, "processing_jobs") = OwnObjects
      BY ObjectsOfEach DEF Migrating!Built
    <2>7. invalid = {}
      BY <2>1, <2>4 DEF IndexesSound, OwnObjects
    <2> QED BY <2>4, <2>5, <2>6, <2>7 DEF Migrating!Table, NewJobs, NewLog
  <1> QED BY <1>1, MigrationsKept, PTL

(* On PostgreSQL no run is refused a statement because of what an earlier one, interrupted anywhere, left *)
(* or did not leave, unless an adoption stamped over a revision recorded meanwhile (docs/observability.md). *)
THEOREM InterruptedRunsResume == HostSpec => []RunsResume
  <1>1. MigrationInv => RunsResume
    BY DEF RunsResume, Migrating!RunsResume, MigrationInv, MigrationsSound, Straight, StraightRun
  <1> QED BY <1>1, MigrationsKept, PTL

(* A run adds nothing to a table of the host's: it works under the final names. *)
LEMMA HostNotAddedTo ==
    ASSUME MigrationsSound, NEW m \in Migrator, AtWork(m), NEW o, AddedTo(Place(m), o), OfHost
    PROVE  OldJobs' = OldJobs
  <1>1. PrefixSound(m)
    BY RunAtWork
  <1>2. recorded \in 0..5
    BY DEF MigrationsSound, MigrationTypes
  <1>3. Place(m) = "prefixed"
    BY <1>1, <1>2 DEF PrefixSound, Place, Migrating!Naming
  <1> QED BY <1>3 DEF AddedTo

(* What no run changes the host's table by. *)
LEMMA HostTableStays ==
    ASSUME MigrationsSound, OfHost, Migrating!Next
    PROVE  OldJobs' = OldJobs
  <1> SUFFICES ASSUME schema' # schema  PROVE OldJobs' = OldJobs
    BY DEF OldJobs
  <1>1. PICK m \in Migrator : Migrating!RunTransaction(m) \/ Migrating!EndBuild(m) \/ Migrating!RunStatement(m)
    BY DEF Migrating!Next, Migrating!ReadTables, Migrating!ReadRevision, Migrating!TakeLock, Migrating!KeepIndex,
           Migrating!BeginBuild, Migrating!Record, Migrating!Fail, Migrating!AdoptLook, Migrating!AdoptMatch, Migrating!AdoptStamp
  <1>2. AtWork(m)
    BY <1>1 DEF Migrating!RunTransaction, Migrating!EndBuild, Migrating!RunStatement, Migrating!Running, AtWork
  <1>3. RunOf(m) /\ recorded \in {0, 1, 2, 3, 4} /\ ~Migrating!Clash(m)
    BY <1>2, RunAtWork DEF RunOf, Migrating!Clash
  <1>4. recorded = 2 /\ JobsRenamed => OldJobs' = OldJobs
    BY JobsAfter DEF OfHost
  <1>5. CASE Migrating!RunTransaction(m)
    <2>1. CASE recorded = 0
      BY <1>3, <1>5, <2>1, TransactionOne
    <2>2. CASE recorded \in {1, 3}
      BY <1>2, <1>3, <1>5, <2>2, TransactionBuilds, HostNotAddedTo DEF TablesKept
    <2>3. CASE recorded = 2
      BY <1>3, <1>4, <1>5, <2>3, TransactionThree
    <2>4. CASE recorded = 4
      BY <1>3, <1>5, <2>4, TransactionFive DEF AddedTo
    <2> QED BY <1>3, <2>1, <2>2, <2>3, <2>4
  <1>6. CASE Migrating!EndBuild(m)
    <2>1. BuildSound(m)
      BY <1>6 DEF MigrationsSound, MigratorSound, Migrating!EndBuild
    <2>2. recorded \in {1, 3} /\ (recorded = 1 => mig[m].step \in {2, 3}) /\ (recorded = 3 => mig[m].step = 2)
      BY <2>1 DEF BuildSound
    <2>3. AddedTo(Place(m), AddedBy(recorded + 1, mig[m].step))
      BY <1>3, <1>6, <2>2, BuildEnds
    <2> QED BY <1>2, <2>3, HostNotAddedTo
  <1>7. CASE Migrating!RunStatement(m)
    <2>1. \/ OldJobs' = OldJobs
          \/ recorded = 2 /\ JobsRenamed
          \/ AddedTo(Place(m), AddedBy(recorded + 1, mig[m].step))
      BY <1>3, <1>7, StatementEffect
    <2> QED BY <1>2, <1>4, <2>1, HostNotAddedTo
  <1> QED BY <1>1, <1>5, <1>6, <1>7

(* A step of the migrations, or of anything else, leaves a table of the host's as it is. *)
LEMMA HostTableIsKept ==
    ASSUME MigrationInv, [Migrating!Next]_MigrationVars
    PROVE  Migrating!HostTableKept
  <1> SUFFICES ASSUME ~misread, "host" \in OldJobs  PROVE OldJobs' = OldJobs
    BY DEF Migrating!HostTableKept, OldJobs
  <1>1. MigrationsSound
    BY DEF MigrationInv
  <1>2. OfHost
    BY <1>1 DEF MigrationsSound, TablesSound, Chained, OwnObjects
  <1>3. CASE UNCHANGED MigrationVars
    BY <1>3 DEF MigrationVars, OldJobs
  <1> QED BY <1>1, <1>2, <1>3, HostTableStays

(* No step of a process rewrites what is another's: the row of a durable event stays queued, pruning      *)
(* spares a worker that beat since its cutoff, and a migration leaves a table of the host's as it is, for *)
(* any number of events, instances and migrators (_bus_row, prune_worker_records_before, rev0003).        *)
THEOREM OthersAreKept == HostSpec => OthersKept
  <1>1. UNCHANGED BusVars => Bus!QueuedIsTerminal
    BY DEF BusVars, Bus!QueuedIsTerminal
  <1>2. UNCHANGED WorkerVars => Work!LiveRowsKept
    BY DEF WorkerVars, Work!LiveRowsKept
  <1>3. WorkInv /\ [HostNext]_allVars => Work!LiveRowsKept
    BY <1>2, WorkerSteps, PruneSparesTheLiving
  <1>4. MigrationInv /\ [HostNext]_allVars => Migrating!HostTableKept
    BY MigrationSteps, HostTableIsKept
  <1>5. WorkInv /\ MigrationInv /\ [HostNext]_allVars /\ [Bus!QueuedIsTerminal]_BusVars =>
            [Bus!QueuedIsTerminal /\ Work!LiveRowsKept /\ Migrating!HostTableKept]_allVars
    BY <1>1, <1>3, <1>4
  <1> QED BY <1>5, QueuedRowsStay, WorkKept, MigrationsKept, PTL DEF HostSpec, OthersKept
=============================================================================
