--------------------------- MODULE WorkerProcess ---------------------------
(***************************************************************************)
(* The in-process job worker and its row in the worker registry            *)
(* (start_job_worker and stop_job_worker of jasil/jobs/service.py,         *)
(* jasil/jobs/worker.py, jasil/jobs/_worker_registry.py).                  *)
(*                                                                         *)
(* Every start makes a new instance: a loop thread, which runs handlers,   *)
(* and a heartbeat thread, which the loop starts before its first batch    *)
(* and stops after its last one.  The host's thread signals the loop and   *)
(* waits for it, but not for ever.  What the loop does with a job is the   *)
(* subject of JobQueue.                                                    *)
(***************************************************************************)
EXTENDS Naturals

CONSTANTS
    MaxInstances,   \* bound on the instances of a behaviour
    MaxTime,        \* bound on the clock
    KeepFor,        \* how long a row is kept after its last sign of life
    MaxLosses,      \* bound on the writes to the registry that fail
    Absent

VARIABLES
    worker,         \* _worker: the instance attached to the process, 0 when there is none
    started,        \* the instances made so far
    halt,           \* instances whose loop has been told to stop
    loop,           \* where each loop thread is
    quit,           \* instances whose heartbeat has been told to stop
    beat,           \* where each heartbeat thread is
    host,           \* the host's thread: "free", or waiting for the loop it stopped
    registry,       \* the row of each instance, or Absent
    clock,
    prune,          \* the prune in progress: its cutoff and the rows it has selected
    lost            \* writes to the registry that have failed

workerVars == <<worker, started, halt, loop, quit, beat, host, registry, clock, prune, lost>>

Instance == 1..MaxInstances

NoPrune == [at |-> "idle"]

Init ==
    /\ worker = 0 /\ started = 0
    /\ halt = {} /\ quit = {}
    /\ loop = [i \in Instance |-> "none"]
    /\ beat = [i \in Instance |-> "none"]
    /\ host = "free"
    /\ registry = [i \in Instance |-> Absent]
    /\ clock = 0
    /\ prune = NoPrune
    /\ lost = 0

(* A write to the registry never stops the worker: it is made, or lost and logged. *)
Telemetry(rows) ==
    \/ registry' = rows /\ UNCHANGED lost
    \/ lost < MaxLosses /\ lost' = lost + 1 /\ UNCHANGED registry

StartRow == [beat |-> clock, stopped |-> Absent]

(***************************************************************************)
(* start_job_worker                                                        *)
(***************************************************************************)
IsAlive(i) == loop[i] \notin {"none", "ended"}

(* Mutant: a second start replaces the worker that is attached. *)
Replaceable == TRUE

(* A live worker is kept, one that has been told to stop too. *)
Startable == worker # 0 => ~IsAlive(worker)

StartJobWorker ==
    /\ host = "free"
    /\ Startable
    /\ started < MaxInstances
    /\ started' = started + 1
    /\ worker' = started + 1
    /\ loop' = [loop EXCEPT ![started + 1] = "starting"]
    /\ UNCHANGED <<halt, quit, beat, host, registry, clock, prune, lost>>

(***************************************************************************)
(* run_worker: the loop thread                                             *)
(***************************************************************************)
(* The heartbeat records the start and begins before the first batch. *)
StartHeartbeat(i) ==
    /\ loop[i] = "starting"
    /\ Telemetry([registry EXCEPT ![i] = StartRow])
    /\ loop' = [loop EXCEPT ![i] = "polling"]
    /\ beat' = [beat EXCEPT ![i] = "waiting"]
    /\ UNCHANGED <<worker, started, halt, quit, host, clock, prune>>

RunOnce(i) ==
    /\ loop[i] = "polling" /\ i \notin halt
    /\ loop' = [loop EXCEPT ![i] = "handling"]
    /\ UNCHANGED <<worker, started, halt, quit, beat, host, registry, clock, prune, lost>>

HandlerReturns(i) ==
    /\ loop[i] = "handling"
    /\ loop' = [loop EXCEPT ![i] = "polling"]
    /\ UNCHANGED <<worker, started, halt, quit, beat, host, registry, clock, prune, lost>>

(* The loop has been told to stop, or a SystemExit of a handler ends it. *)
Leave(i) ==
    /\ \/ loop[i] = "polling" /\ i \in halt
       \/ loop[i] = "handling"
    /\ loop' = [loop EXCEPT ![i] = "leaving"]
    /\ quit' = quit \cup {i}
    /\ UNCHANGED <<worker, started, halt, beat, host, registry, clock, prune, lost>>

(* Mutant: the stop is recorded whether or not the heartbeat has ended. *)
JoinedInAnyCase(i) == TRUE

Joined(i) == beat[i] = "ended"

(* The stop is recorded once the heartbeat has ended; a row that is gone stays gone. *)
RecordStop(i) ==
    /\ loop[i] = "leaving"
    /\ Joined(i)
    /\ Telemetry([registry EXCEPT ![i] = IF @ = Absent THEN @ ELSE [beat |-> clock, stopped |-> clock]])
    /\ loop' = [loop EXCEPT ![i] = "ended"]
    /\ UNCHANGED <<worker, started, halt, quit, beat, host, clock, prune>>

(* The heartbeat is still writing when the wait for it is over. *)
AbandonHeartbeat(i) ==
    /\ loop[i] = "leaving"
    /\ beat[i] = "beating"
    /\ loop' = [loop EXCEPT ![i] = "ended"]
    /\ UNCHANGED <<worker, started, halt, quit, beat, host, registry, clock, prune, lost>>

(***************************************************************************)
(* The heartbeat thread                                                    *)
(***************************************************************************)
BeginBeat(i) ==
    /\ beat[i] = "waiting" /\ i \notin quit
    /\ beat' = [beat EXCEPT ![i] = "beating"]
    /\ UNCHANGED <<worker, started, halt, loop, quit, host, registry, clock, prune, lost>>

(* A row that is gone, pruned or never written, is written again. *)
EndBeat(i) ==
    /\ beat[i] = "beating"
    /\ beat' = [beat EXCEPT ![i] = "waiting"]
    /\ Telemetry([registry EXCEPT ![i] = IF @ = Absent THEN StartRow ELSE [@ EXCEPT !.beat = clock]])
    /\ UNCHANGED <<worker, started, halt, loop, quit, host, clock, prune>>

EndHeartbeat(i) ==
    /\ beat[i] = "waiting" /\ i \in quit
    /\ beat' = [beat EXCEPT ![i] = "ended"]
    /\ UNCHANGED <<worker, started, halt, loop, quit, host, registry, clock, prune, lost>>

(***************************************************************************)
(* stop_job_worker                                                         *)
(***************************************************************************)
(* Mutant: the signal reaches the heartbeat at once. *)
BothToldToStop == quit \cup {worker}

(* The heartbeat goes on until the loop has left. *)
LoopToldToStop == quit

StopJobWorker ==
    /\ host = "free" /\ worker # 0
    /\ halt' = halt \cup {worker}
    /\ quit' = LoopToldToStop
    /\ host' = "joining"
    /\ UNCHANGED <<worker, started, loop, beat, registry, clock, prune, lost>>

(* A handler stops the worker it runs on: nothing is waited for, and the worker is detached. *)
StopFromHandler ==
    /\ worker # 0 /\ loop[worker] = "handling"
    /\ halt' = halt \cup {worker}
    /\ worker' = 0
    /\ UNCHANGED <<started, loop, quit, beat, host, registry, clock, prune, lost>>

(* A loop that has not ended when the wait is over stays attached. *)
StopReturns ==
    /\ host = "joining"
    /\ host' = "free"
    /\ worker' = IF worker # 0 /\ ~IsAlive(worker) THEN 0 ELSE worker
    /\ UNCHANGED <<started, halt, loop, quit, beat, registry, clock, prune, lost>>

(***************************************************************************)
(* prune_worker_records_before: the rows are selected, then deleted         *)
(***************************************************************************)
Old(i, cutoff) ==
    /\ registry[i] # Absent
    /\ IF registry[i].stopped # Absent THEN registry[i].stopped < cutoff ELSE registry[i].beat < cutoff

SelectOld ==
    /\ prune = NoPrune
    /\ clock >= KeepFor
    /\ LET cutoff == clock - KeepFor
           ids == {i \in Instance : Old(i, cutoff)} IN
       /\ ids # {}
       /\ prune' = [at |-> "selected", cutoff |-> cutoff, ids |-> ids]
    /\ UNCHANGED <<worker, started, halt, loop, quit, beat, host, registry, clock, lost>>

(* Mutant: what was selected is deleted. *)
StillSelected(i) == TRUE

(* The condition is part of the delete: a row that has beaten since is not old any more. *)
StillOld(i) == Old(i, prune.cutoff)

DeleteOld ==
    /\ prune.at = "selected"
    /\ registry' = [i \in Instance |-> IF i \in prune.ids /\ StillOld(i) THEN Absent ELSE registry[i]]
    /\ prune' = NoPrune
    /\ UNCHANGED <<worker, started, halt, loop, quit, beat, host, clock, lost>>

TimePasses ==
    /\ clock < MaxTime
    /\ clock' = clock + 1
    /\ UNCHANGED <<worker, started, halt, loop, quit, beat, host, registry, prune, lost>>

Next ==
    \/ \E i \in Instance :
        \/ StartHeartbeat(i) \/ RunOnce(i) \/ HandlerReturns(i) \/ Leave(i) \/ RecordStop(i) \/ AbandonHeartbeat(i)
        \/ BeginBeat(i) \/ EndBeat(i) \/ EndHeartbeat(i)
    \/ StartJobWorker \/ StopJobWorker \/ StopFromHandler \/ StopReturns \/ SelectOld \/ DeleteOld \/ TimePasses

Spec == Init /\ [][Next]_workerVars

Claiming(i) == loop[i] \in {"starting", "polling", "handling"} /\ i \notin halt

(* Of the loops of a process at most one takes further jobs, through stops that time out, *)
(* stops from a handler and starts that follow them (start_job_worker).                   *)
OneClaimer ==
    \A i, j \in Instance : Claiming(i) /\ Claiming(j) => i = j

(* A handler that still runs after the stop keeps its heartbeat, hence its lease, until *)
(* it returns (run_worker).                                                             *)
HandlersKeepHeartbeat ==
    \A i \in Instance : loop[i] = "handling" => beat[i] \in {"waiting", "beating"} /\ i \notin quit

(* An instance the registry calls stopped runs no handler and beats no more: a stop whose *)
(* heartbeat outlived the wait is not recorded (WorkerHeartbeat.stop).                    *)
StoppedIsQuiet ==
    \A i \in Instance :
        (registry[i] # Absent /\ registry[i].stopped # Absent) => loop[i] = "ended" /\ beat[i] = "ended"

(* The heartbeat lasts exactly as long as the work of its instance: while a *)
(* handler runs it beats, and what is recorded stopped does neither.        *)
BeatsUntilDone == HandlersKeepHeartbeat /\ StoppedIsQuiet

(* Pruning removes no row with a sign of life since its cutoff, though it beat between *)
(* the selection and the delete (prune_worker_records_before).                         *)
LiveRowsKept ==
    \A i \in Instance :
        (registry[i] # Absent /\ registry'[i] = Absent) => registry[i].beat + KeepFor < clock
=============================================================================
