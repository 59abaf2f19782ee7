------------------------------ MODULE JobQueue ------------------------------
(***************************************************************************)
(* The durable job queue: the processing_jobs and job_attempts tables, the *)
(* workers that claim batches of rows and run them (jobs/runner.py), the   *)
(* heartbeat thread of each worker (jobs/heartbeat.py), the reaper, replay *)
(* and retention.  One action is one database transaction or one critical  *)
(* section of a LeaseKeeper; everything between two of them interleaves    *)
(* with every other thread and process.                                    *)
(***************************************************************************)
EXTENDS JobRow, JobAttempts

CONSTANTS Job,          \* rows that may be inserted
          NoClaim,
          BatchSize,    \* limit of claim_jobs
          SkipLocked,   \* supports_skip_locked: PostgreSQL, MySQL 8, MariaDB 10.6
          MaxClaims,    \* bound: claims of one row
          Mortal,       \* workers that may crash, stop or be interrupted
          Replayable,   \* jobs an operator may replay
          Prunable      \* jobs retention may delete

ASSUME QueueAssumption ==
    /\ BatchSize \in Nat \ {0}
    /\ SkipLocked \in BOOLEAN
    /\ MaxClaims \in Nat
    /\ Mortal \subseteq Worker
    /\ Replayable \subseteq Job
    /\ Prunable \subseteq Job
    /\ NoClaim \notin [job : Job, attempt : Nat, gen : Nat]

VARIABLES jobs,       \* processing_jobs
          history,    \* job_attempts, per job
          pc,         \* where the runner thread of each worker is
          selected,   \* job_ids of its claim in progress
          batch,      \* snapshots not yet run; the waiting claims while it releases
          turn,       \* the snapshot whose turn it is
          out,        \* how the handler ended; "exit" once the worker is stopping
          held,       \* LeaseKeeper._held
          lost,       \* _Running.lost
          abandoned,  \* _Running.abandoned
          beat,       \* where the heartbeat thread is in an abandonment
          reaping     \* job_ids the reaper selected

runner == <<pc, selected, batch, turn, out>>
keeper == <<held, lost, abandoned>>
vars == <<jobs, history, runner, keeper, beat, reaping>>

-----------------------------------------------------------------------------
(* A claim as a worker remembers it: the code keeps the job and the attempt; *)
(* gen is the generation, which only the properties read.                    *)
Claim == [job : Job, attempt : Nat, gen : Nat]

PC == {"idle", "selected", "claimed", "first", "batch", "ready", "running",
       "finalizing", "written", "late", "drain", "releasing", "stopped", "crashed"}

Resting == [step |-> "rest", claim |-> NoClaim, waiting |-> {}]

Alive(w) == pc[w] \notin {"stopped", "crashed"}

(* _running is not None, and it is not yet finalizing. *)
Executing(w) == pc[w] = "running"

Owns(w, c) == OwnedClaim(jobs[c.job], w, c.attempt)

Init ==
    /\ jobs = [j \in Job |-> AbsentRow]
    /\ history = [j \in Job |-> << >>]
    /\ pc = [w \in Worker |-> "idle"]
    /\ selected = [w \in Worker |-> {}]
    /\ batch = [w \in Worker |-> {}]
    /\ turn = [w \in Worker |-> NoClaim]
    /\ out = [w \in Worker |-> "none"]
    /\ held = [w \in Worker |-> {}]
    /\ lost = [w \in Worker |-> FALSE]
    /\ abandoned = [w \in Worker |-> FALSE]
    /\ beat = [w \in Worker |-> Resting]
    /\ reaping = {}

-----------------------------------------------------------------------------
(* The table: insertion, time, replay, retention.                            *)

Enqueue(j) ==
    /\ jobs[j].status = "absent"
    /\ jobs' = [jobs EXCEPT ![j] = Inserted]
    /\ UNCHANGED <<history, runner, keeper, beat, reaping>>

BecomeDue(j) ==
    /\ jobs[j].status = "pending"
    /\ ~ jobs[j].due
    /\ jobs' = [jobs EXCEPT ![j].due = TRUE]
    /\ UNCHANGED <<history, runner, keeper, beat, reaping>>

LeaseExpire(j) ==
    /\ jobs[j].status = "claimed"
    /\ ~ jobs[j].expired
    /\ jobs' = [jobs EXCEPT ![j].expired = TRUE]
    /\ UNCHANGED <<history, runner, keeper, beat, reaping>>

Replay(j) ==
    /\ j \in Replayable
    /\ jobs[j].status = "dead_letter"
    /\ jobs' = [jobs EXCEPT ![j] = Replayed(@)]
    /\ UNCHANGED <<history, runner, keeper, beat, reaping>>

Prune(j) ==
    /\ j \in Prunable
    /\ jobs[j].status = "completed"
    /\ jobs' = [jobs EXCEPT ![j] = Pruned(@)]
    /\ UNCHANGED <<history, runner, keeper, beat, reaping>>

-----------------------------------------------------------------------------
(* The reaper.  Its select and its updates are two statements: where rows    *)
(* are not locked, anything may happen to them in between.                   *)

ReapSelect ==
    /\ reaping = {}
    /\ reaping' \in SUBSET {j \in Job : jobs[j].status = "claimed" /\ jobs[j].expired}
    /\ reaping' # {}
    /\ UNCHANGED <<jobs, history, runner, keeper, beat>>

StillExpired(j) == jobs[j].status = "claimed" /\ jobs[j].expired

ReapUpdate ==
    /\ reaping # {}
    /\ jobs' = [j \in Job |-> IF j \in reaping /\ StillExpired(j)
                              THEN Reclaimed(jobs[j]) ELSE jobs[j]]
    /\ history' = [j \in Job |-> IF j \in reaping /\ jobs'[j].status \notin {"claimed", "pruned"}
                                 THEN CloseExpired(history[j]) ELSE history[j]]
    /\ reaping' = {}
    /\ UNCHANGED <<runner, keeper, beat>>

ReapFail ==
    /\ reaping # {}
    /\ reaping' = {}
    /\ UNCHANGED <<jobs, history, runner, keeper, beat>>

-----------------------------------------------------------------------------
(* Claiming a batch.                                                         *)

(* Mutant of Due: available_at is not looked at. *)
DueAtOnce(j) == jobs[j].status = "pending"

Due(j) == jobs[j].status = "pending" /\ jobs[j].due

(* Rows another claim in progress has locked. *)
Locked == UNION {selected[v] : v \in {u \in Worker : pc[u] = "selected"}}

ClaimSelect(w) ==
    /\ pc[w] = "idle"
    /\ \E ids \in SUBSET {j \in Job : Due(j) /\ (SkipLocked => j \notin Locked)} :
          /\ ids # {}
          /\ Cardinality(ids) <= BatchSize
          /\ selected' = [selected EXCEPT ![w] = ids]
    /\ pc' = [pc EXCEPT ![w] = "selected"]
    /\ UNCHANGED <<jobs, history, batch, turn, out, keeper, beat, reaping>>

(* Mutant of Claimable: the update does not test the status again. *)
ClaimableAnyway(j) == jobs[j].status \in {"pending", "claimed"}

Claimable(j) == jobs[j].status = "pending"

ClaimUpdate(w) ==
    /\ pc[w] = "selected"
    /\ \A j \in selected[w] : Len(history[j]) < MaxClaims
    /\ jobs' = [j \in Job |-> IF j \in selected[w] /\ Claimable(j)
                              THEN Claimed(jobs[j], w) ELSE jobs[j]]
    /\ history' = [j \in Job |->
                     IF j \in selected[w] /\ jobs'[j].status = "claimed" /\ jobs'[j].locked_by = w
                     THEN OpenAttempt(history[j], w, jobs'[j].attempts) ELSE history[j]]
    /\ pc' = [pc EXCEPT ![w] = "claimed"]
    /\ UNCHANGED <<selected, batch, turn, out, keeper, beat, reaping>>

(* The read-back follows the commit, then hold() starts tracking the batch. *)
ReadBack(w) ==
    LET mine == {j \in selected[w] : jobs[j].status = "claimed" /\ jobs[j].locked_by = w}
        claims == {[job |-> j, attempt |-> jobs[j].attempts, gen |-> Len(history[j])] : j \in mine}
    IN  /\ pc[w] = "claimed"
        /\ selected' = [selected EXCEPT ![w] = {}]
        /\ batch' = [batch EXCEPT ![w] = claims]
        /\ held' = [held EXCEPT ![w] = claims]
        /\ pc' = [pc EXCEPT ![w] = IF claims = {} THEN "idle" ELSE "first"]
        /\ UNCHANGED <<jobs, history, turn, out, lost, abandoned, beat, reaping>>

(* A database error ends run_once before hold(); what was claimed is left to *)
(* the reaper.                                                               *)
ClaimFail(w) ==
    /\ pc[w] \in {"selected", "claimed"}
    /\ selected' = [selected EXCEPT ![w] = {}]
    /\ pc' = [pc EXCEPT ![w] = "idle"]
    /\ UNCHANGED <<jobs, history, batch, turn, out, keeper, beat, reaping>>

-----------------------------------------------------------------------------
(* What renewing and releasing a set of claims does to the tables.           *)

OwnedJobs(w, claims) == {c.job : c \in {d \in claims : Owns(w, d)}}

RenewLeases(w, claims) ==
    jobs' = [j \in Job |-> IF j \in OwnedJobs(w, claims) THEN Renewed(jobs[j]) ELSE jobs[j]]

AttemptsOf(claims, j) == {c.attempt : c \in {d \in claims : d.job = j}}

(* The attempt rows are closed by (job, worker, attempt) whenever at least *)
(* one of the claims was released.                                         *)
ReleaseLeases(w, claims) ==
    /\ jobs' = [j \in Job |-> IF j \in OwnedJobs(w, claims) THEN Released(jobs[j]) ELSE jobs[j]]
    /\ history' = IF OwnedJobs(w, claims) = {} THEN history
                  ELSE [j \in Job |-> CloseOpen(history[j], w, AttemptsOf(claims, j), "released")]

-----------------------------------------------------------------------------
(* Running a batch, one job after another.                                   *)

Begin(w, c) ==
    /\ turn' = [turn EXCEPT ![w] = c]
    /\ lost' = [lost EXCEPT ![w] = FALSE]
    /\ abandoned' = [abandoned EXCEPT ![w] = FALSE]
    /\ history' = [history EXCEPT ![c.job] = MarkRan(@, c.gen)]
    /\ pc' = [pc EXCEPT ![w] = "running"]

(* The first job of a batch is begun without renewing: its lease is new. *)
BeginFirst(w) ==
    /\ pc[w] = "first"
    /\ \E c \in batch[w] :
          /\ Begin(w, c)
          /\ batch' = [batch EXCEPT ![w] = @ \ {c}]
    /\ UNCHANGED <<jobs, selected, out, held, beat, reaping>>

(* _still_held: renew everything held, then run the job only if it was renewed. *)
StillHeld(w) ==
    /\ pc[w] = "batch"
    /\ \E c \in batch[w] :
          /\ batch' = [batch EXCEPT ![w] = @ \ {c}]
          /\ RenewLeases(w, held[w])
          /\ held' = [held EXCEPT ![w] = {d \in @ : Owns(w, d)}]
          /\ IF c \in held'[w]
             THEN turn' = [turn EXCEPT ![w] = c] /\ pc' = [pc EXCEPT ![w] = "ready"]
             ELSE UNCHANGED <<turn, pc>>
    /\ UNCHANGED <<history, selected, out, lost, abandoned, beat, reaping>>

StillHeldFail(w) ==
    /\ pc[w] = "batch"
    /\ held[w] # {}
    /\ \E c \in batch[w] :
          /\ batch' = [batch EXCEPT ![w] = @ \ {c}]
          /\ held' = [held EXCEPT ![w] = @ \ {c}]
    /\ UNCHANGED <<jobs, history, pc, selected, turn, out, lost, abandoned, beat, reaping>>

BeginNext(w) ==
    /\ pc[w] = "ready"
    /\ Begin(w, turn[w])
    /\ UNCHANGED <<jobs, selected, batch, out, held, beat, reaping>>

(* The handler returns or raises, and finalize() says its outcome is being *)
(* written.  "exit" is a BaseException: a failure that also ends the worker. *)
HandlerReturn(w, result) ==
    /\ pc[w] = "running"
    /\ result = "exit" => w \in Mortal
    /\ out' = [out EXCEPT ![w] = result]
    /\ pc' = [pc EXCEPT ![w] = "finalizing"]
    /\ UNCHANGED <<jobs, history, selected, batch, turn, keeper, beat, reaping>>

(* One transaction: the row if the claim is still owned, and the attempt. *)
Settle(w, row, outcome) ==
    LET c == turn[w]
        owned == Owns(w, c)
    IN  /\ pc[w] = "finalizing"
        /\ jobs' = IF owned THEN [jobs EXCEPT ![c.job] = row] ELSE jobs
        /\ history' = [history EXCEPT ![c.job] =
                         FinishAttempt(@, w, c.attempt, outcome, owned, jobs[c.job].attempts)]
        /\ pc' = [pc EXCEPT ![w] = IF owned THEN "written" ELSE "late"]
        /\ UNCHANGED <<selected, batch, turn, out, keeper, beat, reaping>>

WriteCompleted(w) ==
    /\ out[w] = "completed"
    /\ Settle(w, Completed(jobs[turn[w].job]), "completed")

WriteFailed(w) ==
    LET row == Failed(jobs[turn[w].job])
    IN  /\ out[w] \in {"failed", "exit"}
        /\ Settle(w, row, IF row.status = "dead_letter" THEN "dead_letter" ELSE "failed")

WriteDeferred(w) ==
    /\ out[w] = "deferred"
    /\ ~ (Owns(w, turn[w]) /\ DeferralsExhausted(jobs[turn[w].job]))
    /\ Settle(w, Deferred(jobs[turn[w].job]), "deferred")

WriteContinued(w) ==
    /\ out[w] = "continued"
    /\ ~ (Owns(w, turn[w]) /\ ContinuationsExhausted(jobs[turn[w].job]))
    /\ Settle(w, Continued(jobs[turn[w].job]), "continued")

(* A job out of deferrals or continuations is failed, in a transaction of its own. *)
FailInstead(w) ==
    /\ pc[w] = "finalizing"
    /\ Owns(w, turn[w])
    /\ \/ out[w] = "deferred" /\ DeferralsExhausted(jobs[turn[w].job])
       \/ out[w] = "continued" /\ ContinuationsExhausted(jobs[turn[w].job])
    /\ out' = [out EXCEPT ![w] = "failed"]
    /\ UNCHANGED <<jobs, history, pc, selected, batch, turn, keeper, beat, reaping>>

(* Mutant of WithoutTurn: finish() does not drop the job. *)
WithTurn(w) == held[w]

WithoutTurn(w) == {c \in held[w] : c.job # turn[w].job}

ForgetTurn(w) ==
    /\ held' = [held EXCEPT ![w] = WithoutTurn(w)]
    /\ turn' = [turn EXCEPT ![w] = NoClaim]
    /\ out' = [out EXCEPT ![w] = IF @ = "exit" THEN @ ELSE "none"]
    /\ lost' = [lost EXCEPT ![w] = FALSE]
    /\ abandoned' = [abandoned EXCEPT ![w] = FALSE]

Finish(w) ==
    /\ pc[w] \in {"written", "late"}
    /\ ForgetTurn(w)
    /\ pc' = [pc EXCEPT ![w] =
                IF @ = "late" \/ lost[w] \/ out[w] = "exit" THEN "drain" ELSE "batch"]
    /\ UNCHANGED <<jobs, history, selected, batch, beat, reaping>>

(* The outcome could not be written: the batch goes on, the lease runs out. *)
WriteFail(w) ==
    /\ pc[w] = "finalizing"
    /\ ForgetTurn(w)
    /\ pc' = [pc EXCEPT ![w] = IF out[w] = "exit" THEN "drain" ELSE "batch"]
    /\ UNCHANGED <<jobs, history, selected, batch, beat, reaping>>

EndBatch(w) ==
    /\ pc[w] = "batch"
    /\ batch[w] = {}
    /\ held' = [held EXCEPT ![w] = {}]
    /\ pc' = [pc EXCEPT ![w] = "idle"]
    /\ UNCHANGED <<jobs, history, selected, batch, turn, out, lost, abandoned, beat, reaping>>

(* The stop event is seen between jobs, or while idle. *)
StopSeen(w) ==
    /\ w \in Mortal
    /\ \/ pc[w] = "idle" /\ pc' = [pc EXCEPT ![w] = "stopped"] /\ UNCHANGED out
       \/ /\ pc[w] \in {"first", "batch"}
          /\ batch[w] # {}
          /\ out' = [out EXCEPT ![w] = "exit"]
          /\ pc' = [pc EXCEPT ![w] = "drain"]
    /\ UNCHANGED <<jobs, history, selected, batch, turn, keeper, beat, reaping>>

(* Mutant of Waiting: the running job counts as waiting. *)
WaitingOrRunning(w) == held[w]

(* _take_waiting: the held jobs that have not started. *)
Waiting(w) == held[w] \ {turn[w]}

(* release_waiting: the claims are taken under the lock, released after it. *)
Drain(w) ==
    /\ pc[w] = "drain"
    /\ batch' = [batch EXCEPT ![w] = Waiting(w)]
    /\ held' = [held EXCEPT ![w] = {}]
    /\ pc' = [pc EXCEPT ![w] = "releasing"]
    /\ UNCHANGED <<jobs, history, selected, turn, out, lost, abandoned, beat, reaping>>

AfterRelease(w) ==
    /\ pc[w] = "releasing"
    /\ pc' = [pc EXCEPT ![w] = IF out[w] = "exit" THEN "stopped" ELSE "idle"]
    /\ batch' = [batch EXCEPT ![w] = {}]
    /\ out' = [out EXCEPT ![w] = "none"]
    /\ UNCHANGED <<selected, turn, keeper, beat, reaping>>

ReleaseWaiting(w) ==
    /\ AfterRelease(w)
    /\ ReleaseLeases(w, batch[w])

ReleaseWaitingFail(w) ==
    /\ AfterRelease(w)
    /\ batch[w] # {}
    /\ UNCHANGED <<jobs, history>>

(* The process dies: both threads, and what they remembered. *)
Crash(w) ==
    /\ w \in Mortal
    /\ Alive(w)
    /\ pc' = [pc EXCEPT ![w] = "crashed"]
    /\ selected' = [selected EXCEPT ![w] = {}]
    /\ batch' = [batch EXCEPT ![w] = {}]
    /\ turn' = [turn EXCEPT ![w] = NoClaim]
    /\ out' = [out EXCEPT ![w] = "none"]
    /\ held' = [held EXCEPT ![w] = {}]
    /\ lost' = [lost EXCEPT ![w] = FALSE]
    /\ abandoned' = [abandoned EXCEPT ![w] = FALSE]
    /\ beat' = [beat EXCEPT ![w] = Resting]
    /\ UNCHANGED <<jobs, history, reaping>>

-----------------------------------------------------------------------------
(* The heartbeat thread: LeaseKeeper.renew, once per interval.               *)

Signalled(w) == Executing(w) /\ turn[w] \in held[w] /\ ~ Owns(w, turn[w])

Renew(w) ==
    /\ beat[w].step \in {"rest", "renew"}
    /\ held[w] # {}
    /\ RenewLeases(w, held[w])
    /\ held' = [held EXCEPT ![w] = {c \in @ : Owns(w, c)}]
    /\ lost' = [lost EXCEPT ![w] = @ \/ Signalled(w)]
    /\ beat' = [beat EXCEPT ![w] = Resting]
    /\ UNCHANGED <<history, runner, abandoned, reaping>>

RenewNothing(w) ==
    /\ beat[w].step = "renew"
    /\ held[w] = {}
    /\ beat' = [beat EXCEPT ![w] = Resting]
    /\ UNCHANGED <<jobs, history, runner, keeper, reaping>>

(* A failed renewal; after enough silence it fences the running handler. *)
RenewFail(w) ==
    /\ beat[w].step \in {"rest", "renew"}
    /\ held[w] # {}
    /\ \E fence \in {FALSE, Executing(w)} : lost' = [lost EXCEPT ![w] = @ \/ fence]
    /\ beat' = [beat EXCEPT ![w] = Resting]
    /\ UNCHANGED <<jobs, history, runner, held, abandoned, reaping>>

(* Mutant of Abandon: the abandoned job stays tracked, and is renewed. *)
AbandonWithoutLettingGo(w) ==
    /\ beat[w].step = "rest"
    /\ Executing(w)
    /\ ~ abandoned[w]
    /\ abandoned' = [abandoned EXCEPT ![w] = TRUE]
    /\ lost' = [lost EXCEPT ![w] = TRUE]
    /\ beat' = [beat EXCEPT ![w] =
                  [step |-> "release", claim |-> NoClaim, waiting |-> Waiting(w)]]
    /\ held' = [held EXCEPT ![w] = @ \ Waiting(w)]
    /\ UNCHANGED <<jobs, history, runner, reaping>>

(* The handler overran: decided under the lock, recorded after it. *)
Abandon(w) ==
    /\ beat[w].step = "rest"
    /\ Executing(w)
    /\ ~ abandoned[w]
    /\ abandoned' = [abandoned EXCEPT ![w] = TRUE]
    /\ lost' = [lost EXCEPT ![w] = TRUE]
    /\ beat' = [beat EXCEPT ![w] =
                  [step |-> IF turn[w] \in held[w] THEN "close" ELSE "release",
                   claim |-> IF turn[w] \in held[w] THEN turn[w] ELSE NoClaim,
                   waiting |-> Waiting(w)]]
    /\ held' = [held EXCEPT ![w] = {}]
    /\ UNCHANGED <<jobs, history, runner, reaping>>

CloseAbandoned(w) ==
    /\ beat[w].step = "close"
    /\ beat' = [beat EXCEPT ![w] = [@ EXCEPT !.step = "release", !.claim = NoClaim]]
    /\ LET c == beat[w].claim
       IN  \/ history' = [history EXCEPT ![c.job] = CloseOpen(@, w, {c.attempt}, "abandoned")]
           \/ UNCHANGED history     \* the write failed; best-effort
    /\ UNCHANGED <<jobs, runner, keeper, reaping>>

BeatRelease(w) ==
    /\ beat[w].step = "release"
    /\ beat' = [beat EXCEPT ![w] = [@ EXCEPT !.step = "renew", !.waiting = {}]]
    /\ ReleaseLeases(w, beat[w].waiting)
    /\ UNCHANGED <<runner, keeper, reaping>>

BeatReleaseFail(w) ==
    /\ beat[w].step = "release"
    /\ beat[w].waiting # {}
    /\ beat' = [beat EXCEPT ![w] = [@ EXCEPT !.step = "renew", !.waiting = {}]]
    /\ UNCHANGED <<jobs, history, runner, keeper, reaping>>

-----------------------------------------------------------------------------
HandlerResult == {"completed", "failed", "deferred", "continued", "exit"}

JobStep(j) ==
    \/ Enqueue(j) \/ BecomeDue(j) \/ LeaseExpire(j) \/ Replay(j) \/ Prune(j)

ReaperStep == ReapSelect \/ ReapUpdate \/ ReapFail

WriteOutcome(w) ==
    \/ WriteCompleted(w) \/ WriteFailed(w) \/ WriteDeferred(w) \/ WriteContinued(w)
    \/ FailInstead(w)

RunnerProgress(w) ==
    \/ ClaimSelect(w) \/ ClaimUpdate(w) \/ ReadBack(w) \/ ClaimFail(w)
    \/ BeginFirst(w) \/ StillHeld(w) \/ StillHeldFail(w) \/ BeginNext(w)
    \/ WriteOutcome(w) \/ Finish(w) \/ WriteFail(w) \/ EndBatch(w)
    \/ Drain(w) \/ ReleaseWaiting(w) \/ ReleaseWaitingFail(w)

RunnerStep(w) ==
    \/ RunnerProgress(w)
    \/ \E result \in HandlerResult : HandlerReturn(w, result)
    \/ StopSeen(w) \/ Crash(w)

BeatStep(w) ==
    \/ Renew(w) \/ RenewNothing(w) \/ RenewFail(w) \/ Abandon(w)
    \/ CloseAbandoned(w) \/ BeatRelease(w) \/ BeatReleaseFail(w)

Next ==
    \/ \E j \in Job : JobStep(j)
    \/ ReaperStep
    \/ \E w \in Worker : RunnerStep(w) \/ BeatStep(w)

Spec == Init /\ [][Next]_vars

(* Time passes and the reaper runs.  A runner thread outside a handler      *)
(* takes its next step, and a heartbeat notices an overrun handler.  Only   *)
(* the handlers of an immortal worker are assumed to return: those of the   *)
(* others may hang for ever.  A database call may fail any number of times  *)
(* but not every time, hence SF for claiming and for the reaper.            *)
Fairness ==
    /\ \A j \in Job : WF_vars(Enqueue(j)) /\ WF_vars(BecomeDue(j)) /\ WF_vars(LeaseExpire(j))
    /\ WF_vars(ReapSelect) /\ SF_vars(ReapUpdate)
    /\ \A w \in Worker : WF_vars(RunnerProgress(w)) /\ WF_vars(Abandon(w))
    /\ \A w \in Worker \ Mortal :
          /\ SF_vars(ClaimSelect(w)) /\ SF_vars(ClaimUpdate(w))
          /\ WF_vars(\E result \in HandlerResult : HandlerReturn(w, result))

FairSpec == Spec /\ Fairness

-----------------------------------------------------------------------------
(* Every variable stays in its type: in particular no counter of a row goes *)
(* below zero, although release_leases subtracts from attempts and          *)
(* mark_job_continued stores a difference.                                  *)
TypeOK ==
    /\ jobs \in [Job -> Row]
    /\ history \in [Job -> Seq(Attempt(Worker))]
    /\ pc \in [Worker -> PC]
    /\ selected \in [Worker -> SUBSET Job]
    /\ batch \in [Worker -> SUBSET Claim]
    /\ turn \in [Worker -> Claim \cup {NoClaim}]
    /\ out \in [Worker -> HandlerResult \cup {"none"}]
    /\ held \in [Worker -> SUBSET Claim]
    /\ lost \in [Worker -> BOOLEAN]
    /\ abandoned \in [Worker -> BOOLEAN]
    /\ beat \in [Worker -> [step : {"rest", "close", "release", "renew"},
                            claim : Claim \cup {NoClaim},
                            waiting : SUBSET Claim]]
    /\ reaping \in SUBSET Job

(* The failure budget (mark_job_failed, reclaim_expired_leases): a job that *)
(* may still run has budget left, a claimed one is within it, and one is    *)
(* dead-lettered exactly when it is used up, through every mix of failures, *)
(* deferrals, continuations, releases, expiries and replays.                *)
RowBudget(r) ==
    /\ r.status \in {"absent", "pending"} => Spent(r) \in 0 .. MaxAttempts - 1
    /\ r.status = "claimed" => Spent(r) \in 1 .. MaxAttempts
    /\ r.status = "dead_letter" => Spent(r) = MaxAttempts
    /\ r.deferrals <= MaxDeferrals
    /\ r.continuations <= MaxContinuations

BudgetOK == \A j \in Job : RowBudget(jobs[j])

(* claim_jobs, record_attempts: "the history can never disagree with the    *)
(* claim".  A claimed job has one unsettled attempt, its newest, under the  *)
(* name and number of the claim; a job nobody holds has none open.          *)
HistoryAgrees ==
    \A j \in Job :
        LET rows == history[j]
            n == Len(rows)
        IN  /\ \A i \in 1 .. n : rows[i].outcome = "open" => i = n /\ jobs[j].status = "claimed"
            /\ jobs[j].status = "claimed" =>
                  /\ n > 0
                  /\ rows[n].worker = jobs[j].locked_by
                  /\ rows[n].attempt = jobs[j].attempts
                  /\ rows[n].outcome \in {"open", "abandoned"}

(* The claims a worker may still act on, in either of its threads. *)
RunnerClaims(w) == batch[w] \cup held[w] \cup ({turn[w]} \ {NoClaim})

BeatClaims(w) == beat[w].waiting \cup ({beat[w].claim} \ {NoClaim})

(* _owned_claim: "Match one exact claim generation so a stale worker cannot *)
(* finalize its replacement".  The runner's claims pass the test only while *)
(* they are the newest claim of their job.                                  *)
RunnerFenced ==
    \A w \in Worker : \A c \in RunnerClaims(w) : Owns(w, c) => c.gen = Len(history[c.job])

(* The same of the claims the heartbeat thread took along when it abandoned *)
(* a job and writes about after it dropped the lock.                        *)
BeatFenced ==
    \A w \in Worker : \A c \in BeatClaims(w) : Owns(w, c) => c.gen = Len(history[c.job])

(* _attempts.py: "released: claimed but never run".  Releasing refunds the  *)
(* attempt, which would let a job that does run be run without limit.       *)
ReleasedNeverRan ==
    \A j \in Job : \A i \in DOMAIN history[j] :
        history[j][i].outcome = "released" => ~ history[j][i].ran

(* A job is in two handlers at once only if the lease of the earlier run    *)
(* ran out and the reaper took the job: neither a release nor an outcome of *)
(* another worker ever frees a job whose handler is still running.          *)
OverlapOnlyAfterExpiry ==
    \A w \in Worker :
        Executing(w) /\ turn[w].gen < Len(history[turn[w].job])
            => history[turn[w].job][turn[w].gen].outcome \in {"lease_expired", "abandoned"}

(* A lease is renewed only for work this worker is running or will run: a   *)
(* claim it gave up is left to expire.                                      *)
RenewalsAreForWork ==
    \A w \in Worker :
        pc[w] # "drain" => held[w] \subseteq batch[w] \cup {turn[w]}

(* WorkerHeartbeat: what the heartbeat thread writes behind the runner's    *)
(* back never touches a claim that is not the one it meant: it lets go only *)
(* of jobs it holds, gives back only jobs that never ran, and renews only   *)
(* for work that is still to be done.                                       *)
HeartbeatFenced == BeatFenced /\ ReleasedNeverRan /\ RenewalsAreForWork

(* heartbeat.renew: a running handler whose claim is no longer tracked has  *)
(* been told so.                                                            *)
HandlerSignalled ==
    \A w \in Worker : Executing(w) /\ turn[w] \notin held[w] => lost[w]

(* _finish_attempt: the late outcome of a handler whose job ran again is    *)
(* recorded as superseded, "the only durable record that the handler ran    *)
(* twice", and nothing else is recorded so.                                 *)
LateRunIsSuperseded ==
    [][\A w \in Worker :
         pc[w] = "finalizing" /\ pc'[w] = "late" =>
            LET c == turn[w]
                rows == history[c.job]
                ranAgain == \E i \in c.gen + 1 .. Len(rows) : rows[i].ran
                claimedAgain == c.gen < Len(rows)
                recorded == history'[c.job][c.gen].outcome = "superseded"
            IN  (ranAgain => recorded) /\ (recorded => claimedAgain)]_vars

(* docs/durable-jobs.md: a pending job is "waiting to be claimed, no earlier *)
(* than available_at".                                                      *)
NotClaimedEarly ==
    [][\A j \in Job :
         jobs[j].status = "pending" /\ jobs'[j].status = "claimed" => jobs[j].due]_vars

(* Every job that is enqueued is eventually completed or dead-lettered, as  *)
(* long as one worker keeps running.                                        *)
Settled(j) == jobs[j].status \in {"completed", "dead_letter", "pruned"}

EveryJobSettles == \A j \in Job : <> Settled(j)

(* The table implements the abstract life of a job. *)
View(r) == [status |-> r.status, spent |-> Spent(r),
            deferrals |-> r.deferrals, continuations |-> r.continuations]

Lifecycle == INSTANCE JobLifecycle WITH life <- [j \in Job |-> View(jobs[j])]

(* crud.py as a whole moves every job only as JobLifecycle allows. *)
ImplementsLifecycle == Lifecycle!Spec
=============================================================================
