--------------------------- MODULE JobQueueProofs ---------------------------
(***************************************************************************)
(* Proofs about JobQueue, for every set of jobs and workers and every      *)
(* bound.  Every step of the queue takes each row through one of the       *)
(* writes of JobRow (StepsAreRowSteps); typing, the failure budget and the *)
(* refinement of JobLifecycle then follow from facts about single rows.    *)
(* The second half is about the claims and the attempts they open.         *)
(***************************************************************************)
EXTENDS JobQueue, TLAPS

(* One row before and after one step of the queue. *)
RowStep(r, s) ==
    \/ s = r
    \/ r.status = "absent" /\ s = Inserted
    \/ r.status = "pending" /\ s = [r EXCEPT !.due = TRUE]
    \/ r.status = "pending" /\ \E w \in Worker : s = Claimed(r, w)
    \/ r.status = "dead_letter" /\ s = Replayed(r)
    \/ r.status = "completed" /\ s = Pruned(r)
    \/ /\ r.status = "claimed"
       /\ \/ s = [r EXCEPT !.expired = TRUE]
          \/ s = Renewed(r)
          \/ s = Released(r)
          \/ s = Completed(r)
          \/ s = Failed(r)
          \/ s = Reclaimed(r)
          \/ ~ DeferralsExhausted(r) /\ s = Deferred(r)
          \/ ~ ContinuationsExhausted(r) /\ s = Continued(r)

RowOK(r) == r \in Row /\ RowBudget(r)

(* A requeued row is pending and unlocked, with its counters untouched. *)
LEMMA RequeuedFields ==
    ASSUME NEW r \in Row, NEW d \in BOOLEAN
    PROVE  LET q == Requeued(r, d)
           IN  /\ q \in Row
               /\ q.status = "pending"
               /\ q.attempts = r.attempts
               /\ q.deferrals = r.deferrals
               /\ q.continuations = r.continuations
               /\ q.budget_offset = r.budget_offset
BY DEF Requeued, Row, Status

(* A row whose claim ended for good keeps its counters too. *)
LEMMA EndedFields ==
    ASSUME NEW r \in Row, NEW st \in Status
    PROVE  LET q == Ended(r, st)
           IN  /\ q \in Row
               /\ q.status = st
               /\ q.attempts = r.attempts
               /\ q.deferrals = r.deferrals
               /\ q.continuations = r.continuations
               /\ q.budget_offset = r.budget_offset
BY DEF Ended, Row

(* The counters of a claimed row leave room for a release and a continuation. *)
LEMMA ClaimedCounters ==
    ASSUME NEW r \in Row, RowBudget(r), r.status = "claimed"
    PROVE  /\ r.attempts - 1 \in Nat
           /\ r.attempts - r.deferrals \in Nat
BY BudgetAssumption DEF Row, RowBudget, Spent

(* Every write of crud.py keeps a row well-typed and within its budget. *)
LEMMA RowStepKeepsRowOK ==
    ASSUME NEW r, NEW s, RowOK(r), RowStep(r, s)
    PROVE  RowOK(s)
<1>0. r \in Row /\ RowBudget(r)
  BY DEF RowOK
<1>1. CASE s = r
  BY <1>1
<1>2. CASE r.status = "absent" /\ s = Inserted
  <2>1. s = [status |-> "pending", attempts |-> 0, deferrals |-> 0,
             continuations |-> 0, budget_offset |-> 0, locked_by |-> NoWorker,
             expired |-> FALSE, due |-> TRUE]
    BY <1>2 DEF Inserted, AbsentRow
  <2> QED
    BY <2>1, BudgetAssumption DEF RowOK, Row, Status, RowBudget, Spent
<1>3. CASE r.status = "pending" /\ s = [r EXCEPT !.due = TRUE]
  BY <1>0, <1>3 DEF RowOK, Row, RowBudget, Spent
<1>4. CASE r.status = "pending" /\ \E w \in Worker : s = Claimed(r, w)
  <2>1. PICK w \in Worker : s = Claimed(r, w)
    BY <1>4
  <2>2. /\ s \in Row
        /\ s.status = "claimed"
        /\ s.attempts = r.attempts + 1
        /\ s.deferrals = r.deferrals
        /\ s.continuations = r.continuations
        /\ s.budget_offset = r.budget_offset
    <3> DEFINE a == r.attempts + 1
    <3>1. a \in Nat /\ "claimed" \in Status
      BY <1>0 DEF Row, Status
    <3> HIDE DEF a
    <3>2. s = [r EXCEPT !.status = "claimed", !.attempts = a, !.locked_by = w,
                        !.expired = FALSE, !.due = FALSE]
      BY <2>1 DEF Claimed, a
    <3>3. s \in Row
      BY <1>0, <3>1, <3>2 DEF Row
    <3>4. s.attempts = a
      BY <1>0, <3>2 DEF Row
    <3> QED
      BY <1>0, <3>2, <3>3, <3>4 DEF Row, a
  <2> QED
    BY <1>0, <1>4, <2>2, BudgetAssumption DEF RowOK, RowBudget, Spent, Row
<1>5. CASE r.status = "dead_letter" /\ s = Replayed(r)
  <2> DEFINE q == Requeued(r, TRUE)
  <2>1. q \in Row /\ q.status = "pending"
    BY <1>0, RequeuedFields
  <2> HIDE DEF q
  <2>2. s = [q EXCEPT !.attempts = 0, !.deferrals = 0, !.continuations = 0, !.budget_offset = 0]
    BY <1>5 DEF Replayed, q
  <2>3. s \in Row
    BY <2>1, <2>2 DEF Row
  <2>4. /\ s.status = "pending" /\ s.attempts = 0 /\ s.deferrals = 0
        /\ s.continuations = 0 /\ s.budget_offset = 0
    BY <2>1, <2>2 DEF Row
  <2> QED
    BY <2>3, <2>4, BudgetAssumption DEF RowOK, RowBudget, Spent
<1>6. CASE r.status = "completed" /\ s = Pruned(r)
  <2>1. s = [status |-> "pruned", attempts |-> 0, deferrals |-> 0,
             continuations |-> 0, budget_offset |-> 0, locked_by |-> NoWorker,
             expired |-> FALSE, due |-> FALSE]
    BY <1>6 DEF Pruned, AbsentRow
  <2> QED
    BY <2>1, BudgetAssumption DEF RowOK, Row, Status, RowBudget, Spent
<1>7. CASE r.status = "claimed" /\ s = [r EXCEPT !.expired = TRUE]
  BY <1>0, <1>7 DEF RowOK, Row, RowBudget, Spent
<1>8. CASE r.status = "claimed" /\ s = Renewed(r)
  BY <1>0, <1>8 DEF Renewed, RowOK, Row, RowBudget, Spent
<1>9. CASE r.status = "claimed" /\ s = Released(r)
  <2> DEFINE q == Requeued(r, TRUE)
  <2>1. /\ q \in Row /\ q.status = "pending" /\ q.attempts = r.attempts
        /\ q.deferrals = r.deferrals /\ q.continuations = r.continuations
        /\ q.budget_offset = r.budget_offset
    BY <1>0, RequeuedFields
  <2> HIDE DEF q
  <2>2. s = [q EXCEPT !.attempts = q.attempts - 1]
    BY <1>9 DEF Released, q
  <2>3. q.attempts - 1 \in Nat
    BY <1>0, <1>9, <2>1, ClaimedCounters
  <2> QED
    BY <1>0, <1>9, <2>1, <2>2, <2>3, BudgetAssumption DEF RowOK, RowBudget, Spent, Row
<1>10. CASE r.status = "claimed" /\ s = Completed(r)
  <2>1. "completed" \in Status
    BY DEF Status
  <2> QED
    BY <1>0, <1>10, <2>1, EndedFields DEF Completed, RowOK, RowBudget
<1>11. CASE r.status = "claimed" /\ (s = Failed(r) \/ s = Reclaimed(r))
  <2>1. CASE Spent(r) >= MaxAttempts
    <3>1. s = Ended(r, "dead_letter") /\ "dead_letter" \in Status
      BY <1>11, <2>1 DEF Failed, Reclaimed, Status
    <3>2. Spent(r) = MaxAttempts
      BY <1>0, <1>11, <2>1, BudgetAssumption DEF RowBudget, Spent, Row
    <3> QED
      BY <1>0, <3>1, <3>2, EndedFields DEF RowOK, RowBudget, Spent
  <2>2. CASE ~ (Spent(r) >= MaxAttempts)
    <3>1. PICK d \in BOOLEAN : s = Requeued(r, d)
      BY <1>11, <2>2 DEF Failed, Reclaimed
    <3>2. Spent(r) \in 0 .. MaxAttempts - 1
      BY <1>0, <1>11, <2>2, BudgetAssumption DEF RowBudget, Spent, Row
    <3> QED
      BY <1>0, <3>1, <3>2, RequeuedFields DEF RowOK, RowBudget, Spent
  <2> QED
    BY <2>1, <2>2
<1>12. CASE r.status = "claimed" /\ ~ DeferralsExhausted(r) /\ s = Deferred(r)
  <2> DEFINE q == Requeued(r, FALSE)
  <2>1. /\ q \in Row /\ q.status = "pending" /\ q.attempts = r.attempts
        /\ q.deferrals = r.deferrals /\ q.continuations = r.continuations
        /\ q.budget_offset = r.budget_offset
    BY <1>0, RequeuedFields
  <2> HIDE DEF q
  <2>2. s = [q EXCEPT !.deferrals = q.deferrals + 1]
    BY <1>12 DEF Deferred, q
  <2> QED
    BY <1>0, <1>12, <2>1, <2>2, BudgetAssumption
    DEF RowOK, RowBudget, Spent, Row, DeferralsExhausted
<1>13. CASE r.status = "claimed" /\ ~ ContinuationsExhausted(r) /\ s = Continued(r)
  <2> DEFINE q == Requeued(r, FALSE)
             o == r.attempts - r.deferrals
             n == r.continuations + 1
  <2>1. /\ q \in Row /\ q.status = "pending" /\ q.attempts = r.attempts
        /\ q.deferrals = r.deferrals /\ q.continuations = r.continuations
        /\ q.budget_offset = r.budget_offset
    BY <1>0, RequeuedFields
  <2>2. o \in Nat /\ n \in Nat
    BY <1>0, <1>13, ClaimedCounters DEF Row
  <2>3. r.attempts - r.deferrals - o = 0
    BY <1>0 DEF Row
  <2> HIDE DEF q, o, n
  <2>4. s = [q EXCEPT !.continuations = n, !.budget_offset = o]
    BY <1>13, <2>1 DEF Continued, q, o, n
  <2>5. s \in Row
    BY <2>1, <2>2, <2>4 DEF Row
  <2>6. /\ s.status = "pending" /\ s.attempts = r.attempts /\ s.deferrals = r.deferrals
        /\ s.continuations = n /\ s.budget_offset = o
    BY <2>1, <2>4 DEF Row
  <2>7. Spent(s) = 0
    BY <2>3, <2>6 DEF Spent
  <2>8. s.continuations <= MaxContinuations
    BY <1>0, <1>13, <2>6, BudgetAssumption DEF ContinuationsExhausted, Row, n
  <2> QED
    BY <1>0, <2>5, <2>6, <2>7, <2>8, BudgetAssumption DEF RowOK, RowBudget
<1> QED
  BY <1>1, <1>2, <1>3, <1>4, <1>5, <1>6, <1>7, <1>8, <1>9, <1>10, <1>11, <1>12,
     <1>13 DEF RowStep

(* Every step of the queue takes each row through at most one write of JobRow. *)
LEMMA StepsAreRowSteps ==
    ASSUME jobs \in [Job -> Row], [Next]_vars
    PROVE  /\ jobs' = [j \in Job |-> jobs'[j]]
           /\ \A j \in Job : RowStep(jobs[j], jobs'[j])
<1> USE DEF RowStep
<1>1. CASE UNCHANGED jobs
  BY <1>1
<1>2. ASSUME NEW j \in Job, JobStep(j)
      PROVE  /\ jobs' = [k \in Job |-> jobs'[k]]
             /\ \A k \in Job : RowStep(jobs[k], jobs'[k])
  BY <1>2 DEF JobStep, Enqueue, BecomeDue, LeaseExpire, Replay, Prune
<1>3. CASE ReaperStep
  <2>1. CASE ReapUpdate
    BY <2>1 DEF ReapUpdate, StillExpired
  <2> QED
    BY <1>1, <1>3, <2>1 DEF ReaperStep, ReapSelect, ReapFail
<1>4. ASSUME NEW w \in Worker, ClaimUpdate(w)
      PROVE  /\ jobs' = [k \in Job |-> jobs'[k]]
             /\ \A k \in Job : RowStep(jobs[k], jobs'[k])
  BY <1>4 DEF ClaimUpdate, Claimable
<1>5. ASSUME NEW w \in Worker, NEW S, RenewLeases(w, S)
      PROVE  /\ jobs' = [k \in Job |-> jobs'[k]]
             /\ \A k \in Job : RowStep(jobs[k], jobs'[k])
  BY <1>5 DEF RenewLeases, OwnedJobs, Owns, OwnedClaim
<1>6. ASSUME NEW w \in Worker, NEW S, ReleaseLeases(w, S)
      PROVE  /\ jobs' = [k \in Job |-> jobs'[k]]
             /\ \A k \in Job : RowStep(jobs[k], jobs'[k])
  BY <1>6 DEF ReleaseLeases, OwnedJobs, Owns, OwnedClaim
<1>7. ASSUME NEW w \in Worker, WriteOutcome(w)
      PROVE  /\ jobs' = [k \in Job |-> jobs'[k]]
             /\ \A k \in Job : RowStep(jobs[k], jobs'[k])
  <2> DEFINE c == turn[w]
  <2>1. CASE WriteCompleted(w)
    BY <2>1 DEF WriteCompleted, Settle, Owns, OwnedClaim
  <2>2. CASE WriteFailed(w)
    BY <2>2 DEF WriteFailed, Settle, Owns, OwnedClaim
  <2>3. CASE WriteDeferred(w)
    BY <2>3 DEF WriteDeferred, Settle, Owns, OwnedClaim
  <2>4. CASE WriteContinued(w)
    BY <2>4 DEF WriteContinued, Settle, Owns, OwnedClaim
  <2>5. CASE FailInstead(w)
    BY <1>1, <2>5 DEF FailInstead
  <2> QED
    BY <1>7, <2>1, <2>2, <2>3, <2>4, <2>5 DEF WriteOutcome
<1>8. ASSUME NEW w \in Worker, RunnerStep(w)
      PROVE  /\ jobs' = [k \in Job |-> jobs'[k]]
             /\ \A k \in Job : RowStep(jobs[k], jobs'[k])
  <2>1. CASE ReleaseWaiting(w)
    BY <1>6, <2>1 DEF ReleaseWaiting
  <2>2. CASE StillHeld(w)
    BY <1>5, <2>2 DEF StillHeld
  <2> QED
    BY <1>1, <1>4, <1>7, <1>8, <2>1, <2>2
    DEF RunnerStep, RunnerProgress, ClaimSelect, ReadBack, ClaimFail, BeginFirst,
        StillHeldFail, BeginNext, HandlerReturn, Finish, WriteFail, EndBatch, StopSeen,
        Drain, ReleaseWaitingFail, Crash
<1>9. ASSUME NEW w \in Worker, BeatStep(w)
      PROVE  /\ jobs' = [k \in Job |-> jobs'[k]]
             /\ \A k \in Job : RowStep(jobs[k], jobs'[k])
  BY <1>1, <1>5, <1>6, <1>9
  DEF BeatStep, Renew, RenewNothing, RenewFail, Abandon, CloseAbandoned, BeatRelease,
      BeatReleaseFail
<1> QED
  BY <1>1, <1>2, <1>3, <1>8, <1>9 DEF Next, vars
-----------------------------------------------------------------------------
(* The attempt history.                                                      *)

Rows == Seq(Attempt(Worker))

(* A row-by-row rewrite of a history is a history of the same length. *)
LEMMA RewrittenRows ==
    ASSUME NEW rows \in Rows, NEW rows2,
           rows2 = [i \in DOMAIN rows |-> rows2[i]],
           \A i \in DOMAIN rows : rows2[i] \in Attempt(Worker)
    PROVE  rows2 \in Rows /\ Len(rows2) = Len(rows)
<1>1. DOMAIN rows = 1 .. Len(rows) /\ Len(rows) \in Nat
  BY DEF Rows
<1>2. rows2 \in [1 .. Len(rows) -> Attempt(Worker)]
  BY <1>1
<1> QED
  BY <1>1, <1>2 DEF Rows

(* Each statement that writes job_attempts keeps a history well-typed. *)
LEMMA HistoryWritesTyped ==
    ASSUME NEW rows \in Rows
    PROVE  /\ \A w, ats : \A o \in Outcome : CloseOpen(rows, w, ats, o) \in Rows
           /\ CloseExpired(rows) \in Rows
           /\ \A w, a, owned, latest : \A o \in Outcome :
                 FinishAttempt(rows, w, a, o, owned, latest) \in Rows
           /\ \A g : MarkRan(rows, g) \in Rows
           /\ \A w \in Worker : \A a \in Nat : OpenAttempt(rows, w, a) \in Rows
<1>0. /\ \A i \in DOMAIN rows : rows[i] \in Attempt(Worker)
      /\ "lease_expired" \in Outcome /\ "superseded" \in Outcome /\ "open" \in Outcome
  BY DEF Rows, Outcome
<1>1. ASSUME NEW w, NEW ats, NEW o \in Outcome
      PROVE  CloseOpen(rows, w, ats, o) \in Rows
  <2> DEFINE r2 == CloseOpen(rows, w, ats, o)
  <2>1. r2 = [i \in DOMAIN rows |-> r2[i]]
    BY DEF CloseOpen
  <2>2. \A i \in DOMAIN rows : r2[i] \in Attempt(Worker)
    BY <1>0 DEF CloseOpen, Attempt
  <2> HIDE DEF r2
  <2>3. r2 \in Rows
    BY <2>1, <2>2, RewrittenRows
  <2> QED
    BY <2>3 DEF r2
<1>2. CloseExpired(rows) \in Rows
  <2> DEFINE r2 == CloseExpired(rows)
  <2>1. r2 = [i \in DOMAIN rows |-> r2[i]]
    BY DEF CloseExpired
  <2>2. \A i \in DOMAIN rows : r2[i] \in Attempt(Worker)
    BY <1>0 DEF CloseExpired, Attempt
  <2> HIDE DEF r2
  <2>3. r2 \in Rows
    BY <2>1, <2>2, RewrittenRows
  <2> QED
    BY <2>3 DEF r2
<1>3. ASSUME NEW w, NEW a, NEW owned, NEW latest, NEW o \in Outcome
      PROVE  FinishAttempt(rows, w, a, o, owned, latest) \in Rows
  <2> DEFINE r2 == FinishAttempt(rows, w, a, o, owned, latest)
  <2>1. r2 = [i \in DOMAIN rows |-> r2[i]]
    BY DEF FinishAttempt, Rows
  <2>2. \A i \in DOMAIN rows : r2[i] \in Attempt(Worker)
    BY <1>0 DEF FinishAttempt, Attempt, LateOutcome
  <2> HIDE DEF r2
  <2>3. r2 \in Rows
    BY <2>1, <2>2, RewrittenRows
  <2> QED
    BY <2>3 DEF r2
<1>4. ASSUME NEW g PROVE MarkRan(rows, g) \in Rows
  <2> DEFINE r2 == MarkRan(rows, g)
  <2>1. r2 = [i \in DOMAIN rows |-> r2[i]]
    BY DEF MarkRan, Rows
  <2>2. \A i \in DOMAIN rows : r2[i] \in Attempt(Worker)
    BY <1>0 DEF MarkRan, Attempt
  <2> HIDE DEF r2
  <2>3. r2 \in Rows
    BY <2>1, <2>2, RewrittenRows
  <2> QED
    BY <2>3 DEF r2
<1>5. ASSUME NEW w \in Worker, NEW a \in Nat PROVE OpenAttempt(rows, w, a) \in Rows
  BY <1>0 DEF OpenAttempt, Rows, Attempt
<1> QED
  BY <1>1, <1>2, <1>3, <1>4, <1>5
-----------------------------------------------------------------------------
(* Type correctness and the failure budget.                                  *)

(* Histories stay well-typed. *)
LEMMA HistoryStaysTyped ==
    ASSUME TypeOK, jobs' \in [Job -> Row], [Next]_vars
    PROVE  history' \in [Job -> Rows]
<1>0. /\ history \in [Job -> Rows]
      /\ \A j \in Job : history[j] \in Rows
      /\ {"released", "abandoned", "completed", "failed", "dead_letter", "deferred",
          "continued"} \subseteq Outcome
  BY DEF TypeOK, Rows, Outcome
<1>1. CASE UNCHANGED history
  BY <1>0, <1>1
<1>2. CASE ReapUpdate
  BY <1>0, <1>2, HistoryWritesTyped DEF ReapUpdate
<1>3. ASSUME NEW w \in Worker, ClaimUpdate(w) PROVE history' \in [Job -> Rows]
  <2>1. \A j \in Job : jobs'[j].attempts \in Nat
    BY DEF Row
  <2> QED
    BY <1>0, <1>3, <2>1, HistoryWritesTyped DEF ClaimUpdate
<1>4. ASSUME NEW w \in Worker, NEW S, ReleaseLeases(w, S) PROVE history' \in [Job -> Rows]
  BY <1>0, <1>4, HistoryWritesTyped DEF ReleaseLeases
<1>5. ASSUME NEW w \in Worker, NEW c, Begin(w, c) PROVE history' \in [Job -> Rows]
  BY <1>0, <1>5, HistoryWritesTyped DEF Begin
<1>6. ASSUME NEW w \in Worker, NEW row, NEW o \in Outcome, Settle(w, row, o)
      PROVE  history' \in [Job -> Rows]
  BY <1>0, <1>6, HistoryWritesTyped DEF Settle
<1>7. ASSUME NEW w \in Worker, CloseAbandoned(w) PROVE history' \in [Job -> Rows]
  <2> DEFINE c == beat[w].claim
  <2>1. CASE UNCHANGED history
    BY <1>1, <2>1
  <2>2. CASE history' = [history EXCEPT ![c.job] = CloseOpen(@, w, {c.attempt}, "abandoned")]
    <3>1. \A j \in Job : CloseOpen(history[j], w, {c.attempt}, "abandoned") \in Rows
      BY <1>0, HistoryWritesTyped
    <3> HIDE DEF c
    <3> QED
      BY <1>0, <2>2, <3>1
  <2> QED
    BY <1>7, <2>1, <2>2 DEF CloseAbandoned
<1>8. ASSUME NEW w \in Worker, RunnerStep(w) PROVE history' \in [Job -> Rows]
  <2>1. CASE WriteOutcome(w)
    <3>1. CASE WriteCompleted(w)
      BY <1>0, <1>6, <3>1 DEF WriteCompleted
    <3>2. CASE WriteFailed(w)
      BY <1>0, <1>6, <3>2 DEF WriteFailed
    <3>3. CASE WriteDeferred(w)
      BY <1>0, <1>6, <3>3 DEF WriteDeferred
    <3>4. CASE WriteContinued(w)
      BY <1>0, <1>6, <3>4 DEF WriteContinued
    <3>5. CASE FailInstead(w)
      BY <1>1, <3>5 DEF FailInstead
    <3> QED
      BY <2>1, <3>1, <3>2, <3>3, <3>4, <3>5 DEF WriteOutcome
  <2>2. CASE BeginFirst(w) \/ BeginNext(w)
    BY <1>5, <2>2 DEF BeginFirst, BeginNext
  <2>3. CASE ReleaseWaiting(w)
    BY <1>4, <2>3 DEF ReleaseWaiting
  <2> QED
    BY <1>1, <1>3, <1>8, <2>1, <2>2, <2>3
    DEF RunnerStep, RunnerProgress, ClaimSelect, ReadBack, ClaimFail, StillHeld,
        StillHeldFail, HandlerReturn, Finish, WriteFail, EndBatch, StopSeen, Drain,
        ReleaseWaitingFail, Crash
<1>9. ASSUME NEW w \in Worker, BeatStep(w) PROVE history' \in [Job -> Rows]
  BY <1>1, <1>4, <1>7, <1>9
  DEF BeatStep, Renew, RenewNothing, RenewFail, Abandon, BeatRelease, BeatReleaseFail
<1>10. ASSUME NEW j \in Job, JobStep(j) PROVE history' \in [Job -> Rows]
  BY <1>1, <1>10 DEF JobStep, Enqueue, BecomeDue, LeaseExpire, Replay, Prune
<1> QED
  BY <1>1, <1>2, <1>8, <1>9, <1>10 DEF Next, vars, ReaperStep, ReapSelect, ReapFail

(* What the threads of the workers and the reaper remember. *)
WorkersTyped ==
    /\ pc \in [Worker -> PC]
    /\ selected \in [Worker -> SUBSET Job]
    /\ batch \in [Worker -> SUBSET Claim]
    /\ turn \in [Worker -> Claim \cup {NoClaim}]
    /\ out \in [Worker -> HandlerResult \cup {"none"}]
    /\ held \in [Worker -> SUBSET Claim]
    /\ lost \in [Worker -> BOOLEAN]
    /\ abandoned \in [Worker -> BOOLEAN]
    /\ beat \in [Worker -> [step : {"rest", "close", "release", "renew"},
                            claim : Claim \cup {NoClaim},
                            waiting : SUBSET Claim]]
    /\ reaping \in SUBSET Job

(* The threads' own state stays well-typed, action by action. *)
LEMMA WorkersStayTyped ==
    ASSUME TypeOK, [Next]_vars
    PROVE  WorkersTyped'
<1>0. WorkersTyped
  BY DEF TypeOK, WorkersTyped
<1> USE DEF WorkersTyped, PC, HandlerResult, runner, keeper
<1>1. CASE UNCHANGED vars
  BY <1>0, <1>1 DEF vars
<1>2. ASSUME NEW j \in Job, JobStep(j) PROVE WorkersTyped'
  BY <1>0, <1>2 DEF JobStep, Enqueue, BecomeDue, LeaseExpire, Replay, Prune
<1>3. CASE ReaperStep
  BY <1>0, <1>3 DEF ReaperStep, ReapSelect, ReapUpdate, ReapFail
<1>4. ASSUME NEW w \in Worker, RunnerStep(w) PROVE WorkersTyped'
  <2>1. CASE ClaimSelect(w)
    BY <1>0, <2>1 DEF ClaimSelect
  <2>2. CASE ClaimUpdate(w)
    BY <1>0, <2>2 DEF ClaimUpdate
  <2>3. CASE ReadBack(w)
    <3> DEFINE mine == {j \in selected[w] : jobs[j].status = "claimed" /\ jobs[j].locked_by = w}
               claims == {[job |-> j, attempt |-> jobs[j].attempts, gen |-> Len(history[j])] : j \in mine}
    <3>1. \A j \in Job : jobs[j].attempts \in Nat /\ Len(history[j]) \in Nat
      BY DEF TypeOK, Row
    <3>2. claims \subseteq Claim
      BY <1>0, <3>1 DEF Claim
    <3> QED
      BY <1>0, <2>3, <3>2 DEF ReadBack
  <2>4. CASE ClaimFail(w)
    BY <1>0, <2>4 DEF ClaimFail
  <2>5. CASE BeginFirst(w)
    BY <1>0, <2>5 DEF BeginFirst, Begin
  <2>6. CASE StillHeld(w)
    BY <1>0, <2>6 DEF StillHeld
  <2>7. CASE StillHeldFail(w)
    BY <1>0, <2>7 DEF StillHeldFail
  <2>8. CASE BeginNext(w)
    BY <1>0, <2>8 DEF BeginNext, Begin
  <2>9. CASE WriteOutcome(w)
    BY <1>0, <2>9
    DEF WriteOutcome, WriteCompleted, WriteFailed, WriteDeferred, WriteContinued,
        FailInstead, Settle
  <2>10. CASE Finish(w)
    BY <1>0, <2>10 DEF Finish, ForgetTurn, WithoutTurn
  <2>11. CASE WriteFail(w)
    BY <1>0, <2>11 DEF WriteFail, ForgetTurn, WithoutTurn
  <2>12. CASE EndBatch(w)
    BY <1>0, <2>12 DEF EndBatch
  <2>13. CASE Drain(w)
    BY <1>0, <2>13 DEF Drain, Waiting
  <2>14. CASE ReleaseWaiting(w) \/ ReleaseWaitingFail(w)
    BY <1>0, <2>14 DEF ReleaseWaiting, ReleaseWaitingFail, AfterRelease
  <2>15. CASE \E result \in HandlerResult : HandlerReturn(w, result)
    BY <1>0, <2>15 DEF HandlerReturn
  <2>16. CASE StopSeen(w)
    BY <1>0, <2>16 DEF StopSeen
  <2>17. CASE Crash(w)
    BY <1>0, <2>17 DEF Crash, Resting
  <2> QED
    BY <1>4, <2>1, <2>2, <2>3, <2>4, <2>5, <2>6, <2>7, <2>8, <2>9, <2>10, <2>11, <2>12,
       <2>13, <2>14, <2>15, <2>16, <2>17 DEF RunnerStep, RunnerProgress
<1>5. ASSUME NEW w \in Worker, BeatStep(w) PROVE WorkersTyped'
  <2>1. CASE Renew(w)
    BY <1>0, <2>1 DEF Renew, Resting
  <2>2. CASE RenewNothing(w)
    BY <1>0, <2>2 DEF RenewNothing, Resting
  <2>3. CASE RenewFail(w)
    BY <1>0, <2>3 DEF RenewFail, Resting
  <2>4. CASE Abandon(w)
    BY <1>0, <2>4 DEF Abandon, Waiting
  <2>5. CASE CloseAbandoned(w)
    BY <1>0, <2>5, ZenonT(60) DEF CloseAbandoned
  <2>6. CASE BeatRelease(w) \/ BeatReleaseFail(w)
    <3>1. /\ beat' = [beat EXCEPT ![w] = [@ EXCEPT !.step = "renew", !.waiting = {}]]
          /\ UNCHANGED <<runner, keeper, reaping>>
      BY <2>6 DEF BeatRelease, BeatReleaseFail
    <3>2. {} \in SUBSET Claim
      OBVIOUS
    <3> QED
      BY <1>0, <3>1, <3>2
  <2> QED
    BY <1>5, <2>1, <2>2, <2>3, <2>4, <2>5, <2>6 DEF BeatStep
<1> QED
  BY <1>1, <1>2, <1>3, <1>4, <1>5 DEF Next
(* The inductive invariant: the types need the budget, since a release      *)
(* subtracts from attempts and a continuation stores a difference.          *)
TypeAndBudget == TypeOK /\ BudgetOK

(* Every step of the queue preserves it. *)
LEMMA TypeAndBudgetStep ==
    ASSUME TypeAndBudget, [Next]_vars
    PROVE  TypeAndBudget'
<1>1. TypeOK /\ jobs \in [Job -> Row] /\ \A j \in Job : RowOK(jobs[j])
  BY DEF TypeAndBudget, TypeOK, BudgetOK, RowOK
<1>2. jobs' = [j \in Job |-> jobs'[j]] /\ \A j \in Job : RowOK(jobs'[j])
  BY <1>1, StepsAreRowSteps, RowStepKeepsRowOK
<1>3. jobs' \in [Job -> Row]
  BY <1>2 DEF RowOK
<1>4. history' \in [Job -> Rows]
  BY <1>1, <1>3, HistoryStaysTyped
<1>5. WorkersTyped'
  BY <1>1, WorkersStayTyped
<1> QED
  BY <1>2, <1>3, <1>4, <1>5
  DEF TypeAndBudget, TypeOK, BudgetOK, RowOK, Rows, WorkersTyped

(* The queue starts empty and well-typed. *)
LEMMA TypeAndBudgetInit == Init => TypeAndBudget
<1> SUFFICES ASSUME Init PROVE TypeAndBudget
  OBVIOUS
<1>1. AbsentRow \in Row /\ RowBudget(AbsentRow)
  BY BudgetAssumption DEF AbsentRow, Row, Status, RowBudget, Spent
<1>2. BudgetOK /\ jobs \in [Job -> Row]
  BY <1>1 DEF Init, BudgetOK
<1>3. history \in [Job -> Seq(Attempt(Worker))]
  BY DEF Init
<1>4. WorkersTyped
  BY DEF Init, WorkersTyped, PC, HandlerResult, Resting
<1> QED
  BY <1>2, <1>3, <1>4 DEF TypeAndBudget, TypeOK, WorkersTyped

(* The inductive invariant holds of every behaviour of the queue. *)
THEOREM TypeAndBudgetInvariant == Spec => []TypeAndBudget
<1>1. TypeAndBudget /\ [Next]_vars => TypeAndBudget'
  BY TypeAndBudgetStep
<1> QED
  BY <1>1, TypeAndBudgetInit, PTL DEF Spec

(* Type correctness: no counter of processing_jobs ever goes below zero, and *)
(* the two threads of a worker only ever hold claims.                        *)
THEOREM TypeCorrect == Spec => []TypeOK
<1>1. TypeAndBudget => TypeOK
  BY DEF TypeAndBudget
<1> QED
  BY <1>1, TypeAndBudgetInvariant, PTL

(* The failure budget of mark_job_failed and reclaim_expired_leases: a job is *)
(* dead-lettered exactly when its budget is used up, never earlier, never     *)
(* later, whatever mix of outcomes, crashes, releases and replays came first. *)
THEOREM BudgetCorrect == Spec => []BudgetOK
<1>1. TypeAndBudget => BudgetOK
  BY DEF TypeAndBudget
<1> QED
  BY <1>1, TypeAndBudgetInvariant, PTL

-----------------------------------------------------------------------------
(* The refinement of JobLifecycle.                                           *)

(* A write of crud.py is a stutter or a move of the abstract life of the job. *)
LEMMA RowStepsAreMoves ==
    ASSUME NEW r, NEW s, RowOK(r), RowStep(r, s)
    PROVE  View(s) = View(r) \/ Lifecycle!Move(View(r), View(s))
<1> DEFINE l == View(r)
           m == View(s)
<1>0. /\ r \in Row /\ RowBudget(r)
      /\ l = [status |-> r.status, spent |-> Spent(r), deferrals |-> r.deferrals,
              continuations |-> r.continuations]
      /\ m = [status |-> s.status, spent |-> Spent(s), deferrals |-> s.deferrals,
              continuations |-> s.continuations]
  BY DEF RowOK, View
<1> HIDE DEF l, m
<1> SUFFICES m = l \/ Lifecycle!Move(l, m)
  BY DEF l, m
<1>1. CASE s = r \/ s = [r EXCEPT !.due = TRUE] \/ s = [r EXCEPT !.expired = TRUE] \/ s = Renewed(r)
  BY <1>0, <1>1 DEF Renewed, Row, Spent
<1>2. CASE r.status = "absent" /\ s = Inserted
  <2>1. s = [status |-> "pending", attempts |-> 0, deferrals |-> 0,
             continuations |-> 0, budget_offset |-> 0, locked_by |-> NoWorker,
             expired |-> FALSE, due |-> TRUE]
    BY <1>2 DEF Inserted, AbsentRow
  <2>2. Lifecycle!Enqueue(l, m)
    BY <1>0, <1>2, <2>1 DEF Lifecycle!Enqueue, Lifecycle!Fresh, Lifecycle!Life, Spent
  <2> QED
    BY <2>2 DEF Lifecycle!Move
<1>3. CASE r.status = "pending" /\ \E w \in Worker : s = Claimed(r, w)
  <2>1. PICK w \in Worker : s = Claimed(r, w)
    BY <1>3
  <2>2. /\ s.status = "claimed" /\ s.attempts = r.attempts + 1
        /\ s.deferrals = r.deferrals /\ s.continuations = r.continuations
        /\ s.budget_offset = r.budget_offset
    BY <1>0, <2>1 DEF Claimed, Row
  <2>3. Spent(s) = Spent(r) + 1 /\ Spent(r) < MaxAttempts
    BY <1>0, <1>3, <2>2, BudgetAssumption DEF Spent, Row, RowBudget
  <2>4. l.spent + 1 = Spent(s) /\ l.status = "pending" /\ l.spent < MaxAttempts
    BY <1>0, <1>3, <2>3
  <2>5. Lifecycle!Claim(l, m)
    BY <1>0, <2>2, <2>4 DEF Lifecycle!Claim, Lifecycle!Life
  <2> QED
    BY <2>5 DEF Lifecycle!Move
<1>4. CASE r.status = "dead_letter" /\ s = Replayed(r)
  <2> DEFINE q == Requeued(r, TRUE)
  <2>1. q \in Row /\ q.status = "pending"
    BY <1>0, RequeuedFields
  <2> HIDE DEF q
  <2>2. s = [q EXCEPT !.attempts = 0, !.deferrals = 0, !.continuations = 0, !.budget_offset = 0]
    BY <1>4 DEF Replayed, q
  <2>3. /\ s.status = "pending" /\ s.attempts = 0 /\ s.deferrals = 0
        /\ s.continuations = 0 /\ s.budget_offset = 0
    BY <2>1, <2>2 DEF Row
  <2>4. Lifecycle!Replay(l, m)
    BY <1>0, <1>4, <2>3 DEF Lifecycle!Replay, Lifecycle!Fresh, Lifecycle!Life, Spent
  <2> QED
    BY <2>4 DEF Lifecycle!Move
<1>5. CASE r.status = "completed" /\ s = Pruned(r)
  <2>1. s = [status |-> "pruned", attempts |-> 0, deferrals |-> 0,
             continuations |-> 0, budget_offset |-> 0, locked_by |-> NoWorker,
             expired |-> FALSE, due |-> FALSE]
    BY <1>5 DEF Pruned, AbsentRow
  <2>2. Lifecycle!Prune(l, m)
    BY <1>0, <1>5, <2>1 DEF Lifecycle!Prune, Lifecycle!Fresh, Lifecycle!Life, Spent
  <2> QED
    BY <2>2 DEF Lifecycle!Move
<1>6. CASE r.status = "claimed" /\ s = Released(r)
  <2> DEFINE q == Requeued(r, TRUE)
  <2>1. /\ q \in Row /\ q.status = "pending" /\ q.attempts = r.attempts
        /\ q.deferrals = r.deferrals /\ q.continuations = r.continuations
        /\ q.budget_offset = r.budget_offset
    BY <1>0, RequeuedFields
  <2> HIDE DEF q
  <2>2. s = [q EXCEPT !.attempts = q.attempts - 1]
    BY <1>6 DEF Released, q
  <2>3. /\ s.status = "pending" /\ Spent(s) = Spent(r) - 1
        /\ s.deferrals = r.deferrals /\ s.continuations = r.continuations
    BY <1>0, <2>1, <2>2 DEF Row, Spent
  <2>4. l.spent - 1 = Spent(s) /\ l.status = "claimed"
    BY <1>0, <1>6, <2>3
  <2>5. Lifecycle!Release(l, m)
    BY <1>0, <2>3, <2>4 DEF Lifecycle!Release, Lifecycle!Life
  <2> QED
    BY <2>5 DEF Lifecycle!Move
<1>7. CASE r.status = "claimed" /\ s = Completed(r)
  <2>1. "completed" \in Status
    BY DEF Status
  <2>2. Lifecycle!Complete(l, m)
    BY <1>0, <1>7, <2>1, EndedFields DEF Lifecycle!Complete, Lifecycle!Same, Lifecycle!Life, Completed, Spent
  <2> QED
    BY <2>2 DEF Lifecycle!Move
<1>8. CASE r.status = "claimed" /\ (s = Failed(r) \/ s = Reclaimed(r))
  <2>1. CASE Spent(r) >= MaxAttempts
    <3>1. s = Ended(r, "dead_letter") /\ "dead_letter" \in Status
      BY <1>8, <2>1 DEF Failed, Reclaimed, Status
    <3>2. Spent(r) = MaxAttempts
      BY <1>0, <1>8, <2>1, BudgetAssumption DEF RowBudget, Spent, Row
    <3>3. Lifecycle!DeadLetter(l, m)
      BY <1>0, <1>8, <3>1, <3>2, EndedFields 
      DEF Lifecycle!DeadLetter, Lifecycle!Same, Lifecycle!Life, Spent
    <3> QED
      BY <3>3 DEF Lifecycle!Move
  <2>2. CASE ~ (Spent(r) >= MaxAttempts)
    <3>1. PICK d \in BOOLEAN : s = Requeued(r, d)
      BY <1>8, <2>2 DEF Failed, Reclaimed
    <3>2. Spent(r) < MaxAttempts
      BY <1>0, <1>8, <2>2, BudgetAssumption DEF RowBudget, Spent, Row
    <3>3. Lifecycle!Retry(l, m)
      BY <1>0, <1>8, <3>1, <3>2, RequeuedFields 
      DEF Lifecycle!Retry, Lifecycle!Same, Lifecycle!Life, Spent
    <3> QED
      BY <3>3 DEF Lifecycle!Move
  <2> QED
    BY <2>1, <2>2
<1>9. CASE r.status = "claimed" /\ ~ DeferralsExhausted(r) /\ s = Deferred(r)
  <2> DEFINE q == Requeued(r, FALSE)
  <2>1. /\ q \in Row /\ q.status = "pending" /\ q.attempts = r.attempts
        /\ q.deferrals = r.deferrals /\ q.continuations = r.continuations
        /\ q.budget_offset = r.budget_offset
    BY <1>0, RequeuedFields
  <2> HIDE DEF q
  <2>2. s = [q EXCEPT !.deferrals = q.deferrals + 1]
    BY <1>9 DEF Deferred, q
  <2>3. /\ s.status = "pending" /\ Spent(s) = Spent(r) - 1
        /\ s.deferrals = r.deferrals + 1 /\ s.continuations = r.continuations
    BY <1>0, <2>1, <2>2 DEF Row, Spent
  <2>4. r.deferrals < MaxDeferrals
    BY <1>0, <1>9, BudgetAssumption DEF DeferralsExhausted, Row
  <2>5. /\ l.spent - 1 = Spent(s) /\ l.deferrals + 1 = s.deferrals
        /\ l.status = "claimed" /\ l.deferrals < MaxDeferrals
    BY <1>0, <1>9, <2>3, <2>4
  <2>6. Lifecycle!Defer(l, m)
    BY <1>0, <2>3, <2>5 DEF Lifecycle!Defer, Lifecycle!Life
  <2> QED
    BY <2>6 DEF Lifecycle!Move
<1>10. CASE r.status = "claimed" /\ ~ ContinuationsExhausted(r) /\ s = Continued(r)
  <2> DEFINE q == Requeued(r, FALSE)
  <2>1. /\ q \in Row /\ q.status = "pending" /\ q.attempts = r.attempts
        /\ q.deferrals = r.deferrals /\ q.continuations = r.continuations
        /\ q.budget_offset = r.budget_offset
    BY <1>0, RequeuedFields
  <2> HIDE DEF q
  <2>2. s = [q EXCEPT !.continuations = q.continuations + 1,
                      !.budget_offset = r.attempts - r.deferrals]
    BY <1>10 DEF Continued, q
  <2>3. /\ s.status = "pending" /\ s.attempts = r.attempts
        /\ s.budget_offset = r.attempts - r.deferrals
        /\ s.deferrals = r.deferrals /\ s.continuations = r.continuations + 1
    BY <2>1, <2>2 DEF Row
  <2>4. Spent(s) = 0 /\ r.continuations < MaxContinuations
    BY <1>0, <1>10, <2>3, BudgetAssumption DEF Spent, Row, ContinuationsExhausted
  <2>5. /\ Spent(s) = 0 /\ l.continuations + 1 = s.continuations
        /\ l.status = "claimed" /\ l.continuations < MaxContinuations
    BY <1>0, <1>10, <2>3, <2>4
  <2>6. Lifecycle!Continue(l, m)
    BY <1>0, <2>3, <2>5 DEF Lifecycle!Continue, Lifecycle!Life
  <2> QED
    BY <2>6 DEF Lifecycle!Move
<1> QED
  BY <1>1, <1>2, <1>3, <1>4, <1>5, <1>6, <1>7, <1>8, <1>9, <1>10 DEF RowStep

(* The row of a job as JobLifecycle sees it. *)
Lives == [j \in Job |-> View(jobs[j])]

(* A step of the queue is a step of JobLifecycle, or leaves it unchanged. *)
LEMMA StepsImplementLifecycle ==
    ASSUME TypeAndBudget, [Next]_vars
    PROVE  Lifecycle!Next
<1>1. jobs \in [Job -> Row] /\ \A j \in Job : RowOK(jobs[j])
  BY DEF TypeAndBudget, TypeOK, BudgetOK, RowOK
<1>2. \A j \in Job : RowStep(jobs[j], jobs'[j])
  BY <1>1, StepsAreRowSteps
<1>3. ASSUME NEW j \in Job
      PROVE  Lives'[j] = Lives[j] \/ Lifecycle!Move(Lives[j], Lives'[j])
  <2>1. Lives[j] = View(jobs[j]) /\ Lives'[j] = View(jobs'[j])
    BY DEF Lives
  <2> QED
    BY <1>1, <1>2, <2>1, RowStepsAreMoves
<1>4. DOMAIN Lives' = Job
  BY DEF Lives
<1> QED
  BY <1>3, <1>4 DEF Lifecycle!Next, Lives

(* The queue, with its races, crashes, late writes and replays, implements *)
(* the abstract life of a job: crud.py makes no other move.                *)
THEOREM QueueImplementsLifecycle == Spec => ImplementsLifecycle
<1>1. Init => Lifecycle!Init
  <2> SUFFICES ASSUME Init PROVE Lives = [j \in Job |-> Lifecycle!Fresh("absent")]
    BY DEF Lifecycle!Init, Lives
  <2>1. View(AbsentRow) = Lifecycle!Fresh("absent")
    BY DEF View, AbsentRow, Spent, Lifecycle!Fresh, Lifecycle!Life
  <2> QED
    BY <2>1 DEF Init, Lives
<1>2. TypeAndBudget /\ [Next]_vars => [Lifecycle!Next]_Lives
  BY StepsImplementLifecycle
<1> QED
  BY <1>1, <1>2, TypeAndBudgetInvariant, PTL
  DEF Spec, ImplementsLifecycle, Lifecycle!Spec, Lives

(***************************************************************************)
(* The claims of the queue and the attempts they open, for every set of    *)
(* jobs and workers and every bound: the history agrees with the rows and  *)
(* fences the runner, with replays and retention, and only an expiry or a  *)
(* stray release frees a job whose handler runs; without replays, which    *)
(* restart the attempt numbers, it fences the heartbeat too, and no        *)
(* release strays.                                                         *)
(***************************************************************************)

(* The attempt that a claim opened. *)
AttemptOf(c) == history[c.job][c.gen]

Opened(w, c) ==
    /\ c.gen \in 1 .. Len(history[c.job])
    /\ AttemptOf(c).worker = w
    /\ AttemptOf(c).attempt = c.attempt

(* HistoryAgrees of one job: its row and its attempts. *)
Agrees(r, rows) ==
    /\ \A i \in 1 .. Len(rows) : rows[i].outcome = "open" => i = Len(rows) /\ r.status = "claimed"
    /\ r.status = "claimed" =>
          /\ Len(rows) > 0
          /\ rows[Len(rows)].worker = r.locked_by
          /\ rows[Len(rows)].attempt = r.attempts
          /\ rows[Len(rows)].outcome \in {"open", "abandoned"}

(* A worker does not own what it selected and has not claimed yet. *)
SelectedUnowned ==
    \A w \in Worker : pc[w] = "selected" =>
        \A j \in selected[w] : ~ (jobs[j].status = "claimed" /\ jobs[j].locked_by = w)

(* What a runner remembers, by where it is: no claim between batches, a     *)
(* turn while it deals with one job, and nothing held once it let go.       *)
BusyPC == {"ready", "running", "finalizing", "written", "late"}

Tidy(w) ==
    /\ pc[w] \in {"idle", "selected", "claimed"} => batch[w] = {} /\ held[w] = {}
    /\ pc[w] \in BusyPC <=> turn[w] # NoClaim
    /\ pc[w] \in {"releasing", "stopped", "crashed"} => held[w] = {}

AllTidy == \A w \in Worker : Tidy(w)

(* What a runner remembers are claims it made, and its newest on their jobs. *)
RemembersNewest ==
    \A w \in Worker : \A c \in RunnerClaims(w) :
        /\ Opened(w, c)
        /\ \A i \in c.gen + 1 .. Len(history[c.job]) : history[c.job][i].worker # w

FenceInv ==
    /\ TypeAndBudget
    /\ HistoryAgrees
    /\ SelectedUnowned
    /\ AllTidy
    /\ RemembersNewest

-----------------------------------------------------------------------------
(* Without replays attempt numbers grow, but for the attempts that were     *)
(* released.                                                                *)
Ordered(r, rows) ==
    /\ \A i, k \in 1 .. Len(rows) :
          i < k => rows[i].outcome = "released" \/ rows[i].attempt < rows[k].attempt
    /\ r.status # "pruned" =>
          \A i \in 1 .. Len(rows) : rows[i].outcome = "released" \/ rows[i].attempt <= r.attempts
    /\ Len(rows) > 0 => r.attempts <= rows[Len(rows)].attempt
    /\ r.status = "absent" => Len(rows) = 0

AttemptsGrow == \A j \in Job : Ordered(jobs[j], history[j])

(* The claims the runner may still begin or release. *)
Unstarted(w) ==
    (held[w] \ {turn[w]})
    \cup (IF pc[w] \in {"first", "releasing"} THEN batch[w] ELSE {})
    \cup (IF pc[w] = "ready" THEN {turn[w]} ELSE {})

WaitingNeverRan ==
    \A w \in Worker : \A c \in Unstarted(w) \cup beat[w].waiting :
        ~ AttemptOf(c).ran /\ AttemptOf(c).outcome \in {"open", "lease_expired"}

(* What the heartbeat took along the runner has lost. *)
TakenFromRunner == \A w \in Worker : Unstarted(w) \cap beat[w].waiting = {}

RunningRan ==
    \A w \in Worker : pc[w] \in {"running", "finalizing"} =>
        AttemptOf(turn[w]).ran /\ AttemptOf(turn[w]).outcome \in {"open", "abandoned", "lease_expired"}

AbandonedRan ==
    \A w \in Worker : beat[w].claim # NoClaim => AttemptOf(beat[w].claim).ran

BeatOpened ==
    \A w \in Worker :
        /\ \A c \in BeatClaims(w) : Opened(w, c)
        /\ beat[w].step = "close" => beat[w].claim # NoClaim

(* What a worker has claimed and not yet read back is new. *)
FreshlyClaimed ==
    \A w \in Worker : pc[w] = "claimed" =>
        \A j \in selected[w] : jobs[j].status = "claimed" /\ jobs[j].locked_by = w =>
            LET n == Len(history[j])
            IN  /\ ~ history[j][n].ran /\ history[j][n].outcome = "open"
                /\ \A c \in BeatClaims(w) : c.job = j => c.gen < n

LifeInv ==
    /\ FenceInv
    /\ AttemptsGrow
    /\ WaitingNeverRan
    /\ TakenFromRunner
    /\ RunningRan
    /\ AbandonedRan
    /\ BeatOpened
    /\ FreshlyClaimed
    /\ ReleasedNeverRan
    /\ RenewalsAreForWork

(* With SKIP LOCKED what is selected stays due until it is claimed. *)
SelectedDue ==
    \A w \in Worker : pc[w] = "selected" =>
        /\ \A j \in selected[w] : Due(j)
        /\ \A v \in Worker \ {w} : pc[v] = "selected" => selected[v] \cap selected[w] = {}

-----------------------------------------------------------------------------
(* What the statements that write job_attempts do, row by row.               *)

SameNames(h, g) ==
    /\ Len(g) = Len(h)
    /\ \A i \in 1 .. Len(h) : g[i].worker = h[i].worker /\ g[i].attempt = h[i].attempt

(* Closing the open attempts of some claims changes their outcome and no more. *)
LEMMA CloseOpenRows ==
    ASSUME NEW h \in Rows, NEW w, NEW ats, NEW o \in Outcome,
           NEW g, g = CloseOpen(h, w, ats, o)
    PROVE  /\ g \in Rows
           /\ SameNames(h, g)
           /\ \A i \in 1 .. Len(h) :
                 /\ g[i].ran = h[i].ran
                 /\ g[i].outcome =
                      IF h[i].worker = w /\ h[i].attempt \in ats /\ h[i].outcome = "open"
                      THEN o ELSE h[i].outcome
<1>1. DOMAIN h = 1 .. Len(h) /\ \A i \in 1 .. Len(h) : h[i] \in Attempt(Worker)
  BY DEF Rows
<1>2. g = [i \in DOMAIN h |-> g[i]]
  BY DEF CloseOpen
<1>3. \A i \in DOMAIN h : g[i] \in Attempt(Worker)
  BY <1>1 DEF CloseOpen, Attempt
<1>4. g \in Rows /\ Len(g) = Len(h)
  BY <1>2, <1>3, RewrittenRows
<1>5. \A i \in 1 .. Len(h) :
        g[i] = IF h[i].worker = w /\ h[i].attempt \in ats /\ h[i].outcome = "open"
               THEN [h[i] EXCEPT !.outcome = o] ELSE h[i]
  BY <1>1 DEF CloseOpen
<1> QED
  BY <1>1, <1>4, <1>5 DEF SameNames, Attempt

(* The reaper's update changes the outcome of open attempts and no more. *)
LEMMA CloseExpiredRows ==
    ASSUME NEW h \in Rows, NEW g, g = CloseExpired(h)
    PROVE  /\ g \in Rows
           /\ SameNames(h, g)
           /\ \A i \in 1 .. Len(h) :
                 /\ g[i].ran = h[i].ran
                 /\ g[i].outcome = IF h[i].outcome = "open" THEN "lease_expired" ELSE h[i].outcome
<1>1. DOMAIN h = 1 .. Len(h) /\ \A i \in 1 .. Len(h) : h[i] \in Attempt(Worker)
  BY DEF Rows
<1>2. g \in Rows
  BY HistoryWritesTyped
<1>3. g = [i \in DOMAIN h |-> g[i]] /\ \A i \in DOMAIN h : g[i] \in Attempt(Worker)
  BY <1>1 DEF CloseExpired, Attempt, Outcome
<1>4. Len(g) = Len(h)
  BY <1>3, RewrittenRows
<1>5. \A i \in 1 .. Len(h) :
        g[i] = IF h[i].outcome = "open" THEN [h[i] EXCEPT !.outcome = "lease_expired"] ELSE h[i]
  BY <1>1 DEF CloseExpired
<1> QED
  BY <1>1, <1>2, <1>4, <1>5 DEF SameNames, Attempt

(* The attempts _finish_attempt looks for, and what it does to the newest. *)
Hits(h, w, a, able) ==
    {i \in 1 .. Len(h) : h[i].worker = w /\ h[i].attempt = a /\ h[i].outcome \in able}

Newest(i, hits) == i \in hits /\ \A k \in hits : k <= i

SettledAs(h, w, a, able, o) ==
    [i \in DOMAIN h |-> IF Newest(i, Hits(h, w, a, able))
                        THEN [h[i] EXCEPT !.outcome = o] ELSE h[i]]

OwnedAble == {"open", "abandoned"}

LateAble == {"open", "abandoned", "lease_expired"}

(* The two ways _finish_attempt ends. *)
LEMMA FinishAttemptCases ==
    ASSUME NEW h \in Rows, NEW r, NEW w, NEW a, NEW o, NEW latest
    PROVE  LET owned == OwnedClaim(r, w, a)
               g == FinishAttempt(h, w, a, o, owned, latest)
           IN  g = IF owned THEN SettledAs(h, w, a, OwnedAble, o)
                   ELSE SettledAs(h, w, a, LateAble, LateOutcome(a, latest))
<1> DEFINE owned == OwnedClaim(r, w, a)
<1>1. DOMAIN h = 1 .. Len(h)
  BY DEF Rows
<1>2. ASSUME owned
      PROVE  FinishAttempt(h, w, a, o, owned, latest) = SettledAs(h, w, a, OwnedAble, o)
  <2>1. Settleable(owned) = OwnedAble
    BY <1>2 DEF Settleable, OwnedAble
  <2>2. {i \in Matching(h, w, a) : h[i].outcome \in Settleable(owned)} = Hits(h, w, a, OwnedAble)
    BY <1>1, <2>1 DEF Hits, Matching
  <2> QED
    BY <1>2, <2>2 DEF FinishAttempt, SettledAs, Newest
<1>3. ASSUME ~ owned
      PROVE  FinishAttempt(h, w, a, o, owned, latest)
                = SettledAs(h, w, a, LateAble, LateOutcome(a, latest))
  <2>1. Settleable(owned) = LateAble
    BY <1>3 DEF Settleable, LateAble
  <2>2. {i \in Matching(h, w, a) : h[i].outcome \in Settleable(owned)} = Hits(h, w, a, LateAble)
    BY <1>1, <2>1 DEF Hits, Matching
  <2> QED
    BY <1>3, <2>2 DEF FinishAttempt, SettledAs, Newest
<1> QED
  BY <1>2, <1>3

(* _finish_attempt settles the newest attempt it finds and no other. *)
LEMMA SettledAsRows ==
    ASSUME NEW h \in Rows, NEW w, NEW a, NEW able, NEW o \in Outcome,
           NEW g, g = SettledAs(h, w, a, able, o)
    PROVE  /\ g \in Rows
           /\ SameNames(h, g)
           /\ \A i \in 1 .. Len(h) :
                 /\ g[i].ran = h[i].ran
                 /\ Newest(i, Hits(h, w, a, able)) => g[i].outcome = o
                 /\ ~ Newest(i, Hits(h, w, a, able)) => g[i].outcome = h[i].outcome
<1>1. DOMAIN h = 1 .. Len(h) /\ \A i \in 1 .. Len(h) : h[i] \in Attempt(Worker)
  BY DEF Rows
<1>2. g = [i \in DOMAIN h |-> g[i]] /\ \A i \in DOMAIN h : g[i] \in Attempt(Worker)
  BY <1>1 DEF Attempt, SettledAs
<1>3. g \in Rows /\ Len(g) = Len(h)
  BY <1>2, RewrittenRows
<1>4. \A i \in 1 .. Len(h) :
        g[i] = IF Newest(i, Hits(h, w, a, able)) THEN [h[i] EXCEPT !.outcome = o] ELSE h[i]
  BY <1>1 DEF SettledAs
<1> QED
  BY <1>1, <1>3, <1>4 DEF SameNames, Attempt

(* Beginning a handler marks one attempt and changes no outcome. *)
LEMMA MarkRanRows ==
    ASSUME NEW h \in Rows, NEW n, NEW g, g = MarkRan(h, n)
    PROVE  /\ g \in Rows
           /\ SameNames(h, g)
           /\ \A i \in 1 .. Len(h) :
                 /\ g[i].outcome = h[i].outcome
                 /\ i = n => g[i].ran = TRUE
                 /\ i # n => g[i].ran = h[i].ran
<1>1. DOMAIN h = 1 .. Len(h) /\ \A i \in 1 .. Len(h) : h[i] \in Attempt(Worker)
  BY DEF Rows
<1>2. g = [i \in DOMAIN h |-> g[i]] /\ \A i \in DOMAIN h : g[i] \in Attempt(Worker)
  BY <1>1 DEF MarkRan, Attempt
<1>3. g \in Rows /\ Len(g) = Len(h)
  BY <1>2, RewrittenRows
<1>4. \A i \in 1 .. Len(h) : g[i] = IF i = n THEN [h[i] EXCEPT !.ran = TRUE] ELSE h[i]
  BY <1>1 DEF MarkRan
<1> QED
  BY <1>1, <1>3, <1>4 DEF SameNames, Attempt

(* A claim adds one attempt, open and not yet run, at the end. *)
LEMMA OpenAttemptRows ==
    ASSUME NEW h \in Rows, NEW w \in Worker, NEW a \in Nat, NEW g, g = OpenAttempt(h, w, a)
    PROVE  /\ g \in Rows
           /\ Len(g) = Len(h) + 1
           /\ \A i \in 1 .. Len(h) : g[i] = h[i]
           /\ g[Len(g)] = [worker |-> w, attempt |-> a, outcome |-> "open", ran |-> FALSE]
<1>1. g \in Rows
  BY HistoryWritesTyped
<1> QED
  BY <1>1 DEF OpenAttempt, Rows

-----------------------------------------------------------------------------
(* One job before and after one step: its row and its attempts together.     *)

(* The writes that leave the attempts alone. *)
QuietStep(r, s) ==
    \/ s = r
    \/ r.status = "absent" /\ s = Inserted
    \/ r.status = "pending" /\ s = [r EXCEPT !.due = TRUE]
    \/ r.status = "claimed" /\ (s = [r EXCEPT !.expired = TRUE] \/ s = Renewed(r))
    \/ r.status = "dead_letter" /\ s = Replayed(r) /\ Replayable # {}
    \/ r.status = "completed" /\ s = Pruned(r) /\ Prunable # {}

FinalOutcome == {"completed", "failed", "dead_letter", "deferred", "continued"}

HistoryWrite(r, h, s, g) ==
    \/ QuietStep(r, s) /\ g = h
    \/ r.status = "claimed" /\ s = Reclaimed(r) /\ g = CloseExpired(h)
    \/ /\ r.status = "claimed"
       /\ s = Released(r)
       /\ \E ats : r.attempts \in ats /\ g = CloseOpen(h, r.locked_by, ats, "released")
    \/ /\ r.status = "claimed"
       /\ s \in {Completed(r), Failed(r), Deferred(r), Continued(r)}
       /\ \E o \in FinalOutcome :
             g = SettledAs(h, r.locked_by, r.attempts, OwnedAble, o)
    \/ /\ s = r
       /\ \E w \in Worker, a \in Nat :
             /\ ~ OwnedClaim(r, w, a)
             /\ g = SettledAs(h, w, a, LateAble, LateOutcome(a, r.attempts))
    \/ s = r /\ \E w \in Worker : \E a : g = CloseOpen(h, w, {a}, "abandoned")
    \/ s = r /\ \E i \in Nat : g = MarkRan(h, i)

ClaimWrite(w, r, h, s, g) ==
    /\ r.status = "pending"
    /\ s = Claimed(r, w)
    /\ g = OpenAttempt(h, w, s.attempts)

HistoryStep(r, h, s, g) ==
    HistoryWrite(r, h, s, g) \/ \E w \in Worker : ClaimWrite(w, r, h, s, g)

(* Where a row stands after each write. *)
LEMMA RowStands ==
    ASSUME NEW r \in Row
    PROVE  /\ \A s : QuietStep(r, s) =>
                 /\ s.status = "claimed" => /\ r.status = "claimed"
                                            /\ s.locked_by = r.locked_by
                 /\ r.status = "claimed" => s.status = "claimed"
                 /\ \/ s.status = r.status /\ s.attempts = r.attempts
                    \/ r.status = "absent" /\ s.status = "pending" /\ s.attempts = 0
                    \/ Replayable # {} /\ s.status = "pending" /\ s.attempts = 0
                    \/ Prunable # {} /\ s.status = "pruned" /\ s.attempts = 0
           /\ \A w \in Worker :
                 /\ Claimed(r, w).status = "claimed"
                 /\ Claimed(r, w).locked_by = w
                 /\ Claimed(r, w).attempts = r.attempts + 1
           /\ Released(r).status = "pending" /\ Released(r).attempts = r.attempts - 1
           /\ \A s \in {Completed(r), Failed(r), Deferred(r), Continued(r), Reclaimed(r)} :
                 s.status \in {"pending", "completed", "dead_letter"} /\ s.attempts = r.attempts
<1>1. ASSUME NEW s, QuietStep(r, s)
      PROVE  /\ s.status = "claimed" => r.status = "claimed" /\ s.locked_by = r.locked_by
             /\ r.status = "claimed" => s.status = "claimed"
             /\ \/ s.status = r.status /\ s.attempts = r.attempts
                \/ r.status = "absent" /\ s.status = "pending" /\ s.attempts = 0
                \/ Replayable # {} /\ s.status = "pending" /\ s.attempts = 0
                \/ Prunable # {} /\ s.status = "pruned" /\ s.attempts = 0
  <2>1. CASE s = r
    BY <2>1
  <2>2. CASE r.status = "absent" /\ s = Inserted
    BY <2>2 DEF Inserted, AbsentRow
  <2>3. CASE r.status = "pending" /\ s = [r EXCEPT !.due = TRUE]
    BY <2>3 DEF Row
  <2>4. CASE r.status = "claimed" /\ (s = [r EXCEPT !.expired = TRUE] \/ s = Renewed(r))
    BY <2>4 DEF Row, Renewed
  <2>5. CASE r.status = "dead_letter" /\ s = Replayed(r) /\ Replayable # {}
    BY <2>5 DEF Row, Replayed, Requeued
  <2>6. CASE r.status = "completed" /\ s = Pruned(r) /\ Prunable # {}
    BY <2>6 DEF Pruned, AbsentRow
  <2> QED
    BY <1>1, <2>1, <2>2, <2>3, <2>4, <2>5, <2>6 DEF QuietStep
<1>2. \A w \in Worker :
        /\ Claimed(r, w).status = "claimed"
        /\ Claimed(r, w).locked_by = w
        /\ Claimed(r, w).attempts = r.attempts + 1
  BY DEF Claimed, Row
<1>3. Released(r).status = "pending" /\ Released(r).attempts = r.attempts - 1
  BY DEF Released, Requeued, Row
<1>4. \A s \in {Completed(r), Failed(r), Deferred(r), Continued(r), Reclaimed(r)} :
         s.status \in {"pending", "completed", "dead_letter"} /\ s.attempts = r.attempts
  <2>1. Completed(r).status = "completed" /\ Completed(r).attempts = r.attempts
    BY DEF Completed, Ended, Row
  <2>2. /\ Failed(r).status \in {"pending", "dead_letter"} /\ Failed(r).attempts = r.attempts
        /\ Reclaimed(r).status \in {"pending", "dead_letter"} /\ Reclaimed(r).attempts = r.attempts
    BY DEF Failed, Reclaimed, Ended, Requeued, Row
  <2>3. /\ Deferred(r).status = "pending" /\ Deferred(r).attempts = r.attempts
        /\ Continued(r).status = "pending" /\ Continued(r).attempts = r.attempts
    BY DEF Deferred, Continued, Requeued, Row
  <2> QED
    BY <2>1, <2>2, <2>3
<1> QED
  BY <1>1, <1>2, <1>3, <1>4

(* Every step keeps row and history in agreement. *)
LEMMA HistoryStepKeepsAgrees ==
    ASSUME NEW r \in Row, NEW h \in Rows, NEW s, NEW g,
           Agrees(r, h), HistoryStep(r, h, s, g)
    PROVE  Agrees(s, g)
<1>0. Len(h) \in Nat /\ \A i \in 1 .. Len(h) : h[i] \in Attempt(Worker)
  BY DEF Rows
<1>a. FinalOutcome \subseteq Outcome /\ {"released", "abandoned", "open"} \subseteq Outcome
  BY DEF FinalOutcome, Outcome
<1>1. CASE QuietStep(r, s) /\ g = h
  <2>1. /\ s.status = "claimed" <=> r.status = "claimed"
        /\ r.status = "claimed" => s.locked_by = r.locked_by /\ s.attempts = r.attempts
    BY <1>1, RowStands
  <2> QED
    BY <1>1, <2>1 DEF Agrees
<1>2. CASE \E w \in Worker : ClaimWrite(w, r, h, s, g)
  <2>1. PICK w \in Worker :
           r.status = "pending" /\ s = Claimed(r, w) /\ g = OpenAttempt(h, w, s.attempts)
    BY <1>2 DEF ClaimWrite
  <2>2. s.status = "claimed" /\ s.locked_by = w /\ s.attempts = r.attempts + 1 /\ s.attempts \in Nat
    BY <2>1, RowStands DEF Row
  <2>3. /\ Len(g) = Len(h) + 1
        /\ \A i \in 1 .. Len(h) : g[i] = h[i]
        /\ g[Len(g)] = [worker |-> w, attempt |-> s.attempts, outcome |-> "open", ran |-> FALSE]
    BY <2>1, <2>2, OpenAttemptRows
  <2> QED
    BY <1>0, <2>1, <2>2, <2>3 DEF Agrees
<1>3. CASE r.status = "claimed" /\ s = Reclaimed(r) /\ g = CloseExpired(h)
  <2>1. s.status # "claimed"
    BY <1>3, RowStands
  <2>2. Len(g) = Len(h) /\ \A i \in 1 .. Len(h) : g[i].outcome # "open"
    BY <1>3, CloseExpiredRows DEF SameNames
  <2> QED
    BY <2>1, <2>2 DEF Agrees
<1>4. CASE /\ r.status = "claimed"
           /\ s = Released(r)
           /\ \E ats : r.attempts \in ats /\ g = CloseOpen(h, r.locked_by, ats, "released")
  <2>1. PICK ats : r.attempts \in ats /\ g = CloseOpen(h, r.locked_by, ats, "released")
    BY <1>4
  <2>2. s.status # "claimed"
    BY <1>4, RowStands
  <2>3. /\ Len(g) = Len(h)
        /\ \A i \in 1 .. Len(h) :
              g[i].outcome =
                IF h[i].worker = r.locked_by /\ h[i].attempt \in ats /\ h[i].outcome = "open"
                THEN "released" ELSE h[i].outcome
    BY <1>a, <2>1, CloseOpenRows DEF SameNames
  <2>4. \A i \in 1 .. Len(h) : g[i].outcome # "open"
    BY <1>4, <2>1, <2>3 DEF Agrees
  <2> QED
    BY <2>2, <2>3, <2>4 DEF Agrees
<1>5. CASE /\ r.status = "claimed"
           /\ s \in {Completed(r), Failed(r), Deferred(r), Continued(r)}
           /\ \E o \in FinalOutcome : g = SettledAs(h, r.locked_by, r.attempts, OwnedAble, o)
  <2>1. PICK o \in FinalOutcome : g = SettledAs(h, r.locked_by, r.attempts, OwnedAble, o)
    BY <1>5
  <2>2. s.status # "claimed"
    BY <1>5, RowStands
  <2> DEFINE hits == Hits(h, r.locked_by, r.attempts, OwnedAble)
  <2>3. /\ Len(g) = Len(h)
        /\ \A i \in 1 .. Len(h) :
              /\ Newest(i, hits) => g[i].outcome = o
              /\ ~ Newest(i, hits) => g[i].outcome = h[i].outcome
    BY <1>a, <2>1, SettledAsRows DEF SameNames
  <2>4. Newest(Len(h), hits)
    BY <1>0, <1>5 DEF Hits, OwnedAble, Agrees, Newest
  <2>5. o # "open"
    BY DEF FinalOutcome
  <2> HIDE DEF hits
  <2>6. \A i \in 1 .. Len(h) : g[i].outcome # "open"
    BY <2>3, <2>4, <2>5 DEF Agrees
  <2> QED
    BY <2>2, <2>3, <2>6 DEF Agrees
<1>6. CASE /\ s = r
           /\ \E w \in Worker, a \in Nat :
                 /\ ~ OwnedClaim(r, w, a)
                 /\ g = SettledAs(h, w, a, LateAble, LateOutcome(a, r.attempts))
  <2>1. PICK w \in Worker, a \in Nat :
           ~ OwnedClaim(r, w, a) /\ g = SettledAs(h, w, a, LateAble, LateOutcome(a, r.attempts))
    BY <1>6
  <2> DEFINE hits == Hits(h, w, a, LateAble)
             final == LateOutcome(a, r.attempts)
  <2>2. final \in Outcome /\ final # "open"
    BY DEF LateOutcome, Outcome
  <2>3. /\ SameNames(h, g)
        /\ \A i \in 1 .. Len(h) :
              /\ Newest(i, hits) => g[i].outcome = final
              /\ ~ Newest(i, hits) => g[i].outcome = h[i].outcome
    BY <2>1, <2>2, SettledAsRows DEF SameNames
  <2>4. r.status = "claimed" => ~ Newest(Len(h), hits)
    BY <2>1 DEF Hits, Agrees, OwnedClaim, Newest
  <2> HIDE DEF hits, final
  <2>5. \A i \in 1 .. Len(h) : g[i].outcome = "open" => h[i].outcome = "open"
    BY <2>2, <2>3
  <2>6. r.status = "claimed" =>
          /\ Len(h) \in 1 .. Len(h)
          /\ g[Len(h)].outcome = h[Len(h)].outcome
          /\ g[Len(h)].worker = h[Len(h)].worker
          /\ g[Len(h)].attempt = h[Len(h)].attempt
    BY <1>0, <2>3, <2>4 DEF Agrees, SameNames
  <2>7. Len(g) = Len(h)
    BY <2>3 DEF SameNames
  <2> QED
    BY <1>0, <1>6, <2>5, <2>6, <2>7 DEF Agrees
<1>7. CASE s = r /\ \E w \in Worker : \E a : g = CloseOpen(h, w, {a}, "abandoned")
  <2>0. PICK w \in Worker : \E a : g = CloseOpen(h, w, {a}, "abandoned")
    BY <1>7
  <2>1. PICK a : g = CloseOpen(h, w, {a}, "abandoned")
    BY <2>0
  <2>2. /\ SameNames(h, g)
        /\ \A i \in 1 .. Len(h) :
              g[i].outcome = IF h[i].worker = w /\ h[i].attempt \in {a} /\ h[i].outcome = "open"
                             THEN "abandoned" ELSE h[i].outcome
    BY <1>a, <2>1, CloseOpenRows DEF SameNames
  <2>3. \A i \in 1 .. Len(h) : g[i].outcome = "open" => h[i].outcome = "open"
    BY <2>2
  <2>4. r.status = "claimed" =>
          /\ Len(h) \in 1 .. Len(h)
          /\ g[Len(h)].outcome \in {"open", "abandoned"}
          /\ g[Len(h)].worker = h[Len(h)].worker
          /\ g[Len(h)].attempt = h[Len(h)].attempt
    BY <1>0, <2>2 DEF Agrees, SameNames
  <2>5. Len(g) = Len(h)
    BY <2>2 DEF SameNames
  <2> QED
    BY <1>0, <1>7, <2>3, <2>4, <2>5 DEF Agrees
<1>8. CASE s = r /\ \E i \in Nat : g = MarkRan(h, i)
  <2>1. PICK n \in Nat : g = MarkRan(h, n)
    BY <1>8
  <2>2. SameNames(h, g) /\ \A i \in 1 .. Len(h) : g[i].outcome = h[i].outcome
    BY <2>1, MarkRanRows, ZenonT(60)
  <2> QED
    BY <1>0, <1>8, <2>2 DEF Agrees, SameNames
<1> QED
  BY <1>1, <1>2, <1>3, <1>4, <1>5, <1>6, <1>7, <1>8 DEF HistoryStep, HistoryWrite

(* While a handler runs or its outcome is written, the turn is a claim. *)
LEMMA TurnIsClaim ==
    ASSUME TypeOK, AllTidy, NEW w \in Worker, pc[w] \in BusyPC
    PROVE  turn[w] \in Claim
BY DEF TypeOK, AllTidy, Tidy

(* Where nothing is open, or nothing open is meant, the history stays as it is. *)
LEMMA NothingToClose ==
    ASSUME NEW r, NEW h \in Rows, Agrees(r, h)
    PROVE  /\ r.status # "claimed" => CloseExpired(h) = h
           /\ \A w, ats, o :
                 (\A a \in ats : ~ OwnedClaim(r, w, a)) => CloseOpen(h, w, ats, o) = h
<1>1. DOMAIN h = 1 .. Len(h) /\ h = [i \in DOMAIN h |-> h[i]] /\ Len(h) \in Nat
  BY DEF Rows
<1>2. ASSUME r.status # "claimed" PROVE CloseExpired(h) = h
  <2>1. \A i \in DOMAIN h : h[i].outcome # "open"
    BY <1>1, <1>2 DEF Agrees
  <2> QED
    BY <1>1, <2>1 DEF CloseExpired
<1>3. ASSUME NEW w, NEW ats, NEW o, \A a \in ats : ~ OwnedClaim(r, w, a)
      PROVE  CloseOpen(h, w, ats, o) = h
  <2>1. \A i \in DOMAIN h : ~ (h[i].worker = w /\ h[i].attempt \in ats /\ h[i].outcome = "open")
    BY <1>1, <1>3 DEF Agrees, OwnedClaim
  <2> QED
    BY <1>1, <2>1 DEF CloseOpen
<1> QED
  BY <1>2, <1>3

(* Each step takes every job, row and attempts together, through one write. *)
LEMMA StepsAreHistorySteps ==
    ASSUME TypeOK, HistoryAgrees, SelectedUnowned, AllTidy, [Next]_vars, NEW j \in Job
    PROVE  \/ HistoryWrite(jobs[j], history[j], jobs'[j], history'[j])
           \/ \E w \in Worker :
                 /\ ClaimUpdate(w)
                 /\ j \in selected[w]
                 /\ ClaimWrite(w, jobs[j], history[j], jobs'[j], history'[j])
<1> DEFINE r == jobs[j]
           h == history[j]
           s == jobs'[j]
           g == history'[j]
<1>0. /\ jobs \in [Job -> Row] /\ history \in [Job -> Rows]
      /\ r \in Row /\ h \in Rows /\ Agrees(r, h)
  BY DEF TypeOK, HistoryAgrees, Agrees, Rows
<1>1. ASSUME QuietStep(r, s), UNCHANGED history PROVE HistoryWrite(r, h, s, g)
  BY <1>1 DEF HistoryWrite
<1>2. ASSUME UNCHANGED <<jobs, history>> PROVE HistoryWrite(r, h, s, g)
  BY <1>1, <1>2 DEF QuietStep
<1>3. ASSUME NEW k \in Job, JobStep(k) PROVE HistoryWrite(r, h, s, g)
  <2>1. QuietStep(r, s)
    BY <1>0, <1>3 DEF JobStep, Enqueue, BecomeDue, LeaseExpire, Replay, Prune, QuietStep
  <2> QED
    BY <1>1, <1>3, <2>1 DEF JobStep, Enqueue, BecomeDue, LeaseExpire, Replay, Prune
<1>4. CASE ReaperStep
  <2>1. CASE ReapUpdate
    <3>1. CASE j \in reaping /\ StillExpired(j)
      <4>1. s = Reclaimed(r) /\ r.status = "claimed"
        BY <2>1, <3>1 DEF ReapUpdate, StillExpired
      <4>2. s.status \in {"pending", "completed", "dead_letter"}
        BY <1>0, <4>1, RowStands
      <4>3. g = CloseExpired(h)
        BY <2>1, <3>1, <4>2 DEF ReapUpdate
      <4> QED
        BY <4>1, <4>3 DEF HistoryWrite
    <3>2. CASE ~ (j \in reaping /\ StillExpired(j))
      <4>1. s = r
        BY <2>1, <3>2 DEF ReapUpdate
      <4>2. g = h
        BY <1>0, <2>1, <4>1, NothingToClose DEF ReapUpdate
      <4> QED
        BY <4>1, <4>2 DEF HistoryWrite, QuietStep
    <3> QED
      BY <3>1, <3>2
  <2> QED
    BY <1>2, <1>4, <2>1 DEF ReaperStep, ReapSelect, ReapFail
<1>5. ASSUME NEW w \in Worker, ClaimUpdate(w)
      PROVE  HistoryWrite(r, h, s, g) \/ (j \in selected[w] /\ ClaimWrite(w, r, h, s, g))
  <2>1. CASE j \in selected[w] /\ Claimable(j)
    <3>1. s = Claimed(r, w) /\ r.status = "pending"
      BY <1>5, <2>1 DEF ClaimUpdate, Claimable
    <3>2. s.status = "claimed" /\ s.locked_by = w
      BY <1>0, <3>1, RowStands
    <3>3. g = OpenAttempt(h, w, s.attempts)
      BY <1>5, <2>1, <3>2 DEF ClaimUpdate
    <3> QED
      BY <2>1, <3>1, <3>3 DEF ClaimWrite
  <2>2. CASE ~ (j \in selected[w] /\ Claimable(j))
    <3>1. s = r
      BY <1>5, <2>2 DEF ClaimUpdate
    <3>2. j \in selected[w] => ~ (s.status = "claimed" /\ s.locked_by = w)
      BY <1>5, <3>1 DEF ClaimUpdate, SelectedUnowned
    <3>3. g = h
      BY <1>5, <3>2 DEF ClaimUpdate
    <3> QED
      BY <3>1, <3>3 DEF HistoryWrite, QuietStep
  <2> QED
    BY <2>1, <2>2
<1>6. ASSUME NEW w \in Worker, NEW S, RenewLeases(w, S), UNCHANGED history
      PROVE  HistoryWrite(r, h, s, g)
  <2>1. QuietStep(r, s)
    BY <1>0, <1>6 DEF RenewLeases, OwnedJobs, Owns, OwnedClaim, QuietStep
  <2> QED
    BY <1>1, <1>6, <2>1
<1>7. ASSUME NEW w \in Worker, NEW S, ReleaseLeases(w, S) PROVE HistoryWrite(r, h, s, g)
  <2> DEFINE ats == AttemptsOf(S, j)
  <2>1. CASE j \in OwnedJobs(w, S)
    <3>1. r.status = "claimed" /\ r.locked_by = w /\ r.attempts \in ats
      BY <2>1 DEF OwnedJobs, Owns, OwnedClaim, AttemptsOf
    <3>2. s = Released(r) /\ g = CloseOpen(h, w, ats, "released")
      BY <1>7, <2>1 DEF ReleaseLeases
    <3> QED
      BY <3>1, <3>2 DEF HistoryWrite
  <2>2. CASE j \notin OwnedJobs(w, S)
    <3>1. \A a \in ats : ~ OwnedClaim(r, w, a)
      BY <2>2 DEF OwnedJobs, Owns, AttemptsOf
    <3>2. CloseOpen(h, w, ats, "released") = h
      BY <1>0, <3>1, NothingToClose
    <3>3. s = r /\ g = h
      BY <1>7, <2>2, <3>2 DEF ReleaseLeases
    <3> QED
      BY <3>3 DEF HistoryWrite, QuietStep
  <2> QED
    BY <2>1, <2>2
<1>8. ASSUME NEW w \in Worker, NEW c \in Claim, Begin(w, c), UNCHANGED jobs
      PROVE  HistoryWrite(r, h, s, g)
  <2>1. CASE c.job = j
    <3>1. s = r /\ g = MarkRan(h, c.gen) /\ c.gen \in Nat
      BY <1>0, <1>8, <2>1 DEF Begin, Claim
    <3> QED
      BY <3>1 DEF HistoryWrite
  <2>2. CASE c.job # j
    <3>1. s = r /\ g = h
      BY <1>0, <1>8, <2>2 DEF Begin
    <3> QED
      BY <3>1 DEF HistoryWrite, QuietStep
  <2> QED
    BY <2>1, <2>2
<1>9. ASSUME NEW w \in Worker, NEW row, NEW o \in FinalOutcome, Settle(w, row, o),
             row \in {Completed(jobs[turn[w].job]), Failed(jobs[turn[w].job]),
                      Deferred(jobs[turn[w].job]), Continued(jobs[turn[w].job])}
      PROVE  HistoryWrite(r, h, s, g)
  <2> DEFINE c == turn[w]
  <2>1. c \in Claim /\ c.job \in Job /\ c.attempt \in Nat
    BY <1>9, TurnIsClaim DEF Settle, BusyPC, Claim
  <2>2. CASE c.job # j
    <3>1. s = r /\ g = h
      BY <1>0, <1>9, <2>2 DEF Settle
    <3> QED
      BY <3>1 DEF HistoryWrite, QuietStep
  <2>3. CASE c.job = j /\ Owns(w, c)
    <3>1. /\ r.status = "claimed" /\ r.locked_by = w /\ r.attempts = c.attempt
          /\ OwnedClaim(r, w, c.attempt)
      BY <2>3 DEF Owns, OwnedClaim
    <3>2. s = row /\ g = FinishAttempt(h, w, c.attempt, o, OwnedClaim(r, w, c.attempt), r.attempts)
      BY <1>0, <1>9, <2>3 DEF Settle, Owns
    <3>3. g = SettledAs(h, w, c.attempt, OwnedAble, o)
      <4>1. g = IF OwnedClaim(r, w, c.attempt)
                THEN SettledAs(h, w, c.attempt, OwnedAble, o)
                ELSE SettledAs(h, w, c.attempt, LateAble, LateOutcome(c.attempt, r.attempts))
        BY <1>0, <3>2, FinishAttemptCases
      <4> QED
        BY <3>1, <4>1
    <3> QED
      BY <1>9, <2>3, <3>1, <3>2, <3>3 DEF HistoryWrite
  <2>4. CASE c.job = j /\ ~ Owns(w, c)
    <3>1. s = r /\ g = FinishAttempt(h, w, c.attempt, o, OwnedClaim(r, w, c.attempt), r.attempts)
      BY <1>0, <1>9, <2>4 DEF Settle, Owns
    <3>2. ~ OwnedClaim(r, w, c.attempt)
      BY <2>4 DEF Owns
    <3>3. g = SettledAs(h, w, c.attempt, LateAble, LateOutcome(c.attempt, r.attempts))
      BY <1>0, <3>1, <3>2, FinishAttemptCases
    <3> QED
      BY <2>1, <3>1, <3>2, <3>3 DEF HistoryWrite
  <2> QED
    BY <2>2, <2>3, <2>4
<1>10. ASSUME NEW w \in Worker, CloseAbandoned(w) PROVE HistoryWrite(r, h, s, g)
  <2> DEFINE c == beat[w].claim
  <2>1. CASE UNCHANGED history \/ c.job # j
    <3>1. s = r /\ g = h
      BY <1>0, <1>10, <2>1 DEF CloseAbandoned
    <3> QED
      BY <3>1 DEF HistoryWrite, QuietStep
  <2>2. CASE ~ UNCHANGED history /\ c.job = j
    <3>1. s = r /\ g = CloseOpen(h, w, {c.attempt}, "abandoned")
      BY <1>0, <1>10, <2>2 DEF CloseAbandoned
    <3> QED
      BY <3>1 DEF HistoryWrite
  <2> QED
    BY <2>1, <2>2
<1>11. ASSUME NEW w \in Worker, RunnerStep(w), ~ ClaimUpdate(w) PROVE HistoryWrite(r, h, s, g)
  <2>1. CASE WriteOutcome(w)
    <3>0. FinalOutcome = {"completed", "failed", "dead_letter", "deferred", "continued"}
      BY DEF FinalOutcome
    <3>1. CASE WriteCompleted(w)
      BY <1>9, <3>0, <3>1 DEF WriteCompleted
    <3>2. CASE WriteFailed(w)
      BY <1>9, <3>0, <3>2 DEF WriteFailed
    <3>3. CASE WriteDeferred(w)
      BY <1>9, <3>0, <3>3 DEF WriteDeferred
    <3>4. CASE WriteContinued(w)
      BY <1>9, <3>0, <3>4 DEF WriteContinued
    <3>5. CASE FailInstead(w)
      BY <1>2, <3>5 DEF FailInstead
    <3> QED
      BY <2>1, <3>1, <3>2, <3>3, <3>4, <3>5 DEF WriteOutcome
  <2>2. CASE BeginFirst(w)
    BY <1>8, <2>2 DEF BeginFirst, TypeOK
  <2>3. CASE BeginNext(w)
    <3>1. turn[w] \in Claim
      BY <2>3, TurnIsClaim DEF BeginNext, BusyPC
    <3> QED
      BY <1>8, <2>3, <3>1 DEF BeginNext
  <2>4. CASE ReleaseWaiting(w)
    BY <1>7, <2>4 DEF ReleaseWaiting
  <2>5. CASE StillHeld(w)
    BY <1>6, <2>5 DEF StillHeld
  <2> QED
    BY <1>2, <1>11, <2>1, <2>2, <2>3, <2>4, <2>5
    DEF RunnerStep, RunnerProgress, ClaimSelect, ReadBack, ClaimFail,
        StillHeldFail, HandlerReturn, Finish, WriteFail, EndBatch, StopSeen, Drain,
        ReleaseWaitingFail, Crash
<1>12. ASSUME NEW w \in Worker, BeatStep(w) PROVE HistoryWrite(r, h, s, g)
  <2>1. CASE Renew(w)
    BY <1>6, <2>1 DEF Renew
  <2>2. CASE BeatRelease(w)
    BY <1>7, <2>2 DEF BeatRelease
  <2> QED
    BY <1>2, <1>10, <1>12, <2>1, <2>2
    DEF BeatStep, RenewNothing, RenewFail, Abandon, BeatReleaseFail
<1> QED
  BY <1>2, <1>3, <1>4, <1>5, <1>11, <1>12 DEF Next, vars

(* What every write but a claim does: names are kept, nothing is forgotten to *)
(* have run, and no row is claimed that was not.                              *)
LEMMA HistoryWriteEffects ==
    ASSUME NEW r \in Row, NEW h \in Rows, NEW s, NEW g, HistoryWrite(r, h, s, g)
    PROVE  /\ g \in Rows
           /\ SameNames(h, g)
           /\ s.status = "claimed" => /\ r.status = "claimed"
                                      /\ s.locked_by = r.locked_by
                                      /\ s.attempts = r.attempts
<1>0. Len(h) \in Nat
  BY DEF Rows
<1>a. FinalOutcome \subseteq Outcome /\ {"released", "abandoned"} \subseteq Outcome
  BY DEF FinalOutcome, Outcome
<1>1. CASE QuietStep(r, s) /\ g = h
  BY <1>1, RowStands DEF SameNames
<1>2. CASE r.status = "claimed" /\ s = Reclaimed(r) /\ g = CloseExpired(h)
  BY <1>2, RowStands, CloseExpiredRows
<1>3. CASE /\ r.status = "claimed"
           /\ s = Released(r)
           /\ \E ats : r.attempts \in ats /\ g = CloseOpen(h, r.locked_by, ats, "released")
  BY <1>a, <1>3, RowStands, CloseOpenRows
<1>4. CASE /\ r.status = "claimed"
           /\ s \in {Completed(r), Failed(r), Deferred(r), Continued(r)}
           /\ \E o \in FinalOutcome : g = SettledAs(h, r.locked_by, r.attempts, OwnedAble, o)
  BY <1>a, <1>4, RowStands, SettledAsRows
<1>5. CASE /\ s = r
           /\ \E w \in Worker, a \in Nat :
                 /\ ~ OwnedClaim(r, w, a)
                 /\ g = SettledAs(h, w, a, LateAble, LateOutcome(a, r.attempts))
  <2>1. \A a : LateOutcome(a, r.attempts) \in Outcome
    BY DEF LateOutcome, Outcome
  <2> QED
    BY <1>5, <2>1, SettledAsRows
<1>6. CASE s = r /\ \E w \in Worker : \E a : g = CloseOpen(h, w, {a}, "abandoned")
  BY <1>a, <1>6, CloseOpenRows
<1>7. CASE s = r /\ \E i \in Nat : g = MarkRan(h, i)
  BY <1>7, MarkRanRows
<1> QED
  BY <1>1, <1>2, <1>3, <1>4, <1>5, <1>6, <1>7 DEF HistoryWrite

-----------------------------------------------------------------------------
(* What the runner remembers.                                                *)

(* A runner stays tidy, and remembers new claims only when it reads them back. *)
LEMMA RunnerRemembers ==
    ASSUME TypeOK, AllTidy, [Next]_vars, NEW v \in Worker
    PROVE  Tidy(v)' /\ (RunnerClaims(v)' \subseteq RunnerClaims(v) \/ ReadBack(v))
<1> DEFINE Goal == Tidy(v)' /\ (RunnerClaims(v)' \subseteq RunnerClaims(v) \/ ReadBack(v))
<1>0. WorkersTyped /\ Tidy(v) /\ NoClaim \notin Claim
  BY QueueAssumption DEF TypeOK, WorkersTyped, AllTidy, Claim
<1> USE DEF Tidy, BusyPC, RunnerClaims, WorkersTyped, runner, keeper
<1>1. CASE UNCHANGED vars
  BY <1>0, <1>1 DEF vars
<1>2. ASSUME NEW j \in Job, JobStep(j) PROVE Goal
  BY <1>0, <1>2 DEF JobStep, Enqueue, BecomeDue, LeaseExpire, Replay, Prune
<1>3. CASE ReaperStep
  BY <1>0, <1>3 DEF ReaperStep, ReapSelect, ReapUpdate, ReapFail
<1>4. ASSUME NEW w \in Worker, RunnerStep(w) PROVE Goal
  <2>1. CASE ClaimSelect(w)
    BY <1>0, <2>1 DEF ClaimSelect
  <2>2. CASE ClaimUpdate(w)
    BY <1>0, <2>2 DEF ClaimUpdate
  <2>3. CASE ReadBack(w)
    <3>1. Tidy(v)'
      BY <1>0, <2>3 DEF ReadBack
    <3>2. v # w => RunnerClaims(v)' \subseteq RunnerClaims(v)
      BY <1>0, <2>3 DEF ReadBack
    <3> QED
      BY <2>3, <3>1, <3>2 
  <2>4. CASE ClaimFail(w)
    BY <1>0, <2>4 DEF ClaimFail
  <2>5. CASE BeginFirst(w)
    BY <1>0, <2>5 DEF BeginFirst, Begin
  <2>6. CASE StillHeld(w)
    <3>1. PICK c \in batch[w] :
             /\ batch' = [batch EXCEPT ![w] = @ \ {c}]
             /\ held' = [held EXCEPT ![w] = {d \in @ : Owns(w, d)}]
             /\ IF c \in held'[w]
                THEN turn' = [turn EXCEPT ![w] = c] /\ pc' = [pc EXCEPT ![w] = "ready"]
                ELSE UNCHANGED <<turn, pc>>
      BY <2>6 DEF StillHeld
    <3>2. c \in Claim /\ pc[w] = "batch"
      BY <1>0, <2>6 DEF StillHeld
    <3> QED
      BY <1>0, <3>1, <3>2
  <2>7. CASE StillHeldFail(w)
    BY <1>0, <2>7 DEF StillHeldFail
  <2>8. CASE BeginNext(w)
    BY <1>0, <2>8 DEF BeginNext, Begin
  <2>9. CASE WriteOutcome(w)
    BY <1>0, <2>9
    DEF WriteOutcome, WriteCompleted, WriteFailed, WriteDeferred, WriteContinued,
        FailInstead, Settle
  <2>10. CASE Finish(w)
    BY <1>0, <2>10 DEF Finish, ForgetTurn, WithoutTurn
  <2>11. CASE WriteFail(w)
    BY <1>0, <2>11 DEF WriteFail, ForgetTurn, WithoutTurn
  <2>12. CASE EndBatch(w)
    BY <1>0, <2>12 DEF EndBatch
  <2>13. CASE Drain(w)
    BY <1>0, <2>13 DEF Drain, Waiting
  <2>14. CASE ReleaseWaiting(w) \/ ReleaseWaitingFail(w)
    BY <1>0, <2>14 DEF ReleaseWaiting, ReleaseWaitingFail, AfterRelease
  <2>15. CASE \E result \in HandlerResult : HandlerReturn(w, result)
    BY <1>0, <2>15 DEF HandlerReturn
  <2>16. CASE StopSeen(w)
    BY <1>0, <2>16 DEF StopSeen
  <2>17. CASE Crash(w)
    BY <1>0, <2>17 DEF Crash, Resting
  <2> QED
    BY <1>4, <2>1, <2>2, <2>3, <2>4, <2>5, <2>6, <2>7, <2>8, <2>9, <2>10, <2>11, <2>12,
       <2>13, <2>14, <2>15, <2>16, <2>17 DEF RunnerStep, RunnerProgress
<1>5. ASSUME NEW w \in Worker, BeatStep(w) PROVE Goal
  <2>1. CASE Renew(w)
    BY <1>0, <2>1 DEF Renew, Resting
  <2>2. CASE RenewFail(w)
    BY <1>0, <2>2 DEF RenewFail, Resting
  <2>3. CASE Abandon(w)
    BY <1>0, <2>3 DEF Abandon, Waiting
  <2>4. CASE UNCHANGED <<runner, keeper>>
    BY <1>0, <2>4
  <2> QED
    BY <1>5, <2>1, <2>2, <2>3, <2>4
    DEF BeatStep, RenewNothing, CloseAbandoned, BeatRelease, BeatReleaseFail
<1> QED
  BY <1>1, <1>2, <1>3, <1>4, <1>5 DEF Next

(* A step either keeps the attempts of a job, by name, or is a claim that adds one. *)
LEMMA NamesStay ==
    ASSUME FenceInv, [Next]_vars, NEW j \in Job
    PROVE  /\ Len(history[j]) \in Nat /\ Len(history'[j]) \in Nat
           /\ \A i \in 1 .. Len(history[j]) :
                 /\ history'[j][i].worker = history[j][i].worker
                 /\ history'[j][i].attempt = history[j][i].attempt
           /\ \/ Len(history'[j]) = Len(history[j])
              \/ \E w \in Worker :
                    /\ ClaimUpdate(w)
                    /\ Len(history'[j]) = Len(history[j]) + 1
                    /\ history'[j][Len(history'[j])].worker = w
<1> DEFINE r == jobs[j]
           h == history[j]
           s == jobs'[j]
           g == history'[j]
<1>0. r \in Row /\ h \in Rows /\ Len(h) \in Nat
  BY DEF FenceInv, TypeAndBudget, TypeOK, Rows
<1>1. CASE HistoryWrite(r, h, s, g)
  BY <1>0, <1>1, HistoryWriteEffects DEF SameNames
<1>2. ASSUME NEW w \in Worker, ClaimUpdate(w), ClaimWrite(w, r, h, s, g)
      PROVE  /\ Len(g) = Len(h) + 1
             /\ \A i \in 1 .. Len(h) : g[i] = h[i]
             /\ g[Len(g)].worker = w
  <2>1. s.attempts \in Nat
    BY <1>0, <1>2, RowStands DEF ClaimWrite, Row
  <2>2. g = OpenAttempt(h, w, s.attempts)
    BY <1>2 DEF ClaimWrite
  <2> HIDE DEF g, h, s, r
  <2>3. /\ Len(g) = Len(h) + 1
        /\ \A i \in 1 .. Len(h) : g[i] = h[i]
        /\ g[Len(g)] = [worker |-> w, attempt |-> s.attempts, outcome |-> "open", ran |-> FALSE]
    BY <1>0, <2>1, <2>2, OpenAttemptRows, SMTT(60)
  <2> QED
    BY <2>3
<1>3. HistoryWrite(r, h, s, g) \/ \E w \in Worker : ClaimUpdate(w) /\ ClaimWrite(w, r, h, s, g)
  BY StepsAreHistorySteps DEF FenceInv, TypeAndBudget
<1> HIDE DEF r, h, s, g
<1>4. /\ Len(h) \in Nat /\ Len(g) \in Nat
      /\ \A i \in 1 .. Len(h) : g[i].worker = h[i].worker /\ g[i].attempt = h[i].attempt
      /\ \/ Len(g) = Len(h)
         \/ \E w \in Worker : ClaimUpdate(w) /\ Len(g) = Len(h) + 1 /\ g[Len(g)].worker = w
  BY <1>0, <1>1, <1>2, <1>3, HistoryWriteEffects DEF SameNames
<1> QED
  BY <1>4 DEF h, g

(* A worker has selected rows only from its own select on. *)
LEMMA SelectedBySelect ==
    ASSUME TypeOK, [Next]_vars, NEW v \in Worker, pc'[v] = "selected"
    PROVE  ClaimSelect(v) \/ (pc[v] = "selected" /\ selected'[v] = selected[v])
<1> DEFINE Goal == ClaimSelect(v) \/ (pc[v] = "selected" /\ selected'[v] = selected[v])
<1>0. WorkersTyped
  BY DEF TypeOK, WorkersTyped
<1> USE DEF WorkersTyped
<1>1. CASE UNCHANGED <<pc, selected>>
  BY <1>0, <1>1
<1>2. ASSUME NEW w \in Worker, RunnerStep(w) PROVE Goal
  <2>1. CASE ClaimSelect(w)
    <3>1. v # w => pc'[v] = pc[v] /\ selected'[v] = selected[v]
      BY <1>0, <2>1 DEF ClaimSelect
    <3> QED
      BY <2>1, <3>1
  <2>2. CASE UNCHANGED <<pc, selected>>
    BY <1>1, <2>2
  <2>3. CASE ClaimUpdate(w) \/ ReadBack(w) \/ ClaimFail(w) \/ Crash(w)
    BY <1>0, <2>3 DEF ClaimUpdate, ReadBack, ClaimFail, Crash
  <2>4. CASE BeginFirst(w) \/ BeginNext(w) \/ StillHeld(w) \/ StillHeldFail(w)
    BY <1>0, <2>4 DEF BeginFirst, BeginNext, Begin, StillHeld, StillHeldFail
  <2>5. CASE WriteOutcome(w)
    BY <1>0, <2>5
    DEF WriteOutcome, WriteCompleted, WriteFailed, WriteDeferred, WriteContinued,
        FailInstead, Settle
  <2>6. CASE Finish(w) \/ WriteFail(w) \/ EndBatch(w) \/ StopSeen(w) \/ Drain(w)
    BY <1>0, <2>6 DEF Finish, WriteFail, ForgetTurn, EndBatch, StopSeen, Drain
  <2>7. CASE ReleaseWaiting(w) \/ ReleaseWaitingFail(w)
    BY <1>0, <2>7 DEF ReleaseWaiting, ReleaseWaitingFail, AfterRelease
  <2>8. CASE \E result \in HandlerResult : HandlerReturn(w, result)
    BY <1>0, <2>8 DEF HandlerReturn
  <2> QED
    BY <1>2, <2>1, <2>3, <2>4, <2>5, <2>6, <2>7, <2>8 DEF RunnerStep, RunnerProgress
<1> QED
  BY <1>1, <1>2
  DEF Next, vars, runner, JobStep, Enqueue, BecomeDue, LeaseExpire, Replay, Prune,
      ReaperStep, ReapSelect, ReapUpdate, ReapFail, BeatStep, Renew, RenewNothing,
      RenewFail, Abandon, CloseAbandoned, BeatRelease, BeatReleaseFail

(* Every step preserves the invariant. *)
LEMMA FenceInvStep ==
    ASSUME FenceInv, [Next]_vars
    PROVE  FenceInv'
<1>0. /\ TypeOK /\ TypeAndBudget' /\ TypeOK' /\ HistoryAgrees /\ SelectedUnowned /\ AllTidy
      /\ RemembersNewest
      /\ \A j \in Job : jobs[j] \in Row /\ history[j] \in Rows
  BY TypeAndBudgetStep DEF FenceInv, TypeAndBudget, TypeOK, Rows
<1>1. HistoryAgrees'
  <2>1. ASSUME NEW j \in Job PROVE Agrees(jobs'[j], history'[j])
    <3>1. HistoryStep(jobs[j], history[j], jobs'[j], history'[j])
      BY <1>0, StepsAreHistorySteps DEF HistoryStep
    <3>2. Agrees(jobs[j], history[j])
      BY <1>0 DEF HistoryAgrees, Agrees
    <3> QED
      BY <1>0, <3>1, <3>2, HistoryStepKeepsAgrees
  <2> QED
    BY <2>1 DEF HistoryAgrees, Agrees
<1>2. SelectedUnowned'
  <2> SUFFICES ASSUME NEW w \in Worker, pc'[w] = "selected", NEW j \in selected'[w],
                      jobs'[j].status = "claimed", jobs'[j].locked_by = w
               PROVE  FALSE
    BY DEF SelectedUnowned
  <2>0. j \in Job
    BY <1>0 DEF TypeOK
  <2>1. CASE pc[w] = "selected" /\ j \in selected[w]
    <3>1. ~ (jobs[j].status = "claimed" /\ jobs[j].locked_by = w)
      BY <1>0, <2>1 DEF SelectedUnowned
    <3>2. PICK v \in Worker :
             ClaimUpdate(v) /\ ClaimWrite(v, jobs[j], history[j], jobs'[j], history'[j])
      BY <1>0, <2>0, <3>1, StepsAreHistorySteps, HistoryWriteEffects
    <3>3. jobs'[j].locked_by = v
      BY <1>0, <2>0, <3>2, RowStands DEF ClaimWrite
    <3>4. ClaimUpdate(w)
      BY <3>2, <3>3
    <3> QED
      BY <1>0, <3>4 DEF ClaimUpdate, TypeOK
  <2>2. CASE ~ (pc[w] = "selected" /\ j \in selected[w])
    <3>1. ClaimSelect(w)
      BY <1>0, <2>2, SelectedBySelect
    <3>2. Due(j) /\ UNCHANGED jobs
      BY <1>0, <3>1 DEF ClaimSelect, TypeOK
    <3> QED
      BY <3>2 DEF Due
  <2> QED
    BY <2>1, <2>2
<1>3. AllTidy'
  BY <1>0, RunnerRemembers DEF AllTidy
<1>4. RemembersNewest'
  <2> SUFFICES ASSUME NEW w \in Worker, NEW c \in RunnerClaims(w)'
               PROVE  /\ Opened(w, c)'
                      /\ \A i \in c.gen + 1 .. Len(history'[c.job]) : history'[c.job][i].worker # w
    BY DEF RemembersNewest
  <2>0. c \in Claim /\ c.job \in Job /\ c.gen \in Nat
    BY <1>0 DEF RunnerClaims, TypeOK, Claim
  <2>1. CASE c \in RunnerClaims(w)
    <3>1. Opened(w, c) /\ \A i \in c.gen + 1 .. Len(history[c.job]) : history[c.job][i].worker # w
      BY <1>0, <2>1 DEF RemembersNewest
    <3>2. ~ ClaimUpdate(w)
      <4>1. ASSUME ClaimUpdate(w) PROVE FALSE
        <5>1. pc[w] = "selected" /\ Tidy(w)
          BY <1>0, <4>1 DEF ClaimUpdate, AllTidy
        <5> QED
          BY <2>1, <5>1 DEF Tidy, RunnerClaims, BusyPC
      <4> QED
        BY <4>1
    <3> DEFINE h == history[c.job]
               g == history'[c.job]
    <3>3. /\ Len(h) \in Nat /\ Len(g) \in Nat
          /\ \A i \in 1 .. Len(h) : g[i].worker = h[i].worker /\ g[i].attempt = h[i].attempt
          /\ Len(g) = Len(h) \/ (Len(g) = Len(h) + 1 /\ g[Len(g)].worker # w)
      BY <2>0, <3>2, NamesStay
    <3>4. /\ c.gen \in 1 .. Len(h) /\ h[c.gen].worker = w /\ h[c.gen].attempt = c.attempt
          /\ \A i \in c.gen + 1 .. Len(h) : h[i].worker # w
      BY <3>1 DEF Opened, AttemptOf
    <3> HIDE DEF h, g
    <3>5. /\ c.gen \in 1 .. Len(g) /\ g[c.gen].worker = w /\ g[c.gen].attempt = c.attempt
          /\ \A i \in c.gen + 1 .. Len(g) : g[i].worker # w
      <4>1. c.gen \in 1 .. Len(g) /\ g[c.gen].worker = w /\ g[c.gen].attempt = c.attempt
        BY <3>3, <3>4
      <4>2. ASSUME NEW i \in c.gen + 1 .. Len(g) PROVE g[i].worker # w
        <5>1. CASE i <= Len(h)
          BY <3>3, <3>4, <4>2, <5>1
        <5>2. CASE i > Len(h)
          BY <3>3, <3>4, <4>2, <5>2
        <5> QED
          BY <3>3, <3>4, <4>2, <5>1, <5>2
      <4> QED
        BY <4>1, <4>2
    <3> QED
      BY <3>5 DEF Opened, AttemptOf, g
  <2>2. CASE c \notin RunnerClaims(w)
    <3>1. ReadBack(w)
      BY <1>0, <2>2, RunnerRemembers
    <3>2. PICK j \in selected[w] :
             /\ jobs[j].status = "claimed" /\ jobs[j].locked_by = w
             /\ c = [job |-> j, attempt |-> jobs[j].attempts, gen |-> Len(history[j])]
      <4>1. turn[w] = NoClaim /\ turn'[w] = turn[w]
        BY <1>0, <3>1 DEF ReadBack, AllTidy, Tidy, BusyPC
      <4> QED
        BY <1>0, <3>1, <4>1 DEF ReadBack, RunnerClaims, TypeOK
    <3>3. UNCHANGED history
      BY <3>1 DEF ReadBack
    <3>4. /\ Len(history[j]) \in Nat /\ Len(history[j]) > 0
          /\ history[j][Len(history[j])].worker = w
          /\ history[j][Len(history[j])].attempt = jobs[j].attempts
      BY <1>0, <2>0, <3>2 DEF HistoryAgrees, TypeOK
    <3>5. c.job = j /\ c.attempt = jobs[j].attempts /\ c.gen = Len(history[j])
      BY <3>2
    <3> QED
      BY <3>3, <3>4, <3>5 DEF Opened, AttemptOf
  <2> QED
    BY <2>1, <2>2
<1> QED
  BY <1>0, <1>1, <1>2, <1>3, <1>4 DEF FenceInv

(* The queue starts with nothing claimed and nothing remembered. *)
LEMMA FenceInvInit == Init => FenceInv
<1> SUFFICES ASSUME Init PROVE FenceInv
  OBVIOUS
<1>1. TypeAndBudget
  BY TypeAndBudgetInit
<1>2. HistoryAgrees
  BY DEF Init, HistoryAgrees, AbsentRow
<1>3. SelectedUnowned
  BY DEF Init, SelectedUnowned
<1>4. AllTidy
  BY DEF Init, AllTidy, Tidy, BusyPC
<1>5. RemembersNewest
  BY DEF Init, RemembersNewest, RunnerClaims
<1> QED
  BY <1>1, <1>2, <1>3, <1>4, <1>5 DEF FenceInv

(* The invariant holds of every behaviour of the queue. *)
THEOREM FenceInvariant == Spec => []FenceInv
<1>1. FenceInv /\ [Next]_vars => FenceInv'
  BY FenceInvStep
<1> QED
  BY <1>1, FenceInvInit, PTL DEF Spec

(* "The history can never disagree with the claim" (record_attempts): through *)
(* every interleaving of claims, reaping, releases, abandonments, late writes *)
(* and replays, a claimed job has exactly one unsettled attempt, its newest,  *)
(* and a job nobody holds has none open.                                      *)
THEOREM HistoryAlwaysAgrees == Spec => []HistoryAgrees
<1>1. FenceInv => HistoryAgrees
  BY DEF FenceInv
<1> QED
  BY <1>1, FenceInvariant, PTL

(* What a runner remembers and still owns is the newest claim of its job. *)
LEMMA RunnerIsFenced == FenceInv => RunnerFenced
<1> SUFFICES ASSUME FenceInv, NEW w \in Worker, NEW c \in RunnerClaims(w), Owns(w, c)
             PROVE  c.gen = Len(history[c.job])
  BY DEF RunnerFenced
<1> DEFINE h == history[c.job]
<1>0. c.job \in Job
  BY DEF FenceInv, TypeAndBudget, TypeOK, RunnerClaims, Claim
<1>1. /\ Len(h) \in Nat /\ Len(h) > 0 /\ h[Len(h)].worker = w
  BY <1>0 DEF FenceInv, TypeAndBudget, TypeOK, HistoryAgrees, Owns, OwnedClaim
<1>2. /\ c.gen \in 1 .. Len(h)
      /\ \A i \in c.gen + 1 .. Len(h) : h[i].worker # w
  BY DEF FenceInv, RemembersNewest, Opened
<1> HIDE DEF h
<1>3. c.gen = Len(h)
  BY <1>1, <1>2
<1> QED
  BY <1>3 DEF h

(* _owned_claim matches one exact claim: whatever a runner still remembers    *)
(* passes the test only while it is the newest claim of its job, even after a *)
(* replay started the attempt numbers again.                                  *)
THEOREM RunnerAlwaysFenced == Spec => []RunnerFenced
BY FenceInvariant, RunnerIsFenced, PTL

-----------------------------------------------------------------------------
(* With replays: what frees a job whose handler is still running.            *)

(* The outcomes that no handler returned. *)
NotReturned == {"open", "abandoned", "lease_expired", "released"}

(* The claims whose outcome the runner has still to write. *)
ToWrite(w) ==
    (IF pc[w] \in {"first", "batch"} \cup BusyPC THEN batch[w] ELSE {})
    \cup (IF pc[w] \in {"ready", "running", "finalizing"} THEN {turn[w]} ELSE {})

WritesOnce ==
    \A w \in Worker :
        /\ \A c \in ToWrite(w) : AttemptOf(c).outcome \in NotReturned
        /\ pc[w] \in BusyPC => turn[w] \notin batch[w]
        /\ pc[w] \in {"running", "finalizing"} => AttemptOf(turn[w]).ran

(* A worker remembers one claim of a job. *)
LEMMA OneClaimPerJob ==
    ASSUME FenceInv, NEW w \in Worker, NEW c \in RunnerClaims(w), NEW d \in RunnerClaims(w),
           c \in Claim, d \in Claim, c.job = d.job
    PROVE  c = d
<1> DEFINE h == history[c.job]
<1>0. /\ Opened(w, c) /\ Opened(w, d)
      /\ \A i \in c.gen + 1 .. Len(history[c.job]) : history[c.job][i].worker # w
      /\ \A i \in d.gen + 1 .. Len(history[d.job]) : history[d.job][i].worker # w
  BY DEF FenceInv, RemembersNewest
<1>1. /\ c.gen \in 1 .. Len(h) /\ h[c.gen].worker = w /\ h[c.gen].attempt = c.attempt
      /\ d.gen \in 1 .. Len(h) /\ h[d.gen].worker = w /\ h[d.gen].attempt = d.attempt
      /\ \A i \in c.gen + 1 .. Len(h) : h[i].worker # w
      /\ \A i \in d.gen + 1 .. Len(h) : h[i].worker # w
  BY <1>0 DEF Opened, AttemptOf
<1>2. Len(h) \in Nat
  BY DEF FenceInv, TypeAndBudget, TypeOK, Claim
<1> HIDE DEF h
<1>3. c.gen = d.gen
  BY <1>1, <1>2
<1> QED
  BY <1>1, <1>3 DEF Claim

(* The writes of everybody but a runner that settles write no returned outcome. *)
LEMMA OtherWrites ==
    ASSUME NEW h \in Rows, NEW g, NEW i \in 1 .. Len(h),
           \/ g = h
           \/ g = CloseExpired(h)
           \/ \E w, ats : \E o \in {"released", "abandoned"} : g = CloseOpen(h, w, ats, o)
           \/ \E n : g = MarkRan(h, n)
           \/ \E w \in Worker, a \in Nat : g = OpenAttempt(h, w, a)
    PROVE  /\ h[i].ran => g[i].ran
           /\ g[i].outcome = h[i].outcome \/ g[i].outcome \in NotReturned
<1>1. CASE g = h
  BY <1>1
<1>2. CASE g = CloseExpired(h)
  BY <1>2, CloseExpiredRows DEF NotReturned
<1>3. ASSUME NEW w, NEW ats, NEW o \in {"released", "abandoned"}, g = CloseOpen(h, w, ats, o)
      PROVE  /\ h[i].ran => g[i].ran
             /\ g[i].outcome = h[i].outcome \/ g[i].outcome \in NotReturned
  <2>1. o \in Outcome /\ o \in NotReturned
    BY DEF Outcome, NotReturned
  <2> QED
    BY <1>3, <2>1, CloseOpenRows
<1>4. ASSUME NEW n, g = MarkRan(h, n)
      PROVE  (h[i].ran => g[i].ran) /\ g[i].outcome = h[i].outcome
  BY <1>4, MarkRanRows
<1>5. ASSUME NEW w \in Worker, NEW a \in Nat, g = OpenAttempt(h, w, a)
      PROVE  g[i] = h[i]
  <2>1. /\ Len(g) = Len(h) + 1
        /\ \A k \in 1 .. Len(h) : g[k] = h[k]
        /\ g[Len(g)] = [worker |-> w, attempt |-> a, outcome |-> "open", ran |-> FALSE]
    BY <1>5, OpenAttemptRows
  <2> QED
    BY <2>1
<1> QED
  BY <1>1, <1>2, <1>3, <1>4, <1>5

(* A runner that settles writes to attempts of its own. *)
LEMMA SettleWrites ==
    ASSUME NEW h \in Rows, NEW g, NEW i \in 1 .. Len(h), NEW r, NEW w, NEW a,
           NEW o \in Outcome, NEW latest,
           g = FinishAttempt(h, w, a, o, OwnedClaim(r, w, a), latest)
    PROVE  /\ g[i].ran = h[i].ran
           /\ g[i].outcome = h[i].outcome \/ h[i].worker = w
<1>1. LateOutcome(a, latest) \in Outcome
  BY DEF LateOutcome, Outcome
<1>2. \E able : \E p \in Outcome : g = SettledAs(h, w, a, able, p)
  BY <1>1, FinishAttemptCases
<1>3. PICK able : \E p \in Outcome : g = SettledAs(h, w, a, able, p)
  BY <1>2, Zenon
<1>4. PICK p \in Outcome : g = SettledAs(h, w, a, able, p)
  BY <1>3, Zenon
<1>5. Newest(i, Hits(h, w, a, able)) => h[i].worker = w
  BY DEF Newest, Hits
<1> QED
  BY <1>4, <1>5, SettledAsRows

(* The runner whose turn is one attempt's job, and who settles in this step. *)
Settler(w, j) ==
    /\ pc[w] = "finalizing" /\ pc'[w] \in {"written", "late"}
    /\ turn[w].job = j
    /\ UNCHANGED <<batch, turn>>

(* A returned outcome is written by the runner that made the attempt, and only *)
(* when it settles its turn.                                                   *)
LEMMA OutcomeSteps ==
    ASSUME FenceInv, [Next]_vars, NEW j \in Job, NEW i \in 1 .. Len(history[j])
    PROVE  /\ history[j][i].ran => history'[j][i].ran
           /\ \/ history'[j][i].outcome = history[j][i].outcome
              \/ history'[j][i].outcome \in NotReturned
              \/ \E w \in Worker : history[j][i].worker = w /\ Settler(w, j)
<1> DEFINE h == history[j]
           g == history'[j]
           Goal == /\ h[i].ran => g[i].ran
                   /\ \/ g[i].outcome = h[i].outcome
                      \/ g[i].outcome \in NotReturned
                      \/ \E w \in Worker : h[i].worker = w /\ Settler(w, j)
<1>0. /\ TypeOK /\ h \in Rows /\ history \in [Job -> Rows] /\ WorkersTyped
  BY DEF FenceInv, TypeAndBudget, TypeOK, Rows, WorkersTyped
<1>1. ASSUME \/ g = h
             \/ g = CloseExpired(h)
             \/ \E w, ats : \E o \in {"released", "abandoned"} : g = CloseOpen(h, w, ats, o)
             \/ \E n : g = MarkRan(h, n)
             \/ \E w \in Worker, a \in Nat : g = OpenAttempt(h, w, a)
      PROVE  Goal
  BY <1>0, <1>1, OtherWrites
<1>2. ASSUME UNCHANGED history PROVE Goal
  BY <1>1, <1>2
<1>3. ASSUME ReapUpdate PROVE Goal
  BY <1>1, <1>3 DEF ReapUpdate
<1>4. ASSUME NEW w \in Worker, ClaimUpdate(w) PROVE Goal
  <2>1. CASE g = h
    BY <1>1, <2>1
  <2>2. CASE g = OpenAttempt(h, w, jobs'[j].attempts)
    <3>1. TypeAndBudget'
      BY TypeAndBudgetStep DEF FenceInv
    <3>2. jobs'[j].attempts \in Nat
      BY <3>1 DEF TypeAndBudget, TypeOK, Row
    <3> QED
      BY <1>1, <2>2, <3>2
  <2> QED
    BY <1>4, <2>1, <2>2 DEF ClaimUpdate
<1>5. ASSUME NEW w \in Worker, NEW claims, ReleaseLeases(w, claims) PROVE Goal
  BY <1>1, <1>5 DEF ReleaseLeases
<1>6. ASSUME NEW w \in Worker, NEW c, Begin(w, c) PROVE Goal
  BY <1>0, <1>1, <1>6 DEF Begin
<1>7. ASSUME NEW w \in Worker, NEW row, NEW o \in FinalOutcome, Settle(w, row, o) PROVE Goal
  <2>1. CASE turn[w].job # j
    BY <1>0, <1>1, <1>7, <2>1 DEF Settle
  <2>2. CASE turn[w].job = j
    <3> DEFINE a == turn[w].attempt
               r == jobs[j]
    <3>1. g = FinishAttempt(h, w, a, o, OwnedClaim(r, w, a), r.attempts)
      BY <1>0, <1>7, <2>2 DEF Settle, Owns
    <3>2. o \in Outcome
      BY DEF FinalOutcome, Outcome
    <3>3. Settler(w, j)
      BY <1>0, <1>7, <2>2 DEF Settle, Settler, WorkersTyped
    <3> HIDE DEF a, r, g, h
    <3>4. g[i].ran = h[i].ran /\ (g[i].outcome = h[i].outcome \/ h[i].worker = w)
      BY <1>0, <3>1, <3>2, SettleWrites DEF h
    <3> QED
      BY <3>3, <3>4
  <2> QED
    BY <2>1, <2>2
<1>8. ASSUME NEW w \in Worker, CloseAbandoned(w) PROVE Goal
  <2>1. CASE g = CloseOpen(h, w, {beat[w].claim.attempt}, "abandoned")
    BY <1>1, <2>1
  <2>2. CASE g = h
    BY <1>1, <2>2
  <2> QED
    BY <1>0, <1>8, <2>1, <2>2 DEF CloseAbandoned
<1>9. ASSUME NEW w \in Worker, WriteOutcome(w) PROVE Goal
  <2>0. FinalOutcome = {"completed", "failed", "dead_letter", "deferred", "continued"}
    BY DEF FinalOutcome
  <2>1. CASE WriteCompleted(w)
    BY <1>7, <2>0, <2>1 DEF WriteCompleted
  <2>2. CASE WriteFailed(w)
    BY <1>7, <2>0, <2>2 DEF WriteFailed
  <2>3. CASE WriteDeferred(w)
    BY <1>7, <2>0, <2>3 DEF WriteDeferred
  <2>4. CASE WriteContinued(w)
    BY <1>7, <2>0, <2>4 DEF WriteContinued
  <2>5. CASE FailInstead(w)
    BY <1>2, <2>5 DEF FailInstead
  <2> QED
    BY <1>9, <2>1, <2>2, <2>3, <2>4, <2>5 DEF WriteOutcome
<1> HIDE DEF Goal
<1>10. ASSUME NEW w \in Worker, RunnerStep(w) PROVE Goal
  <2>1. CASE BeginFirst(w)
    BY <1>6, <2>1 DEF BeginFirst
  <2>2. CASE BeginNext(w)
    BY <1>6, <2>2 DEF BeginNext
  <2>3. CASE ReleaseWaiting(w)
    BY <1>5, <2>3 DEF ReleaseWaiting
  <2>4. CASE UNCHANGED history
    BY <1>2, <2>4
  <2> QED
    BY <1>4, <1>9, <1>10, <2>1, <2>2, <2>3, <2>4
    DEF RunnerStep, RunnerProgress, ClaimSelect, ReadBack, ClaimFail, StillHeld,
        StillHeldFail, HandlerReturn, Finish, WriteFail, EndBatch, StopSeen, Drain,
        ReleaseWaitingFail, Crash
<1>11. ASSUME NEW w \in Worker, BeatStep(w) PROVE Goal
  <2>1. CASE BeatRelease(w)
    BY <1>5, <2>1 DEF BeatRelease
  <2>2. CASE UNCHANGED history
    BY <1>2, <2>2
  <2> QED
    BY <1>8, <1>11, <2>1, <2>2
    DEF BeatStep, Renew, RenewNothing, RenewFail, Abandon, BeatReleaseFail
<1>12. Goal
  BY <1>2, <1>3, <1>10, <1>11
  DEF Next, vars, JobStep, Enqueue, BecomeDue, LeaseExpire, Replay, Prune, ReaperStep,
      ReapSelect, ReapFail
<1> QED
  BY <1>12 DEF Goal

(* A runner begins a handler only of a claim whose outcome it has to write, and *)
(* comes by further claims only in reading them back.                           *)
LEMMA WritersMove ==
    ASSUME FenceInv, WritesOnce, [Next]_vars, NEW v \in Worker
    PROVE  /\ ToWrite(v)' \subseteq ToWrite(v) \/ ReadBack(v)
           /\ pc'[v] \in BusyPC => turn'[v] \notin batch'[v]
           /\ pc'[v] \in {"running", "finalizing"} =>
                 \/ pc[v] \in {"running", "finalizing"} /\ turn'[v] = turn[v]
                 \/ turn'[v] \in ToWrite(v) /\ Begin(v, turn'[v])
<1> DEFINE Goal == /\ ToWrite(v)' \subseteq ToWrite(v) \/ ReadBack(v)
                   /\ pc'[v] \in BusyPC => turn'[v] \notin batch'[v]
                   /\ pc'[v] \in {"running", "finalizing"} =>
                         \/ pc[v] \in {"running", "finalizing"} /\ turn'[v] = turn[v]
                         \/ turn'[v] \in ToWrite(v) /\ Begin(v, turn'[v])
<1>0. /\ WorkersTyped /\ Tidy(v) /\ NoClaim \notin Claim
      /\ pc[v] \in BusyPC => turn[v] \notin batch[v]
  BY QueueAssumption
  DEF FenceInv, TypeAndBudget, TypeOK, WorkersTyped, AllTidy, Claim, WritesOnce
<1> USE DEF Tidy, BusyPC, ToWrite, WorkersTyped, runner, keeper
<1>1. ASSUME UNCHANGED runner PROVE Goal
  BY <1>0, <1>1
<1>2. ASSUME NEW w \in Worker, RunnerStep(w) PROVE Goal
  <2>1. CASE ClaimSelect(w) \/ ClaimUpdate(w) \/ ClaimFail(w)
    BY <1>0, <2>1 DEF ClaimSelect, ClaimUpdate, ClaimFail
  <2>2. CASE ReadBack(w)
    <3>1. CASE v = w
      BY <1>0, <2>2, <3>1 DEF ReadBack
    <3>2. CASE v # w
      <4>1. pc'[v] = pc[v] /\ batch'[v] = batch[v] /\ turn' = turn
        BY <1>0, <2>2, <3>2 DEF ReadBack
      <4> QED
        BY <1>0, <4>1
    <3> QED
      BY <3>1, <3>2
  <2>3. ASSUME NEW c \in batch[w], Begin(w, c), pc[w] = "first",
               batch' = [batch EXCEPT ![w] = @ \ {c}]
        PROVE  Goal
    <3>1. CASE v = w
      BY <1>0, <2>3, <3>1 DEF Begin
    <3>2. CASE v # w
      BY <1>0, <2>3, <3>2 DEF Begin
    <3> QED
      BY <3>1, <3>2
  <2>4. CASE BeginNext(w)
    <3>1. CASE v = w
      BY <1>0, <2>4, <3>1 DEF BeginNext, Begin
    <3>2. CASE v # w
      BY <1>0, <2>4, <3>2 DEF BeginNext, Begin
    <3> QED
      BY <3>1, <3>2
  <2>5. CASE StillHeld(w)
    <3>1. PICK c \in batch[w] :
             /\ batch' = [batch EXCEPT ![w] = @ \ {c}]
             /\ \/ turn' = [turn EXCEPT ![w] = c] /\ pc' = [pc EXCEPT ![w] = "ready"]
                \/ UNCHANGED <<turn, pc>>
      BY <2>5 DEF StillHeld
    <3>2. pc[w] = "batch"
      BY <2>5 DEF StillHeld
    <3> QED
      BY <1>0, <3>1, <3>2
  <2>6. CASE StillHeldFail(w)
    BY <1>0, <2>6 DEF StillHeldFail
  <2>7. CASE WriteOutcome(w)
    BY <1>0, <2>7
    DEF WriteOutcome, WriteCompleted, WriteFailed, WriteDeferred, WriteContinued,
        FailInstead, Settle
  <2>8. CASE Finish(w) \/ WriteFail(w)
    BY <1>0, <2>8 DEF Finish, WriteFail, ForgetTurn
  <2>9. CASE EndBatch(w) \/ StopSeen(w) \/ Drain(w)
    BY <1>0, <2>9 DEF EndBatch, StopSeen, Drain
  <2>10. CASE ReleaseWaiting(w) \/ ReleaseWaitingFail(w)
    BY <1>0, <2>10 DEF ReleaseWaiting, ReleaseWaitingFail, AfterRelease
  <2>11. CASE \E result \in HandlerResult : HandlerReturn(w, result)
    BY <1>0, <2>11 DEF HandlerReturn
  <2>12. CASE Crash(w)
    BY <1>0, <2>12 DEF Crash
  <2> QED
    BY <1>2, <2>1, <2>2, <2>3, <2>4, <2>5, <2>6, <2>7, <2>8, <2>9, <2>10, <2>11, <2>12
    DEF RunnerStep, RunnerProgress, BeginFirst
<1>3. ASSUME NEW w \in Worker, BeatStep(w) PROVE UNCHANGED runner
  BY <1>3
  DEF BeatStep, Renew, RenewNothing, RenewFail, Abandon, CloseAbandoned, BeatRelease,
      BeatReleaseFail
<1> HIDE DEF Goal
<1>4. Goal
  BY <1>1, <1>2, <1>3
  DEF Next, vars, JobStep, Enqueue, BecomeDue, LeaseExpire, Replay, Prune, ReaperStep,
      ReapSelect, ReapUpdate, ReapFail
<1> QED
  BY <1>4 DEF Goal

(* What is to be written is a claim the runner remembers. *)
LEMMA WritersRemember ==
    ASSUME FenceInv, NEW v \in Worker, NEW c \in ToWrite(v)
    PROVE  /\ c \in RunnerClaims(v) /\ c \in Claim /\ c.job \in Job
           /\ Opened(v, c) /\ c.gen \in 1 .. Len(history[c.job])
<1>0. WorkersTyped /\ Tidy(v) /\ NoClaim \notin Claim
  BY QueueAssumption DEF FenceInv, TypeAndBudget, TypeOK, WorkersTyped, AllTidy, Claim
<1>1. c \in RunnerClaims(v) /\ c \in Claim
  BY <1>0 DEF ToWrite, Tidy, BusyPC, RunnerClaims, WorkersTyped
<1>2. Opened(v, c)
  BY <1>1 DEF FenceInv, RemembersNewest
<1> QED
  BY <1>1, <1>2 DEF Opened, Claim

(* The strengthening holds as long as FenceInv does. *)
LEMMA WritesOnceStep ==
    ASSUME FenceInv, WritesOnce, [Next]_vars
    PROVE  WritesOnce'
<1> SUFFICES ASSUME NEW v \in Worker
             PROVE  /\ \A c \in ToWrite(v)' : history'[c.job][c.gen].outcome \in NotReturned
                    /\ pc'[v] \in BusyPC => turn'[v] \notin batch'[v]
                    /\ pc'[v] \in {"running", "finalizing"} =>
                          history'[turn'[v].job][turn'[v].gen].ran
  BY DEF WritesOnce, AttemptOf
<1>0. /\ WorkersTyped /\ Tidy(v) /\ history \in [Job -> Rows]
  BY DEF FenceInv, TypeAndBudget, TypeOK, WorkersTyped, AllTidy, Rows
<1>1. ASSUME NEW c \in ToWrite(v), c \in ToWrite(v)'
      PROVE  history'[c.job][c.gen].outcome \in NotReturned
  <2>1. /\ c \in RunnerClaims(v) /\ c \in Claim /\ c.job \in Job
        /\ Opened(v, c) /\ c.gen \in 1 .. Len(history[c.job])
    BY WritersRemember
  <2>2. history[c.job][c.gen].outcome \in NotReturned /\ history[c.job][c.gen].worker = v
    BY <2>1 DEF WritesOnce, AttemptOf, Opened
  <2>3. ~ Settler(v, c.job)
    <3> SUFFICES ASSUME Settler(v, c.job) PROVE FALSE
      OBVIOUS
    <3>1. pc[v] = "finalizing" /\ turn[v] \in ToWrite(v) /\ turn[v].job = c.job
      BY DEF Settler, ToWrite
    <3>2. c \in batch[v]
      BY <1>1 DEF Settler, ToWrite, BusyPC
    <3>3. turn[v] = c
      BY <2>1, <3>1, WritersRemember, OneClaimPerJob
    <3> QED
      BY <3>1, <3>2, <3>3 DEF WritesOnce, BusyPC
  <2> QED
    BY <2>1, <2>2, <2>3, OutcomeSteps
<1>2. ASSUME ReadBack(v), NEW c \in ToWrite(v)'
      PROVE  history'[c.job][c.gen].outcome \in NotReturned
  <2>1. PICK j \in Job : /\ jobs[j].status = "claimed"
                         /\ c = [job |-> j, attempt |-> jobs[j].attempts, gen |-> Len(history[j])]
    <3>1. c \in batch'[v]
      BY <1>0, <1>2 DEF ReadBack, ToWrite, WorkersTyped, BusyPC
    <3> QED
      BY <1>0, <1>2, <3>1 DEF ReadBack, WorkersTyped
  <2>2. history[j][Len(history[j])].outcome \in {"open", "abandoned"}
    BY <2>1 DEF FenceInv, HistoryAgrees
  <2>3. history' = history
    BY <1>2 DEF ReadBack
  <2> QED
    BY <2>1, <2>2, <2>3 DEF NotReturned
<1>3. ASSUME pc'[v] \in {"running", "finalizing"}
      PROVE  history'[turn'[v].job][turn'[v].gen].ran
  <2> DEFINE c == turn'[v]
  <2>1. CASE pc[v] \in {"running", "finalizing"} /\ c = turn[v]
    <3>1. c \in ToWrite(v) /\ history[c.job][c.gen].ran
      BY <2>1 DEF WritesOnce, AttemptOf, ToWrite
    <3>2. c.job \in Job /\ c.gen \in 1 .. Len(history[c.job])
      BY <3>1, WritersRemember
    <3> QED
      BY <3>1, <3>2, OutcomeSteps
  <2>2. CASE c \in ToWrite(v) /\ Begin(v, c)
    <3> DEFINE h == history[c.job]
               g == history'[c.job]
               n == c.gen
    <3>1. h \in Rows /\ n \in 1 .. Len(h) /\ g = MarkRan(h, n)
      BY <1>0, <2>2, WritersRemember DEF Begin
    <3> HIDE DEF h, g, n
    <3>2. g[n].ran = TRUE
      BY <3>1, MarkRanRows
    <3> QED
      BY <3>2 DEF g, n
  <2> QED
    BY <1>3, <2>1, <2>2, WritersMove
<1> QED
  BY <1>1, <1>2, <1>3, WritersMove

(* With replays too, a job is in two handlers at once only after the lease of *)
(* the earlier run ran out, but for a release that hits a running job: nothing *)
(* else that the runners, the heartbeats, the reaper and the operators write   *)
(* frees a job whose handler is still running.                                 *)
THEOREM OverlapNeedsExpiryOrRelease == Spec => [](ReleasedNeverRan => OverlapOnlyAfterExpiry)
<1>1. Init => WritesOnce
  BY DEF Init, WritesOnce, ToWrite, BusyPC
<1>2. FenceInv /\ WritesOnce /\ [Next]_vars => WritesOnce'
  BY WritesOnceStep
<1>3. ASSUME FenceInv, WritesOnce, ReleasedNeverRan PROVE OverlapOnlyAfterExpiry
  <2> SUFFICES ASSUME NEW w \in Worker, pc[w] = "running",
                      turn[w].gen < Len(history[turn[w].job])
               PROVE  AttemptOf(turn[w]).outcome \in {"lease_expired", "abandoned"}
    BY DEF OverlapOnlyAfterExpiry, Executing, AttemptOf
  <2> DEFINE c == turn[w]
  <2>1. c \in ToWrite(w)
    BY DEF ToWrite
  <2>2. /\ AttemptOf(c).ran
        /\ AttemptOf(c).outcome \in {"open", "abandoned", "lease_expired", "released"}
    BY <1>3, <2>1 DEF WritesOnce, NotReturned
  <2>3. c.job \in Job /\ c.gen \in 1 .. Len(history[c.job]) /\ history \in [Job -> Rows]
    BY <1>3, <2>1, WritersRemember DEF FenceInv, TypeAndBudget, TypeOK, Rows
  <2>4. AttemptOf(c).outcome # "released"
    BY <1>3, <2>2, <2>3 DEF ReleasedNeverRan, AttemptOf, Rows
  <2>5. AttemptOf(c).outcome # "open"
    <3>1. c.gen # Len(history[c.job])
      BY <2>3 DEF Rows
    <3> QED
      BY <1>3, <2>3, <3>1 DEF FenceInv, HistoryAgrees, AttemptOf
  <2> QED
    BY <2>2, <2>4, <2>5
<1> QED
  BY <1>1, <1>2, <1>3, FenceInvariant, PTL DEF Spec

-----------------------------------------------------------------------------
(* Without replays: attempt numbers tell claims apart.                       *)

(* A step of the queue keeps the attempt numbers of a job in order. *)
LEMMA HistoryStepKeepsOrdered ==
    ASSUME Replayable = {}, NEW r \in Row, RowBudget(r), NEW h \in Rows, NEW s, NEW g,
           Agrees(r, h), Ordered(r, h), HistoryStep(r, h, s, g),
           r.status = "claimed" /\ s.attempts # r.attempts => h[Len(h)].outcome = "open"
    PROVE  Ordered(s, g)
<1>0. /\ Len(h) \in Nat /\ r.attempts \in Nat
      /\ \A i \in 1 .. Len(h) : h[i].attempt \in Nat
  <2>1. Len(h) \in Nat /\ r.attempts \in Nat /\ \A i \in 1 .. Len(h) : h[i] \in Attempt(Worker)
    BY DEF Rows, Row
  <2> QED
    BY <2>1 DEF Attempt
<1>a. FinalOutcome \subseteq Outcome /\ {"released", "abandoned"} \subseteq Outcome
  BY DEF FinalOutcome, Outcome
<1>b. ASSUME SameNames(h, g),
             \A i \in 1 .. Len(h) : h[i].outcome = "released" => g[i].outcome = "released",
             s.attempts = r.attempts, s.status = "absent" => r.status = "absent",
             r.status = "pruned" => s.status = "pruned"
      PROVE  Ordered(s, g)
  <2>1. /\ Len(g) = Len(h)
        /\ \A i \in 1 .. Len(h) : g[i].attempt = h[i].attempt
    BY <1>b DEF SameNames
  <2>2. \A i, k \in 1 .. Len(g) :
          i < k => g[i].outcome = "released" \/ g[i].attempt < g[k].attempt
    BY <1>b, <2>1 DEF Ordered
  <2>3. s.status # "pruned" =>
          \A i \in 1 .. Len(g) : g[i].outcome = "released" \/ g[i].attempt <= s.attempts
    BY <1>b, <2>1 DEF Ordered
  <2>4. Len(g) > 0 => s.attempts <= g[Len(g)].attempt
    BY <1>0, <1>b, <2>1 DEF Ordered
  <2>5. s.status = "absent" => Len(g) = 0
    BY <1>b, <2>1 DEF Ordered
  <2> QED
    BY <2>2, <2>3, <2>4, <2>5 DEF Ordered
<1>1. CASE QuietStep(r, s) /\ g = h
  <2>1. \/ s.status = r.status /\ s.attempts = r.attempts
        \/ r.status = "absent" /\ s.status = "pending" /\ s.attempts = 0
        \/ s.status = "pruned" /\ s.attempts = 0
    BY <1>1, RowStands
  <2> QED
    BY <1>0, <1>1, <2>1 DEF Ordered
<1>2. CASE \E w \in Worker : ClaimWrite(w, r, h, s, g)
  <2>1. PICK w \in Worker :
           r.status = "pending" /\ s = Claimed(r, w) /\ g = OpenAttempt(h, w, s.attempts)
    BY <1>2 DEF ClaimWrite
  <2>2. s.status = "claimed" /\ s.attempts = r.attempts + 1 /\ s.attempts \in Nat
    BY <2>1, RowStands DEF Row
  <2>3. /\ Len(g) = Len(h) + 1
        /\ \A i \in 1 .. Len(h) : g[i] = h[i]
        /\ g[Len(g)] = [worker |-> w, attempt |-> s.attempts, outcome |-> "open", ran |-> FALSE]
    BY <2>1, <2>2, OpenAttemptRows
  <2>4. g[Len(g)].attempt = s.attempts
    BY <2>3
  <2>5. \A i \in 1 .. Len(h) : h[i].outcome = "released" \/ h[i].attempt <= r.attempts
    BY <2>1 DEF Ordered
  <2>6. \A i, k \in 1 .. Len(g) :
          i < k => g[i].outcome = "released" \/ g[i].attempt < g[k].attempt
    <3> SUFFICES ASSUME NEW i \in 1 .. Len(g), NEW k \in 1 .. Len(g), i < k
                 PROVE  g[i].outcome = "released" \/ g[i].attempt < g[k].attempt
      OBVIOUS
    <3>0. Len(g) = Len(h) + 1
      BY <2>3
    <3>1. i \in 1 .. Len(h) /\ (k \in 1 .. Len(h) \/ k = Len(g))
      BY <1>0, <3>0
    <3>a. g[i] = h[i]
      BY <2>3, <3>1
    <3>2. CASE k \in 1 .. Len(h)
      BY <2>3, <3>1, <3>2, <3>a DEF Ordered
    <3>3. CASE k = Len(g)
      BY <1>0, <2>2, <2>4, <2>5, <3>1, <3>3, <3>a
    <3> QED
      BY <3>1, <3>2, <3>3
  <2>7. \A i \in 1 .. Len(g) : g[i].outcome = "released" \/ g[i].attempt <= s.attempts
    BY <1>0, <2>2, <2>3, <2>4, <2>5
  <2> QED
    BY <1>0, <2>2, <2>3, <2>4, <2>6, <2>7 DEF Ordered
<1>3. CASE r.status = "claimed" /\ s = Reclaimed(r) /\ g = CloseExpired(h)
  <2>1. s.status \in {"pending", "completed", "dead_letter"} /\ s.attempts = r.attempts
    BY <1>3, RowStands
  <2>2. /\ SameNames(h, g)
        /\ \A i \in 1 .. Len(h) : h[i].outcome = "released" => g[i].outcome = "released"
    BY <1>3, CloseExpiredRows
  <2> QED
    BY <1>b, <1>3, <2>1, <2>2
<1>4. CASE /\ r.status = "claimed"
           /\ s = Released(r)
           /\ \E ats : r.attempts \in ats /\ g = CloseOpen(h, r.locked_by, ats, "released")
  <2>1. PICK ats : r.attempts \in ats /\ g = CloseOpen(h, r.locked_by, ats, "released")
    BY <1>4
  <2>2. s.status = "pending" /\ s.attempts = r.attempts - 1
    BY <1>4, RowStands
  <2>3. /\ SameNames(h, g)
        /\ \A i \in 1 .. Len(h) :
              g[i].outcome =
                IF h[i].worker = r.locked_by /\ h[i].attempt \in ats /\ h[i].outcome = "open"
                THEN "released" ELSE h[i].outcome
    BY <1>a, <2>1, CloseOpenRows
  <2>4. /\ Len(g) = Len(h)
        /\ \A i \in 1 .. Len(h) : g[i].attempt = h[i].attempt
    BY <2>3 DEF SameNames
  <2>5. Len(h) > 0 /\ h[Len(h)].attempt = r.attempts
    BY <1>4 DEF Agrees
  <2>6. \A i, k \in 1 .. Len(g) :
          i < k => g[i].outcome = "released" \/ g[i].attempt < g[k].attempt
    BY <2>3, <2>4 DEF Ordered
  <2>7. \A i \in 1 .. Len(g) : g[i].outcome = "released" \/ g[i].attempt <= s.attempts
    <3> SUFFICES ASSUME NEW i \in 1 .. Len(h)
                 PROVE  g[i].outcome = "released" \/ h[i].attempt <= r.attempts - 1
      BY <2>2, <2>4
    <3>1. CASE i < Len(h)
      <4>1. h[i].outcome = "released" \/ h[i].attempt < r.attempts
        BY <1>0, <2>5, <3>1 DEF Ordered
      <4> QED
        BY <1>0, <2>3, <4>1
    <3>2. CASE i = Len(h)
      <4>1. h[i].worker = r.locked_by /\ h[i].attempt \in ats
        BY <1>4, <2>1, <3>2 DEF Agrees
      <4>2. h[i].outcome = "open"
        BY <1>0, <1>4, <2>2, <3>2
      <4> QED
        BY <2>3, <4>1, <4>2
    <3> QED
      BY <1>0, <3>1, <3>2
  <2> QED
    BY <1>0, <2>2, <2>4, <2>5, <2>6, <2>7 DEF Ordered
<1>5. CASE /\ r.status = "claimed"
           /\ s \in {Completed(r), Failed(r), Deferred(r), Continued(r)}
           /\ \E o \in FinalOutcome : g = SettledAs(h, r.locked_by, r.attempts, OwnedAble, o)
  <2>1. PICK o \in FinalOutcome : g = SettledAs(h, r.locked_by, r.attempts, OwnedAble, o)
    BY <1>5
  <2>2. s.status \in {"pending", "completed", "dead_letter"} /\ s.attempts = r.attempts
    BY <1>5, RowStands
  <2> DEFINE hits == Hits(h, r.locked_by, r.attempts, OwnedAble)
  <2>3. /\ SameNames(h, g)
        /\ \A i \in 1 .. Len(h) : ~ Newest(i, hits) => g[i].outcome = h[i].outcome
    BY <1>a, <2>1, SettledAsRows
  <2>4. \A i \in 1 .. Len(h) : h[i].outcome = "released" => ~ Newest(i, hits)
    BY DEF Newest, Hits, OwnedAble
  <2> QED
    BY <1>b, <1>5, <2>2, <2>3, <2>4
<1>6. CASE /\ s = r
           /\ \E w \in Worker, a \in Nat :
                 /\ ~ OwnedClaim(r, w, a)
                 /\ g = SettledAs(h, w, a, LateAble, LateOutcome(a, r.attempts))
  <2>1. PICK w \in Worker, a \in Nat :
           g = SettledAs(h, w, a, LateAble, LateOutcome(a, r.attempts))
    BY <1>6
  <2>2. LateOutcome(a, r.attempts) \in Outcome
    BY DEF LateOutcome, Outcome
  <2> DEFINE hits == Hits(h, w, a, LateAble)
  <2>3. /\ SameNames(h, g)
        /\ \A i \in 1 .. Len(h) : ~ Newest(i, hits) => g[i].outcome = h[i].outcome
    BY <2>1, <2>2, SettledAsRows
  <2>4. \A i \in 1 .. Len(h) : h[i].outcome = "released" => ~ Newest(i, hits)
    BY DEF Newest, Hits, LateAble
  <2> QED
    BY <1>b, <1>6, <2>3, <2>4
<1>7. CASE s = r /\ \E w \in Worker : \E a : g = CloseOpen(h, w, {a}, "abandoned")
  <2>1. /\ SameNames(h, g)
        /\ \A i \in 1 .. Len(h) : h[i].outcome = "released" => g[i].outcome = "released"
    BY <1>a, <1>7, CloseOpenRows
  <2> QED
    BY <1>b, <1>7, <2>1
<1>8. CASE s = r /\ \E i \in Nat : g = MarkRan(h, i)
  <2>0. PICK n \in Nat : g = MarkRan(h, n)
    BY <1>8
  <2>1. SameNames(h, g) /\ \A i \in 1 .. Len(h) : g[i].outcome = h[i].outcome
    BY <2>0, MarkRanRows, Zenon
  <2>2. /\ \A i \in 1 .. Len(h) : h[i].outcome = "released" => g[i].outcome = "released"
        /\ s.attempts = r.attempts /\ s.status = r.status
    BY <1>8, <2>1
  <2> QED
    BY <1>b, <2>1, <2>2
<1> QED
  BY <1>1, <1>2, <1>3, <1>4, <1>5, <1>6, <1>7, <1>8 DEF HistoryStep, HistoryWrite

(* Two attempts of a job with one number: at most one was not released. *)
LEMMA NumbersDiffer ==
    ASSUME NEW r, NEW h \in Rows, Ordered(r, h), NEW i \in 1 .. Len(h), NEW k \in 1 .. Len(h),
           h[i].attempt = h[k].attempt, h[i].outcome # "released", h[k].outcome # "released"
    PROVE  i = k
<1>1. Len(h) \in Nat /\ h[i] \in Attempt(Worker) /\ h[k] \in Attempt(Worker)
  BY DEF Rows
<1>2. h[i].attempt \in Nat /\ h[k].attempt \in Nat
  BY <1>1 DEF Attempt
<1>3. ~ (i < k) /\ ~ (k < i)
  BY <1>2 DEF Ordered
<1> QED
  BY <1>1, <1>3

(* Two claims of a worker on one attempt are one claim. *)
LEMMA OneClaimPerAttempt ==
    ASSUME NEW v, NEW w, NEW c \in Claim, NEW d \in Claim, Opened(v, c), Opened(w, d),
           c.job = d.job, c.gen = d.gen
    PROVE  c = d /\ v = w
BY DEF Opened, AttemptOf, Claim

(* What the heartbeat thread took along and still owns is the newest claim. *)
LEMMA BeatIsFenced == LifeInv => BeatFenced
<1> SUFFICES ASSUME LifeInv, NEW w \in Worker, NEW c \in BeatClaims(w), Owns(w, c)
             PROVE  c.gen = Len(history[c.job])
  BY DEF BeatFenced
<1> DEFINE h == history[c.job]
           r == jobs[c.job]
           n == Len(h)
<1>0. c \in Claim /\ c.job \in Job
  BY DEF LifeInv, FenceInv, TypeAndBudget, TypeOK, BeatClaims, Claim
<1>1. h \in Rows /\ Ordered(r, h) /\ Opened(w, c)
  BY <1>0 DEF LifeInv, FenceInv, TypeAndBudget, TypeOK, Rows, AttemptsGrow, BeatOpened
<1>2. n \in Nat /\ n > 0 /\ h[n].attempt = c.attempt /\ h[n].outcome \in {"open", "abandoned"}
  BY <1>0, <1>1 DEF LifeInv, FenceInv, HistoryAgrees, Owns, OwnedClaim, Rows
<1>3. c.gen \in 1 .. n /\ h[c.gen].attempt = c.attempt
  BY <1>1 DEF Opened, AttemptOf
<1>4. h[c.gen].outcome # "released"
  <2>1. CASE c \in beat[w].waiting
    BY <2>1 DEF LifeInv, WaitingNeverRan, AttemptOf
  <2>2. CASE c = beat[w].claim /\ c # NoClaim
    <3>1. h[c.gen].ran
      BY <2>2 DEF LifeInv, AbandonedRan, AttemptOf
    <3> QED
      BY <1>0, <1>1, <1>3, <3>1 DEF LifeInv, ReleasedNeverRan, Rows
  <2> QED
    BY <2>1, <2>2 DEF BeatClaims
<1> HIDE DEF h, r
<1>5. c.gen = n
  BY <1>1, <1>2, <1>3, <1>4, NumbersDiffer
<1> QED
  BY <1>5 DEF h

-----------------------------------------------------------------------------
(* Which step may change which attempt.                                      *)

GivesBack(w, c) ==
    \/ ReleaseWaiting(w) /\ c \in batch[w]
    \/ BeatRelease(w) /\ c \in beat[w].waiting

Starts(w, c) ==
    /\ \/ BeginFirst(w) /\ c \in batch[w]
       \/ BeginNext(w) /\ c = turn[w]
    /\ turn'[w] = c

Settles(w, c) ==
    WriteOutcome(w) /\ pc[w] = "finalizing" /\ c = turn[w] /\ pc'[w] \in {"written", "late"}

LetsGo(w, c) == CloseAbandoned(w) /\ c = beat[w].claim

(* One attempt before and after: expired by the reaper, or changed by the   *)
(* worker that opened it, for the claim that opened it.                     *)
AttemptStep(j, i) ==
    LET a == history[j][i]
        b == history'[j][i]
    IN  \/ b.ran = a.ran /\ b.outcome = a.outcome
        \/ /\ b.ran = a.ran /\ a.outcome = "open" /\ b.outcome = "lease_expired"
           /\ jobs'[j].status # "claimed"
        \/ \E w \in Worker, c \in Claim :
              /\ c.job = j /\ c.gen = i /\ Opened(w, c)
              /\ \/ /\ GivesBack(w, c) /\ jobs'[j].status # "claimed"
                    /\ b.ran = a.ran /\ a.outcome = "open" /\ b.outcome = "released"
                 \/ Starts(w, c) /\ b.ran = TRUE /\ b.outcome = a.outcome
                 \/ Settles(w, c) /\ b.ran = a.ran /\ b.outcome \notin {"open", "released"}
                 \/ LetsGo(w, c) /\ b.ran = a.ran /\ a.outcome = "open" /\ b.outcome = "abandoned"

(* What releasing some of its claims does, when a worker owns only the newest. *)
LEMMA ReleaseChanges ==
    ASSUME LifeInv, NEW w \in Worker, NEW S \in SUBSET Claim, ReleaseLeases(w, S),
           \A c \in S : Opened(w, c) /\ (Owns(w, c) => c.gen = Len(history[c.job])),
           NEW j \in Job, NEW i \in 1 .. Len(history[j])
    PROVE  LET a == history[j][i]
               b == history'[j][i]
           IN  /\ b.ran = a.ran
               /\ \/ b.outcome = a.outcome
                  \/ /\ a.outcome = "open" /\ b.outcome = "released"
                     /\ jobs'[j].status # "claimed"
                     /\ \E c \in S : c.job = j /\ c.gen = i
<1> DEFINE h == history[j]
           g == history'[j]
           r == jobs[j]
           ats == AttemptsOf(S, j)
<1>0. /\ h \in Rows /\ r \in Row /\ history \in [Job -> Rows] /\ jobs \in [Job -> Row]
      /\ Agrees(r, h) /\ "released" \in Outcome
  BY DEF LifeInv, FenceInv, TypeAndBudget, TypeOK, Rows, HistoryAgrees, Agrees, Outcome
<1>1. CASE g = h
  BY <1>1
<1>2. CASE g # h
  <2>1. g = CloseOpen(h, w, ats, "released")
    BY <1>2 DEF ReleaseLeases
  <2>2. /\ g[i].ran = h[i].ran
        /\ g[i].outcome = IF h[i].worker = w /\ h[i].attempt \in ats /\ h[i].outcome = "open"
                          THEN "released" ELSE h[i].outcome
    BY <1>0, <2>1, CloseOpenRows
  <2>3. CASE h[i].worker = w /\ h[i].attempt \in ats /\ h[i].outcome = "open"
    <3>1. i = Len(h) /\ r.status = "claimed" /\ r.locked_by = w /\ r.attempts \in ats
      BY <1>0, <2>3 DEF Agrees
    <3>2. PICK c \in S : c.job = j /\ c.attempt = r.attempts
      BY <3>1 DEF AttemptsOf
    <3>3. Owns(w, c) /\ j \in OwnedJobs(w, S)
      BY <3>1, <3>2 DEF Owns, OwnedClaim, OwnedJobs
    <3>4. c.gen = i
      BY <3>1, <3>2, <3>3
    <3>5. jobs'[j] = Released(r)
      BY <3>3 DEF ReleaseLeases
    <3>6. jobs'[j].status # "claimed"
      BY <1>0, <3>5, RowStands
    <3> QED
      BY <2>2, <2>3, <3>2, <3>4, <3>6
  <2> QED
    BY <2>2, <2>3
<1> QED
  BY <1>1, <1>2

(* What writing an outcome does: it settles the attempt of the claim it is for. *)
LEMMA SettleChanges ==
    ASSUME LifeInv, NEW w \in Worker, NEW row, NEW o \in FinalOutcome, Settle(w, row, o),
           NEW j \in Job, NEW i \in 1 .. Len(history[j])
    PROVE  LET a == history[j][i]
               b == history'[j][i]
               c == turn[w]
           IN  /\ b.ran = a.ran
               /\ \/ b.outcome = a.outcome
                  \/ b.outcome \notin {"open", "released"} /\ c.job = j /\ c.gen = i
               /\ c.job = j /\ c.gen = i /\ ~ Owns(w, c) =>
                     b.outcome = LateOutcome(c.attempt, jobs[j].attempts)
<1> DEFINE c == turn[w]
           h == history[j]
           g == history'[j]
           r == jobs[j]
<1>0. /\ h \in Rows /\ r \in Row /\ history \in [Job -> Rows] /\ Ordered(r, h)
      /\ pc[w] = "finalizing" /\ c \in Claim /\ c \in RunnerClaims(w)
      /\ FinalOutcome \subseteq Outcome
  <2>1. pc[w] = "finalizing"
    BY DEF Settle
  <2>2. c \in Claim
    BY <2>1, TurnIsClaim DEF LifeInv, FenceInv, TypeAndBudget, BusyPC
  <2>3. NoClaim \notin Claim
    BY QueueAssumption DEF Claim
  <2> QED
    BY <2>1, <2>2, <2>3
    DEF LifeInv, FenceInv, TypeAndBudget, TypeOK, Rows, AttemptsGrow, RunnerClaims,
        FinalOutcome, Outcome
<1>1. CASE c.job # j
  <2>1. g = h
    BY <1>0, <1>1 DEF Settle
  <2> QED
    BY <1>1, <2>1
<1>2. CASE c.job = j
  <2>1. /\ c.gen \in 1 .. Len(h) /\ h[c.gen].worker = w /\ h[c.gen].attempt = c.attempt
        /\ h[c.gen].outcome \in LateAble
    BY <1>0, <1>2
    DEF LifeInv, FenceInv, RemembersNewest, Opened, AttemptOf, RunningRan, LateAble
  <2>2. g = FinishAttempt(h, w, c.attempt, o, OwnedClaim(r, w, c.attempt), r.attempts)
    BY <1>0, <1>2 DEF Settle, Owns
  <2>3. g = IF OwnedClaim(r, w, c.attempt)
            THEN SettledAs(h, w, c.attempt, OwnedAble, o)
            ELSE SettledAs(h, w, c.attempt, LateAble, LateOutcome(c.attempt, r.attempts))
    BY <1>0, <2>2, FinishAttemptCases
  <2>4. ASSUME NEW able \in {OwnedAble, LateAble}, Newest(i, Hits(h, w, c.attempt, able))
        PROVE  i = c.gen
    <3>1. h[i].attempt = c.attempt /\ h[i].outcome \in LateAble
      BY <2>4 DEF Newest, Hits, OwnedAble, LateAble
    <3>2. i \in 1 .. Len(h) /\ h[i].outcome # "released" /\ h[c.gen].outcome # "released"
      BY <2>1, <3>1 DEF LateAble
    <3> HIDE DEF h, c, r
    <3> QED
      BY <1>0, <2>1, <3>1, <3>2, NumbersDiffer
  <2>5. CASE OwnedClaim(r, w, c.attempt)
    <3>1. g = SettledAs(h, w, c.attempt, OwnedAble, o)
      BY <2>3, <2>5
    <3> DEFINE hits == Hits(h, w, c.attempt, OwnedAble)
    <3>2. /\ g[i].ran = h[i].ran
          /\ Newest(i, hits) => g[i].outcome = o
          /\ ~ Newest(i, hits) => g[i].outcome = h[i].outcome
      BY <1>0, <3>1, SettledAsRows
    <3>3. o \notin {"open", "released"} /\ Owns(w, c)
      BY <1>2, <2>5 DEF FinalOutcome, Owns
    <3> QED
      BY <1>2, <2>4, <3>2, <3>3
  <2>6. CASE ~ OwnedClaim(r, w, c.attempt)
    <3>1. g = SettledAs(h, w, c.attempt, LateAble, LateOutcome(c.attempt, r.attempts))
      BY <2>3, <2>6
    <3> DEFINE hits == Hits(h, w, c.attempt, LateAble)
               final == LateOutcome(c.attempt, r.attempts)
    <3>2. final \in Outcome /\ final \notin {"open", "released"}
      BY DEF LateOutcome, Outcome
    <3>3. /\ \A k \in 1 .. Len(h) :
               /\ g[k].ran = h[k].ran
               /\ Newest(k, hits) => g[k].outcome = final
               /\ ~ Newest(k, hits) => g[k].outcome = h[k].outcome
      BY <1>0, <3>1, <3>2, SettledAsRows
    <3>4. Newest(c.gen, hits)
      <4>1. c.gen \in hits
        BY <2>1 DEF Hits
      <4>2. ASSUME NEW k \in hits PROVE k = c.gen
        <5>1. k \in 1 .. Len(h) /\ h[k].attempt = c.attempt /\ h[k].outcome # "released"
              /\ h[c.gen].outcome # "released"
          BY <2>1, <4>2 DEF Hits, LateAble
        <5> HIDE DEF h, c, r
        <5> QED
          BY <1>0, <2>1, <5>1, NumbersDiffer
      <4>3. c.gen \in Nat
        BY <1>0 DEF Claim
      <4> QED
        BY <4>1, <4>2, <4>3 DEF Newest
    <3>5. Newest(i, hits) <=> i = c.gen
      BY <2>4, <3>4
    <3>6. i \in 1 .. Len(h)
      OBVIOUS
    <3> HIDE DEF hits, final, h, g, c
    <3>7. /\ g[i].ran = h[i].ran
          /\ g[i].outcome = h[i].outcome \/ (g[i].outcome = final /\ i = c.gen)
          /\ i = c.gen => g[i].outcome = final
      BY <3>3, <3>5, <3>6
    <3> QED
      BY <1>2, <3>2, <3>7 DEF h, g, final, c
  <2> QED
    BY <2>5, <2>6
<1> QED
  BY <1>1, <1>2

(* What recording an abandonment does: it closes the attempt of the claim. *)
LEMMA CloseChanges ==
    ASSUME LifeInv, NEW w \in Worker, CloseAbandoned(w),
           NEW j \in Job, NEW i \in 1 .. Len(history[j])
    PROVE  LET a == history[j][i]
               b == history'[j][i]
               c == beat[w].claim
           IN  /\ b.ran = a.ran
               /\ \/ b.outcome = a.outcome
                  \/ a.outcome = "open" /\ b.outcome = "abandoned" /\ c.job = j /\ c.gen = i
<1> DEFINE c == beat[w].claim
           h == history[j]
           g == history'[j]
           r == jobs[j]
<1>0. /\ h \in Rows /\ history \in [Job -> Rows] /\ Ordered(r, h)
      /\ c \in Claim /\ c \in BeatClaims(w) /\ Opened(w, c) /\ AttemptOf(c).ran
      /\ "abandoned" \in Outcome
  BY DEF LifeInv, FenceInv, TypeAndBudget, TypeOK, Rows, AttemptsGrow, BeatClaims, BeatOpened,
         CloseAbandoned, AbandonedRan, Outcome
<1>1. CASE g = h
  BY <1>1
<1>2. CASE g # h
  <2>1. c.job = j /\ g = CloseOpen(h, w, {c.attempt}, "abandoned")
    BY <1>0, <1>2 DEF CloseAbandoned
  <2>2. /\ g[i].ran = h[i].ran
        /\ g[i].outcome =
              IF h[i].worker = w /\ h[i].attempt \in {c.attempt} /\ h[i].outcome = "open"
              THEN "abandoned" ELSE h[i].outcome
    BY <1>0, <2>1, CloseOpenRows
  <2>3. CASE h[i].attempt = c.attempt /\ h[i].outcome = "open"
    <3>1. /\ c.gen \in 1 .. Len(h) /\ h[c.gen].attempt = c.attempt /\ h[c.gen].ran
          /\ i \in 1 .. Len(h)
      BY <1>0, <2>1 DEF Opened, AttemptOf
    <3>2. h[c.gen].outcome # "released"
      BY <1>0, <3>1 DEF LifeInv, ReleasedNeverRan, Rows
    <3> HIDE DEF h, c, r
    <3>3. i = c.gen
      BY <1>0, <2>3, <3>1, <3>2, NumbersDiffer
    <3> QED
      BY <2>1, <2>2, <2>3, <3>3 DEF h, c
  <2> QED
    BY <2>2, <2>3
<1> QED
  BY <1>1, <1>2

(* Every step changes an attempt only so. *)
LEMMA AttemptSteps ==
    ASSUME LifeInv, [Next]_vars, NEW j \in Job, NEW i \in 1 .. Len(history[j])
    PROVE  AttemptStep(j, i)
<1> DEFINE h == history[j]
           g == history'[j]
<1>0. /\ FenceInv /\ TypeOK /\ h \in Rows /\ history \in [Job -> Rows] /\ jobs[j] \in Row
      /\ i \in 1 .. Len(h)
  BY DEF LifeInv, FenceInv, TypeAndBudget, TypeOK, Rows
<1>1. ASSUME g[i] = h[i] PROVE AttemptStep(j, i)
  BY <1>1 DEF AttemptStep
<1>2. CASE UNCHANGED history
  BY <1>1, <1>2
<1>3. CASE ReapUpdate
  <2>1. CASE g = h
    BY <1>1, <2>1
  <2>2. CASE g = CloseExpired(h) /\ jobs'[j].status # "claimed"
    <3>1. /\ g[i].ran = h[i].ran
          /\ g[i].outcome = IF h[i].outcome = "open" THEN "lease_expired" ELSE h[i].outcome
      BY <1>0, <2>2, CloseExpiredRows
    <3> QED
      BY <2>2, <3>1 DEF AttemptStep
  <2> QED
    BY <1>3, <2>1, <2>2 DEF ReapUpdate
<1>4. ASSUME NEW w \in Worker, ClaimUpdate(w) PROVE AttemptStep(j, i)
  <2>1. CASE g = h
    BY <1>1, <2>1
  <2>2. CASE g = OpenAttempt(h, w, jobs'[j].attempts)
    <3>0. TypeAndBudget'
      BY <1>0, TypeAndBudgetStep DEF FenceInv
    <3>a. jobs'[j] \in Row
      BY <3>0 DEF TypeAndBudget, TypeOK
    <3> DEFINE a == jobs'[j].attempts
    <3>1. a \in Nat /\ g = OpenAttempt(h, w, a) /\ h \in Rows /\ i \in 1 .. Len(h)
      BY <1>0, <2>2, <3>a DEF Row
    <3> HIDE DEF a, g, h
    <3>b. /\ Len(g) = Len(h) + 1
          /\ \A k \in 1 .. Len(h) : g[k] = h[k]
          /\ g[Len(g)] = [worker |-> w, attempt |-> a, outcome |-> "open", ran |-> FALSE]
      BY <3>1, OpenAttemptRows
    <3>2. g[i] = h[i]
      BY <3>1, <3>b
    <3> USE DEF g, h
    <3> QED
      BY <1>1, <3>2
  <2> QED
    BY <1>4, <2>1, <2>2 DEF ClaimUpdate
<1>5. ASSUME NEW w \in Worker, ReleaseWaiting(w) \/ BeatRelease(w) PROVE AttemptStep(j, i)
  <2>1. CASE ReleaseWaiting(w)
    <3>1. ReleaseLeases(w, batch[w]) /\ batch[w] \in SUBSET Claim
      BY <1>0, <2>1 DEF ReleaseWaiting, TypeOK
    <3>2. \A c \in batch[w] : Opened(w, c) /\ (Owns(w, c) => c.gen = Len(history[c.job]))
      BY <1>0, RunnerIsFenced DEF FenceInv, RemembersNewest, RunnerFenced, RunnerClaims
    <3>3. /\ g[i].ran = h[i].ran
          /\ \/ g[i].outcome = h[i].outcome
             \/ /\ h[i].outcome = "open" /\ g[i].outcome = "released"
                /\ jobs'[j].status # "claimed"
                /\ \E c \in batch[w] : c.job = j /\ c.gen = i
      BY <3>1, <3>2, ReleaseChanges
    <3> QED
      BY <2>1, <3>1, <3>2, <3>3 DEF AttemptStep, GivesBack
  <2>2. CASE BeatRelease(w)
    <3>1. ReleaseLeases(w, beat[w].waiting) /\ beat[w].waiting \in SUBSET Claim
      BY <1>0, <2>2 DEF BeatRelease, TypeOK
    <3>2. \A c \in beat[w].waiting : Opened(w, c) /\ (Owns(w, c) => c.gen = Len(history[c.job]))
      BY <1>0, BeatIsFenced DEF LifeInv, BeatOpened, BeatFenced, BeatClaims
    <3>3. /\ g[i].ran = h[i].ran
          /\ \/ g[i].outcome = h[i].outcome
             \/ /\ h[i].outcome = "open" /\ g[i].outcome = "released"
                /\ jobs'[j].status # "claimed"
                /\ \E c \in beat[w].waiting : c.job = j /\ c.gen = i
      BY <3>1, <3>2, ReleaseChanges
    <3> QED
      BY <2>2, <3>1, <3>2, <3>3 DEF AttemptStep, GivesBack
  <2> QED
    BY <1>5, <2>1, <2>2
<1>6. ASSUME NEW w \in Worker, NEW c \in RunnerClaims(w), Begin(w, c),
             \/ BeginFirst(w) /\ c \in batch[w]
             \/ BeginNext(w) /\ c = turn[w]
      PROVE  AttemptStep(j, i)
  <2>1. c \in Claim /\ Opened(w, c) /\ turn'[w] = c
    BY <1>0, <1>6 DEF FenceInv, RemembersNewest, RunnerClaims, TypeOK, Begin
  <2>2. CASE c.job # j
    BY <1>0, <1>1, <1>6, <2>2 DEF Begin
  <2>3. CASE c.job = j
    <3>1. g = MarkRan(h, c.gen)
      BY <1>0, <1>6, <2>3 DEF Begin
    <3> DEFINE n == c.gen
    <3>a. g = MarkRan(h, n) /\ h \in Rows /\ i \in 1 .. Len(h)
      BY <1>0, <3>1
    <3> HIDE DEF g, h, n
    <3>b. SameNames(h, g) /\ \A k \in 1 .. Len(h) :
            /\ g[k].outcome = h[k].outcome
            /\ k = n => g[k].ran = TRUE
            /\ k # n => g[k].ran = h[k].ran
      BY <3>a, MarkRanRows, ZenonT(60)
    <3>c. /\ g[i].outcome = h[i].outcome
          /\ i = n => g[i].ran = TRUE
          /\ i # n => g[i].ran = h[i].ran
      BY <3>a, <3>b
    <3> USE DEF g, h, n
    <3>2. /\ g[i].outcome = h[i].outcome
          /\ i = c.gen => g[i].ran = TRUE
          /\ i # c.gen => g[i].ran = h[i].ran
      BY <3>c
    <3>3. Starts(w, c)
      BY <1>6, <2>1 DEF Starts
    <3> QED
      BY <2>1, <2>3, <3>2, <3>3 DEF AttemptStep
  <2> QED
    BY <2>2, <2>3
<1>7. ASSUME NEW w \in Worker, NEW row, NEW o \in FinalOutcome, Settle(w, row, o), WriteOutcome(w)
      PROVE  AttemptStep(j, i)
  <2> DEFINE c == turn[w]
  <2>1. /\ g[i].ran = h[i].ran
        /\ \/ g[i].outcome = h[i].outcome
           \/ g[i].outcome \notin {"open", "released"} /\ c.job = j /\ c.gen = i
    BY <1>7, SettleChanges
  <2>2. pc[w] = "finalizing" /\ pc'[w] \in {"written", "late"}
    BY <1>0, <1>7 DEF Settle, TypeOK
  <2>3. c \in Claim /\ Opened(w, c)
    <3>1. c \in Claim
      BY <1>0, <2>2, TurnIsClaim DEF FenceInv, BusyPC
    <3>2. NoClaim \notin Claim
      BY QueueAssumption DEF Claim
    <3> QED
      BY <1>0, <3>1, <3>2 DEF FenceInv, RemembersNewest, RunnerClaims
  <2>4. Settles(w, c)
    BY <1>7, <2>2 DEF Settles
  <2> HIDE DEF c
  <2> QED
    BY <2>1, <2>3, <2>4 DEF AttemptStep
<1>8. ASSUME NEW w \in Worker, CloseAbandoned(w) PROVE AttemptStep(j, i)
  <2> DEFINE c == beat[w].claim
  <2>1. /\ g[i].ran = h[i].ran
        /\ \/ g[i].outcome = h[i].outcome
           \/ h[i].outcome = "open" /\ g[i].outcome = "abandoned" /\ c.job = j /\ c.gen = i
    BY <1>8, CloseChanges
  <2>2. c \in Claim /\ Opened(w, c) /\ LetsGo(w, c)
    BY <1>0, <1>8 DEF LifeInv, BeatOpened, BeatClaims, CloseAbandoned, TypeOK, LetsGo
  <2> HIDE DEF c
  <2> QED
    BY <2>1, <2>2 DEF AttemptStep
<1>9. ASSUME NEW w \in Worker, RunnerStep(w) PROVE AttemptStep(j, i)
  <2>1. CASE WriteOutcome(w)
    <3>0. FinalOutcome = {"completed", "failed", "dead_letter", "deferred", "continued"}
      BY DEF FinalOutcome
    <3>1. CASE WriteCompleted(w)
      BY <1>7, <2>1, <3>0, <3>1 DEF WriteCompleted
    <3>2. CASE WriteFailed(w)
      BY <1>7, <2>1, <3>0, <3>2 DEF WriteFailed
    <3>3. CASE WriteDeferred(w)
      BY <1>7, <2>1, <3>0, <3>3 DEF WriteDeferred
    <3>4. CASE WriteContinued(w)
      BY <1>7, <2>1, <3>0, <3>4 DEF WriteContinued
    <3>5. CASE FailInstead(w)
      BY <1>2, <3>5 DEF FailInstead
    <3> QED
      BY <2>1, <3>1, <3>2, <3>3, <3>4, <3>5 DEF WriteOutcome
  <2>2. CASE BeginFirst(w)
    <3>1. PICK c \in batch[w] : Begin(w, c)
      BY <2>2 DEF BeginFirst
    <3>2. c \in RunnerClaims(w) /\ c \in batch[w]
      BY DEF RunnerClaims
    <3> QED
      BY <1>6, <2>2, <3>1, <3>2, Zenon
  <2>3. CASE BeginNext(w)
    <3>1. turn[w] \in Claim
      BY <1>0, <2>3, TurnIsClaim DEF BeginNext, BusyPC, FenceInv
    <3>2. turn[w] \in RunnerClaims(w)
      BY <3>1, QueueAssumption DEF RunnerClaims, Claim
    <3> QED
      BY <1>6, <2>3, <3>2 DEF BeginNext
  <2> QED
    BY <1>2, <1>4, <1>5, <1>9, <2>1, <2>2, <2>3
    DEF RunnerStep, RunnerProgress, ClaimSelect, ReadBack, ClaimFail, StillHeld,
        StillHeldFail, HandlerReturn, Finish, WriteFail, EndBatch, StopSeen, Drain,
        ReleaseWaitingFail, Crash
<1>10. ASSUME NEW w \in Worker, BeatStep(w) PROVE AttemptStep(j, i)
  BY <1>2, <1>5, <1>8, <1>10
  DEF BeatStep, Renew, RenewNothing, RenewFail, Abandon, BeatReleaseFail
<1> QED
  BY <1>2, <1>3, <1>9, <1>10
  DEF Next, vars, JobStep, Enqueue, BecomeDue, LeaseExpire, Replay, Prune, ReaperStep,
      ReapSelect, ReapFail

(* Only a release takes back the attempt of a claimed job. *)
LEMMA RefundIsRelease ==
    ASSUME TypeOK, AllTidy, [Next]_vars, NEW j \in Job, jobs[j].status = "claimed",
           jobs'[j].attempts # jobs[j].attempts
    PROVE  \E w \in Worker :
              \/ ReleaseWaiting(w) /\ j \in OwnedJobs(w, batch[w])
              \/ BeatRelease(w) /\ j \in OwnedJobs(w, beat[w].waiting)
<1> DEFINE Goal == \E w \in Worker :
              \/ ReleaseWaiting(w) /\ j \in OwnedJobs(w, batch[w])
              \/ BeatRelease(w) /\ j \in OwnedJobs(w, beat[w].waiting)
           r == jobs[j]
<1>0. jobs \in [Job -> Row] /\ r \in Row
  BY DEF TypeOK
<1>1. /\ r.status = "claimed" /\ jobs'[j].attempts # r.attempts
      /\ Renewed(r).attempts = r.attempts
      /\ \A s \in {Completed(r), Failed(r), Deferred(r), Continued(r), Reclaimed(r)} :
            s.attempts = r.attempts
  BY <1>0, RowStands DEF Renewed, Row
<1>2. ~ UNCHANGED jobs
  BY <1>1
<1>3. ASSUME NEW k \in Job, JobStep(k) PROVE FALSE
  BY <1>0, <1>1, <1>3 DEF JobStep, Enqueue, BecomeDue, LeaseExpire, Replay, Prune, Row
<1>4. ~ ReaperStep
  <2>1. ReapUpdate => jobs'[j] = r \/ jobs'[j] = Reclaimed(r)
    BY DEF ReapUpdate
  <2> QED
    BY <1>1, <1>2, <2>1 DEF ReaperStep, ReapSelect, ReapFail
<1>5. ASSUME NEW w \in Worker, NEW S, RenewLeases(w, S) PROVE FALSE
  BY <1>1, <1>5 DEF RenewLeases
<1>6. ASSUME NEW w \in Worker, ClaimUpdate(w) PROVE FALSE
  BY <1>1, <1>6 DEF ClaimUpdate, Claimable
<1>7. ASSUME NEW w \in Worker, WriteOutcome(w) PROVE FALSE
  <2> DEFINE c == turn[w]
  <2>1. CASE FailInstead(w)
    BY <1>2, <2>1 DEF FailInstead
  <2>2. ASSUME NEW row, NEW o, Settle(w, row, o), c.job = j => row.attempts = r.attempts
        PROVE  FALSE
    <3>1. c \in Claim
      BY <2>2, TurnIsClaim DEF Settle, BusyPC
    <3>2. jobs'[j] = r \/ (c.job = j /\ jobs'[j] = row)
      BY <1>0, <2>2, <3>1 DEF Settle, Claim
    <3> QED
      BY <1>1, <2>2, <3>2
  <2>3. CASE WriteCompleted(w)
    BY <1>1, <2>2, <2>3 DEF WriteCompleted
  <2>4. CASE WriteFailed(w)
    BY <1>1, <2>2, <2>4 DEF WriteFailed
  <2>5. CASE WriteDeferred(w)
    BY <1>1, <2>2, <2>5 DEF WriteDeferred
  <2>6. CASE WriteContinued(w)
    BY <1>1, <2>2, <2>6 DEF WriteContinued
  <2> QED
    BY <1>7, <2>1, <2>3, <2>4, <2>5, <2>6 DEF WriteOutcome
<1>8. ASSUME NEW w \in Worker, RunnerStep(w) PROVE Goal
  <2>1. CASE ReleaseWaiting(w)
    BY <1>1, <2>1 DEF ReleaseWaiting, ReleaseLeases
  <2> QED
    BY <1>2, <1>5, <1>6, <1>7, <1>8, <2>1
    DEF RunnerStep, RunnerProgress, ClaimSelect, ReadBack, ClaimFail, BeginFirst, StillHeld,
        StillHeldFail, BeginNext, HandlerReturn, Finish, WriteFail, EndBatch, StopSeen, Drain,
        ReleaseWaitingFail, Crash
<1>9. ASSUME NEW w \in Worker, BeatStep(w) PROVE Goal
  <2>1. CASE BeatRelease(w)
    BY <1>1, <2>1 DEF BeatRelease, ReleaseLeases
  <2> QED
    BY <1>2, <1>5, <1>9, <2>1
    DEF BeatStep, Renew, RenewNothing, RenewFail, Abandon, CloseAbandoned, BeatReleaseFail
<1> QED
  BY <1>2, <1>3, <1>4, <1>8, <1>9 DEF Next, vars

(* ... and what is released is still open in the history. *)
LEMMA RefundedIsOpen ==
    ASSUME LifeInv, [Next]_vars, NEW j \in Job, jobs[j].status = "claimed",
           jobs'[j].attempts # jobs[j].attempts
    PROVE  history[j][Len(history[j])].outcome = "open"
<1>0. FenceInv /\ TypeOK /\ AllTidy
  BY DEF LifeInv, FenceInv, TypeAndBudget
<1>1. PICK w \in Worker :
         \/ ReleaseWaiting(w) /\ j \in OwnedJobs(w, batch[w])
         \/ BeatRelease(w) /\ j \in OwnedJobs(w, beat[w].waiting)
  BY <1>0, RefundIsRelease
<1>2. PICK c \in Unstarted(w) \cup beat[w].waiting :
         c.job = j /\ Owns(w, c) /\ c \in RunnerClaims(w) \cup BeatClaims(w)
  <2>1. CASE ReleaseWaiting(w) /\ j \in OwnedJobs(w, batch[w])
    <3>1. PICK c \in batch[w] : c.job = j /\ Owns(w, c)
      BY <2>1 DEF OwnedJobs
    <3>2. c \in Unstarted(w) /\ c \in RunnerClaims(w)
      BY <2>1, <3>1 DEF Unstarted, ReleaseWaiting, AfterRelease, RunnerClaims
    <3> QED
      BY <3>1, <3>2
  <2>2. CASE BeatRelease(w) /\ j \in OwnedJobs(w, beat[w].waiting)
    BY <2>2 DEF OwnedJobs, BeatClaims
  <2> QED
    BY <1>1, <2>1, <2>2
<1>3. c.gen = Len(history[j])
  BY <1>0, <1>2, RunnerIsFenced, BeatIsFenced DEF RunnerFenced, BeatFenced
<1>4. history[j][Len(history[j])].outcome \in {"open", "lease_expired"}
  BY <1>2, <1>3 DEF LifeInv, WaitingNeverRan, AttemptOf
<1>5. history[j][Len(history[j])].outcome \in {"open", "abandoned"}
  BY <1>0 DEF FenceInv, HistoryAgrees
<1> QED
  BY <1>4, <1>5

-----------------------------------------------------------------------------
(* What the two threads of a worker remember, step by step.                  *)

KeepsItsClaims(v) ==
    /\ Unstarted(v)' \subseteq Unstarted(v)
    /\ beat'[v].waiting \subseteq beat[v].waiting
    /\ beat'[v].claim \in {NoClaim, beat[v].claim}
    /\ beat'[v].step = "close" => beat[v].step = "close" /\ beat'[v].claim = beat[v].claim
    /\ pc'[v] \in {"running", "finalizing"} =>
          pc[v] \in {"running", "finalizing"} /\ turn'[v] = turn[v]

(* A step of another worker touches none of it. *)
LEMMA OthersUntouched ==
    ASSUME TypeOK, NEW v \in Worker, NEW w \in Worker, v # w, RunnerStep(w) \/ BeatStep(w)
    PROVE  /\ pc'[v] = pc[v] /\ selected'[v] = selected[v] /\ batch'[v] = batch[v]
           /\ turn'[v] = turn[v] /\ held'[v] = held[v] /\ beat'[v] = beat[v]
<1>0. WorkersTyped
  BY DEF TypeOK, WorkersTyped
<1> USE DEF WorkersTyped, runner, keeper
<1>1. CASE BeatStep(w)
  BY <1>0, <1>1
  DEF BeatStep, Renew, RenewNothing, RenewFail, Abandon, CloseAbandoned, BeatRelease,
      BeatReleaseFail
<1>2. CASE ClaimSelect(w) \/ ClaimUpdate(w) \/ ReadBack(w) \/ ClaimFail(w)
  BY <1>0, <1>2 DEF ClaimSelect, ClaimUpdate, ReadBack, ClaimFail
<1>3. CASE BeginFirst(w) \/ BeginNext(w)
  BY <1>0, <1>3 DEF BeginFirst, BeginNext, Begin
<1>4. CASE StillHeld(w) \/ StillHeldFail(w)
  BY <1>0, <1>4 DEF StillHeld, StillHeldFail
<1>5. CASE WriteOutcome(w)
  BY <1>0, <1>5
  DEF WriteOutcome, WriteCompleted, WriteFailed, WriteDeferred, WriteContinued, FailInstead, Settle
<1>6. CASE Finish(w) \/ WriteFail(w) \/ EndBatch(w) \/ Drain(w)
  BY <1>0, <1>6 DEF Finish, WriteFail, ForgetTurn, EndBatch, Drain
<1>7. CASE ReleaseWaiting(w) \/ ReleaseWaitingFail(w)
  BY <1>0, <1>7 DEF ReleaseWaiting, ReleaseWaitingFail, AfterRelease
<1>8. CASE \E result \in HandlerResult : HandlerReturn(w, result)
  BY <1>0, <1>8 DEF HandlerReturn
<1>9. CASE StopSeen(w) \/ Crash(w)
  BY <1>0, <1>9 DEF StopSeen, Crash
<1> QED
  BY <1>1, <1>2, <1>3, <1>4, <1>5, <1>6, <1>7, <1>8, <1>9 DEF RunnerStep, RunnerProgress

(* A worker reads claims back, abandons one, begins one, or learns nothing. *)
LEMMA ThreadSteps ==
    ASSUME TypeOK, AllTidy, [Next]_vars, NEW v \in Worker
    PROVE  \/ KeepsItsClaims(v)
           \/ ReadBack(v) \/ Abandon(v) \/ Starts(v, turn'[v])
<1> DEFINE Goal == \/ KeepsItsClaims(v)
                   \/ ReadBack(v) \/ Abandon(v) \/ Starts(v, turn'[v])
<1>0. WorkersTyped /\ Tidy(v) /\ NoClaim \notin Claim
  BY QueueAssumption DEF TypeOK, WorkersTyped, AllTidy, Claim
<1> USE DEF Tidy, BusyPC, Unstarted, WorkersTyped, runner, keeper
<1>1. CASE /\ pc'[v] = pc[v] /\ batch'[v] = batch[v] /\ turn'[v] = turn[v]
           /\ held'[v] = held[v] /\ beat'[v] = beat[v]
  BY <1>1 DEF KeepsItsClaims
<1>2. ASSUME NEW j \in Job, JobStep(j) PROVE Goal
  BY <1>1, <1>2 DEF JobStep, Enqueue, BecomeDue, LeaseExpire, Replay, Prune
<1>3. CASE ReaperStep
  BY <1>1, <1>3 DEF ReaperStep, ReapSelect, ReapUpdate, ReapFail
<1>4. CASE RunnerStep(v)
  <2>a. ASSUME Unstarted(v)' \subseteq Unstarted(v), beat'[v] = beat[v],
               pc'[v] \notin {"running", "finalizing"}
        PROVE  KeepsItsClaims(v)
    BY <2>a DEF KeepsItsClaims
  <2>1. CASE ClaimSelect(v)
    BY <1>0, <2>1, <2>a DEF ClaimSelect
  <2>2. CASE ClaimUpdate(v)
    BY <1>0, <2>2, <2>a DEF ClaimUpdate
  <2>4. CASE ClaimFail(v)
    BY <1>0, <2>4, <2>a DEF ClaimFail
  <2>5. CASE BeginFirst(v)
    <3>1. PICK c \in batch[v] : Begin(v, c)
      BY <2>5 DEF BeginFirst
    <3>2. turn'[v] = c
      BY <1>0, <3>1 DEF Begin
    <3> QED
      BY <2>5, <3>1, <3>2 DEF Starts
  <2>6. CASE StillHeld(v)
    <3>1. PICK c \in batch[v] :
             /\ batch' = [batch EXCEPT ![v] = @ \ {c}]
             /\ held' = [held EXCEPT ![v] = {d \in @ : Owns(v, d)}]
             /\ IF c \in held'[v]
                THEN turn' = [turn EXCEPT ![v] = c] /\ pc' = [pc EXCEPT ![v] = "ready"]
                ELSE UNCHANGED <<turn, pc>>
      BY <2>6 DEF StillHeld
    <3>2. pc[v] = "batch" /\ beat' = beat /\ turn[v] = NoClaim /\ c \in Claim
      BY <1>0, <2>6 DEF StillHeld
    <3> QED
      BY <1>0, <3>1, <3>2, <2>a
  <2>7. CASE StillHeldFail(v)
    BY <1>0, <2>7, <2>a DEF StillHeldFail
  <2>8. CASE BeginNext(v)
    BY <1>0, <2>8 DEF BeginNext, Begin, Starts
  <2>9. CASE WriteOutcome(v)
    <3>1. CASE FailInstead(v)
      BY <1>1, <3>1 DEF FailInstead
    <3>2. ASSUME NEW row, NEW o, Settle(v, row, o) PROVE Goal
      BY <1>0, <2>a, <3>2 DEF Settle
    <3> QED
      BY <2>9, <3>1, <3>2
      DEF WriteOutcome, WriteCompleted, WriteFailed, WriteDeferred, WriteContinued
  <2>10. CASE Finish(v)
    BY <1>0, <2>10, <2>a DEF Finish, ForgetTurn, WithoutTurn
  <2>11. CASE WriteFail(v)
    BY <1>0, <2>11, <2>a DEF WriteFail, ForgetTurn, WithoutTurn
  <2>12. CASE EndBatch(v)
    BY <1>0, <2>12, <2>a DEF EndBatch
  <2>13. CASE Drain(v)
    BY <1>0, <2>13, <2>a DEF Drain, Waiting
  <2>14. CASE ReleaseWaiting(v) \/ ReleaseWaitingFail(v)
    BY <1>0, <2>14, <2>a DEF ReleaseWaiting, ReleaseWaitingFail, AfterRelease
  <2>15. CASE \E result \in HandlerResult : HandlerReturn(v, result)
    BY <1>0, <2>15 DEF HandlerReturn, KeepsItsClaims
  <2>16. CASE StopSeen(v)
    BY <1>0, <2>16, <2>a DEF StopSeen
  <2>17. CASE Crash(v)
    <3>1. Unstarted(v)' = {} /\ beat'[v] = Resting /\ pc'[v] = "crashed"
      BY <1>0, <2>17 DEF Crash
    <3> QED
      BY <3>1 DEF KeepsItsClaims, Resting
  <2> QED
    BY <1>4, <2>1, <2>2, <2>4, <2>5, <2>6, <2>7, <2>8, <2>9, <2>10, <2>11, <2>12,
       <2>13, <2>14, <2>15, <2>16, <2>17 DEF RunnerStep, RunnerProgress
<1>5. CASE BeatStep(v)
  <2>a. ASSUME Unstarted(v)' \subseteq Unstarted(v), pc'[v] = pc[v], turn'[v] = turn[v],
               beat'[v].step # "close", beat'[v].waiting \subseteq beat[v].waiting,
               beat'[v].claim \in {NoClaim, beat[v].claim}
        PROVE  KeepsItsClaims(v)
    BY <2>a DEF KeepsItsClaims
  <2>1. CASE Renew(v) \/ RenewNothing(v) \/ RenewFail(v)
    <3>1. beat'[v] = Resting /\ pc'[v] = pc[v] /\ turn'[v] = turn[v] /\ batch'[v] = batch[v]
      BY <1>0, <2>1 DEF Renew, RenewNothing, RenewFail
    <3>2. held'[v] \subseteq held[v]
      BY <1>0, <2>1 DEF Renew, RenewNothing, RenewFail
    <3>3. Unstarted(v)' \subseteq Unstarted(v)
      BY <3>1, <3>2
    <3> QED
      BY <2>a, <3>1, <3>3 DEF Resting
  <2>2. CASE CloseAbandoned(v)
    BY <1>0, <2>2, <2>a DEF CloseAbandoned
  <2>3. CASE BeatRelease(v) \/ BeatReleaseFail(v)
    <3>1. beat'[v] = [beat[v] EXCEPT !.step = "renew", !.waiting = {}]
      BY <1>0, <2>3 DEF BeatRelease, BeatReleaseFail
    <3>2. UNCHANGED <<pc, batch, turn, held>>
      BY <2>3 DEF BeatRelease, BeatReleaseFail
    <3> QED
      BY <1>0, <2>a, <3>1, <3>2
  <2> QED
    BY <1>5, <2>1, <2>2, <2>3 DEF BeatStep
<1>6. ASSUME NEW w \in Worker, RunnerStep(w) \/ BeatStep(w) PROVE Goal
  <2>1. CASE w # v
    BY <1>1, <1>6, <2>1, OthersUntouched
  <2> QED
    BY <1>4, <1>5, <1>6, <2>1
<1> QED
  BY <1>1, <1>2, <1>3, <1>6 DEF Next, vars

(* What a worker reads back it has claimed and not begun, and it is all that it remembers. *)
LEMMA ReadBackBrings ==
    ASSUME TypeOK, AllTidy, NEW v \in Worker, ReadBack(v)
    PROVE  /\ UNCHANGED <<jobs, history, beat>>
           /\ pc[v] = "claimed" /\ pc'[v] \in {"idle", "first"}
           /\ \A c \in Unstarted(v)' :
                 /\ c.job \in selected[v] /\ jobs[c.job].status = "claimed"
                 /\ jobs[c.job].locked_by = v /\ c.gen = Len(history[c.job])
<1>0. WorkersTyped /\ Tidy(v)
  BY DEF TypeOK, WorkersTyped, AllTidy
<1> DEFINE mine == {j \in selected[v] : jobs[j].status = "claimed" /\ jobs[j].locked_by = v}
           claims == {[job |-> j, attempt |-> jobs[j].attempts, gen |-> Len(history[j])] : j \in mine}
<1>1. /\ held'[v] = claims /\ batch'[v] = claims /\ pc'[v] \in {"idle", "first"}
      /\ pc[v] = "claimed" /\ turn' = turn
      /\ UNCHANGED <<jobs, history, beat>>
  BY <1>0 DEF ReadBack, WorkersTyped
<1>2. Unstarted(v)' \subseteq claims
  BY <1>1 DEF Unstarted
<1> QED
  BY <1>1, <1>2

(* Abandoning hands everything the runner has not begun to the heartbeat. *)
LEMMA AbandonTakes ==
    ASSUME TypeOK, AllTidy, NEW v \in Worker, Abandon(v)
    PROVE  /\ UNCHANGED <<jobs, history, pc, turn>>
           /\ pc[v] = "running" /\ turn[v] \in Claim
           /\ Unstarted(v)' = {}
           /\ beat'[v].waiting \subseteq Unstarted(v)
           /\ beat'[v].claim \in {NoClaim, turn[v]}
           /\ beat'[v].step = "close" => beat'[v].claim = turn[v]
<1>0. WorkersTyped /\ pc[v] = "running" /\ turn[v] \in Claim
  BY TurnIsClaim DEF TypeOK, WorkersTyped, Abandon, Executing, BusyPC
<1>1. UNCHANGED <<jobs, history, pc, turn, batch>> /\ held'[v] = {}
  BY <1>0 DEF Abandon, runner, WorkersTyped
<1>2. beat'[v] = [step |-> IF turn[v] \in held[v] THEN "close" ELSE "release",
                  claim |-> IF turn[v] \in held[v] THEN turn[v] ELSE NoClaim,
                  waiting |-> Waiting(v)]
  BY <1>0 DEF Abandon, WorkersTyped
<1>3. /\ beat'[v].waiting = Waiting(v)
      /\ beat'[v].claim \in {NoClaim, turn[v]}
      /\ beat'[v].step = "close" => beat'[v].claim = turn[v]
  BY <1>2
<1>4. Unstarted(v)' = {} /\ Waiting(v) \subseteq Unstarted(v)
  BY <1>0, <1>1 DEF Unstarted, Waiting
<1> QED
  BY <1>0, <1>1, <1>3, <1>4

(* A worker begins a claim it has not begun, and marks its attempt. *)
LEMMA StartMarks ==
    ASSUME LifeInv, NEW v \in Worker, NEW c, Starts(v, c)
    PROVE  /\ c \in Claim /\ c \in Unstarted(v) /\ c \notin Unstarted(v)'
           /\ Unstarted(v)' \subseteq Unstarted(v)
           /\ pc[v] \in {"first", "ready"} /\ pc'[v] = "running"
           /\ UNCHANGED <<jobs, beat>>
           /\ history'[c.job][c.gen].ran = TRUE
           /\ history'[c.job][c.gen].outcome = history[c.job][c.gen].outcome
<1>0. /\ WorkersTyped /\ Tidy(v) /\ TypeOK /\ AllTidy /\ history \in [Job -> Rows]
      /\ NoClaim \notin Claim /\ RemembersNewest
  BY QueueAssumption
  DEF LifeInv, FenceInv, TypeAndBudget, TypeOK, WorkersTyped, AllTidy, Claim, Rows
<1>1. Begin(v, c)
  <2>1. CASE BeginNext(v) /\ c = turn[v]
    BY <2>1 DEF BeginNext
  <2>2. ASSUME BeginFirst(v), NEW d \in batch[v], Begin(v, d) PROVE Begin(v, c)
    BY <1>0, <2>2 DEF Begin, Starts, WorkersTyped
  <2> QED
    BY <2>1, <2>2 DEF Starts, BeginFirst
<1>2. /\ c \in Claim /\ c \in RunnerClaims(v) /\ c \in Unstarted(v)
      /\ pc[v] \in {"first", "ready"}
  <2>1. CASE BeginFirst(v) /\ c \in batch[v]
    BY <1>0, <2>1 DEF BeginFirst, WorkersTyped, RunnerClaims, Unstarted
  <2>2. CASE BeginNext(v) /\ c = turn[v]
    <3>1. c \in Claim /\ pc[v] = "ready"
      BY <1>0, <2>2, TurnIsClaim DEF BeginNext, BusyPC
    <3> QED
      BY <1>0, <2>2, <3>1 DEF RunnerClaims, Unstarted
  <2> QED
    BY <2>1, <2>2 DEF Starts
<1>3. /\ turn'[v] = c /\ held' = held /\ pc'[v] = "running"
      /\ UNCHANGED <<jobs, beat>>
  BY <1>0, <1>1 DEF Starts, BeginFirst, BeginNext, Begin, WorkersTyped
<1>4. Unstarted(v)' = held[v] \ {c}
  BY <1>3 DEF Unstarted
<1>5. c \notin Unstarted(v)' /\ Unstarted(v)' \subseteq Unstarted(v)
  <2>1. CASE pc[v] = "first"
    <3>1. turn[v] = NoClaim
      BY <1>0, <2>1 DEF Tidy, BusyPC
    <3> QED
      BY <1>0, <1>4, <3>1 DEF Unstarted, WorkersTyped
  <2>2. CASE pc[v] = "ready"
    <3>1. turn[v] = c
      BY <2>2 DEF Starts, BeginFirst
    <3> QED
      BY <1>4, <3>1 DEF Unstarted
  <2> QED
    BY <1>2, <2>1, <2>2
<1> DEFINE h == history[c.job]
           g == history'[c.job]
           n == c.gen
<1>6. g = MarkRan(h, n) /\ h \in Rows /\ n \in 1 .. Len(h)
  BY <1>0, <1>1, <1>2 DEF Begin, RemembersNewest, Opened, Claim
<1> HIDE DEF g, h, n
<1>7. SameNames(h, g) /\ \A k \in 1 .. Len(h) :
        /\ g[k].outcome = h[k].outcome
        /\ k = n => g[k].ran = TRUE
        /\ k # n => g[k].ran = h[k].ran
  BY <1>6, MarkRanRows, ZenonT(60)
<1>8. g[n].outcome = h[n].outcome /\ g[n].ran = TRUE
  BY <1>6, <1>7
<1> USE DEF g, h, n
<1> QED
  BY <1>2, <1>3, <1>5, <1>8

(* What is held stays what is to be done. *)
LEMMA HoldsForWork ==
    ASSUME TypeOK, AllTidy, RenewalsAreForWork, [Next]_vars, NEW v \in Worker, pc'[v] # "drain"
    PROVE  held'[v] \subseteq batch'[v] \cup {turn'[v]}
<1> DEFINE Goal == held'[v] \subseteq batch'[v] \cup {turn'[v]}
<1>0. /\ WorkersTyped /\ Tidy(v) /\ NoClaim \notin Claim
      /\ pc[v] # "drain" => held[v] \subseteq batch[v] \cup {turn[v]}
  BY QueueAssumption DEF TypeOK, WorkersTyped, AllTidy, Claim, RenewalsAreForWork
<1> USE DEF Tidy, BusyPC, WorkersTyped, runner, keeper
<1>1. CASE pc'[v] = pc[v] /\ batch'[v] = batch[v] /\ turn'[v] = turn[v] /\ held'[v] = held[v]
  BY <1>0, <1>1
<1>2. ASSUME NEW j \in Job, JobStep(j) PROVE Goal
  BY <1>1, <1>2 DEF JobStep, Enqueue, BecomeDue, LeaseExpire, Replay, Prune
<1>3. CASE ReaperStep
  BY <1>1, <1>3 DEF ReaperStep, ReapSelect, ReapUpdate, ReapFail
<1>4. CASE RunnerStep(v)
  <2>1. CASE ClaimSelect(v) \/ ClaimUpdate(v) \/ ReadBack(v) \/ ClaimFail(v)
    BY <1>0, <2>1 DEF ClaimSelect, ClaimUpdate, ReadBack, ClaimFail
  <2>2. CASE BeginFirst(v)
    BY <1>0, <2>2 DEF BeginFirst, Begin
  <2>3. CASE BeginNext(v)
    BY <1>0, <2>3 DEF BeginNext, Begin
  <2>4. CASE StillHeld(v)
    <3>1. PICK c \in batch[v] :
             /\ batch' = [batch EXCEPT ![v] = @ \ {c}]
             /\ held' = [held EXCEPT ![v] = {d \in @ : Owns(v, d)}]
             /\ IF c \in held'[v]
                THEN turn' = [turn EXCEPT ![v] = c] /\ pc' = [pc EXCEPT ![v] = "ready"]
                ELSE UNCHANGED <<turn, pc>>
      BY <2>4 DEF StillHeld
    <3>2. pc[v] = "batch" /\ turn[v] = NoClaim
      BY <1>0, <2>4 DEF StillHeld
    <3> QED
      BY <1>0, <3>1, <3>2
  <2>5. CASE StillHeldFail(v)
    BY <1>0, <2>5 DEF StillHeldFail
  <2>6. CASE WriteOutcome(v)
    BY <1>0, <2>6
    DEF WriteOutcome, WriteCompleted, WriteFailed, WriteDeferred, WriteContinued,
        FailInstead, Settle
  <2>7. CASE Finish(v) \/ WriteFail(v)
    BY <1>0, <2>7 DEF Finish, WriteFail, ForgetTurn, WithoutTurn
  <2>8. CASE EndBatch(v) \/ Drain(v)
    BY <1>0, <2>8 DEF EndBatch, Drain
  <2>9. CASE ReleaseWaiting(v) \/ ReleaseWaitingFail(v)
    BY <1>0, <2>9 DEF ReleaseWaiting, ReleaseWaitingFail, AfterRelease
  <2>10. CASE \E result \in HandlerResult : HandlerReturn(v, result)
    BY <1>0, <2>10 DEF HandlerReturn
  <2>11. CASE StopSeen(v) \/ Crash(v)
    BY <1>0, <2>11 DEF StopSeen, Crash
  <2> QED
    BY <1>4, <2>1, <2>2, <2>3, <2>4, <2>5, <2>6, <2>7, <2>8, <2>9, <2>10, <2>11
    DEF RunnerStep, RunnerProgress
<1>5. CASE BeatStep(v)
  <2>1. /\ pc'[v] = pc[v] /\ batch'[v] = batch[v] /\ turn'[v] = turn[v]
        /\ held'[v] \subseteq held[v]
    BY <1>0, <1>5
    DEF BeatStep, Renew, RenewNothing, RenewFail, Abandon, CloseAbandoned, BeatRelease,
        BeatReleaseFail
  <2> QED
    BY <1>0, <2>1
<1>6. ASSUME NEW w \in Worker, RunnerStep(w) \/ BeatStep(w) PROVE Goal
  <2>1. CASE w # v
    BY <1>1, <1>6, <2>1, OthersUntouched
  <2> QED
    BY <1>4, <1>5, <1>6, <2>1
<1> QED
  BY <1>1, <1>2, <1>3, <1>6 DEF Next, vars

(* A worker has claimed and not read back only from its own claim on. *)
LEMMA ClaimedByUpdate ==
    ASSUME TypeOK, [Next]_vars, NEW v \in Worker, pc'[v] = "claimed"
    PROVE  ClaimUpdate(v) \/ (pc[v] = "claimed" /\ selected'[v] = selected[v])
<1> DEFINE Goal == ClaimUpdate(v) \/ (pc[v] = "claimed" /\ selected'[v] = selected[v])
<1>0. WorkersTyped
  BY DEF TypeOK, WorkersTyped
<1> USE DEF WorkersTyped
<1>1. CASE UNCHANGED <<pc, selected>>
  BY <1>0, <1>1
<1>2. CASE RunnerStep(v)
  <2>2. CASE ClaimSelect(v) \/ ReadBack(v) \/ ClaimFail(v) \/ Crash(v)
    BY <1>0, <2>2 DEF ClaimSelect, ReadBack, ClaimFail, Crash
  <2>3. CASE BeginFirst(v) \/ BeginNext(v) \/ StillHeld(v) \/ StillHeldFail(v)
    BY <1>0, <2>3 DEF BeginFirst, BeginNext, Begin, StillHeld, StillHeldFail
  <2>4. CASE WriteOutcome(v)
    BY <1>0, <2>4
    DEF WriteOutcome, WriteCompleted, WriteFailed, WriteDeferred, WriteContinued,
        FailInstead, Settle
  <2>5. CASE Finish(v) \/ WriteFail(v) \/ EndBatch(v) \/ StopSeen(v) \/ Drain(v)
    BY <1>0, <2>5 DEF Finish, WriteFail, ForgetTurn, EndBatch, StopSeen, Drain
  <2>6. CASE ReleaseWaiting(v) \/ ReleaseWaitingFail(v)
    BY <1>0, <2>6 DEF ReleaseWaiting, ReleaseWaitingFail, AfterRelease
  <2>7. CASE \E result \in HandlerResult : HandlerReturn(v, result)
    BY <1>0, <2>7 DEF HandlerReturn
  <2> QED
    BY <1>2, <2>2, <2>3, <2>4, <2>5, <2>6, <2>7 DEF RunnerStep, RunnerProgress
<1>3. ASSUME NEW w \in Worker, RunnerStep(w) PROVE Goal
  <2>1. CASE w # v
    BY <1>3, <2>1, OthersUntouched
  <2> QED
    BY <1>2, <1>3, <2>1
<1> QED
  BY <1>1, <1>3
  DEF Next, vars, runner, JobStep, Enqueue, BecomeDue, LeaseExpire, Replay, Prune,
      ReaperStep, ReapSelect, ReapUpdate, ReapFail, BeatStep, Renew, RenewNothing,
      RenewFail, Abandon, CloseAbandoned, BeatRelease, BeatReleaseFail

(* What a worker holds after a step it held before, or it has just claimed it, *)
(* and then the job has a new attempt, open and not begun.                     *)
LEMMA HeldOrClaimed ==
    ASSUME FenceInv, [Next]_vars, NEW j \in Job
    PROVE  /\ \/ Len(history'[j]) = Len(history[j])
              \/ /\ Len(history'[j]) = Len(history[j]) + 1
                 /\ history'[j][Len(history'[j])].outcome = "open"
                 /\ history'[j][Len(history'[j])].ran = FALSE
           /\ \A v \in Worker : jobs'[j].status = "claimed" /\ jobs'[j].locked_by = v =>
                 \/ /\ jobs[j].status = "claimed" /\ jobs[j].locked_by = v
                    /\ Len(history'[j]) = Len(history[j])
                 \/ ClaimUpdate(v) /\ Len(history'[j]) = Len(history[j]) + 1
<1> DEFINE r == jobs[j]
           h == history[j]
           s == jobs'[j]
           g == history'[j]
<1>0. r \in Row /\ h \in Rows /\ Len(h) \in Nat
  BY DEF FenceInv, TypeAndBudget, TypeOK, Rows
<1>1. HistoryWrite(r, h, s, g) \/ \E w \in Worker : ClaimUpdate(w) /\ ClaimWrite(w, r, h, s, g)
  BY StepsAreHistorySteps DEF FenceInv, TypeAndBudget
<1> HIDE DEF r, h, s, g
<1>2. CASE HistoryWrite(r, h, s, g)
  <2>1. Len(g) = Len(h) /\ (s.status = "claimed" => r.status = "claimed" /\ s.locked_by = r.locked_by)
    BY <1>0, <1>2, HistoryWriteEffects DEF SameNames
  <2> QED
    BY <2>1 DEF r, h, s, g
<1>3. ASSUME NEW w \in Worker, ClaimUpdate(w), ClaimWrite(w, r, h, s, g)
      PROVE  /\ s.locked_by = w
             /\ Len(g) = Len(h) + 1
             /\ g[Len(g)].outcome = "open" /\ g[Len(g)].ran = FALSE
  <2>1. s.locked_by = w /\ s.attempts \in Nat /\ g = OpenAttempt(h, w, s.attempts)
    BY <1>0, <1>3, RowStands DEF ClaimWrite, Row
  <2>2. /\ Len(g) = Len(h) + 1
        /\ \A i \in 1 .. Len(h) : g[i] = h[i]
        /\ g[Len(g)] = [worker |-> w, attempt |-> s.attempts, outcome |-> "open", ran |-> FALSE]
    BY <1>0, <2>1, OpenAttemptRows
  <2> QED
    BY <2>1, <2>2
<1>4. CASE \E w \in Worker : ClaimUpdate(w) /\ ClaimWrite(w, r, h, s, g)
  BY <1>3, <1>4 DEF r, h, s, g
<1> QED
  BY <1>1, <1>2, <1>4

(* What a worker has not begun, or its heartbeat thread took along, it claimed. *)
LEMMA UnstartedOpened ==
    ASSUME LifeInv, NEW v \in Worker
    PROVE  /\ Unstarted(v) \subseteq RunnerClaims(v)
           /\ \A c \in RunnerClaims(v) \cup BeatClaims(v) :
                 /\ c \in Claim /\ c.job \in Job
                 /\ Opened(v, c) /\ c.gen \in 1 .. Len(history[c.job])
<1>0. WorkersTyped /\ Tidy(v)
  BY DEF LifeInv, FenceInv, TypeAndBudget, TypeOK, WorkersTyped, AllTidy
<1>1. Unstarted(v) \subseteq RunnerClaims(v)
  BY <1>0 DEF Unstarted, RunnerClaims, Tidy, BusyPC, WorkersTyped
<1>2. \A c \in RunnerClaims(v) \cup BeatClaims(v) : c \in Claim /\ Opened(v, c)
  BY <1>0 DEF RunnerClaims, BeatClaims, WorkersTyped, LifeInv, FenceInv, RemembersNewest, BeatOpened
<1>3. \A c \in Claim : c.job \in Job
  BY DEF Claim
<1>4. \A c : Opened(v, c) => c.gen \in 1 .. Len(history[c.job])
  BY DEF Opened
<1> QED
  BY <1>1, <1>2, <1>3, <1>4

(* A handler that began has begun for good. *)
LEMMA RanForGood ==
    ASSUME LifeInv, [Next]_vars, NEW j \in Job, NEW i \in 1 .. Len(history[j]), history[j][i].ran
    PROVE  history'[j][i].ran
BY AttemptSteps, ZenonT(60) DEF AttemptStep

(* What happens to the attempt of a claim that is still to be begun: its lease *)
(* runs out, or the thread that holds it begins it or gives it back.           *)
LEMMA WaitingAttemptSteps ==
    ASSUME LifeInv, [Next]_vars, NEW v \in Worker, NEW c \in Unstarted(v) \cup beat[v].waiting
    PROVE  \/ ~ AttemptOf(c)'.ran /\ AttemptOf(c)'.outcome \in {"open", "lease_expired"}
           \/ GivesBack(v, c)
           \/ Starts(v, c)
<1> DEFINE j == c.job
           i == c.gen
           a == history[j][i]
           b == history'[j][i]
<1>0. c \in Claim /\ j \in Job /\ Opened(v, c) /\ i \in 1 .. Len(history[j])
  BY UnstartedOpened DEF BeatClaims
<1>1. ~ a.ran /\ a.outcome \in {"open", "lease_expired"}
  BY DEF LifeInv, WaitingNeverRan, AttemptOf
<1>2. AttemptStep(j, i)
  BY <1>0, AttemptSteps
<1>3. ASSUME NEW w \in Worker, NEW d \in Claim, d.job = j, d.gen = i, Opened(w, d)
      PROVE  w = v /\ d = c
  BY <1>0, <1>3, OneClaimPerAttempt
<1>4. ~ Settles(v, c)
  <2>1. ASSUME Settles(v, c) PROVE a.ran
    BY <2>1 DEF Settles, LifeInv, RunningRan, AttemptOf
  <2> QED
    BY <1>1, <2>1
<1>5. ~ LetsGo(v, c)
  <2>1. ASSUME LetsGo(v, c) PROVE a.ran
    BY <2>1 DEF LetsGo, CloseAbandoned, LifeInv, AbandonedRan, BeatOpened, AttemptOf
  <2> QED
    BY <1>1, <2>1
<1>6. CASE b.ran = a.ran /\ b.outcome = a.outcome
  BY <1>1, <1>6 DEF AttemptOf
<1>7. CASE b.ran = a.ran /\ b.outcome = "lease_expired"
  BY <1>1, <1>7 DEF AttemptOf
<1>8. CASE \E w \in Worker, d \in Claim :
              /\ d.job = j /\ d.gen = i /\ Opened(w, d)
              /\ GivesBack(w, d) \/ Starts(w, d) \/ Settles(w, d) \/ LetsGo(w, d)
  BY <1>3, <1>4, <1>5, <1>8
<1> QED
  BY <1>2, <1>6, <1>7, <1>8 DEF AttemptStep

-----------------------------------------------------------------------------
(* Every step preserves LifeInv, conjunct by conjunct.                       *)

(* The attempt numbers stay in order. *)
LEMMA GrowStep ==
    ASSUME LifeInv, Replayable = {}, [Next]_vars
    PROVE  AttemptsGrow'
<1> SUFFICES ASSUME NEW j \in Job PROVE Ordered(jobs'[j], history'[j])
  BY DEF AttemptsGrow
<1> DEFINE r == jobs[j]
           h == history[j]
           s == jobs'[j]
           g == history'[j]
<1>0. r \in Row /\ h \in Rows /\ RowBudget(r) /\ Agrees(r, h) /\ Ordered(r, h)
  BY DEF LifeInv, FenceInv, TypeAndBudget, TypeOK, BudgetOK, Rows, HistoryAgrees, Agrees, AttemptsGrow
<1>1. HistoryStep(r, h, s, g)
  BY StepsAreHistorySteps DEF LifeInv, FenceInv, TypeAndBudget, HistoryStep
<1>2. r.status = "claimed" /\ s.attempts # r.attempts => h[Len(h)].outcome = "open"
  BY RefundedIsOpen
<1> HIDE DEF r, h, s, g
<1>3. Ordered(s, g)
  BY <1>0, <1>1, <1>2, HistoryStepKeepsOrdered
<1> QED
  BY <1>3 DEF s, g

(* What waits to be begun has not been begun behind its holder's back. *)
LEMMA WaitingStep ==
    ASSUME LifeInv, [Next]_vars
    PROVE  WaitingNeverRan'
<1> SUFFICES ASSUME NEW v \in Worker, NEW c \in Unstarted(v)' \cup beat'[v].waiting
             PROVE  ~ AttemptOf(c)'.ran /\ AttemptOf(c)'.outcome \in {"open", "lease_expired"}
  BY DEF WaitingNeverRan, AttemptOf
<1>0. TypeOK /\ AllTidy /\ TakenFromRunner /\ WorkersTyped
  BY DEF LifeInv, FenceInv, TypeAndBudget, TypeOK, WorkersTyped
<1>1. CASE ReadBack(v)
  <2>1. /\ history' = history /\ beat' = beat
        /\ c \in Unstarted(v)' => /\ c.job \in selected[v] /\ jobs[c.job].status = "claimed"
                                  /\ jobs[c.job].locked_by = v /\ c.gen = Len(history[c.job])
        /\ pc[v] = "claimed"
    BY <1>0, <1>1, ReadBackBrings
  <2>2. AttemptOf(c)' = AttemptOf(c)
    BY <2>1 DEF AttemptOf
  <2>3. CASE c \in Unstarted(v)'
    <3>1. ~ AttemptOf(c).ran /\ AttemptOf(c).outcome = "open"
      BY <2>1, <2>3 DEF AttemptOf, LifeInv, FreshlyClaimed
    <3> QED
      BY <2>2, <3>1
  <2>4. CASE c \in beat[v].waiting
    BY <2>2, <2>4 DEF LifeInv, WaitingNeverRan
  <2> QED
    BY <2>1, <2>3, <2>4
<1>2. CASE ~ ReadBack(v)
  <2>1. /\ Unstarted(v)' \subseteq Unstarted(v)
        /\ c \in Unstarted(v) \cup beat[v].waiting
    <3>1. CASE KeepsItsClaims(v)
      BY <3>1 DEF KeepsItsClaims
    <3>2. CASE Abandon(v)
      BY <1>0, <3>2, AbandonTakes
    <3>3. CASE Starts(v, turn'[v])
      BY <3>3, StartMarks
    <3> QED
      BY <1>0, <1>2, <3>1, <3>2, <3>3, ThreadSteps
  <2>2. ~ GivesBack(v, c)
    <3>1. CASE ReleaseWaiting(v) /\ c \in batch[v]
      <4>1. c \in Unstarted(v) /\ beat' = beat
        BY <3>1 DEF Unstarted, ReleaseWaiting, AfterRelease
      <4>2. Unstarted(v)' = {}
        BY <1>0, <3>1 DEF Unstarted, ReleaseWaiting, AfterRelease, AllTidy, Tidy, WorkersTyped, keeper
      <4> QED
        BY <1>0, <4>1, <4>2 DEF TakenFromRunner
    <3>2. CASE BeatRelease(v) /\ c \in beat[v].waiting
      <4>1. beat'[v].waiting = {}
        BY <1>0, <3>2 DEF BeatRelease, WorkersTyped
      <4> QED
        BY <1>0, <2>1, <3>2, <4>1 DEF TakenFromRunner
    <3> QED
      BY <3>1, <3>2 DEF GivesBack
  <2>3. ~ Starts(v, c)
    <3>1. ASSUME Starts(v, c) PROVE FALSE
      <4>1. c \notin Unstarted(v)' /\ beat' = beat /\ c \in Unstarted(v)
        BY <3>1, StartMarks
      <4> QED
        BY <1>0, <4>1 DEF TakenFromRunner
    <3> QED
      BY <3>1
  <2> QED
    BY <2>1, <2>2, <2>3, WaitingAttemptSteps
<1> QED
  BY <1>1, <1>2

(* No claim is in both threads. *)
LEMMA TakenStep ==
    ASSUME LifeInv, [Next]_vars
    PROVE  TakenFromRunner'
<1> SUFFICES ASSUME NEW v \in Worker, NEW c \in Unstarted(v)', c \in beat'[v].waiting PROVE FALSE
  BY DEF TakenFromRunner
<1>0. TypeOK /\ AllTidy /\ TakenFromRunner
  BY DEF LifeInv, FenceInv, TypeAndBudget
<1>1. CASE KeepsItsClaims(v)
  BY <1>0, <1>1 DEF KeepsItsClaims, TakenFromRunner
<1>2. CASE Abandon(v)
  BY <1>0, <1>2, AbandonTakes
<1>3. CASE Starts(v, turn'[v])
  BY <1>0, <1>3, StartMarks DEF TakenFromRunner
<1>4. CASE ReadBack(v)
  <2>1. /\ c.job \in selected[v] /\ jobs[c.job].status = "claimed" /\ jobs[c.job].locked_by = v
        /\ c.gen = Len(history[c.job]) /\ pc[v] = "claimed" /\ c \in beat[v].waiting
    BY <1>0, <1>4, ReadBackBrings
  <2>2. c.gen < Len(history[c.job]) /\ Len(history[c.job]) \in Nat
    BY <1>0, <2>1 DEF LifeInv, FreshlyClaimed, BeatClaims, TypeOK
  <2> QED
    BY <2>1, <2>2
<1> QED
  BY <1>0, <1>1, <1>2, <1>3, <1>4, ThreadSteps

(* A running handler has its attempt marked, and nobody but the reaper, its *)
(* own heartbeat or itself has settled it.                                  *)
LEMMA RunningStep ==
    ASSUME LifeInv, [Next]_vars
    PROVE  RunningRan'
<1> SUFFICES ASSUME NEW v \in Worker, pc'[v] \in {"running", "finalizing"}
             PROVE  LET b == history'[turn'[v].job][turn'[v].gen]
                    IN  b.ran /\ b.outcome \in {"open", "abandoned", "lease_expired"}
  BY DEF RunningRan, AttemptOf
<1> DEFINE c == turn'[v]
           a == history[c.job][c.gen]
           b == history'[c.job][c.gen]
<1>0. TypeOK /\ AllTidy
  BY DEF LifeInv, FenceInv, TypeAndBudget
<1>1. CASE Starts(v, c)
  <2>1. b.ran = TRUE /\ b.outcome = a.outcome /\ c \in Unstarted(v)
    BY <1>1, StartMarks
  <2>2. a.outcome \in {"open", "lease_expired"}
    BY <2>1 DEF LifeInv, WaitingNeverRan, AttemptOf
  <2> QED
    BY <2>1, <2>2
<1>2. ASSUME pc[v] \in {"running", "finalizing"}, c = turn[v]
      PROVE  b.ran /\ b.outcome \in {"open", "abandoned", "lease_expired"}
  <2>1. a.ran /\ a.outcome \in {"open", "abandoned", "lease_expired"}
    BY <1>2 DEF LifeInv, RunningRan, AttemptOf
  <2>2. c \in RunnerClaims(v)
    BY <1>0, <1>2 DEF AllTidy, Tidy, BusyPC, RunnerClaims
  <2>3. c \in Claim /\ c.job \in Job /\ Opened(v, c) /\ c.gen \in 1 .. Len(history[c.job])
    BY <2>2, UnstartedOpened
  <2>4. AttemptStep(c.job, c.gen) /\ b.ran
    BY <2>1, <2>3, AttemptSteps, RanForGood
  <2>5. ASSUME NEW w \in Worker, NEW d \in Claim, d.job = c.job, d.gen = c.gen, Opened(w, d)
        PROVE  w = v /\ d = c
    BY <2>3, <2>5, OneClaimPerAttempt
  <2>6. ~ GivesBack(v, c)
    <3>1. GivesBack(v, c) => c \in Unstarted(v) \cup beat[v].waiting
      BY DEF GivesBack, ReleaseWaiting, AfterRelease, Unstarted
    <3> QED
      BY <2>1, <3>1 DEF LifeInv, WaitingNeverRan, AttemptOf
  <2>7. ~ Settles(v, c)
    BY DEF Settles
  <2>8. CASE b.outcome = a.outcome \/ b.outcome \in {"lease_expired", "abandoned"}
    BY <2>1, <2>4, <2>8
  <2>9. CASE \E w \in Worker, d \in Claim :
                /\ d.job = c.job /\ d.gen = c.gen /\ Opened(w, d)
                /\ GivesBack(w, d) \/ Settles(w, d)
    BY <2>5, <2>6, <2>7, <2>9
  <2> QED
    BY <2>4, <2>8, <2>9 DEF AttemptStep
<1>3. CASE KeepsItsClaims(v)
  BY <1>2, <1>3 DEF KeepsItsClaims
<1>4. CASE Abandon(v)
  BY <1>0, <1>2, <1>4, AbandonTakes
<1>5. CASE ReadBack(v)
  BY <1>0, <1>5, ReadBackBrings
<1> QED
  BY <1>0, <1>1, <1>3, <1>4, <1>5, ThreadSteps

(* The claim of an abandoned handler ran. *)
LEMMA AbandonedStep ==
    ASSUME LifeInv, [Next]_vars
    PROVE  AbandonedRan'
<1> SUFFICES ASSUME NEW v \in Worker, beat'[v].claim # NoClaim
             PROVE  history'[beat'[v].claim.job][beat'[v].claim.gen].ran
  BY DEF AbandonedRan, AttemptOf
<1> DEFINE c == beat'[v].claim
<1>0. TypeOK /\ AllTidy
  BY DEF LifeInv, FenceInv, TypeAndBudget
<1>1. CASE c = beat[v].claim
  <2>1. history[c.job][c.gen].ran /\ c \in BeatClaims(v)
    BY <1>1 DEF LifeInv, AbandonedRan, AttemptOf, BeatClaims
  <2>2. c.job \in Job /\ c.gen \in 1 .. Len(history[c.job])
    BY <2>1, UnstartedOpened
  <2> QED
    BY <2>1, <2>2, RanForGood
<1>2. CASE Abandon(v)
  <2>1. pc[v] = "running" /\ c = turn[v] /\ history' = history
    BY <1>0, <1>2, AbandonTakes
  <2> QED
    BY <2>1 DEF LifeInv, RunningRan, AttemptOf
<1>3. CASE KeepsItsClaims(v)
  BY <1>1, <1>3 DEF KeepsItsClaims
<1>4. CASE Starts(v, turn'[v])
  BY <1>1, <1>4, StartMarks
<1>5. CASE ReadBack(v)
  BY <1>0, <1>1, <1>5, ReadBackBrings
<1> QED
  BY <1>0, <1>2, <1>3, <1>4, <1>5, ThreadSteps

(* What the heartbeat thread took along are claims of its worker. *)
LEMMA BeatOpenedStep ==
    ASSUME LifeInv, [Next]_vars
    PROVE  BeatOpened'
<1> SUFFICES ASSUME NEW v \in Worker
             PROVE  /\ \A c \in BeatClaims(v)' : Opened(v, c)'
                    /\ beat'[v].step = "close" => beat'[v].claim # NoClaim
  BY DEF BeatOpened
<1>0. TypeOK /\ AllTidy /\ FenceInv /\ NoClaim \notin Claim
  BY QueueAssumption DEF LifeInv, FenceInv, TypeAndBudget, Claim
<1>1. ASSUME NEW c \in RunnerClaims(v) \cup BeatClaims(v) PROVE Opened(v, c)'
  <2>1. c.job \in Job /\ Opened(v, c) /\ c.gen \in 1 .. Len(history[c.job])
    BY <1>1, UnstartedOpened
  <2>2. /\ history'[c.job][c.gen].worker = v /\ history'[c.job][c.gen].attempt = c.attempt
        /\ Len(history[c.job]) \in Nat
        /\ \/ Len(history'[c.job]) = Len(history[c.job])
           \/ Len(history'[c.job]) = Len(history[c.job]) + 1
    BY <1>0, <2>1, NamesStay DEF Opened, AttemptOf
  <2> QED
    BY <2>1, <2>2 DEF Opened, AttemptOf
<1>2. CASE Abandon(v)
  <2>1. /\ beat'[v].waiting \subseteq Unstarted(v) /\ turn[v] \in Claim /\ pc[v] = "running"
        /\ beat'[v].claim \in {NoClaim, turn[v]}
        /\ beat'[v].step = "close" => beat'[v].claim = turn[v]
    BY <1>0, <1>2, AbandonTakes
  <2>2. Unstarted(v) \cup {turn[v]} \subseteq RunnerClaims(v)
    BY <1>0, <2>1, UnstartedOpened DEF RunnerClaims
  <2>3. BeatClaims(v)' \subseteq RunnerClaims(v)
    BY <2>1, <2>2 DEF BeatClaims
  <2> QED
    BY <1>0, <1>1, <2>1, <2>3
<1>3. CASE KeepsItsClaims(v)
  <2>1. BeatClaims(v)' \subseteq BeatClaims(v)
    BY <1>3 DEF BeatClaims, KeepsItsClaims
  <2>2. beat'[v].step = "close" => beat'[v].claim # NoClaim
    BY <1>3 DEF KeepsItsClaims, LifeInv, BeatOpened
  <2> QED
    BY <1>1, <2>1, <2>2
<1>4. CASE beat' = beat
  <2>1. BeatClaims(v)' = BeatClaims(v)
    BY <1>4 DEF BeatClaims
  <2>2. beat'[v].step = "close" => beat'[v].claim # NoClaim
    BY <1>4 DEF LifeInv, BeatOpened
  <2> QED
    BY <1>1, <2>1, <2>2
<1> QED
  BY <1>0, <1>2, <1>3, <1>4, ThreadSteps, StartMarks, ReadBackBrings

(* What a worker has claimed and not read back nobody has touched. *)
LEMMA FreshStep ==
    ASSUME LifeInv, [Next]_vars
    PROVE  FreshlyClaimed'
<1> SUFFICES ASSUME NEW v \in Worker, pc'[v] = "claimed", NEW j \in selected'[v],
                    jobs'[j].status = "claimed", jobs'[j].locked_by = v
             PROVE  LET n == Len(history'[j])
                    IN  /\ ~ history'[j][n].ran /\ history'[j][n].outcome = "open"
                        /\ \A c \in BeatClaims(v)' : c.job = j => c.gen < n
  BY DEF FreshlyClaimed
<1> DEFINE n == Len(history'[j])
<1>0. TypeOK /\ AllTidy /\ FenceInv /\ WorkersTyped /\ TypeAndBudget'
  BY TypeAndBudgetStep DEF LifeInv, FenceInv, TypeAndBudget, TypeOK, WorkersTyped
<1>a. j \in Job /\ Len(history[j]) \in Nat
  BY <1>0 DEF TypeAndBudget, TypeOK
<1>1. CASE ClaimUpdate(v)
  <2>1. pc[v] = "selected" /\ j \in selected[v] /\ beat' = beat
    BY <1>1 DEF ClaimUpdate
  <2>2. ~ (jobs[j].status = "claimed" /\ jobs[j].locked_by = v)
    BY <2>1 DEF LifeInv, FenceInv, SelectedUnowned
  <2>3. n = Len(history[j]) + 1
    BY <1>0, <1>a, <2>2, HeldOrClaimed
  <2>a. Len(history'[j]) # Len(history[j])
    BY <1>a, <2>3
  <2>b. /\ history'[j][Len(history'[j])].outcome = "open"
        /\ history'[j][Len(history'[j])].ran = FALSE
    BY <1>0, <1>a, <2>a, HeldOrClaimed
  <2>4. ~ history'[j][n].ran /\ history'[j][n].outcome = "open"
    BY <2>b
  <2>5. \A c \in BeatClaims(v) : c.job = j => c.gen \in 1 .. Len(history[j])
    BY UnstartedOpened
  <2>6. BeatClaims(v)' = BeatClaims(v)
    BY <2>1 DEF BeatClaims
  <2>7. \A c \in BeatClaims(v)' : c.job = j => c.gen < n
    BY <1>a, <2>3, <2>5, <2>6
  <2> QED
    BY <2>4, <2>7
<1>2. CASE pc[v] = "claimed" /\ selected'[v] = selected[v]
  <2>1. ~ ClaimUpdate(v) /\ ~ ReadBack(v) /\ ~ Abandon(v) /\ ~ Starts(v, turn'[v])
    BY <1>0, <1>2, ReadBackBrings, AbandonTakes, StartMarks DEF ClaimUpdate
  <2>2. jobs[j].status = "claimed" /\ jobs[j].locked_by = v /\ n = Len(history[j])
    BY <1>0, <1>a, <2>1, HeldOrClaimed
  <2>3. /\ ~ history[j][n].ran /\ history[j][n].outcome = "open"
        /\ \A c \in BeatClaims(v) : c.job = j => c.gen < n
    BY <1>2, <2>2 DEF LifeInv, FreshlyClaimed
  <2>4. KeepsItsClaims(v)
    BY <1>0, <2>1, ThreadSteps
  <2>5. BeatClaims(v)' \subseteq BeatClaims(v)
    BY <2>4 DEF KeepsItsClaims, BeatClaims
  <2>6. n \in 1 .. Len(history[j]) /\ history[j][n].worker = v
    BY <1>0, <1>a, <2>2 DEF FenceInv, HistoryAgrees
  <2>7. AttemptStep(j, n)
    BY <1>a, <2>6, AttemptSteps
  <2>8. ASSUME NEW w \in Worker, NEW c \in Claim, c.job = j, c.gen = n, Opened(w, c),
               Starts(w, c) \/ Settles(w, c) \/ LetsGo(w, c)
        PROVE  FALSE
    <3>1. w = v
      BY <2>6, <2>8 DEF Opened, AttemptOf
    <3>2. ~ Starts(v, c) /\ ~ Settles(v, c)
      BY <1>2, StartMarks DEF Settles
    <3>3. LetsGo(v, c) => c \in BeatClaims(v)
      BY DEF LetsGo, CloseAbandoned, LifeInv, BeatOpened, BeatClaims
    <3>4. ~ (n < n)
      BY <2>2, <1>a
    <3> QED
      BY <2>3, <2>8, <3>1, <3>2, <3>3, <3>4
  <2>9. history'[j][n].ran = history[j][n].ran /\ history'[j][n].outcome = history[j][n].outcome
    BY <2>7, <2>8 DEF AttemptStep
  <2> QED
    BY <2>3, <2>5, <2>9
<1> QED
  BY <1>0, <1>1, <1>2, ClaimedByUpdate

(* A step releases no attempt that ran, and begins none that was released. *)
LEMMA ReleasedStep ==
    ASSUME LifeInv, [Next]_vars
    PROVE  ReleasedNeverRan'
<1> SUFFICES ASSUME NEW j \in Job, NEW i \in DOMAIN history'[j],
                    history'[j][i].outcome = "released"
             PROVE  ~ history'[j][i].ran
  BY DEF ReleasedNeverRan
<1>0. FenceInv /\ TypeAndBudget'
  BY TypeAndBudgetStep DEF LifeInv, FenceInv
<1>1. i \in 1 .. Len(history'[j]) /\ Len(history[j]) \in Nat
  BY <1>0 DEF FenceInv, TypeAndBudget, TypeOK
<1>2. CASE i \in 1 .. Len(history[j])
  <2>1. AttemptStep(j, i)
    BY <1>2, AttemptSteps
  <2>2. history[j][i].outcome = "released" => ~ history[j][i].ran
    BY <1>0, <1>2 DEF LifeInv, ReleasedNeverRan, FenceInv, TypeAndBudget, TypeOK
  <2>3. ASSUME NEW w \in Worker, NEW c \in Claim, c.job = j, c.gen = i,
               GivesBack(w, c) \/ Starts(w, c)
        PROVE  ~ history[j][i].ran /\ history[j][i].outcome \in {"open", "lease_expired"}
    <3>1. c \in Unstarted(w) \cup beat[w].waiting
      BY <2>3, StartMarks DEF GivesBack, ReleaseWaiting, AfterRelease, Unstarted
    <3> QED
      BY <2>3, <3>1 DEF LifeInv, WaitingNeverRan, AttemptOf
  <2> QED
    BY <2>1, <2>2, <2>3 DEF AttemptStep
<1>3. CASE i \notin 1 .. Len(history[j])
  <2>1. Len(history'[j]) # Len(history[j])
    BY <1>1, <1>3
  <2>2. /\ Len(history'[j]) = Len(history[j]) + 1
        /\ history'[j][Len(history'[j])].outcome = "open"
    BY <1>0, <2>1, HeldOrClaimed
  <2>3. i = Len(history'[j])
    BY <1>1, <1>3, <2>2
  <2> QED
    BY <2>2, <2>3
<1> QED
  BY <1>2, <1>3

(* Every step preserves LifeInv when nobody replays. *)
LEMMA LifeInvStep ==
    ASSUME LifeInv, Replayable = {}, [Next]_vars
    PROVE  LifeInv'
<1>1. FenceInv'
  BY FenceInvStep DEF LifeInv
<1>2. RenewalsAreForWork'
  BY HoldsForWork DEF LifeInv, FenceInv, TypeAndBudget, RenewalsAreForWork
<1> QED
  BY <1>1, <1>2, GrowStep, WaitingStep, TakenStep, RunningStep, AbandonedStep, BeatOpenedStep,
     FreshStep, ReleasedStep DEF LifeInv

(* It holds at the start. *)
LEMMA LifeInvInit == Init => LifeInv
<1> SUFFICES ASSUME Init PROVE LifeInv
  OBVIOUS
<1>1. FenceInv
  BY FenceInvInit
<1>2. \A j \in Job : Len(history[j]) = 0 /\ DOMAIN history[j] = {}
  BY DEF Init
<1>3. AttemptsGrow
  BY <1>2 DEF AttemptsGrow, Ordered
<1>4. \A w \in Worker : /\ Unstarted(w) = {} /\ beat[w].waiting = {} /\ BeatClaims(w) = {}
                        /\ beat[w].claim = NoClaim /\ beat[w].step = "rest"
                        /\ pc[w] = "idle" /\ held[w] = {}
  BY DEF Init, Unstarted, BeatClaims, Resting
<1> QED
  BY <1>1, <1>2, <1>3, <1>4
  DEF LifeInv, WaitingNeverRan, TakenFromRunner, RunningRan, AbandonedRan, BeatOpened,
      FreshlyClaimed, ReleasedNeverRan, RenewalsAreForWork

(* Without replays the claims of both threads live as they should. *)
THEOREM LifeInvariant ==
    ASSUME Replayable = {}
    PROVE  Spec => []LifeInv
<1>1. LifeInv /\ [Next]_vars => LifeInv'
  BY LifeInvStep
<1> QED
  BY <1>1, LifeInvInit, PTL DEF Spec

(* WorkerHeartbeat behind the runner's back: without replays the heartbeat  *)
(* thread lets go only of jobs it holds, gives back only jobs that never    *)
(* ran, and renews only for work that is still to be done, however its      *)
(* steps fall between those of the runner, the reaper and the others.       *)
THEOREM HeartbeatAlwaysFenced ==
    ASSUME Replayable = {}
    PROVE  Spec => []HeartbeatFenced
<1>1. LifeInv => HeartbeatFenced
  BY BeatIsFenced DEF HeartbeatFenced, LifeInv
<1> QED
  BY <1>1, LifeInvariant, PTL

(* Without replays a job is in two handlers at once only after the lease of *)
(* the earlier run ran out and the reaper took the job.                     *)
THEOREM OverlapNeedsExpiry ==
    ASSUME Replayable = {}
    PROVE  Spec => []OverlapOnlyAfterExpiry
<1>1. LifeInv => ReleasedNeverRan
  BY DEF LifeInv
<1> QED
  BY <1>1, LifeInvariant, OverlapNeedsExpiryOrRelease, PTL

-----------------------------------------------------------------------------
(* Late outcomes, and claims before their time.                              *)

(* Where retention may delete nothing no row is deleted. *)
NoneDeleted == \A j \in Job : jobs[j].status # "pruned"

(* No step deletes a row then. *)
LEMMA NoneDeletedStep ==
    ASSUME FenceInv, NoneDeleted, Prunable = {}, [Next]_vars
    PROVE  NoneDeleted'
<1> SUFFICES ASSUME NEW j \in Job PROVE jobs'[j].status # "pruned"
  BY DEF NoneDeleted
<1> DEFINE r == jobs[j]
           h == history[j]
           s == jobs'[j]
           g == history'[j]
<1>0. r \in Row /\ r.status # "pruned"
  BY DEF FenceInv, TypeAndBudget, TypeOK, NoneDeleted
<1>1. HistoryWrite(r, h, s, g) \/ \E w \in Worker : ClaimWrite(w, r, h, s, g)
  BY StepsAreHistorySteps DEF FenceInv, TypeAndBudget
<1> HIDE DEF r, h, s, g
<1>2. QuietStep(r, s) => s.status # "pruned"
  BY <1>0, RowStands
<1>3. /\ Released(r).status # "pruned"
      /\ \A t \in {Completed(r), Failed(r), Deferred(r), Continued(r), Reclaimed(r)} :
            t.status # "pruned"
      /\ \A w \in Worker : Claimed(r, w).status # "pruned"
  BY <1>0, RowStands
<1>4. s.status # "pruned"
  BY <1>0, <1>1, <1>2, <1>3 DEF HistoryWrite, ClaimWrite
<1> QED
  BY <1>4 DEF s

(* An outcome is late when it is written and the claim is not owned. *)
LEMMA LateIsSettled ==
    ASSUME TypeOK, [Next]_vars, NEW w \in Worker, pc[w] = "finalizing", pc'[w] = "late"
    PROVE  ~ Owns(w, turn[w]) /\ \E row : \E o \in FinalOutcome : Settle(w, row, o)
<1> DEFINE Goal == ~ Owns(w, turn[w]) /\ \E row : \E o \in FinalOutcome : Settle(w, row, o)
<1>0. WorkersTyped
  BY DEF TypeOK, WorkersTyped
<1>1. pc'[w] # pc[w]
  OBVIOUS
<1>2. ASSUME NEW row, NEW o \in FinalOutcome, Settle(w, row, o) PROVE Goal
  <2>1. ~ Owns(w, turn[w])
    BY <1>0, <1>2 DEF Settle, WorkersTyped
  <2> QED
    BY <1>2, <2>1
<1>3. CASE WriteOutcome(w)
  <2>0. FinalOutcome = {"completed", "failed", "dead_letter", "deferred", "continued"}
    BY DEF FinalOutcome
  <2>1. CASE WriteCompleted(w)
    BY <1>2, <2>0, <2>1 DEF WriteCompleted
  <2>2. CASE WriteFailed(w)
    BY <1>2, <2>0, <2>2 DEF WriteFailed
  <2>3. CASE WriteDeferred(w)
    BY <1>2, <2>0, <2>3 DEF WriteDeferred
  <2>4. CASE WriteContinued(w)
    BY <1>2, <2>0, <2>4 DEF WriteContinued
  <2>5. CASE FailInstead(w)
    BY <1>1, <2>5 DEF FailInstead
  <2> QED
    BY <1>3, <2>1, <2>2, <2>3, <2>4, <2>5 DEF WriteOutcome
<1>4. CASE RunnerStep(w)
  <2>1. ~ (WriteFail(w) \/ Crash(w))
    BY <1>0 DEF WriteFail, Crash, WorkersTyped
  <2> QED
    BY <1>3, <1>4, <2>1
    DEF RunnerStep, RunnerProgress, ClaimSelect, ClaimUpdate, ReadBack, ClaimFail, BeginFirst,
        StillHeld, StillHeldFail, BeginNext, HandlerReturn, Finish, EndBatch, StopSeen, Drain,
        ReleaseWaiting, ReleaseWaitingFail, AfterRelease
<1>5. ~ BeatStep(w)
  BY <1>1
  DEF BeatStep, Renew, RenewNothing, RenewFail, Abandon, CloseAbandoned, BeatRelease,
      BeatReleaseFail, runner
<1>6. ASSUME NEW v \in Worker, v # w PROVE ~ RunnerStep(v) /\ ~ BeatStep(v)
  BY <1>1, <1>6, OthersUntouched
<1> QED
  BY <1>1, <1>4, <1>5, <1>6
  DEF Next, vars, runner, JobStep, Enqueue, BecomeDue, LeaseExpire, Replay, Prune,
      ReaperStep, ReapSelect, ReapUpdate, ReapFail

(* A step that writes a late outcome records a second run, and only that. *)
LEMMA LateStep ==
    ASSUME LifeInv, NoneDeleted, [Next]_vars, NEW w \in Worker,
           pc[w] = "finalizing", pc'[w] = "late"
    PROVE  LET c == turn[w]
               rows == history[c.job]
               recorded == history'[c.job][c.gen].outcome = "superseded"
           IN  /\ (\E i \in c.gen + 1 .. Len(rows) : rows[i].ran) => recorded
               /\ recorded => c.gen < Len(rows)
<1> DEFINE c == turn[w]
           j == c.job
           n == c.gen
           h == history[j]
           r == jobs[j]
<1>0. TypeOK /\ AllTidy /\ c \in RunnerClaims(w)
  BY DEF LifeInv, FenceInv, TypeAndBudget, AllTidy, Tidy, BusyPC, RunnerClaims
<1>1. /\ c \in Claim /\ j \in Job /\ n \in 1 .. Len(h) /\ h[n].attempt = c.attempt
      /\ h[n].outcome \in {"open", "abandoned", "lease_expired"}
  BY <1>0, UnstartedOpened DEF LifeInv, RunningRan, AttemptOf, Opened
<1>2. history'[j][n].outcome = LateOutcome(c.attempt, r.attempts)
  <2>1. PICK row : \E o \in FinalOutcome : ~ Owns(w, c) /\ Settle(w, row, o)
    BY <1>0, LateIsSettled
  <2>2. PICK o \in FinalOutcome : ~ Owns(w, c) /\ Settle(w, row, o)
    BY <2>1
  <2> QED
    BY <1>1, <2>2, SettleChanges
<1>3. /\ h \in Rows /\ r \in Row /\ Ordered(r, h) /\ r.status # "pruned"
      /\ \A i \in 1 .. Len(h) : h[i].outcome = "released" => ~ h[i].ran
  BY <1>0, <1>1
  DEF TypeOK, Rows, LifeInv, AttemptsGrow, NoneDeleted, ReleasedNeverRan
<1>4. /\ Len(h) \in Nat /\ r.attempts \in Nat /\ \A i \in 1 .. Len(h) : h[i].attempt \in Nat
  <2>1. Len(h) \in Nat /\ r.attempts \in Nat /\ \A i \in 1 .. Len(h) : h[i] \in Attempt(Worker)
    BY <1>3 DEF Rows, Row
  <2> QED
    BY <2>1 DEF Attempt
<1> DEFINE recorded == history'[j][n].outcome = "superseded"
<1>5. recorded <=> r.attempts > c.attempt
  BY <1>2 DEF LateOutcome
<1> HIDE DEF h, r, n, recorded
<1>6. ASSUME NEW i \in n + 1 .. Len(h), h[i].ran PROVE recorded
  <2>1. i \in 1 .. Len(h) /\ n < i
    BY <1>1, <1>4, <1>6
  <2>2. h[i].outcome # "released" /\ h[n].outcome # "released"
    BY <1>1, <1>3, <1>6, <2>1
  <2>3. h[n].attempt < h[i].attempt /\ h[i].attempt <= r.attempts
    BY <1>1, <1>3, <2>1, <2>2 DEF Ordered
  <2>4. r.attempts > c.attempt
    BY <1>1, <1>4, <2>1, <2>3
  <2> QED
    BY <1>5, <2>4
<1>7. ASSUME recorded PROVE n < Len(h)
  <2>1. n # Len(h)
    BY <1>1, <1>3, <1>4, <1>5, <1>7 DEF Ordered
  <2> QED
    BY <1>1, <1>4, <2>1
<1> QED
  BY <1>6, <1>7 DEF recorded, h, n

(* _finish_attempt: without replays and retention, the late outcome of a      *)
(* handler whose job ran again is recorded as superseded, and no other is.    *)
THEOREM LateRunsAreRecorded ==
    ASSUME Replayable = {}, Prunable = {}
    PROVE  Spec => LateRunIsSuperseded
<1>1. Init => NoneDeleted
  BY DEF Init, NoneDeleted, AbsentRow
<1>2. LifeInv /\ NoneDeleted /\ [Next]_vars => NoneDeleted'
  BY NoneDeletedStep DEF LifeInv
<1>3. LifeInv /\ NoneDeleted /\ [Next]_vars =>
        [\A w \in Worker :
           pc[w] = "finalizing" /\ pc'[w] = "late" =>
              LET c == turn[w]
                  rows == history[c.job]
                  ranAgain == \E i \in c.gen + 1 .. Len(rows) : rows[i].ran
                  claimedAgain == c.gen < Len(rows)
                  recorded == history'[c.job][c.gen].outcome = "superseded"
              IN  (ranAgain => recorded) /\ (recorded => claimedAgain)]_vars
  BY LateStep
<1> QED
  BY <1>1, <1>2, <1>3, LifeInvariant, PTL DEF Spec, LateRunIsSuperseded

(* Where claims skip locked rows, a selected row stays due until its claim. *)
LEMMA SelectedDueStep ==
    ASSUME FenceInv, SelectedDue, SkipLocked = TRUE, [Next]_vars
    PROVE  SelectedDue'
<1>0. /\ TypeOK /\ WorkersTyped /\ HistoryAgrees /\ SelectedUnowned /\ AllTidy
      /\ jobs \in [Job -> Row]
  BY DEF FenceInv, TypeAndBudget, TypeOK, WorkersTyped
<1>1. ASSUME NEW w \in Worker, pc'[w] = "selected", NEW j \in selected'[w] PROVE Due(j)'
  <2>1. CASE ClaimSelect(w)
    BY <1>0, <1>1, <2>1 DEF ClaimSelect, WorkersTyped, Due
  <2>2. CASE pc[w] = "selected" /\ selected'[w] = selected[w]
    <3>1. jobs[j].status = "pending" /\ jobs[j].due /\ j \in Job /\ jobs[j] \in Row
      BY <1>0, <1>1, <2>2 DEF SelectedDue, Due, WorkersTyped
    <3>2. jobs'[j] = jobs[j] \/ jobs'[j] = [jobs[j] EXCEPT !.due = TRUE]
          \/ \E v \in Worker : ClaimUpdate(v) /\ j \in selected[v]
      <4>1. HistoryWrite(jobs[j], history[j], jobs'[j], history'[j])
            \/ \E v \in Worker : ClaimUpdate(v) /\ j \in selected[v]
        BY <1>0, <3>1, StepsAreHistorySteps
      <4> QED
        BY <3>1, <4>1 DEF HistoryWrite, QuietStep
    <3>3. ASSUME NEW v \in Worker, ClaimUpdate(v), j \in selected[v] PROVE FALSE
      <4>1. pc[v] = "selected" /\ pc'[v] = "claimed"
        BY <1>0, <3>3 DEF ClaimUpdate, WorkersTyped
      <4>2. v # w
        BY <1>1, <4>1
      <4> QED
        BY <1>1, <2>2, <3>3, <4>1, <4>2 DEF SelectedDue
    <3>4. jobs'[j].status = "pending" /\ jobs'[j].due
      BY <3>1, <3>2, <3>3 DEF Row
    <3> QED
      BY <3>4 DEF Due
  <2> QED
    BY <1>0, <1>1, <2>1, <2>2, SelectedBySelect
<1>2. ASSUME NEW w \in Worker, pc'[w] = "selected", NEW v \in Worker \ {w}, pc'[v] = "selected"
      PROVE  selected'[v] \cap selected'[w] = {}
  <2>1. ASSUME NEW x \in Worker, NEW y \in Worker, x # y, ClaimSelect(x), pc'[y] = "selected"
        PROVE  selected'[x] \cap selected'[y] = {}
    <3>1. pc[y] = "selected" /\ selected'[y] = selected[y]
      BY <1>0, <2>1 DEF ClaimSelect, WorkersTyped
    <3>2. selected'[x] \cap Locked = {}
      BY <1>0, <2>1 DEF ClaimSelect, WorkersTyped
    <3>3. selected[y] \subseteq Locked
      BY <3>1 DEF Locked
    <3> QED
      BY <3>1, <3>2, <3>3
  <2>2. CASE ClaimSelect(w) \/ ClaimSelect(v)
    BY <1>2, <2>1, <2>2
  <2>3. CASE ~ ClaimSelect(w) /\ ~ ClaimSelect(v)
    <3>1. /\ pc[w] = "selected" /\ selected'[w] = selected[w]
          /\ pc[v] = "selected" /\ selected'[v] = selected[v]
      BY <1>0, <1>2, <2>3, SelectedBySelect
    <3> QED
      BY <1>2, <3>1 DEF SelectedDue
  <2> QED
    BY <2>2, <2>3
<1> QED
  BY <1>1, <1>2 DEF SelectedDue

(* docs/durable-jobs.md: where the database skips locked rows, a pending job  *)
(* is never claimed before its available_at, whatever the other workers, the  *)
(* reaper and the operators do between the select and the update of a claim.  *)
THEOREM NeverClaimedEarly ==
    ASSUME SkipLocked = TRUE
    PROVE  Spec => NotClaimedEarly
<1>1. Init => SelectedDue
  BY DEF Init, SelectedDue
<1>2. FenceInv /\ SelectedDue /\ [Next]_vars => SelectedDue'
  BY SelectedDueStep
<1>3. ASSUME FenceInv, SelectedDue, [Next]_vars, NEW j \in Job,
             jobs[j].status = "pending", jobs'[j].status = "claimed"
      PROVE  jobs[j].due
  <2>1. jobs[j] \in Row /\ history[j] \in Rows
    BY <1>3 DEF FenceInv, TypeAndBudget, TypeOK, Rows
  <2>2. ~ HistoryWrite(jobs[j], history[j], jobs'[j], history'[j])
    <3> DEFINE r == jobs[j]
               h == history[j]
               s == jobs'[j]
               g == history'[j]
    <3>1. r \in Row /\ h \in Rows /\ r.status # "claimed" /\ s.status = "claimed"
      BY <1>3, <2>1
    <3> HIDE DEF r, h, s, g
    <3>2. ~ HistoryWrite(r, h, s, g)
      BY <3>1, HistoryWriteEffects
    <3> QED
      BY <3>2 DEF r, h, s, g
  <2>3. PICK w \in Worker : ClaimUpdate(w) /\ j \in selected[w]
    BY <1>3, <2>2, StepsAreHistorySteps DEF FenceInv, TypeAndBudget
  <2> QED
    BY <1>3, <2>3 DEF SelectedDue, ClaimUpdate, Due
<1>4. FenceInv /\ SelectedDue /\ [Next]_vars =>
        [\A j \in Job :
           jobs[j].status = "pending" /\ jobs'[j].status = "claimed" => jobs[j].due]_vars
  BY <1>3
<1> QED
  BY <1>1, <1>2, <1>4, FenceInvariant, PTL DEF Spec, NotClaimedEarly
=============================================================================
