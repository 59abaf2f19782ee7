----------------------------- MODULE JobAttempts -----------------------------
(***************************************************************************)
(* The job_attempts rows of one job, oldest first, and the statements of   *)
(* jobs/crud.py that write them.  The code finds a row by the worker and   *)
(* the attempt number of its claim; the index of a row, which the code     *)
(* does not have, is the generation of the claim that opened it.           *)
(***************************************************************************)
EXTENDS Integers, Sequences, FiniteSets

(* OUTCOMES of jobs/_attempts.py; "open" is finished_at IS NULL. *)
Outcome == {"open", "completed", "failed", "dead_letter", "deferred", "continued",
            "lease_expired", "abandoned", "released", "superseded"}

(* ran: did the handler of this claim begin?  Not a column: started_at is *)
(* stamped best-effort and may be missing.                                *)
Attempt(workers) ==
    [worker : workers, attempt : Nat, outcome : Outcome, ran : BOOLEAN]

Matching(rows, w, attempt) ==
    {i \in DOMAIN rows : rows[i].worker = w /\ rows[i].attempt = attempt}

OpenAttempt(rows, w, attempt) ==
    Append(rows, [worker |-> w, attempt |-> attempt, outcome |-> "open", ran |-> FALSE])

CloseOpen(rows, w, attempts, outcome) ==
    [i \in DOMAIN rows |->
        IF rows[i].worker = w /\ rows[i].attempt \in attempts /\ rows[i].outcome = "open"
        THEN [rows[i] EXCEPT !.outcome = outcome] ELSE rows[i]]

(* Mutant of CloseExpired: the reaper forgets the history. *)
CloseNothing(rows) == rows

(* The reaper closes whatever is open, by job alone. *)
CloseExpired(rows) ==
    [i \in DOMAIN rows |->
        IF rows[i].outcome = "open"
        THEN [rows[i] EXCEPT !.outcome = "lease_expired"] ELSE rows[i]]

(* Mutant of LateOutcome: the worker's own attempt counts as a newer one. *)
LateOutcomeOrSame(attempt, latest) ==
    IF latest >= attempt THEN "superseded" ELSE "lease_expired"

(* latest is the attempts column of the job, 0 when its row is gone. *)
LateOutcome(attempt, latest) ==
    IF latest > attempt THEN "superseded" ELSE "lease_expired"

Settleable(owned) ==
    {"open", "abandoned"} \cup (IF owned THEN {} ELSE {"lease_expired"})

(* The newest matching attempt that is not settled yet. *)
FinishAttempt(rows, w, attempt, outcome, owned, latest) ==
    LET hits == {i \in Matching(rows, w, attempt) : rows[i].outcome \in Settleable(owned)}
        final == IF owned THEN outcome ELSE LateOutcome(attempt, latest)
    IN  [i \in DOMAIN rows |->
            IF i \in hits /\ \A k \in hits : k <= i
            THEN [rows[i] EXCEPT !.outcome = final] ELSE rows[i]]

MarkRan(rows, gen) == [rows EXCEPT ![gen].ran = TRUE]
=============================================================================
