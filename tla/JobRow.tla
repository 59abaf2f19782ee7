------------------------------- MODULE JobRow -------------------------------
(***************************************************************************)
(* One row of processing_jobs (jobs/models.py) and what each statement of  *)
(* jobs/crud.py writes to it.  Instants are abstracted to the comparisons  *)
(* the code makes: "expired" is lease_expires_at < now, "due" is           *)
(* available_at <= now.  A column the code reads in one status only is     *)
(* FALSE in the others.                                                    *)
(***************************************************************************)
EXTENDS Integers

CONSTANTS Worker,            \* worker ids: a restart draws a new one
          NoWorker,          \* locked_by IS NULL
          MaxAttempts,       \* max_attempts, stamped on the row when enqueued
          MaxDeferrals,      \* JobSettings.max_deferrals
          MaxContinuations   \* JobSettings.max_continuations

ASSUME BudgetAssumption ==
    /\ MaxAttempts \in Nat \ {0}
    /\ MaxDeferrals \in Nat
    /\ MaxContinuations \in Nat

ASSUME NoWorkerAssumption == NoWorker \notin Worker

(* "absent": not yet inserted.  "pruned": deleted by retention. *)
Status == {"absent", "pending", "claimed", "completed", "dead_letter", "pruned"}

Row == [status        : Status,
        attempts      : Nat,
        deferrals     : Nat,
        continuations : Nat,
        budget_offset : Nat,
        locked_by     : Worker \cup {NoWorker},
        expired       : BOOLEAN,
        due           : BOOLEAN]

AbsentRow == [status |-> "absent", attempts |-> 0, deferrals |-> 0,
              continuations |-> 0, budget_offset |-> 0, locked_by |-> NoWorker,
              expired |-> FALSE, due |-> FALSE]

(* The attempts of the failure budget that are spent. *)
Spent(r) == r.attempts - r.deferrals - r.budget_offset

(* Mutants of OwnedClaim: a test that forgets one half of the claim's name. *)
OwnedByAttempt(r, w, attempt) == r.status = "claimed" /\ r.attempts = attempt

OwnedByWorker(r, w, attempt) == r.status = "claimed" /\ r.locked_by = w

(* Does the claim (w, attempt) still own the row? *)
OwnedClaim(r, w, attempt) ==
    /\ r.status = "claimed"
    /\ r.locked_by = w
    /\ r.attempts = attempt

-----------------------------------------------------------------------------
(* The writes.  Every one that ends a claim also clears the lease columns. *)

Requeued(r, due) ==
    [r EXCEPT !.status = "pending", !.locked_by = NoWorker,
              !.expired = FALSE, !.due = due]

Ended(r, status) ==
    [r EXCEPT !.status = status, !.locked_by = NoWorker, !.expired = FALSE]

Inserted == [AbsentRow EXCEPT !.status = "pending", !.due = TRUE]

Claimed(r, w) ==
    [r EXCEPT !.status = "claimed", !.attempts = @ + 1, !.locked_by = w,
              !.expired = FALSE, !.due = FALSE]

Renewed(r) == [r EXCEPT !.expired = FALSE]

Released(r) == [Requeued(r, TRUE) EXCEPT !.attempts = @ - 1]

Completed(r) == Ended(r, "completed")

(* Mutant of Failed: one attempt too many. *)
FailedOneMore(r) ==
    IF Spent(r) > MaxAttempts THEN Ended(r, "dead_letter") ELSE Requeued(r, FALSE)

(* A retry, a deferral or a continuation waits for available_at; a wait of *)
(* zero is FALSE followed at once by the passage of time.                  *)
Failed(r) ==
    IF Spent(r) >= MaxAttempts THEN Ended(r, "dead_letter") ELSE Requeued(r, FALSE)

DeferralsExhausted(r) == r.deferrals >= MaxDeferrals

Deferred(r) == [Requeued(r, FALSE) EXCEPT !.deferrals = @ + 1]

ContinuationsExhausted(r) == r.continuations >= MaxContinuations

Continued(r) ==
    [Requeued(r, FALSE) EXCEPT !.continuations = @ + 1,
                               !.budget_offset = r.attempts - r.deferrals]

Reclaimed(r) ==
    IF Spent(r) >= MaxAttempts THEN Ended(r, "dead_letter") ELSE Requeued(r, TRUE)

(* Mutant of Replayed: the offset of the old attempt numbers is kept. *)
ReplayedKeepingOffset(r) ==
    [Requeued(r, TRUE) EXCEPT !.attempts = 0, !.deferrals = 0, !.continuations = 0]

Replayed(r) ==
    [Requeued(r, TRUE) EXCEPT !.attempts = 0, !.deferrals = 0,
                              !.continuations = 0, !.budget_offset = 0]

Pruned(r) == [AbsentRow EXCEPT !.status = "pruned"]
=============================================================================
