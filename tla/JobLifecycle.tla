---------------------------- MODULE JobLifecycle ----------------------------
(***************************************************************************)
(* What the durable job queue promises of every job, whoever runs it and   *)
(* however its workers crash, stall or race: the status a job may move to  *)
(* next, and what each move does to its failure budget.  A statement of    *)
(* the implementation may move several jobs at once.                       *)
(***************************************************************************)
EXTENDS Integers

CONSTANTS Job, MaxAttempts, MaxDeferrals, MaxContinuations

VARIABLE life    \* [Job -> [status, spent, deferrals, continuations]]

Life(status, spent, deferrals, continuations) ==
    [status |-> status, spent |-> spent,
     deferrals |-> deferrals, continuations |-> continuations]

Fresh(status) == Life(status, 0, 0, 0)

Same(l, status) == Life(status, l.spent, l.deferrals, l.continuations)

Enqueue(l, m) ==
    /\ l.status = "absent"
    /\ m = Fresh("pending")

(* A claim is counted when it is taken, so a crash cannot run a job for free. *)
Claim(l, m) ==
    /\ l.status = "pending"
    /\ l.spent < MaxAttempts
    /\ m = Life("claimed", l.spent + 1, l.deferrals, l.continuations)

Complete(l, m) ==
    /\ l.status = "claimed"
    /\ m = Same(l, "completed")

(* A failure or an expired lease: retried while budget is left... *)
Retry(l, m) ==
    /\ l.status = "claimed"
    /\ l.spent < MaxAttempts
    /\ m = Same(l, "pending")

(* ...and dead-lettered exactly when it is used up. *)
DeadLetter(l, m) ==
    /\ l.status = "claimed"
    /\ l.spent = MaxAttempts
    /\ m = Same(l, "dead_letter")

Defer(l, m) ==
    /\ l.status = "claimed"
    /\ l.deferrals < MaxDeferrals
    /\ m = Life("pending", l.spent - 1, l.deferrals + 1, l.continuations)

Continue(l, m) ==
    /\ l.status = "claimed"
    /\ l.continuations < MaxContinuations
    /\ m = Life("pending", 0, l.deferrals, l.continuations + 1)

(* A claim given back before it ran costs nothing. *)
Release(l, m) ==
    /\ l.status = "claimed"
    /\ m = Life("pending", l.spent - 1, l.deferrals, l.continuations)

Replay(l, m) ==
    /\ l.status = "dead_letter"
    /\ m = Fresh("pending")

Prune(l, m) ==
    /\ l.status = "completed"
    /\ m = Fresh("pruned")

Move(l, m) ==
    \/ Enqueue(l, m) \/ Claim(l, m) \/ Complete(l, m) \/ Retry(l, m)
    \/ DeadLetter(l, m) \/ Defer(l, m) \/ Continue(l, m) \/ Release(l, m)
    \/ Replay(l, m) \/ Prune(l, m)

Init == life = [j \in Job |-> Fresh("absent")]

Next ==
    /\ DOMAIN life' = Job
    /\ \A j \in Job : life'[j] = life[j] \/ Move(life[j], life'[j])

Spec == Init /\ [][Next]_life
=============================================================================
