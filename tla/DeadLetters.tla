---------------------------- MODULE DeadLetters ----------------------------
(***************************************************************************)
(* Delivery of on_dead_letter callbacks (jobs/dead_letter.py and the       *)
(* dead-letter half of jobs/crud.py).  Any number of processes sweep the   *)
(* dead letters; a delivery is claimed by compare-and-set for a time, runs *)
(* the callback with no session open, and writes its outcome only while    *)
(* its claim is the live one.  Meanwhile the job may be replayed and       *)
(* dead-letter again.                                                      *)
(***************************************************************************)
EXTENDS Integers

CONSTANTS Job,             \* jobs of one subscriber that has a callback
          Sweeper,         \* processes that run the scheduled sweep
          NoDelivery,
          MaxDeliveries,   \* MAX_DELIVERIES
          MaxLives,        \* bound: how often one job dead-letters
          Unsteady         \* processes that may crash, or register again without a callback

ASSUME DeliveryAssumption ==
    /\ MaxDeliveries \in Nat \ {0}
    /\ MaxLives \in Nat
    /\ Unsteady \subseteq Sweeper
    /\ NoDelivery \notin [job : Job, attempt : Nat, life : Nat, charged : Nat]

VARIABLES letters,      \* the dead-letter columns of processing_jobs
          registered,   \* has the process a callback registered?
          sweeping,     \* is a sweep under way that still counts the subscriber?
          pc,           \* where the sweep is
          delivery,     \* the DeadLetterJob it works on
          late,         \* its claim ran out while it was under way
          runs,         \* callbacks started, per dead letter
          returned      \* dead letters a callback returned normally for

vars == <<letters, registered, sweeping, pc, delivery, late, runs, returned>>

-----------------------------------------------------------------------------
(* life numbers the dead letters of one job and stands for completed_at.    *)
(* waiting: dead_letter_notify_after is in the future.  recent: the job was *)
(* dead-lettered within SWEEP_WINDOW.                                       *)
Letter == [dead : BOOLEAN, life : 0 .. MaxLives, notified : BOOLEAN, waiting : BOOLEAN,
           attempts : Nat, recent : BOOLEAN]

NewLetter == [dead |-> FALSE, life |-> 0, notified |-> FALSE, waiting |-> FALSE,
              attempts |-> 0, recent |-> FALSE]

(* A claimed delivery: life is dead_at as it was selected; charged, which   *)
(* the code does not have, is the dead letter whose row the claim updated.  *)
Delivery == [job : Job, attempt : Nat, life : Nat, charged : Nat]

PC == {"idle", "selected", "claimed", "calling", "succeeded", "failed", "releasing"}

InFlight(s) == pc[s] \notin {"idle", "selected"}

Init ==
    /\ letters = [j \in Job |-> NewLetter]
    /\ registered = [s \in Sweeper |-> TRUE]
    /\ sweeping = [s \in Sweeper |-> FALSE]
    /\ pc = [s \in Sweeper |-> "idle"]
    /\ delivery = [s \in Sweeper |-> NoDelivery]
    /\ late = [s \in Sweeper |-> FALSE]
    /\ runs = [j \in Job |-> [n \in 0 .. MaxLives |-> 0]]
    /\ returned = [j \in Job |-> {}]

sweep == <<registered, sweeping, pc, delivery>>
ghosts == <<late, runs, returned>>

-----------------------------------------------------------------------------
(* The job and the clock.                                                    *)

Died(r) == [r EXCEPT !.dead = TRUE, !.life = r.life + 1, !.recent = TRUE]

DeadLetter(j) ==
    /\ ~ letters[j].dead
    /\ letters[j].life < MaxLives
    /\ letters' = [letters EXCEPT ![j] = Died(@)]
    /\ UNCHANGED <<sweep, ghosts>>

Replayed(r) == [NewLetter EXCEPT !.life = r.life]

Replay(j) ==
    /\ letters[j].dead
    /\ letters' = [letters EXCEPT ![j] = Replayed(@)]
    /\ UNCHANGED <<sweep, ghosts>>

(* notify_after passes: a claim runs out, or a failed delivery is due again. *)
Lapse(j) ==
    /\ letters[j].waiting
    /\ letters' = [letters EXCEPT ![j] = [@ EXCEPT !.waiting = FALSE]]
    /\ late' = [s \in Sweeper |->
                  late[s] \/ (InFlight(s) /\ delivery[s].job = j
                              /\ delivery[s].charged = letters[j].life)]
    /\ UNCHANGED <<sweep, runs, returned>>

GrowOld(j) ==
    /\ letters[j].recent
    /\ letters' = [letters EXCEPT ![j] = [@ EXCEPT !.recent = FALSE]]
    /\ UNCHANGED <<sweep, ghosts>>

(* The host registers the subscriber again, with or without a callback. *)
Register(s) ==
    /\ s \in Unsteady
    /\ registered' = [registered EXCEPT ![s] = ~ @]
    /\ UNCHANGED <<letters, sweeping, pc, delivery, ghosts>>

-----------------------------------------------------------------------------
(* Mutants of Due: a claim in force does not keep other processes away; a *)
(* notify_after that has passed does not count as due.                    *)
DueAnyway(r) == r.dead /\ ~ r.notified

DueWhileUnset(r) == r.dead /\ ~ r.notified /\ ~ r.waiting /\ r.attempts = 0

(* The condition of the select, which the update repeats. *)
Due(r) == r.dead /\ ~ r.notified /\ ~ r.waiting

StartSweep(s) ==
    /\ pc[s] = "idle"
    /\ ~ sweeping[s]
    /\ registered[s]
    /\ sweeping' = [sweeping EXCEPT ![s] = TRUE]
    /\ UNCHANGED <<letters, registered, pc, delivery, ghosts>>

(* Nothing is due, or the limit of the pass is reached. *)
EndSweep(s) ==
    /\ pc[s] = "idle"
    /\ sweeping[s]
    /\ sweeping' = [sweeping EXCEPT ![s] = FALSE]
    /\ UNCHANGED <<letters, registered, pc, delivery, ghosts>>

Select(s, j) ==
    /\ pc[s] = "idle"
    /\ sweeping[s]
    /\ Due(letters[j])
    /\ letters[j].attempts < MaxDeliveries
    /\ letters[j].recent
    /\ delivery' = [delivery EXCEPT ![s] = [job |-> j, attempt |-> letters[j].attempts + 1,
                                            life |-> letters[j].life, charged |-> 0]]
    /\ pc' = [pc EXCEPT ![s] = "selected"]
    /\ UNCHANGED <<letters, registered, sweeping, ghosts>>

(* Mutant of Won: the update does not compare dead_letter_attempts. *)
WonRegardless(r, d) == Due(r)

Won(r, d) == Due(r) /\ r.attempts = d.attempt - 1

Taken(r, d) == [r EXCEPT !.waiting = TRUE, !.attempts = d.attempt]

Win(s) ==
    LET d == delivery[s]
    IN  /\ pc[s] = "selected"
        /\ Won(letters[d.job], d)
        /\ letters' = [letters EXCEPT ![d.job] = Taken(@, d)]
        /\ delivery' = [delivery EXCEPT ![s] = [d EXCEPT !.charged = letters[d.job].life]]
        /\ pc' = [pc EXCEPT ![s] = "claimed"]
        /\ late' = [late EXCEPT ![s] = FALSE]
        /\ UNCHANGED <<registered, sweeping, runs, returned>>

(* The claim was lost to another process, or the database failed: the pass ends. *)
Lose(s) ==
    /\ pc[s] = "selected"
    /\ pc' = [pc EXCEPT ![s] = "idle"]
    /\ sweeping' = [sweeping EXCEPT ![s] = FALSE]
    /\ delivery' = [delivery EXCEPT ![s] = NoDelivery]
    /\ UNCHANGED <<letters, registered, ghosts>>

Call(s) ==
    /\ pc[s] = "claimed"
    /\ registered[s]
    /\ pc' = [pc EXCEPT ![s] = "calling"]
    /\ runs' = [runs EXCEPT ![delivery[s].job][delivery[s].charged] = @ + 1]
    /\ UNCHANGED <<letters, registered, sweeping, delivery, late, returned>>

(* Re-registered without a callback since the claim. *)
CallbackGone(s) ==
    /\ pc[s] = "claimed"
    /\ ~ registered[s]
    /\ pc' = [pc EXCEPT ![s] = "releasing"]
    /\ sweeping' = [sweeping EXCEPT ![s] = FALSE]
    /\ UNCHANGED <<letters, registered, delivery, ghosts>>

Return(s) ==
    /\ pc[s] = "calling"
    /\ pc' = [pc EXCEPT ![s] = "succeeded"]
    /\ returned' = [returned EXCEPT ![delivery[s].job] = @ \cup {delivery[s].life}]
    /\ UNCHANGED <<letters, registered, sweeping, delivery, late, runs>>

Raise(s) ==
    /\ pc[s] = "calling"
    /\ pc' = [pc EXCEPT ![s] = "failed"]
    /\ UNCHANGED <<letters, registered, sweeping, delivery, ghosts>>

-----------------------------------------------------------------------------
(* Mutant of LiveClaim: the dead letter is not compared. *)
LiveWhateverLife(r, d) == r.dead /\ ~ r.notified /\ r.attempts = d.attempt

(* _update_dead_letter: is d the live claim of the same dead letter? *)
LiveClaim(r, d) ==
    /\ r.dead
    /\ ~ r.notified
    /\ r.attempts = d.attempt
    /\ r.life = d.life

Notified(r) == [r EXCEPT !.notified = TRUE, !.waiting = FALSE]

(* Mutant of Deferred: a failed delivery is not counted. *)
DeferredUncounted(r) == [r EXCEPT !.waiting = TRUE, !.attempts = @ - 1]

Deferred(r) == [r EXCEPT !.waiting = TRUE]

Released(r, d) == [r EXCEPT !.waiting = FALSE, !.attempts = d.attempt - 1]

Settled(r, d, how) ==
    IF how = "succeeded" THEN Notified(r)
    ELSE IF how = "failed" THEN Deferred(r) ELSE Released(r, d)

Forget(s) ==
    /\ pc' = [pc EXCEPT ![s] = "idle"]
    /\ delivery' = [delivery EXCEPT ![s] = NoDelivery]

Record(s) ==
    /\ pc[s] \in {"succeeded", "failed", "releasing"}
    /\ letters' = IF LiveClaim(letters[delivery[s].job], delivery[s])
                  THEN [letters EXCEPT ![delivery[s].job] = Settled(@, delivery[s], pc[s])]
                  ELSE letters
    /\ Forget(s)
    /\ UNCHANGED <<registered, sweeping, ghosts>>

(* _record swallows a database failure; the delivery repeats. *)
RecordFail(s) ==
    /\ pc[s] \in {"succeeded", "failed", "releasing"}
    /\ Forget(s)
    /\ UNCHANGED <<letters, registered, sweeping, ghosts>>

Crash(s) ==
    /\ s \in Unsteady
    /\ pc[s] # "idle"
    /\ Forget(s)
    /\ sweeping' = [sweeping EXCEPT ![s] = FALSE]
    /\ UNCHANGED <<letters, registered, ghosts>>

-----------------------------------------------------------------------------
JobStep(j) == DeadLetter(j) \/ Replay(j) \/ Lapse(j) \/ GrowOld(j)

SweepStep(s) ==
    \/ Register(s) \/ StartSweep(s) \/ EndSweep(s) \/ Win(s) \/ Lose(s)
    \/ Call(s) \/ CallbackGone(s) \/ Return(s) \/ Raise(s)
    \/ Record(s) \/ RecordFail(s) \/ Crash(s)
    \/ \E j \in Job : Select(s, j)

Next ==
    \/ \E j \in Job : JobStep(j)
    \/ \E s \in Sweeper : SweepStep(s)

Spec == Init /\ [][Next]_vars

(* The sweep is scheduled for ever, callbacks return or raise, and a steady *)
(* process does not lose every race for a claim.  Subscribers register at   *)
(* startup, so nobody goes on registering for ever.                         *)
Fairness ==
    /\ <>[][\A s \in Sweeper : ~ Register(s)]_vars
    /\ \A j \in Job : WF_vars(Lapse(j))
    /\ \A s \in Sweeper :
          WF_vars(\/ Win(s) \/ Lose(s) \/ Call(s) \/ CallbackGone(s) \/ Return(s) \/ Raise(s)
                  \/ Record(s) \/ RecordFail(s))
    /\ \A s \in Sweeper \ Unsteady :
          /\ WF_vars(StartSweep(s))
          /\ SF_vars(Win(s))
          /\ \A j \in Job : SF_vars(Select(s, j))

FairSpec == Spec /\ Fairness

-----------------------------------------------------------------------------
(* Every variable stays in its type; dead_letter_attempts never goes below *)
(* zero, although release_dead_letter_claim subtracts from it.             *)
TypeOK ==
    /\ letters \in [Job -> Letter]
    /\ registered \in [Sweeper -> BOOLEAN]
    /\ sweeping \in [Sweeper -> BOOLEAN]
    /\ pc \in [Sweeper -> PC]
    /\ delivery \in [Sweeper -> Delivery \cup {NoDelivery}]
    /\ \A s \in Sweeper : pc[s] # "idle" => delivery[s] # NoDelivery
    /\ late \in [Sweeper -> BOOLEAN]
    /\ runs \in [Job -> [0 .. MaxLives -> Nat]]
    /\ returned \in [Job -> SUBSET Nat]

(* claim_dead_letter_callbacks: the delivery count is a token, so no two    *)
(* deliveries of one dead letter under way at once share it, although a     *)
(* release takes the count back.                                            *)
SameLetter(s, t) ==
    /\ delivery[s].job = delivery[t].job
    /\ delivery[s].charged = delivery[t].charged

TokenUnique ==
    \A s, t \in Sweeper :
        InFlight(s) /\ InFlight(t) /\ SameLetter(s, t) /\ s # t
            => delivery[s].attempt # delivery[t].attempt

(* MAX_DELIVERIES: the callback is started at most that often for one dead  *)
(* letter, through lapsed claims, releases, crashes and lost records.       *)
DeliveriesBounded ==
    \A j \in Job : \A n \in 0 .. MaxLives : runs[j][n] <= MaxDeliveries

(* mark_dead_letter_notified: a dead letter is marked only after a callback *)
(* that was given that very dead letter returned, not an earlier one of the *)
(* same job.                                                                *)
NotifiedTruthfully ==
    \A j \in Job : letters[j].notified => letters[j].life \in returned[j]

(* CLAIM_LEASE_SECONDS: the callback of a dead letter runs twice at once    *)
(* only after the claim of the earlier delivery ran out.                    *)
OverlapOnlyWhenLate ==
    \A s, t \in Sweeper :
        pc[s] = "calling" /\ pc[t] = "calling" /\ SameLetter(s, t) /\ s # t
            => late[s] \/ late[t]

(* claim_dead_letter_delivery: the deliveries of one dead letter are told   *)
(* apart by their tokens, and overlap only where a claim ran out.           *)
DeliveriesFenced == TokenUnique /\ OverlapOnlyWhenLate

(* A dead letter is not forgotten: it is notified, given up after the last  *)
(* delivery, replayed, or older than the sweep window.                      *)
Dealt(r) == r.notified \/ r.attempts = MaxDeliveries \/ ~ r.dead \/ ~ r.recent

EveryLetterDealtWith == \A j \in Job : letters[j].dead ~> Dealt(letters[j])
=============================================================================
