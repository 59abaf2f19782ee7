------------------------- MODULE DeadLettersProofs -------------------------
(***************************************************************************)
(* Proofs about DeadLetters for any number of processes, jobs, deliveries  *)
(* and replays.                                                            *)
(***************************************************************************)
EXTENDS DeadLetters, FiniteSetTheorems, TLAPS

Target(s) == letters[delivery[s].job]

(* The delivery is of the dead letter that the row is now. *)
Current(s) == InFlight(s) /\ Target(s).dead /\ delivery[s].charged = Target(s).life

(* A delivery knows an existing dead letter, never a newer one than the one *)
(* it is charged to.                                                        *)
DeliveryOK ==
    \A s \in Sweeper :
        /\ pc[s] # "idle" =>
              delivery[s] \in Delivery /\ delivery[s].attempt > 0
              /\ delivery[s].life <= Target(s).life
        /\ InFlight(s) =>
              delivery[s].life <= delivery[s].charged /\ delivery[s].charged <= Target(s).life

(* The count on the row is at least every token still out, and a claim that *)
(* has not run out keeps other processes away.                              *)
CountCoversTokens ==
    \A s \in Sweeper : Current(s) => delivery[s].attempt <= Target(s).attempts

ClaimHolds ==
    \A s \in Sweeper : Current(s) /\ ~ late[s] => Target(s).waiting \/ Target(s).notified

(* Of two deliveries of one dead letter, the older has run out. *)
OlderIsLate ==
    \A s, t \in Sweeper :
        InFlight(s) /\ InFlight(t) /\ SameLetter(s, t)
        /\ delivery[s].attempt < delivery[t].attempt => late[s]

OnlyDeadNotified == \A j \in Job : letters[j].notified => letters[j].dead

SucceededReturned ==
    \A s \in Sweeper : pc[s] = "succeeded" => delivery[s].life \in returned[delivery[s].job]

Inv ==
    /\ TypeOK /\ DeliveryOK /\ CountCoversTokens /\ ClaimHolds
    /\ TokenUnique /\ OlderIsLate
    /\ OnlyDeadNotified /\ SucceededReturned /\ NotifiedTruthfully

(* No sweep is under way and nothing is dead at first. *)
LEMMA InvInit == Init => Inv
<1> SUFFICES ASSUME Init PROVE Inv
  OBVIOUS
<1>1. TypeOK
  BY DeliveryAssumption DEF Init, TypeOK, Letter, NewLetter, PC
<1>2. \A s \in Sweeper : pc[s] = "idle" /\ ~ InFlight(s)
  BY DEF Init, InFlight
<1>3. \A j \in Job : ~ letters[j].notified
  BY DEF Init, NewLetter
<1> QED
  BY <1>1, <1>2, <1>3 DEF Inv, DeliveryOK, CountCoversTokens, ClaimHolds, TokenUnique,
     OlderIsLate, OnlyDeadNotified, SucceededReturned, NotifiedTruthfully, Current

(* What each write leaves in the row. *)
LEMMA WritesTyped ==
    ASSUME NEW r \in Letter
    PROVE  /\ r.life < MaxLives => Died(r) \in Letter
           /\ Replayed(r) \in Letter
           /\ [r EXCEPT !.waiting = FALSE] \in Letter
           /\ [r EXCEPT !.recent = FALSE] \in Letter
           /\ Notified(r) \in Letter
           /\ Deferred(r) \in Letter
           /\ \A d \in Delivery : Taken(r, d) \in Letter
           /\ \A d \in Delivery : d.attempt > 0 => Released(r, d) \in Letter
<1> USE DeliveryAssumption DEF Letter, Delivery
<1>1. ASSUME r.life < MaxLives PROVE Died(r) \in Letter
  <2>1. r.life + 1 \in 0 .. MaxLives
    BY <1>1
  <2> QED
    BY <2>1 DEF Died
<1>2. Replayed(r) \in Letter
  BY DEF Replayed, NewLetter
<1>3. [r EXCEPT !.waiting = FALSE] \in Letter /\ [r EXCEPT !.recent = FALSE] \in Letter
  OBVIOUS
<1>4. Notified(r) \in Letter /\ Deferred(r) \in Letter
  BY DEF Notified, Deferred
<1>5. \A d \in Delivery : Taken(r, d) \in Letter
  BY DEF Taken
<1>6. ASSUME NEW d \in Delivery, d.attempt > 0 PROVE Released(r, d) \in Letter
  <2>1. d.attempt - 1 \in Nat
    BY <1>6
  <2> QED
    BY <2>1 DEF Released
<1> QED
  BY <1>1, <1>2, <1>3, <1>4, <1>5, <1>6

(* The variables stay in their types. *)
LEMMA TypeStep == TypeOK /\ DeliveryOK /\ [Next]_vars => TypeOK'
<1> SUFFICES ASSUME TypeOK, DeliveryOK, [Next]_vars PROVE TypeOK'
  OBVIOUS
<1> USE DeliveryAssumption DEF TypeOK, PC, sweep, ghosts
<1>1. CASE UNCHANGED vars
  BY <1>1 DEF vars
<1>2. ASSUME NEW j \in Job, JobStep(j) PROVE TypeOK'
  <2>1. CASE DeadLetter(j)
    BY <2>1, WritesTyped DEF DeadLetter
  <2>2. CASE Replay(j)
    BY <2>2, WritesTyped DEF Replay
  <2>3. CASE Lapse(j)
    BY <2>3, WritesTyped DEF Lapse
  <2>4. CASE GrowOld(j)
    BY <2>4, WritesTyped DEF GrowOld
  <2> QED
    BY <1>2, <2>1, <2>2, <2>3, <2>4 DEF JobStep
<1>3. ASSUME NEW s \in Sweeper, SweepStep(s) PROVE TypeOK'
  <2> USE <1>3
  <2>1. CASE Register(s)
    BY <2>1 DEF Register
  <2>2. CASE StartSweep(s) \/ EndSweep(s)
    BY <2>2 DEF StartSweep, EndSweep
  <2>3. ASSUME NEW j \in Job, Select(s, j) PROVE TypeOK'
    <3>1. letters[j].attempts + 1 \in Nat /\ letters[j].life \in Nat
      BY DEF Letter
    <3>2. delivery'[s] \in Delivery /\ delivery'[s] # NoDelivery
      BY <2>3, <3>1 DEF Select, Delivery
    <3> QED
      BY <2>3, <3>2 DEF Select
  <2>4. CASE Win(s)
    <3> DEFINE d == delivery[s]
    <3>1. d \in Delivery /\ letters[d.job] \in Letter
      BY <2>4 DEF Win, DeliveryOK, Delivery
    <3>2. [d EXCEPT !.charged = letters[d.job].life] \in Delivery
      <4>1. letters[d.job].life \in Nat
        BY <3>1 DEF Letter
      <4> QED
        BY <3>1, <4>1 DEF Delivery
    <3>3. [d EXCEPT !.charged = letters[d.job].life] # NoDelivery
      BY <3>2 DEF Delivery
    <3>4. letters' \in [Job -> Letter]
      BY <2>4, <3>1, WritesTyped DEF Win
    <3> QED
      BY <2>4, <3>2, <3>3, <3>4 DEF Win
  <2>5. CASE Lose(s)
    BY <2>5 DEF Lose
  <2>6. CASE Call(s)
    <3>1. delivery[s].job \in Job /\ delivery[s].charged \in 0 .. MaxLives
      <4>1. /\ delivery[s] \in Delivery
            /\ delivery[s].charged <= letters[delivery[s].job].life
        BY <2>6 DEF Call, DeliveryOK, InFlight, Target
      <4>2. delivery[s].job \in Job /\ delivery[s].charged \in Nat
        BY <4>1 DEF Delivery
      <4>3. letters[delivery[s].job].life \in 0 .. MaxLives
        BY <4>2 DEF Letter
      <4> QED
        BY <4>1, <4>2, <4>3
    <3> DEFINE j == delivery[s].job
               n == delivery[s].charged
               counts == [runs[j] EXCEPT ![n] = @ + 1]
    <3>2. runs' = [runs EXCEPT ![j] = counts]
      BY <2>6 DEF Call
    <3>3. runs[j] \in [0 .. MaxLives -> Nat] /\ n \in 0 .. MaxLives /\ j \in Job
      BY <3>1
    <3> HIDE DEF j, n
    <3>4. counts \in [0 .. MaxLives -> Nat]
      BY <3>3
    <3> HIDE DEF counts
    <3>5. runs' \in [Job -> [0 .. MaxLives -> Nat]]
      BY <3>2, <3>3, <3>4
    <3> QED
      BY <2>6, <3>5 DEF Call
  <2>7. CASE CallbackGone(s)
    BY <2>7 DEF CallbackGone
  <2>8. CASE Return(s)
    <3>1. delivery[s].job \in Job /\ delivery[s].life \in Nat
      BY <2>8 DEF Return, DeliveryOK, Delivery
    <3>2. returned' \in [Job -> SUBSET Nat]
      BY <2>8, <3>1 DEF Return
    <3> QED
      BY <2>8, <3>2 DEF Return
  <2>9. CASE Raise(s)
    BY <2>9 DEF Raise
  <2>10. CASE Record(s)
    <3>1. /\ delivery[s] \in Delivery /\ delivery[s].attempt > 0
          /\ delivery[s].job \in Job
      BY <2>10 DEF Record, DeliveryOK, Delivery
    <3>2. Settled(Target(s), delivery[s], pc[s]) \in Letter
      BY <3>1, WritesTyped DEF Settled, Target
    <3> QED
      BY <2>10, <3>1, <3>2 DEF Record, Forget, Target
  <2>11. CASE RecordFail(s)
    BY <2>11 DEF RecordFail, Forget
  <2>12. CASE Crash(s)
    BY <2>12 DEF Crash, Forget
  <2> QED
    BY <2>1, <2>2, <2>3, <2>4, <2>5, <2>6, <2>7, <2>8, <2>9, <2>10, <2>11, <2>12
    DEF SweepStep
<1> QED
  BY <1>1, <1>2, <1>3 DEF Next

-----------------------------------------------------------------------------
(* The rest of the invariant, without the types. *)
Rest ==
    /\ DeliveryOK /\ CountCoversTokens /\ ClaimHolds
    /\ TokenUnique /\ OlderIsLate
    /\ OnlyDeadNotified /\ SucceededReturned /\ NotifiedTruthfully

(* The types of what the steps compare. *)
LEMMA FieldTypes ==
    ASSUME TypeOK, DeliveryOK
    PROVE  /\ \A s \in Sweeper : pc[s] # "idle" =>
                  /\ delivery[s].job \in Job /\ delivery[s].attempt \in Nat
                  /\ delivery[s].life \in Nat /\ delivery[s].charged \in Nat
           /\ \A k \in Job : letters[k].life \in Nat /\ letters[k].attempts \in Nat
BY DeliveryAssumption DEF TypeOK, DeliveryOK, Delivery, Letter

(* A step of a job or of the clock preserves it. *)
LEMMA JobStepKeepsRest ==
    ASSUME Inv, NEW j \in Job, JobStep(j)
    PROVE  Rest'
<1> USE DEF Inv, Rest
<1>0. /\ UNCHANGED <<registered, sweeping, pc, delivery, runs, returned>>
      /\ \A k \in Job \ {j} : letters'[k] = letters[k]
      /\ \A s \in Sweeper : InFlight(s)' <=> InFlight(s)
      /\ \A s \in Sweeper : late[s] => late'[s]
  BY DEF TypeOK, JobStep, DeadLetter, Replay, Lapse, GrowOld, InFlight, sweep, ghosts
<1>1. /\ \A s \in Sweeper : pc[s] # "idle" =>
            delivery[s].job \in Job /\ delivery[s].life \in Nat /\ delivery[s].charged \in Nat
      /\ \A k \in Job : letters[k].life \in Nat
      /\ \A s \in Sweeper : InFlight(s) => pc[s] # "idle"
  BY FieldTypes DEF InFlight
<1>2. TokenUnique' /\ OlderIsLate' /\ SucceededReturned'
  BY <1>0 DEF TokenUnique, OlderIsLate, SucceededReturned, SameLetter
<1>3. ASSUME \A k \in Job : letters'[k].life \in {letters[k].life, letters[k].life + 1}
      PROVE  DeliveryOK'
  <2> SUFFICES ASSUME NEW s \in Sweeper, pc[s] # "idle"
               PROVE  /\ delivery[s].life <= Target(s)'.life
                      /\ InFlight(s) => delivery[s].charged <= Target(s)'.life
    BY <1>0, <1>1 DEF DeliveryOK
  <2>1. /\ delivery[s].life <= Target(s).life
        /\ InFlight(s) => delivery[s].charged <= Target(s).life
    BY DEF DeliveryOK
  <2>2. Target(s).life \in Nat /\ Target(s)'.life \in {Target(s).life, Target(s).life + 1}
    BY <1>0, <1>1, <1>3 DEF Target
  <2> QED
    BY <1>1, <2>1, <2>2
(* A delivery is still current only if the row still is the same dead letter. *)
<1>4. ASSUME NEW s \in Sweeper, Current(s)'
      PROVE  /\ Current(s) /\ pc[s] # "idle"
             /\ Target(s)'.attempts = Target(s).attempts
             /\ Target(s)'.notified = Target(s).notified
             /\ late'[s] \/ Target(s)'.waiting = Target(s).waiting
  <2>1. InFlight(s) /\ pc[s] # "idle" /\ Target(s)'.dead /\ delivery[s].charged = Target(s)'.life
    BY <1>0, <1>1, <1>4 DEF Current
  <2>2. delivery[s].job \in Job /\ delivery[s].charged \in Nat /\ Target(s).life \in Nat
    BY <1>1, <2>1 DEF Target
  <2>3. delivery[s].charged <= Target(s).life
    BY <2>1 DEF DeliveryOK
  <2>4. CASE delivery[s].job # j
    BY <1>0, <2>1, <2>2, <2>4 DEF Current, Target
  <2>5. CASE delivery[s].job = j
    <3>1. ~ DeadLetter(j)
      <4> SUFFICES ASSUME DeadLetter(j) PROVE FALSE
        OBVIOUS
      <4>1. Target(s)'.life = Target(s).life + 1
        BY <1>0, <2>5 DEF DeadLetter, Died, Target, TypeOK, Letter
      <4> QED
        BY <2>1, <2>2, <2>3, <4>1
    <3>2. ~ Replay(j)
      BY <1>0, <2>1, <2>5 DEF Replay, Replayed, NewLetter, Target, TypeOK
    <3>3. CASE GrowOld(j)
      BY <1>0, <2>1, <2>5, <3>3 DEF GrowOld, Current, Target, TypeOK, Letter
    <3>4. CASE Lapse(j)
      BY <1>0, <2>1, <2>5, <3>4 DEF Lapse, Current, Target, TypeOK, Letter
    <3> QED
      BY <3>1, <3>2, <3>3, <3>4 DEF JobStep
  <2> QED
    BY <2>4, <2>5
<1>5. CountCoversTokens' /\ ClaimHolds'
  BY <1>0, <1>4 DEF CountCoversTokens, ClaimHolds
<1>6. /\ \A k \in Job : letters'[k].life \in {letters[k].life, letters[k].life + 1}
      /\ OnlyDeadNotified' /\ NotifiedTruthfully'
  <2>1. CASE DeadLetter(j)
    BY <1>0, <2>1 DEF DeadLetter, Died, TypeOK, Letter, OnlyDeadNotified, NotifiedTruthfully
  <2>2. CASE Replay(j)
    BY <1>0, <2>2 DEF Replay, Replayed, NewLetter, TypeOK, OnlyDeadNotified, NotifiedTruthfully
  <2>3. CASE GrowOld(j)
    BY <1>0, <2>3 DEF GrowOld, TypeOK, Letter, OnlyDeadNotified, NotifiedTruthfully
  <2>4. CASE Lapse(j)
    BY <1>0, <2>4 DEF Lapse, TypeOK, Letter, OnlyDeadNotified, NotifiedTruthfully
  <2> QED
    BY <2>1, <2>2, <2>3, <2>4 DEF JobStep
<1> QED
  BY <1>2, <1>3, <1>5, <1>6

(* What the steps have in common that write neither the row nor a claim. *)
Quiet ==
    /\ letters' = letters /\ late' = late
    /\ \A t \in Sweeper : InFlight(t)' => InFlight(t) /\ delivery'[t] = delivery[t]
    /\ \A t \in Sweeper : pc'[t] # "idle" =>
          \/ pc[t] # "idle" /\ delivery'[t] = delivery[t]
          \/ /\ delivery'[t] \in Delivery /\ delivery'[t].attempt > 0
             /\ delivery'[t].life <= Target(t)'.life
    /\ \A t \in Sweeper : pc'[t] = "succeeded" =>
          \/ pc[t] = "succeeded" /\ delivery'[t] = delivery[t]
          \/ delivery'[t].life \in returned'[delivery'[t].job]
    /\ \A k \in Job : returned[k] \subseteq returned'[k]

(* A quiet step preserves the rest of the invariant. *)
LEMMA QuietKeepsRest == Inv /\ Quiet => Rest'
<1> SUFFICES ASSUME Inv, Quiet PROVE Rest'
  OBVIOUS
<1> USE DEF Inv, Rest, Quiet
<1>1. \A t \in Sweeper : InFlight(t) => pc[t] # "idle" /\ delivery[t].job \in Job
  BY FieldTypes DEF InFlight
<1>2. \A t \in Sweeper : pc[t] # "idle" => delivery[t].job \in Job
  BY FieldTypes
<1>3. DeliveryOK'
  BY <1>1 DEF DeliveryOK, Target, InFlight
<1>4. CountCoversTokens' /\ ClaimHolds'
  BY DEF CountCoversTokens, ClaimHolds, Current, Target
<1>5. TokenUnique' /\ OlderIsLate'
  BY DEF TokenUnique, OlderIsLate, SameLetter
<1>6. OnlyDeadNotified' /\ NotifiedTruthfully'
  BY DEF OnlyDeadNotified, NotifiedTruthfully
<1>7. SucceededReturned'
  BY <1>2 DEF SucceededReturned
<1> QED
  BY <1>3, <1>4, <1>5, <1>6, <1>7

(* Which steps of a sweep are quiet. *)
LEMMA QuietSteps ==
    ASSUME Inv, NEW s \in Sweeper, SweepStep(s), ~ Win(s), ~ Record(s)
    PROVE  Quiet
<1> USE DEF Inv, TypeOK, Quiet, InFlight, sweep, ghosts
<1>1. CASE Register(s) \/ StartSweep(s) \/ EndSweep(s)
  BY <1>1 DEF Register, StartSweep, EndSweep
<1>2. ASSUME NEW j \in Job, Select(s, j) PROVE Quiet
  <2>1. /\ delivery'[s] \in Delivery /\ delivery'[s].attempt > 0
        /\ delivery'[s].life = letters[delivery'[s].job].life
        /\ letters[delivery'[s].job].life \in Nat
    <3>1. letters[j].attempts \in Nat /\ letters[j].life \in Nat
      BY FieldTypes
    <3> QED
      BY <1>2, <3>1 DEF Select, Delivery
  <2>2. delivery'[s].life <= Target(s)'.life
    BY <1>2, <2>1 DEF Select, Target
  <2> QED
    BY <1>2, <2>1, <2>2 DEF Select
<1>3. CASE Lose(s) \/ RecordFail(s) \/ Crash(s)
  BY <1>3 DEF Lose, RecordFail, Crash, Forget
<1>4. CASE Call(s) \/ CallbackGone(s) \/ Raise(s)
  BY <1>4 DEF Call, CallbackGone, Raise
<1>5. CASE Return(s)
  <2>1. delivery[s].job \in Job
    BY <1>5, FieldTypes DEF Return
  <2> QED
    BY <1>5, <2>1 DEF Return
<1> QED
  BY <1>1, <1>2, <1>3, <1>4, <1>5 DEF SweepStep

(* Winning a claim: the new token is above every token still out, and every *)
(* other claim on the dead letter has run out, because the row was due.     *)
LEMMA WinKeepsRest ==
    ASSUME Inv, NEW s \in Sweeper, Win(s)
    PROVE  Rest'
<1> DEFINE j == delivery[s].job
           d == delivery'[s]
<1> USE DEF Inv, Rest
<1>0. /\ pc[s] = "selected" /\ ~ InFlight(s) /\ InFlight(s)' /\ pc'[s] = "claimed"
      /\ j \in Job /\ delivery[s] \in Delivery
      /\ delivery[s].attempt \in Nat /\ delivery[s].life \in Nat
      /\ letters[j].life \in Nat /\ letters[j].attempts \in Nat
  BY FieldTypes DEF Win, TypeOK, DeliveryOK, InFlight
<1>1. /\ letters[j].dead /\ ~ letters[j].notified /\ ~ letters[j].waiting
      /\ letters[j].attempts = delivery[s].attempt - 1
  BY DEF Win, Won, Due
<1>2. /\ d.job = j /\ d.attempt = delivery[s].attempt /\ d.life = delivery[s].life
      /\ d.charged = letters[j].life /\ d \in Delivery
  BY <1>0 DEF Win, TypeOK, Delivery
<1>3. /\ letters'[j].dead /\ ~ letters'[j].notified /\ letters'[j].waiting
      /\ letters'[j].attempts = delivery[s].attempt
      /\ letters'[j].life = letters[j].life
      /\ \A k \in Job : k # j => letters'[k] = letters[k]
  BY <1>0, <1>1 DEF Win, Taken, TypeOK, Letter
<1>4. /\ \A t \in Sweeper : t # s =>
            /\ InFlight(t)' <=> InFlight(t)
            /\ delivery'[t] = delivery[t] /\ late'[t] = late[t] /\ pc'[t] = pc[t]
      /\ returned' = returned
  BY DEF Win, InFlight, TypeOK
<1>5. \A t \in Sweeper : pc[t] # "idle" =>
         delivery[t].job \in Job /\ delivery[t].attempt \in Nat
         /\ delivery[t].charged \in Nat /\ delivery[t].life \in Nat
  BY FieldTypes
<1>6. \A t \in Sweeper : InFlight(t) => pc[t] # "idle"
  BY DEF InFlight
<1>7. \A t \in Sweeper : InFlight(t) /\ delivery[t].job = j /\ delivery[t].charged = letters[j].life
         => Current(t) /\ delivery[t].attempt < delivery[s].attempt /\ late[t]
  <2> SUFFICES ASSUME NEW t \in Sweeper, InFlight(t), delivery[t].job = j,
                      delivery[t].charged = letters[j].life
               PROVE  Current(t) /\ delivery[t].attempt < delivery[s].attempt /\ late[t]
    OBVIOUS
  <2>1. Current(t) /\ Target(t) = letters[j]
    BY <1>1 DEF Current, Target
  <2>2. delivery[t].attempt <= letters[j].attempts
    BY <2>1 DEF CountCoversTokens
  <2>3. late[t]
    BY <1>1, <2>1 DEF ClaimHolds
  <2> QED
    BY <1>0, <1>1, <1>5, <1>6, <2>1, <2>2, <2>3
<1>8. DeliveryOK'
  <2>1. delivery[s].life <= letters[j].life /\ delivery[s].attempt > 0
    BY <1>0 DEF DeliveryOK, Target
  <2>2. ASSUME NEW t \in Sweeper, t # s, pc[t] # "idle"
        PROVE  Target(t)'.life = Target(t).life
    BY <1>3, <1>4, <1>5, <2>2 DEF Target
  <2>3. Target(s)'.life = letters[j].life
    BY <1>2, <1>3 DEF Target
  <2> QED
    BY <1>0, <1>2, <1>4, <1>6, <2>1, <2>2, <2>3 DEF DeliveryOK
<1>9. CountCoversTokens' /\ ClaimHolds'
  <2>1. Target(s)' = letters'[j]
    BY <1>2 DEF Target
  <2>2. ASSUME NEW t \in Sweeper, t # s, Current(t)'
        PROVE  /\ delivery'[t].attempt <= Target(t)'.attempts
               /\ ~ late'[t] => Target(t)'.waiting \/ Target(t)'.notified
    <3>1. InFlight(t) /\ delivery[t].job \in Job
      BY <1>4, <1>5, <1>6, <2>2 DEF Current
    <3>2. CASE delivery[t].job = j
      <4>1. delivery[t].charged = letters[j].life
        BY <1>3, <1>4, <2>2, <3>2 DEF Current, Target
      <4>2. delivery[t].attempt < delivery[s].attempt /\ late[t]
        BY <1>7, <3>1, <3>2, <4>1
      <4> QED
        BY <1>0, <1>3, <1>4, <1>5, <1>6, <2>2, <3>1, <3>2, <4>2 DEF Target
    <3>3. CASE delivery[t].job # j
      <4>1. Current(t) /\ Target(t)' = Target(t)
        BY <1>3, <1>4, <2>2, <3>1, <3>3 DEF Current, Target
      <4> QED
        BY <1>4, <2>2, <4>1 DEF CountCoversTokens, ClaimHolds
    <3> QED
      BY <3>2, <3>3
  <2> QED
    BY <1>0, <1>2, <1>3, <2>1, <2>2 DEF CountCoversTokens, ClaimHolds
<1>10. ASSUME NEW t \in Sweeper, t # s, InFlight(t)', SameLetter(s, t)'
       PROVE  /\ late'[t] /\ delivery'[t].attempt < d.attempt
              /\ delivery'[t].attempt \in Nat /\ d.attempt \in Nat
  BY <1>0, <1>2, <1>4, <1>5, <1>6, <1>7, <1>10 DEF SameLetter
<1>11. \A t, u \in Sweeper : SameLetter(t, u)' <=> SameLetter(u, t)'
  BY DEF SameLetter
<1>12. \A t, u \in Sweeper : t # s /\ u # s => (SameLetter(t, u)' <=> SameLetter(t, u))
  BY <1>4 DEF SameLetter
<1>13. TokenUnique'
  BY <1>4, <1>10, <1>11, <1>12 DEF TokenUnique
<1>14. OlderIsLate'
  BY <1>2, <1>4, <1>0, <1>10, <1>11, <1>12 DEF OlderIsLate
<1>15. OnlyDeadNotified' /\ NotifiedTruthfully' /\ SucceededReturned'
  BY <1>0, <1>3, <1>4 DEF OnlyDeadNotified, NotifiedTruthfully, SucceededReturned
<1> QED
  BY <1>8, <1>9, <1>13, <1>14, <1>15

(* Recording an outcome.  Only the newest token can be live, so a release   *)
(* takes the count back to no less than the tokens still out, and every     *)
(* other claim on the dead letter has run out already.                      *)
LEMMA RecordKeepsRest ==
    ASSUME Inv, NEW s \in Sweeper, Record(s)
    PROVE  Rest'
<1> DEFINE j == delivery[s].job
           live == LiveClaim(letters[j], delivery[s])
<1> USE DEF Inv, Rest
<1>0. /\ pc[s] \in {"succeeded", "failed", "releasing"} /\ InFlight(s) /\ pc'[s] = "idle"
      /\ j \in Job /\ delivery[s].attempt \in Nat /\ delivery[s].life \in Nat
      /\ delivery[s].charged \in Nat
      /\ letters[j].life \in Nat /\ letters[j].attempts \in Nat
      /\ late' = late /\ returned' = returned
  BY FieldTypes DEF Record, Forget, TypeOK, InFlight, ghosts
<1>1. \A t \in Sweeper : t # s => delivery'[t] = delivery[t] /\ pc'[t] = pc[t]
  BY DEF Record, Forget, TypeOK
<1>2. \A t \in Sweeper : InFlight(t)' => t # s /\ InFlight(t)
  BY <1>0, <1>1 DEF InFlight
<1>3. CASE ~ live
  <2>1. Quiet
    <3>1. letters' = letters
      BY <1>3 DEF Record
    <3> QED
      BY <1>0, <1>1, <1>2, <3>1 DEF Quiet
  <2> QED
    BY <2>1, QuietKeepsRest
<1>4. CASE live
  <2>1. /\ letters[j].dead /\ ~ letters[j].notified
        /\ letters[j].attempts = delivery[s].attempt /\ letters[j].life = delivery[s].life
    BY <1>4 DEF LiveClaim
  <2>2. delivery[s].charged = letters[j].life
    BY <1>0, <2>1 DEF DeliveryOK, Target
  <2>3. /\ letters'[j].dead = letters[j].dead /\ letters'[j].life = letters[j].life
        /\ letters'[j].attempts \in {letters[j].attempts, letters[j].attempts - 1}
        /\ letters'[j].notified => pc[s] = "succeeded"
        /\ \A k \in Job : k # j => letters'[k] = letters[k]
    BY <1>0, <1>4, <2>1 DEF Record, Settled, Notified, Deferred, Released, TypeOK, Letter
  <2>4. \A t \in Sweeper : pc[t] # "idle" =>
           delivery[t].job \in Job /\ delivery[t].attempt \in Nat
    BY FieldTypes
  <2>5. \A t \in Sweeper : InFlight(t) => pc[t] # "idle"
    BY DEF InFlight
  <2>6. DeliveryOK'
    <3>1. ASSUME NEW t \in Sweeper, t # s, pc[t] # "idle"
          PROVE  Target(t)'.life = Target(t).life
      BY <1>1, <2>3, <2>4, <3>1 DEF Target
    <3> QED
      BY <1>0, <1>1, <1>2, <2>5, <3>1 DEF DeliveryOK
  <2>7. ASSUME NEW t \in Sweeper, Current(t)'
        PROVE  /\ delivery'[t].attempt <= Target(t)'.attempts
               /\ ~ late'[t] => Target(t)'.waiting \/ Target(t)'.notified
    <3>1. t # s /\ InFlight(t) /\ delivery'[t] = delivery[t]
          /\ delivery[t].job \in Job /\ delivery[t].attempt \in Nat
      BY <1>1, <1>2, <2>4, <2>5, <2>7 DEF Current
    <3>2. CASE delivery[t].job = j
      <4>1. Current(t) /\ SameLetter(t, s) /\ Target(t) = letters[j]
        BY <2>1, <2>2, <2>3, <2>7, <3>1, <3>2 DEF Current, Target, SameLetter
      <4>2. delivery[t].attempt <= delivery[s].attempt
        BY <2>1, <4>1 DEF CountCoversTokens
      <4>3. delivery[t].attempt # delivery[s].attempt
        BY <1>0, <3>1, <4>1 DEF TokenUnique
      <4>4. delivery[t].attempt < delivery[s].attempt
        BY <1>0, <3>1, <4>2, <4>3
      <4>5. late[t]
        BY <1>0, <3>1, <4>1, <4>4 DEF OlderIsLate
      <4>6. delivery[t].attempt <= letters'[j].attempts
        BY <1>0, <2>1, <2>3, <3>1, <4>4
      <4> QED
        BY <1>0, <3>1, <3>2, <4>5, <4>6 DEF Target
    <3>3. CASE delivery[t].job # j
      <4>1. Current(t) /\ Target(t)' = Target(t)
        BY <2>3, <2>7, <3>1, <3>3 DEF Current, Target
      <4> QED
        BY <1>0, <3>1, <4>1 DEF CountCoversTokens, ClaimHolds
    <3> QED
      BY <3>2, <3>3
  <2>8. CountCoversTokens' /\ ClaimHolds'
    BY <2>7 DEF CountCoversTokens, ClaimHolds
  <2>9. TokenUnique' /\ OlderIsLate'
    BY <1>0, <1>1, <1>2 DEF TokenUnique, OlderIsLate, SameLetter
  <2>10. OnlyDeadNotified' /\ NotifiedTruthfully'
    BY <1>0, <2>1, <2>3 DEF OnlyDeadNotified, NotifiedTruthfully, SucceededReturned
  <2>11. SucceededReturned'
    BY <1>0, <1>1 DEF SucceededReturned
  <2> QED
    BY <2>6, <2>8, <2>9, <2>10, <2>11
<1> QED
  BY <1>3, <1>4

(* Every step preserves the invariant. *)
LEMMA InvStep == Inv /\ [Next]_vars => Inv'
<1> SUFFICES ASSUME Inv, [Next]_vars PROVE Inv'
  OBVIOUS
<1>1. TypeOK'
  BY TypeStep DEF Inv
<1>2. CASE UNCHANGED vars
  <2>1. Quiet
    BY <1>2 DEF vars, Quiet, InFlight
  <2> QED
    BY <1>1, <2>1, QuietKeepsRest DEF Inv, Rest
<1>3. ASSUME NEW j \in Job, JobStep(j) PROVE Inv'
  BY <1>1, <1>3, JobStepKeepsRest DEF Inv, Rest
<1>4. ASSUME NEW s \in Sweeper, SweepStep(s) PROVE Inv'
  <2>1. CASE Win(s)
    BY <1>1, <2>1, WinKeepsRest DEF Inv, Rest
  <2>2. CASE Record(s)
    BY <1>1, <2>2, RecordKeepsRest DEF Inv, Rest
  <2>3. CASE ~ Win(s) /\ ~ Record(s)
    BY <1>1, <1>4, <2>3, QuietSteps, QuietKeepsRest DEF Inv, Rest
  <2> QED
    BY <2>1, <2>2, <2>3
<1> QED
  BY <1>2, <1>3, <1>4 DEF Next

(* The whole invariant. *)
THEOREM DeliveryInvariant == Spec => []Inv
BY InvInit, InvStep, PTL DEF Spec

(* The delivery count names one delivery, in claim_dead_letter_callbacks    *)
(* and _update_dead_letter, for any number of processes: no two deliveries  *)
(* of one dead letter under way share it.                                   *)
THEOREM TokensAreUnique == Spec => []TokenUnique
BY DeliveryInvariant, PTL DEF Inv

(* mark_dead_letter_notified marks a dead letter only if a callback for     *)
(* that very dead letter returned.                                          *)
THEOREM NotificationsAreTruthful == Spec => []NotifiedTruthfully
BY DeliveryInvariant, PTL DEF Inv

(* Two callbacks of one dead letter overlap only if the claim of one of     *)
(* them ran out (CLAIM_LEASE_SECONDS).                                      *)
THEOREM OverlapNeedsLapse == Spec => []OverlapOnlyWhenLate
<1>1. Inv => OverlapOnlyWhenLate
  <2> SUFFICES ASSUME Inv, NEW s \in Sweeper, NEW t \in Sweeper, pc[s] = "calling",
                      pc[t] = "calling", SameLetter(s, t), s # t
               PROVE  late[s] \/ late[t]
    BY DEF OverlapOnlyWhenLate
  <2>1. InFlight(s) /\ InFlight(t) /\ SameLetter(t, s)
    BY DEF InFlight, SameLetter
  <2>2. delivery[s].attempt \in Nat /\ delivery[t].attempt \in Nat
    BY FieldTypes DEF Inv
  <2>3. delivery[s].attempt < delivery[t].attempt \/ delivery[t].attempt < delivery[s].attempt
    BY <2>1, <2>2 DEF Inv, TokenUnique
  <2> QED
    BY <2>1, <2>3 DEF Inv, OlderIsLate
<1> QED
  BY <1>1, DeliveryInvariant, PTL

(* For any number of jobs and processes, the deliveries of one dead letter  *)
(* are told apart by their tokens and overlap only behind a claim that ran  *)
(* out, although releases take the count back (claim_dead_letter_callbacks).*)
THEOREM DeliveriesAreFenced == Spec => []DeliveriesFenced
<1>1. TokenUnique /\ OverlapOnlyWhenLate => DeliveriesFenced
  BY DEF DeliveriesFenced
<1> QED
  BY <1>1, TokensAreUnique, OverlapNeedsLapse, PTL

-----------------------------------------------------------------------------
(* How often a callback is started.                                          *)

(* The deliveries that are counted on the row and have not started a callback: *)
(* each may still start one, or give its count back.                           *)
Pending(j, n) ==
    {s \in Sweeper : pc[s] \in {"claimed", "releasing"}
                     /\ delivery[s].job = j /\ delivery[s].charged = n}

Charged(j, n) == runs[j][n] + Cardinality(Pending(j, n))

ChargesBounded ==
    \A j \in Job : \A n \in 0 .. MaxLives :
        /\ IsFiniteSet(Pending(j, n))
        /\ Charged(j, n) <= MaxDeliveries
        /\ letters[j].dead /\ n = letters[j].life => Charged(j, n) <= letters[j].attempts
        /\ n > letters[j].life => runs[j][n] = 0

CountBounded ==
    /\ \A j \in Job : /\ letters[j].attempts <= MaxDeliveries
                      /\ ~ letters[j].dead => letters[j].attempts = 0
    /\ \A s \in Sweeper : pc[s] = "selected" => delivery[s].attempt <= MaxDeliveries

BoundInv == ChargesBounded /\ CountBounded

(* Cardinalities of what may still be started, when one delivery leaves it. *)
LEMMA ChargedFacts ==
    ASSUME TypeOK, ChargesBounded, NEW j \in Job, NEW n \in 0 .. MaxLives
    PROVE  /\ runs[j][n] \in Nat /\ Cardinality(Pending(j, n)) \in Nat
           /\ \A S \in SUBSET Pending(j, n) :
                 IsFiniteSet(S) /\ Cardinality(S) \in Nat
                 /\ Cardinality(S) <= Cardinality(Pending(j, n))
           /\ \A s \in Pending(j, n) :
                 Cardinality(Pending(j, n) \ {s}) = Cardinality(Pending(j, n)) - 1
           /\ \A s : s \notin Pending(j, n) =>
                 /\ IsFiniteSet(Pending(j, n) \cup {s})
                 /\ Cardinality(Pending(j, n) \cup {s}) = Cardinality(Pending(j, n)) + 1
<1> DEFINE P == Pending(j, n)
<1>1. runs[j][n] \in Nat /\ IsFiniteSet(P)
  BY DEF TypeOK, ChargesBounded
<1> HIDE DEF P
<1>2. Cardinality(P) \in Nat
  BY <1>1, FS_CardinalityType
<1>3. \A S \in SUBSET P : IsFiniteSet(S) /\ Cardinality(S) <= Cardinality(P)
  BY <1>1, FS_Subset
<1>4. \A S \in SUBSET P : Cardinality(S) \in Nat
  BY <1>3, FS_CardinalityType
<1>5. \A s \in P : Cardinality(P \ {s}) = Cardinality(P) - 1
  BY <1>1, FS_RemoveElement
<1>6. \A s : s \notin P => IsFiniteSet(P \cup {s}) /\ Cardinality(P \cup {s}) = Cardinality(P) + 1
  BY <1>1, FS_AddElement
<1> QED
  BY <1>1, <1>2, <1>3, <1>4, <1>5, <1>6 DEF P

(* A step that starts no callback and claims nothing, and takes a count back *)
(* only with the delivery that holds it. *)
LEMMA NothingCharged ==
    ASSUME TypeOK, TypeOK', ChargesBounded, runs' = runs,
           NEW j \in Job, NEW n \in 0 .. MaxLives,
           Pending(j, n)' \subseteq Pending(j, n),
           \/ letters'[j] = letters[j]
           \/ ~ letters'[j].dead /\ letters'[j].life = letters[j].life
           \/ letters'[j].life = letters[j].life /\ letters'[j].dead = letters[j].dead
              /\ letters'[j].attempts = letters[j].attempts
           \/ /\ letters'[j].life = letters[j].life + 1 /\ letters'[j].attempts = 0
              /\ Pending(j, letters[j].life + 1) = {}
           \/ /\ letters'[j].life = letters[j].life /\ letters'[j].dead = letters[j].dead
              /\ letters'[j].attempts = letters[j].attempts - 1
              /\ n = letters[j].life => \E s \in Pending(j, n) : s \notin Pending(j, n)'
    PROVE  /\ IsFiniteSet(Pending(j, n)')
           /\ Charged(j, n)' <= MaxDeliveries
           /\ letters'[j].dead /\ n = letters'[j].life => Charged(j, n)' <= letters'[j].attempts
           /\ n > letters'[j].life => runs'[j][n] = 0
<1> DEFINE P == Pending(j, n)
           Q == Pending(j, n)'
<1>0. /\ runs[j][n] \in Nat /\ Cardinality(P) \in Nat
      /\ IsFiniteSet(Q) /\ Cardinality(Q) \in Nat /\ Cardinality(Q) <= Cardinality(P)
  BY ChargedFacts
<1>1. /\ letters[j].life \in Nat /\ letters'[j].life \in Nat
      /\ letters[j].attempts \in Nat /\ letters'[j].attempts \in Nat
      /\ MaxDeliveries \in Nat
  BY DeliveryAssumption DEF TypeOK, Letter
<1>2. /\ runs[j][n] + Cardinality(P) <= MaxDeliveries
      /\ letters[j].dead /\ n = letters[j].life => runs[j][n] + Cardinality(P) <= letters[j].attempts
      /\ n > letters[j].life => runs[j][n] = 0
  BY DEF ChargesBounded, Charged
<1>3. runs[j][n] + Cardinality(Q) <= MaxDeliveries
  BY <1>0, <1>1, <1>2
<1>4. n > letters'[j].life => runs[j][n] = 0
  BY <1>1, <1>2
<1>5. letters'[j].dead /\ n = letters'[j].life => runs[j][n] + Cardinality(Q) <= letters'[j].attempts
  <2>1. CASE letters'[j].life = letters[j].life /\ letters'[j].dead = letters[j].dead
             /\ letters'[j].attempts = letters[j].attempts
    BY <1>0, <1>1, <1>2, <2>1
  <2>2. CASE letters'[j].life = letters[j].life + 1 /\ letters'[j].attempts = 0
             /\ Pending(j, letters[j].life + 1) = {}
    <3> SUFFICES ASSUME n = letters[j].life + 1
                 PROVE  runs[j][n] + Cardinality(Q) <= 0
      BY <2>2
    <3>1. Cardinality(P) = 0 /\ runs[j][n] = 0
      BY <1>1, <1>2, <2>2, FS_EmptySet
    <3> QED
      BY <1>0, <3>1
  <2>3. CASE letters'[j].life = letters[j].life /\ letters'[j].dead = letters[j].dead
             /\ letters'[j].attempts = letters[j].attempts - 1
             /\ (n = letters[j].life => \E s \in P : s \notin Q)
    <3> SUFFICES ASSUME letters[j].dead, n = letters[j].life
                 PROVE  runs[j][n] + Cardinality(Q) <= letters[j].attempts - 1
      BY <2>3
    <3>1. PICK s \in P : s \notin Q
      BY <2>3
    <3>2. Q \in SUBSET (P \ {s}) /\ IsFiniteSet(P \ {s})
      BY <3>1, ChargedFacts
    <3>3. Cardinality(Q) <= Cardinality(P \ {s}) /\ Cardinality(P \ {s}) = Cardinality(P) - 1
      BY <3>1, <3>2, ChargedFacts, FS_Subset
    <3> QED
      BY <1>0, <1>1, <1>2, <3>3
  <2>4. CASE ~ letters'[j].dead
    BY <2>4
  <2> QED
    BY <2>1, <2>2, <2>3, <2>4
<1> QED
  BY <1>0, <1>3, <1>4, <1>5 DEF Charged

(* What each step does to what may still be started. *)
LEMMA PendingSteps ==
    ASSUME Inv, NEW s \in Sweeper, SweepStep(s), ~ Win(s), NEW j \in Job, NEW n \in 0 .. MaxLives
    PROVE  Pending(j, n)' \subseteq Pending(j, n)
<1> USE DEF Inv, TypeOK, Pending, sweep, ghosts
<1>1. CASE Register(s) \/ StartSweep(s) \/ EndSweep(s)
  BY <1>1 DEF Register, StartSweep, EndSweep
<1>2. ASSUME NEW k \in Job, Select(s, k) PROVE Pending(j, n)' \subseteq Pending(j, n)
  BY <1>2 DEF Select
<1>3. CASE Lose(s) \/ RecordFail(s) \/ Crash(s) \/ Record(s)
  BY <1>3 DEF Lose, RecordFail, Crash, Record, Forget
<1>4. CASE Call(s) \/ CallbackGone(s) \/ Raise(s) \/ Return(s)
  BY <1>4 DEF Call, CallbackGone, Raise, Return
<1> QED
  BY <1>1, <1>2, <1>3, <1>4 DEF SweepStep

(* Every step preserves the bound. *)
LEMMA BoundStep == Inv /\ BoundInv /\ [Next]_vars => BoundInv'
<1> SUFFICES ASSUME Inv, BoundInv, [Next]_vars PROVE BoundInv'
  OBVIOUS
<1> DEFINE Kept(j, n) ==
        /\ IsFiniteSet(Pending(j, n)')
        /\ Charged(j, n)' <= MaxDeliveries
        /\ letters'[j].dead /\ n = letters'[j].life => Charged(j, n)' <= letters'[j].attempts
        /\ n > letters'[j].life => runs'[j][n] = 0
<1>0. /\ TypeOK /\ TypeOK' /\ ChargesBounded /\ CountBounded /\ DeliveryOK
      /\ MaxDeliveries \in Nat \ {0} /\ MaxLives \in Nat
  BY TypeStep, DeliveryAssumption DEF Inv, BoundInv
<1>a. \A j \in Job : /\ letters[j].life \in 0 .. MaxLives /\ letters[j].attempts \in Nat
                     /\ letters'[j].life \in 0 .. MaxLives /\ letters'[j].attempts \in Nat
  BY <1>0 DEF TypeOK, Letter
<1>b. ASSUME \A j \in Job : \A n \in 0 .. MaxLives : Kept(j, n), CountBounded' PROVE BoundInv'
  BY <1>b DEF BoundInv, ChargesBounded
<1>1. CASE UNCHANGED vars
  <2>1. ASSUME NEW j \in Job, NEW n \in 0 .. MaxLives PROVE Kept(j, n)
    <3>1. Pending(j, n)' \subseteq Pending(j, n) /\ runs' = runs /\ letters' = letters
      BY <1>1 DEF vars, Pending
    <3> QED
      BY <1>0, <3>1, NothingCharged
  <2>2. CountBounded'
    BY <1>0, <1>1 DEF vars, CountBounded
  <2> QED
    BY <1>b, <2>1, <2>2
<1>2. ASSUME NEW i \in Job, JobStep(i) PROVE BoundInv'
  <2>0. /\ UNCHANGED <<pc, delivery, runs>>
        /\ \A k \in Job \ {i} : letters'[k] = letters[k]
    BY <1>0, <1>2 DEF TypeOK, JobStep, DeadLetter, Replay, Lapse, GrowOld, sweep, ghosts
  <2>1. \A j \in Job : \A n \in 0 .. MaxLives : Pending(j, n)' \subseteq Pending(j, n)
    BY <2>0 DEF Pending
  <2>2. \/ letters'[i].life = letters[i].life /\ letters'[i].dead = letters[i].dead
           /\ letters'[i].attempts = letters[i].attempts
        \/ /\ ~ letters'[i].dead /\ letters'[i].life = letters[i].life
           /\ letters'[i].attempts = 0
        \/ /\ ~ letters[i].dead /\ letters'[i].life = letters[i].life + 1
           /\ letters'[i].dead /\ letters'[i].attempts = letters[i].attempts
    <3>1. CASE DeadLetter(i)
      BY <1>0, <3>1, ZenonT(60) DEF DeadLetter, Died, TypeOK, Letter
    <3>2. CASE Replay(i)
      BY <1>0, <3>2 DEF Replay, Replayed, NewLetter, TypeOK
    <3>3. CASE Lapse(i) \/ GrowOld(i)
      <4>1. letters[i] \in Letter /\ letters'[i] \in {[letters[i] EXCEPT !.waiting = FALSE],
                                                     [letters[i] EXCEPT !.recent = FALSE]}
        BY <1>0, <3>3 DEF Lapse, GrowOld, TypeOK
      <4> QED
        BY <4>1 DEF Letter
    <3> QED
      BY <1>2, <3>1, <3>2, <3>3 DEF JobStep
  <2>3. Pending(i, letters[i].life + 1) = {}
    <3> SUFFICES ASSUME NEW s \in Pending(i, letters[i].life + 1) PROVE FALSE
      OBVIOUS
    <3>1. InFlight(s) /\ s \in Sweeper /\ delivery[s].job = i
          /\ delivery[s].charged = letters[i].life + 1
      BY DEF Pending, InFlight
    <3>2. delivery[s].charged <= letters[i].life
      BY <1>0, <3>1 DEF DeliveryOK, Target
    <3> QED
      BY <1>a, <3>1, <3>2
  <2>4. ~ letters[i].dead => letters[i].attempts = 0
    BY <1>0 DEF CountBounded
  <2>5. ASSUME NEW j \in Job, NEW n \in 0 .. MaxLives PROVE Kept(j, n)
    <3>1. CASE j # i
      BY <1>0, <2>0, <2>1, <3>1, NothingCharged
    <3>2. CASE j = i
      BY <1>0, <2>0, <2>1, <2>2, <2>3, <2>4, <3>2, NothingCharged
    <3> QED
      BY <3>1, <3>2
  <2>6. CountBounded'
    BY <1>0, <2>0, <2>2, <2>4 DEF CountBounded
  <2> QED
    BY <1>b, <2>5, <2>6
<1>3. ASSUME NEW s \in Sweeper, Win(s) PROVE BoundInv'
  <2> DEFINE i == delivery[s].job
             m == letters[i].life
  <2>1. /\ pc[s] = "selected" /\ i \in Job /\ delivery[s].attempt \in Nat
        /\ letters[i].dead /\ letters[i].attempts = delivery[s].attempt - 1
        /\ delivery[s].attempt <= MaxDeliveries /\ runs' = runs
    BY <1>0, <1>3, FieldTypes DEF Win, Won, Due, CountBounded
  <2>2. /\ letters'[i].life = m /\ letters'[i].dead /\ letters'[i].attempts = letters[i].attempts + 1
        /\ \A k \in Job \ {i} : letters'[k] = letters[k]
        /\ \A t \in Sweeper \ {s} : pc'[t] = pc[t] /\ delivery'[t] = delivery[t]
        /\ pc'[s] = "claimed" /\ delivery'[s].job = i /\ delivery'[s].charged = m
    <3>1. /\ letters'[i] = [letters[i] EXCEPT !.waiting = TRUE, !.attempts = delivery[s].attempt]
          /\ \A k \in Job \ {i} : letters'[k] = letters[k]
      BY <1>0, <1>3, <2>1 DEF Win, Taken, TypeOK
    <3>2. letters[i] \in Letter /\ letters[i].attempts \in Nat
      BY <1>0, <1>a, <2>1 DEF TypeOK
    <3>3. /\ letters'[i].life = m /\ letters'[i].dead = letters[i].dead
          /\ letters'[i].attempts = delivery[s].attempt
      BY <3>1, <3>2 DEF Letter
    <3>4. /\ pc'[s] = "claimed" /\ delivery'[s] = [delivery[s] EXCEPT !.charged = m]
          /\ \A t \in Sweeper \ {s} : pc'[t] = pc[t] /\ delivery'[t] = delivery[t]
      BY <1>0, <1>3, <2>1 DEF Win, TypeOK
    <3>5. delivery'[s].job = i /\ delivery'[s].charged = m
      BY <1>0, <3>4 DEF TypeOK, Delivery
    <3>6. letters'[i].attempts = letters[i].attempts + 1
      BY <2>1, <3>2, <3>3
    <3> QED
      BY <2>1, <3>1, <3>3, <3>4, <3>5, <3>6
  <2>3. ASSUME NEW j \in Job, NEW n \in 0 .. MaxLives PROVE Kept(j, n)
    <3>1. CASE j = i /\ n = m
      <4>1. Pending(j, n)' = Pending(j, n) \cup {s} /\ s \notin Pending(j, n)
        BY <2>1, <2>2, <3>1 DEF Pending
      <4>2. /\ IsFiniteSet(Pending(j, n)')
            /\ Cardinality(Pending(j, n)') = Cardinality(Pending(j, n)) + 1
            /\ runs[j][n] \in Nat /\ Cardinality(Pending(j, n)) \in Nat
        BY <1>0, <4>1, ChargedFacts
      <4>3. runs[j][n] + Cardinality(Pending(j, n)) <= letters[i].attempts
        BY <1>0, <2>1, <3>1 DEF ChargesBounded, Charged
      <4>4. runs[j][n] + Cardinality(Pending(j, n)') <= letters[i].attempts + 1
        BY <1>a, <2>1, <4>2, <4>3
      <4>5. ~ (n > letters'[j].life)
        BY <1>a, <2>2, <3>1
      <4> QED
        BY <1>0, <1>a, <2>1, <2>2, <3>1, <4>2, <4>4, <4>5 DEF Charged
    <3>2. CASE j # i
      <4>1. Pending(j, n)' \subseteq Pending(j, n)
        BY <2>1, <2>2, <3>2 DEF Pending
      <4> QED
        BY <1>0, <2>1, <2>2, <3>2, <4>1, NothingCharged
    <3>3. CASE j = i /\ n # m
      <4>1. Pending(j, n)' = Pending(j, n)
        BY <2>1, <2>2, <3>3 DEF Pending
      <4>2. Charged(j, n)' = Charged(j, n) /\ runs'[j][n] = runs[j][n]
        BY <2>1, <4>1 DEF Charged
      <4> QED
        BY <1>0, <2>2, <3>3, <4>1, <4>2 DEF ChargesBounded
    <3> QED
      BY <3>1, <3>2, <3>3
  <2>4. CountBounded'
    BY <1>0, <1>a, <2>1, <2>2 DEF CountBounded
  <2> QED
    BY <1>b, <2>3, <2>4
<1>4. ASSUME NEW s \in Sweeper, Call(s) PROVE BoundInv'
  <2> DEFINE i == delivery[s].job
             m == delivery[s].charged
  <2>1. /\ i \in Job /\ m \in Nat /\ m <= letters[i].life /\ pc[s] = "claimed" /\ pc'[s] = "calling"
        /\ letters' = letters /\ delivery' = delivery
        /\ \A t \in Sweeper \ {s} : pc'[t] = pc[t]
    BY <1>0, <1>4, FieldTypes DEF Call, DeliveryOK, InFlight, Target, TypeOK
  <2>2. m \in 0 .. MaxLives
    <3>1. letters[i].life \in 0 .. MaxLives
      BY <1>a, <2>1
    <3> QED
      BY <1>0, <2>1, <3>1
  <2>3. /\ runs'[i][m] = runs[i][m] + 1
        /\ \A j \in Job : \A n \in 0 .. MaxLives : j # i \/ n # m => runs'[j][n] = runs[j][n]
    BY <1>0, <1>4, <2>1, <2>2 DEF Call, TypeOK
  <2>4. ASSUME NEW j \in Job, NEW n \in 0 .. MaxLives PROVE Kept(j, n)
    <3>1. CASE j = i /\ n = m
      <4>1. Pending(j, n)' = Pending(j, n) \ {s} /\ s \in Pending(j, n)
        BY <2>1, <3>1 DEF Pending
      <4>2. /\ IsFiniteSet(Pending(j, n)')
            /\ Cardinality(Pending(j, n)') = Cardinality(Pending(j, n)) - 1
            /\ runs[j][n] \in Nat /\ Cardinality(Pending(j, n)) \in Nat
        BY <1>0, <4>1, ChargedFacts
      <4>3. Charged(j, n)' = Charged(j, n)
        BY <2>3, <3>1, <4>2 DEF Charged
      <4>4. ~ (n > letters'[j].life)
        BY <1>a, <2>1, <3>1
      <4> QED
        BY <1>0, <2>1, <4>2, <4>3, <4>4 DEF ChargesBounded
    <3>2. CASE j # i \/ n # m
      <4>1. Pending(j, n)' = Pending(j, n) /\ runs'[j][n] = runs[j][n]
        BY <2>1, <2>3, <3>2 DEF Pending
      <4>2. Charged(j, n)' = Charged(j, n)
        BY <4>1 DEF Charged
      <4> QED
        BY <1>0, <2>1, <4>1, <4>2 DEF ChargesBounded
    <3> QED
      BY <3>1, <3>2
  <2>5. CountBounded'
    BY <1>0, <2>1 DEF CountBounded
  <2> QED
    BY <1>b, <2>4, <2>5
<1>5. ASSUME NEW s \in Sweeper, Record(s) PROVE BoundInv'
  <2> DEFINE i == delivery[s].job
  <2>0. /\ pc[s] \in {"succeeded", "failed", "releasing"} /\ i \in Job /\ runs' = runs
        /\ delivery[s].attempt \in Nat /\ delivery[s].life \in Nat /\ delivery[s].charged \in Nat
        /\ pc'[s] = "idle" /\ \A t \in Sweeper \ {s} : pc'[t] = pc[t] /\ delivery'[t] = delivery[t]
        /\ InFlight(s)
    BY <1>0, <1>5, FieldTypes DEF Record, Forget, TypeOK, ghosts, InFlight
  <2>1. \A j \in Job : \A n \in 0 .. MaxLives : Pending(j, n)' \subseteq Pending(j, n)
    BY <2>0 DEF Pending
  <2>2. \A k \in Job \ {i} : letters'[k] = letters[k]
    BY <1>0, <1>5, <2>0 DEF Record, TypeOK
  <2>3. \/ letters'[i].life = letters[i].life /\ letters'[i].dead = letters[i].dead
           /\ letters'[i].attempts = letters[i].attempts
        \/ /\ letters'[i].life = letters[i].life /\ letters'[i].dead = letters[i].dead
           /\ letters'[i].attempts = letters[i].attempts - 1
           /\ letters[i].dead
           /\ letters[i].life = delivery[s].life /\ pc[s] = "releasing"
    <3>1. CASE letters' = letters
      BY <3>1
    <3>2. CASE LiveClaim(letters[i], delivery[s])
      <4>1. letters'[i] = Settled(letters[i], delivery[s], pc[s])
        BY <1>0, <1>5, <2>0, <3>2 DEF Record, TypeOK
      <4>2. /\ letters[i] \in Letter /\ letters[i].dead
            /\ letters[i].attempts = delivery[s].attempt /\ letters[i].life = delivery[s].life
        BY <1>0, <2>0, <3>2 DEF LiveClaim, TypeOK
      <4>3. CASE pc[s] \in {"succeeded", "failed"}
        BY <4>1, <4>2, <4>3 DEF Settled, Notified, Deferred, Letter
      <4>4. CASE pc[s] = "releasing"
        <5>1. letters'[i] = Released(letters[i], delivery[s])
          BY <4>1, <4>4 DEF Settled
        <5> QED
          BY <4>2, <4>4, <5>1 DEF Released, Letter
      <4> QED
        BY <2>0, <4>3, <4>4
    <3> QED
      BY <1>5, <3>1, <3>2 DEF Record
  <2>4. ASSUME NEW j \in Job, j = i, NEW n \in 0 .. MaxLives, n = letters[j].life,
               pc[s] = "releasing", letters[j].life = delivery[s].life
        PROVE  s \in Pending(j, n) /\ s \notin Pending(j, n)'
    <3>1. delivery[s].charged = letters[j].life
      BY <1>0, <1>a, <2>0, <2>4 DEF DeliveryOK, Target
    <3> QED
      BY <2>0, <2>4, <3>1 DEF Pending
  <2>5. ASSUME NEW j \in Job, NEW n \in 0 .. MaxLives PROVE Kept(j, n)
    <3>1. CASE j # i
      BY <1>0, <2>0, <2>1, <2>2, <3>1, NothingCharged
    <3>2. CASE j = i
      <4>1. CASE letters'[j].life = letters[j].life /\ letters'[j].dead = letters[j].dead
                 /\ letters'[j].attempts = letters[j].attempts
        BY <1>0, <2>0, <2>1, <4>1, NothingCharged
      <4>2. CASE /\ letters'[j].life = letters[j].life /\ letters'[j].dead = letters[j].dead
                 /\ letters'[j].attempts = letters[j].attempts - 1
                 /\ letters[j].life = delivery[s].life /\ pc[s] = "releasing"
        <5>1. n = letters[j].life => \E t \in Pending(j, n) : t \notin Pending(j, n)'
          BY <2>4, <3>2, <4>2
        <5> QED
          BY <1>0, <2>0, <2>1, <4>2, <5>1, NothingCharged
      <4> QED
        BY <2>3, <3>2, <4>1, <4>2
    <3> QED
      BY <3>1, <3>2
  <2>6. CountBounded'
    BY <1>0, <1>a, <2>0, <2>2, <2>3 DEF CountBounded
  <2> QED
    BY <1>b, <2>5, <2>6
<1>6. ASSUME NEW s \in Sweeper, SweepStep(s), ~ Win(s), ~ Call(s), ~ Record(s) PROVE BoundInv'
  <2>1. letters' = letters /\ runs' = runs
    BY <1>6 DEF SweepStep, Register, StartSweep, EndSweep, Lose, CallbackGone, Return, Raise,
                RecordFail, Crash, Select, ghosts
  <2>2. ASSUME NEW j \in Job, NEW n \in 0 .. MaxLives PROVE Kept(j, n)
    <3>1. Pending(j, n)' \subseteq Pending(j, n)
      BY <1>6, PendingSteps
    <3> QED
      BY <1>0, <2>1, <3>1, NothingCharged
  <2>3. ASSUME NEW t \in Sweeper, pc'[t] = "selected"
        PROVE  delivery'[t].attempt <= MaxDeliveries
    <3>1. CASE \E k \in Job : Select(s, k) /\ t = s
      BY <1>0, <1>a, <3>1 DEF Select, TypeOK
    <3>2. CASE pc[t] = "selected" /\ delivery'[t] = delivery[t]
      BY <1>0, <3>2 DEF CountBounded
    <3>3. t # s => pc'[t] = pc[t] /\ delivery'[t] = delivery[t]
      BY <1>0, <1>6
      DEF TypeOK, SweepStep, Register, StartSweep, EndSweep, Lose, CallbackGone, Return, Raise,
          RecordFail, Crash, Forget, Select
    <3>4. t = s => (\E k \in Job : Select(s, k)) \/ (pc[s] = "selected" /\ delivery'[s] = delivery[s])
      BY <1>0, <1>6, <2>3
      DEF TypeOK, SweepStep, Register, StartSweep, EndSweep, Lose, CallbackGone, Return, Raise,
          RecordFail, Crash, Forget
    <3> QED
      BY <2>3, <3>1, <3>2, <3>3, <3>4
  <2>4. CountBounded'
    BY <1>0, <2>1, <2>3 DEF CountBounded
  <2> QED
    BY <1>b, <2>2, <2>4
<1> QED
  BY <1>1, <1>2, <1>3, <1>4, <1>5, <1>6 DEF Next, SweepStep

(* MAX_DELIVERIES: for any number of processes and replays the callback is    *)
(* started at most that often for one dead letter, although a delivery that   *)
(* finds no callback gives its count back and a late one still starts its own.*)
THEOREM DeliveriesAreBounded == Spec => []DeliveriesBounded
<1>1. Init => BoundInv
  <2> SUFFICES ASSUME Init PROVE BoundInv
    OBVIOUS
  <2>1. \A j \in Job : \A n \in 0 .. MaxLives : Pending(j, n) = {}
    BY DEF Init, Pending
  <2>2. \A j \in Job : \A n \in 0 .. MaxLives : IsFiniteSet(Pending(j, n)) /\ Charged(j, n) = 0
    <3>1. \A j \in Job : \A n \in 0 .. MaxLives : runs[j][n] = 0
      BY DEF Init
    <3> QED
      BY <2>1, <3>1, FS_EmptySet DEF Charged
  <2> QED
    BY <2>2, DeliveryAssumption DEF Init, NewLetter, BoundInv, ChargesBounded, CountBounded
<1>2. Inv /\ BoundInv => DeliveriesBounded
  <2> SUFFICES ASSUME Inv, BoundInv, NEW j \in Job, NEW n \in 0 .. MaxLives
               PROVE  runs[j][n] <= MaxDeliveries
    BY DEF DeliveriesBounded
  <2>1. runs[j][n] \in Nat /\ Cardinality(Pending(j, n)) \in Nat /\ Charged(j, n) <= MaxDeliveries
    BY ChargedFacts DEF Inv, BoundInv, ChargesBounded
  <2> QED
    BY <2>1, DeliveryAssumption DEF Charged
<1> QED
  BY <1>1, <1>2, DeliveryInvariant, BoundStep, PTL DEF Spec
=============================================================================
