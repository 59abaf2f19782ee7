---------------------------- MODULE OutboxProofs ----------------------------
(***************************************************************************)
(* Proofs about Outbox for any number of producers, ids, relayers and      *)
(* subscribers, any registries, and databases with and without SKIP LOCKED *)
(* and snapshots.                                                          *)
(***************************************************************************)
EXTENDS Outbox, TLAPS

HoldsFor(x) == Stored(x[1]) /\ outbox[x[1]].content = x[2]

Committed(e) == \E q \in Producer : pc[q] = "committed" /\ e \in Ids(plan[q])

Transactions ==
    \A p \in Producer :
        /\ mine[p] \subseteq plan[p]
        /\ staged[p] \subseteq plan[p]
        /\ noted[p] \subseteq Ids(plan[p])
        /\ pc[p] \notin {"staging", "reading"} => mine[p] = {} /\ staged[p] = {} /\ noted[p] = {}
        /\ pc[p] \in {"reading", "refused"} => current[p] \in plan[p]

(* The unique index: an uncommitted row is the only one of its id. *)
RowsApart ==
    \A p \in Producer : \A x \in mine[p] :
        /\ ~ Stored(x[1])
        /\ \A q \in Producer : \A y \in mine[q] : y[1] = x[1] => q = p /\ y = x

(* What a transaction is done with stays good until it commits, and after. *)
StagedKept ==
    \A p \in Producer : \A x \in staged[p] : x[1] \in pruned \/ x \in mine[p] \/ HoldsFor(x)

ReadKept ==
    \A p \in Producer : pc[p] = "reading" =>
        \/ current[p][1] \in pruned
        \/ current[p][1] \in Ids(mine[p])
        \/ Stored(current[p][1])

CommittedKept ==
    \A p \in Producer : pc[p] = "committed" =>
        \A x \in plan[p] : x[1] \in pruned \/ HoldsFor(x)

StoredAnnounced ==
    \A e \in Event : Stored(e) =>
        \E q \in Producer : pc[q] = "committed" /\ <<e, outbox[e].content>> \in plan[q]

Recorded ==
    \A e \in Event : e \in eventLog \/ (\E s \in Subscriber : made[e][s] > 0) => Committed(e)

ProducerInv ==
    /\ TypeOK /\ Transactions /\ RowsApart /\ StagedKept /\ ReadKept
    /\ CommittedKept /\ StoredAnnounced /\ ReuseAccepted

(* The relay: what has left the outbox, or is stamped, has its jobs. *)
RelayedDelivered ==
    \A e \in Event : e \in pruned \/ (Stored(e) /\ outbox[e].relayed) => Delivered(e)

JobsMade == \A e \in Event, s \in Subscriber : jobs[e][s] # "absent" => made[e][s] > 0

BatchStored == \A r \in Relayer : \A e \in batch[r] : Stored(e)

(* A job may still be made only for a publication that has not made one. *)
Counted ==
    \A e \in Event, s \in Subscriber :
        /\ made[e][s] <= rows[e]
        /\ Unrelayed(e) => made[e][s] < rows[e]
        /\ \A r \in Relayer : e \in batch[r] /\ jobs[e][s] = "absent" => made[e][s] < rows[e]

RelayInv == RelayedDelivered /\ JobsMade /\ BatchStored /\ Counted /\ Recorded

Inv == ProducerInv /\ RelayInv

-----------------------------------------------------------------------------
(* Nothing is stored, staged or selected at first. *)
LEMMA InvInit == Init => Inv
<1> SUFFICES ASSUME Init PROVE Inv
  OBVIOUS
<1>1. TypeOK
  BY OutboxAssumption DEF Init, TypeOK, JobState, PC
<1>2. \A e \in Event : ~ Stored(e)
  BY DEF Init, Stored
<1>3. \A p \in Producer : pc[p] = "start" /\ mine[p] = {} /\ staged[p] = {} /\ noted[p] = {}
  BY DEF Init
<1>4. /\ pruned = {} /\ eventLog = {}
      /\ \A r \in Relayer : batch[r] = {}
      /\ \A e \in Event : rows[e] = 0 /\ \A s \in Subscriber : made[e][s] = 0 /\ jobs[e][s] = "absent"
  BY DEF Init
<1>5. Transactions /\ RowsApart /\ StagedKept /\ ReadKept /\ CommittedKept /\ ReuseAccepted
  BY <1>3 DEF Transactions, RowsApart, StagedKept, ReadKept, CommittedKept, ReuseAccepted
<1>6. StoredAnnounced /\ RelayedDelivered /\ JobsMade /\ BatchStored /\ Counted /\ Recorded
  BY <1>2, <1>4 DEF StoredAnnounced, RelayedDelivered, JobsMade, BatchStored, Counted, Recorded, Unrelayed
<1> QED
  BY <1>1, <1>5, <1>6 DEF Inv, ProducerInv, RelayInv

Quiet == UNCHANGED <<database, tables, batch>>

(* What has been committed stays so. *)
Onward ==
    /\ pruned \subseteq pruned'
    /\ \A q \in Producer : pc[q] = "committed" => pc'[q] = "committed" /\ plan'[q] = plan[q]

(* A refusal stays justified. *)
LEMMA TakenKept ==
  ASSUME NEW p \in Producer, Taken(p), Onward,
         current'[p] = current[p], plan'[p] = plan[p]
  PROVE  Taken(p)'
BY DEF Taken, Onward

(* While the outbox is not written, what it holds stays accounted for. *)
LEMMA OutboxKept ==
  ASSUME CommittedKept, StoredAnnounced, Onward, UNCHANGED <<outbox, pruned>>,
         \A q \in Producer : pc'[q] = "committed" => pc[q] = "committed"
  PROVE  CommittedKept' /\ StoredAnnounced'
<1>1. CommittedKept'
  BY DEF CommittedKept, HoldsFor, Stored, Onward
<1>2. StoredAnnounced'
  BY DEF StoredAnnounced, Stored, Onward
<1> QED
  BY <1>1, <1>2

(* The ids of pairs are event ids. *)
LEMMA IdsOfPairs == ASSUME NEW S \in SUBSET Pair PROVE Ids(S) \subseteq Event
BY DEF Ids, Pair

-----------------------------------------------------------------------------
(* Producers' steps other than Commit touch only the transaction. *)
LEMMA BeginStep == ASSUME Inv, NEW p \in Producer, Begin(p) PROVE ProducerInv'
<1> USE OutboxAssumption DEF Inv, ProducerInv, TypeOK
<1>1. TypeOK'
  BY DEF Begin, tables, PC
<1>2. /\ pc[p] = "start" /\ mine[p] = {} /\ pc'[p] = "staging"
      /\ UNCHANGED <<outbox, pruned, mine, staged, noted, current>>
      /\ \A q \in Producer \ {p} : pc'[q] = pc[q] /\ plan'[q] = plan[q]
  BY DEF Begin, tables, Transactions
<1>3. staged[p] = {} /\ noted[p] = {}
  BY <1>2 DEF Transactions
<1>4. Transactions'
  BY <1>1, <1>2, <1>3 DEF Transactions, Begin
<1>5. RowsApart' /\ StagedKept' /\ ReadKept' /\ CommittedKept'
  BY <1>2, <1>3 DEF RowsApart, StagedKept, ReadKept, CommittedKept, HoldsFor, Stored
<1>6. StoredAnnounced'
  BY <1>2, ZenonT(60) DEF StoredAnnounced, Stored
<1>7. Onward
  BY <1>2 DEF Onward
<1>8. ReuseAccepted'
  BY <1>2, <1>7, TakenKept DEF ReuseAccepted
<1> QED
  BY <1>1, <1>4, <1>5, <1>6, <1>8

(* The insert either claims the id or leaves it to the row that has it. *)
LEMMA InsertStep == ASSUME Inv, NEW p \in Producer, NEW x \in Pair, Insert(p, x) PROVE ProducerInv'
<1> USE OutboxAssumption DEF Inv, ProducerInv, TypeOK
<1>1. /\ pc[p] = "staging" /\ pc'[p] = "reading" /\ current'[p] = x /\ x \in plan[p]
      /\ UNCHANGED <<outbox, pruned, plan, staged, noted>>
      /\ \A q \in Producer \ {p} : pc'[q] = pc[q] /\ mine'[q] = mine[q] /\ current'[q] = current[q]
  BY DEF Insert, tables
<1>2. \/ mine'[p] = mine[p] /\ (Stored(x[1]) \/ x[1] \in Ids(mine[p]))
      \/ mine'[p] = mine[p] \cup {x} /\ ~ Stored(x[1]) /\ x[1] \notin Ids(mine[p])
  BY DEF Insert
<1>3. \A q \in Producer \ {p} : x[1] \notin Ids(mine[q])
  BY DEF Insert, Contended
<1>4. TypeOK'
  BY DEF Insert, tables, PC
<1>5. Transactions'
  BY <1>1, <1>2 DEF Transactions
<1>6. RowsApart'
  <2> HIDE DEF Inv, ProducerInv, TypeOK
  <2>1. RowsApart
    BY DEF Inv, ProducerInv
  <2>2. \A q \in Producer : \A z \in mine'[q] : z \in mine[q] \/ (q = p /\ z = x)
    BY <1>1, <1>2
  <2>3. CASE mine'[p] = mine[p]
    <3>1. \A q \in Producer : mine'[q] = mine[q]
      BY <1>1, <2>3
    <3> QED
      BY <1>1, <2>1, <3>1 DEF RowsApart, Stored
  <2>4. CASE ~ Stored(x[1]) /\ x[1] \notin Ids(mine[p])
    <3>1. \A q \in Producer : \A z \in mine[q] : z[1] # x[1]
      BY <1>3, <2>4 DEF Ids
    <3> QED
      BY <1>1, <2>1, <2>2, <2>4, <3>1 DEF RowsApart, Stored
  <2> QED
    BY <1>2, <2>3, <2>4
<1>7. ReadKept'
  BY <1>1, <1>2, ZenonT(60) DEF ReadKept, Ids, Stored
<1>8. StagedKept'
  <2> HIDE DEF Inv, ProducerInv, TypeOK
  <2>1. StagedKept /\ \A q \in Producer : mine[q] \subseteq mine'[q]
    BY <1>1, <1>2 DEF Inv, ProducerInv
  <2> QED
    BY <1>1, <2>1 DEF StagedKept, HoldsFor, Stored
<1>10. Onward
  BY <1>1 DEF Onward
<1>9. CommittedKept' /\ StoredAnnounced'
  BY <1>1, <1>10, OutboxKept
<1>11. ReuseAccepted'
  BY <1>1, <1>10, TakenKept DEF ReuseAccepted
<1> QED
  BY <1>4, <1>5, <1>6, <1>7, <1>8, <1>9, <1>11

(* A staged pair is inserted by this transaction or held by the outbox. *)
LEMMA AcceptStep == ASSUME Inv, NEW p \in Producer, Accept(p) PROVE ProducerInv'
<1> USE OutboxAssumption DEF Inv, ProducerInv, TypeOK
<1>1. /\ pc[p] = "reading" /\ pc'[p] = "staging"
      /\ current[p] \in plan[p]
      /\ staged'[p] = staged[p] \cup {current[p]}
      /\ UNCHANGED <<outbox, pruned, plan, mine>>
      /\ \A q \in Producer \ {p} :
            pc'[q] = pc[q] /\ staged'[q] = staged[q] /\ current'[q] = current[q] /\ noted'[q] = noted[q]
  BY DEF Accept, tables, Transactions
<1>2. noted'[p] \subseteq noted[p] \cup Ids(mine[p])
  BY DEF Accept
<1>3. current[p] \in mine[p] \/ HoldsFor(current[p])
  BY DEF Accept, Readable, SameEvent, HoldsFor
<1>4. Ids(mine[p]) \subseteq Event /\ Ids(mine[p]) \subseteq Ids(plan[p])
  BY IdsOfPairs DEF Ids, Transactions
<1>5. TypeOK'
  <2>1. current[p] \in Pair
    BY <1>1
  <2>2. noted' \in [Producer -> SUBSET Event]
    BY <1>4 DEF Accept
  <2> QED
    BY <2>1, <2>2, ZenonT(60) DEF Accept, tables, PC
<1>6. Transactions'
  BY <1>1, <1>2, <1>4 DEF Transactions
<1>7. StagedKept'
  <2>1. \A x : HoldsFor(x) => HoldsFor(x)'
    BY <1>1 DEF HoldsFor, Stored
  <2>2. ASSUME NEW q \in Producer, NEW x \in staged'[q]
        PROVE  x[1] \in pruned \/ x \in mine[q] \/ HoldsFor(x)
    <3>1. x \in staged[q] \/ (q = p /\ x = current[p])
      BY <1>1
    <3> QED
      BY <1>3, <3>1 DEF StagedKept
  <2> QED
    BY <1>1, <2>1, <2>2 DEF StagedKept
<1>8. RowsApart' /\ ReadKept'
  BY <1>1 DEF RowsApart, ReadKept, Stored
<1>10. Onward
  BY <1>1 DEF Onward
<1>9. CommittedKept' /\ StoredAnnounced'
  BY <1>1, <1>10, OutboxKept
<1>11. ReuseAccepted'
  BY <1>1, <1>10, TakenKept DEF ReuseAccepted
<1> QED
  BY <1>5, <1>6, <1>7, <1>8, <1>9, <1>11

(* A transaction that ends without committing leaves the others alone. *)
LEMMA RollbackKeeps ==
  ASSUME Inv, NEW p \in Producer, Rollback(p), pc[p] \in {"staging", "reading"},
         NEW c \in {"refused", "failed"}, pc' = [pc EXCEPT ![p] = c],
         current' \in [Producer -> Pair \cup {Nothing}],
         c = "refused" => current'[p] \in plan[p] /\ Taken(p)',
         \A q \in Producer \ {p} : current'[q] = current[q]
  PROVE  ProducerInv'
<1> USE OutboxAssumption DEF Inv, ProducerInv, TypeOK
<1>1. /\ UNCHANGED <<outbox, pruned, plan>>
      /\ mine'[p] = {} /\ staged'[p] = {} /\ noted'[p] = {} /\ pc'[p] = c
      /\ \A q \in Producer \ {p} :
            pc'[q] = pc[q] /\ staged'[q] = staged[q] /\ mine'[q] = mine[q] /\ noted'[q] = noted[q]
  BY DEF Rollback, EndTransaction, tables
<1>2. TypeOK'
  BY DEF Rollback, EndTransaction, tables, PC
<1>3. Transactions'
  BY <1>1 DEF Transactions
<1>4. RowsApart' /\ StagedKept' /\ ReadKept'
  <2> HIDE DEF Inv, ProducerInv, TypeOK
  <2>1. RowsApart /\ StagedKept /\ ReadKept
    BY DEF Inv, ProducerInv
  <2>2. RowsApart'
    BY <1>1, <2>1 DEF RowsApart, Stored
  <2>3. StagedKept'
    BY <1>1, <2>1 DEF StagedKept, HoldsFor, Stored
  <2>4. ReadKept'
    BY <1>1, <2>1 DEF ReadKept, Stored
  <2> QED
    BY <2>2, <2>3, <2>4
<1>6. Onward
  BY <1>1 DEF Onward
<1>5. CommittedKept' /\ StoredAnnounced'
  BY <1>1, <1>6, OutboxKept
<1>7. ReuseAccepted'
  BY <1>1, <1>6, TakenKept DEF ReuseAccepted
<1> QED
  BY <1>2, <1>3, <1>4, <1>5, <1>7

(* A publication is refused only for a different event or a deleted row. *)
LEMMA RefuseStep == ASSUME Inv, NEW p \in Producer, Refuse(p) PROVE ProducerInv'
<1> DEFINE x == current[p]
<1> USE OutboxAssumption DEF Inv, ProducerInv, TypeOK
<1>1. /\ pc[p] = "reading" /\ UNCHANGED <<plan, pruned, current>> /\ x \in plan[p] /\ x \in Pair
      /\ ~ (Readable(p, x[1]) /\ SameEvent(p, x))
  BY DEF Refuse, Rollback, tables, Transactions
<1>2. \A q \in Producer : pc[q] = "committed" => pc'[q] = "committed"
  BY <1>1 DEF Refuse
<1>3. Taken(p)'
  <2>1. CASE x[1] \in Ids(mine[p])
    <3>1. PICK y \in mine[p] : y[1] = x[1] /\ x \notin mine[p]
      BY <1>1, <2>1 DEF Readable, SameEvent, Ids
    <3>2. y \in plan[p] /\ y \in Pair /\ y # x
      BY <3>1 DEF Transactions
    <3>3. y[2] \in Content \ {x[2]} /\ <<x[1], y[2]>> \in plan[p]
      <4> HIDE DEF Inv, ProducerInv, TypeOK, x
      <4>1. y = <<y[1], y[2]>> /\ x = <<x[1], x[2]>> /\ y[2] \in Content
        BY <1>1, <3>2 DEF Pair
      <4> QED
        BY <3>1, <3>2, <4>1
    <3> QED
      BY <1>1, <3>3 DEF Taken
  <2>2. CASE x[1] \notin Ids(mine[p]) /\ Stored(x[1])
    <3>1. outbox[x[1]].content # x[2] /\ x[1] \in Event
      BY <1>1, <2>2 DEF Readable, SameEvent, Pair
    <3>2. outbox[x[1]].content \in Content
      BY <2>2, <3>1 DEF Stored, Row
    <3>3. PICK q \in Producer : pc[q] = "committed" /\ <<x[1], outbox[x[1]].content>> \in plan[q]
      BY <2>2, <3>1 DEF StoredAnnounced
    <3> QED
      BY <1>1, <1>2, <3>1, <3>2, <3>3 DEF Taken
  <2>3. CASE x[1] \notin Ids(mine[p]) /\ ~ Stored(x[1])
    BY <1>1, <2>3 DEF ReadKept, Taken
  <2> QED
    BY <2>1, <2>2, <2>3
<1> QED
  BY <1>1, <1>3, RollbackKeeps DEF Refuse

(* A failure is a rollback. *)
LEMMA FailStep == ASSUME Inv, NEW p \in Producer, Fail(p) PROVE ProducerInv'
BY RollbackKeeps DEF Inv, ProducerInv, TypeOK, Fail

(* The committed rows: each pair inserted, as it was inserted. *)
LEMMA CommittedRows ==
  ASSUME Inv, NEW p \in Producer, Commit(p), NEW e \in Event
  PROVE  /\ \A x \in mine[p] : x[1] = e => outbox'[e] \in Row /\ outbox'[e].content = x[2]
                                              /\ ~ outbox'[e].relayed /\ Stored(e)'
         /\ e \notin Ids(mine[p]) => outbox'[e] = outbox[e] /\ rows'[e] = rows[e]
         /\ e \in Ids(mine[p]) => ~ Stored(e) /\ rows'[e] = rows[e] + 1
<1>1. ASSUME NEW x \in mine[p], x[1] = e
      PROVE  outbox'[e] \in Row /\ outbox'[e].content = x[2] /\ ~ outbox'[e].relayed /\ Stored(e)'
  <2>1. \A y \in mine[p] : y[1] = e => y = x
    BY <1>1 DEF Inv, ProducerInv, RowsApart
  <2>2. e \in Ids(mine[p]) /\ x = CHOOSE y \in mine[p] : y[1] = e
    BY <1>1, <2>1 DEF Ids
  <2>3. outbox'[e] = NewRow(x)
    BY <2>2 DEF Commit
  <2>4. x[2] \in Content
    BY DEF Inv, ProducerInv, TypeOK, Pair
  <2>5. NewRow(x) \in Row /\ NewRow(x).content = x[2] /\ ~ NewRow(x).relayed
    BY <2>4 DEF NewRow, Row
  <2>6. NewRow(x) # Nothing
    BY <2>5, OutboxAssumption DEF Row
  <2> QED
    BY <2>3, <2>5, <2>6 DEF Stored
<1>2. e \in Ids(mine[p]) => ~ Stored(e) /\ rows'[e] = rows[e] + 1
  BY DEF Commit, Ids, Inv, ProducerInv, RowsApart
<1>3. e \notin Ids(mine[p]) => outbox'[e] = outbox[e] /\ rows'[e] = rows[e]
  BY DEF Commit
<1> QED
  BY <1>1, <1>2, <1>3

(* The commit publishes exactly what was inserted. *)
LEMMA CommitStep == ASSUME Inv, NEW p \in Producer, Commit(p) PROVE ProducerInv'
<1>1. /\ pc[p] = "staging" /\ staged[p] = plan[p] /\ pc'[p] = "committed"
      /\ mine'[p] = {} /\ staged'[p] = {} /\ noted'[p] = {}
      /\ UNCHANGED <<pruned, plan, current>>
      /\ \A q \in Producer \ {p} :
            pc'[q] = pc[q] /\ staged'[q] = staged[q] /\ mine'[q] = mine[q] /\ noted'[q] = noted[q]
  BY DEF Commit, Ready, EndTransaction, Inv, ProducerInv, TypeOK
<1>2. TypeOK /\ \A q \in Producer : mine[q] \subseteq Pair /\ staged[q] \subseteq Pair
  BY DEF Inv, ProducerInv, TypeOK
<1>3. \A x \in mine[p] : /\ x[1] \in Event /\ outbox'[x[1]] \in Row
                          /\ outbox'[x[1]].content = x[2] /\ Stored(x[1])'
  BY <1>2, CommittedRows DEF Pair
<1>4. outbox' \in [Event -> Row \cup {Nothing}]
  <2> SUFFICES ASSUME NEW e \in Event PROVE outbox'[e] \in Row \cup {Nothing}
    BY DEF Commit
  <2>1. CASE e \in Ids(mine[p])
    <3>1. PICK x \in mine[p] : x[1] = e
      BY <2>1 DEF Ids
    <3> QED
      BY <1>3, <3>1
  <2>2. CASE e \notin Ids(mine[p])
    BY <1>2, <2>2, CommittedRows DEF TypeOK
  <2> QED
    BY <2>1, <2>2
<1>5. rows' \in [Event -> Nat] /\ eventLog' \subseteq Event
  BY <1>2 DEF Commit, TypeOK
<1>6. TypeOK'
  BY <1>2, <1>4, <1>5 DEF TypeOK, Commit, EndTransaction, PC
<1>7. Transactions'
  BY <1>1 DEF Inv, ProducerInv, Transactions
<1>8. \A x \in Pair : HoldsFor(x) => HoldsFor(x)'
  <2> SUFFICES ASSUME NEW x \in Pair, HoldsFor(x) PROVE HoldsFor(x)'
    OBVIOUS
  <2>1. x[1] \in Event /\ x[1] \notin Ids(mine[p])
    BY CommittedRows DEF Pair, HoldsFor
  <2> QED
    BY <2>1, CommittedRows DEF HoldsFor, Stored
<1>9. \A x \in mine[p] : HoldsFor(x)'
  BY <1>3 DEF HoldsFor
<1>10. \A q \in Producer \ {p} : \A x \in mine[q] : ~ Stored(x[1])'
  <2> SUFFICES ASSUME NEW q \in Producer \ {p}, NEW x \in mine[q] PROVE ~ Stored(x[1])'
    OBVIOUS
  <2>1. x[1] \in Event /\ ~ Stored(x[1]) /\ x[1] \notin Ids(mine[p])
    BY <1>2 DEF Inv, ProducerInv, RowsApart, Ids, Pair
  <2> QED
    BY <2>1, CommittedRows DEF Stored
<1>11. RowsApart'
  BY <1>1, <1>10 DEF RowsApart, Inv, ProducerInv
<1>12. StagedKept'
  BY <1>1, <1>2, <1>8 DEF StagedKept, Inv, ProducerInv
<1>13. \A e \in Event : Stored(e) => Stored(e)' /\ outbox'[e] = outbox[e]
  BY CommittedRows DEF Stored
<1>14. ReadKept'
  <2> SUFFICES ASSUME NEW q \in Producer, pc'[q] = "reading"
               PROVE  \/ current[q][1] \in pruned
                      \/ current[q][1] \in Ids(mine[q])
                      \/ Stored(current[q][1])'
    BY <1>1 DEF ReadKept
  <2>1. q # p /\ pc[q] = "reading" /\ current[q] \in Pair
    BY <1>1, <1>2 DEF Inv, ProducerInv, Transactions, TypeOK
  <2>2. current[q][1] \in Event
    BY <2>1 DEF Pair
  <2>3. ReadKept
    BY DEF Inv, ProducerInv
  <2> QED
    BY <1>1, <2>1, <2>2, <2>3, <1>13 DEF ReadKept, Stored
<1>15. CommittedKept'
  <2> SUFFICES ASSUME NEW q \in Producer, pc'[q] = "committed", NEW x \in plan[q]
               PROVE  x[1] \in pruned \/ HoldsFor(x)'
    BY <1>1 DEF CommittedKept
  <2>1. x \in Pair
    BY <1>2 DEF TypeOK
  <2>2. x[1] \in pruned \/ x \in mine[p] \/ HoldsFor(x)
    BY <1>1 DEF Inv, ProducerInv, CommittedKept, StagedKept
  <2> QED
    BY <1>8, <1>9, <2>1, <2>2
<1>16. StoredAnnounced'
  <2> SUFFICES ASSUME NEW e \in Event, Stored(e)'
               PROVE  \E q \in Producer : pc'[q] = "committed" /\ <<e, outbox'[e].content>> \in plan[q]
    BY <1>1 DEF StoredAnnounced
  <2>1. CASE e \in Ids(mine[p])
    <3>1. PICK x \in mine[p] : x[1] = e
      BY <2>1 DEF Ids
    <3>2. x \in plan[p] /\ x = <<e, x[2]>>
      BY <1>2, <3>1 DEF Inv, ProducerInv, Transactions, Pair
    <3>3. outbox'[e].content = x[2]
      BY <1>3, <3>1
    <3> QED
      BY <1>1, <3>2, <3>3
  <2>2. CASE e \notin Ids(mine[p])
    <3>1. Stored(e) /\ outbox'[e] = outbox[e]
      BY <2>2, CommittedRows DEF Stored
    <3> QED
      BY <1>1, <3>1 DEF Inv, ProducerInv, StoredAnnounced
  <2> QED
    BY <2>1, <2>2
<1>17. Onward
  BY <1>1 DEF Onward
<1>18. ReuseAccepted'
  BY <1>1, <1>17, TakenKept DEF ReuseAccepted, Inv, ProducerInv
<1> QED
  BY <1>6, <1>7, <1>11, <1>12, <1>14, <1>15, <1>16, <1>18 DEF ProducerInv

-----------------------------------------------------------------------------
(* The relay's half of the invariant under the producers' steps. *)
LEMMA QuietKeeps ==
  ASSUME RelayInv, Quiet, Onward PROVE RelayInv'
<1>1. UNCHANGED <<outbox, rows, eventLog, jobs, made, pruned, batch>>
  BY DEF Quiet, tables
<1>2. RelayedDelivered' /\ JobsMade' /\ BatchStored'
  BY <1>1 DEF RelayInv, RelayedDelivered, JobsMade, BatchStored, Delivered, Everywhere, Stored
<1>3. Counted'
  BY <1>1 DEF RelayInv, Counted, Unrelayed, Stored
<1>4. Recorded'
  BY <1>1 DEF RelayInv, Recorded, Committed, Onward
<1> QED
  BY <1>2, <1>3, <1>4 DEF RelayInv

(* A committed row is a publication whose jobs are still to be made. *)
LEMMA CommitKeepsRelay == ASSUME Inv, NEW p \in Producer, Commit(p) PROVE RelayInv'
<1>1. /\ UNCHANGED <<jobs, made, pruned, plan, batch>>
      /\ eventLog' = eventLog \cup noted[p]
      /\ pc'[p] = "committed"
      /\ \A q \in Producer \ {p} : pc'[q] = pc[q]
  BY DEF Commit, Inv, ProducerInv, TypeOK
<1>2. TypeOK /\ RelayInv /\ noted[p] \subseteq Ids(plan[p])
  BY DEF Inv, ProducerInv, Transactions
<1>3. \A e \in Ids(mine[p]) : e \in Event => ~ outbox'[e].relayed
  BY CommittedRows DEF Ids
<1>4. RelayedDelivered'
  <2> SUFFICES ASSUME NEW e \in Event, e \in pruned \/ (Stored(e)' /\ outbox'[e].relayed)
               PROVE  Delivered(e)
    BY <1>1 DEF RelayedDelivered, Delivered, Everywhere
  <2>1. e \in pruned \/ (Stored(e) /\ outbox[e].relayed)
    BY <1>3, CommittedRows DEF Stored
  <2> QED
    BY <1>2, <2>1 DEF RelayInv, RelayedDelivered
<1>5. JobsMade'
  BY <1>1, <1>2 DEF RelayInv, JobsMade
<1>6. BatchStored'
  <2> SUFFICES ASSUME NEW r \in Relayer, NEW e \in batch[r] PROVE Stored(e)'
    BY <1>1 DEF BatchStored
  <2>1. e \in Event /\ Stored(e)
    BY <1>2 DEF RelayInv, BatchStored, TypeOK
  <2> QED
    BY <2>1, CommittedRows DEF Stored
<1>7. Counted'
  <2> SUFFICES ASSUME NEW e \in Event, NEW s \in Subscriber
               PROVE  /\ made[e][s] <= rows'[e]
                      /\ Unrelayed(e)' => made[e][s] < rows'[e]
                      /\ \A r \in Relayer : e \in batch[r] /\ jobs[e][s] = "absent" => made[e][s] < rows'[e]
    BY <1>1 DEF Counted
  <2>1. /\ made[e][s] \in Nat /\ rows[e] \in Nat
        /\ made[e][s] <= rows[e]
        /\ Unrelayed(e) => made[e][s] < rows[e]
        /\ \A r \in Relayer : e \in batch[r] /\ jobs[e][s] = "absent" => made[e][s] < rows[e]
    BY <1>2 DEF RelayInv, Counted, TypeOK
  <2>2. CASE e \in Ids(mine[p])
    BY <2>1, <2>2, CommittedRows
  <2>3. CASE e \notin Ids(mine[p])
    BY <2>1, <2>3, CommittedRows DEF Unrelayed, Stored
  <2> QED
    BY <2>2, <2>3
<1>8. Recorded'
  BY <1>1, <1>2 DEF RelayInv, Recorded, Committed
<1> QED
  BY <1>4, <1>5, <1>6, <1>7, <1>8 DEF RelayInv

-----------------------------------------------------------------------------
(* Steps of the relay, the workers and retention leave the producers alone. *)
LEMMA StoredSame ==
  ASSUME ProducerInv, UNCHANGED <<producers, pruned>>, TypeOK',
         \A e \in Event : (Stored(e)' <=> Stored(e)) /\ (Stored(e) => outbox'[e].content = outbox[e].content)
  PROVE  ProducerInv'
<1>1. UNCHANGED <<plan, pc, staged, mine, noted, current, pruned>>
  BY DEF producers
<1>2. \A x \in Pair : x[1] \in Event
  BY DEF Pair
<1>3. \A q \in Producer : mine[q] \subseteq Pair /\ staged[q] \subseteq Pair /\ plan[q] \subseteq Pair
  BY DEF ProducerInv, TypeOK
<1>4. \A x \in Pair : (HoldsFor(x) => HoldsFor(x)') /\ (Stored(x[1])' <=> Stored(x[1]))
  BY <1>2 DEF HoldsFor
<1>5. Transactions' /\ ReuseAccepted'
  BY <1>1 DEF ProducerInv, Transactions, ReuseAccepted, Taken
<1>6. RowsApart' /\ StagedKept' /\ CommittedKept'
  BY <1>1, <1>3, <1>4 DEF ProducerInv, RowsApart, StagedKept, CommittedKept
<1>7. ReadKept'
  <2> SUFFICES ASSUME NEW q \in Producer, pc[q] = "reading"
               PROVE  \/ current[q][1] \in pruned
                      \/ current[q][1] \in Ids(mine[q])
                      \/ Stored(current[q][1])'
    BY <1>1 DEF ReadKept
  <2>1. current[q] \in Pair
    BY <1>3 DEF ProducerInv, Transactions
  <2> QED
    BY <1>1, <1>4, <2>1 DEF ProducerInv, ReadKept, Stored
<1>8. StoredAnnounced'
  BY <1>1 DEF ProducerInv, StoredAnnounced
<1> QED
  BY <1>5, <1>6, <1>7, <1>8 DEF ProducerInv

(* made never falls, so what is delivered stays delivered. *)
LEMMA DeliveredKept ==
  ASSUME NEW e \in Event, Delivered(e), TypeOK,
         \A s \in Subscriber : made'[e][s] \in Nat /\ made'[e][s] >= made[e][s]
  PROVE  Delivered(e)'
BY DEF Delivered, Everywhere, TypeOK

(* Selected rows are stored and have made no job. *)
LEMMA RelaySelectStep ==
  ASSUME Inv, NEW r \in Relayer, NEW es \in SUBSET Event, RelaySelect(r, es) PROVE Inv'
<1>1. /\ UNCHANGED <<database, outbox, rows, eventLog, jobs, made, pruned>> /\ UNCHANGED producers
      /\ batch' = [batch EXCEPT ![r] = es]
      /\ \A e \in es : Unrelayed(e)
  BY DEF RelaySelect, tables
<1>2. TypeOK'
  BY <1>1 DEF Inv, ProducerInv, TypeOK, producers
<1>3. ProducerInv'
  BY <1>1, <1>2, StoredSame DEF Inv, Stored
<1>4. \A q \in Relayer : batch'[q] = batch[q] \/ (q = r /\ batch'[q] = es)
  BY <1>1 DEF Inv, ProducerInv, TypeOK
<1>5. RelayedDelivered' /\ JobsMade' /\ Recorded'
  BY <1>1 DEF Inv, RelayInv, RelayedDelivered, JobsMade, Recorded, Delivered, Everywhere, Stored,
              Committed, producers
<1>6. BatchStored'
  BY <1>1, <1>4 DEF Inv, RelayInv, BatchStored, Unrelayed, Stored
<1>7. Counted'
  BY <1>1, <1>4 DEF Inv, RelayInv, Counted, Unrelayed, Stored
<1> QED
  BY <1>3, <1>5, <1>6, <1>7 DEF Inv, RelayInv

(* A failed pass gives its rows back. *)
LEMMA RelayFailStep == ASSUME Inv, NEW r \in Relayer, RelayFail(r) PROVE Inv'
<1>1. /\ UNCHANGED <<database, outbox, rows, eventLog, jobs, made, pruned>> /\ UNCHANGED producers
      /\ batch' = [batch EXCEPT ![r] = {}]
  BY DEF RelayFail, tables
<1>2. TypeOK'
  BY <1>1 DEF Inv, ProducerInv, TypeOK, producers
<1>3. ProducerInv'
  BY <1>1, <1>2, StoredSame DEF Inv, Stored
<1>4. \A q \in Relayer : batch'[q] = batch[q] \/ batch'[q] = {}
  BY <1>1 DEF Inv, ProducerInv, TypeOK
<1>5. RelayedDelivered' /\ JobsMade' /\ Recorded'
  BY <1>1 DEF Inv, RelayInv, RelayedDelivered, JobsMade, Recorded, Delivered, Everywhere, Stored,
              Committed, producers
<1>6. BatchStored' /\ Counted'
  BY <1>1, <1>4 DEF Inv, RelayInv, BatchStored, Counted, Unrelayed, Stored
<1> QED
  BY <1>3, <1>5, <1>6 DEF Inv, RelayInv

(* A pass stamps rows and makes jobs; it fails no row and no job is lost. *)
LEMMA RelayCommitStep == ASSUME Inv, NEW r \in Relayer, RelayCommit(r) PROVE Inv'
<1>1. /\ UNCHANGED <<database, rows, eventLog, pruned>> /\ UNCHANGED producers
      /\ batch' = [batch EXCEPT ![r] = {}]
      /\ \A e \in Event : outbox'[e] = Stamped(r, e)
      /\ \A e \in Event, s \in Subscriber :
            /\ jobs'[e][s] = IF FansOut(r, e, s) THEN "unfinished" ELSE jobs[e][s]
            /\ made'[e][s] = IF FansOut(r, e, s) THEN made[e][s] + 1 ELSE made[e][s]
  BY DEF RelayCommit
<1>2. TypeOK /\ RelayInv /\ ProducerInv
  BY DEF Inv, ProducerInv
<1>3. \A e \in Event : outbox[e] \in Row \cup {Nothing} /\ (Stored(e) => outbox[e] \in Row)
  BY <1>2 DEF TypeOK, Stored
<1>4. \A e \in Event :
         IF e \in batch[r] THEN /\ Stored(e) /\ Stored(e)' /\ outbox'[e] \in Row
                                /\ outbox'[e].content = outbox[e].content /\ outbox'[e].relayed
                           ELSE outbox'[e] = outbox[e] /\ (Stored(e)' <=> Stored(e))
  <2> SUFFICES ASSUME NEW e \in Event
               PROVE  IF e \in batch[r] THEN /\ Stored(e) /\ Stored(e)' /\ outbox'[e] \in Row
                                             /\ outbox'[e].content = outbox[e].content /\ outbox'[e].relayed
                                        ELSE outbox'[e] = outbox[e] /\ (Stored(e)' <=> Stored(e))
    OBVIOUS
  <2>1. CASE e \in batch[r]
    <3>1. Stored(e) /\ outbox[e] \in Row
      BY <1>2, <1>3, <2>1 DEF RelayInv, BatchStored
    <3>2. outbox'[e] = [outbox[e] EXCEPT !.relayed = TRUE]
      BY <1>1, <2>1, <3>1 DEF Stamped
    <3>3. outbox'[e] \in Row /\ outbox'[e].content = outbox[e].content /\ outbox'[e].relayed
      BY <3>1, <3>2 DEF Row
    <3> QED
      BY <2>1, <3>1, <3>3, OutboxAssumption DEF Stored, Row
  <2>2. CASE e \notin batch[r]
    BY <1>1, <2>2 DEF Stamped, Stored
  <2> QED
    BY <2>1, <2>2
<1>5. \A e \in Event, s \in Subscriber : made[e][s] \in Nat /\ made'[e][s] \in Nat /\ made'[e][s] >= made[e][s]
  BY <1>1, <1>2 DEF TypeOK
<1>6. TypeOK'
  <2>1. outbox' \in [Event -> Row \cup {Nothing}]
    BY <1>3, <1>4 DEF RelayCommit
  <2>2. jobs' \in [Event -> [Subscriber -> JobState]]
    BY <1>2 DEF RelayCommit, TypeOK, JobState
  <2>3. made' \in [Event -> [Subscriber -> Nat]]
    BY <1>2 DEF RelayCommit, TypeOK
  <2> QED
    BY <1>1, <1>2, <2>1, <2>2, <2>3 DEF TypeOK, producers
<1>7. ProducerInv'
  BY <1>1, <1>2, <1>4, <1>6, StoredSame
<1>8. JobsMade'
  BY <1>1, <1>2, <1>5 DEF RelayInv, JobsMade
<1>9. RelayedDelivered'
  <2> SUFFICES ASSUME NEW e \in Event, e \in pruned \/ (Stored(e)' /\ outbox'[e].relayed)
               PROVE  Delivered(e)'
    BY <1>1 DEF RelayedDelivered
  <2>1. CASE e \in batch[r]
    <3> SUFFICES ASSUME NEW s \in Everywhere PROVE made'[e][s] > 0
      BY DEF Delivered, Everywhere
    <3>1. s \in Subscriber /\ s \in Known[r]
      BY DEF Everywhere
    <3>2. CASE jobs[e][s] = "absent"
      BY <1>1, <1>5, <2>1, <3>1, <3>2 DEF FansOut
    <3>3. CASE jobs[e][s] # "absent"
      BY <1>2, <1>5, <3>1, <3>3 DEF RelayInv, JobsMade
    <3> QED
      BY <3>2, <3>3
  <2>2. CASE e \notin batch[r]
    <3>1. Delivered(e)
      BY <1>2, <1>4, <2>2 DEF RelayInv, RelayedDelivered
    <3> QED
      BY <1>2, <1>5, <3>1, DeliveredKept
  <2> QED
    BY <2>1, <2>2
<1>10. \A q \in Relayer : batch'[q] = {} \/ batch'[q] = batch[q]
  BY <1>1, <1>2 DEF TypeOK
<1>11. \A q \in Relayer : batch[q] \subseteq Event
  BY <1>2 DEF TypeOK
<1>12. BatchStored'
  BY <1>2, <1>4, <1>10, <1>11 DEF RelayInv, BatchStored
<1>13. Counted'
  <2> SUFFICES ASSUME NEW e \in Event, NEW s \in Subscriber
               PROVE  /\ made'[e][s] <= rows[e]
                      /\ Unrelayed(e)' => made'[e][s] < rows[e]
                      /\ \A q \in Relayer : e \in batch'[q] /\ jobs'[e][s] = "absent" => made'[e][s] < rows[e]
    BY <1>1 DEF Counted
  <2>1. /\ made[e][s] \in Nat /\ rows[e] \in Nat /\ made[e][s] <= rows[e]
        /\ Unrelayed(e) => made[e][s] < rows[e]
        /\ \A q \in Relayer : e \in batch[q] /\ jobs[e][s] = "absent" => made[e][s] < rows[e]
    BY <1>2 DEF RelayInv, Counted, TypeOK
  <2>2. CASE FansOut(r, e, s)
    <3>1. e \in batch[r] /\ made'[e][s] = made[e][s] + 1 /\ made[e][s] < rows[e] /\ jobs'[e][s] = "unfinished"
      BY <1>1, <2>1, <2>2 DEF FansOut
    <3>2. ~ Unrelayed(e)'
      BY <1>4, <3>1 DEF Unrelayed
    <3> QED
      BY <2>1, <3>1, <3>2
  <2>3. CASE ~ FansOut(r, e, s)
    <3>1. made'[e][s] = made[e][s] /\ jobs'[e][s] = jobs[e][s]
      BY <1>1, <2>3
    <3>2. Unrelayed(e)' => Unrelayed(e)
      BY <1>4 DEF Unrelayed
    <3> QED
      BY <1>10, <2>1, <3>1, <3>2
  <2> QED
    BY <2>2, <2>3
<1>14. Recorded'
  <2> SUFFICES ASSUME NEW e \in Event, e \in eventLog \/ \E s \in Subscriber : made'[e][s] > 0
               PROVE  Committed(e)
    BY <1>1 DEF Recorded, Committed, producers
  <2>1. CASE e \in batch[r]
    <3>1. PICK q \in Producer : pc[q] = "committed" /\ <<e, outbox[e].content>> \in plan[q]
      BY <1>2, <1>4, <2>1 DEF ProducerInv, StoredAnnounced
    <3> QED
      BY <3>1 DEF Committed, Ids
  <2>2. CASE e \notin batch[r]
    BY <1>1, <1>2, <2>2 DEF RelayInv, Recorded, FansOut
  <2> QED
    BY <2>1, <2>2
<1> QED
  BY <1>7, <1>8, <1>9, <1>12, <1>13, <1>14 DEF Inv, RelayInv

(* Jobs completing and being deleted, and outbox rows being deleted. *)
LEMMA RetentionInv == ASSUME Inv, NEW e \in Event, RetentionStep(e) PROVE Inv'
<1>0. TypeOK /\ RelayInv /\ ProducerInv
  BY DEF Inv, ProducerInv
<1>1. ASSUME NEW s \in Subscriber, JobCompletes(e, s) \/ PruneJob(e, s) PROVE Inv'
  <2>1. /\ UNCHANGED <<database, rows, eventLog, made, batch, outbox, pruned>> /\ UNCHANGED producers
        /\ jobs[e][s] # "absent"
        /\ \A d \in Event, t \in Subscriber :
              jobs'[d][t] # jobs[d][t] => d = e /\ t = s
        /\ jobs'[e][s] = "absent" => \A r \in Relayer : e \notin batch[r]
    BY <1>0, <1>1 DEF JobCompletes, PruneJob, TypeOK
  <2>2. jobs' \in [Event -> [Subscriber -> JobState]]
    <3>1. PICK v \in JobState : jobs' = [jobs EXCEPT ![e][s] = v]
      BY <1>1 DEF JobCompletes, PruneJob, JobState
    <3> QED
      BY <1>0, <3>1 DEF TypeOK
  <2>3. TypeOK'
    BY <1>0, <2>1, <2>2 DEF TypeOK, producers
  <2>4. ProducerInv'
    BY <1>0, <2>1, <2>3, StoredSame DEF Stored
  <2>5. RelayedDelivered' /\ BatchStored' /\ Recorded'
    BY <1>0, <2>1 DEF RelayInv, RelayedDelivered, BatchStored, Recorded, Delivered, Everywhere,
                      Stored, Committed, producers
  <2>6. JobsMade'
    BY <1>0, <2>1 DEF RelayInv, JobsMade
  <2>7. Counted'
    BY <1>0, <2>1 DEF RelayInv, Counted, Unrelayed, Stored
  <2> QED
    BY <2>4, <2>5, <2>6, <2>7 DEF Inv, RelayInv
<1>2. ASSUME PruneOutbox(e) PROVE Inv'
  <2>1. /\ UNCHANGED <<database, rows, eventLog, made, jobs, batch>>
        /\ UNCHANGED <<plan, pc, staged, mine, noted, current, view>>
        /\ Stored(e) /\ outbox[e].relayed /\ ~ Stored(e)' /\ pruned' = pruned \cup {e}
        /\ \A d \in Event \ {e} : outbox'[d] = outbox[d] /\ (Stored(d)' <=> Stored(d))
        /\ \A r \in Relayer : e \notin batch[r]
    BY <1>0, <1>2 DEF PruneOutbox, TypeOK, Stored, producers
  <2>2. TypeOK'
    BY <1>0, <1>2, <2>1 DEF TypeOK, PruneOutbox
  <2>3. \A q \in Producer : mine[q] \subseteq Pair /\ staged[q] \subseteq Pair /\ plan[q] \subseteq Pair
    BY <1>0 DEF TypeOK
  <2>4. \A x \in Pair : x[1] \in Event /\ (HoldsFor(x) => x[1] \in pruned' \/ HoldsFor(x)')
    BY <2>1 DEF HoldsFor, Pair
  <2>5. Transactions'
    BY <1>0, <2>1 DEF ProducerInv, Transactions
  <2>6. RowsApart'
    BY <1>0, <2>1, <2>3, <2>4 DEF ProducerInv, RowsApart
  <2>7. StagedKept' /\ CommittedKept'
    BY <1>0, <2>1, <2>3, <2>4 DEF ProducerInv, StagedKept, CommittedKept
  <2>8. ReadKept'
    <3> SUFFICES ASSUME NEW q \in Producer, pc[q] = "reading"
                 PROVE  \/ current[q][1] \in pruned'
                        \/ current[q][1] \in Ids(mine[q])
                        \/ Stored(current[q][1])'
      BY <2>1 DEF ReadKept
    <3>1. current[q] \in Pair
      BY <1>0, <2>3 DEF ProducerInv, Transactions
    <3> QED
      BY <1>0, <2>1, <2>4, <3>1 DEF ProducerInv, ReadKept, Stored
  <2>9. StoredAnnounced'
    BY <1>0, <2>1 DEF ProducerInv, StoredAnnounced
  <2>10. Onward
    BY <2>1 DEF Onward
  <2>11. ReuseAccepted'
    BY <1>0, <2>1, <2>10, TakenKept DEF ProducerInv, ReuseAccepted
  <2>12. RelayedDelivered'
    BY <1>0, <2>1 DEF RelayInv, RelayedDelivered, Delivered, Everywhere
  <2>13. JobsMade' /\ Recorded'
    BY <1>0, <2>1 DEF RelayInv, JobsMade, Recorded, Committed
  <2>14. BatchStored'
    BY <1>0, <2>1 DEF RelayInv, BatchStored, TypeOK
  <2>15. Counted'
    BY <1>0, <2>1 DEF RelayInv, Counted, Unrelayed
  <2> QED
    BY <2>2, <2>5, <2>6, <2>7, <2>8, <2>9, <2>11, <2>12, <2>13, <2>14, <2>15
       DEF Inv, ProducerInv, RelayInv
<1> QED
  BY <1>1, <1>2 DEF RetentionStep

-----------------------------------------------------------------------------
(* Every step of a producer keeps the invariant. *)
LEMMA ProducerStepInv == ASSUME Inv, NEW p \in Producer, ProducerStep(p) PROVE Inv'
<1>1. CASE Commit(p)
  BY <1>1, CommitStep, CommitKeepsRelay DEF Inv
<1>2. ASSUME ProducerInv', Quiet, Onward PROVE Inv'
  BY <1>2, QuietKeeps DEF Inv
<1>3. TypeOK
  BY DEF Inv, ProducerInv
<1>4. CASE Begin(p)
  <2>1. Quiet /\ Onward
    BY <1>3, <1>4 DEF Begin, Quiet, Onward, tables, TypeOK
  <2> QED
    BY <1>2, <1>4, <2>1, BeginStep
<1>5. CASE \E x \in Pair : Insert(p, x)
  <2>1. Quiet /\ Onward
    BY <1>3, <1>5 DEF Insert, Quiet, Onward, tables, TypeOK
  <2> QED
    BY <1>2, <1>5, <2>1, InsertStep
<1>6. CASE Accept(p)
  <2>1. Quiet /\ Onward
    BY <1>3, <1>6 DEF Accept, Quiet, Onward, tables, TypeOK
  <2> QED
    BY <1>2, <1>6, <2>1, AcceptStep
<1>7. CASE Refuse(p)
  <2>1. Quiet /\ Onward
    BY <1>3, <1>7 DEF Refuse, Rollback, Quiet, Onward, tables, TypeOK
  <2> QED
    BY <1>2, <1>7, <2>1, RefuseStep
<1>8. CASE Fail(p)
  <2>1. Quiet /\ Onward
    BY <1>3, <1>8 DEF Fail, Rollback, Quiet, Onward, tables, TypeOK
  <2> QED
    BY <1>2, <1>8, <2>1, FailStep
<1> QED
  BY <1>1, <1>4, <1>5, <1>6, <1>7, <1>8 DEF ProducerStep

(* So does a step that changes nothing. *)
LEMMA Stutter == ASSUME Inv, UNCHANGED vars PROVE Inv'
<1>1. UNCHANGED producers /\ UNCHANGED <<database, tables, batch>>
  BY DEF vars
<1>2. TypeOK'
  BY <1>1 DEF Inv, ProducerInv, TypeOK, producers, tables
<1>3. ProducerInv'
  BY <1>1, <1>2, StoredSame DEF Inv, Stored, tables
<1>4. Onward /\ Quiet
  BY <1>1 DEF Onward, Quiet, producers, tables
<1> QED
  BY <1>3, <1>4, QuietKeeps DEF Inv

(* The strengthened invariant holds in every behaviour of the specification. *)
THEOREM OutboxInvariant == Spec => []Inv
<1>1. Inv /\ [Next]_vars => Inv'
  <2> SUFFICES ASSUME Inv, [Next]_vars PROVE Inv'
    OBVIOUS
  <2>1. ASSUME NEW p \in Producer, ProducerStep(p) PROVE Inv'
    BY <2>1, ProducerStepInv
  <2>2. ASSUME NEW r \in Relayer, RelayStep(r) PROVE Inv'
    BY <2>2, RelayCommitStep, RelayFailStep, RelaySelectStep DEF RelayStep
  <2>3. ASSUME NEW e \in Event, RetentionStep(e) PROVE Inv'
    BY <2>3, RetentionInv
  <2> QED
    BY <2>1, <2>2, <2>3, Stutter DEF Next
<1> QED
  BY <1>1, InvInit, PTL DEF Spec

(* publish_committing: for any number of producers, ids and relayers, no    *)
(* event of a committed change is lost before its jobs are made.            *)
THEOREM NoEventIsLost == Spec => []NothingLost
<1>1. Inv => NothingLost
  <2> SUFFICES ASSUME Inv, NEW p \in Producer, pc[p] = "committed", NEW x \in plan[p]
               PROVE  Unrelayed(x[1]) \/ Delivered(x[1])
    BY DEF NothingLost
  <2>1. x[1] \in Event
    BY DEF Inv, ProducerInv, TypeOK, Pair
  <2>2. x[1] \in pruned \/ Stored(x[1])
    BY DEF Inv, ProducerInv, CommittedKept, HoldsFor
  <2> QED
    BY <2>1, <2>2 DEF Inv, RelayInv, RelayedDelivered, Unrelayed
<1> QED
  BY <1>1, OutboxInvariant, PTL

(* A transaction that does not commit leaves no row, record or job behind.  *)
THEOREM NoEventIsInvented == Spec => []NothingInvented
<1>1. Inv => NothingInvented
  <2> SUFFICES ASSUME Inv, NEW e \in Event,
                      Stored(e) \/ e \in eventLog \/ \E s \in Subscriber : made[e][s] > 0
               PROVE  Committed(e)
    BY DEF NothingInvented, Committed
  <2>1. CASE Stored(e)
    <3>1. PICK q \in Producer : pc[q] = "committed" /\ <<e, outbox[e].content>> \in plan[q]
      BY <2>1 DEF Inv, ProducerInv, StoredAnnounced
    <3> QED
      BY <3>1 DEF Committed, Ids
  <2>2. CASE ~ Stored(e)
    BY <2>2 DEF Inv, RelayInv, Recorded
  <2> QED
    BY <2>1, <2>2
<1> QED
  BY <1>1, OutboxInvariant, PTL

(* _check_same_event: while its row is kept, an id names one event.         *)
THEOREM IdsAreFaithful == Spec => []IdNamesOneEvent
<1>1. Inv => IdNamesOneEvent
  <2> SUFFICES ASSUME Inv, NEW p \in Producer, NEW q \in Producer,
                      pc[p] = "committed", pc[q] = "committed",
                      NEW x \in plan[p], NEW y \in plan[q], x[1] = y[1], x[1] \notin pruned
               PROVE  x = y
    BY DEF IdNamesOneEvent
  <2>1. x = <<x[1], x[2]>> /\ y = <<y[1], y[2]>>
    BY DEF Inv, ProducerInv, TypeOK, Pair
  <2>2. outbox[x[1]].content = x[2] /\ outbox[y[1]].content = y[2]
    BY DEF Inv, ProducerInv, CommittedKept, HoldsFor
  <2> QED
    BY <2>1, <2>2
<1> QED
  BY <1>1, OutboxInvariant, PTL

(* needs_locking_read: the same event under the same id is not refused.     *)
THEOREM ReuseIsAccepted == Spec => []ReuseAccepted
<1>1. Inv => ReuseAccepted
  BY DEF Inv, ProducerInv
<1> QED
  BY <1>1, OutboxInvariant, PTL

(* The relay: a publication makes at most one job per subscriber, with and  *)
(* without SKIP LOCKED.                                                     *)
THEOREM PublishedOnce == Spec => []OncePerPublication
<1>1. Inv => OncePerPublication
  BY DEF Inv, RelayInv, Counted, OncePerPublication
<1> QED
  BY <1>1, OutboxInvariant, PTL

(* publish_many_durable and relay_outbox_once, for any number of producers, *)
(* relayers and subscribers: a committed change becomes all of its jobs,    *)
(* one for each publication, and nothing else does.                         *)
THEOREM FanOutIsExact == Spec => []FannedOutOnce
<1>1. NothingLost /\ NothingInvented /\ OncePerPublication => FannedOutOnce
  BY DEF FannedOutOnce
<1> QED
  BY <1>1, NoEventIsLost, NoEventIsInvented, PublishedOnce, PTL

(* _insert_or_confirm, with and without snapshots: an id stands for one     *)
(* event, for those who publish another under it and for those who publish *)
(* the same again.                                                          *)
THEOREM IdsStandForEvents == Spec => []IdsFaithful
<1>1. IdNamesOneEvent /\ ReuseAccepted => IdsFaithful
  BY DEF IdsFaithful
<1> QED
  BY <1>1, IdsAreFaithful, ReuseIsAccepted, PTL
=============================================================================
