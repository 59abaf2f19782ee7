------------------------------- MODULE Outbox -------------------------------
(***************************************************************************)
(* The durable route of an event: producers stage it in the outbox inside  *)
(* their own transaction (publisher.py, jobs/outbox.py), relayers turn it  *)
(* into one job per subscriber (jobs/relay.py), and retention deletes what *)
(* is finished with.  Event ids may be reused, so two transactions can go  *)
(* for the same row.                                                       *)
(***************************************************************************)
EXTENDS Integers

CONSTANTS Producer,       \* sessions that publish, one unit of work each
          Event,          \* event ids
          Content,        \* what may be published under an id: its type and payload
          Plans,          \* the batches producers publish, sets of <<id, content>>
          Subscriber,     \* durable subscribers of the event type
          Relayer,        \* processes that run the relay
          Known,          \* [Relayer -> SUBSET Subscriber], the registry of each
          Databases,      \* what the databases offer: records of Database
          Nothing,        \* no row, no pair
          MaxRows         \* bound: outbox rows ever inserted under one id

Database == [skipLocked : BOOLEAN,   \* supports_skip_locked
             snapshots : BOOLEAN]    \* a plain read may miss what was committed meanwhile

Pair == Event \X Content

ASSUME OutboxAssumption ==
    /\ Plans \subseteq SUBSET Pair
    /\ Known \in [Relayer -> SUBSET Subscriber]
    /\ Databases \subseteq Database
    /\ MaxRows \in Nat
    /\ Nothing \notin Pair
    /\ Nothing \notin [content : Content, relayed : BOOLEAN]

VARIABLES database,   \* the database in use, fixed
          outbox,     \* the committed row of each id
          rows,       \* how many rows were ever committed under each id
          eventLog,   \* ids with a committed queued row
          jobs,       \* state of the processing_jobs row of each id and subscriber
          made,       \* jobs ever inserted
          pruned,     \* ids retention has deleted the outbox row of
          plan,       \* what each producer publishes
          pc,
          staged,     \* pairs the open transaction is done with
          mine,       \* pairs it inserted
          noted,      \* ids it recorded queued
          current,    \* the pair between its insert and its read-back
          view,       \* ids its snapshot, if it has one, sees committed
          batch       \* rows each relayer has selected

producers == <<plan, pc, staged, mine, noted, current, view>>
tables == <<outbox, rows, eventLog, jobs, made, pruned>>
vars == <<database, tables, producers, batch>>

-----------------------------------------------------------------------------
Row == [content : Content, relayed : BOOLEAN]

JobState == {"absent", "unfinished", "completed"}

PC == {"start", "staging", "reading", "committed", "refused", "failed"}

Stored(e) == outbox[e] # Nothing

Init ==
    /\ database \in Databases
    /\ outbox = [e \in Event |-> Nothing]
    /\ rows = [e \in Event |-> 0]
    /\ eventLog = {}
    /\ jobs = [e \in Event |-> [s \in Subscriber |-> "absent"]]
    /\ made = [e \in Event |-> [s \in Subscriber |-> 0]]
    /\ pruned = {}
    /\ plan = [p \in Producer |-> {}]
    /\ pc = [p \in Producer |-> "start"]
    /\ staged = [p \in Producer |-> {}]
    /\ mine = [p \in Producer |-> {}]
    /\ noted = [p \in Producer |-> {}]
    /\ current = [p \in Producer |-> Nothing]
    /\ view = [p \in Producer |-> {}]
    /\ batch = [r \in Relayer |-> {}]

-----------------------------------------------------------------------------
(* A unit of work begins: a domain change and the events it publishes.     *)
(* publish(), called after the domain commit, is one with a single event   *)
(* and no other change.                                                    *)
Begin(p) ==
    /\ pc[p] = "start"
    /\ \E b \in Plans : plan' = [plan EXCEPT ![p] = b]
    /\ pc' = [pc EXCEPT ![p] = "staging"]
    /\ view' = [view EXCEPT ![p] = {e \in Event : Stored(e) /\ database.snapshots}]
    /\ UNCHANGED <<database, tables, staged, mine, noted, current, batch>>

Ids(pairs) == {x[1] : x \in pairs}

(* An insert waits while another transaction holds an uncommitted row of the id. *)
Contended(p, e) == \E q \in Producer \ {p} : e \in Ids(mine[q])

(* Mutant of Insert: the row is committed at once. *)
InsertCommitting(p, x) ==
    /\ pc[p] = "staging"
    /\ x \in plan[p] \ staged[p]
    /\ ~ Stored(x[1]) /\ rows[x[1]] < MaxRows
    /\ outbox' = [outbox EXCEPT ![x[1]] = [content |-> x[2], relayed |-> FALSE]]
    /\ rows' = [rows EXCEPT ![x[1]] = @ + 1]
    /\ current' = [current EXCEPT ![p] = x]
    /\ pc' = [pc EXCEPT ![p] = "reading"]
    /\ UNCHANGED <<database, eventLog, jobs, made, pruned, plan, staged, mine, noted, view, batch>>

(* insert_ignoring_conflict on the unique event_id *)
Insert(p, x) ==
    /\ pc[p] = "staging"
    /\ x \in plan[p] \ staged[p]
    /\ ~ Contended(p, x[1])
    /\ Stored(x[1]) \/ rows[x[1]] < MaxRows
    /\ mine' = [mine EXCEPT ![p] = IF Stored(x[1]) \/ x[1] \in Ids(@) THEN @ ELSE @ \cup {x}]
    /\ current' = [current EXCEPT ![p] = x]
    /\ pc' = [pc EXCEPT ![p] = "reading"]
    /\ UNCHANGED <<database, tables, plan, staged, noted, view, batch>>

(* Mutant of Readable: needs_locking_read is not asked. *)
ReadableFromView(p, e) ==
    e \in Ids(mine[p]) \/ (Stored(e) /\ (database.snapshots => e \in view[p]))

(* Is there a row for the read-back?  It reads the latest committed row,   *)
(* locking it where a plain read could be older; retention may have        *)
(* deleted the row that made the insert a no-op.                           *)
Readable(p, e) == e \in Ids(mine[p]) \/ Stored(e)

(* Mutant of SameEvent: what is stored under the id is not compared. *)
SameEventById(p, x) == TRUE

(* _check_same_event *)
SameEvent(p, x) ==
    IF x[1] \in Ids(mine[p]) THEN x \in mine[p] ELSE outbox[x[1]].content = x[2]

(* The pair is staged; an id that is new to the outbox is recorded queued,  *)
(* in a savepoint whose failure is swallowed.                               *)
Accept(p) ==
    LET x == current[p]
    IN  /\ pc[p] = "reading"
        /\ Readable(p, x[1])
        /\ SameEvent(p, x)
        /\ staged' = [staged EXCEPT ![p] = @ \cup {x}]
        /\ \/ noted' = [noted EXCEPT ![p] = @ \cup (Ids(mine[p]) \cap {x[1]})]
           \/ UNCHANGED noted
        /\ pc' = [pc EXCEPT ![p] = "staging"]
        /\ current' = [current EXCEPT ![p] = Nothing]
        /\ UNCHANGED <<database, tables, plan, mine, view, batch>>

EndTransaction(p) ==
    /\ staged' = [staged EXCEPT ![p] = {}]
    /\ mine' = [mine EXCEPT ![p] = {}]
    /\ noted' = [noted EXCEPT ![p] = {}]
    /\ view' = [view EXCEPT ![p] = {}]

Rollback(p) ==
    /\ EndTransaction(p)
    /\ UNCHANGED <<database, tables, plan, batch>>

(* The id is stored for another event, or is not there to be read. *)
Refuse(p) ==
    /\ pc[p] = "reading"
    /\ ~ (Readable(p, current[p][1]) /\ SameEvent(p, current[p]))
    /\ pc' = [pc EXCEPT ![p] = "refused"]
    /\ Rollback(p)
    /\ UNCHANGED current

(* Any other failure, a deadlock of two transactions or a crash included. *)
Fail(p) ==
    /\ pc[p] \in {"staging", "reading"}
    /\ pc' = [pc EXCEPT ![p] = "failed"]
    /\ current' = [current EXCEPT ![p] = Nothing]
    /\ Rollback(p)

NewRow(x) == [content |-> x[2], relayed |-> FALSE]

(* Mutant of Ready: the events are committed before they are all staged. *)
ReadyEarly(p) == pc[p] = "staging"

Ready(p) == pc[p] = "staging" /\ staged[p] = plan[p]

Commit(p) ==
    /\ Ready(p)
    /\ pc' = [pc EXCEPT ![p] = "committed"]
    /\ outbox' = [e \in Event |->
                    IF e \in Ids(mine[p])
                    THEN NewRow(CHOOSE x \in mine[p] : x[1] = e) ELSE outbox[e]]
    /\ rows' = [e \in Event |-> IF e \in Ids(mine[p]) THEN rows[e] + 1 ELSE rows[e]]
    /\ eventLog' = eventLog \cup noted[p]
    /\ EndTransaction(p)
    /\ UNCHANGED <<database, jobs, made, pruned, plan, current, batch>>

-----------------------------------------------------------------------------
(* The relay.  A pass is one transaction.                                    *)

LockedByOther(r, e) == database.skipLocked /\ \E q \in Relayer \ {r} : e \in batch[q]

Unrelayed(e) == Stored(e) /\ ~ outbox[e].relayed

(* list_unrelayed *)
RelaySelect(r, es) ==
    /\ batch[r] = {}
    /\ es # {}
    /\ \A e \in es : Unrelayed(e) /\ ~ LockedByOther(r, e)
    /\ batch' = [batch EXCEPT ![r] = es]
    /\ UNCHANGED <<database, tables, producers>>

(* Mutant of FansOut: a job is inserted although there is one. *)
FansOutAgain(r, e, s) == e \in batch[r] /\ s \in Known[r]

(* insert_job: a no-op where the id and subscriber have a job *)
FansOut(r, e, s) == e \in batch[r] /\ s \in Known[r] /\ jobs[e][s] = "absent"

(* mark_relayed *)
Stamped(r, e) == IF e \in batch[r] /\ Stored(e) THEN [outbox[e] EXCEPT !.relayed = TRUE] ELSE outbox[e]

(* Mutant of RelayCommit: the pass ends without its commit. *)
RelayWithoutCommit(r) ==
    /\ batch[r] # {}
    /\ batch' = [batch EXCEPT ![r] = {}]
    /\ UNCHANGED <<database, tables, producers>>

RelayCommit(r) ==
    /\ batch[r] # {}
    /\ jobs' = [e \in Event |-> [s \in Subscriber |->
                  IF FansOut(r, e, s) THEN "unfinished" ELSE jobs[e][s]]]
    /\ made' = [e \in Event |-> [s \in Subscriber |->
                  IF FansOut(r, e, s) THEN made[e][s] + 1 ELSE made[e][s]]]
    /\ outbox' = [e \in Event |-> Stamped(r, e)]
    /\ batch' = [batch EXCEPT ![r] = {}]
    /\ UNCHANGED <<database, rows, eventLog, pruned, producers>>

(* The pass fails or its process crashes: it is rolled back. *)
RelayFail(r) ==
    /\ batch[r] # {}
    /\ batch' = [batch EXCEPT ![r] = {}]
    /\ UNCHANGED <<database, tables, producers>>

-----------------------------------------------------------------------------
(* A worker completes the job. *)
JobCompletes(e, s) ==
    /\ jobs[e][s] = "unfinished"
    /\ jobs' = [jobs EXCEPT ![e][s] = "completed"]
    /\ UNCHANGED <<database, outbox, rows, eventLog, made, pruned, producers, batch>>

(* Retention.  What it deletes is days old, so no relay pass is as old. *)
PruneOutbox(e) ==
    /\ Stored(e)
    /\ outbox[e].relayed
    /\ \A r \in Relayer : e \notin batch[r]
    /\ outbox' = [outbox EXCEPT ![e] = Nothing]
    /\ pruned' = pruned \cup {e}
    /\ UNCHANGED <<database, rows, eventLog, jobs, made, producers, batch>>

PruneJob(e, s) ==
    /\ jobs[e][s] = "completed"
    /\ \A r \in Relayer : e \notin batch[r]
    /\ jobs' = [jobs EXCEPT ![e][s] = "absent"]
    /\ UNCHANGED <<database, outbox, rows, eventLog, made, pruned, producers, batch>>

-----------------------------------------------------------------------------
ProducerStep(p) ==
    \/ Begin(p) \/ Accept(p) \/ Refuse(p) \/ Fail(p) \/ Commit(p)
    \/ \E x \in Pair : Insert(p, x)

RelayStep(r) ==
    \/ RelayCommit(r) \/ RelayFail(r)
    \/ \E es \in SUBSET Event : RelaySelect(r, es)

RetentionStep(e) ==
    \/ PruneOutbox(e)
    \/ \E s \in Subscriber : JobCompletes(e, s) \/ PruneJob(e, s)

Next ==
    \/ \E p \in Producer : ProducerStep(p)
    \/ \E r \in Relayer : RelayStep(r)
    \/ \E e \in Event : RetentionStep(e)

Spec == Init /\ [][Next]_vars

(* The relay is scheduled for ever and takes the oldest rows first, so it   *)
(* does not pass over one for ever, and a pass does not fail every time.    *)
Fairness ==
    /\ \A r \in Relayer : SF_vars(RelayCommit(r))
    /\ \A e \in Event : SF_vars(\E r \in Relayer, es \in SUBSET Event :
                                   e \in es /\ RelaySelect(r, es))

FairSpec == Spec /\ Fairness

-----------------------------------------------------------------------------
TypeOK ==
    /\ database \in Databases
    /\ outbox \in [Event -> Row \cup {Nothing}]
    /\ rows \in [Event -> Nat]
    /\ eventLog \subseteq Event
    /\ jobs \in [Event -> [Subscriber -> JobState]]
    /\ made \in [Event -> [Subscriber -> Nat]]
    /\ pruned \subseteq Event
    /\ plan \in [Producer -> SUBSET Pair]
    /\ pc \in [Producer -> PC]
    /\ staged \in [Producer -> SUBSET Pair]
    /\ mine \in [Producer -> SUBSET Pair]
    /\ noted \in [Producer -> SUBSET Event]
    /\ current \in [Producer -> Pair \cup {Nothing}]
    /\ view \in [Producer -> SUBSET Event]
    /\ batch \in [Relayer -> SUBSET Event]

(* Subscribers every relayer has registered. *)
Everywhere == {s \in Subscriber : \A r \in Relayer : s \in Known[r]}

Delivered(e) == \A s \in Everywhere : made[e][s] > 0

(* publish_committing: "the event can never be lost relative to the change *)
(* that produced it": it is in the outbox to be relayed, or every          *)
(* subscriber that all relayers know has had its job; also for an id that  *)
(* was already there, and while transactions over the same ids fail.       *)
NothingLost ==
    \A p \in Producer : pc[p] = "committed" =>
        \A x \in plan[p] : Unrelayed(x[1]) \/ Delivered(x[1])

(* No row, job or queued record exists for an event of a change that did   *)
(* not happen: a transaction that fails midway leaves nothing behind.      *)
NothingInvented ==
    \A e \in Event :
        Stored(e) \/ e \in eventLog \/ (\E s \in Subscriber : made[e][s] > 0)
            => \E p \in Producer : pc[p] = "committed" /\ e \in Ids(plan[p])

(* _check_same_event: as long as retention has not deleted its row, an id  *)
(* names one event, whichever transactions went for it at once.            *)
IdNamesOneEvent ==
    \A p, q \in Producer : pc[p] = "committed" /\ pc[q] = "committed" =>
        \A x \in plan[p], y \in plan[q] : x[1] = y[1] /\ x[1] \notin pruned => x = y

(* Retention deleted the row, or another event has the id. *)
Taken(p) ==
    LET x == current[p]
    IN  \/ x[1] \in pruned
        \/ \E q \in Producer, c \in Content \ {x[2]} :
              <<x[1], c>> \in plan[q] /\ (q = p \/ pc[q] = "committed")

(* needs_locking_read: publishing the same event under the same id again is *)
(* never refused, unless retention deletes the row under the publication.   *)
ReuseAccepted == \A p \in Producer : pc[p] = "refused" => Taken(p)

(* The relay: one publication makes at most one job per subscriber, however *)
(* relayers overlap, crash and repeat, and although completed jobs are      *)
(* deleted.                                                                 *)
OncePerPublication ==
    \A e \in Event, s \in Subscriber : made[e][s] <= rows[e]

(* publish_many_durable and relay_outbox_once: a committed change becomes   *)
(* all of its jobs, one for each publication, and nothing else does.        *)
FannedOutOnce == NothingLost /\ NothingInvented /\ OncePerPublication

(* _insert_or_confirm: an id stands for one event, for those who publish    *)
(* another under it and for those who publish the same again.               *)
IdsFaithful == IdNamesOneEvent /\ ReuseAccepted

(* Every event published with a committed change becomes a job of every     *)
(* subscriber that all relayers know.                                       *)
EveryEventDelivered ==
    \A e \in Event :
        (\E p \in Producer : pc[p] = "committed" /\ e \in Ids(plan[p])) ~> Delivered(e)
=============================================================================
