------------------------------- MODULE Audit -------------------------------
(***************************************************************************)
(* The audit log, its checkpoints and its retention.  Transactions of the   *)
(* application stage rows that become visible when they commit.  Under a     *)
(* cluster lock, maintenance records a change of the retention, creates      *)
(* partitions, seals the windows that are due (first in a write-once sink,   *)
(* then in the database) and prunes what the newest checkpoint allows.  A    *)
(* verifier hashes the windows again.                                        *)
(*                                                                         *)
(* A hash stands for what was hashed.  Time is counted in units of the       *)
(* shortest window; `Day` units are a day.                                   *)
(***************************************************************************)
EXTENDS Integers, FiniteSetsExt, SequencesExt

CONSTANTS Tx,               \* transactions of the application, one row each
          Maintainer,       \* processes that may run maintenance
          Stories,          \* deployments to check, see Story
          Key,              \* the keys that sign checkpoints
          Day, Grace,       \* a day and checkpoint_grace_minutes, in units of time
          Ahead,            \* partition_days_ahead
          WindowsPerRun,    \* MAX_WINDOWS_PER_RUN
          StartTime,        \* when the log was installed
          StageTime,        \* bound: when rows are staged
          RunTime,          \* bound: when runs are scheduled
          VerifyTime,       \* bound: when a verification begins
          MaxTime,          \* bound: the last instant
          Nothing           \* no checkpoint, no hash, no retention

AllModes == {"plain", "postgres", "mysql"}

(* The settings of a run: the length of a window, the retention in days      *)
(* (none at 0 or below), whether a legal hold keeps everything, the key.     *)
AuditSettings == [window : Nat \ {0}, retention : Int, hold : BOOLEAN, key : Key]

(* A story is a deployment and what happens to it: how the log is stored,   *)
(* how far the clock of the database is behind, retention_floor_days, the    *)
(* settings in force and those that follow (a runtime source may return ones *)
(* AuditSettings refuses), who runs maintenance, how often, and how many of  *)
(* its steps fail, processes die and sessions that hold the lock are lost.   *)
Story == [mode : AllModes, lag : 0..StartTime, floor : Nat \ {0}, settings : Seq(AuditSettings), crew : SUBSET Maintainer,
          runs : Nat, faults : Nat, crashes : Nat, losses : Nat, unlocked : BOOLEAN]

ASSUME AuditAssumption ==
    /\ Day \in Nat \ {0} /\ Grace \in Nat /\ Ahead \in Nat \ {0}
    /\ StartTime \in Nat /\ MaxTime \in Nat /\ StartTime <= MaxTime
    /\ Stories \subseteq Story
    /\ \A s \in Stories : s.settings # <<>> /\ \A i \in DOMAIN s.settings : Day % s.settings[i].window = 0
    /\ Nothing \notin Maintainer /\ Nothing \notin AuditSettings /\ Nothing \notin Int
    /\ Tx \cap {"change", "prune"} = {}

VARIABLES story,        \* the deployment, and what is still to happen to it
          now,          \* the platform clock
          log,          \* committed rows
          tx,           \* the transactions
          parts,        \* days that have a partition
          chain,        \* jasil_audit_checkpoints
          sink,         \* the documents in the external sink
          instance,     \* jasil_instance: the retention last seen, the newest checkpoint, the last partition
          serial,       \* rows maintenance has written
          lock,         \* who holds the lock
          work,         \* the run each maintainer makes
          verifier,     \* a verification
          trace         \* ghost: what the properties compare

vars == <<story, now, log, tx, parts, chain, sink, instance, serial, lock, work, verifier, trace>>

-----------------------------------------------------------------------------
DayOf(t) == t \div Day
mode == story.mode
Floor == story.floor
DatabaseNow == now - story.lag
Config == Head(story.settings)
Days(a, b) == {d \in 0..(DayOf(MaxTime) + Ahead) : a <= d /\ d <= b}
Within(r, c) == c.start <= r.at /\ r.at < c.end

(* A row is refused when no partition takes its day: on PostgreSQL the day's *)
(* own, on MySQL the first one that ends after it.                          *)
PartitionsFor(r) ==
    IF mode = "postgres" THEN parts \cap {DayOf(r.at)} ELSE {d \in parts : d >= DayOf(r.at)}
Insertable(r) == mode = "plain" \/ PartitionsFor(r) # {}

Idle == [pc |-> "idle", now |-> 0, set |-> Nothing, start |-> 0, prev |-> Nothing,
         cp |-> Nothing, written |-> 0, cutoff |-> 0]

(* Mutant of Installed: today is counted as one of the days ahead. *)
InstalledShort(t) == Days(DayOf(t) - 1, DayOf(t) + Ahead - 1)

(* The days an ensure on a day gives partitions to. *)
Installed(t) == Days(DayOf(t) - 1, DayOf(t) + Ahead)

Init ==
    /\ story \in Stories
    /\ now = StartTime
    /\ log = {}
    /\ tx = [t \in Tx |-> [is |-> "new", at |-> 0]]
    /\ parts = IF mode = "plain" THEN {} ELSE Installed(DatabaseNow)
    /\ chain = {} /\ sink = {}
    /\ instance = [set |-> Nothing, last |-> Nothing, furthest |-> Nothing]
    /\ serial = 0
    /\ lock = Nothing
    /\ work = [m \in Maintainer |-> Idle]
    /\ verifier = [pc |-> "idle", rest |-> {}, prev |-> {}, horizon |-> Nothing, bad |-> {}]
    /\ trace = [late |-> {}, removed |-> {}, young |-> {}, accounted |-> {}, refused |-> {},
                ensured |-> DayOf(DatabaseNow), conflict |-> Nothing, excused |-> {}]

Tick ==
    /\ now < MaxTime
    /\ now' = now + 1
    /\ UNCHANGED <<log, tx, parts, chain, sink, instance, serial, lock, work, verifier, story>>

ChangeSettings ==
    /\ Len(story.settings) > 1
    /\ story' = [story EXCEPT !.settings = Tail(@)]
    /\ UNCHANGED <<now, log, tx, parts, chain, sink, instance, serial, lock, work, verifier>>

-----------------------------------------------------------------------------
(* stage: the row has its time now, and becomes visible when the caller     *)
(* commits, if that ever happens.                                          *)
Stage(t) ==
    /\ tx[t].is = "new" /\ now \in StageTime
    /\ tx' = [tx EXCEPT ![t] = [is |-> "open", at |-> now]]
    /\ UNCHANGED <<now, log, parts, chain, sink, instance, serial, lock, work, verifier, story>>

Written(t) == [at |-> tx[t].at, by |-> <<t>>]

(* A row that cannot be stored takes the caller's transaction with it. *)
Commit(t) ==
    /\ tx[t].is = "open"
    /\ IF Insertable(Written(t))
       THEN log' = log \cup {Written(t)} /\ tx' = [tx EXCEPT ![t].is = "committed"]
       ELSE tx' = [tx EXCEPT ![t].is = "refused"] /\ UNCHANGED log
    /\ UNCHANGED <<now, parts, chain, sink, instance, serial, lock, work, verifier, story>>

(* record_detached: staged and committed at once, and never raises. *)
RecordDetached(t) ==
    /\ tx[t].is = "new" /\ now \in StageTime
    /\ LET r == [at |-> now, by |-> <<t>>]
       IN  IF Insertable(r)
           THEN log' = log \cup {r} /\ tx' = [tx EXCEPT ![t] = [is |-> "committed", at |-> now]]
           ELSE tx' = [tx EXCEPT ![t] = [is |-> "refused", at |-> now]] /\ UNCHANGED log
    /\ UNCHANGED <<now, parts, chain, sink, instance, serial, lock, work, verifier, story>>

-----------------------------------------------------------------------------
(* The lock of a run: a session of the database that may be lost while the   *)
(* run goes on.                                                             *)
At(m, p) == work[m].pc = p
Go(m, p) == work' = [work EXCEPT ![m].pc = p]
Unlock(m) == lock' = IF lock = m THEN Nothing ELSE lock
Finish(m) == work' = [work EXCEPT ![m] = Idle] /\ Unlock(m)

StartRun(m) ==
    /\ m \in story.crew /\ At(m, "idle") /\ lock = Nothing /\ story.runs > 0 /\ now \in RunTime
    /\ lock' = m
    /\ story' = [story EXCEPT !.runs = @ - 1]
    /\ work' = [work EXCEPT ![m] = [Idle EXCEPT !.pc = "settings", !.now = now]]
    /\ UNCHANGED <<now, log, tx, parts, chain, sink, instance, serial, verifier>>

LoseLock ==
    /\ lock # Nothing /\ story.losses > 0
    /\ lock' = Nothing
    /\ story' = [story EXCEPT !.losses = @ - 1, !.unlocked = TRUE]
    /\ UNCHANGED <<now, log, tx, parts, chain, sink, instance, serial, work, verifier>>

(* The process of a run dies: what it has not committed is gone. *)
Crash(m) ==
    /\ ~ At(m, "idle") /\ story.crashes > 0
    /\ Finish(m)
    /\ story' = [story EXCEPT !.crashes = @ - 1]
    /\ UNCHANGED <<now, log, tx, parts, chain, sink, instance, serial, verifier>>

(* Mutant of Accepted: what the source returns is taken as it is. *)
AcceptedAlways(s) == TRUE

(* effective_settings validates what a runtime source returns. *)
Accepted(s) == s.retention <= 0 \/ s.retention >= Floor

(* The settings are read once for the whole run; without them only the      *)
(* partitions step runs.                                                    *)
ReadSettings(m) ==
    /\ At(m, "settings")
    /\ work' = [work EXCEPT ![m].pc = IF Accepted(Config) THEN "change" ELSE "ensure",
                            ![m].set = IF Accepted(Config) THEN Config ELSE Nothing]
    /\ UNCHANGED <<now, log, tx, parts, chain, sink, instance, serial, lock, verifier, story>>

(* The steps of a run in their order; without settings the second is all. *)
NextStep(p, s) ==
    CASE p = "settings" -> "ensure"
      [] p = "change" -> "ensure"
      [] p = "ensure" /\ s # Nothing -> "newest"
      [] p \in {"newest", "window", "sink", "store"} -> "retention"
      [] OTHER -> "done"

Skip(m) ==
    LET p == NextStep(work[m].pc, work[m].set)
    IN  IF p = "done" THEN Finish(m) ELSE Go(m, p) /\ UNCHANGED lock

Retention(s) == [retention |-> s.retention, hold |-> s.hold]

(* _record_retention_change: the row and what it is compared with are one   *)
(* transaction.                                                             *)
RecordChange(m) ==
    /\ At(m, "change")
    /\ LET seen == Retention(work[m].set)
           changed == instance.set \notin {Nothing, seen}
           r == [at |-> now, by |-> <<"change", serial>>]
       IN  IF changed /\ ~ Insertable(r)
           THEN UNCHANGED <<log, serial, instance>>
           ELSE /\ log' = IF changed THEN log \cup {r} ELSE log
                /\ serial' = IF changed THEN serial + 1 ELSE serial
                /\ instance' = [instance EXCEPT !.set = seen]
    /\ Go(m, "ensure")
    /\ UNCHANGED <<now, tx, parts, chain, sink, lock, verifier, story>>

(* MySQL can add partitions only after the last one. *)
EnsurePartitions(m) ==
    /\ At(m, "ensure")
    /\ LET wanted == Installed(DatabaseNow)
       IN  IF mode = "plain"
           THEN UNCHANGED <<parts, instance>>
           ELSE /\ parts' = parts \cup IF mode = "mysql" THEN {d \in wanted : d > Max(parts)} ELSE wanted
                /\ instance' = [instance EXCEPT !.furthest = Max(parts')]
    /\ Skip(m)
    /\ UNCHANGED <<now, log, tx, chain, sink, serial, verifier, story>>

-----------------------------------------------------------------------------
(* Sealing. *)
Newest == CHOOSE c \in chain : \A d \in chain : d.start <= c.start
WindowEnd(t, window) == (t \div window + 1) * window
FirstStart(window) == LET first == Min({r.at : r \in log}) IN first - (first % window)

(* seal_pending_windows goes on where the newest checkpoint ends, or begins *)
(* with the window of the first row.                                        *)
ReadNewest(m) ==
    /\ At(m, "newest")
    /\ IF (chain = {} /\ log = {}) \/ (chain # {} /\ Newest.end > work[m].now)
       THEN Go(m, "retention")
       ELSE work' = [work EXCEPT ![m].pc = "window",
                                 ![m].start = IF chain # {} THEN Newest.end ELSE FirstStart(work[m].set.window),
                                 ![m].prev = IF chain # {} THEN Newest.hash ELSE Nothing]
    /\ UNCHANGED <<now, log, tx, parts, chain, sink, instance, serial, lock, verifier, story>>

Digest(from, to, prev) == [rows |-> {r \in log : from <= r.at /\ r.at < to}, prev |-> prev]

(* A signature is deterministic and stands for its key. *)
Signature(s) == s.key

Checkpoint(from, to, prev, s) ==
    [start |-> from, end |-> to, hash |-> Digest(from, to, prev), prev |-> prev,
     retention |-> s.retention, hold |-> s.hold, key |-> Signature(s)]

(* Mutant of Due: the grace is left out. *)
DueAtOnce(m, end) == end <= work[m].now /\ work[m].written < WindowsPerRun

Due(m, end) == end + Grace <= work[m].now /\ work[m].written < WindowsPerRun

DigestWindow(m) ==
    /\ At(m, "window")
    /\ LET w == work[m]
           end == WindowEnd(w.start, w.set.window)
       IN  IF Due(m, end)
           THEN work' = [work EXCEPT ![m].pc = "sink", ![m].cp = Checkpoint(w.start, end, w.prev, w.set)]
           ELSE Go(m, "retention")
    /\ UNCHANGED <<now, log, tx, parts, chain, sink, instance, serial, lock, verifier, story>>

(* Mutant of Resealed: the window is sealed under the settings in force. *)
ResealedAnew(cp, stored) == cp

(* The checkpoint under the retention its copy in the sink records. *)
Resealed(cp, stored) == [cp EXCEPT !.retention = stored.retention, !.hold = stored.hold]

Copies(m) == {c \in sink : c.start = work[m].start}

(* Mutant of Reproduces: only the hashes are compared. *)
ReproducesHash(cp, stored) == cp.hash = stored.hash

Reproduces(cp, stored) == cp = stored

(* _copy_to_sink: a document the sink has for the window is taken over if   *)
(* the window reproduces it; otherwise sealing stops.                       *)
WriteSink(m) ==
    /\ At(m, "sink")
    /\ IF Copies(m) = {}
       THEN sink' = sink \cup {work[m].cp} /\ Go(m, "store")
       ELSE LET stored == CHOOSE c \in Copies(m) : TRUE
                cp == Resealed(work[m].cp, stored)
            IN  /\ IF Reproduces(cp, stored)
                   THEN work' = [work EXCEPT ![m].pc = "store", ![m].cp = cp]
                   ELSE Go(m, "retention")
                /\ UNCHANGED sink
    /\ UNCHANGED <<now, log, tx, parts, chain, instance, serial, lock, verifier, story>>

(* A step that fails is logged and the next one runs.  The sink may have     *)
(* taken the document all the same.                                         *)
Unanswered(m) == IF At(m, "sink") /\ Copies(m) = {} THEN {work[m].cp} ELSE {}

StepFails(m) ==
    /\ ~ At(m, "idle") /\ story.faults > 0
    /\ story' = [story EXCEPT !.faults = @ - 1]
    /\ Skip(m)
    /\ sink' \in {sink, sink \cup Unanswered(m)}
    /\ UNCHANGED <<now, log, tx, parts, chain, instance, serial, verifier>>

(* The checkpoint and the health figure are one transaction; window_start   *)
(* is the primary key.                                                      *)
StoreCheckpoint(m) ==
    /\ At(m, "store")
    /\ IF \E c \in chain : c.start = work[m].start
       THEN Go(m, "retention") /\ UNCHANGED <<chain, instance>>
       ELSE /\ chain' = chain \cup {work[m].cp}
            /\ instance' = [instance EXCEPT !.last = work[m].cp.end]
            /\ work' = [work EXCEPT ![m].pc = "window", ![m].written = @ + 1,
                                    ![m].start = work[m].cp.end, ![m].prev = work[m].cp.hash]
    /\ UNCHANGED <<now, log, tx, parts, sink, serial, lock, verifier, story>>

-----------------------------------------------------------------------------
(* Retention. *)
RetentionHorizon(c) == c.end - c.retention * Day
Allowing == {c \in chain : ~ c.hold /\ c.retention > 0}

(* Mutant of Cutoff: retention alone decides. *)
CutoffByAge(m) == work[m].now - work[m].set.retention * Day

Cutoff(m) == Min({work[m].now - work[m].set.retention * Day, RetentionHorizon(Newest)})

MayPrune(m) ==
    /\ ~ work[m].set.hold /\ work[m].set.retention > 0
    /\ chain # {} /\ Newest \in Allowing

Expired(c) == {d \in parts : (d + 1) * Day <= c}
PartitionOf(r) == Min(PartitionsFor(r))
(* Mutant of PruneRow: the cutoff is recorded as a date. *)
PruneRowDated(t, c) == [at |-> t, by |-> <<"prune", serial, DayOf(c) * Day>>]

PruneRow(t, c) == [at |-> t, by |-> <<"prune", serial, c>>]

(* jasil_audit_drop_partitions on PostgreSQL: one transaction, which fails   *)
(* if there is no partition for its own row.                                *)
DropPartitions(m) ==
    /\ At(m, "retention") /\ MayPrune(m) /\ mode = "postgres"
    /\ LET c == Min({Cutoff(m), DatabaseNow - Floor * Day})
           r == PruneRow(work[m].now, c)
       IN  IF Expired(c) # {} /\ DayOf(r.at) \in parts \ Expired(c)
           THEN /\ parts' = parts \ Expired(c)
                /\ log' = {x \in log : DayOf(x.at) \notin Expired(c)} \cup {r}
                /\ serial' = serial + 1
           ELSE UNCHANGED <<parts, log, serial>>
    /\ Finish(m)
    /\ UNCHANGED <<now, tx, chain, sink, instance, verifier, story>>

(* The start of the sealed window the cutoff is in, if there is one. *)
Sealed(c) == {x.start : x \in {y \in chain : y.start <= c /\ c < y.end}}

(* On MySQL and in a plain table the row of the prune is committed before   *)
(* anything goes.                                                          *)
RecordPrune(m) ==
    /\ At(m, "retention") /\ MayPrune(m) /\ mode # "postgres"
    /\ LET c == IF mode = "mysql" THEN Min({Cutoff(m), DatabaseNow - Floor * Day})
                ELSE IF Sealed(Cutoff(m)) # {} THEN Min(Sealed(Cutoff(m))) ELSE 0
           r == PruneRow(IF mode = "mysql" THEN work[m].now ELSE now, c)
           needed == IF mode = "mysql" THEN Expired(c) # {} /\ Insertable(r) ELSE \E x \in log : x.at < c
       IN  IF needed
           THEN /\ log' = log \cup {r}
                /\ serial' = serial + 1
                /\ work' = [work EXCEPT ![m].pc = "prune", ![m].cutoff = c]
                /\ UNCHANGED lock
           ELSE Finish(m) /\ UNCHANGED <<log, serial>>
    /\ UNCHANGED <<now, tx, parts, chain, sink, instance, verifier, story>>

(* The partitions go one by one, the rows of a plain table batch by batch. *)
DropOnePartition(m) ==
    /\ At(m, "prune") /\ mode = "mysql"
    /\ IF Expired(work[m].cutoff) = {}
       THEN Finish(m) /\ UNCHANGED <<parts, log>>
       ELSE /\ parts' = parts \ {Min(Expired(work[m].cutoff))}
            /\ log' = {r \in log : PartitionOf(r) # Min(Expired(work[m].cutoff))}
            /\ UNCHANGED <<work, lock>>
    /\ UNCHANGED <<now, tx, chain, sink, instance, serial, verifier, story>>

(* bounded_delete, a row a batch *)
DeleteBatch(m) ==
    /\ At(m, "prune") /\ mode = "plain"
    /\ LET old == {r \in log : r.at < work[m].cutoff}
       IN  IF old = {}
           THEN Finish(m) /\ UNCHANGED log
           ELSE (\E r \in old : log' = log \ {r}) /\ UNCHANGED <<work, lock>>
    /\ UNCHANGED <<now, tx, parts, chain, sink, instance, serial, verifier, story>>

KeepAll(m) ==
    /\ At(m, "retention") /\ ~ MayPrune(m)
    /\ Finish(m)
    /\ UNCHANGED <<now, log, tx, parts, chain, sink, instance, serial, verifier, story>>

-----------------------------------------------------------------------------
(* verify_checkpoints of the whole log, with every key. *)
PruningHorizon == IF Allowing = {} THEN Nothing ELSE Max({RetentionHorizon(c) : c \in Allowing})

Earliest(S) == CHOOSE c \in S : \A d \in S : c.start <= d.start
Orphans(first) == {r \in log : r.at < first}

(* The checkpoints and the horizon are read first ... *)
BeginVerify ==
    /\ verifier.pc = "idle" /\ chain # {} /\ now \in VerifyTime
    /\ LET first == Earliest(chain).start
       IN  verifier' = [pc |-> "windows", rest |-> chain, prev |-> {}, horizon |-> PruningHorizon,
                        bad |-> {[start |-> 0, end |-> first, status |-> "row_mismatch"] : x \in Orphans(first)}]
    /\ UNCHANGED <<now, log, tx, parts, chain, sink, instance, serial, lock, work, story>>

Pruned(c, d, horizon) == d.rows = {} /\ c.hash.rows # {} /\ horizon # Nothing /\ c.end <= horizon

Status(c, prev, horizon) ==
    LET d == Digest(c.start, c.end, c.prev)
    IN  IF d # c.hash /\ ~ Pruned(c, d, horizon) THEN "row_mismatch"
        ELSE IF c.prev \notin (IF prev = {} THEN {Nothing} ELSE {p.hash : p \in prev}) THEN "broken_chain"
        ELSE "ok"

(* ... and then the rows of one window after the other, in their order;     *)
(* prev has the one before, if there is one.                                *)
VerifyWindow ==
    /\ verifier.pc = "windows" /\ verifier.rest # {}
    /\ LET c == Earliest(verifier.rest)
           gap == {[start |-> p.end, end |-> c.start, status |-> "missing_window"] :
                       p \in {q \in verifier.prev : q.end # c.start}}
           found == [start |-> c.start, end |-> c.end, status |-> Status(c, verifier.prev, verifier.horizon)]
       IN  verifier' = [verifier EXCEPT !.rest = @ \ {c}, !.prev = {c},
                                        !.bad = @ \cup gap \cup {x \in {found} : x.status # "ok"}]
    /\ UNCHANGED <<now, log, tx, parts, chain, sink, instance, serial, lock, work, story>>

EndVerify ==
    /\ verifier.pc = "windows" /\ verifier.rest = {}
    /\ LET p == CHOOSE q \in verifier.prev : TRUE
           following == {c.start : c \in {d \in chain : d.start >= p.end}}
           gap == IF following = {} \/ p.end \in following THEN {}
                  ELSE {[start |-> p.end, end |-> Min(following), status |-> "missing_window"]}
       IN  verifier' = [verifier EXCEPT !.pc = "done", !.bad = @ \cup gap]
    /\ UNCHANGED <<now, log, tx, parts, chain, sink, instance, serial, lock, work, story>>

-----------------------------------------------------------------------------
Maintain(m) ==
    \/ StartRun(m) \/ ReadSettings(m) \/ RecordChange(m) \/ EnsurePartitions(m)
    \/ ReadNewest(m) \/ DigestWindow(m) \/ WriteSink(m) \/ StoreCheckpoint(m)
    \/ DropPartitions(m) \/ RecordPrune(m) \/ DropOnePartition(m) \/ DeleteBatch(m) \/ KeepAll(m)

Remember ==
    LET added == log' \ log
        gone == log \ log'
        reading == Earliest(verifier.rest)
        torn == IF verifier.pc = "windows" /\ verifier.rest # {} /\ verifier' # verifier
                   /\ \E r \in trace.removed : Within(r, reading)
                THEN {r \in log : Within(r, reading)} ELSE {}
        stopped == {m \in Maintainer : At(m, "sink") /\ work'[m].pc = "retention" /\ story' = story}
    IN trace' =
        [late      |-> trace.late \cup {r \in added : now > r.at + Grace /\ (r.by[1] \in Tx \/ story.unlocked)},
         removed   |-> trace.removed \cup gone,
         young     |-> trace.young \cup {r \in gone : r.at > (IF mode = "plain" THEN now ELSE DatabaseNow) - Floor * Day},
         accounted |-> trace.accounted \cup {r.by[3] : r \in {x \in added : x.by[1] = "prune"}},
         refused   |-> trace.refused \cup {[at |-> tx'[t].at, on |-> now, ensured |-> trace.ensured] :
                                              t \in {u \in Tx : tx'[u].is = "refused" /\ tx[u].is # "refused"}},
         ensured   |-> IF \E m \in Maintainer : At(m, "ensure") /\ work'[m].pc # "ensure" /\ story' = story
                       THEN DayOf(DatabaseNow) ELSE trace.ensured,
         conflict  |-> IF stopped = {} THEN trace.conflict
                       ELSE [stored |-> CHOOSE c \in sink : \E m \in stopped : c.start = work[m].start,
                             attempt |-> (CHOOSE w \in {work[m] : m \in stopped} : TRUE).cp],
         excused   |-> trace.excused \cup torn \cup (IF verifier.pc = "windows" THEN gone ELSE {})]

Next ==
    /\ \/ Tick \/ ChangeSettings \/ LoseLock
       \/ \E t \in Tx : Stage(t) \/ Commit(t) \/ RecordDetached(t)
       \/ \E m \in Maintainer : Maintain(m) \/ StepFails(m) \/ Crash(m)
       \/ BeginVerify \/ VerifyWindow \/ EndVerify
    /\ Remember

Spec == Init /\ [][Next]_vars

-----------------------------------------------------------------------------
(* Two runs that both began the chain have sealed windows that overlap. *)
Overlapping == \E c, d \in chain : c.start < d.start /\ d.start < c.end

(* A verification of a log nobody tampered with reports nothing but          *)
(* mismatches, and those only in windows with a row that committed more than *)
(* the grace after it was staged, in windows an interrupted prune has left   *)
(* half empty, and in windows pruned while it ran: whatever the crashes, the *)
(* failing steps and the changes of the settings, the chain has no gap and   *)
(* no break and pruned windows are excused.  Only where a run has gone on    *)
(* without the lock may two runs have begun the chain, and the verification  *)
(* reports that as a gap or a break: after a late row, or because the length *)
(* of a window was changed between them, and then their windows overlap.     *)
HonestLogVerifies ==
    \A b \in verifier.bad :
        \/ b.status = "row_mismatch" /\ \E r \in trace.late \cup trace.excused : Within(r, b)
        \/ story.unlocked /\ Overlapping
        \/ story.unlocked /\ b.status # "row_mismatch" /\ \E r \in trace.late : r.at < b.end

(* No row goes that no checkpoint has sealed, except one that came too late  *)
(* for its window (_apply_retention).                                        *)
SealedBeforePruned ==
    \A r \in trace.removed : r \in trace.late \/ \E c \in chain : r \in c.hash.rows

(* Every checkpoint of the database is in the sink as it is in the database  *)
(* (seal_pending_windows, _copy_to_sink).                                    *)
SinkFirst == chain \subseteq sink

(* No row goes before a row that accounts for its prune is committed.       *)
PruneAccounted == \A r \in trace.removed : \E c \in trace.accounted : r.at < c

(* Nothing is removed that is younger than the floor, by the clock of the    *)
(* database where it enforces the floor, whatever a runtime source returns.  *)
FloorRespected == trace.young = {}

(* Sealing is stopped by the sink only where a crash or a failure left a     *)
(* copy and, before the retry, the length of a window or the signing key     *)
(* changed or a row came too late; or where a run went on without the lock   *)
(* while others sealed or pruned.  A change of the retention alone does not  *)
(* stop it (_copy_to_sink).                                                  *)
ConflictExplained ==
    trace.conflict # Nothing =>
        LET s == trace.conflict.stored
            a == trace.conflict.attempt
        IN  \/ s.end # a.end \/ s.key # a.key \/ \E r \in trace.late : r.at < a.end
            \/ story.unlocked /\ (s.prev # a.prev \/ \E r \in trace.removed : Within(r, a))

(* A row is refused only if its day is further ahead than the last run       *)
(* created partitions for, or passed without any run, or is behind the       *)
(* retention floor (_ensure_partitions, partition_days_ahead).               *)
PartitionsAhead ==
    \A r \in trace.refused :
        \/ DayOf(r.at) > r.ensured + Ahead
        \/ mode = "postgres" /\ DayOf(r.at) < r.ensured - 1
        \/ r.at < r.on - Floor * Day

(* run_audit_maintenance: pruning removes no row that a checkpoint has not  *)
(* sealed, that the floor protects or that no prune record accounts for,    *)
(* and on a partitioned table no row lacks a partition of its own.          *)
NoRowLost == SealedBeforePruned /\ PruneAccounted /\ FloorRespected /\ PartitionsAhead

(* seal: the sink never lags behind the chain, and where the two differ     *)
(* something other than a crash and its retry has made the difference.      *)
SinkAgrees == SinkFirst /\ ConflictExplained
=============================================================================
