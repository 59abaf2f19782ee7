----------------------------- MODULE Migrations -----------------------------
(***************************************************************************)
(* Creating, adopting and upgrading the tables (jasil/migrations).         *)
(*                                                                         *)
(* Several processes start at once and each adopts or upgrades what it     *)
(* finds.  Of the ten revisions the first five are kept, which are those   *)
(* of a kind of their own: rev0001 creates the tables under the names the  *)
(* run has chosen, rev0002 adds to them and builds indexes, rev0003        *)
(* renames what is not prefixed yet, rev0004 adds and builds under the     *)
(* final names, and rev0005 only adds; the later ones do one or the other. *)
(* Two tables stand for the five.                                          *)
(*                                                                         *)
(* On PostgreSQL a revision is a transaction, except that an index is      *)
(* built outside it: the work so far is committed first, unrecorded, and   *)
(* an interrupted build leaves an index that is not valid.  On MySQL every *)
(* statement commits by itself.                                            *)
(***************************************************************************)
EXTENDS Naturals, FiniteSets, Sequences, SequencesExt

CONSTANTS
    Migrator,       \* the processes
    MaxFaults,      \* bound on the runs that are interrupted
    Nobody

VARIABLES
    dialect,        \* "postgresql" or "mysql"
    schema,         \* the objects of each table, under each naming; {} when there is no table
    invalid,        \* indexes whose build has not ended
    recorded,       \* the revision in the version table, 0 when there is none
    lock,           \* who holds the lock of a migration run
    mig,            \* where each process is
    faults,         \* runs interrupted so far
    restamped,      \* an adoption has overwritten a revision that was recorded after it looked
    misread         \* a run has chosen the unprefixed names beside prefixed tables

migrationVars == <<dialect, schema, invalid, recorded, lock, mig, faults, restamped, misread>>

Table == {"event_log", "processing_jobs"}

Naming == {"plain", "prefixed"}

HeadRevision == 5

PrefixedFrom == 3

Idle == [at |-> "idle"]

(***************************************************************************)
(* The revisions                                                           *)
(***************************************************************************)
(* What each revision changes in its transaction. *)
Initial == <<[do |-> "create", table |-> "event_log"], [do |-> "create", table |-> "processing_jobs"]>>

DurableJobQueues == <<[do |-> "add", column |-> "queue"]>>

PrefixTableNames == <<[do |-> "rename", table |-> "event_log"], [do |-> "rename", table |-> "processing_jobs"]>>

DeadLetterNotified == <<[do |-> "add", column |-> "dead_letter_notified_at"]>>

JobDeferrals == <<[do |-> "add", column |-> "deferrals"]>>

Changes(r) == <<Initial, DurableJobQueues, PrefixTableNames, DeadLetterNotified, JobDeferrals>>[r]

(* The indexes it builds after them. *)
Indexes(r) ==
    CASE r = 2 -> <<"queue_claim", "worker_claim">>
      [] r = 4 -> <<"dead_letter">>
      [] OTHER -> <<>>

Columns(r) == {Changes(r)[i].column : i \in {j \in DOMAIN Changes(r) : Changes(r)[j].do = "add"}}

(* The objects of the job table once revision r is complete. *)
JobObjects(r) == {"table"} \cup UNION {Columns(q) \cup Range(Indexes(q)) : q \in 1..r}

Built(r, t) == IF r = 0 THEN {} ELSE IF t = "event_log" THEN {"table"} ELSE JobObjects(r)

Bare == [t \in Table |-> {}]

NoTables == [n \in Naming |-> Bare]

(* A fresh database, beside a table of the host's or not; one that 0.8 created or      *)
(* upgraded, its revision recorded or not; one that create_all built without migrations. *)
Databases ==
    {[schema |-> NoTables, recorded |-> 0],
     [schema |-> [NoTables EXCEPT !.plain["processing_jobs"] = {"host"}], recorded |-> 0]}
    \cup {[schema |-> [NoTables EXCEPT !.plain = [t \in Table |-> Built(r, t)]], recorded |-> IF kept THEN r ELSE 0] :
            r \in 1..PrefixedFrom - 1, kept \in BOOLEAN}
    \cup {[schema |-> [NoTables EXCEPT !.prefixed = [t \in Table |-> Built(r, t)]], recorded |-> 0] : r \in PrefixedFrom..HeadRevision}

Unstarted ==
    /\ invalid = {}
    /\ lock = Nobody
    /\ mig = [m \in Migrator |-> Idle]
    /\ faults = 0
    /\ restamped = FALSE /\ misread = FALSE

Init ==
    /\ dialect \in {"postgresql", "mysql"}
    /\ \E d \in Databases : schema = d.schema /\ recorded = d.recorded
    /\ Unstarted

NoMigrations == dialect = "postgresql" /\ schema = NoTables /\ recorded = 0 /\ Unstarted

Present(naming) == {t \in Table : schema[naming][t] # {}}

(***************************************************************************)
(* upgrade: the prefix is chosen on a connection of its own, before the lock *)
(***************************************************************************)
Interrupted(m) == mig[m].at \in {"refused", "clashed", "failed"}

(* The names of the tables are read first and the revision after them. *)
ReadTables(m) ==
    /\ mig[m].at = "idle" \/ Interrupted(m)
    /\ mig' = [mig EXCEPT ![m] = [at |-> "inspecting", prefixed |-> Present("prefixed"), plain |-> Present("plain")]]
    /\ UNCHANGED <<dialect, schema, invalid, recorded, lock, faults, restamped, misread>>

FreshInstallPrefix(seen) ==
    IF recorded # 0 THEN (IF seen.prefixed # {} THEN "prefixed" ELSE "plain")
    ELSE IF seen.prefixed # {} \/ seen.plain = Table THEN "refused"
    ELSE "prefixed"

ReadRevision(m) ==
    /\ mig[m].at = "inspecting"
    /\ LET prefix == FreshInstallPrefix(mig[m]) IN
       /\ mig' = [mig EXCEPT ![m] = IF prefix = "refused" THEN [at |-> "refused"] ELSE [at |-> "waiting", prefix |-> prefix]]
       /\ misread' = (misread \/ (prefix = "plain" /\ recorded < PrefixedFrom /\ Present("prefixed") # {}))
    /\ UNCHANGED <<dialect, schema, invalid, recorded, lock, faults, restamped>>

LockFree == lock = Nobody

(* Nothing left to do: the run that waited ends at once. *)
TakeLock(m) ==
    /\ mig[m].at = "waiting"
    /\ LockFree
    /\ IF recorded = HeadRevision
       THEN mig' = [mig EXCEPT ![m] = [at |-> "done"]] /\ UNCHANGED lock
       ELSE /\ mig' = [mig EXCEPT ![m] = [at |-> "running", prefix |-> mig[m].prefix, step |-> 1]]
            /\ lock' = m
    /\ UNCHANGED <<dialect, schema, invalid, recorded, faults, restamped, misread>>

Revision == recorded + 1

NamingOf(m) == IF Revision >= PrefixedFrom THEN "prefixed" ELSE mig[m].prefix

(* Mutant: whatever is unprefixed is taken for JASIL's own. *)
RenamesAny(s, t) == s.plain[t] # {}

(* A table is renamed only where no prefixed one exists: the other is the host's. *)
Renames(s, t) == s.plain[t] # {} /\ s.prefixed[t] = {}

(* Whether the database accepts a statement, and what it makes of the schema. *)
Accepted(s, naming, change) ==
    CASE change.do = "create" -> s[naming][change.table] = {}
      [] change.do = "add" -> s[naming]["processing_jobs"] # {} /\ change.column \notin s[naming]["processing_jobs"]
      [] change.do = "rename" -> TRUE

Changed(s, naming, change) ==
    CASE change.do = "create" -> [s EXCEPT ![naming][change.table] = {"table"}]
      [] change.do = "add" -> [s EXCEPT ![naming]["processing_jobs"] = @ \cup {change.column}]
      [] change.do = "rename" ->
            IF Renames(s, change.table)
            THEN [s EXCEPT !.prefixed[change.table] = s.plain[change.table], !.plain[change.table] = {}]
            ELSE s

(* The changes of a revision one after another; none makes more than two. *)
ChangedBy(s, naming, changes) ==
    LET once == IF changes = <<>> THEN s ELSE Changed(s, naming, changes[1]) IN
    IF Len(changes) = 2 THEN Changed(once, naming, changes[2]) ELSE once

(* Mutant: the changes are made again whatever an earlier run has committed. *)
NeverResumed(naming, r) == FALSE

(* Only a revision that builds an index asks whether its changes are there already. *)
Resumed(naming, r) == Indexes(r) # <<>> /\ Columns(r) \subseteq schema[naming]["processing_jobs"]

Running(m) == mig[m].at = "running" /\ lock = m

Step(m) == mig[m].step

Clash(m) ==
    /\ mig' = [mig EXCEPT ![m] = [at |-> "clashed"]]
    /\ lock' = Nobody
    /\ UNCHANGED <<schema, recorded>>

(* The revision is recorded; after the last one the run is over. *)
Recorded(m) ==
    /\ recorded' = Revision
    /\ IF Revision = HeadRevision
       THEN mig' = [mig EXCEPT ![m] = [at |-> "done"]] /\ lock' = Nobody
       ELSE mig' = [mig EXCEPT ![m].step = 1] /\ UNCHANGED lock

(* PostgreSQL: the changes of the revision, in one transaction, which records it unless *)
(* indexes are still to be built.                                                       *)
RunTransaction(m) ==
    /\ Running(m) /\ dialect = "postgresql" /\ Step(m) = 1
    /\ LET naming == NamingOf(m)
           changes == IF Resumed(naming, Revision) THEN <<>> ELSE Changes(Revision) IN
       IF \A i \in DOMAIN changes : Accepted(schema, naming, changes[i])
       THEN /\ schema' = ChangedBy(schema, naming, changes)
            /\ IF Indexes(Revision) = <<>> THEN Recorded(m)
               ELSE mig' = [mig EXCEPT ![m].step = 2] /\ UNCHANGED <<recorded, lock>>
       ELSE Clash(m)
    /\ UNCHANGED <<dialect, invalid, faults, restamped, misread>>

BuildOf(m) == Indexes(Revision)[Step(m) - 1]

Building(m) == Running(m) /\ dialect = "postgresql" /\ Step(m) \in 2..Len(Indexes(Revision)) + 1

Objects(m) == schema[NamingOf(m)]["processing_jobs"]

(* Mutant: an index that is there is kept, valid or not. *)
KeptAsItIs(m, index) == index \in Objects(m) \cup invalid

IsBuilt(m, index) == index \in Objects(m)

(* CREATE INDEX CONCURRENTLY: a valid index is kept, one that is not is dropped and      *)
(* built again; while it is being built it is there and is not valid.                    *)
KeepIndex(m) ==
    /\ Building(m)
    /\ IsBuilt(m, BuildOf(m))
    /\ mig' = [mig EXCEPT ![m].step = @ + 1]
    /\ UNCHANGED <<dialect, schema, invalid, recorded, lock, faults, restamped, misread>>

BeginBuild(m) ==
    /\ Building(m)
    /\ ~IsBuilt(m, BuildOf(m))
    /\ mig' = [mig EXCEPT ![m] = [at |-> "building", prefix |-> mig[m].prefix, step |-> Step(m)]]
    /\ invalid' = invalid \cup {BuildOf(m)}
    /\ UNCHANGED <<dialect, schema, recorded, lock, faults, restamped, misread>>

EndBuild(m) ==
    /\ mig[m].at = "building"
    /\ mig' = [mig EXCEPT ![m] = [at |-> "running", prefix |-> mig[m].prefix, step |-> Step(m) + 1]]
    /\ schema' = [schema EXCEPT ![NamingOf(m)]["processing_jobs"] = @ \cup {BuildOf(m)}]
    /\ invalid' = invalid \ {BuildOf(m)}
    /\ UNCHANGED <<dialect, recorded, lock, faults, restamped, misread>>

(* MySQL: every statement by itself, the index builds among them. *)
Statements(r) == Changes(r) \o [i \in 1..Len(Indexes(r)) |-> [do |-> "add", column |-> Indexes(r)[i]]]

RunStatement(m) ==
    /\ Running(m) /\ dialect = "mysql" /\ Step(m) \in 1..Len(Statements(Revision))
    /\ LET statement == Statements(Revision)[Step(m)] IN
       IF Accepted(schema, NamingOf(m), statement)
       THEN /\ schema' = Changed(schema, NamingOf(m), statement)
            /\ mig' = [mig EXCEPT ![m].step = @ + 1]
            /\ UNCHANGED <<recorded, lock>>
       ELSE Clash(m)
    /\ UNCHANGED <<dialect, invalid, faults, restamped, misread>>

Record(m) ==
    /\ Running(m)
    /\ Step(m) = IF dialect = "mysql" THEN Len(Statements(Revision)) + 1 ELSE Len(Indexes(Revision)) + 2
    /\ Recorded(m)
    /\ UNCHANGED <<dialect, schema, invalid, faults, restamped, misread>>

(* A run is killed, or loses the database: its transaction is undone and its lock given  *)
(* back; what is committed stays.                                                        *)
Fail(m) ==
    /\ mig[m].at \in {"waiting", "running", "building"}
    /\ faults < MaxFaults
    /\ faults' = faults + 1
    /\ mig' = [mig EXCEPT ![m] = [at |-> "failed"]]
    /\ lock' = IF lock = m THEN Nobody ELSE lock
    /\ UNCHANGED <<dialect, schema, invalid, recorded, restamped, misread>>

(***************************************************************************)
(* adopt_existing_schema: look, compare, and only then stamp under the lock *)
(***************************************************************************)
(* A database with a recorded revision is left unchanged. *)
AdoptLook(m) ==
    /\ mig[m].at = "idle" \/ Interrupted(m)
    /\ recorded = 0
    /\ mig' = [mig EXCEPT ![m] = [at |-> "matching"]]
    /\ UNCHANGED <<dialect, schema, invalid, recorded, lock, faults, restamped, misread>>

Matches(naming, r) == \A t \in Table : schema[naming][t] = Built(r, t)

(* The newest revision whose schema is exactly this one. *)
Candidates ==
    IF Present("prefixed") # {} THEN {r \in PrefixedFrom..HeadRevision : Matches("prefixed", r)}
    ELSE {r \in 1..PrefixedFrom - 1 : Matches("plain", r)}

AdoptMatch(m) ==
    /\ mig[m].at = "matching"
    /\ mig' = [mig EXCEPT ![m] =
                IF Present("prefixed") = {} /\ Present("plain") # Table THEN Idle
                ELSE IF Candidates = {} THEN [at |-> "refused"]
                ELSE [at |-> "stamping", match |-> CHOOSE r \in Candidates : \A q \in Candidates : q <= r]]
    /\ UNCHANGED <<dialect, schema, invalid, recorded, lock, faults, restamped, misread>>

(* The commit follows the release of the lock at once: the two are one step here. *)
AdoptStamp(m) ==
    /\ mig[m].at = "stamping"
    /\ LockFree
    /\ recorded' = mig[m].match
    /\ restamped' = (restamped \/ recorded \notin {0, mig[m].match})
    /\ mig' = [mig EXCEPT ![m] = Idle]
    /\ UNCHANGED <<dialect, schema, invalid, lock, faults, misread>>

Next ==
    \E m \in Migrator :
        \/ ReadTables(m) \/ ReadRevision(m) \/ TakeLock(m) \/ RunTransaction(m) \/ KeepIndex(m) \/ BeginBuild(m)
        \/ EndBuild(m) \/ RunStatement(m) \/ Record(m) \/ Fail(m) \/ AdoptLook(m) \/ AdoptMatch(m) \/ AdoptStamp(m)

Spec == Init /\ [][Next]_migrationVars

(* verify_schema_current passes. *)
IsCurrent == recorded = HeadRevision

(* The startup check passes only where the schema of the head is there under its final  *)
(* names, every index of it valid, however the runs that built it were interrupted and  *)
(* whichever of them ran at once (verify_schema_current).                               *)
CurrentIsBuilt == IsCurrent /\ ~misread => invalid = {} /\ \A t \in Table : schema.prefixed[t] = Built(HeadRevision, t)

(* On PostgreSQL a run never meets an object that an earlier run left behind, nor misses *)
(* one it counts on: after any interruption the next run resumes (docs/observability.md). *)
RunsResume == dialect = "postgresql" /\ ~misread /\ ~restamped => \A m \in Migrator : mig[m].at # "clashed"

(* A table of the host's that has the name of one of JASIL's before 0.9 is neither *)
(* changed nor renamed (rev0003, _fresh_install_prefix).                           *)
HostTableKept ==
    ~misread /\ "host" \in schema.plain["processing_jobs"] =>
        schema'.plain["processing_jobs"] = schema.plain["processing_jobs"]
=============================================================================
