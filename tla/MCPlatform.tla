----------------------------- MODULE MCPlatform -----------------------------
(***************************************************************************)
(* One process and its capabilities on small instances.                    *)
(***************************************************************************)
EXTENDS HostProcess, TLC

CONSTANTS h1, h2

Redis == URI("redis", "a")
Other == URI("rediss", "b")
Memory == URI("memory", "-")
None == URI("none", "-")
Bucket == URI("s3", "bucket")
Directory == URI("file", "-")
NoLock == URI("noop", "-")
PgLock == URI("postgres-advisory", "-")

MCServer == {Redis, Other}

Base ==
    [profile |-> "local", web_workers |-> 1, job_worker_mode |-> Unset, jobs_enabled |-> TRUE, enforce |-> TRUE,
     state_uri |-> Unset, storage_uri |-> Unset, events_uri |-> Unset, events_named |-> TRUE, realtime_uri |-> Unset,
     lock_uri |-> Unset, mail_uri |-> Unset, mail_sourced |-> FALSE, sink_uri |-> Unset, audit_enabled |-> TRUE]

(* The settings a deployment may be given. *)
Shapes ==
    {[Base EXCEPT !.profile = p, !.web_workers = w, !.enforce = e, !.state_uri = st, !.events_uri = ev, !.realtime_uri = rt,
                  !.lock_uri = PgLock, !.storage_uri = Bucket] :
        p \in {Unset, "distributed", "other"}, w \in {0, 2}, e \in BOOLEAN, st \in {Unset, Memory, Redis},
        ev \in {Unset, Redis, None, Mistyped(Redis), Mistyped(None)}, rt \in {Unset, Memory, Other, None}}
    \cup
    {[Base EXCEPT !.profile = p, !.state_uri = Redis, !.events_uri = Redis, !.events_named = nm, !.storage_uri = sg,
                  !.lock_uri = lk, !.sink_uri = sk, !.audit_enabled = au] :
        p \in {"local", "distributed", "custom"}, nm \in BOOLEAN, sg \in {Unset, Bucket, None, Mistyped(Bucket)},
        lk \in {Unset, NoLock, PgLock}, sk \in {Unset, Directory, Bucket}, au \in BOOLEAN}
    \cup
    {[Base EXCEPT !.job_worker_mode = m, !.jobs_enabled = jb, !.state_uri = Redis, !.events_uri = Redis, !.lock_uri = lk,
                  !.mail_uri = ml, !.mail_sourced = sr] :
        m \in {Unset, "standalone", "other"}, jb \in BOOLEAN, lk \in {Unset, PgLock}, sr \in BOOLEAN,
        ml \in {Unset, Memory, Mistyped(Memory), URI("smtp", "-"), URI("imap", "-")}}

(* Two hosts over the same server, one of whose builds fails part of the way. *)
Both == [Base EXCEPT !.state_uri = Redis, !.events_uri = Redis]
Partly == [Base EXCEPT !.state_uri = Redis]
Wrong == [Base EXCEPT !.state_uri = Redis, !.events_uri = Redis, !.lock_uri = URI("zookeeper", "-")]

MCRequests ==
    {(h1 :> <<s>>) @@ (h2 :> <<>>) : s \in Shapes}
    \cup {(h1 :> <<Both, Partly>>) @@ (h2 :> <<Both>>), (h1 :> <<Both>>) @@ (h2 :> <<Wrong, Partly>>)}

(* What the settings of a provider are edited to. *)
MCEdits == {<<"good", "bad", "good">>, <<"lookup", "memory", "unset">>, <<"bad", "lookup", "good">>}

(* An id that is reused for another type between two publications of its event; a durable *)
(* event whose id the bus delivers too; both inline, and an id of its own.                *)
Ev(id, type, route) == [id |-> id, type |-> type, route |-> route]

MCOutbound ==
    {<<Ev("i", "a", "stream"), Ev("i", "b", "stream"), Ev("i", "a", "stream")>>,
     <<Ev("i", "a", "durable"), Ev("i", "a", "stream")>>,
     <<Ev("i", "a", "inline"), Ev("i", "b", "inline"), Ev("j", "b", "inline")>>}

(* Realtime hints, some from another publisher of the channel. *)
MCHint(from, valid, version) == [from |-> from, valid |-> valid, version |-> version]

MCHints ==
    {<<MCHint("notify", TRUE, 2), MCHint("elsewhere", TRUE, 1), MCHint("elsewhere", FALSE, 2)>>,
     <<MCHint("notify", FALSE, 2), MCHint("notify", TRUE, 2)>>}

(* A gate that closes for longer the third time. *)
MCTiers == <<[threshold |-> 2, seconds |-> 1], [threshold |-> 3, seconds |-> 2]>>

(* No key and no process of the bus is told from another. *)
Symmetry == Permutations(Plain) \cup Permutations(BusProcess)
=============================================================================
