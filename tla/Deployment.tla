----------------------------- MODULE Deployment -----------------------------
(***************************************************************************)
(* What a deployment's settings mean before anything is built              *)
(* (jasil/settings.py, profile.py, capabilities.py): the URI each          *)
(* capability resolves to, the topology, the consistency rules and the     *)
(* capability report.                                                      *)
(*                                                                         *)
(* A URI is its scheme, the server or bucket it names, and whether the     *)
(* scheme is written literally: the rules compare it with case and spaces  *)
(* ignored, the builders compare it as written.                            *)
(***************************************************************************)
EXTENDS Naturals, Sequences, FiniteSets

CONSTANTS Unset     \* a setting the host left out, or a value that cannot be resolved

URI(scheme, server) == [scheme |-> scheme, server |-> server, exact |-> TRUE]

Mistyped(uri) == [uri EXCEPT !.exact = FALSE]

RedisSchemes == {"redis", "rediss", "unix"}

(***************************************************************************)
(* Settings                                                                *)
(***************************************************************************)
ParseProfile(value) ==
    IF value = Unset THEN "local"
    ELSE IF value \in {"local", "distributed", "custom"} THEN value ELSE Unset

ParseJobWorkerMode(value) ==
    IF value = Unset THEN "in_process"
    ELSE IF value \in {"in_process", "standalone"} THEN value ELSE Unset

LocalDefaults ==
    [state_uri |-> URI("memory", "-"), storage_uri |-> URI("local", "-"),
     events_uri |-> URI("memory", "-"), lock_uri |-> URI("noop", "-")]

(* The explicit URI, the default of the local profile, or a ValueError. *)
Resolve(s, name) ==
    IF s[name] # Unset THEN s[name]
    ELSE IF ParseProfile(s.profile) = "local" THEN LocalDefaults[name] ELSE Unset

ResolvedRealtimeUri(s) ==
    IF s.realtime_uri # Unset THEN s.realtime_uri ELSE Resolve(s, "events_uri")

Resolved(s) ==
    [state |-> Resolve(s, "state_uri"), storage |-> Resolve(s, "storage_uri"),
     events |-> Resolve(s, "events_uri"), lock |-> Resolve(s, "lock_uri"),
     realtime |-> ResolvedRealtimeUri(s)]

(***************************************************************************)
(* Topology                                                                *)
(***************************************************************************)
ResolveTopology(s) ==
    [profile |-> ParseProfile(s.profile),
     web_workers |-> IF s.web_workers < 1 THEN 1 ELSE s.web_workers,
     job_worker_mode |-> ParseJobWorkerMode(s.job_worker_mode)]

MultiProcessCauses(t) ==
    (IF t.profile = "distributed" THEN {"profile"} ELSE {})
    \cup (IF t.web_workers > 1 THEN {"web_workers"} ELSE {})
    \cup (IF t.job_worker_mode = "standalone" THEN {"job_worker_mode"} ELSE {})

MultiProcess(t) == MultiProcessCauses(t) # {}

MultiNode(t) == t.profile = "distributed"

(***************************************************************************)
(* The consistency rules: each is the set of settings it finds at fault    *)
(***************************************************************************)
ClassifyStateUri(uri) ==
    IF uri = Unset THEN "unknown"
    ELSE IF uri.scheme = "memory" THEN "memory"
    ELSE IF uri.scheme \in RedisSchemes THEN "redis" ELSE "unknown"

(* A literal none:// turns a capability off. *)
IsDisabled(uri) == uri.scheme = "none" /\ uri.exact

(* Mutant: the realtime channel is taken to be the bus that is already judged. *)
StateSourcesOfBus(s) ==
    {[label |-> "state_uri", uri |-> Resolved(s).state, applies |-> TRUE],
     [label |-> "events_uri", uri |-> Resolved(s).events, applies |-> ~IsDisabled(Resolved(s).events)]}

StateSources(s) ==
    {[label |-> "state_uri", uri |-> Resolved(s).state, applies |-> TRUE],
     [label |-> "events_uri", uri |-> Resolved(s).events, applies |-> ~IsDisabled(Resolved(s).events)],
     [label |-> "realtime_uri", uri |-> Resolved(s).realtime,
      applies |-> s.realtime_uri # Unset /\ ~IsDisabled(Resolved(s).realtime)]}

CheckState(t, sources) ==
    {x.label : x \in {y \in sources : MultiProcess(t) /\ y.applies /\ ClassifyStateUri(y.uri) # "redis"}}

CheckStorage(t, uri) ==
    IF MultiNode(t) /\ uri.scheme = "local" THEN {"storage_uri"} ELSE {}

CheckAuditSink(t, uri) ==
    IF MultiNode(t) /\ uri # Unset THEN (IF uri.scheme = "file" THEN {"audit.external_sink_uri"} ELSE {}) ELSE {}

CheckLock(t, uri) ==
    IF MultiProcess(t) /\ uri.scheme = "noop" THEN {"lock_uri"} ELSE {}

CheckMail(t, uri) ==
    IF MultiProcess(t) /\ uri # Unset THEN (IF uri.scheme = "memory" THEN {"mail.uri"} ELSE {}) ELSE {}

CheckJobWorker(t, enabled) ==
    IF t.job_worker_mode = "standalone" /\ ~enabled THEN {"job_worker_mode"} ELSE {}

(* Mail the host edits at run time is judged on every rebuild instead. *)
CheckDeploymentConsistency(s) ==
    LET t == ResolveTopology(s) r == Resolved(s) IN
    CheckState(t, StateSources(s))
    \cup CheckStorage(t, r.storage)
    \cup CheckAuditSink(t, IF s.audit_enabled THEN s.sink_uri ELSE Unset)
    \cup CheckLock(t, r.lock)
    \cup CheckMail(t, IF s.mail_sourced THEN Unset ELSE s.mail_uri)
    \cup CheckJobWorker(t, s.jobs_enabled)

(* Settings that name no profile or mode, or that leave a URI without a default, *)
(* raise before any rule is applied.                                             *)
Unresolvable(s) ==
    \/ ParseProfile(s.profile) = Unset
    \/ ParseJobWorkerMode(s.job_worker_mode) = Unset
    \/ \E name \in DOMAIN Resolved(s) : Resolved(s)[name] = Unset

(***************************************************************************)
(* The capability report                                                   *)
(***************************************************************************)
SchemeOf(uri) == IF uri.exact THEN uri.scheme ELSE "as written"

(* Mutant: the scheme is reported, whether or not it disables the capability. *)
BackendNamed(uri) == SchemeOf(uri)

OptionalBackendOf(uri) == IF IsDisabled(uri) THEN "disabled" ELSE SchemeOf(uri)

(* Unlike the others, a mail scheme is reported with its case ignored. *)
MailBackendOf(uri) == IF uri = Unset THEN "disabled" ELSE uri.scheme

Report(s) ==
    LET r == Resolved(s) IN
    [state |-> SchemeOf(r.state), storage |-> OptionalBackendOf(r.storage),
     events |-> OptionalBackendOf(r.events), realtime |-> OptionalBackendOf(r.realtime),
     lock |-> SchemeOf(r.lock),
     mail |-> IF s.mail_sourced THEN "runtime" ELSE MailBackendOf(s.mail_uri)]

(***************************************************************************)
(* The backend a builder makes of a URI, compared as written; Unset is the *)
(* ValueError of an unsupported scheme                                     *)
(***************************************************************************)
Literal(uri, schemes) == uri.exact /\ uri.scheme \in schemes

BuildState(s) ==
    LET uri == Resolved(s).state IN
    IF Literal(uri, {"memory"} \cup RedisSchemes) THEN uri.scheme ELSE Unset

BuildStorage(s) ==
    LET uri == Resolved(s).storage IN
    IF Literal(uri, {"none"}) THEN "disabled"
    ELSE IF Literal(uri, {"local", "s3"}) THEN uri.scheme ELSE Unset

(* The Redis bus needs a stream and a group of its own. *)
BuildEvents(s) ==
    LET uri == Resolved(s).events IN
    IF Literal(uri, {"none"}) THEN "disabled"
    ELSE IF Literal(uri, {"memory"}) THEN "memory"
    ELSE IF Literal(uri, RedisSchemes) /\ s.events_named THEN uri.scheme ELSE Unset

BuildRealtime(s) ==
    LET uri == Resolved(s).realtime IN
    IF Literal(uri, {"none"}) THEN "disabled"
    ELSE IF Literal(uri, {"memory"} \cup RedisSchemes) THEN uri.scheme ELSE Unset

BuildLock(s) ==
    LET uri == Resolved(s).lock IN
    IF Literal(uri, {"noop", "postgres-advisory"}) THEN uri.scheme ELSE Unset

BuildAuditSink(s) ==
    IF s.sink_uri = Unset \/ ~s.audit_enabled THEN "disabled"
    ELSE IF Literal(s.sink_uri, {"file", "s3"}) THEN s.sink_uri.scheme ELSE Unset

(* The mail scheme is parsed with its case ignored. *)
BuildMail(s) ==
    IF s.mail_sourced THEN "runtime"
    ELSE IF s.mail_uri = Unset THEN "disabled"
    ELSE IF s.mail_uri.scheme \in {"memory", "smtp", "smtps"} THEN s.mail_uri.scheme ELSE Unset
=============================================================================
