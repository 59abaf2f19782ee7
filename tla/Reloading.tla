----------------------------- MODULE Reloading -----------------------------
(***************************************************************************)
(* Mail and geocoding whose settings the host edits at run time            *)
(* (jasil/_reloading.py, _build_runtime_mail and _build_geocoding of       *)
(* jasil/container.py).                                                    *)
(*                                                                         *)
(* Every send or reverse takes a read number, asks the host's source for   *)
(* the settings outside the lock, and applies them under it.  The settings *)
(* are numbered by the host's edits; Edits gives what each of them is.     *)
(***************************************************************************)
EXTENDS Naturals, Sequences

CONSTANTS
    Caller,         \* threads that send mail or reverse-geocode
    Edits,          \* the settings after each edit, one sequence per behaviour
    Shared,         \* whether the deployment runs several processes under an enforced check
    MaxReads,       \* bound on the calls
    MaxSourceFaults,\* bound on the calls of the source that raise
    MaxTime,        \* bound on the clock
    Retry,          \* TRANSIENT_RETRY_SECONDS
    Nothing

VARIABLES
    provider,       \* "mail" or "geocoding"
    edits,          \* the edits of this behaviour
    stored,         \* how many of them the host has made
    resolver,       \* whether names resolve at the moment
    now,            \* time.monotonic()
    reads,          \* the next read number
    appliedRead,    \* _applied_read
    current,        \* _current: an outcome, or Nothing
    call,           \* each caller's call in progress
    applied,        \* the rejections applied so far, by the edit they are of
    raised          \* calls of the source that raised

reloadVars == <<provider, edits, stored, resolver, now, reads, appliedRead, current, call, applied, raised>>

Idle ==
    [at |-> "idle", read |-> 0, since |-> 0, rejected |-> {}, fresh |-> 0, outcome |-> Nothing, failed |-> FALSE]

Unread ==
    /\ now = 0 /\ reads = 1 /\ appliedRead = 0
    /\ current = Nothing
    /\ call = [c \in Caller |-> Idle]
    /\ applied = {} /\ raised = 0

Init ==
    /\ provider \in {"mail", "geocoding"}
    /\ edits \in Edits
    /\ stored = 1
    /\ resolver \in BOOLEAN
    /\ Unread

NoReloads == provider = "mail" /\ edits = <<>> /\ stored = 0 /\ resolver = TRUE /\ Unread

(***************************************************************************)
(* Building a backend: it is built, refused for good, or refused for now   *)
(***************************************************************************)
(* Mutant: settings that arrive at run time are not held to the deployment's rule. *)
BuildMailAnywhere(kind) ==
    CASE kind = "unset" -> "null"
      [] kind \in {"good", "memory"} -> "built"
      [] kind = "lookup" -> IF resolver THEN "built" ELSE "transient"
      [] kind = "bad" -> "rejected"

(* Unset mail is a backend whose send raises.  A recorder is refused where several      *)
(* processes would each keep their own.  A cleartext relay is looked up on every build. *)
BuildMail(kind) ==
    CASE kind = "unset" -> "null"
      [] kind = "good" -> "built"
      [] kind = "memory" -> IF Shared THEN "rejected" ELSE "built"
      [] kind = "lookup" -> IF resolver THEN "built" ELSE "transient"
      [] kind = "bad" -> "rejected"

(* Geocoding is optional: what mail refuses is served by a backend that finds nothing. *)
BuildGeocoding(kind) ==
    CASE kind \in {"unset", "bad", "memory"} -> "null"
      [] kind = "good" -> "built"
      [] kind = "lookup" -> IF resolver THEN "built" ELSE "transient"

Build(kind) == IF provider = "mail" THEN BuildMail(kind) ELSE BuildGeocoding(kind)

Rebuild(v) ==
    LET result == Build(edits[v]) IN
    [settings |-> v, result |-> result, retryAt |-> IF result = "transient" THEN now + Retry ELSE Nothing]

HasBackend(outcome) == outcome.result \in {"built", "null"}

RetryDue(outcome) == outcome.retryAt # Nothing /\ now >= outcome.retryAt

(***************************************************************************)
(* resolve                                                                 *)
(***************************************************************************)
BeginResolve(c) ==
    /\ call[c].at \in {"idle", "answered"}
    /\ reads <= MaxReads
    /\ call' = [call EXCEPT ![c] = [Idle EXCEPT !.at = "reading", !.read = reads, !.since = stored, !.rejected = applied]]
    /\ reads' = reads + 1
    /\ UNCHANGED <<provider, edits, stored, resolver, now, appliedRead, current, applied, raised>>

ReadSource(c) ==
    /\ call[c].at = "reading"
    /\ call' = [call EXCEPT ![c].at = "applying", ![c].fresh = stored]
    /\ UNCHANGED <<provider, edits, stored, resolver, now, reads, appliedRead, current, applied, raised>>

Answer(c, outcome, failed) == [call EXCEPT ![c].at = "answered", ![c].outcome = outcome, ![c].failed = failed]

(* The source raises: the last outcome is reused only when it is a backend. *)
Fallback(outcome) == IF outcome # Nothing /\ HasBackend(outcome) THEN outcome ELSE Nothing

SourceFails(c) ==
    /\ call[c].at = "reading"
    /\ raised < MaxSourceFaults
    /\ raised' = raised + 1
    /\ call' = Answer(c, IF current = Nothing THEN Nothing ELSE Fallback(current), TRUE)
    /\ UNCHANGED <<provider, edits, stored, resolver, now, reads, appliedRead, current, applied>>

(* Mutant: a read is applied whenever it arrives. *)
NeverOvertaken(c) == FALSE

Overtaken(c) == current # Nothing /\ call[c].read < appliedRead

Stale(fresh) == current = Nothing \/ current.settings # fresh \/ RetryDue(current)

Apply(c) ==
    /\ call[c].at = "applying"
    /\ LET fresh == call[c].fresh
           outcome == IF ~Overtaken(c) /\ Stale(fresh) THEN Rebuild(fresh) ELSE current IN
       /\ current' = outcome
       /\ call' = Answer(c, outcome, FALSE)
       /\ applied' = IF outcome.result = "rejected" THEN applied \cup {outcome.settings} ELSE applied
    /\ appliedRead' = IF Overtaken(c) THEN appliedRead ELSE call[c].read
    /\ UNCHANGED <<provider, edits, stored, resolver, now, reads, raised>>

(* send and reverse: what the caller of an answered resolve gets. *)
Reply(c) ==
    LET outcome == call[c].outcome IN
    IF outcome # Nothing /\ HasBackend(outcome) THEN (IF outcome.result = "built" THEN "served" ELSE "null")
    ELSE IF provider = "geocoding" THEN "none"
    ELSE IF outcome = Nothing \/ outcome.result = "transient" THEN "settings_unavailable" ELSE "not_configured"

(***************************************************************************)
(* The host edits the settings, names begin or cease to resolve, time passes *)
(***************************************************************************)
Edit ==
    /\ stored < Len(edits)
    /\ stored' = stored + 1
    /\ UNCHANGED <<provider, edits, resolver, now, reads, appliedRead, current, call, applied, raised>>

ResolverTurns ==
    /\ resolver' = ~resolver
    /\ UNCHANGED <<provider, edits, stored, now, reads, appliedRead, current, call, applied, raised>>

TimePasses ==
    /\ now < MaxTime
    /\ now' = now + 1
    /\ UNCHANGED <<provider, edits, stored, resolver, reads, appliedRead, current, call, applied, raised>>

Next ==
    \/ \E c \in Caller : BeginResolve(c) \/ ReadSource(c) \/ SourceFails(c) \/ Apply(c)
    \/ Edit \/ ResolverTurns \/ TimePasses

Spec == Init /\ [][Next]_reloadVars

Answered(c) == call[c].at = "answered"

(* A call whose source answered goes by settings at least as new as those stored when it *)
(* began, and leaves none older behind, however the reads and the builds of other        *)
(* callers fall between (resolve).                                                       *)
SettingsNotStale ==
    \A c \in Caller :
        Answered(c) /\ ~call[c].failed =>
            call[c].outcome.settings >= call[c].since /\ current.settings >= call[c].since

(* A mail is served by no recorder of one process among several, and by no settings that *)
(* were refused; what is refused says so (ReloadingMail.send).                           *)
RefusedNotServed ==
    \A c \in Caller :
        (Answered(c) /\ provider = "mail" /\ Reply(c) = "served") =>
            edits[call[c].outcome.settings] \in IF Shared THEN {"good", "lookup"} ELSE {"good", "lookup", "memory"}

(* An edit applies to every call that begins after it and whose source      *)
(* answers: it goes by no older settings, and refused ones serve nobody.    *)
SettingsApply == SettingsNotStale /\ RefusedNotServed

(* A rejection is never papered over with an older backend: a call that begins once later *)
(* settings have been refused, and whose source then raises, gets no earlier backend      *)
(* (the docstring of resolve).                                                            *)
RejectionStands ==
    \A c \in Caller :
        (Answered(c) /\ call[c].failed /\ call[c].outcome # Nothing) =>
            \A v \in call[c].rejected : v <= call[c].outcome.settings
=============================================================================
