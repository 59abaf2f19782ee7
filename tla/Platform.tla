------------------------------ MODULE Platform ------------------------------
(***************************************************************************)
(* Building, publishing and closing platforms in one process               *)
(* (jasil/container.py, runtime.py, lifecycle.py) and the Redis clients    *)
(* they share (jasil/_core/redis_clients.py).                              *)
(*                                                                         *)
(* A host thread builds platforms one after another.  A build is taken     *)
(* capability by capability, because another thread may acquire or release *)
(* the same client in between.  A shared client is identified by its URI   *)
(* and by whether it decodes responses; every acquisition takes a          *)
(* reference, and the list of references a platform took is modelled by    *)
(* the set of pairs of capability and key.                                 *)
(***************************************************************************)
EXTENDS Deployment

CONSTANTS
    Host,           \* threads that build and close platforms
    Requests,       \* the settings each host builds from, one function per behaviour
    Server,         \* the Redis URIs the settings name
    MaxClients,     \* bound on the clients a behaviour creates
    MaxFaults       \* bound on the connections and constructors that fail

VARIABLES
    todo,           \* the settings each host has still to build from
    settings,       \* the settings of each host's current platform
    phase,          \* where each host's current platform is
    wired,          \* the backend, and the client if any, of each capability built so far
    held,           \* the references of each platform
    taken,          \* the references a close or a failed build is about to give back
    clients,        \* _shared_clients: the client of each key, 0 when there is none
    references,     \* _references
    made,           \* the clients created so far
    open,           \* those not closed yet
    closing,        \* the clients each host has still to close
    active,         \* the published platform, or Unset
    stopping,       \* how far shutdown has come
    published,      \* hosts whose current platform was ever published
    faults

vars == <<todo, settings, phase, wired, held, taken, clients, references, made, open, closing,
          active, stopping, published, faults>>

Order == <<"state", "storage", "events", "lock", "realtime", "audit_sink">>

Capability == {Order[i] : i \in 1..Len(Order)}

Phase == {"idle", "building", "refused", "failed", "built", "closing", "closed"}

(* The byte-oriented state store has its own client beside the decoding one. *)
KeyOf(s, c) ==
    [uri |-> IF c = "state" THEN Resolved(s).state ELSE IF c = "events" THEN Resolved(s).events ELSE Resolved(s).realtime,
     decode |-> c # "state"]

Key == [uri : Server, decode : BOOLEAN]

Unbuilt ==
    /\ settings = [h \in Host |-> Unset]
    /\ phase = [h \in Host |-> "idle"]
    /\ wired = [h \in Host |-> <<>>]
    /\ held = [h \in Host |-> {}]
    /\ taken = [h \in Host |-> {}]
    /\ clients = [k \in Key |-> 0]
    /\ references = [k \in Key |-> 0]
    /\ made = 0
    /\ open = {}
    /\ closing = [h \in Host |-> {}]
    /\ active = Unset
    /\ stopping = "no"
    /\ published = {}
    /\ faults = 0

Init == todo \in Requests /\ Unbuilt

Pool == <<clients, references, made, open, closing>>

Lifetime == <<active, stopping, published>>

(* What stops a build before any client is acquired. *)
Refused(s) ==
    \/ Unresolvable(s)
    \/ s.enforce /\ CheckDeploymentConsistency(s) # {}
    \/ BuildMail(s) = Unset

StartBuild(h) ==
    /\ phase[h] \in {"idle", "refused", "closed"}
    /\ taken[h] = {} /\ closing[h] = {}
    /\ todo[h] # <<>>
    /\ h # active
    /\ todo' = [todo EXCEPT ![h] = Tail(@)]
    /\ settings' = [settings EXCEPT ![h] = Head(todo[h])]
    /\ phase' = [phase EXCEPT ![h] = IF Refused(Head(todo[h])) THEN "refused" ELSE "building"]
    /\ wired' = [wired EXCEPT ![h] = <<>>]
    /\ published' = published \ {h}
    /\ UNCHANGED <<held, taken, Pool, active, stopping, faults>>

Backend(s, c) ==
    CASE c = "state" -> BuildState(s)
      [] c = "storage" -> BuildStorage(s)
      [] c = "events" -> BuildEvents(s)
      [] c = "lock" -> BuildLock(s)
      [] c = "realtime" -> BuildRealtime(s)
      [] c = "audit_sink" -> BuildAuditSink(s)

Building(h) == phase[h] = "building" /\ Len(wired[h]) < Len(Order)

Upcoming(h) == Order[Len(wired[h]) + 1]

Wire(h, client) ==
    wired' = [wired EXCEPT ![h] = Append(@, [backend |-> Backend(settings[h], Upcoming(h)), client |-> client])]

Connects(h) == Backend(settings[h], Upcoming(h)) \in RedisSchemes

(* A capability that needs no shared client. *)
BuildLocal(h) ==
    /\ Building(h)
    /\ Backend(settings[h], Upcoming(h)) # Unset
    /\ ~Connects(h)
    /\ Wire(h, 0)
    /\ UNCHANGED <<todo, settings, phase, held, taken, Pool, Lifetime, faults>>

UpcomingKey(h) == KeyOf(settings[h], Upcoming(h))

(* get_shared_client: the client of the key, connected under the lock when there is none. *)
Acquired(k) == IF clients[k] # 0 THEN clients[k] ELSE made + 1

Acquire(h) ==
    /\ Building(h) /\ Connects(h)
    /\ LET k == UpcomingKey(h) IN
       /\ clients[k] = 0 => made < MaxClients
       /\ Wire(h, Acquired(k))
       /\ clients' = [clients EXCEPT ![k] = Acquired(k)]
       /\ references' = [references EXCEPT ![k] = @ + 1]
       /\ held' = [held EXCEPT ![h] = @ \cup {<<Upcoming(h), k>>}]
       /\ IF clients[k] # 0 THEN UNCHANGED <<made, open>>
          ELSE made' = made + 1 /\ open' = open \cup {made + 1}
    /\ UNCHANGED <<todo, settings, phase, taken, closing, Lifetime, faults>>

(* An unsupported scheme, a server that does not answer the first ping, a store that *)
(* cannot be opened.                                                                 *)
Unreachable(h) ==
    /\ faults < MaxFaults
    /\ \/ Connects(h) /\ clients[UpcomingKey(h)] = 0
       \/ Backend(settings[h], Upcoming(h)) \in {"s3", "file"}

(* Mutant: a build that fails keeps what the backends before it took. *)
GivesNothingBack(refs) == {}

GivesBack(refs) == refs

FailBuild(h) ==
    /\ Building(h)
    /\ \/ Backend(settings[h], Upcoming(h)) = Unset /\ UNCHANGED faults
       \/ Unreachable(h) /\ faults' = faults + 1
    /\ phase' = [phase EXCEPT ![h] = "failed"]
    /\ taken' = [taken EXCEPT ![h] = GivesBack(held[h])]
    /\ held' = [held EXCEPT ![h] = {}]
    /\ UNCHANGED <<todo, settings, wired, Pool, Lifetime>>

FinishBuild(h) ==
    /\ phase[h] = "building" /\ Len(wired[h]) = Len(Order)
    /\ phase' = [phase EXCEPT ![h] = "built"]
    /\ UNCHANGED <<todo, settings, wired, held, taken, Pool, Lifetime, faults>>

(***************************************************************************)
(* release_shared_clients: one locked pass over the keys, then the closes   *)
(***************************************************************************)
Dropped(h, k) == Cardinality({r \in taken[h] : r[2] = k})

Remaining(h, k) == IF Dropped(h, k) >= references[k] THEN 0 ELSE references[k] - Dropped(h, k)

(* Mutant: the client is closed by whoever gives a reference back. *)
AnyGone(h, k) == Dropped(h, k) > 0 /\ references[k] > 0

LastGone(h, k) == Dropped(h, k) > 0 /\ references[k] > 0 /\ Remaining(h, k) = 0

GiveBack(h) ==
    /\ taken[h] # {}
    /\ references' = [k \in Key |-> Remaining(h, k)]
    /\ clients' = [k \in Key |-> IF LastGone(h, k) THEN 0 ELSE clients[k]]
    /\ closing' = [closing EXCEPT ![h] = {clients[k] : k \in {x \in Key : LastGone(h, x)}}]
    /\ taken' = [taken EXCEPT ![h] = {}]
    /\ UNCHANGED <<todo, settings, phase, wired, held, made, open, Lifetime, faults>>

CloseClient(h) ==
    /\ \E c \in closing[h] :
        /\ open' = open \ {c}
        /\ closing' = [closing EXCEPT ![h] = @ \ {c}]
    /\ UNCHANGED <<todo, settings, phase, wired, held, taken, clients, references, made, Lifetime, faults>>

Released(h) == taken[h] = {} /\ closing[h] = {}

(* The failed build has given everything back and its error reaches the host. *)
RaiseFailure(h) ==
    /\ phase[h] = "failed" /\ Released(h)
    /\ phase' = [phase EXCEPT ![h] = "refused"]
    /\ UNCHANGED <<todo, settings, wired, held, taken, Pool, Lifetime, faults>>

(***************************************************************************)
(* Platform.close: the consumer and the subscriber are stopped, then the    *)
(* list is taken out and given back; a second close finds it empty          *)
(***************************************************************************)
(* Mutant: the list is not taken out, so a second close gives it back again. *)
LeftIn(refs) == refs

TakenOut(refs) == {}

ClosePlatform(h) ==
    /\ phase[h] \in {"built", "closed"} /\ Released(h)
    /\ phase' = [phase EXCEPT ![h] = "closing"]
    /\ taken' = [taken EXCEPT ![h] = held[h]]
    /\ held' = [held EXCEPT ![h] = TakenOut(held[h])]
    /\ UNCHANGED <<todo, settings, wired, Pool, faults>>

(* A host closes its platform, more than once if it likes; two closes of one platform *)
(* at the same moment are left out, as close says to call it once on shutdown.        *)
Close(h) ==
    /\ stopping = "no"
    /\ ClosePlatform(h)
    /\ UNCHANGED Lifetime

Closed(h) ==
    /\ phase[h] = "closing" /\ Released(h)
    /\ phase' = [phase EXCEPT ![h] = "closed"]
    /\ UNCHANGED <<todo, settings, wired, held, taken, Pool, Lifetime, faults>>

(***************************************************************************)
(* set_active_platform and lifecycle.shutdown                              *)
(***************************************************************************)
Publish(h) ==
    /\ phase[h] = "built"
    /\ active = Unset /\ stopping = "no"
    /\ active' = h
    /\ published' = published \cup {h}
    /\ UNCHANGED <<todo, settings, phase, wired, held, taken, Pool, stopping, faults>>

(* Mutant: the platform is unpublished before it is looked up to be closed. *)
ResetFirst == <<"worker", "reset", "platform">>

ShutdownOrder == <<"worker", "platform", "reset">>

(* Only a published platform is closed; a process that never published one has none. *)
BeginShutdown ==
    /\ stopping = "no"
    /\ stopping' = ShutdownOrder[1]
    /\ UNCHANGED <<todo, settings, phase, wired, held, taken, Pool, active, published, faults>>

AfterStep(step) ==
    LET i == CHOOSE j \in 1..Len(ShutdownOrder) : ShutdownOrder[j] = step IN
    IF i = Len(ShutdownOrder) THEN "no" ELSE ShutdownOrder[i + 1]

StopJobWorker ==
    /\ stopping = "worker"
    /\ stopping' = AfterStep("worker")
    /\ UNCHANGED <<todo, settings, phase, wired, held, taken, Pool, active, published, faults>>

ShutdownClose ==
    /\ stopping = "platform"
    /\ IF active = Unset
       THEN stopping' = AfterStep("platform") /\ UNCHANGED <<todo, settings, phase, wired, held, taken, Pool, faults>>
       ELSE stopping' = "closing" /\ ClosePlatform(active)
    /\ UNCHANGED <<active, published>>

ShutdownClosed ==
    /\ stopping = "closing"
    /\ phase[active] = "closed"
    /\ stopping' = AfterStep("platform")
    /\ UNCHANGED <<todo, settings, phase, wired, held, taken, Pool, active, published, faults>>

Reset ==
    /\ stopping = "reset"
    /\ stopping' = AfterStep("reset")
    /\ active' = Unset
    /\ UNCHANGED <<todo, settings, phase, wired, held, taken, Pool, published, faults>>

Next ==
    \/ \E h \in Host :
        \/ StartBuild(h) \/ BuildLocal(h) \/ Acquire(h) \/ FailBuild(h) \/ FinishBuild(h) \/ RaiseFailure(h)
        \/ GiveBack(h) \/ CloseClient(h) \/ Close(h) \/ Closed(h) \/ Publish(h)
    \/ BeginShutdown \/ StopJobWorker \/ ShutdownClose \/ ShutdownClosed \/ Reset

Spec == Init /\ [][Next]_vars

TypeOK ==
    /\ phase \in [Host -> Phase]
    /\ \A h \in Host : Len(wired[h]) <= Len(Order) /\ held[h] \cup taken[h] \subseteq Capability \X Key
    /\ clients \in [Key -> 0..MaxClients] /\ references \in [Key -> Nat]
    /\ open \subseteq 1..made /\ \A h \in Host : closing[h] \subseteq open
    /\ active \in Host \cup {Unset}

Live(h) == phase[h] \in {"building", "built"}

Index(c) == CHOOSE i \in 1..Len(Order) : Order[i] = c

Wired(h, c) == wired[h][Index(c)].backend

(* A client is never closed under a platform that uses it, whatever other platforms *)
(* of the process fail to build, close, or close twice (release_shared_clients).    *)
ClientsOpenWhileHeld ==
    \A h \in Host : Live(h) => \A i \in 1..Len(wired[h]) : wired[h][i].client # 0 => wired[h][i].client \in open

Holders(k) == {x \in Host \X Capability : <<x[2], k>> \in held[x[1]] \cup taken[x[1]]}

(* The count of a key is the references platforms hold or are giving back, and a key has *)
(* a client exactly while it is counted (get_shared_client, release_shared_clients).     *)
ReferencesHeld ==
    \A k \in Key :
        /\ references[k] = Cardinality(Holders(k))
        /\ clients[k] # 0 <=> references[k] > 0

(* A client is open only while some platform holds or is giving back a reference to it, *)
(* or a host is closing it: neither a failed build nor a close leaves a connection open  *)
(* that nobody will close.                                                               *)
NoClientStranded ==
    \A c \in open : (\E k \in Key : clients[k] = c /\ Holders(k) # {}) \/ (\E h \in Host : c \in closing[h])

(* What an enforced check lets through shares what the topology makes it share: several *)
(* processes never get memory of their own for state, events, hints or mail, nor a lock *)
(* that locks nothing; several nodes never get a disk of their own.                     *)
SharedWhereNeeded ==
    \A h \in Host :
        (phase[h] = "built" /\ settings[h].enforce) =>
            LET t == ResolveTopology(settings[h]) IN
            /\ MultiProcess(t) =>
                /\ Wired(h, "state") \in RedisSchemes
                /\ {Wired(h, "events"), Wired(h, "realtime")} \subseteq RedisSchemes \cup {"disabled"}
                /\ Wired(h, "lock") # "noop"
                /\ BuildMail(settings[h]) # "memory"
            /\ MultiNode(t) => Wired(h, "storage") # "local" /\ Wired(h, "audit_sink") # "file"

(* The report logged before a build names the backends the build then wires. *)
BuiltAsReported ==
    \A h \in Host :
        phase[h] = "built" =>
            /\ \A c \in {"state", "storage", "events", "realtime", "lock"} : Wired(h, c) = Report(settings[h])[c]
            /\ BuildMail(settings[h]) = Report(settings[h]).mail

(* A platform that shutdown has unpublished has been closed (lifecycle.shutdown). *)
UnpublishedIsClosed ==
    \A h \in published : h # active => phase[h] \in {"closing", "closed"}

(* A shared client and a platform are closed once, when the last that holds *)
(* them lets go and not before, through builds that fail half-way.          *)
ClosedWhenDone == ClientsOpenWhileHeld /\ ReferencesHeld /\ NoClientStranded /\ UnpublishedIsClosed

(* What is built is what the topology check accepted and what the report    *)
(* says: no state of several processes is kept in one of them.              *)
BuiltAsChecked == SharedWhereNeeded /\ BuiltAsReported
=============================================================================
