--------------------------- MODULE PlatformProofs ---------------------------
(***************************************************************************)
(* Proofs about what a process builds and keeps in memory: its platforms,  *)
(* the settings it reads again, its keyed state, and the events it holds   *)
(* until a commit.                                                         *)
(*                                                                         *)
(* Shared clients are closed when the last platform lets go of them and not *)
(* before, and what is built is what the consistency check accepted and    *)
(* the report says.  The counts are right because a reference belongs to a *)
(* capability that a platform has already wired (Wirings), is given back by *)
(* exactly one host at a time (Phases), and leaves the pool together with  *)
(* its client (PoolSound).  That a wired client is open follows from the   *)
(* reference behind it, not from the client itself.                        *)
(*                                                                         *)
(* The other arguments are about HostSpec and have one shape: the          *)
(* invariant of a capability holds when a process starts, whichever part   *)
(* it follows; a step of another part leaves the capability's variables    *)
(* alone; and a step of the capability preserves its invariant.            *)
(***************************************************************************)
EXTENDS HostProcess, FiniteSetTheorems, SequenceTheorems, WellFoundedInduction, TLAPS

(***************************************************************************)
(* Platforms                                                               *)
(***************************************************************************)
(* The settings the hosts build from. *)
Offered == UNION {UNION {{r[h][i] : i \in 1..Len(r[h])} : h \in Host} : r \in Requests}

(* What the constants are: finitely many hosts, and Server holds every server the settings name. *)
Bounds ==
    /\ IsFiniteSet(Host)
    /\ Unset \notin Host /\ Unset \notin RedisSchemes
    /\ \A r \in Requests : r \in [Host -> Seq(Offered)]
    /\ \A s \in Offered :
           ~Refused(s) => \A c \in Capability : Backend(s, c) \in RedisSchemes => KeyOf(s, c).uri \in Server

WiredBackend == [backend : {Backend(x[1], x[2]) : x \in Offered \X Capability}, client : Nat]

Types ==
    /\ todo \in [Host -> Seq(Offered)]
    /\ settings \in [Host -> Offered \cup {Unset}]
    /\ phase \in [Host -> Phase]
    /\ wired \in [Host -> Seq(WiredBackend)]
    /\ held \in [Host -> SUBSET (Capability \X Key)]
    /\ taken \in [Host -> SUBSET (Capability \X Key)]
    /\ clients \in [Key -> Nat] /\ references \in [Key -> Nat]
    /\ made \in Nat /\ open \subseteq 1..made
    /\ closing \in [Host -> SUBSET (1..made)]
    /\ active \in Host \cup {Unset} /\ published \subseteq Host
    /\ stopping \in {"no", "worker", "platform", "closing", "reset"}

(* References are held while a platform is built or in use, and then given back once, before *)
(* the clients that nobody uses are closed.                                                  *)
PhaseSound(h) ==
    /\ ~Live(h) => held[h] = {}
    /\ taken[h] # {} => phase[h] \in {"failed", "closing"} /\ closing[h] = {}
    /\ closing[h] # {} => phase[h] \in {"failed", "closing"}

(* A live platform has wired, in order, backends of settings that were accepted. *)
BuildSound(h) ==
    Live(h) =>
        /\ settings[h] \in Offered /\ ~Refused(settings[h])
        /\ Len(wired[h]) <= Len(Order) /\ (phase[h] = "built" => Len(wired[h]) = Len(Order))
        /\ \A i \in 1..Len(wired[h]) :
               wired[h][i].backend = Backend(settings[h], Order[i]) /\ wired[h][i].backend # Unset

(* A reference belongs to a capability wired before, and a wired client to a reference. *)
WiringSound(h) ==
    Live(h) =>
        /\ \A r \in held[h] : \E i \in 1..Len(wired[h]) : r[1] = Order[i]
        /\ \A i \in 1..Len(wired[h]) :
               wired[h][i].client # 0 =>
                   \E k \in Key : <<Order[i], k>> \in held[h] /\ clients[k] = wired[h][i].client

(* The client of a key is open, its own, and nobody's to close. *)
PoolSound ==
    \A k \in Key :
        clients[k] # 0 =>
            /\ clients[k] \in open
            /\ \A j \in Key : clients[j] = clients[k] => j = k
            /\ \A h \in Host : clients[k] \notin closing[h]

(* A shutdown that has come to its close or past it has closed the published platform. *)
ShutdownSound ==
    /\ stopping = "closing" => active # Unset /\ phase[active] \in {"closing", "closed"}
    /\ (stopping = "reset" /\ active # Unset) => phase[active] = "closed"

PlatformInv ==
    /\ Types
    /\ \A h \in Host : PhaseSound(h) /\ BuildSound(h) /\ WiringSound(h)
    /\ PoolSound /\ ShutdownSound
    /\ ReferencesHeld /\ NoClientStranded /\ UnpublishedIsClosed

(***************************************************************************)
(* The order of the capabilities, and what a checked deployment builds     *)
(***************************************************************************)
(* The capabilities are built one after another, each once. *)
LEMMA OrderFacts ==
    /\ Len(Order) = 6
    /\ \A i \in 1..6 : Order[i] \in Capability
    /\ \A i, j \in 1..6 : Order[i] = Order[j] => i = j
  <1>1. Len(Order) = 6
    BY DEF Order
  <1>2. \A i \in 1..6 : i = 1 \/ i = 2 \/ i = 3 \/ i = 4 \/ i = 5 \/ i = 6
    OBVIOUS
  <1>3. \A i, j \in 1..6 : Order[i] = Order[j] => i = j
    BY <1>2 DEF Order
  <1> QED BY <1>1, <1>3 DEF Capability

(* Every capability has its place in the order. *)
LEMMA IndexFacts ==
    ASSUME NEW c \in Capability
    PROVE  Index(c) \in 1..6 /\ Order[Index(c)] = c
  <1>1. \E i \in 1..Len(Order) : Order[i] = c
    BY DEF Capability
  <1> QED BY <1>1, OrderFacts DEF Index

(* The names of the capabilities. *)
LEMMA CapabilityNames ==
    Capability = {"state", "storage", "events", "lock", "realtime", "audit_sink"}
  <1>1. \A i \in 1..Len(Order) : i = 1 \/ i = 2 \/ i = 3 \/ i = 4 \/ i = 5 \/ i = 6
    BY OrderFacts
  <1>2. 1 \in 1..6 /\ 2 \in 1..6 /\ 3 \in 1..6 /\ 4 \in 1..6 /\ 5 \in 1..6 /\ 6 \in 1..6
    OBVIOUS
  <1>3. /\ Order[1] = "state" /\ Order[2] = "storage" /\ Order[3] = "events"
        /\ Order[4] = "lock" /\ Order[5] = "realtime" /\ Order[6] = "audit_sink"
    BY DEF Order
  <1>4. ASSUME NEW c \in Capability  PROVE c \in {"state", "storage", "events", "lock", "realtime", "audit_sink"}
    BY <1>1, <1>3 DEF Capability
  <1>5. ASSUME NEW c \in {"state", "storage", "events", "lock", "realtime", "audit_sink"}  PROVE c \in Capability
    <2>1. \E i \in 1..6 : Order[i] = c
      BY <1>2, <1>3
    <2> QED BY <2>1, OrderFacts DEF Capability
  <1> QED BY <1>4, <1>5

(* Settings that pass the check, every capability of which can be built, build nothing of one process *)
(* where several share it, and no disk of one node where several share it.                            *)
LEMMA CheckedIsShared ==
    ASSUME NEW s, s.enforce, ~Refused(s), \A c \in Capability : Backend(s, c) # Unset
    PROVE  LET t == ResolveTopology(s) IN
           /\ MultiProcess(t) =>
                /\ Backend(s, "state") \in RedisSchemes
                /\ Backend(s, "events") \in RedisSchemes \cup {"disabled"}
                /\ Backend(s, "realtime") \in RedisSchemes \cup {"disabled"}
                /\ Backend(s, "lock") # "noop"
                /\ BuildMail(s) # "memory"
           /\ MultiNode(t) => Backend(s, "storage") # "local" /\ Backend(s, "audit_sink") # "file"
  <1> DEFINE t == ResolveTopology(s)
             r == Resolved(s)
  <1>1. CheckDeploymentConsistency(s) = {}
    BY DEF Refused
  <1>2. /\ CheckState(t, StateSources(s)) = {}
        /\ CheckStorage(t, r.storage) = {}
        /\ CheckAuditSink(t, IF s.audit_enabled THEN s.sink_uri ELSE Unset) = {}
        /\ CheckLock(t, r.lock) = {}
        /\ CheckMail(t, IF s.mail_sourced THEN Unset ELSE s.mail_uri) = {}
    BY <1>1 DEF CheckDeploymentConsistency
  <1>3. /\ BuildState(s) # Unset /\ BuildStorage(s) # Unset /\ BuildEvents(s) # Unset
        /\ BuildLock(s) # Unset /\ BuildRealtime(s) # Unset /\ BuildAuditSink(s) # Unset
    BY CapabilityNames DEF Backend
  <1> HIDE DEF t, r
  <1>4. ASSUME MultiProcess(t), NEW y \in StateSources(s), y.applies  PROVE ClassifyStateUri(y.uri) = "redis"
    BY <1>2, <1>4 DEF CheckState
  <1>5. MultiProcess(t) => Backend(s, "state") \in RedisSchemes
    <2> SUFFICES ASSUME MultiProcess(t)  PROVE BuildState(s) \in RedisSchemes
      BY DEF Backend
    <2>1. ClassifyStateUri(r.state) = "redis"
      <3>1. [label |-> "state_uri", uri |-> r.state, applies |-> TRUE] \in StateSources(s)
        BY DEF StateSources, r
      <3> QED BY <1>4, <3>1
    <2>2. r.state.scheme \in RedisSchemes
      BY <2>1 DEF ClassifyStateUri
    <2> QED BY <1>3, <2>2 DEF BuildState, r
  <1>6. MultiProcess(t) => IsDisabled(r.events) \/ ClassifyStateUri(r.events) = "redis"
    <2>1. [label |-> "events_uri", uri |-> r.events, applies |-> ~IsDisabled(r.events)] \in StateSources(s)
      BY DEF StateSources, r
    <2> QED BY <1>4, <2>1
  <1>7. MultiProcess(t) => Backend(s, "events") \in RedisSchemes \cup {"disabled"}
    <2> SUFFICES ASSUME MultiProcess(t)  PROVE BuildEvents(s) \in RedisSchemes \cup {"disabled"}
      BY DEF Backend
    <2>1. r.events.scheme \in RedisSchemes \/ Literal(r.events, {"none"})
      BY <1>6 DEF ClassifyStateUri, IsDisabled, Literal
    <2> QED BY <1>3, <2>1 DEF BuildEvents, Literal, r, RedisSchemes
  <1>8. MultiProcess(t) => IsDisabled(r.realtime) \/ ClassifyStateUri(r.realtime) = "redis"
    <2>1. CASE s.realtime_uri = Unset
      <3>1. r.realtime = r.events
        BY <2>1 DEF r, Resolved, ResolvedRealtimeUri
      <3> QED BY <3>1, <1>6
    <2>2. CASE s.realtime_uri # Unset
      <3>1. [label |-> "realtime_uri", uri |-> r.realtime, applies |-> s.realtime_uri # Unset /\ ~IsDisabled(r.realtime)]
                \in StateSources(s)
        BY DEF StateSources, r
      <3> QED BY <1>4, <2>2, <3>1
    <2> QED BY <2>1, <2>2
  <1>9. MultiProcess(t) => Backend(s, "realtime") \in RedisSchemes \cup {"disabled"}
    <2> SUFFICES ASSUME MultiProcess(t)  PROVE BuildRealtime(s) \in RedisSchemes \cup {"disabled"}
      BY DEF Backend
    <2>1. r.realtime.scheme \in RedisSchemes \/ Literal(r.realtime, {"none"})
      BY <1>8 DEF ClassifyStateUri, IsDisabled, Literal
    <2> QED BY <1>3, <2>1 DEF BuildRealtime, Literal, r, RedisSchemes
  <1>10. MultiProcess(t) => Backend(s, "lock") # "noop"
    BY <1>2, <1>3 DEF CheckLock, Backend, BuildLock, r
  <1>11. MultiProcess(t) => BuildMail(s) # "memory"
    <2>1. BuildMail(s) # Unset
      BY DEF Refused
    <2> QED BY <1>2, <2>1 DEF CheckMail, BuildMail
  <1>12. MultiNode(t) => Backend(s, "storage") # "local"
    BY <1>2, <1>3 DEF CheckStorage, Backend, BuildStorage, r
  <1>13. MultiNode(t) => Backend(s, "audit_sink") # "file"
    BY <1>2, <1>3 DEF CheckAuditSink, Backend, BuildAuditSink
  <1> QED BY <1>5, <1>7, <1>9, <1>10, <1>11, <1>12, <1>13 DEF t

(* What can be built is reported as it is built. *)
LEMMA ReportedIsBuilt ==
    ASSUME NEW s, ~Refused(s), \A c \in Capability : Backend(s, c) # Unset
    PROVE  /\ \A c \in {"state", "storage", "events", "realtime", "lock"} : Backend(s, c) = Report(s)[c]
           /\ BuildMail(s) = Report(s).mail
  <1>1. /\ BuildState(s) # Unset /\ BuildStorage(s) # Unset /\ BuildEvents(s) # Unset
        /\ BuildLock(s) # Unset /\ BuildRealtime(s) # Unset
    BY CapabilityNames DEF Backend
  <1>2. BuildMail(s) # Unset
    BY DEF Refused
  <1>3. Backend(s, "state") = Report(s)["state"]
    BY <1>1 DEF Backend, BuildState, Report, SchemeOf, Literal
  <1>4. Backend(s, "storage") = Report(s)["storage"]
    BY <1>1 DEF Backend, BuildStorage, Report, OptionalBackendOf, IsDisabled, SchemeOf, Literal
  <1>5. Backend(s, "events") = Report(s)["events"]
    BY <1>1 DEF Backend, BuildEvents, Report, OptionalBackendOf, IsDisabled, SchemeOf, Literal, RedisSchemes
  <1>6. Backend(s, "realtime") = Report(s)["realtime"]
    BY <1>1 DEF Backend, BuildRealtime, Report, OptionalBackendOf, IsDisabled, SchemeOf, Literal, RedisSchemes
  <1>7. Backend(s, "lock") = Report(s)["lock"]
    BY <1>1 DEF Backend, BuildLock, Report, SchemeOf, Literal
  <1>8. BuildMail(s) = Report(s).mail
    BY <1>2 DEF BuildMail, Report, MailBackendOf
  <1> QED BY <1>3, <1>4, <1>5, <1>6, <1>7, <1>8

(***************************************************************************)
(* The helpers of a build                                                  *)
(***************************************************************************)
(* The next capability of a build is one that is not wired yet. *)
LEMMA UpcomingFacts ==
    ASSUME Bounds, Types, NEW h \in Host, Building(h)
    PROVE  /\ Len(wired[h]) \in Nat /\ Len(wired[h]) + 1 \in 1..6 /\ Len(wired[h]) + 1 <= Len(Order)
           /\ Upcoming(h) = Order[Len(wired[h]) + 1] /\ Upcoming(h) \in Capability
           /\ \A i \in 1..Len(wired[h]) : i \in 1..6 /\ Order[i] # Upcoming(h)
  <1>1. Len(wired[h]) \in Nat
    BY LenProperties DEF Types
  <1>2. Len(wired[h]) + 1 \in 1..6
    BY <1>1, OrderFacts DEF Building
  <1>3. \A i \in 1..Len(wired[h]) : i \in 1..6 /\ i # Len(wired[h]) + 1
    BY <1>1, <1>2
  <1> QED BY <1>1, <1>2, <1>3, OrderFacts DEF Upcoming

(* The key of a capability that connects. *)
LEMMA UpcomingKeyFacts ==
    ASSUME Bounds, Types, NEW h \in Host, Building(h), BuildSound(h), Connects(h)
    PROVE  UpcomingKey(h) \in Key
  <1>1. settings[h] \in Offered /\ ~Refused(settings[h])
    BY DEF BuildSound, Live, Building
  <1>2. KeyOf(settings[h], Upcoming(h)).uri \in Server
    BY <1>1, UpcomingFacts DEF Connects, Bounds
  <1>3. PICK u : u = KeyOf(settings[h], Upcoming(h)).uri
    OBVIOUS
  <1>4. UpcomingKey(h) = [uri |-> u, decode |-> Upcoming(h) # "state"]
    BY <1>3 DEF UpcomingKey, KeyOf
  <1>5. (Upcoming(h) # "state") \in BOOLEAN
    OBVIOUS
  <1> QED BY <1>2, <1>3, <1>4, <1>5 DEF Key

(* Wiring appends to what the host has wired, and to nothing else. *)
LEMMA WireFacts ==
    ASSUME Bounds, Types, NEW h \in Host, Building(h), BuildSound(h), NEW client \in Nat, Wire(h, client)
    PROVE  /\ wired' \in [Host -> Seq(WiredBackend)]
           /\ \A g \in Host : g # h => wired'[g] = wired[g]
           /\ Len(wired'[h]) = Len(wired[h]) + 1
           /\ \A i \in 1..Len(wired[h]) : wired'[h][i] = wired[h][i]
           /\ wired'[h][Len(wired[h]) + 1].backend = Backend(settings[h], Order[Len(wired[h]) + 1])
           /\ wired'[h][Len(wired[h]) + 1].client = client
  <1>1. settings[h] \in Offered
    BY DEF BuildSound, Live, Building
  <1>2. PICK b : b = Backend(settings[h], Upcoming(h))
    OBVIOUS
  <1>3. PICK w : w = [backend |-> b, client |-> client]
    OBVIOUS
  <1>4. w \in WiredBackend /\ w.backend = b /\ w.client = client
    <2>1. b \in {Backend(x[1], x[2]) : x \in Offered \X Capability}
      <3>1. <<settings[h], Upcoming(h)>> \in Offered \X Capability
        BY <1>1, UpcomingFacts
      <3> QED BY <3>1, <1>2
    <2> QED BY <2>1, <1>3 DEF WiredBackend
  <1>5. wired' = [wired EXCEPT ![h] = Append(wired[h], w)]
    BY <1>2, <1>3 DEF Wire
  <1>6. /\ Append(wired[h], w) \in Seq(WiredBackend) /\ Len(Append(wired[h], w)) = Len(wired[h]) + 1
        /\ \A i \in 1..Len(wired[h]) : Append(wired[h], w)[i] = wired[h][i]
        /\ Append(wired[h], w)[Len(wired[h]) + 1] = w
    BY <1>4, AppendProperties DEF Types
  <1>7. /\ wired' \in [Host -> Seq(WiredBackend)] /\ wired'[h] = Append(wired[h], w)
        /\ \A g \in Host : g # h => wired'[g] = wired[g]
    BY <1>5, <1>6 DEF Types
  <1> QED BY <1>2, <1>4, <1>6, <1>7, UpcomingFacts

(* A host with something left to build has settings offered to it. *)
LEMMA TodoFacts ==
    ASSUME Types, NEW h \in Host, todo[h] # <<>>
    PROVE  Head(todo[h]) \in Offered /\ Tail(todo[h]) \in Seq(Offered)
  BY HeadTailProperties DEF Types

(***************************************************************************)
(* Types                                                                   *)
(***************************************************************************)
(* A build keeps the types. *)
LEMMA BuildTypes ==
    ASSUME Bounds, Types, NEW h \in Host, PhaseSound(h), BuildSound(h),
           StartBuild(h) \/ BuildLocal(h) \/ Acquire(h) \/ FailBuild(h) \/ FinishBuild(h) \/ RaiseFailure(h)
    PROVE  Types'
  <1>1. CASE StartBuild(h)
    <2>1. todo' \in [Host -> Seq(Offered)] /\ settings' \in [Host -> Offered \cup {Unset}]
      BY <1>1, TodoFacts DEF StartBuild, Types
    <2>2. phase' \in [Host -> Phase] /\ wired' \in [Host -> Seq(WiredBackend)]
      BY <1>1, EmptySeq DEF StartBuild, Types, Phase
    <2> QED BY <1>1, <2>1, <2>2 DEF StartBuild, Types, Pool
  <1>2. CASE BuildLocal(h)
    <2>1. wired' \in [Host -> Seq(WiredBackend)]
      <3>1. Building(h) /\ Wire(h, 0) /\ 0 \in Nat
        BY <1>2 DEF BuildLocal
      <3> QED BY <3>1, WireFacts
    <2> QED BY <1>2, <2>1 DEF BuildLocal, Types, Pool, Lifetime
  <1>3. CASE Acquire(h)
    <2>1. PICK k : k = UpcomingKey(h)
      OBVIOUS
    <2>2. k \in Key /\ Upcoming(h) \in Capability
      BY <1>3, <2>1, UpcomingKeyFacts, UpcomingFacts DEF Acquire
    <2>3. PICK c : c = Acquired(k)
      OBVIOUS
    <2>4. /\ Wire(h, c) /\ clients' = [clients EXCEPT ![k] = c] /\ references' = [references EXCEPT ![k] = @ + 1]
          /\ held' = [held EXCEPT ![h] = @ \cup {<<Upcoming(h), k>>}]
          /\ IF clients[k] # 0 THEN UNCHANGED <<made, open>> ELSE made' = made + 1 /\ open' = open \cup {made + 1}
      BY <1>3, <2>1, <2>3 DEF Acquire
    <2>5. c \in Nat
      BY <2>2, <2>3 DEF Acquired, Types
    <2>6. wired' \in [Host -> Seq(WiredBackend)]
      BY <1>3, <2>4, <2>5, WireFacts DEF Acquire
    <2>7. clients' \in [Key -> Nat] /\ references' \in [Key -> Nat]
      BY <2>2, <2>4, <2>5 DEF Types
    <2>8. held' \in [Host -> SUBSET (Capability \X Key)]
      BY <2>2, <2>4 DEF Types
    <2>9. made' \in Nat /\ made' >= made /\ open' \subseteq 1..made'
      <3>1. CASE clients[k] # 0
        <4>1. made' = made /\ open' = open
          BY <2>4, <3>1
        <4>2. made \in Nat /\ open \subseteq 1..made
          BY DEF Types
        <4> QED BY <4>1, <4>2
      <3>2. CASE clients[k] = 0
        <4>1. made' = made + 1 /\ open' = open \cup {made + 1} /\ made \in Nat
          BY <2>4, <3>2 DEF Types
        <4>2. 1..made \subseteq 1..(made + 1) /\ made + 1 \in 1..(made + 1)
          BY <4>1
        <4> QED BY <4>1, <4>2 DEF Types
      <3> QED BY <3>1, <3>2
    <2>10. closing' \in [Host -> SUBSET (1..made')]
      <3>1. 1..made \subseteq 1..made'
        BY <2>9 DEF Types
      <3> QED BY <1>3, <3>1 DEF Acquire, Types
    <2> QED BY <1>3, <2>6, <2>7, <2>8, <2>9, <2>10 DEF Acquire, Types, Lifetime
  <1>4. CASE FailBuild(h)
    BY <1>4 DEF FailBuild, GivesBack, Types, Pool, Lifetime, Phase
  <1>5. CASE FinishBuild(h) \/ RaiseFailure(h)
    BY <1>5 DEF FinishBuild, RaiseFailure, Types, Pool, Lifetime, Phase
  <1> QED BY <1>1, <1>2, <1>3, <1>4, <1>5

(***************************************************************************)
(* Counting                                                                *)
(***************************************************************************)
(* There are finitely many holders of a key. *)
LEMMA HoldersFinite ==
    ASSUME Bounds, NEW k \in Key
    PROVE  IsFiniteSet(Host \X Capability) /\ IsFiniteSet(Holders(k)) /\ Cardinality(Holders(k)) \in Nat
  <1>1. IsFiniteSet(Capability)
    <2> DEFINE f == [i \in 1..6 |-> Order[i]]
    <2>1. f \in Surjection(1..6, Capability)
      BY OrderFacts, IndexFacts DEF Surjection
    <2>2. IsFiniteSet(1..6)
      <3>1. 1 \in Int /\ 6 \in Int
        OBVIOUS
      <3> QED BY <3>1, FS_Interval, Zenon
    <2> QED BY <2>1, <2>2, FS_Surjection
  <1>2. IsFiniteSet(Host \X Capability)
    BY <1>1, FS_Product DEF Bounds
  <1>3. Holders(k) \subseteq Host \X Capability
    BY DEF Holders
  <1> QED BY <1>2, <1>3, FS_Subset, FS_CardinalityType

(* The holders of a key among what a host is giving back. *)
Returned(h, k) == {x \in {h} \X Capability : <<x[2], k>> \in taken[h]}

(* The references a host gives back for a key are its capabilities that hold it. *)
LEMMA DroppedFacts ==
    ASSUME Bounds, Types, NEW h \in Host, NEW k \in Key
    PROVE  IsFiniteSet(Returned(h, k)) /\ Cardinality(Returned(h, k)) \in Nat /\ Dropped(h, k) = Cardinality(Returned(h, k))
  <1> DEFINE mine == {x \in {h} \X Capability : <<x[2], k>> \in taken[h]}
             refs == {r \in taken[h] : r[2] = k}
             f == [x \in mine |-> <<x[2], k>>]
  <1>1. IsFiniteSet(mine)
    <2>1. mine \subseteq Host \X Capability
      OBVIOUS
    <2> HIDE DEF mine
    <2> QED BY <2>1, HoldersFinite, FS_Subset
  <1>2. \A x \in mine : x = <<h, x[2]>> /\ x[2] \in Capability /\ <<x[2], k>> \in refs
    OBVIOUS
  <1>3. \A r \in refs : r = <<r[1], k>> /\ <<h, r[1]>> \in mine
    <2> TAKE r \in refs
    <2>1. r \in Capability \X Key /\ r[2] = k
      BY DEF Types
    <2>2. r = <<r[1], k>> /\ r[1] \in Capability
      BY <2>1
    <2> QED BY <2>2
  <1>4. f \in Surjection(mine, refs)
    <2>1. f \in [mine -> refs]
      BY <1>2
    <2>2. \A r \in refs : \E x \in mine : f[x] = r
      <3> TAKE r \in refs
      <3>1. <<h, r[1]>> \in mine /\ r = <<r[1], k>>
        BY <1>3
      <3>2. f[<<h, r[1]>>] = <<r[1], k>>
        BY <3>1
      <3> QED BY <3>1, <3>2
    <2> HIDE DEF f, mine, refs
    <2> QED BY <2>1, <2>2 DEF Surjection
  <1> DEFINE g == [r \in refs |-> <<h, r[1]>>]
  <1>5. g \in Surjection(refs, mine)
    <2>1. g \in [refs -> mine]
      BY <1>3
    <2>2. \A x \in mine : \E r \in refs : g[r] = x
      <3> TAKE x \in mine
      <3>1. x = <<h, x[2]>> /\ <<x[2], k>> \in refs
        BY <1>2
      <3>2. g[<<x[2], k>>] = <<h, x[2]>>
        BY <3>1
      <3> QED BY <3>1, <3>2
    <2> HIDE DEF g, mine, refs
    <2> QED BY <2>1, <2>2 DEF Surjection
  <1>6. Cardinality(mine) \in Nat
    BY <1>1, FS_CardinalityType
  <1>7. Cardinality(refs) = Cardinality(mine)
    <2> HIDE DEF f, g, mine, refs
    <2>1. IsFiniteSet(refs) /\ Cardinality(refs) <= Cardinality(mine)
      BY <1>1, <1>4, FS_Surjection
    <2>2. Cardinality(mine) <= Cardinality(refs) /\ Cardinality(refs) \in Nat
      BY <1>5, <2>1, FS_Surjection, FS_CardinalityType
    <2> QED BY <1>6, <2>1, <2>2
  <1> QED BY <1>1, <1>6, <1>7 DEF Dropped, Returned

(* What is left of a count, and when that is nothing. *)
LEMMA RemainingFacts ==
    ASSUME Bounds, Types, NEW h \in Host, NEW k \in Key
    PROVE  Remaining(h, k) \in Nat /\ Dropped(h, k) \in Nat
  <1>1. Dropped(h, k) \in Nat /\ references[k] \in Nat
    BY DroppedFacts DEF Types
  <1> QED BY <1>1 DEF Remaining

(* What is left of a count is what the others hold, and nothing is left only if they hold nothing. *)
LEMMA GivenBack ==
    ASSUME Bounds, Types, ReferencesHeld, NEW h \in Host, NEW k \in Key
    PROVE  /\ Remaining(h, k) = Cardinality(Holders(k) \ Returned(h, k))
           /\ LastGone(h, k) => Holders(k) \subseteq Returned(h, k)
           /\ LastGone(h, k) => clients[k] # 0
           /\ ~LastGone(h, k) => (clients[k] # 0 <=> Remaining(h, k) > 0)
  <1> DEFINE all == Holders(k)
             mine == Returned(h, k)
  <1>1. mine \subseteq all
    BY DEF Holders, Returned
  <1>2. IsFiniteSet(all) /\ Cardinality(all) \in Nat
    BY HoldersFinite
  <1>3. Dropped(h, k) = Cardinality(mine) /\ Cardinality(mine) \in Nat
    BY DroppedFacts
  <1>4. references[k] = Cardinality(all) /\ (clients[k] # 0 <=> references[k] > 0)
    BY DEF ReferencesHeld
  <1> HIDE DEF all, mine
  <1>5. Cardinality(mine) <= Cardinality(all)
    BY <1>1, <1>2, FS_Subset
  <1>6. IsFiniteSet(all \ mine) /\ Cardinality(all \ mine) = Cardinality(all) - Cardinality(mine)
    <2>1. all \cap mine = mine
      BY <1>1
    <2> QED BY <1>2, <2>1, FS_Difference
  <1>7. Remaining(h, k) = Cardinality(all \ mine)
    BY <1>2, <1>3, <1>4, <1>5, <1>6 DEF Remaining
  <1>8. LastGone(h, k) => all \subseteq mine
    <2> SUFFICES ASSUME LastGone(h, k)  PROVE all \subseteq mine
      OBVIOUS
    <2>1. Cardinality(all \ mine) = 0
      BY <1>7 DEF LastGone
    <2>2. all \ mine = {}
      BY <1>6, <2>1, FS_EmptySet
    <2> QED BY <2>2
  <1>9. LastGone(h, k) => clients[k] # 0
    BY <1>4 DEF LastGone
  <1>10. ~LastGone(h, k) => (clients[k] # 0 <=> Remaining(h, k) > 0)
    <2>1. Remaining(h, k) = references[k] - Dropped(h, k)
      BY <1>3, <1>4, <1>6, <1>7
    <2>2. Dropped(h, k) \in Nat /\ references[k] \in Nat /\ Dropped(h, k) <= references[k]
      BY <1>2, <1>3, <1>4, <1>5
    <2>3. LastGone(h, k) <=> (Dropped(h, k) > 0 /\ references[k] > 0 /\ Remaining(h, k) = 0)
      BY DEF LastGone
    <2> QED BY <1>4, <2>1, <2>2, <2>3
  <1> QED BY <1>7, <1>8, <1>9, <1>10 DEF all, mine

(* Giving back and closing keep the types. *)
LEMMA CloseTypes ==
    ASSUME Bounds, Types, PoolSound, ReferencesHeld, NEW h \in Host,
           GiveBack(h) \/ CloseClient(h) \/ Close(h) \/ Closed(h) \/ Publish(h)
    PROVE  Types'
  <1>1. CASE GiveBack(h)
    <2>1. references' \in [Key -> Nat]
      BY <1>1, RemainingFacts DEF GiveBack
    <2>2. clients' \in [Key -> Nat]
      BY <1>1 DEF GiveBack, Types
    <2> DEFINE gone == {clients[k] : k \in {x \in Key : LastGone(h, x)}}
    <2>3. gone \subseteq 1..made
      <3>1. ASSUME NEW k \in Key, LastGone(h, k)  PROVE clients[k] \in 1..made
        BY <3>1 DEF LastGone, ReferencesHeld, PoolSound, Types
      <3> QED BY <3>1
    <2>4. closing' \in [Host -> SUBSET (1..made)]
      <3>1. closing' = [closing EXCEPT ![h] = gone]
        BY <1>1 DEF GiveBack
      <3> HIDE DEF gone
      <3> QED BY <2>3, <3>1 DEF Types
    <2>5. taken' \in [Host -> SUBSET (Capability \X Key)]
      BY <1>1 DEF GiveBack, Types
    <2> QED BY <1>1, <2>1, <2>2, <2>4, <2>5 DEF GiveBack, Types, Lifetime
  <1>2. CASE CloseClient(h)
    <2>1. open' \subseteq 1..made /\ closing' \in [Host -> SUBSET (1..made)]
      BY <1>2 DEF CloseClient, Types
    <2> QED BY <1>2, <2>1 DEF CloseClient, Types, Lifetime
  <1>3. CASE Close(h)
    BY <1>3 DEF Close, ClosePlatform, TakenOut, Types, Pool, Lifetime, Phase
  <1>4. CASE Closed(h)
    BY <1>4 DEF Closed, Types, Pool, Lifetime, Phase
  <1>5. CASE Publish(h)
    BY <1>5 DEF Publish, Types, Pool
  <1> QED BY <1>1, <1>2, <1>3, <1>4, <1>5

(* The steps of a shutdown. *)
LEMMA AfterStepFacts ==
    AfterStep("worker") = "platform" /\ AfterStep("platform") = "reset" /\ AfterStep("reset") = "no"
  <1>1. /\ Len(ShutdownOrder) = 3
        /\ ShutdownOrder[1] = "worker" /\ ShutdownOrder[2] = "platform" /\ ShutdownOrder[3] = "reset"
    BY DEF ShutdownOrder
  <1>2. \A j \in 1..3 : j = 1 \/ j = 2 \/ j = 3
    OBVIOUS
  <1>3. (CHOOSE j \in 1..Len(ShutdownOrder) : ShutdownOrder[j] = "worker") = 1
    BY <1>1, <1>2
  <1>4. (CHOOSE j \in 1..Len(ShutdownOrder) : ShutdownOrder[j] = "platform") = 2
    BY <1>1, <1>2
  <1>5. (CHOOSE j \in 1..Len(ShutdownOrder) : ShutdownOrder[j] = "reset") = 3
    BY <1>1, <1>2
  <1>6. AfterStep("worker") = "platform"
    BY <1>1, <1>3 DEF AfterStep
  <1>7. AfterStep("platform") = "reset"
    BY <1>1, <1>4 DEF AfterStep
  <1>8. AfterStep("reset") = "no"
    BY <1>1, <1>5 DEF AfterStep
  <1> QED BY <1>6, <1>7, <1>8

(* A shutdown keeps the types. *)
LEMMA ShutdownTypes ==
    ASSUME Bounds, Types, BeginShutdown \/ StopJobWorker \/ ShutdownClose \/ ShutdownClosed \/ Reset
    PROVE  Types'
  <1>1. CASE BeginShutdown
    BY <1>1 DEF BeginShutdown, ShutdownOrder, Types, Pool
  <1>2. CASE StopJobWorker \/ ShutdownClosed \/ Reset
    BY <1>2, AfterStepFacts DEF StopJobWorker, ShutdownClosed, Reset, Types, Pool
  <1>3. CASE ShutdownClose /\ active = Unset
    BY <1>3, AfterStepFacts DEF ShutdownClose, Types, Pool
  <1>4. CASE ShutdownClose /\ active # Unset
    <2>1. active \in Host /\ stopping' = "closing" /\ ClosePlatform(active) /\ active' = active /\ published' = published
      BY <1>4 DEF ShutdownClose, Types
    <2> QED BY <2>1 DEF ClosePlatform, TakenOut, Types, Pool, Phase
  <1> QED BY <1>1, <1>2, <1>3, <1>4

(***************************************************************************)
(* What a step does to builds, references and clients                      *)
(***************************************************************************)
(* A step of a host's own platform. *)
Turn(h) ==
    \/ StartBuild(h) \/ BuildLocal(h) \/ Acquire(h) \/ FailBuild(h) \/ FinishBuild(h) \/ RaiseFailure(h)
    \/ GiveBack(h) \/ CloseClient(h) \/ ClosePlatform(h) \/ Closed(h)

(* A step that leaves platforms and clients as they are. *)
Still == UNCHANGED <<settings, phase, wired, held, taken, Pool>>

(* Every step is one or the other. *)
LEMMA StepKinds ==
    ASSUME Types, Next
    PROVE  (\E h \in Host : Turn(h)) \/ Still
  <1>1. ASSUME NEW h \in Host,
               StartBuild(h) \/ BuildLocal(h) \/ Acquire(h) \/ FailBuild(h) \/ FinishBuild(h) \/ RaiseFailure(h)
                   \/ GiveBack(h) \/ CloseClient(h) \/ Close(h) \/ Closed(h)
        PROVE  Turn(h)
    BY <1>1 DEF Turn, Close
  <1>2. ASSUME NEW h \in Host, Publish(h)  PROVE Still
    BY <1>2 DEF Publish, Still
  <1>3. CASE BeginShutdown \/ StopJobWorker \/ ShutdownClosed \/ Reset
    BY <1>3 DEF BeginShutdown, StopJobWorker, ShutdownClosed, Reset, Still
  <1>4. CASE ShutdownClose /\ active = Unset
    BY <1>4 DEF ShutdownClose, Still
  <1>5. CASE ShutdownClose /\ active # Unset
    BY <1>5 DEF ShutdownClose, Turn, Types
  <1> QED BY <1>1, <1>2, <1>3, <1>4, <1>5 DEF Next

(* A host's step leaves the platforms of the others as they are. *)
LEMMA OtherHostsKept ==
    ASSUME Types, NEW h \in Host, Turn(h), NEW g \in Host, g # h
    PROVE  /\ settings'[g] = settings[g] /\ phase'[g] = phase[g] /\ wired'[g] = wired[g]
           /\ held'[g] = held[g] /\ taken'[g] = taken[g] /\ closing'[g] = closing[g]
  <1>1. CASE StartBuild(h) \/ FailBuild(h) \/ FinishBuild(h) \/ RaiseFailure(h)
    BY <1>1 DEF StartBuild, FailBuild, FinishBuild, RaiseFailure, Pool, Types
  <1>2. CASE BuildLocal(h)
    BY <1>2 DEF BuildLocal, Wire, Pool, Types
  <1>3. CASE Acquire(h)
    BY <1>3 DEF Acquire, Wire, Types
  <1>4. CASE GiveBack(h) \/ CloseClient(h)
    BY <1>4 DEF GiveBack, CloseClient, Types
  <1>5. CASE ClosePlatform(h) \/ Closed(h)
    BY <1>5 DEF ClosePlatform, Closed, Pool, Types
  <1> QED BY <1>1, <1>2, <1>3, <1>4, <1>5 DEF Turn

(* References are held, given back and closed each in its own phase. *)
LEMMA PhasesKept ==
    ASSUME Types, NEW h \in Host, Turn(h), NEW g \in Host, PhaseSound(g)
    PROVE  PhaseSound(g)'
  <1>1. CASE g # h
    BY <1>1, OtherHostsKept DEF PhaseSound, Live
  <1>2. CASE g = h
    <2>1. CASE StartBuild(h)
      BY <1>2, <2>1 DEF StartBuild, PhaseSound, Live, Pool, Types
    <2>2. CASE BuildLocal(h)
      BY <1>2, <2>2 DEF BuildLocal, PhaseSound, Live, Pool
    <2>3. CASE Acquire(h)
      BY <1>2, <2>3 DEF Acquire, Building, PhaseSound, Live, Types
    <2>4. CASE FailBuild(h)
      BY <1>2, <2>4 DEF FailBuild, Building, PhaseSound, Live, Pool, Types
    <2>5. CASE FinishBuild(h)
      BY <1>2, <2>5 DEF FinishBuild, PhaseSound, Live, Pool, Types
    <2>6. CASE RaiseFailure(h)
      BY <1>2, <2>6 DEF RaiseFailure, Released, PhaseSound, Live, Pool, Types
    <2>7. CASE GiveBack(h)
      BY <1>2, <2>7 DEF GiveBack, PhaseSound, Live, Types
    <2>8. CASE CloseClient(h)
      BY <1>2, <2>8 DEF CloseClient, PhaseSound, Live, Types
    <2>9. CASE ClosePlatform(h)
      BY <1>2, <2>9 DEF ClosePlatform, TakenOut, Released, PhaseSound, Live, Pool, Types
    <2>10. CASE Closed(h)
      BY <1>2, <2>10 DEF Closed, Released, PhaseSound, Live, Pool, Types
    <2> QED BY <2>1, <2>2, <2>3, <2>4, <2>5, <2>6, <2>7, <2>8, <2>9, <2>10 DEF Turn
  <1> QED BY <1>1, <1>2

(* A platform's backends are those of its accepted settings. *)
LEMMA BuildsKept ==
    ASSUME Bounds, Types, Types', NEW h \in Host, Turn(h), NEW g \in Host, BuildSound(g)
    PROVE  BuildSound(g)'
  <1>1. CASE g # h
    BY <1>1, OtherHostsKept DEF BuildSound, Live
  <1>2. CASE g = h
    <2>1. CASE StartBuild(h)
      <3>1. /\ settings'[h] = Head(todo[h]) /\ wired'[h] = <<>>
            /\ phase'[h] = (IF Refused(Head(todo[h])) THEN "refused" ELSE "building")
        BY <2>1 DEF StartBuild, Types
      <3>2. Head(todo[h]) \in Offered /\ Len(wired'[h]) = 0 /\ 0 <= Len(Order)
        BY <2>1, <3>1, TodoFacts, OrderFacts, EmptySeq DEF StartBuild
      <3>3. \A i \in 1..Len(wired'[h]) : FALSE
        BY <3>2
      <3>4. phase'[h] = "building" => ~Refused(Head(todo[h]))
        BY <3>1
      <3>5. phase'[h] # "built"
        BY <3>1
      <3> QED BY <1>2, <3>1, <3>2, <3>3, <3>4, <3>5 DEF BuildSound, Live
    <2>2. ASSUME NEW client \in Nat, Building(h), Wire(h, client), Backend(settings[h], Upcoming(h)) # Unset,
                 UNCHANGED <<settings, phase>>
          PROVE  BuildSound(h)'
      <3> DEFINE n == Len(wired[h])
      <3>1. /\ n \in Nat /\ Len(wired'[h]) = n + 1 /\ n + 1 <= Len(Order) /\ phase[h] = "building"
            /\ \A i \in 1..n : wired'[h][i] = wired[h][i]
            /\ wired'[h][n + 1].backend = Backend(settings[h], Order[n + 1])
            /\ Backend(settings[h], Order[n + 1]) # Unset
        BY <1>2, <2>2, UpcomingFacts, WireFacts DEF Building
      <3>2. /\ settings[h] \in Offered /\ ~Refused(settings[h])
            /\ \A i \in 1..n : wired[h][i].backend = Backend(settings[h], Order[i]) /\ wired[h][i].backend # Unset
        BY <1>2, <3>1 DEF BuildSound, Live
      <3> HIDE DEF n
      <3>3. \A i \in 1..(n + 1) : i \in 1..n \/ i = n + 1
        BY <3>1
      <3>4. \A i \in 1..(n + 1) : wired'[h][i].backend = Backend(settings[h], Order[i]) /\ wired'[h][i].backend # Unset
        BY <3>1, <3>2, <3>3
      <3>5. settings' = settings /\ phase' = phase
        BY <2>2
      <3> QED BY <3>1, <3>2, <3>4, <3>5 DEF BuildSound, Live
    <2>3. CASE BuildLocal(h)
      <3>1. /\ Building(h) /\ Wire(h, 0) /\ Backend(settings[h], Upcoming(h)) # Unset
            /\ settings' = settings /\ phase' = phase /\ 0 \in Nat
        BY <2>3 DEF BuildLocal
      <3> QED BY <1>2, <2>2, <3>1
    <2>4. CASE Acquire(h)
      <3>1. PICK c : c = Acquired(UpcomingKey(h))
        OBVIOUS
      <3>2. /\ Building(h) /\ Wire(h, c) /\ Connects(h) /\ settings' = settings /\ phase' = phase
        BY <2>4, <3>1 DEF Acquire
      <3>3. c \in Nat
        <4>1. UpcomingKey(h) \in Key
          BY <1>2, <3>2, UpcomingKeyFacts
        <4> QED BY <3>1, <4>1 DEF Acquired, Types
      <3>4. Backend(settings[h], Upcoming(h)) # Unset
        BY <3>2 DEF Connects, Bounds
      <3> QED BY <1>2, <2>2, <3>2, <3>3, <3>4
    <2>5. CASE FailBuild(h) \/ RaiseFailure(h) \/ ClosePlatform(h) \/ Closed(h)
      BY <1>2, <2>5 DEF FailBuild, RaiseFailure, ClosePlatform, Closed, BuildSound, Live, Types
    <2>6. CASE FinishBuild(h)
      BY <1>2, <2>6 DEF FinishBuild, BuildSound, Live, Types
    <2>7. CASE GiveBack(h) \/ CloseClient(h)
      BY <1>2, <2>7 DEF GiveBack, CloseClient, BuildSound, Live
    <2> QED BY <2>1, <2>3, <2>4, <2>5, <2>6, <2>7 DEF Turn
  <1> QED BY <1>1, <1>2

(* A client stays a key's for as long as somebody else holds the key. *)
LEMMA HeldClientsKept ==
    ASSUME Bounds, Types, ReferencesHeld, NEW h \in Host, Turn(h), BuildSound(h), NEW k \in Key, clients[k] # 0,
           NEW x \in Holders(k), x \notin Returned(h, k)
    PROVE  clients'[k] = clients[k]
  <1>1. CASE Acquire(h)
    <2>1. UpcomingKey(h) \in Key
      BY <1>1, UpcomingKeyFacts DEF Acquire
    <2>2. clients' = [clients EXCEPT ![UpcomingKey(h)] = Acquired(UpcomingKey(h))]
      BY <1>1 DEF Acquire
    <2> QED BY <2>1, <2>2 DEF Acquired, Types
  <1>2. CASE GiveBack(h)
    <2>1. ~LastGone(h, k)
      BY GivenBack
    <2>2. clients'[k] = (IF LastGone(h, k) THEN 0 ELSE clients[k])
      BY <1>2 DEF GiveBack
    <2> QED BY <2>1, <2>2
  <1>3. CASE StartBuild(h) \/ BuildLocal(h) \/ FailBuild(h) \/ FinishBuild(h) \/ RaiseFailure(h)
    BY <1>3 DEF StartBuild, BuildLocal, FailBuild, FinishBuild, RaiseFailure, Pool
  <1>4. CASE CloseClient(h) \/ ClosePlatform(h) \/ Closed(h)
    BY <1>4 DEF CloseClient, ClosePlatform, Closed, Pool
  <1> QED BY <1>1, <1>2, <1>3, <1>4 DEF Turn

(* A reference belongs to a capability that is wired, and a wired client to a reference. *)
LEMMA WiringsKept ==
    ASSUME Bounds, Types, ReferencesHeld, NEW h \in Host, Turn(h), NEW g \in Host,
           PhaseSound(h), BuildSound(h), BuildSound(g), WiringSound(g)
    PROVE  WiringSound(g)'
  <1>1. CASE g # h
    <2> SUFFICES ASSUME Live(g)'  PROVE WiringSound(g)'
      BY DEF WiringSound
    <2>1. /\ Live(g) /\ wired'[g] = wired[g] /\ held'[g] = held[g]
      BY <1>1, OtherHostsKept DEF Live
    <2>2. \A r \in held'[g] : \E i \in 1..Len(wired'[g]) : r[1] = Order[i]
      BY <2>1 DEF WiringSound
    <2>3. ASSUME NEW i \in 1..Len(wired[g]), wired[g][i].client # 0
          PROVE  \E k \in Key : <<Order[i], k>> \in held[g] /\ clients'[k] = wired[g][i].client
      <3>1. PICK k \in Key : <<Order[i], k>> \in held[g] /\ clients[k] = wired[g][i].client
        BY <2>1, <2>3 DEF WiringSound
      <3>2. Order[i] \in Capability
        BY <3>1 DEF Types
      <3>3. <<g, Order[i]>> \in Holders(k) /\ <<g, Order[i]>> \notin Returned(h, k)
        BY <1>1, <3>1, <3>2 DEF Holders, Returned
      <3>4. clients[k] # 0
        BY <2>3, <3>1
      <3>5. clients'[k] = clients[k]
        BY <3>3, <3>4, HeldClientsKept
      <3> QED BY <3>1, <3>5
    <2>4. \A i \in 1..Len(wired[g]) :
              wired[g][i].client # 0 => \E k \in Key : <<Order[i], k>> \in held[g] /\ clients'[k] = wired[g][i].client
      BY <2>3
    <2>5. \A i \in 1..Len(wired'[g]) :
              wired'[g][i].client # 0 =>
                  \E k \in Key : <<Order[i], k>> \in held'[g] /\ clients'[k] = wired'[g][i].client
      BY <2>1, <2>4, Zenon
    <2> QED BY <2>2, <2>5, Zenon DEF WiringSound
  <1>2. CASE g = h
    <2>1. CASE StartBuild(h)
      <3>1. wired'[h] = <<>> /\ held'[h] = held[h] /\ held[h] = {}
        BY <2>1 DEF StartBuild, PhaseSound, Live, Types
      <3>2. \A i \in 1..Len(wired'[h]) : FALSE
        BY <3>1, EmptySeq
      <3> QED BY <1>2, <3>1, <3>2 DEF WiringSound
    <2>2. CASE BuildLocal(h)
      <3> DEFINE n == Len(wired[h])
      <3>1. /\ Building(h) /\ Wire(h, 0) /\ held' = held /\ clients' = clients /\ phase' = phase /\ 0 \in Nat
        BY <2>2 DEF BuildLocal, Pool
      <3>2. /\ n \in Nat /\ Len(wired'[h]) = n + 1 /\ Live(h)
            /\ \A i \in 1..n : wired'[h][i] = wired[h][i]
            /\ wired'[h][n + 1].client = 0
        BY <1>2, <3>1, UpcomingFacts, WireFacts DEF Building, Live
      <3>3. /\ \A r \in held[h] : \E i \in 1..n : r[1] = Order[i]
            /\ \A i \in 1..n : wired[h][i].client # 0 =>
                   \E k \in Key : <<Order[i], k>> \in held[h] /\ clients[k] = wired[h][i].client
        BY <1>2, <3>2 DEF WiringSound
      <3> HIDE DEF n
      <3>4. /\ \A i \in 1..n : i \in 1..(n + 1)
            /\ \A i \in 1..(n + 1) : i \in 1..n \/ i = n + 1
        BY <3>2
      <3>5. \A r \in held'[h] : \E i \in 1..(n + 1) : r[1] = Order[i]
        BY <3>1, <3>3, <3>4
      <3>6. \A i \in 1..(n + 1) : wired'[h][i].client # 0 =>
                \E k \in Key : <<Order[i], k>> \in held'[h] /\ clients'[k] = wired'[h][i].client
        BY <3>1, <3>2, <3>3, <3>4
      <3> QED BY <1>2, <3>2, <3>5, <3>6 DEF WiringSound
    <2>3. CASE Acquire(h)
      <3> DEFINE n == Len(wired[h])
      <3>1. PICK key : key = UpcomingKey(h)
        OBVIOUS
      <3>2. PICK c : c = Acquired(key)
        OBVIOUS
      <3>3. /\ Building(h) /\ Connects(h) /\ Wire(h, c) /\ phase' = phase
            /\ clients' = [clients EXCEPT ![key] = c]
            /\ held' = [held EXCEPT ![h] = @ \cup {<<Upcoming(h), key>>}]
        BY <2>3, <3>1, <3>2 DEF Acquire
      <3>4. key \in Key
        BY <1>2, <3>1, <3>3, UpcomingKeyFacts
      <3>5. c \in Nat /\ (clients[key] # 0 => c = clients[key])
        BY <3>2, <3>4 DEF Acquired, Types
      <3>6. /\ n \in Nat /\ Len(wired'[h]) = n + 1 /\ Live(h) /\ Upcoming(h) = Order[n + 1]
            /\ \A i \in 1..n : wired'[h][i] = wired[h][i]
            /\ wired'[h][n + 1].client = c
        BY <1>2, <3>3, <3>5, UpcomingFacts, WireFacts DEF Building, Live
      <3>7. /\ held'[h] = held[h] \cup {<<Order[n + 1], key>>} /\ clients'[key] = c
            /\ \A k \in Key : clients[k] # 0 => clients'[k] = clients[k]
        BY <3>3, <3>4, <3>5, <3>6 DEF Types
      <3>8. /\ \A r \in held[h] : \E i \in 1..n : r[1] = Order[i]
            /\ \A i \in 1..n : wired[h][i].client # 0 =>
                   \E k \in Key : <<Order[i], k>> \in held[h] /\ clients[k] = wired[h][i].client
        BY <1>2, <3>6 DEF WiringSound
      <3> HIDE DEF n
      <3>9. /\ \A i \in 1..n : i \in 1..(n + 1)
            /\ \A i \in 1..(n + 1) : i \in 1..n \/ i = n + 1
            /\ n + 1 \in 1..(n + 1)
        BY <3>6
      <3>10. \A r \in held'[h] : \E i \in 1..(n + 1) : r[1] = Order[i]
        <4>1. <<Order[n + 1], key>>[1] = Order[n + 1]
          OBVIOUS
        <4> QED BY <4>1, <3>7, <3>8, <3>9
      <3>11. ASSUME NEW i \in 1..(n + 1), wired'[h][i].client # 0
             PROVE  \E k \in Key : <<Order[i], k>> \in held'[h] /\ clients'[k] = wired'[h][i].client
        <4>1. CASE i = n + 1
          BY <3>4, <3>6, <3>7, <4>1
        <4>2. CASE i \in 1..n
          <5>1. wired[h][i].client # 0
            BY <3>6, <3>11, <4>2
          <5>2. PICK k \in Key : <<Order[i], k>> \in held[h] /\ clients[k] = wired[h][i].client
            BY <3>8, <4>2, <5>1
          <5> QED BY <3>6, <3>7, <4>2, <5>1, <5>2
        <4> QED BY <3>9, <4>1, <4>2
      <3> QED BY <1>2, <3>6, <3>10, <3>11 DEF WiringSound
    <2>4. CASE FailBuild(h) \/ RaiseFailure(h) \/ ClosePlatform(h) \/ Closed(h)
      BY <1>2, <2>4 DEF FailBuild, RaiseFailure, ClosePlatform, Closed, WiringSound, Live, Types
    <2>5. CASE FinishBuild(h)
      BY <1>2, <2>5 DEF FinishBuild, WiringSound, Live, Pool, Types
    <2>6. CASE GiveBack(h)
      BY <1>2, <2>6 DEF GiveBack, PhaseSound, WiringSound, Live
    <2>7. CASE CloseClient(h)
      BY <1>2, <2>7 DEF CloseClient, WiringSound, Live
    <2> QED BY <2>1, <2>2, <2>3, <2>4, <2>5, <2>6, <2>7 DEF Turn
  <1> QED BY <1>1, <1>2

(* The client of a key stays open, its own, and nobody's to close. *)
LEMMA PoolKept ==
    ASSUME Bounds, Types, ReferencesHeld, NEW h \in Host, Turn(h), BuildSound(h), PoolSound
    PROVE  PoolSound'
  <1>1. CASE Acquire(h)
    <2>1. PICK key : key = UpcomingKey(h)
      OBVIOUS
    <2>2. key \in Key
      BY <1>1, <2>1, UpcomingKeyFacts DEF Acquire
    <2>3. /\ clients' = [clients EXCEPT ![key] = Acquired(key)] /\ closing' = closing
          /\ IF clients[key] # 0 THEN UNCHANGED <<made, open>> ELSE made' = made + 1 /\ open' = open \cup {made + 1}
      BY <1>1, <2>1 DEF Acquire
    <2>4. CASE clients[key] # 0
      <3>1. clients' = clients /\ open' = open
        BY <2>2, <2>3, <2>4 DEF Acquired, Types
      <3> QED BY <2>3, <3>1 DEF PoolSound
    <2>5. CASE clients[key] = 0
      <3>1. PICK new : new = made + 1
        OBVIOUS
      <3>2. clients' = [clients EXCEPT ![key] = new] /\ open' = open \cup {new}
        BY <2>3, <2>5, <3>1 DEF Acquired
      <3>3. new \notin open /\ \A g \in Host : new \notin closing[g]
        <4>1. new \notin 1..made
          BY <3>1 DEF Types
        <4> QED BY <4>1 DEF Types
      <3>4. /\ clients'[key] = new /\ \A j \in Key : j # key => clients'[j] = clients[j]
        BY <2>2, <3>2 DEF Types
      <3>5. \A j \in Key : clients[j] # 0 => clients[j] # new
        BY <3>3 DEF PoolSound
      <3>6. new # 0
        BY <3>1 DEF Types
      <3>7. \A j \in Key : j # key => clients'[j] # new
        BY <3>4, <3>5, <3>6
      <3> QED BY <2>3, <3>2, <3>3, <3>4, <3>7 DEF PoolSound
    <2> QED BY <2>4, <2>5
  <1>2. CASE GiveBack(h)
    <2>1. ASSUME NEW k \in Key, clients'[k] # 0  PROVE clients'[k] = clients[k] /\ ~LastGone(h, k)
      BY <1>2, <2>1 DEF GiveBack
    <2>2. open' = open /\ closing' = [closing EXCEPT ![h] = {clients[k] : k \in {x \in Key : LastGone(h, x)}}]
      BY <1>2 DEF GiveBack
    <2>3. ASSUME NEW k \in Key, clients'[k] # 0
          PROVE  /\ clients'[k] \in open' /\ \A j \in Key : clients'[j] = clients'[k] => j = k
                 /\ \A g \in Host : clients'[k] \notin closing'[g]
      <3>1. clients'[k] = clients[k] /\ ~LastGone(h, k) /\ clients[k] # 0
        BY <2>1, <2>3
      <3>2. clients[k] \in open /\ \A j \in Key : clients[j] = clients[k] => j = k
        BY <3>1 DEF PoolSound
      <3>3. \A j \in Key : clients'[j] = clients'[k] => j = k
        BY <2>1, <2>3, <3>1, <3>2
      <3>4. clients[k] \notin {clients[x] : x \in {y \in Key : LastGone(h, y)}}
        BY <3>1, <3>2
      <3>5. \A g \in Host : clients[k] \notin closing'[g]
        BY <2>2, <3>1, <3>4 DEF PoolSound, Types
      <3> QED BY <2>2, <3>1, <3>2, <3>3, <3>5
    <2> QED BY <2>3 DEF PoolSound
  <1>3. CASE CloseClient(h)
    BY <1>3 DEF CloseClient, PoolSound, Types
  <1>4. CASE StartBuild(h) \/ BuildLocal(h) \/ FailBuild(h) \/ FinishBuild(h) \/ RaiseFailure(h) \/ ClosePlatform(h) \/ Closed(h)
    BY <1>4 DEF StartBuild, BuildLocal, FailBuild, FinishBuild, RaiseFailure, ClosePlatform, Closed, Pool, PoolSound
  <1> QED BY <1>1, <1>2, <1>3, <1>4 DEF Turn

(* A step that moves no reference leaves the holders of a key as they are. *)
LEMMA HoldersUnmoved ==
    ASSUME NEW k \in Key, \A g \in Host : held'[g] \cup taken'[g] = held[g] \cup taken[g]
    PROVE  Holders(k)' = Holders(k)
  <1>1. \A x \in Host \X Capability : x[1] \in Host
    OBVIOUS
  <1> QED BY <1>1 DEF Holders

(* Starting, failing and closing a platform move no reference out of its host. *)
LEMMA ReferencesUnmoved ==
    ASSUME Types, NEW h \in Host, PhaseSound(h),
           Turn(h), ~Acquire(h), ~GiveBack(h)
    PROVE  \A g \in Host : held'[g] \cup taken'[g] = held[g] \cup taken[g]
  <1>1. \A g \in Host : g # h => held'[g] \cup taken'[g] = held[g] \cup taken[g]
    BY OtherHostsKept
  <1>2. held'[h] \cup taken'[h] = held[h] \cup taken[h]
    <2>1. CASE FailBuild(h)
      BY <2>1 DEF FailBuild, GivesBack, Building, PhaseSound, Types
    <2>2. CASE ClosePlatform(h)
      BY <2>2 DEF ClosePlatform, TakenOut, Released, Types
    <2>3. CASE StartBuild(h) \/ BuildLocal(h) \/ FinishBuild(h) \/ RaiseFailure(h) \/ CloseClient(h) \/ Closed(h)
      BY <2>3 DEF StartBuild, BuildLocal, FinishBuild, RaiseFailure, CloseClient, Closed
    <2> QED BY <2>1, <2>2, <2>3 DEF Turn
  <1> QED BY <1>1, <1>2

(* Acquiring adds one holder of one key. *)
LEMMA AcquireAddsOne ==
    ASSUME Bounds, Types, NEW h \in Host, PhaseSound(h), BuildSound(h), WiringSound(h), Acquire(h)
    PROVE  /\ UpcomingKey(h) \in Key
           /\ \E c \in Capability : \A k \in Key :
                  /\ k = UpcomingKey(h) => <<h, c>> \notin Holders(k) /\ Holders(k)' = Holders(k) \cup {<<h, c>>}
                  /\ k # UpcomingKey(h) => Holders(k)' = Holders(k)
  <1>1. PICK key : key = UpcomingKey(h)
    OBVIOUS
  <1>2. PICK c : c = Upcoming(h)
    OBVIOUS
  <1>3. Building(h) /\ key \in Key /\ c \in Capability
    BY <1>1, <1>2, UpcomingKeyFacts, UpcomingFacts DEF Acquire
  <1>4. held' = [held EXCEPT ![h] = @ \cup {<<c, key>>}] /\ taken' = taken
    BY <1>1, <1>2 DEF Acquire
  <1>5. <<h, c>> \notin Holders(key)
    <2>1. taken[h] = {} /\ Live(h)
      BY <1>3 DEF Building, PhaseSound, Live
    <2>2. \A r \in held[h] : r[1] # c
      BY <1>2, <1>3, <2>1, UpcomingFacts DEF WiringSound
    <2>3. <<c, key>> \notin held[h]
      <3>1. <<c, key>>[1] = c
        OBVIOUS
      <3> QED BY <2>2, <3>1
    <2> QED BY <2>1, <2>3 DEF Holders
  <1>6. \A k \in Key, x \in Host \X Capability :
            <<x[2], k>> \in held'[x[1]] \cup taken'[x[1]] <=>
                (<<x[2], k>> \in held[x[1]] \cup taken[x[1]] \/ (k = key /\ x = <<h, c>>))
    <2> TAKE k \in Key, x \in Host \X Capability
    <2>1. PICK g \in Host, d \in Capability : x = <<g, d>>
      OBVIOUS
    <2>2. x[1] = g /\ x[2] = d
      BY <2>1
    <2>3. held'[g] = (IF g = h THEN held[h] \cup {<<c, key>>} ELSE held[g])
      BY <1>4 DEF Types
    <2> QED BY <1>4, <2>1, <2>2, <2>3
  <1>7. <<h, c>> \in Host \X Capability
    BY <1>3
  <1>8. ASSUME NEW k \in Key  PROVE Holders(k)' = Holders(k) \cup {x \in Host \X Capability : k = key /\ x = <<h, c>>}
    BY <1>6 DEF Holders
  <1>9. {x \in Host \X Capability : key = key /\ x = <<h, c>>} = {<<h, c>>}
    BY <1>7
  <1>10. Holders(key)' = Holders(key) \cup {<<h, c>>}
    BY <1>3, <1>8, <1>9
  <1>11. \A k \in Key : k # key => Holders(k)' = Holders(k)
    BY <1>8
  <1> QED BY <1>1, <1>3, <1>5, <1>10, <1>11

(* Giving back takes out the holders that gave back. *)
LEMMA GiveBackTakesMine ==
    ASSUME Types, NEW h \in Host, PhaseSound(h), GiveBack(h), NEW k \in Key
    PROVE  Holders(k)' = Holders(k) \ Returned(h, k)
  <1>1. held[h] = {} /\ held' = held /\ taken' = [taken EXCEPT ![h] = {}]
    BY DEF GiveBack, PhaseSound, Live
  <1>2. ASSUME NEW x \in Host \X Capability
        PROVE  <<x[2], k>> \in held'[x[1]] \cup taken'[x[1]] <=>
                   (<<x[2], k>> \in held[x[1]] \cup taken[x[1]] /\ x \notin Returned(h, k))
    <2>1. PICK g \in Host, d \in Capability : x = <<g, d>>
      OBVIOUS
    <2>2. x[1] = g /\ x[2] = d
      BY <2>1
    <2>3. taken'[g] = (IF g = h THEN {} ELSE taken[g])
      BY <1>1 DEF Types
    <2>4. x \in Returned(h, k) <=> (g = h /\ <<d, k>> \in taken[h])
      BY <2>1, <2>2 DEF Returned
    <2> QED BY <1>1, <2>2, <2>3, <2>4
  <1> QED BY <1>2 DEF Holders

(* The counts are the references, and a key has a client exactly while it is counted. *)
LEMMA ReferencesKept ==
    ASSUME Bounds, Types, Types', NEW h \in Host, PhaseSound(h), BuildSound(h), WiringSound(h),
           ReferencesHeld, Turn(h)
    PROVE  ReferencesHeld'
  <1>1. CASE Acquire(h)
    <2>1. PICK key \in Key : key = UpcomingKey(h)
      BY <1>1, AcquireAddsOne
    <2>2. PICK c \in Capability : \A k \in Key :
              /\ k = key => <<h, c>> \notin Holders(k) /\ Holders(k)' = Holders(k) \cup {<<h, c>>}
              /\ k # key => Holders(k)' = Holders(k)
      BY <1>1, <2>1, AcquireAddsOne
    <2>3. references' = [references EXCEPT ![key] = @ + 1] /\ clients' = [clients EXCEPT ![key] = Acquired(key)]
      BY <1>1, <2>1 DEF Acquire
    <2>4. ASSUME NEW k \in Key  PROVE references'[k] = Cardinality(Holders(k)')
      <3>1. references[k] = Cardinality(Holders(k)) /\ references[k] \in Nat
        BY DEF ReferencesHeld, Types
      <3>2. CASE k = key
        <4>1. Cardinality(Holders(k)') = Cardinality(Holders(k)) + 1
          BY <2>2, <3>2, HoldersFinite, FS_AddElement
        <4> QED BY <2>3, <3>1, <3>2, <4>1 DEF Types
      <3>3. CASE k # key
        BY <2>2, <2>3, <3>1, <3>3 DEF Types
      <3> QED BY <3>2, <3>3
    <2>5. ASSUME NEW k \in Key  PROVE clients'[k] # 0 <=> references'[k] > 0
      <3>1. (clients[k] # 0 <=> references[k] > 0) /\ references[k] \in Nat /\ made \in Nat
        BY DEF ReferencesHeld, Types
      <3>2. CASE k = key
        <4>1. references'[k] = references[k] + 1 /\ clients'[k] = Acquired(k)
          BY <2>3, <3>2 DEF Types
        <4>2. Acquired(k) # 0
          BY <3>1 DEF Acquired
        <4> QED BY <3>1, <4>1, <4>2
      <3>3. CASE k # key
        BY <2>3, <3>1, <3>3 DEF Types
      <3> QED BY <3>2, <3>3
    <2> QED BY <2>4, <2>5 DEF ReferencesHeld
  <1>2. CASE GiveBack(h)
    <2>1. ASSUME NEW k \in Key
          PROVE  references'[k] = Cardinality(Holders(k)') /\ (clients'[k] # 0 <=> references'[k] > 0)
      <3>1. /\ references'[k] = Remaining(h, k)
            /\ clients'[k] = (IF LastGone(h, k) THEN 0 ELSE clients[k])
        BY <1>2 DEF GiveBack
      <3>2. references'[k] = Cardinality(Holders(k)')
        BY <1>2, <3>1, GivenBack, GiveBackTakesMine
      <3>3. CASE LastGone(h, k)
        <4>1. Remaining(h, k) = 0
          BY <3>3 DEF LastGone
        <4>2. references'[k] = 0 /\ clients'[k] = 0
          BY <3>1, <3>3, <4>1
        <4>3. clients'[k] # 0 <=> references'[k] > 0
          BY <4>2
        <4> QED BY <3>2, <4>3
      <3>4. CASE ~LastGone(h, k)
        BY <3>1, <3>2, <3>4, GivenBack
      <3> QED BY <3>3, <3>4
    <2> QED BY <2>1 DEF ReferencesHeld
  <1>3. CASE ~Acquire(h) /\ ~GiveBack(h)
    <2>1. \A k \in Key : Holders(k)' = Holders(k)
      BY <1>3, ReferencesUnmoved, HoldersUnmoved
    <2>2. clients' = clients /\ references' = references
      BY <1>3 DEF Turn, StartBuild, BuildLocal, FailBuild, FinishBuild, RaiseFailure, CloseClient, ClosePlatform, Closed, Pool
    <2> QED BY <2>1, <2>2 DEF ReferencesHeld
  <1> QED BY <1>1, <1>2, <1>3

(* A client that is open has somebody to close it. *)
LEMMA NobodyStrands ==
    ASSUME Bounds, Types, NEW h \in Host, PhaseSound(h), BuildSound(h), WiringSound(h),
           ReferencesHeld, ReferencesHeld', NoClientStranded, Turn(h)
    PROVE  NoClientStranded'
  <1>1. CASE Acquire(h)
    <2>1. PICK key \in Key : key = UpcomingKey(h)
      BY <1>1, AcquireAddsOne
    <2>2. PICK d \in Capability : \A k \in Key :
              /\ k = key => <<h, d>> \notin Holders(k) /\ Holders(k)' = Holders(k) \cup {<<h, d>>}
              /\ k # key => Holders(k)' = Holders(k)
      BY <1>1, <2>1, AcquireAddsOne
    <2>3. /\ clients' = [clients EXCEPT ![key] = Acquired(key)] /\ closing' = closing
          /\ IF clients[key] # 0 THEN UNCHANGED <<made, open>> ELSE made' = made + 1 /\ open' = open \cup {made + 1}
      BY <1>1, <2>1 DEF Acquire
    <2>4. ASSUME NEW c \in open'
          PROVE  (\E k \in Key : clients'[k] = c /\ Holders(k)' # {}) \/ (\E g \in Host : c \in closing'[g])
      <3>1. CASE c \in open /\ \E k \in Key : clients[k] = c /\ Holders(k) # {}
        <4>1. PICK k \in Key : clients[k] = c /\ Holders(k) # {}
          BY <3>1
        <4>2. clients[k] # 0
          BY <3>1, <4>1 DEF Types
        <4>3. clients'[k] = c
          BY <2>3, <4>1, <4>2 DEF Acquired, Types
        <4>4. Holders(k)' # {}
          BY <2>2, <4>1
        <4> QED BY <4>3, <4>4
      <3>2. CASE c \in open /\ \E g \in Host : c \in closing[g]
        BY <2>3, <3>2
      <3>3. CASE c \notin open
        <4>1. c = made + 1 /\ clients[key] = 0
          BY <2>3, <3>3
        <4>2. clients'[key] = c
          BY <2>3, <4>1 DEF Acquired, Types
        <4>3. Holders(key)' # {}
          BY <2>2
        <4> QED BY <4>2, <4>3
      <3> QED BY <3>1, <3>2, <3>3 DEF NoClientStranded
    <2> QED BY <2>4 DEF NoClientStranded
  <1>2. CASE GiveBack(h)
    <2>1. /\ open' = open /\ closing' = [closing EXCEPT ![h] = {clients[k] : k \in {x \in Key : LastGone(h, x)}}]
          /\ closing[h] = {}
      BY <1>2 DEF GiveBack, PhaseSound
    <2>2. ASSUME NEW c \in open
          PROVE  (\E k \in Key : clients'[k] = c /\ Holders(k)' # {}) \/ (\E g \in Host : c \in closing'[g])
      <3>1. CASE \E k \in Key : clients[k] = c /\ Holders(k) # {}
        <4>1. PICK k \in Key : clients[k] = c /\ Holders(k) # {}
          BY <3>1
        <4>2. CASE LastGone(h, k)
          <5>1. c \in closing'[h]
            BY <2>1, <4>1, <4>2 DEF Types
          <5> QED BY <5>1
        <4>3. CASE ~LastGone(h, k)
          <5>1. clients'[k] = c
            BY <1>2, <4>1, <4>3 DEF GiveBack
          <5>2. c # 0
            BY <2>2 DEF Types
          <5>3. Cardinality(Holders(k)') > 0
            BY <5>1, <5>2 DEF ReferencesHeld
          <5>4. Holders(k)' # {}
            BY <5>3, FS_EmptySet
          <5> QED BY <5>1, <5>4
        <4> QED BY <4>2, <4>3
      <3>2. CASE \E g \in Host : c \in closing[g]
        <4>1. PICK g \in Host : c \in closing[g]
          BY <3>2
        <4>2. c \in closing'[g]
          BY <2>1, <4>1 DEF Types
        <4> QED BY <4>2
      <3> QED BY <3>1, <3>2 DEF NoClientStranded
    <2> QED BY <2>1, <2>2 DEF NoClientStranded
  <1>3. CASE ~Acquire(h) /\ ~GiveBack(h)
    <2>1. \A k \in Key : Holders(k)' = Holders(k)
      BY <1>3, ReferencesUnmoved, HoldersUnmoved
    <2>2. clients' = clients
      BY <1>3 DEF Turn, StartBuild, BuildLocal, FailBuild, FinishBuild, RaiseFailure, CloseClient, ClosePlatform, Closed, Pool
    <2>3. CASE CloseClient(h)
      <3>1. PICK c \in closing[h] : open' = open \ {c} /\ closing' = [closing EXCEPT ![h] = @ \ {c}]
        BY <2>3 DEF CloseClient
      <3>2. \A d \in open', g \in Host : d \in closing[g] => d \in closing'[g]
        BY <3>1 DEF Types
      <3>3. open' \subseteq open
        BY <3>1
      <3> QED BY <2>1, <2>2, <3>2, <3>3 DEF NoClientStranded
    <2>4. CASE ~CloseClient(h)
      <3>1. open' = open /\ closing' = closing
        BY <1>3, <2>4 DEF Turn, StartBuild, BuildLocal, FailBuild, FinishBuild, RaiseFailure, ClosePlatform, Closed, Pool
      <3> QED BY <2>1, <2>2, <3>1 DEF NoClientStranded
    <2> QED BY <2>3, <2>4
  <1> QED BY <1>1, <1>2, <1>3

(***************************************************************************)
(* Shutdown                                                                *)
(***************************************************************************)
(* A shutdown closes the published platform before it unpublishes it, and no other way out of *)
(* publication is left.                                                                       *)
LEMMA ShutdownKept ==
    ASSUME Bounds, Types, ShutdownSound, UnpublishedIsClosed, Next
    PROVE  ShutdownSound' /\ UnpublishedIsClosed'
  <1> USE DEF ShutdownSound, UnpublishedIsClosed
  <1>1. ASSUME NEW h \in Host, StartBuild(h)  PROVE ShutdownSound' /\ UnpublishedIsClosed'
    BY <1>1 DEF StartBuild, Types
  <1>2. ASSUME NEW h \in Host, BuildLocal(h) \/ Acquire(h) \/ GiveBack(h) \/ CloseClient(h)
        PROVE  ShutdownSound' /\ UnpublishedIsClosed'
    BY <1>2 DEF BuildLocal, Acquire, GiveBack, CloseClient, Lifetime
  <1>3. ASSUME NEW h \in Host, FailBuild(h) \/ FinishBuild(h) \/ RaiseFailure(h)
        PROVE  ShutdownSound' /\ UnpublishedIsClosed'
    <2>1. PICK p \in Phase : /\ phase[h] \in {"building", "failed"} /\ phase' = [phase EXCEPT ![h] = p]
                             /\ UNCHANGED <<active, stopping, published>>
      BY <1>3 DEF FailBuild, Building, FinishBuild, RaiseFailure, Lifetime, Phase
    <2>2. h \in published => h = active
      BY <2>1
    <2>3. UnpublishedIsClosed'
      BY <2>1, <2>2 DEF Types
    <2>4. ShutdownSound'
      BY <2>1 DEF Types
    <2> QED BY <2>3, <2>4
  <1>4. ASSUME NEW h \in Host, Close(h)  PROVE ShutdownSound' /\ UnpublishedIsClosed'
    BY <1>4 DEF Close, ClosePlatform, Lifetime, Types
  <1>5. ASSUME NEW h \in Host, Closed(h)  PROVE ShutdownSound' /\ UnpublishedIsClosed'
    BY <1>5 DEF Closed, Lifetime, Types
  <1>6. ASSUME NEW h \in Host, Publish(h)  PROVE ShutdownSound' /\ UnpublishedIsClosed'
    BY <1>6 DEF Publish, Bounds, Types
  <1>7. CASE BeginShutdown
    <2>1. stopping' = "worker" /\ UNCHANGED <<phase, active, published>>
      BY <1>7 DEF BeginShutdown, ShutdownOrder
    <2> QED BY <2>1
  <1>8. CASE StopJobWorker
    <2>1. stopping' = "platform" /\ UNCHANGED <<phase, active, published>>
      BY <1>8, AfterStepFacts DEF StopJobWorker
    <2> QED BY <2>1
  <1>9. CASE ShutdownClose /\ active = Unset
    <2>1. stopping' = "reset" /\ UNCHANGED <<phase, active, published>>
      BY <1>9, AfterStepFacts DEF ShutdownClose
    <2> QED BY <1>9, <2>1
  <1>10. CASE ShutdownClose /\ active # Unset
    BY <1>10 DEF ShutdownClose, ClosePlatform, Types
  <1>11. CASE ShutdownClosed
    <2>1. stopping = "closing" /\ phase[active] = "closed" /\ stopping' = "reset" /\ UNCHANGED <<phase, active, published>>
      BY <1>11, AfterStepFacts DEF ShutdownClosed
    <2> QED BY <2>1
  <1>12. CASE Reset
    <2>1. stopping = "reset" /\ stopping' = "no" /\ active' = Unset /\ UNCHANGED <<phase, published>>
      BY <1>12, AfterStepFacts DEF Reset
    <2> QED BY <2>1 DEF Types, Bounds
  <1> QED BY <1>1, <1>2, <1>3, <1>4, <1>5, <1>6, <1>7, <1>8, <1>9, <1>10, <1>11, <1>12 DEF Next

(***************************************************************************)
(* The invariant                                                           *)
(***************************************************************************)
(* Nothing is built, held or published at first. *)
LEMMA InitPlatform ==
    ASSUME Bounds, Init \/ NoPlatform
    PROVE  PlatformInv
  <1>1. /\ todo \in [Host -> Seq(Offered)] /\ Unbuilt
    <2>1. CASE Init
      BY <2>1 DEF Init, Bounds
    <2>2. CASE NoPlatform
      <3>1. <<>> \in Seq(Offered)
        BY EmptySeq
      <3> QED BY <2>2, <3>1 DEF NoPlatform
    <2> QED BY <2>1, <2>2
  <1>2. Types
    <2>1. wired \in [Host -> Seq(WiredBackend)]
      <3>1. <<>> \in Seq(WiredBackend)
        BY EmptySeq
      <3> QED BY <1>1, <3>1 DEF Unbuilt
    <2> QED BY <1>1, <2>1 DEF Types, Unbuilt, Phase
  <1>3. \A k \in Key : Holders(k) = {}
    BY <1>1 DEF Holders, Unbuilt
  <1>4. ReferencesHeld
    <2>1. \A k \in Key : Cardinality(Holders(k)) = 0
      BY <1>3, FS_EmptySet
    <2> QED BY <1>1, <2>1 DEF ReferencesHeld, Unbuilt
  <1>5. \A h \in Host : PhaseSound(h) /\ BuildSound(h) /\ WiringSound(h)
    BY <1>1 DEF Unbuilt, PhaseSound, BuildSound, WiringSound, Live
  <1>6. PoolSound /\ ShutdownSound /\ NoClientStranded /\ UnpublishedIsClosed
    BY <1>1 DEF Unbuilt, PoolSound, ShutdownSound, NoClientStranded, UnpublishedIsClosed
  <1> QED BY <1>2, <1>4, <1>5, <1>6 DEF PlatformInv

(* Every step keeps the invariant. *)
LEMMA StepPlatform ==
    ASSUME Bounds, PlatformInv, [Next]_vars
    PROVE  PlatformInv'
  <1> USE DEF PlatformInv
  <1>1. CASE Next
    <2>1. Types'
      <3>1. ASSUME NEW h \in Host,
                   StartBuild(h) \/ BuildLocal(h) \/ Acquire(h) \/ FailBuild(h) \/ FinishBuild(h) \/ RaiseFailure(h)
            PROVE  Types'
        BY <3>1, BuildTypes
      <3>2. ASSUME NEW h \in Host, GiveBack(h) \/ CloseClient(h) \/ Close(h) \/ Closed(h) \/ Publish(h)
            PROVE  Types'
        BY <3>2, CloseTypes
      <3>3. CASE BeginShutdown \/ StopJobWorker \/ ShutdownClose \/ ShutdownClosed \/ Reset
        BY <3>3, ShutdownTypes
      <3> QED BY <1>1, <3>1, <3>2, <3>3 DEF Next
    <2>2. ShutdownSound' /\ UnpublishedIsClosed'
      BY <1>1, ShutdownKept
    <2>3. ASSUME NEW h \in Host, Turn(h)  PROVE PlatformInv'
      <3>1. \A g \in Host : PhaseSound(g)'
        BY <2>3, PhasesKept
      <3>2. \A g \in Host : BuildSound(g)'
        BY <2>1, <2>3, BuildsKept
      <3>3. \A g \in Host : WiringSound(g)'
        BY <2>3, WiringsKept
      <3>4. PoolSound'
        BY <2>3, PoolKept
      <3>5. ReferencesHeld'
        BY <2>1, <2>3, ReferencesKept
      <3>6. NoClientStranded'
        BY <2>3, <3>5, NobodyStrands
      <3> QED BY <2>1, <2>2, <3>1, <3>2, <3>3, <3>4, <3>5, <3>6
    <2>4. CASE Still
      <3>1. UNCHANGED <<settings, phase, wired, held, taken, clients, references, made, open, closing>>
        BY <2>4 DEF Still, Pool
      <3>2. \A h \in Host : PhaseSound(h)' /\ BuildSound(h)' /\ WiringSound(h)'
        BY <3>1 DEF PhaseSound, BuildSound, WiringSound, Live
      <3>3. PoolSound' /\ ReferencesHeld' /\ NoClientStranded'
        BY <3>1 DEF PoolSound, ReferencesHeld, NoClientStranded, Holders
      <3> QED BY <2>1, <2>2, <3>2, <3>3
    <2> QED BY <1>1, <2>3, <2>4, StepKinds
  <1>2. CASE UNCHANGED vars
    <2>1. /\ UNCHANGED <<todo, settings, phase, wired, held, taken>> /\ UNCHANGED <<clients, references, made, open, closing>>
          /\ UNCHANGED <<active, stopping, published>>
      BY <1>2 DEF vars
    <2>2. Types' /\ ShutdownSound' /\ UnpublishedIsClosed'
      BY <2>1 DEF Types, ShutdownSound, UnpublishedIsClosed
    <2>a. ASSUME NEW h \in Host PROVE PhaseSound(h)' /\ BuildSound(h)'
      BY <2>1 DEF PhaseSound, BuildSound, Live
    <2>b. ASSUME NEW h \in Host PROVE WiringSound(h)'
      BY <2>1 DEF WiringSound, Live
    <2>3. \A h \in Host : PhaseSound(h)' /\ BuildSound(h)' /\ WiringSound(h)'
      BY <2>a, <2>b
    <2>4. PoolSound' /\ ReferencesHeld' /\ NoClientStranded'
      BY <2>1 DEF PoolSound, ReferencesHeld, NoClientStranded, Holders
    <2> QED BY <2>2, <2>3, <2>4
  <1> QED BY <1>1, <1>2

(* The counts, the phases and the wiring stay as PlatformInv says. *)
THEOREM PlatformInvariant == ASSUME Bounds PROVE HostSpec => []PlatformInv
  <1>1. HostInit => PlatformInv
    BY InitPlatform DEF HostInit
  <1>2. [HostNext]_allVars => [Next]_vars
    BY DEF HostNext, allVars
  <1>3. PlatformInv /\ [Next]_vars => PlatformInv'
    BY StepPlatform
  <1> QED BY <1>1, <1>2, <1>3, PTL DEF HostSpec

(* A client is never closed under a platform that uses it, the count of a key is the references to it,   *)
(* no client is left open that nobody will close, and what a shutdown unpublishes it has closed          *)
(* (get_shared_client, release_shared_clients, Platform.close, lifecycle.shutdown).                      *)
THEOREM PlatformsCloseClean == ASSUME Bounds PROVE HostSpec => []ClosedWhenDone
  <1>1. PlatformInv => ClosedWhenDone
    <2> SUFFICES ASSUME PlatformInv  PROVE ClosedWhenDone
      OBVIOUS
    <2> USE DEF PlatformInv
    <2>1. ASSUME NEW h \in Host, Live(h), NEW i \in 1..Len(wired[h]), wired[h][i].client # 0
          PROVE  wired[h][i].client \in open
      <3>1. PICK k \in Key : clients[k] = wired[h][i].client
        BY <2>1 DEF WiringSound
      <3> QED BY <2>1, <3>1 DEF PoolSound
    <2>2. ClientsOpenWhileHeld
      BY <2>1 DEF ClientsOpenWhileHeld
    <2> QED BY <2>2 DEF ClosedWhenDone
  <1> QED BY <1>1, PlatformInvariant, PTL

(* What an enforced check let through is shared wherever several processes or nodes run, and the report    *)
(* names the backends that are wired (check_deployment_consistency, build_capability_report,              *)
(* build_platform).                                                                                       *)
THEOREM PlatformsBuildAsChecked == ASSUME Bounds PROVE HostSpec => []BuiltAsChecked
  <1>1. ASSUME PlatformInv, NEW h \in Host, phase[h] = "built"
        PROVE  /\ ~Refused(settings[h])
               /\ \A c \in Capability : Wired(h, c) = Backend(settings[h], c) /\ Backend(settings[h], c) # Unset
    <2>1. /\ ~Refused(settings[h]) /\ Len(wired[h]) = 6
          /\ \A i \in 1..Len(wired[h]) :
                 wired[h][i].backend = Backend(settings[h], Order[i]) /\ wired[h][i].backend # Unset
      BY <1>1, OrderFacts DEF PlatformInv, BuildSound, Live
    <2>2. ASSUME NEW c \in Capability
          PROVE  Wired(h, c) = Backend(settings[h], c) /\ Backend(settings[h], c) # Unset
      <3>1. PICK i \in 1..6 : i = Index(c) /\ Order[i] = c
        BY IndexFacts
      <3>2. wired[h][i].backend = Backend(settings[h], c) /\ wired[h][i].backend # Unset
        BY <2>1, <3>1
      <3> QED BY <3>1, <3>2 DEF Wired
    <2> QED BY <2>1, <2>2
  <1>2. PlatformInv => SharedWhereNeeded
    <2> SUFFICES ASSUME PlatformInv, NEW h \in Host, phase[h] = "built", settings[h].enforce
                 PROVE  LET t == ResolveTopology(settings[h]) IN
                        /\ MultiProcess(t) =>
                            /\ Wired(h, "state") \in RedisSchemes
                            /\ {Wired(h, "events"), Wired(h, "realtime")} \subseteq RedisSchemes \cup {"disabled"}
                            /\ Wired(h, "lock") # "noop"
                            /\ BuildMail(settings[h]) # "memory"
                        /\ MultiNode(t) => Wired(h, "storage") # "local" /\ Wired(h, "audit_sink") # "file"
      BY DEF SharedWhereNeeded
    <2>1. /\ Wired(h, "state") = Backend(settings[h], "state") /\ Wired(h, "events") = Backend(settings[h], "events")
          /\ Wired(h, "realtime") = Backend(settings[h], "realtime") /\ Wired(h, "lock") = Backend(settings[h], "lock")
          /\ Wired(h, "storage") = Backend(settings[h], "storage")
          /\ Wired(h, "audit_sink") = Backend(settings[h], "audit_sink")
      BY <1>1, CapabilityNames
    <2>2. LET t == ResolveTopology(settings[h]) IN
          /\ MultiProcess(t) =>
               /\ Backend(settings[h], "state") \in RedisSchemes
               /\ Backend(settings[h], "events") \in RedisSchemes \cup {"disabled"}
               /\ Backend(settings[h], "realtime") \in RedisSchemes \cup {"disabled"}
               /\ Backend(settings[h], "lock") # "noop"
               /\ BuildMail(settings[h]) # "memory"
          /\ MultiNode(t) => Backend(settings[h], "storage") # "local" /\ Backend(settings[h], "audit_sink") # "file"
      BY <1>1, CheckedIsShared
    <2> QED BY <2>1, <2>2
  <1>3. PlatformInv => BuiltAsReported
    <2> SUFFICES ASSUME PlatformInv, NEW h \in Host, phase[h] = "built"
                 PROVE  /\ \A c \in {"state", "storage", "events", "realtime", "lock"} :
                               Wired(h, c) = Report(settings[h])[c]
                        /\ BuildMail(settings[h]) = Report(settings[h]).mail
      BY DEF BuiltAsReported
    <2>1. /\ \A c \in {"state", "storage", "events", "realtime", "lock"} :
                 Backend(settings[h], c) = Report(settings[h])[c]
          /\ BuildMail(settings[h]) = Report(settings[h]).mail
      BY <1>1, ReportedIsBuilt
    <2>2. \A c \in {"state", "storage", "events", "realtime", "lock"} : Wired(h, c) = Backend(settings[h], c)
      BY <1>1, CapabilityNames
    <2> QED BY <2>1, <2>2
  <1> QED BY <1>2, <1>3, PlatformInvariant, PTL DEF BuiltAsChecked

(***************************************************************************)
(* Settings edited at run time                                             *)
(*                                                                         *)
(* A call that began later saw no older settings (ReadOrder), and what has *)
(* been applied is at least as new as what every call up to the applied    *)
(* read began with (CaughtUp): a call that is overtaken may therefore go   *)
(* by the outcome it finds.                                                *)
(***************************************************************************)
Kind == {"unset", "good", "memory", "lookup", "bad"}

Outcome == [settings : Nat, result : {"built", "null", "transient", "rejected"}, retryAt : Nat \cup {Unset}]

CallState ==
    [at : {"idle", "reading", "applying", "answered"}, read : Nat, since : Nat, rejected : SUBSET Nat, fresh : Nat,
     outcome : Outcome \cup {Unset}, failed : BOOLEAN]

Servable == IF Shared THEN {"good", "lookup"} ELSE {"good", "lookup", "memory"}

ReloadTypes ==
    /\ edits \in Seq(Kind) /\ stored \in Nat /\ stored >= 1 /\ stored <= Len(edits)
    /\ now \in Nat /\ reads \in Nat /\ appliedRead \in Nat /\ appliedRead < reads
    /\ current \in Outcome \cup {Unset}
    /\ applied \subseteq Nat
    /\ call \in [Caller -> CallState]

(* What is built for mail may be served. *)
OutcomeSound(o) ==
    o # Unset => (provider = "mail" /\ o.result = "built" => edits[o.settings] \in Servable)

(* A call has read no older settings than those it began with, and is answered by none older. *)
CallSound(r) ==
    /\ r.at # "idle" => r.read < reads /\ 1 <= r.since /\ r.since <= stored
    /\ r.at = "applying" => r.since <= r.fresh /\ r.fresh <= stored
    /\ r.at = "answered" /\ ~r.failed => r.outcome # Unset /\ r.since <= r.outcome.settings /\ r.read <= appliedRead
    /\ r.at = "answered" => OutcomeSound(r.outcome)

ReadOrder(q, r) == q.at # "idle" /\ r.at # "idle" /\ q.read <= r.read => q.since <= r.since

CaughtUp(r) == r.at # "idle" /\ r.read <= appliedRead => current # Unset /\ r.since <= current.settings

ReloadInv ==
    /\ ReloadTypes
    /\ OutcomeSound(current)
    /\ \A c \in Caller : CallSound(call[c]) /\ CaughtUp(call[c])
    /\ \A c, d \in Caller : ReadOrder(call[c], call[d])

(* What the proofs about the settings need of the constants. *)
LEMMA ReloadBounds ==
    /\ Unset \notin Outcome /\ RetrySeconds \in Nat
    /\ \A e \in Edits : e \in Seq(Kind) /\ Len(e) >= 1
  <1>1. Unset \notin Outcome /\ RetrySeconds \in Nat
    BY HostAssumption DEF Outcome
  <1>2. ASSUME NEW e \in Edits  PROVE e \in Seq(Kind) /\ Len(e) >= 1
    <2>1. e \in Seq(Kind) /\ e # <<>>
      BY HostAssumption DEF Kind
    <2> QED BY <2>1, EmptySeq, LenProperties
  <1> QED BY <1>1, <1>2

(* Building settings that are there gives an outcome, and what it may serve. *)
LEMMA RebuiltSound ==
    ASSUME ReloadInv, NEW v \in Nat, v >= 1, v <= stored
    PROVE  /\ Reloads!Rebuild(v) \in Outcome
           /\ Reloads!Rebuild(v).settings = v
           /\ OutcomeSound(Reloads!Rebuild(v))
  <1> DEFINE k == edits[v]
             result == Reloads!Build(k)
             retry == IF result = "transient" THEN now + RetrySeconds ELSE Unset
  <1>1. k \in Kind
    BY LenProperties, ElementOfSeq DEF ReloadInv, ReloadTypes
  <1>2. /\ result \in {"built", "null", "transient", "rejected"}
        /\ provider = "mail" /\ result = "built" => k \in Servable
    BY <1>1, HostAssumption DEF Kind, Servable, Reloads!Build, Reloads!BuildMail, Reloads!BuildGeocoding
  <1>3. retry \in Nat \cup {Unset}
    BY ReloadBounds DEF ReloadInv, ReloadTypes
  <1>4. Reloads!Rebuild(v) = [settings |-> v, result |-> result, retryAt |-> retry]
    BY DEF Reloads!Rebuild
  <1> HIDE DEF result, retry
  <1> QED BY <1>2, <1>3, <1>4 DEF Outcome, OutcomeSound

(* The fields of a call some of which are set. *)
LEMMA CallFields ==
    ASSUME NEW q \in CallState, NEW n \in Nat, NEW m \in Nat, NEW z \in SUBSET Nat, NEW f \in BOOLEAN,
           NEW o \in Outcome \cup {Unset}, NEW a \in {"idle", "reading", "applying", "answered"}
    PROVE  /\ [q EXCEPT !.at = a, !.read = n, !.since = m, !.rejected = z] \in CallState
           /\ [q EXCEPT !.at = a, !.fresh = n] \in CallState
           /\ [q EXCEPT !.at = a, !.outcome = o, !.failed = f] \in CallState
  BY DEF CallState

(* A step of one caller. *)
LEMMA CallStep ==
    ASSUME ReloadInv, NEW c \in Caller, NEW r \in CallState, call' = [call EXCEPT ![c] = r]
    PROVE  /\ call' \in [Caller -> CallState]
           /\ call'[c] = r /\ \A d \in Caller \ {c} : call'[d] = call[d]
  BY DEF ReloadInv, ReloadTypes

(* A call begins: it has the newest read number and goes by no older settings. *)
LEMMA ReloadBegin ==
    ASSUME ReloadInv, NEW c \in Caller, Reloads!BeginResolve(c)
    PROVE  ReloadInv'
  <1> DEFINE r == [Reloads!Idle EXCEPT !.at = "reading", !.read = reads, !.since = stored, !.rejected = applied]
  <1>0. /\ reads \in Nat /\ appliedRead \in Nat /\ stored \in Nat /\ applied \subseteq Nat /\ appliedRead < reads
        /\ \A d \in Caller : call[d] \in CallState
    BY SMTT(30) DEF ReloadInv, ReloadTypes
  <1>1. r \in CallState
    <2>1. Reloads!Idle \in CallState
      BY DEF Reloads!Idle, CallState
    <2> QED BY <1>0, <2>1, CallFields
  <1>2. r.at = "reading" /\ r.read = reads /\ r.since = stored
    BY DEF Reloads!Idle
  <1>3. call' = [call EXCEPT ![c] = r] /\ reads' = reads + 1
    BY DEF Reloads!BeginResolve
  <1>u. UNCHANGED <<provider, edits, stored, now, appliedRead, current, applied>>
    BY DEF Reloads!BeginResolve
  <1> HIDE DEF r
  <1>4. /\ call' \in [Caller -> CallState]
        /\ call'[c] = r /\ \A d \in Caller \ {c} : call'[d] = call[d]
    BY <1>1, <1>3, CallStep
  <1>5. ReloadTypes'
    BY <1>0, <1>3, <1>u, <1>4 DEF ReloadInv, ReloadTypes
  <1>6. OutcomeSound(current)'
    BY <1>u DEF ReloadInv, OutcomeSound
  <1>7. ASSUME NEW d \in Caller  PROVE CallSound(call[d])' /\ CaughtUp(call[d])'
    <2>1. CASE d = c
      BY <2>1, <1>0, <1>2, <1>3, <1>u, <1>4 DEF CallSound, CaughtUp, ReloadInv, ReloadTypes
    <2>2. CASE d # c
      <3>1. CallSound(call[d]) /\ CaughtUp(call[d]) /\ call'[d] = call[d] /\ call[d] \in CallState
        BY <2>2, <1>0, <1>4 DEF ReloadInv
      <3>2. call[d].read < reads => call[d].read < reads'
        BY <3>1, <1>0, <1>3 DEF CallState
      <3> QED BY <3>1, <3>2, <1>u DEF CallSound, CaughtUp, OutcomeSound
    <2> QED BY <2>1, <2>2
  <1>8. ASSUME NEW d \in Caller, NEW e \in Caller  PROVE ReadOrder(call'[d], call'[e])
    <2>1. call[d].at # "idle" => call[d].read < reads /\ call[d].since <= stored
      BY DEF ReloadInv, CallSound
    <2>2. call[d] \in CallState /\ call[e] \in CallState
      BY <1>0
    <2>3. CASE d # c /\ e # c
      BY <2>3, <1>4 DEF ReloadInv, ReadOrder
    <2>4. CASE e = c
      BY <2>1, <2>2, <2>4, <1>0, <1>2, <1>4 DEF ReadOrder, CallState
    <2>5. CASE d = c /\ e # c
      <3>1. call[e].at # "idle" => call[e].read < reads
        BY DEF ReloadInv, CallSound
      <3> QED BY <3>1, <2>2, <2>5, <1>0, <1>2, <1>4 DEF ReadOrder, CallState
    <2> QED BY <2>3, <2>4, <2>5
  <1> QED BY <1>5, <1>6, <1>7, <1>8 DEF ReloadInv, ReadOrder

(* The source answers with what is stored then. *)
LEMMA ReloadRead ==
    ASSUME ReloadInv, NEW c \in Caller, Reloads!ReadSource(c)
    PROVE  ReloadInv'
  <1> DEFINE r == [call[c] EXCEPT !.at = "applying", !.fresh = stored]
  <1>0. /\ stored \in Nat /\ call[c] \in CallState /\ call[c].at = "reading" /\ CallSound(call[c]) /\ CaughtUp(call[c])
    BY SMTT(30) DEF ReloadInv, ReloadTypes, Reloads!ReadSource
  <1>1. r \in CallState
    BY <1>0, CallFields
  <1>2. /\ r.at = "applying" /\ r.fresh = stored /\ r.read = call[c].read /\ r.since = call[c].since
    BY <1>0 DEF CallState
  <1>3. call' = [call EXCEPT ![c] = r]
    BY DEF ReloadInv, ReloadTypes, Reloads!ReadSource
  <1>u. UNCHANGED <<provider, edits, stored, now, reads, appliedRead, current, applied>>
    BY DEF Reloads!ReadSource
  <1> HIDE DEF r
  <1>4. /\ call' \in [Caller -> CallState]
        /\ call'[c] = r /\ \A d \in Caller \ {c} : call'[d] = call[d]
    BY <1>1, <1>3, CallStep
  <1>5. ReloadTypes'
    BY <1>u, <1>4 DEF ReloadInv, ReloadTypes
  <1>6. OutcomeSound(current)'
    BY <1>u DEF ReloadInv, OutcomeSound
  <1>7. ASSUME NEW d \in Caller  PROVE CallSound(call[d])' /\ CaughtUp(call[d])'
    <2>1. CASE d = c
      BY <2>1, <1>0, <1>2, <1>u, <1>4 DEF CallSound, CaughtUp
    <2>2. CASE d # c
      BY <2>2, <1>u, <1>4 DEF ReloadInv, CallSound, CaughtUp, OutcomeSound
    <2> QED BY <2>1, <2>2
  <1>8. ASSUME NEW d \in Caller, NEW e \in Caller  PROVE ReadOrder(call'[d], call'[e])
    BY <1>0, <1>2, <1>4 DEF ReloadInv, ReadOrder
  <1> QED BY <1>5, <1>6, <1>7, <1>8 DEF ReloadInv, ReadOrder

(* The source raises: the call is answered by an outcome that was there. *)
LEMMA ReloadFails ==
    ASSUME ReloadInv, NEW c \in Caller, Reloads!SourceFails(c)
    PROVE  ReloadInv'
  <1> DEFINE o == IF current = Unset THEN Unset ELSE Reloads!Fallback(current)
             r == [call[c] EXCEPT !.at = "answered", !.outcome = o, !.failed = TRUE]
  <1>0. /\ call[c] \in CallState /\ call[c].at = "reading" /\ CallSound(call[c]) /\ CaughtUp(call[c])
        /\ current \in Outcome \cup {Unset}
    BY DEF ReloadInv, ReloadTypes, Reloads!SourceFails
  <1>a. o \in {current, Unset}
    BY DEF Reloads!Fallback
  <1>b. o \in Outcome \cup {Unset} /\ OutcomeSound(o)
    BY <1>0, <1>a DEF ReloadInv, OutcomeSound
  <1>3. call' = [call EXCEPT ![c] = r]
    BY DEF ReloadInv, ReloadTypes, Reloads!SourceFails, Reloads!Answer
  <1> HIDE DEF o
  <1>1. r \in CallState
    BY <1>0, <1>b, CallFields
  <1>2. /\ r.at = "answered" /\ r.failed /\ r.outcome = o /\ r.read = call[c].read /\ r.since = call[c].since
    BY <1>0 DEF CallState
  <1>u. UNCHANGED <<provider, edits, stored, now, reads, appliedRead, current, applied>>
    BY DEF Reloads!SourceFails
  <1> HIDE DEF r
  <1>4. /\ call' \in [Caller -> CallState]
        /\ call'[c] = r /\ \A d \in Caller \ {c} : call'[d] = call[d]
    BY <1>1, <1>3, CallStep
  <1>5. ReloadTypes'
    BY <1>u, <1>4 DEF ReloadInv, ReloadTypes
  <1>6. OutcomeSound(current)'
    BY <1>u DEF ReloadInv, OutcomeSound
  <1>7. ASSUME NEW d \in Caller  PROVE CallSound(call[d])' /\ CaughtUp(call[d])'
    <2>1. CASE d = c
      BY <2>1, <1>0, <1>b, <1>2, <1>u, <1>4 DEF CallSound, CaughtUp, OutcomeSound
    <2>2. CASE d # c
      BY <2>2, <1>u, <1>4 DEF ReloadInv, CallSound, CaughtUp, OutcomeSound
    <2> QED BY <2>1, <2>2
  <1>8. ASSUME NEW d \in Caller, NEW e \in Caller  PROVE ReadOrder(call'[d], call'[e])
    BY <1>0, <1>2, <1>4 DEF ReloadInv, ReadOrder
  <1> QED BY <1>5, <1>6, <1>7, <1>8 DEF ReloadInv, ReadOrder

(* What a read applies: nothing when it is overtaken, and else what it read. *)
LEMMA AppliedOutcome ==
    ASSUME ReloadInv, NEW c \in Caller, Reloads!Apply(c)
    PROVE  /\ current' \in Outcome /\ OutcomeSound(current') /\ call[c].since <= current'.settings
           /\ IF Reloads!Overtaken(c) THEN current' = current /\ appliedRead' = appliedRead
              ELSE current'.settings = call[c].fresh /\ appliedRead' = call[c].read
           /\ call[c].read <= appliedRead'
  <1> DEFINE fresh == call[c].fresh
  <1>0. /\ call[c] \in CallState /\ call[c].at = "applying" /\ CallSound(call[c]) /\ CaughtUp(call[c])
        /\ current \in Outcome \cup {Unset} /\ stored \in Nat /\ appliedRead \in Nat
    BY DEF ReloadInv, ReloadTypes, Reloads!Apply
  <1>1. /\ fresh \in Nat /\ call[c].since \in Nat /\ call[c].read \in Nat
        /\ call[c].since <= fresh /\ fresh <= stored
    BY <1>0 DEF CallSound, CallState
  <1>2. current' = IF ~Reloads!Overtaken(c) /\ Reloads!Stale(fresh) THEN Reloads!Rebuild(fresh) ELSE current
    BY DEF Reloads!Apply
  <1>3. appliedRead' = IF Reloads!Overtaken(c) THEN appliedRead ELSE call[c].read
    BY DEF Reloads!Apply
  <1>4. CASE Reloads!Overtaken(c)
    <2>1. current # Unset /\ call[c].read < appliedRead /\ call[c].read <= appliedRead
      BY <1>0, <1>1, <1>4 DEF Reloads!Overtaken
    <2>2. call[c].since <= current.settings
      BY <1>0, <2>1 DEF CaughtUp
    <2> QED BY <1>0, <1>2, <1>3, <1>4, <2>1, <2>2 DEF ReloadInv
  <1>5. CASE ~Reloads!Overtaken(c) /\ Reloads!Stale(fresh)
    <2>1. fresh >= 1
      <3>1. call[c].since >= 1
        BY <1>0, <1>1 DEF CallSound
      <3> QED BY <3>1, <1>1
    <2>2. /\ Reloads!Rebuild(fresh) \in Outcome /\ Reloads!Rebuild(fresh).settings = fresh
          /\ OutcomeSound(Reloads!Rebuild(fresh))
      BY <1>1, <2>1, RebuiltSound
    <2> QED BY <1>1, <1>2, <1>3, <1>5, <2>2
  <1>6. CASE ~Reloads!Overtaken(c) /\ ~Reloads!Stale(fresh)
    <2>1. current # Unset /\ current.settings = fresh
      BY <1>6 DEF Reloads!Stale
    <2> QED BY <1>0, <1>1, <1>2, <1>3, <1>6, <2>1 DEF ReloadInv
  <1> QED BY <1>4, <1>5, <1>6

(* A read is applied. *)
LEMMA ReloadApply ==
    ASSUME ReloadInv, NEW c \in Caller, Reloads!Apply(c)
    PROVE  ReloadInv'
  <1> DEFINE r == [call[c] EXCEPT !.at = "answered", !.outcome = current', !.failed = FALSE]
  <1>0. /\ \A d \in Caller : call[d] \in CallState /\ CallSound(call[d]) /\ CaughtUp(call[d])
        /\ call[c].at = "applying" /\ appliedRead \in Nat /\ reads \in Nat /\ applied \subseteq Nat
    BY DEF ReloadInv, ReloadTypes, Reloads!Apply
  <1>a. /\ current' \in Outcome /\ OutcomeSound(current') /\ call[c].since <= current'.settings
        /\ IF Reloads!Overtaken(c) THEN current' = current /\ appliedRead' = appliedRead
           ELSE current'.settings = call[c].fresh /\ appliedRead' = call[c].read
        /\ call[c].read <= appliedRead'
    BY AppliedOutcome
  <1>u. UNCHANGED <<provider, edits, stored, now, reads>>
    BY DEF Reloads!Apply
  <1>3. call' = [call EXCEPT ![c] = r]
    BY DEF ReloadInv, ReloadTypes, Reloads!Apply, Reloads!Answer
  <1>1. r \in CallState
    BY <1>0, <1>a, CallFields
  <1>2. /\ r.at = "answered" /\ ~r.failed /\ r.outcome = current' /\ r.read = call[c].read /\ r.since = call[c].since
    BY <1>0 DEF CallState
  <1> HIDE DEF r
  <1>4. /\ call' \in [Caller -> CallState]
        /\ call'[c] = r /\ \A d \in Caller \ {c} : call'[d] = call[d]
    BY <1>1, <1>3, CallStep
  <1>b. appliedRead' \in Nat /\ appliedRead' < reads /\ applied' \subseteq Nat
    <2>1. appliedRead' \in Nat /\ appliedRead' < reads
      BY <1>0, <1>a DEF CallSound, CallState, ReloadInv, ReloadTypes
    <2>2. applied' \in {applied, applied \cup {current'.settings}}
      BY DEF Reloads!Apply
    <2> QED BY <2>1, <2>2, <1>0, <1>a DEF Outcome
  <1>c. current' # Unset
    BY <1>a, ReloadBounds
  <1>5. ReloadTypes'
    BY <1>a, <1>b, <1>u, <1>4 DEF ReloadInv, ReloadTypes
  <1>6. OutcomeSound(current)'
    BY <1>a, <1>u DEF OutcomeSound
  <1>7. ASSUME NEW d \in Caller  PROVE CaughtUp(call[d])'
    <2>0. /\ call[d].read \in Nat /\ call[d].since \in Nat /\ call[c].read \in Nat /\ call[c].since \in Nat
          /\ current'.settings \in Nat
      BY <1>0, <1>a DEF CallState, Outcome
    <2>1. CASE d = c
      BY <2>1, <1>a, <1>c, <1>2, <1>4 DEF CaughtUp
    <2>2. CASE d # c /\ Reloads!Overtaken(c)
      BY <2>2, <1>0, <1>a, <1>4 DEF CaughtUp
    <2>3. CASE d # c /\ ~Reloads!Overtaken(c)
      <3>1. call'[d] = call[d] /\ appliedRead' = call[c].read
        BY <2>3, <1>a, <1>4
      <3>2. ReadOrder(call[d], call[c])
        BY DEF ReloadInv
      <3>3. ASSUME call[d].at # "idle", call[d].read <= call[c].read  PROVE call[d].since <= current'.settings
        <4>1. call[d].since <= call[c].since
          BY <3>2, <3>3, <1>0 DEF ReadOrder
        <4> QED BY <4>1, <2>0, <1>a
      <3> QED BY <3>1, <3>3, <1>c DEF CaughtUp
    <2> QED BY <2>1, <2>2, <2>3
  <1>8. ASSUME NEW d \in Caller  PROVE CallSound(call[d])'
    <2>1. CASE d = c
      BY <2>1, <1>0, <1>a, <1>c, <1>u, <1>2, <1>4 DEF CallSound, OutcomeSound
    <2>2. CASE d # c
      <3>1. call[d].read \in Nat /\ call[c].read \in Nat /\ appliedRead \in Nat
        BY <1>0 DEF CallState
      <3>2. call[d].at # "idle" /\ call[d].read <= appliedRead => call[d].read <= appliedRead'
        <4>1. CASE Reloads!Overtaken(c)
          BY <4>1, <1>a
        <4>2. CASE current # Unset /\ ~Reloads!Overtaken(c)
          BY <4>2, <3>1, <1>a DEF Reloads!Overtaken
        <4>3. CASE current = Unset
          BY <4>3, <1>0 DEF CaughtUp
        <4> QED BY <4>1, <4>2, <4>3
      <3> QED BY <2>2, <3>2, <1>0, <1>u, <1>4 DEF CallSound, OutcomeSound
    <2> QED BY <2>1, <2>2
  <1>9. ASSUME NEW d \in Caller, NEW e \in Caller  PROVE ReadOrder(call'[d], call'[e])
    BY <1>0, <1>2, <1>4 DEF ReloadInv, ReadOrder
  <1> QED BY <1>5, <1>6, <1>7, <1>8, <1>9 DEF ReloadInv, ReadOrder

(* The host edits, names cease to resolve, time passes. *)
LEMMA ReloadAround ==
    ASSUME ReloadInv, Reloads!Edit \/ Reloads!ResolverTurns \/ Reloads!TimePasses \/ UNCHANGED ReloadVars
    PROVE  ReloadInv'
  <1>1. /\ UNCHANGED <<provider, edits, reads, appliedRead, current, call, applied>>
        /\ stored' \in Nat /\ stored' >= stored /\ stored' <= Len(edits) /\ now' \in Nat
    BY LenProperties DEF ReloadInv, ReloadTypes, Reloads!Edit, Reloads!ResolverTurns, Reloads!TimePasses, ReloadVars
  <1>2. ReloadTypes'
    BY <1>1 DEF ReloadInv, ReloadTypes
  <1>3. ASSUME NEW d \in Caller  PROVE CallSound(call[d])' /\ CaughtUp(call[d])'
    <2>1. call[d] \in CallState /\ CallSound(call[d]) /\ CaughtUp(call[d]) /\ stored \in Nat
      BY DEF ReloadInv, ReloadTypes
    <2>2. /\ call[d].since <= stored => call[d].since <= stored'
          /\ call[d].fresh <= stored => call[d].fresh <= stored'
      BY <2>1, <1>1 DEF CallState
    <2> QED BY <2>1, <2>2, <1>1 DEF CallSound, CaughtUp, OutcomeSound
  <1> QED BY <1>1, <1>2, <1>3 DEF ReloadInv, OutcomeSound, ReadOrder

(* What does not follow the settings leaves them as they began. *)
ReloadIdle == part # "reloading" /\ Reloads!NoReloads

(* The invariant of the settings holds where the behaviour follows them. *)
LEMMA ReloadKept == HostSpec => [](ReloadInv \/ ReloadIdle)
  <1>1. HostInit => ReloadInv \/ ReloadIdle
    <2> SUFFICES ASSUME Reloads!Init  PROVE ReloadInv
      BY DEF HostInit, ReloadIdle
    <2>1. edits \in Seq(Kind) /\ stored = 1 /\ Len(edits) \in Nat /\ Len(edits) >= 1 /\ Reloads!Unread
      BY ReloadBounds, LenProperties DEF Reloads!Init
    <2>2. ASSUME NEW c \in Caller  PROVE call[c] = Reloads!Idle /\ call[c] \in CallState /\ call[c].at = "idle"
      BY <2>1 DEF Reloads!Unread, Reloads!Idle, CallState
    <2>3. call \in [Caller -> CallState]
      BY <2>1, <2>2 DEF Reloads!Unread
    <2>4. ReloadTypes
      BY <2>1, <2>3 DEF ReloadTypes, Reloads!Unread
    <2>5. OutcomeSound(current)
      BY <2>1 DEF Reloads!Unread, OutcomeSound
    <2> QED BY <2>2, <2>4, <2>5 DEF ReloadInv, CallSound, CaughtUp, ReadOrder
  <1>2. ReloadInv /\ [HostNext]_allVars => ReloadInv'
    <2>1. [HostNext]_allVars => [Reloads!Next]_ReloadVars
      BY DEF HostNext, allVars, ReloadVars
    <2> QED BY <2>1, ReloadBegin, ReloadRead, ReloadFails, ReloadApply, ReloadAround DEF Reloads!Next
  <1>3. ReloadIdle /\ [HostNext]_allVars => ReloadIdle'
    <2>1. part # "reloading" /\ [HostNext]_allVars => part' = part /\ UNCHANGED ReloadVars
      BY DEF HostNext, allVars
    <2> QED BY <2>1 DEF ReloadIdle, ReloadVars, Reloads!NoReloads, Reloads!Unread
  <1> QED BY <1>1, <1>2, <1>3, PTL DEF HostSpec

(* However the reads, builds and answers of any number of callers overlap, a call whose source answered *)
(* goes by settings no older than it began with, and refused ones serve nobody (resolve).               *)
THEOREM SettingsAlwaysApply == HostSpec => []SettingsApply
  <1>1. ReloadIdle => SettingsApply
    BY DEF ReloadIdle, Reloads!NoReloads, Reloads!Unread, Reloads!Idle, SettingsApply, Reloads!SettingsApply,
           Reloads!SettingsNotStale, Reloads!RefusedNotServed, Reloads!Answered
  <1>2. ReloadInv => SettingsApply
    <2> SUFFICES ASSUME ReloadInv, NEW c \in Caller, Reloads!Answered(c)
                 PROVE  /\ ~call[c].failed => call[c].outcome.settings >= call[c].since /\ current.settings >= call[c].since
                        /\ provider = "mail" /\ Reloads!Reply(c) = "served" => edits[call[c].outcome.settings] \in Servable
      BY DEF SettingsApply, Reloads!SettingsApply, Reloads!SettingsNotStale, Reloads!RefusedNotServed, Servable
    <2>1. call[c] \in CallState /\ CallSound(call[c]) /\ CaughtUp(call[c]) /\ call[c].at = "answered"
      BY DEF ReloadInv, ReloadTypes, Reloads!Answered
    <2>2. ASSUME ~call[c].failed
          PROVE  call[c].outcome.settings >= call[c].since /\ current.settings >= call[c].since
      <3>1. /\ call[c].outcome # Unset /\ call[c].since <= call[c].outcome.settings
            /\ current # Unset /\ call[c].since <= current.settings
        BY <2>1, <2>2 DEF CallSound, CaughtUp
      <3>2. call[c].outcome.settings \in Nat /\ current.settings \in Nat /\ call[c].since \in Nat
        BY <2>1, <3>1 DEF ReloadInv, ReloadTypes, CallState, Outcome
      <3> QED BY <3>1, <3>2
    <2>3. ASSUME provider = "mail", Reloads!Reply(c) = "served"  PROVE edits[call[c].outcome.settings] \in Servable
      <3>1. call[c].outcome # Unset /\ call[c].outcome.result = "built"
        BY <2>3 DEF Reloads!Reply
      <3> QED BY <2>1, <2>3, <3>1 DEF CallSound, OutcomeSound
    <2> QED BY <2>2, <2>3
  <1> QED BY <1>1, <1>2, ReloadKept, PTL

(***************************************************************************)
(* Keyed state                                                             *)
(*                                                                         *)
(* The backends agree on what is visible, entry by entry, of every key     *)
(* that no refused incr has set apart; eviction and the sweep change       *)
(* nothing that is visible.  A key that is no longer apart agrees again,   *)
(* which is what ends it.  The gate's key outlives the second it names,    *)
(* and that second is the one callers were told.                           *)
(***************************************************************************)
StateEntry == [value : Nat \cup {Text}, expiry : Nat \cup {Unset}]

Drain == [keys : SUBSET Plain, seen : SUBSET Plain, done : BOOLEAN]

Store == [State!StateKey -> StateEntry \cup {Unset}]

StateTypes ==
    /\ kind \in {"values", "gate", "prefix"}
    /\ tick \in Nat /\ told \in Nat
    /\ data \in Store /\ redis \in Store
    /\ drain \in Drain \cup {Unset}
    /\ apart \subseteq State!StateKey

(* No key is apart but in what hosts keep side by side as values. *)
NoneApart == kind # "values" => apart = {}

Agreed == \A k \in State!StateKey \ apart : State!Visible(data[k]) = State!Visible(redis[k])

(* The gate's key outlives the second it names, the one that callers were told while it lasts. *)
GateSound ==
    /\ \A k \in {"counter", "gate"} : redis[k] # Unset => redis[k].value \in Nat
    /\ redis["gate"] # Unset => redis["gate"].expiry \in Nat /\ redis["gate"].expiry >= 2 * redis["gate"].value
    /\ told > State!Second => redis["gate"] # Unset /\ redis["gate"].value = told

(* What the scan found and nobody wrote since is deleted, or still to be. *)
DrainSound ==
    drain # Unset => /\ drain.done => drain.keys = {}
                     /\ \A k \in drain.seen \ drain.keys : State!Stored(k) = Unset

StateInv ==
    /\ StateTypes /\ NoneApart
    /\ alike = TRUE /\ early = FALSE
    /\ kind # "prefix" => drain = Unset /\ Agreed
    /\ kind # "gate" => told = 0
    /\ kind = "gate" => GateSound
    /\ DrainSound

(* What the proofs about keyed state need of the constants. *)
LEMMA StateBounds ==
    /\ Unset \notin Nat /\ Text \notin Nat /\ Text # Unset
    /\ Unset \notin StateEntry /\ Unset \notin Drain
    /\ CounterTtl \in Nat
    /\ Tiers \in Seq([threshold : Nat, seconds : Nat])
  BY HostAssumption DEF StateEntry, Drain

(* A bounded set of numbers that is not empty has a greatest. *)
LEMMA Greatest ==
    ASSUME NEW n \in Nat, NEW R, R \subseteq 1..n, R # {}
    PROVE  \E i \in R : \A j \in R : j <= i
  <1> DEFINE T == {n - i : i \in R}
  <1>0. \A i \in R : i \in Nat /\ n - i \in Nat
    OBVIOUS
  <1>1. T \subseteq Nat /\ T # {}
    BY <1>0, Zenon
  <1>2. PICK x \in T : \A y \in T : ~(<<y, x>> \in OpToRel(<, Nat))
    <2> HIDE DEF T
    <2> QED BY <1>1, NatLessThanWellFounded, WFMin
  <1>3. \A y \in T : ~(y < x)
    BY <1>1, <1>2 DEF OpToRel
  <1>4. PICK i \in R : x = n - i
    OBVIOUS
  <1>5. ASSUME NEW j \in R  PROVE j <= i
    <2>1. ~(n - j < n - i)
      BY <1>3, <1>4
    <2> QED BY <2>1
  <1> QED BY <1>5

(* The seconds a count locks for. *)
LEMMA LockIsNat ==
    ASSUME NEW count \in Nat
    PROVE  State!LockSeconds(count) \in Nat
  <1> DEFINE reached == {i \in 1..Len(Tiers) : count >= Tiers[i].threshold}
             top == CHOOSE i \in reached : \A j \in reached : j <= i
  <1>1. CASE reached = {}
    BY <1>1 DEF State!LockSeconds
  <1>2. CASE reached # {}
    <2>1. Len(Tiers) \in Nat /\ Tiers \in Seq([threshold : Nat, seconds : Nat])
      BY StateBounds, LenProperties
    <2>2. \E i \in reached : \A j \in reached : j <= i
      BY <1>2, <2>1, Greatest
    <2>3. top \in reached
      BY <2>2
    <2>4. State!LockSeconds(count) = Tiers[top].seconds
      BY <1>2 DEF State!LockSeconds
    <2>5. Tiers[top] \in [threshold : Nat, seconds : Nat]
      BY <2>1, <2>3, ElementOfSeq
    <2> QED BY <2>4, <2>5
  <1> QED BY <1>1, <1>2

(* Seconds and half seconds. *)
LEMMA WholeSeconds ==
    ASSUME tick \in Nat
    PROVE  /\ State!Second \in Nat /\ 2 * State!Second <= tick
           /\ \A n \in Nat : n > State!Second <=> tick < 2 * n
  BY DEF State!Second

(* An entry. *)
LEMMA EntryFields ==
    ASSUME NEW v \in Nat \cup {Text}, NEW x \in Nat \cup {Unset}
    PROVE  /\ State!Entry(v, x) \in StateEntry /\ State!Entry(v, x) # Unset
           /\ State!Entry(v, x).value = v /\ State!Entry(v, x).expiry = x
  <1>1. State!Entry(v, x) \in StateEntry /\ State!Entry(v, x).value = v /\ State!Entry(v, x).expiry = x
    BY DEF State!Entry, StateEntry
  <1> QED BY <1>1, StateBounds

(* When an entry expires. *)
LEMMA ExpiryType ==
    ASSUME tick \in Nat, NEW ttl \in Nat \cup {Unset}
    PROVE  State!Expiry(ttl) \in Nat \cup {Unset}
  BY StateBounds DEF State!Expiry

(* What is live is what is visible. *)
LEMMA VisibleIsLive ==
    ASSUME NEW d \in Store, NEW k \in State!StateKey
    PROVE  /\ State!Visible(d[k]) \in StateEntry \cup {Unset}
           /\ State!LiveValue(d, k) = IF State!Visible(d[k]) = Unset THEN Unset ELSE State!Visible(d[k]).value
           /\ State!LiveValue(d, k) \in Nat \cup {Text, Unset}
           /\ State!LiveValue(d, k) # Unset <=> State!Visible(d[k]) # Unset
           /\ State!Visible(d[k]) # Unset => State!Visible(d[k]) = d[k]
  <1>1. d[k] \in StateEntry \cup {Unset}
    BY DEF Store
  <1>2. d[k] # Unset => d[k].value \in Nat \cup {Text} /\ d[k].value # Unset
    BY <1>1, StateBounds DEF StateEntry
  <1> QED BY <1>1, <1>2 DEF State!Visible, State!LiveValue

(* What the server answers is what is visible. *)
LEMMA VisibleIsStored ==
    ASSUME redis \in Store, NEW k \in State!StateKey
    PROVE  /\ State!Stored(k) = State!Visible(redis[k])
           /\ State!StoredValue(k) = IF State!Visible(redis[k]) = Unset THEN Unset ELSE State!Visible(redis[k]).value
           /\ State!StoredValue(k) \in Nat \cup {Text, Unset}
           /\ State!StoredValue(k) # Unset <=> State!Visible(redis[k]) # Unset
  <1>1. State!Stored(k) = State!Visible(redis[k])
    BY DEF State!Visible, State!Stored
  <1>2. redis[k] \in StateEntry \cup {Unset}
    BY DEF Store
  <1>3. redis[k] # Unset => redis[k].value \in Nat \cup {Text} /\ redis[k].value # Unset
    BY <1>2, StateBounds DEF StateEntry
  <1>4. State!Visible(redis[k]) \in {redis[k], Unset}
    BY DEF State!Visible
  <1> QED BY <1>1, <1>2, <1>3, <1>4 DEF State!StoredValue

(* A sweep changes nothing that is visible. *)
LEMMA SweptSame ==
    ASSUME data \in Store
    PROVE  State!Swept \in Store /\ \A k \in State!StateKey : State!Visible(State!Swept[k]) = State!Visible(data[k])
  <1>1. State!Swept \in Store
    BY DEF State!Swept, Store
  <1>2. ASSUME NEW k \in State!StateKey  PROVE State!Visible(State!Swept[k]) = State!Visible(data[k])
    BY DEF State!Swept, State!Visible, Store
  <1> QED BY <1>1, <1>2

(* Nor does the eviction of a key. *)
LEMMA EvictedSame ==
    ASSUME NEW d \in Store, NEW k \in State!StateKey
    PROVE  State!Evicted(d, k) \in Store
           /\ \A j \in State!StateKey : State!Visible(State!Evicted(d, k)[j]) = State!Visible(d[j])
  <1>1. State!Evicted(d, k) \in Store
    BY DEF State!Evicted, Store
  <1>2. ASSUME NEW j \in State!StateKey  PROVE State!Visible(State!Evicted(d, k)[j]) = State!Visible(d[j])
    BY DEF State!Evicted, State!Visible, Store
  <1> QED BY <1>1, <1>2

(* The backends gave the same answer, of keys that are not apart. *)
LEMMA SameAnswer ==
    ASSUME NEW keys, NEW m, NEW s, alike = TRUE, State!SideBySide /\ keys \cap apart = {} => m = s, State!Answers(keys, m, s)
    PROVE  alike' = TRUE
  BY DEF State!Answers

(* The keys that a step leaves apart; the others that were, or that it could have set apart, agree after it. *)
LEMMA PartingFacts ==
    ASSUME NEW K, K \subseteq State!StateKey, apart \subseteq State!StateKey, State!Parting(K)
    PROVE  /\ apart' \subseteq apart \cup K /\ apart' \subseteq State!StateKey
           /\ \A k \in State!StateKey : k \in apart \cup K /\ k \notin apart' => State!Visible(data[k])' = State!Visible(redis[k])'
  BY DEF State!Parting, State!Differs

(* A step that counts no occurrence and lets no time pass: the keys of K it may set apart. *)
LEMMA ValueStep ==
    ASSUME StateInv, kind # "gate", UNCHANGED <<kind, tick, told, early>>,
           alike' = TRUE, data' \in Store, redis' \in Store, drain' \in Drain \cup {Unset},
           NEW K, K \subseteq State!StateKey, kind # "values" => K = {}, State!Parting(K),
           kind # "prefix" =>
               /\ drain' = Unset
               /\ \A k \in State!StateKey : k \notin apart \cup K => State!Visible(data'[k]) = State!Visible(redis'[k]),
           drain' # Unset =>
               /\ drain'.done => drain'.keys = {}
               /\ \A k \in drain'.seen \ drain'.keys : State!Visible(redis'[k]) = Unset
    PROVE  StateInv'
  <1>0. apart' \subseteq apart \cup K /\ apart' \subseteq State!StateKey
    BY PartingFacts DEF StateInv, StateTypes
  <1>1. StateTypes'
    BY <1>0 DEF StateInv, StateTypes, State!StateKey
  <1>2. ASSUME NEW k \in State!StateKey, State!Visible(data[k])' = State!Visible(redis[k])'
        PROVE  State!Visible(data'[k]) = State!Visible(redis'[k])
    BY <1>2 DEF State!Visible, State!IsExpired
  <1>3. Agreed' <=> \A k \in State!StateKey : k \notin apart' => State!Visible(data'[k]) = State!Visible(redis'[k])
    BY DEF Agreed, State!Visible, State!IsExpired, State!StateKey
  <1>4. DrainSound'
    BY StateBounds DEF DrainSound, State!Stored, State!Visible, State!IsExpired
  <1>5. NoneApart'
    BY <1>0 DEF StateInv, NoneApart
  <1>6. kind # "prefix" => Agreed'
    <2> SUFFICES ASSUME kind # "prefix", NEW k \in State!StateKey, k \notin apart'
                 PROVE  State!Visible(data'[k]) = State!Visible(redis'[k])
      BY <1>3
    <2>1. CASE k \in apart \cup K
      BY <2>1, <1>2, PartingFacts DEF StateInv, StateTypes
    <2>2. CASE k \notin apart \cup K
      BY <2>2
    <2> QED BY <2>1, <2>2
  <1> QED BY <1>1, <1>4, <1>5, <1>6 DEF StateInv

(* Get. *)
LEMMA StateGet ==
    ASSUME StateInv, kind # "gate", NEW k \in Plain, State!Get(k)
    PROVE  StateInv'
  <1>t. data \in Store /\ redis \in Store /\ k \in State!StateKey /\ alike = TRUE
    BY DEF StateInv, StateTypes, State!StateKey
  <1>u. UNCHANGED <<kind, tick, told, early, redis, drain>> /\ State!Parting({})
    BY DEF State!Get
  <1>a. alike' = TRUE
    <2>1. State!SideBySide /\ k \notin apart => State!Visible(data[k]) = State!Visible(redis[k])
      BY <1>t DEF StateInv, Agreed, State!SideBySide
    <2>2. State!SideBySide /\ {k} \cap apart = {} => State!LiveValue(data, k) = State!StoredValue(k)
      BY <1>t, <2>1, VisibleIsLive, VisibleIsStored
    <2>3. State!Answers({k}, State!LiveValue(data, k), State!StoredValue(k))
      BY DEF State!Get
    <2> QED BY <1>t, <2>2, <2>3, SameAnswer
  <1>d. /\ data' \in Store
        /\ \A j \in State!StateKey : State!Visible(data'[j]) = State!Visible(data[j])
    BY <1>t, EvictedSame DEF State!Get, State!Memory
  <1>r. \A j \in State!StateKey : State!Visible(redis[j]) = State!Stored(j)
    BY <1>t, VisibleIsStored
  <1>k. drain # Unset => drain \in Drain /\ drain.seen \subseteq State!StateKey
    BY DEF StateInv, StateTypes, Drain, State!StateKey
  <1>b. kind # "prefix" =>
            /\ drain' = Unset
            /\ \A j \in State!StateKey : j \notin apart \cup {} => State!Visible(data'[j]) = State!Visible(redis'[j])
    BY <1>u, <1>d DEF StateInv, Agreed
  <1>e. drain' # Unset => /\ drain'.done => drain'.keys = {}
                          /\ \A j \in drain'.seen \ drain'.keys : State!Visible(redis'[j]) = Unset
    BY <1>u, <1>r, <1>k DEF StateInv, DrainSound
  <1>f. redis' \in Store /\ drain' \in Drain \cup {Unset}
    BY <1>t, <1>u DEF StateInv, StateTypes
  <1> QED BY <1>u, <1>a, <1>d, <1>b, <1>e, <1>f, ValueStep

(* What a write does to a scan in progress: the key no longer counts as seen. *)
LEMMA SeenLess ==
    ASSUME StateInv, NEW k \in Plain, State!Rewritten(k) \/ drain' = drain
    PROVE  /\ drain' \in Drain \cup {Unset}
           /\ drain = Unset => drain' = Unset
           /\ drain # Unset =>
                /\ drain' # Unset /\ drain'.keys = drain.keys /\ drain'.done = drain.done
                /\ drain'.seen \subseteq drain.seen
                /\ State!Rewritten(k) => k \notin drain'.seen
  <1>1. drain \in Drain \cup {Unset}
    BY DEF StateInv, StateTypes
  <1>2. ASSUME drain # Unset, State!Rewritten(k)
        PROVE  /\ drain' \in Drain /\ drain'.keys = drain.keys /\ drain'.done = drain.done
               /\ drain'.seen \subseteq drain.seen /\ k \notin drain'.seen
    <2>1. drain' = [drain EXCEPT !.seen = drain.seen \ {k}]
      BY <1>1, <1>2 DEF State!Rewritten, Drain
    <2> QED BY <1>1, <1>2, <2>1 DEF Drain
  <1>3. drain = Unset => drain' = Unset
    BY DEF State!Rewritten
  <1> QED BY <1>1, <1>2, <1>3, StateBounds DEF State!Rewritten

(* The backends write, keep or drop an entry of the key each: the same, unless the key is apart. *)
LEMMA WriteStep ==
    ASSUME StateInv, kind # "gate", NEW k \in Plain, UNCHANGED <<kind, tick, told, early>>, alike' = TRUE,
           NEW K, K \subseteq {k}, kind # "values" => K = {}, State!Parting(K),
           NEW base \in Store, \A j \in State!StateKey : State!Visible(base[j]) = State!Visible(data[j]),
           NEW m \in StateEntry \cup {Unset}, NEW e \in StateEntry \cup {Unset},
           State!SideBySide /\ k \notin apart \cup K => m = e,
           State!Memory([base EXCEPT ![k] = m]), redis' = [redis EXCEPT ![k] = e],
           State!Rewritten(k) \/ (drain' = drain /\ (e = Unset \/ State!Visible(redis[k]) # Unset))
    PROVE  StateInv'
  <1>t. data \in Store /\ redis \in Store /\ k \in State!StateKey
    BY DEF StateInv, StateTypes, State!StateKey
  <1>1. redis' \in Store /\ redis'[k] = e /\ \A j \in State!StateKey \ {k} : redis'[j] = redis[j]
    BY <1>t DEF Store
  <1>2. [base EXCEPT ![k] = m] \in Store
    BY <1>t DEF Store
  <1>3. data' \in Store
    BY <1>t, <1>2 DEF State!Memory
  <1>4. ASSUME kind # "prefix", NEW j \in State!StateKey, j \notin apart \cup K
        PROVE  State!Visible(data'[j]) = State!Visible(redis'[j])
    <2>1. data' = [base EXCEPT ![k] = m]
      BY <1>4 DEF State!Memory, State!SideBySide
    <2>2. CASE j = k
      <3>1. data'[j] = m /\ m = e
        BY <2>1, <2>2, <1>t, <1>4 DEF Store, State!SideBySide
      <3> QED BY <3>1, <2>2, <1>1
    <2>3. CASE j # k
      <3>1. data'[j] = base[j]
        BY <2>1, <2>3, <1>t DEF Store
      <3>2. State!Visible(data[j]) = State!Visible(redis[j])
        BY <1>4 DEF StateInv, Agreed
      <3> QED BY <3>1, <3>2, <2>3, <1>1
    <2> QED BY <2>2, <2>3
  <1>5. /\ drain' \in Drain \cup {Unset}
        /\ drain = Unset => drain' = Unset
        /\ drain # Unset =>
             /\ drain' # Unset /\ drain'.keys = drain.keys /\ drain'.done = drain.done
             /\ drain'.seen \subseteq drain.seen
             /\ State!Rewritten(k) => k \notin drain'.seen
    BY SeenLess
  <1>6. ASSUME drain' # Unset
        PROVE  /\ drain'.done => drain'.keys = {}
               /\ \A j \in drain'.seen \ drain'.keys : State!Visible(redis'[j]) = Unset
    <2>1. drain # Unset /\ drain \in Drain
      BY <1>5, <1>6 DEF StateInv, StateTypes
    <2>2. ASSUME NEW j \in drain'.seen \ drain'.keys  PROVE State!Visible(redis'[j]) = Unset
      <3>1. j \in drain.seen /\ j \notin drain.keys /\ j \in State!StateKey
        BY <1>5, <2>1, <2>2 DEF Drain, State!StateKey
      <3>2. State!Visible(redis[j]) = Unset
        BY <3>1, <2>1, <1>t, VisibleIsStored DEF StateInv, DrainSound
      <3>3. CASE j # k
        BY <3>1, <3>2, <3>3, <1>1
      <3>4. CASE j = k
        <4>1. e = Unset
          BY <3>2, <3>4, <2>1, <2>2, <1>5
        <4> QED BY <3>4, <4>1, <1>1 DEF State!Visible
      <3> QED BY <3>3, <3>4
    <2>3. drain'.done => drain'.keys = {}
      BY <1>5, <2>1 DEF StateInv, DrainSound
    <2> QED BY <2>2, <2>3
  <1>7. kind # "prefix" => drain' = Unset
    BY <1>5 DEF StateInv
  <1>8. K \subseteq State!StateKey
    BY <1>t
  <1> QED BY <1>1, <1>3, <1>4, <1>5, <1>6, <1>7, <1>8, ValueStep

(* What both backends see of a key that is not apart. *)
LEMMA SameSeen ==
    ASSUME StateInv, NEW k \in State!StateKey
    PROVE  /\ data \in Store /\ redis \in Store /\ tick \in Nat /\ alike = TRUE
           /\ State!Swept \in Store /\ \A j \in State!StateKey : State!Visible(State!Swept[j]) = State!Visible(data[j])
           /\ State!SideBySide /\ k \notin apart =>
                /\ State!Visible(State!Swept[k]) = State!Visible(redis[k])
                /\ State!LiveValue(data, k) = State!StoredValue(k)
                /\ State!LiveValue(State!Swept, k) = State!StoredValue(k)
           /\ State!StoredValue(k) \in Nat \cup {Text, Unset}
           /\ State!LiveValue(State!Swept, k) \in Nat \cup {Text, Unset}
  <1>1. data \in Store /\ redis \in Store /\ tick \in Nat /\ alike = TRUE
    BY DEF StateInv, StateTypes
  <1>2. State!Swept \in Store /\ \A j \in State!StateKey : State!Visible(State!Swept[j]) = State!Visible(data[j])
    BY <1>1, SweptSame
  <1>3. State!SideBySide /\ k \notin apart =>
            State!Visible(data[k]) = State!Visible(redis[k]) /\ State!Visible(State!Swept[k]) = State!Visible(redis[k])
    BY <1>2 DEF StateInv, Agreed, State!SideBySide
  <1> QED BY <1>1, <1>2, <1>3, VisibleIsLive, VisibleIsStored

(* Set. *)
LEMMA StateSet ==
    ASSUME StateInv, kind # "gate", NEW k \in Plain, NEW ttl \in State!Ttl, State!Set(k, Text, ttl)
    PROVE  StateInv'
  <1>1. k \in State!StateKey /\ ttl \in Nat \cup {Unset}
    BY DEF State!StateKey, State!Ttl
  <1>2. State!Entry(Text, State!Expiry(ttl)) \in StateEntry
    BY <1>1, SameSeen, ExpiryType, EntryFields
  <1>3. alike' = TRUE
    BY <1>1, SameSeen, SameAnswer DEF State!Set
  <1> DEFINE base == State!Swept
  <1>4. base \in Store /\ \A j \in State!StateKey : State!Visible(base[j]) = State!Visible(data[j])
    BY <1>1, SameSeen
  <1> HIDE DEF base
  <1>5. /\ State!Memory([base EXCEPT ![k] = State!Entry(Text, State!Expiry(ttl))])
        /\ redis' = [redis EXCEPT ![k] = State!Entry(Text, State!Expiry(ttl))]
        /\ State!Rewritten(k) /\ UNCHANGED <<kind, tick, told, early>> /\ State!Parting({})
    BY DEF State!Set, base
  <1> QED BY <1>2, <1>3, <1>4, <1>5, WriteStep

(* Delete. *)
LEMMA StateDelete ==
    ASSUME StateInv, kind # "gate", NEW k \in Plain, State!Delete(k)
    PROVE  StateInv'
  <1>1. k \in State!StateKey
    BY DEF State!StateKey
  <1>3. alike' = TRUE
    BY <1>1, SameSeen, SameAnswer DEF State!Delete
  <1>5. /\ State!Memory([data EXCEPT ![k] = Unset]) /\ redis' = [redis EXCEPT ![k] = Unset]
        /\ UNCHANGED <<kind, tick, told, early, drain>> /\ State!Parting({})
    BY DEF State!Delete
  <1> QED BY <1>1, <1>3, <1>5, SameSeen, WriteStep

(* GetAndDelete. *)
LEMMA StateGetAndDelete ==
    ASSUME StateInv, kind # "gate", NEW k \in Plain, State!GetAndDelete(k)
    PROVE  StateInv'
  <1>1. k \in State!StateKey
    BY DEF State!StateKey
  <1>3. alike' = TRUE
    BY <1>1, SameSeen, SameAnswer DEF State!GetAndDelete
  <1> DEFINE base == State!Evicted(data, k)
  <1>4. base \in Store /\ \A j \in State!StateKey : State!Visible(base[j]) = State!Visible(data[j])
    BY <1>1, SameSeen, EvictedSame
  <1> HIDE DEF base
  <1>5. /\ State!Memory([base EXCEPT ![k] = Unset]) /\ redis' = [redis EXCEPT ![k] = Unset]
        /\ UNCHANGED <<kind, tick, told, early, drain>> /\ State!Parting({})
    BY DEF State!GetAndDelete, base
  <1> QED BY <1>3, <1>4, <1>5, WriteStep

(* Incr: memory keeps the entry of a value that is no integer, Redis gives it an expiry where one is asked for. *)
LEMMA StateIncr ==
    ASSUME StateInv, kind # "gate", NEW k \in Plain, NEW ttl \in State!Ttl, State!Incr(k, ttl)
    PROVE  StateInv'
  <1> DEFINE base == State!Swept
             lv == State!LiveValue(base, k)
             sv == State!StoredValue(k)
             answer(v) == IF State!Parses(v) THEN State!Number(v) + 1 ELSE ValueError
             m == IF lv # Text THEN State!Entry(State!Number(lv) + 1, State!IncrExpiry(base, k, ttl)) ELSE base[k]
             value == IF sv # Text THEN State!Number(sv) + 1 ELSE sv
             e == State!Entry(value, State!RedisIncrExpiry(k, ttl))
             K == IF State!SideBySide /\ ttl # Unset /\ ~State!Parses(sv) THEN {k} ELSE {}
  <1>1. k \in State!StateKey /\ ttl \in Nat \cup {Unset}
    BY DEF State!StateKey, State!Ttl
  <1>2. /\ base \in Store /\ \A j \in State!StateKey : State!Visible(base[j]) = State!Visible(data[j])
        /\ State!SideBySide /\ k \notin apart => lv = sv /\ State!Visible(base[k]) = State!Visible(redis[k])
        /\ sv \in Nat \cup {Text, Unset} /\ lv \in Nat \cup {Text, Unset}
        /\ redis \in Store /\ tick \in Nat /\ alike = TRUE
    BY <1>1, SameSeen
  <1>3. State!Expiry(ttl) \in Nat \cup {Unset}
    BY <1>1, <1>2, ExpiryType
  <1>4. /\ lv # Text => State!Number(lv) + 1 \in Nat
        /\ sv # Text => State!Number(sv) + 1 \in Nat
        /\ value \in Nat \cup {Text}
    BY <1>2, StateBounds DEF State!Number
  <1> HIDE DEF base
  <1>5. /\ State!Visible(base[k]) # Unset => State!Visible(base[k]) = base[k]
        /\ lv # Unset <=> State!Visible(base[k]) # Unset
        /\ State!Visible(base[k]) \in StateEntry \cup {Unset} /\ base[k] \in StateEntry \cup {Unset}
        /\ State!Stored(k) = State!Visible(redis[k]) /\ State!Visible(redis[k]) \in StateEntry \cup {Unset}
        /\ sv = IF State!Visible(redis[k]) = Unset THEN Unset ELSE State!Visible(redis[k]).value
    BY <1>1, <1>2, VisibleIsLive, VisibleIsStored DEF Store
  <1>6. State!IncrExpiry(base, k, ttl) = IF ttl # Unset THEN State!Expiry(ttl) ELSE
                                         IF State!Visible(base[k]) # Unset THEN State!Visible(base[k]).expiry ELSE Unset
    BY <1>5 DEF State!IncrExpiry
  <1>7. State!RedisIncrExpiry(k, ttl) = IF ttl # Unset THEN State!Expiry(ttl) ELSE
                                        IF State!Visible(redis[k]) # Unset THEN State!Visible(redis[k]).expiry ELSE Unset
    BY <1>5 DEF State!RedisIncrExpiry
  <1>8. /\ State!IncrExpiry(base, k, ttl) \in Nat \cup {Unset}
        /\ State!RedisIncrExpiry(k, ttl) \in Nat \cup {Unset}
        /\ State!SideBySide /\ k \notin apart => State!IncrExpiry(base, k, ttl) = State!RedisIncrExpiry(k, ttl)
    BY <1>2, <1>3, <1>5, <1>6, <1>7 DEF StateEntry
  <1>9. m \in StateEntry \cup {Unset} /\ e \in StateEntry
    BY <1>4, <1>5, <1>8, EntryFields
  <1>10. ASSUME State!SideBySide, k \notin apart \cup K  PROVE m = e
    <2>1. lv = sv /\ State!Visible(base[k]) = State!Visible(redis[k])
      BY <1>2, <1>10
    <2>2. CASE sv # Text
      BY <2>1, <2>2, <1>8, <1>10
    <2>3. CASE sv = Text
      <3>1. ttl = Unset
        BY <2>3, <1>10 DEF State!Parses
      <3> DEFINE r == State!Visible(redis[k])
      <3>2. r # Unset /\ r \in StateEntry /\ r.value = Text /\ base[k] = r /\ State!RedisIncrExpiry(k, ttl) = r.expiry
        BY <2>1, <2>3, <3>1, <1>5, <1>7, StateBounds
      <3>3. r = [value |-> r.value, expiry |-> r.expiry]
        BY <3>2 DEF StateEntry
      <3>4. e = [value |-> Text, expiry |-> r.expiry]
        BY <3>2, <2>3 DEF State!Entry
      <3>5. m = base[k]
        BY <2>1, <2>3
      <3> QED BY <3>2, <3>3, <3>4, <3>5
    <2> QED BY <2>2, <2>3
  <1>11. /\ State!Memory([base EXCEPT ![k] = m])
         /\ redis' = [redis EXCEPT ![k] = e]
         /\ State!Answers({k}, answer(lv), answer(sv))
         /\ State!Rewritten(k) \/ (drain' = drain /\ sv = Text)
         /\ UNCHANGED <<kind, tick, told, early>> /\ State!Parting(K)
    <2>1. lv = Text => State!Memory(base)
      BY DEF State!Incr, State!Parses, base
    <2>2. lv # Text => State!Memory([base EXCEPT ![k] = m])
      BY DEF State!Incr, State!Parses, base
    <2>3. lv = Text => [base EXCEPT ![k] = m] = base
      BY <1>1, <1>2 DEF Store
    <2>4. redis' = [redis EXCEPT ![k] = e]
      BY DEF State!Incr, State!Parses
    <2>5. State!Answers({k}, answer(lv), answer(sv))
      BY DEF State!Incr, base
    <2>6. State!Rewritten(k) \/ (drain' = drain /\ sv = Text)
      BY DEF State!Incr, State!Parses
    <2>7. UNCHANGED <<kind, tick, told, early>> /\ State!Parting(K)
      BY DEF State!Incr
    <2> HIDE DEF m, e, lv, sv, K, answer
    <2> QED BY <2>1, <2>2, <2>3, <2>4, <2>5, <2>6, <2>7
  <1>12. alike' = TRUE
    <2>1. State!SideBySide /\ {k} \cap apart = {} => answer(lv) = answer(sv)
      BY <1>2
    <2> HIDE DEF answer, lv, sv
    <2> QED BY <1>2, <1>11, <2>1, SameAnswer
  <1>13. K \subseteq {k} /\ (kind # "values" => K = {})
    <2>1. kind \in {"values", "gate", "prefix"}
      BY DEF StateInv, StateTypes
    <2> QED BY <2>1 DEF State!SideBySide
  <1>14. sv = Text => State!Visible(redis[k]) # Unset
    BY <1>5, StateBounds
  <1> HIDE DEF base, lv, sv, m, e, K, answer, value
  <1> QED BY <1>2, <1>9, <1>10, <1>11, <1>12, <1>13, <1>14, WriteStep

(* SetIfAbsent: each backend keeps the entry it has, or both write the same. *)
LEMMA StateSetIfAbsent ==
    ASSUME StateInv, kind # "gate", NEW k \in Plain, NEW ttl \in State!Ttl, State!SetIfAbsent(k, ttl)
    PROVE  StateInv'
  <1> DEFINE base == State!Swept
             lv == State!LiveValue(base, k)
             new == State!Entry(Text, State!Expiry(ttl))
             m == IF lv # Unset THEN base[k] ELSE new
             e == IF State!Stored(k) # Unset THEN redis[k] ELSE new
  <1>1. k \in State!StateKey /\ ttl \in Nat \cup {Unset}
    BY DEF State!StateKey, State!Ttl
  <1>2. /\ base \in Store /\ \A j \in State!StateKey : State!Visible(base[j]) = State!Visible(data[j])
        /\ State!SideBySide /\ k \notin apart => lv = State!StoredValue(k) /\ State!Visible(base[k]) = State!Visible(redis[k])
        /\ redis \in Store /\ tick \in Nat /\ alike = TRUE
    BY <1>1, SameSeen
  <1>3. new \in StateEntry
    BY <1>1, <1>2, ExpiryType, EntryFields
  <1> HIDE DEF base
  <1>4. /\ State!Stored(k) = Unset <=> State!StoredValue(k) = Unset
        /\ State!Stored(k) = State!Visible(redis[k])
        /\ lv # Unset => State!Visible(base[k]) = base[k]
        /\ State!Stored(k) # Unset => State!Visible(redis[k]) = redis[k]
    BY <1>1, <1>2, VisibleIsStored, VisibleIsLive
  <1>5. m \in StateEntry \cup {Unset} /\ e \in StateEntry \cup {Unset}
    BY <1>1, <1>2, <1>3 DEF Store
  <1>6. State!SideBySide /\ k \notin apart => m = e /\ ((lv = Unset) = (State!Stored(k) = Unset))
    BY <1>2, <1>4
  <1>7. /\ State!Memory([base EXCEPT ![k] = m])
        /\ redis' = [redis EXCEPT ![k] = e]
        /\ State!Answers({k}, lv = Unset, State!Stored(k) = Unset)
        /\ State!Rewritten(k) \/ (drain' = drain /\ State!Stored(k) # Unset)
        /\ UNCHANGED <<kind, tick, told, early>> /\ State!Parting({})
    <2>1. lv # Unset => [base EXCEPT ![k] = m] = base
      BY <1>1, <1>2 DEF Store
    <2>2. State!Stored(k) # Unset => [redis EXCEPT ![k] = e] = redis
      BY <1>1, <1>2 DEF Store
    <2>3. IF lv # Unset THEN State!Memory(base) ELSE State!Memory([base EXCEPT ![k] = m])
      BY DEF State!SetIfAbsent, base
    <2>4. IF State!Stored(k) # Unset THEN redis' = redis ELSE redis' = [redis EXCEPT ![k] = e]
      BY DEF State!SetIfAbsent
    <2>5. State!Answers({k}, lv = Unset, State!Stored(k) = Unset)
      BY DEF State!SetIfAbsent, base
    <2>6. /\ State!Rewritten(k) \/ (drain' = drain /\ State!Stored(k) # Unset)
          /\ UNCHANGED <<kind, tick, told, early>> /\ State!Parting({})
      BY DEF State!SetIfAbsent
    <2> HIDE DEF m, e, lv
    <2> QED BY <2>1, <2>2, <2>3, <2>4, <2>5, <2>6
  <1>8. alike' = TRUE
    <2>1. State!SideBySide /\ {k} \cap apart = {} => (lv = Unset) = (State!Stored(k) = Unset)
      BY <1>6
    <2> HIDE DEF lv
    <2> QED BY <1>2, <1>7, <2>1, SameAnswer
  <1> HIDE DEF lv, new, m, e
  <1> QED BY <1>2, <1>4, <1>5, <1>6, <1>7, <1>8, WriteStep

(* IterKeys leaves out what expired and was not swept. *)
LEMMA StateIterKeys ==
    ASSUME StateInv, kind = "values", State!IterKeys
    PROVE  StateInv'
  <1>t. data \in Store /\ redis \in Store /\ alike = TRUE /\ State!SideBySide /\ drain = Unset /\ Agreed
    BY DEF StateInv, StateTypes, State!SideBySide
  <1>u. UNCHANGED <<kind, tick, told, early, redis, drain>> /\ State!Parting({})
    BY DEF State!IterKeys
  <1>1. \A k \in State!StateKey \ apart : State!LiveValue(data, k) # Unset <=> State!Stored(k) # Unset
    BY <1>t, VisibleIsLive, VisibleIsStored DEF Agreed
  <1>2. Plain \cap apart = {} =>
            {k \in Plain : State!LiveValue(data, k) # Unset} = {k \in Plain : State!Stored(k) # Unset}
    BY <1>1 DEF State!StateKey
  <1>3. alike' = TRUE
    BY <1>t, <1>2, SameAnswer DEF State!IterKeys
  <1>4. data' = [k \in State!StateKey |-> IF k \in Plain THEN State!Evicted(data, k)[k] ELSE data[k]]
    BY <1>t DEF State!IterKeys, State!Memory
  <1>5. ASSUME NEW k \in State!StateKey
        PROVE  data'[k] \in StateEntry \cup {Unset} /\ State!Visible(data'[k]) = State!Visible(data[k])
    BY <1>t, <1>4, EvictedSame DEF Store
  <1>6. data' \in Store
    BY <1>4, <1>5 DEF Store
  <1> QED BY <1>t, <1>u, <1>3, <1>5, <1>6, ValueStep DEF Agreed

(* DeletePrefix drops the same keys in both backends. *)
LEMMA StateDeletePrefix ==
    ASSUME StateInv, kind = "values", State!DeletePrefix
    PROVE  StateInv'
  <1>t. data \in Store /\ redis \in Store /\ alike = TRUE /\ State!SideBySide /\ drain = Unset /\ Agreed
    BY DEF StateInv, StateTypes, State!SideBySide
  <1>u. UNCHANGED <<kind, tick, told, early, drain>> /\ State!Parting({})
    BY DEF State!DeletePrefix
  <1>1. \A k \in State!StateKey \ apart : State!LiveValue(data, k) # Unset <=> State!Stored(k) # Unset
    BY <1>t, VisibleIsLive, VisibleIsStored DEF Agreed
  <1>2. Plain \cap apart = {} =>
            {k \in Plain : State!LiveValue(data, k) # Unset} = {k \in Plain : State!Stored(k) # Unset}
    BY <1>1 DEF State!StateKey
  <1>3. alike' = TRUE
    BY <1>t, <1>2, SameAnswer DEF State!DeletePrefix
  <1>4. /\ data' = [k \in State!StateKey |-> IF k \in Plain THEN Unset ELSE data[k]]
        /\ redis' = [k \in State!StateKey |-> IF k \in Plain THEN Unset ELSE redis[k]]
    BY DEF State!DeletePrefix
  <1>5. data' \in Store /\ redis' \in Store
    BY <1>t, <1>4 DEF Store
  <1>6. \A k \in State!StateKey : k \notin apart => State!Visible(data'[k]) = State!Visible(redis'[k])
    BY <1>t, <1>4 DEF Agreed
  <1> QED BY <1>t, <1>u, <1>3, <1>5, <1>6, ValueStep

(* A scan, the deletions that follow it and its end. *)
LEMMA StateScan ==
    ASSUME StateInv, kind = "prefix", State!ScanPrefix \/ State!DeleteKeys \/ State!PrefixDeleted
    PROVE  StateInv'
  <1>t. data \in Store /\ redis \in Store /\ alike = TRUE /\ drain \in Drain \cup {Unset} /\ Plain \subseteq State!StateKey
    BY DEF StateInv, StateTypes, State!StateKey
  <1>u. UNCHANGED <<kind, tick, told, early, data>> /\ alike' = TRUE /\ State!Parting({})
    BY <1>t DEF State!ScanPrefix, State!DeleteKeys, State!PrefixDeleted
  <1>1. CASE State!ScanPrefix
    <2> DEFINE found == {k \in Plain : State!Stored(k) # Unset}
    <2>1. redis' = redis /\ drain' = [keys |-> found, seen |-> found, done |-> FALSE] /\ found \subseteq Plain
      BY <1>1 DEF State!ScanPrefix
    <2> HIDE DEF found
    <2>2. drain' \in Drain /\ drain'.keys = drain'.seen /\ drain'.done = FALSE
      BY <2>1 DEF Drain
    <2> QED BY <1>t, <1>u, <2>1, <2>2, ValueStep
  <1>2. CASE State!DeleteKeys
    <2>1. PICK batch \in SUBSET drain.keys :
              /\ redis' = [k \in State!StateKey |-> IF k \in batch THEN Unset ELSE redis[k]]
              /\ drain' = [drain EXCEPT !.keys = State!KeysLeft(@, batch), !.done = State!KeysLeft(drain.keys, batch) = {}]
      BY <1>2, ZenonT(30) DEF State!DeleteKeys
    <2>2. drain \in Drain /\ drain # Unset
      BY <1>t, <1>2 DEF State!DeleteKeys
    <2>3. drain.keys \subseteq Plain /\ drain.seen \subseteq Plain
      BY <2>2 DEF Drain
    <2> DEFINE left == drain.keys \ batch
    <2>4. PICK f \in BOOLEAN : f = (left = {})
      OBVIOUS
    <2>5. drain' = [drain EXCEPT !.keys = left, !.done = f]
      BY <2>1, <2>2, <2>4 DEF State!KeysLeft, Drain
    <2>6. left \subseteq Plain
      BY <2>3
    <2> HIDE DEF left
    <2>7. drain' \in Drain /\ drain'.keys = left /\ drain'.done = f /\ drain'.seen = drain.seen
      BY <2>2, <2>5, <2>6 DEF Drain
    <2>8. redis' \in Store
      BY <1>t, <2>1 DEF Store
    <2>9. ASSUME NEW k \in drain.seen \ left  PROVE State!Visible(redis'[k]) = Unset
      <3>1. k \in State!StateKey
        BY <1>t, <2>3
      <3>2. CASE k \in batch
        BY <3>1, <3>2, <2>1 DEF State!Visible
      <3>3. CASE k \notin batch
        <4>1. redis'[k] = redis[k] /\ k \notin drain.keys
          BY <3>1, <3>3, <2>1, <2>9 DEF left
        <4> QED BY <3>1, <4>1, <1>t, <2>2, <2>9, VisibleIsStored DEF StateInv, DrainSound
      <3> QED BY <3>2, <3>3
    <2>10. drain'.done => drain'.keys = {}
      BY <2>4, <2>7
    <2> QED BY <1>t, <1>u, <2>7, <2>8, <2>9, <2>10, ValueStep
  <1>3. CASE State!PrefixDeleted
    <2>1. redis' = redis /\ drain' = Unset
      BY <1>3 DEF State!PrefixDeleted
    <2> QED BY <1>t, <1>u, <2>1, ValueStep
  <1> QED BY <1>1, <1>2, <1>3

(* Time passes: what was not visible stays so, and what both backends show they both cease to show. *)
LEMMA StateTime ==
    ASSUME StateInv, State!TimePasses
    PROVE  StateInv'
  <1>t. /\ data \in Store /\ redis \in Store /\ tick \in Nat /\ told \in Nat
        /\ drain \in Drain \cup {Unset}
    BY DEF StateInv, StateTypes
  <1>u. UNCHANGED <<kind, data, nextSweep, redis, alike, told, early, drain>> /\ tick' = tick + 1 /\ State!Parting({})
    BY DEF State!TimePasses
  <1>p. /\ apart' \subseteq apart /\ apart' \subseteq State!StateKey
        /\ \A k \in State!StateKey : k \in apart /\ k \notin apart' => State!Visible(data[k])' = State!Visible(redis[k])'
    BY <1>u, PartingFacts DEF StateInv, StateTypes
  <1>1. StateTypes' /\ NoneApart'
    BY <1>t, <1>u, <1>p DEF StateInv, StateTypes, NoneApart, State!StateKey
  <1>2. ASSUME NEW e \in StateEntry \cup {Unset}, State!Visible(e) = Unset  PROVE State!Visible(e)' = Unset
    <2>1. CASE e = Unset
      BY <2>1 DEF State!Visible
    <2>2. CASE e # Unset
      <3>1. e.expiry # Unset /\ e.expiry <= tick /\ e.expiry \in Nat
        BY <1>2, <2>2 DEF State!Visible, State!IsExpired, StateEntry
      <3>2. e.expiry <= tick'
        BY <3>1, <1>t, <1>u
      <3> QED BY <2>2, <3>1, <3>2 DEF State!Visible, State!IsExpired
    <2> QED BY <2>1, <2>2
  <1>3. Agreed => Agreed'
    <2> SUFFICES ASSUME Agreed, NEW k \in State!StateKey, k \notin apart  PROVE State!Visible(data[k])' = State!Visible(redis[k])'
      BY <1>p DEF Agreed, State!StateKey
    <2>1. data[k] \in StateEntry \cup {Unset} /\ redis[k] \in StateEntry \cup {Unset} /\ State!Visible(data[k]) = State!Visible(redis[k])
      BY <1>t DEF Store, Agreed
    <2>2. CASE State!Visible(data[k]) = Unset
      <3>1. State!Visible(data[k])' = Unset
        BY <2>1, <2>2, <1>2, <1>u
      <3>2. State!Visible(redis[k])' = Unset
        BY <2>1, <2>2, <1>2, <1>u
      <3> QED BY <3>1, <3>2
    <2>3. CASE State!Visible(data[k]) # Unset
      <3>1. data[k] = redis[k]
        BY <2>1, <2>3 DEF State!Visible
      <3> QED BY <3>1, <1>u
    <2> QED BY <2>2, <2>3
  <1>4. DrainSound'
    <2> SUFFICES ASSUME drain # Unset  PROVE /\ drain.done => drain.keys = {}
                                             /\ \A k \in drain.seen \ drain.keys : State!Stored(k)' = Unset
      BY <1>u DEF DrainSound
    <2>1. ASSUME NEW k \in drain.seen \ drain.keys  PROVE State!Stored(k)' = Unset
      <3>1. k \in State!StateKey /\ State!Stored(k) = Unset /\ redis[k] \in StateEntry \cup {Unset}
        BY <1>t, <2>1 DEF StateInv, DrainSound, Drain, State!StateKey, Store
      <3>2. State!Visible(redis[k]) = Unset
        BY <3>1, <1>t, VisibleIsStored
      <3>3. State!Visible(redis[k])' = Unset
        BY <3>1, <3>2, <1>2, <1>u
      <3> QED BY <3>3 DEF State!Visible, State!Stored
    <2> QED BY <2>1 DEF StateInv, DrainSound
  <1>5. kind = "gate" => GateSound'
    <2>1. State!Second' >= State!Second /\ State!Second' \in Nat /\ State!Second \in Nat
      BY <1>t, <1>u DEF State!Second
    <2>2. told > State!Second' => told > State!Second
      BY <2>1, <1>t
    <2> QED BY <2>2, <1>u DEF StateInv, GateSound
  <1> QED BY <1>1, <1>3, <1>4, <1>5, <1>u DEF StateInv

(* What counting an occurrence writes. *)
LEMMA CountedStore ==
    ASSUME tick \in Nat, NEW d \in Store, NEW n \in Nat
    PROVE  /\ State!Counted(d, n) \in Store
           /\ State!Counted(d, n)["counter"] = State!Entry(n, State!Expiry(CounterTtl))
           /\ State!Counted(d, n)["gate"] = IF State!LockSeconds(n) > 0
                                            THEN State!Entry(State!Second + State!LockSeconds(n), tick + 2 * State!LockSeconds(n))
                                            ELSE Unset
           /\ \A k \in State!StateKey \ {"counter", "gate"} : State!Counted(d, n)[k] = d[k]
  <1> DEFINE wait == State!LockSeconds(n)
             gate == IF wait > 0 THEN State!Entry(State!Second + wait, tick + 2 * wait) ELSE Unset
             counter == State!Entry(n, State!Expiry(CounterTtl))
  <1>1. wait \in Nat /\ State!Second \in Nat
    BY LockIsNat, WholeSeconds
  <1>2. counter \in StateEntry
    BY StateBounds, ExpiryType, EntryFields
  <1>3. gate \in StateEntry \cup {Unset}
    <2>1. State!Second + wait \in Nat /\ tick + 2 * wait \in Nat
      BY <1>1
    <2> QED BY <2>1, EntryFields
  <1>4. State!Counted(d, n) = [d EXCEPT !["counter"] = counter, !["gate"] = gate]
    BY DEF State!Counted, State!GateExpiry
  <1>5. "counter" \in State!StateKey /\ "gate" \in State!StateKey
    BY DEF State!StateKey
  <1> HIDE DEF counter, gate
  <1>6. /\ State!Counted(d, n) \in Store
        /\ State!Counted(d, n)["counter"] = counter /\ State!Counted(d, n)["gate"] = gate
        /\ \A k \in State!StateKey \ {"counter", "gate"} : State!Counted(d, n)[k] = d[k]
    BY <1>2, <1>3, <1>4, <1>5 DEF Store
  <1> QED BY <1>6 DEF counter, gate

(* record_tiered_failure: a gate that is shut for the server is shut for memory, and while a second that *)
(* callers were told lies ahead it is shut.                                                              *)
LEMMA StateTiered ==
    ASSUME StateInv, kind = "gate", State!RecordTieredFailure
    PROVE  StateInv'
  <1> DEFINE g == State!StoredValue("gate")
             c == State!StoredValue("counter")
             out == State!Outcome(g, c)
             n == State!Number(c) + 1
             wait == State!LockSeconds(n)
  <1>t. /\ data \in Store /\ redis \in Store /\ tick \in Nat /\ told \in Nat /\ alike = TRUE /\ early = FALSE
        /\ drain = Unset /\ Agreed /\ GateSound /\ State!SideBySide /\ apart = {}
        /\ "counter" \in State!StateKey /\ "gate" \in State!StateKey
    BY DEF StateInv, StateTypes, NoneApart, State!SideBySide, State!StateKey
  <1>s. /\ State!Second \in Nat /\ 2 * State!Second <= tick
        /\ \A i \in Nat : i > State!Second <=> tick < 2 * i
    BY <1>t, WholeSeconds
  <1>1. /\ State!LiveValue(State!Swept, "gate") = g /\ State!LiveValue(State!Swept, "counter") = c
        /\ State!Swept \in Store /\ \A j \in State!StateKey : State!Visible(State!Swept[j]) = State!Visible(data[j])
    BY <1>t, SameSeen
  <1>2. /\ g # Unset => redis["gate"] # Unset /\ g = redis["gate"].value /\ g \in Nat
        /\ c # Unset => c \in Nat
    <2>1. State!StoredValue("gate") # Unset => redis["gate"] # Unset /\ State!StoredValue("gate") = redis["gate"].value
      BY DEF State!StoredValue, State!Stored
    <2>2. State!StoredValue("counter") # Unset => redis["counter"] # Unset /\ State!StoredValue("counter") = redis["counter"].value
      BY DEF State!StoredValue, State!Stored
    <2> QED BY <1>t, <2>1, <2>2 DEF GateSound
  <1>3. told > State!Second => State!Shut(g)
    <2> SUFFICES ASSUME told > State!Second  PROVE g = told
      BY StateBounds, <1>t DEF State!Shut
    <2>1. /\ redis["gate"] # Unset /\ redis["gate"].value = told
          /\ redis["gate"].expiry \in Nat /\ redis["gate"].expiry >= 2 * told
      BY <1>t DEF GateSound
    <2>2. ~(redis["gate"].expiry <= tick)
      BY <2>1, <1>t, <1>s
    <2> QED BY <2>1, <2>2 DEF State!StoredValue, State!Stored, State!IsExpired
  <1>4. /\ data' = IF State!Shut(g) THEN State!Evicted(State!Swept, "counter") ELSE State!Counted(State!Swept, n)
        /\ redis' = IF State!Shut(g) THEN redis ELSE State!Counted(redis, n)
        /\ State!Answers({"counter", "gate"}, out, out)
        /\ told' = IF out[2] # Unset THEN out[2] ELSE told
        /\ early' = (early \/ (~State!Shut(g) /\ State!Second < told))
        /\ UNCHANGED <<kind, tick, drain>> /\ State!Parting({})
    BY <1>1, <1>t DEF State!RecordTieredFailure, State!Memory
  <1>p. apart' = {}
    BY <1>4, <1>t, PartingFacts
  <1>5. alike' = TRUE
    BY <1>t, <1>4, SameAnswer
  <1>6. early' = FALSE
    BY <1>t, <1>3, <1>4, <1>s
  <1>7. Agreed' <=> \A k \in State!StateKey : State!Visible(data'[k]) = State!Visible(redis'[k])
    BY <1>4, <1>p DEF Agreed, State!Visible, State!IsExpired, State!StateKey
  <1>8. State!Second' = State!Second
    BY <1>4 DEF State!Second
  <1>9. CASE State!Shut(g)
    <2>1. g # Unset /\ g > State!Second
      BY <1>9 DEF State!Shut
    <2>2. out[2] = g
      BY <1>9 DEF State!Outcome
    <2>3. told' = g /\ redis' = redis
      BY <1>4, <1>9, <2>1, <2>2
    <2>4. data' = State!Evicted(State!Swept, "counter")
      BY <1>4, <1>9
    <2>5. data' \in Store /\ \A j \in State!StateKey : State!Visible(data'[j]) = State!Visible(data[j])
      BY <1>1, <1>t, <2>4, EvictedSame
    <2>6. Agreed'
      BY <1>t, <1>7, <2>3, <2>5 DEF Agreed
    <2>7. GateSound'
      BY <1>2, <1>t, <1>8, <2>1, <2>3 DEF GateSound
    <2>8. StateTypes'
      BY <1>2, <1>4, <1>p, <1>t, <2>1, <2>3, <2>5 DEF StateInv, StateTypes
    <2> QED BY <1>4, <1>5, <1>6, <1>p, <1>t, <2>6, <2>7, <2>8 DEF StateInv, NoneApart, DrainSound
  <1>10. CASE ~State!Shut(g)
    <2>1. n \in Nat /\ wait \in Nat
      BY <1>2, LockIsNat DEF State!Number
    <2>2. out[2] = IF wait > 0 THEN State!Second + wait ELSE Unset
      BY <1>10 DEF State!Outcome
    <2>3. told' = IF wait > 0 THEN State!Second + wait ELSE told
      <3>1. State!Second + wait \in Nat /\ State!Second + wait # Unset
        BY <2>1, <1>s, StateBounds
      <3> QED BY <2>2, <3>1, <1>4
    <2>4. ~(told > State!Second)
      BY <1>3, <1>10
    <2> DEFINE e == State!Entry(State!Second + wait, tick + 2 * wait)
    <2>5. /\ redis' \in Store
          /\ redis'["counter"] = State!Entry(n, State!Expiry(CounterTtl))
          /\ redis'["gate"] = IF wait > 0 THEN e ELSE Unset
          /\ \A k \in State!StateKey \ {"counter", "gate"} : redis'[k] = redis[k]
      BY <1>4, <1>10, <1>t, <2>1, CountedStore
    <2>6. /\ data' \in Store
          /\ data'["counter"] = State!Entry(n, State!Expiry(CounterTtl))
          /\ data'["gate"] = IF wait > 0 THEN e ELSE Unset
          /\ \A k \in State!StateKey \ {"counter", "gate"} : data'[k] = State!Swept[k]
      BY <1>1, <1>4, <1>10, <1>t, <2>1, CountedStore
    <2>7. State!Second + wait \in Nat /\ tick + 2 * wait \in Nat /\ tick + 2 * wait >= 2 * (State!Second + wait)
      BY <1>s, <1>t, <2>1
    <2>8. e.value = State!Second + wait /\ e.expiry = tick + 2 * wait /\ e # Unset
      BY <2>7, EntryFields
    <2>9. State!Entry(n, State!Expiry(CounterTtl)).value = n
      BY <1>t, <2>1, ExpiryType, EntryFields, StateBounds
    <2>10. Agreed'
      <3> SUFFICES ASSUME NEW k \in State!StateKey  PROVE State!Visible(data'[k]) = State!Visible(redis'[k])
        BY <1>7
      <3>1. CASE k \in {"counter", "gate"}
        BY <3>1, <2>5, <2>6
      <3>2. CASE k \notin {"counter", "gate"}
        BY <3>2, <2>5, <2>6, <1>1, <1>t DEF Agreed
      <3> QED BY <3>1, <3>2
    <2> HIDE DEF e, n, wait, out
    <2>11. GateSound'
      <3>1. redis'["counter"].value \in Nat
        BY <2>1, <2>5, <2>9
      <3>2. CASE wait > 0
        BY <3>1, <3>2, <2>3, <2>5, <2>7, <2>8, <1>8 DEF GateSound
      <3>3. CASE ~(wait > 0)
        BY <3>1, <3>3, <2>3, <2>4, <2>5, <1>8 DEF GateSound
      <3> QED BY <3>2, <3>3
    <2>12. StateTypes'
      BY <1>4, <1>p, <1>t, <2>3, <2>5, <2>6, <2>7 DEF StateInv, StateTypes
    <2> QED BY <1>4, <1>5, <1>6, <1>p, <1>t, <2>10, <2>11, <2>12 DEF StateInv, NoneApart, DrainSound
  <1> QED BY <1>9, <1>10

(* The invariant of keyed state. *)
LEMMA StateStays == HostSpec => []StateInv
  <1>1. HostInit => StateInv
    <2> SUFFICES ASSUME State!Unused, kind \in {"values", "gate", "prefix"}  PROVE StateInv
      BY DEF HostInit, State!Init, State!NoState
    <2>1. data \in Store /\ redis \in Store
      BY DEF State!Unused, Store
    <2>2. StateTypes
      BY <2>1 DEF State!Unused, StateTypes
    <2>3. Agreed /\ NoneApart
      BY DEF State!Unused, Agreed, NoneApart
    <2>4. GateSound
      <3>1. tick = 0 /\ told = 0 /\ redis["gate"] = Unset /\ redis["counter"] = Unset
        BY DEF State!Unused, State!StateKey
      <3>2. ~(told > State!Second)
        BY <3>1, WholeSeconds
      <3> QED BY <3>1, <3>2 DEF GateSound
    <2> QED BY <2>2, <2>3, <2>4 DEF State!Unused, StateInv, DrainSound
  <1>2. StateInv /\ [HostNext]_allVars => StateInv'
    <2> SUFFICES ASSUME StateInv, [HostNext]_allVars  PROVE StateInv'
      OBVIOUS
    <2>1. [State!Next]_StateVars
      BY DEF HostNext, allVars, StateVars
    <2>2. CASE UNCHANGED StateVars
      BY <2>2 DEF StateVars, StateInv, StateTypes, NoneApart, Agreed, GateSound, DrainSound, State!Visible, State!IsExpired, State!Stored,
             State!Second, State!StateKey
    <2>3. ASSUME kind # "gate", NEW k \in Plain, State!Get(k) \/ State!Delete(k) \/ State!GetAndDelete(k)  PROVE StateInv'
      BY <2>3, StateGet, StateDelete, StateGetAndDelete
    <2>4. ASSUME kind # "gate", NEW k \in Plain, NEW ttl \in State!Ttl,
                 State!Set(k, Text, ttl) \/ State!Incr(k, ttl) \/ State!SetIfAbsent(k, ttl)
          PROVE  StateInv'
      BY <2>4, StateSet, StateIncr, StateSetIfAbsent
    <2>5. CASE kind = "values" /\ (State!IterKeys \/ State!DeletePrefix)
      BY <2>5, StateIterKeys, StateDeletePrefix
    <2>6. CASE kind = "prefix" /\ (State!ScanPrefix \/ State!DeleteKeys \/ State!PrefixDeleted)
      BY <2>6, StateScan
    <2>7. CASE kind = "gate" /\ State!RecordTieredFailure
      BY <2>7, StateTiered
    <2>8. CASE State!TimePasses
      BY <2>8, StateTime
    <2> QED BY <2>1, <2>2, <2>3, <2>4, <2>5, <2>6, <2>7, <2>8 DEF State!Next
  <1> QED BY <1>1, <1>2, PTL DEF HostSpec

(* Whatever is stored, expires, is swept or deleted, memory and Redis answer alike of every key but one that a *)
(* refused incr gave an expiry of its own in Redis, until both show the same of it again; and a prefix that    *)
(* was deleted in steps is gone, but for what others wrote meanwhile (state_memory.py, state_redis.py).        *)
THEOREM StateIsKept == HostSpec => []StateKept
  <1>1. StateInv => StateKept
    <2> SUFFICES ASSUME StateInv  PROVE StateKept
      OBVIOUS
    <2>1. State!BackendsAgree
      BY DEF StateInv, Agreed, State!BackendsAgree, State!Differs, State!SideBySide
    <2>2. State!PrefixDrained
      BY DEF StateInv, DrainSound, State!PrefixDrained
    <2> QED BY <2>1, <2>2 DEF StateKept, State!StateKept
  <1> QED BY <1>1, StateStays, PTL

(* Nobody is counted before the second they were told the gate is closed until, whatever the tiers and *)
(* the lifetime of the counter are (record_tiered_failure).                                            *)
THEOREM LockoutsHold == HostSpec => []LockoutHolds
  <1>1. StateInv => LockoutHolds
    BY DEF StateInv, LockoutHolds, State!LockoutHolds
  <1> QED BY <1>1, StateStays, PTL

(***************************************************************************)
(* Events held until a commit                                              *)
(*                                                                         *)
(* While a transaction is open its callbacks and its writes are of the     *)
(* same events, level by level and in the same order (Placed): so what a   *)
(* rollback drops is what the database undoes, and what the outermost      *)
(* commit hands over is what it made durable.  After that an event of a    *)
(* commit has been dispatched, waits in one batch behind every earlier     *)
(* event of its commit, or belongs to the commit that has not ended yet    *)
(* (Delivered).                                                            *)
(***************************************************************************)
(* Entry i of G is v, entry p of sequence l of L is v, entry i of P is a callback for v. *)
Given(G, i, v) == i \in 1..Len(G) /\ G[i] = v

Has(L, l, p, v) == l \in 1..Len(L) /\ Given(L[l], p, v)

Holds(P, i, v) == i \in 1..Len(P) /\ P[i].event = v

(* No event occurs twice in the sequences of L. *)
Distinct(L) ==
    \A l, m, p, q \in Nat : \A v \in Event : Has(L, l, p, v) /\ Has(L, m, q, v) => l = m /\ p = q

(* A callback registered with the transaction tx belongs to level l of the stack s: a savepoint that was released *)
(* and has not ended yet (e) has written into the level below its own.                                            *)
OfLevel(tx, l, s, e) == (l \in 1..Len(s) /\ tx = s[l]) \/ (e /\ l = Len(s) - 1 /\ tx = s[Len(s)])

(* The callbacks P and the writes L are of the same events, at the same levels and in the same order. *)
SameLevels(P, L, s, e) ==
    \A i \in Nat : \A v \in Event :
        Holds(P, i, v) => \E l, p \in Nat : Has(L, l, p, v) /\ OfLevel(P[i].tx, l, s, e)

AllHeld(P, L) == \A l, p \in Nat : \A v \in Event : Has(L, l, p, v) => \E i \in Nat : Holds(P, i, v)

Precedes(L, u, v) ==
    \A l, m, p, q \in Nat : Has(L, l, p, u) /\ Has(L, m, q, v) => l < m \/ (l = m /\ p < q)

SameOrder(P, L) ==
    \A i, j \in Nat : \A u, v \in Event : Holds(P, i, u) /\ Holds(P, j, v) /\ i < j => Precedes(L, u, v)

Placed(P, L, s, e) == SameLevels(P, L, s, e) /\ AllHeld(P, L) /\ SameOrder(P, L) /\ Distinct(L)

(* The events of the commits D: R are being dispatched and G have been; outer is the number of the commit whose *)
(* callbacks are still registered, or 0.                                                                        *)
Accounted(D, R, G, outer) ==
    \A a, n \in Nat : \A v \in Event :
        Has(D, a, n, v) => a = outer \/ (\E i \in Nat : Given(G, i, v)) \/ (\E k, x \in Nat : Has(R, k, x, v))

Untouched(D, R, G, outer) ==
    \A n \in Nat : \A v \in Event :
        Has(D, outer, n, v) => (\A i \in Nat : ~Given(G, i, v)) /\ (\A k, x \in Nat : ~Has(R, k, x, v))

Waits(D, R, G) ==
    \A k, x \in Nat : \A v \in Event :
        Has(R, k, x, v) => (\E a, n \in Nat : Has(D, a, n, v)) /\ (\A i \in Nat : ~Given(G, i, v))

Behind(R, v, u) ==
    \A k, h, x, y \in Nat : Has(R, k, x, u) /\ Has(R, h, y, v) => k = h /\ x < y

OneBatch(D, R) ==
    \A a, n, m \in Nat : \A u, v \in Event : Has(D, a, n, u) /\ Has(D, a, m, v) /\ n < m => Behind(R, v, u)

HandedOver(D, G) ==
    /\ \A i \in Nat : \A v \in Event : Given(G, i, v) => \E a, n \in Nat : Has(D, a, n, v)
    /\ \A i, j \in Nat : \A v \in Event : Given(G, i, v) /\ Given(G, j, v) => i = j

EarlierFirst(D, G) ==
    \A a, n, m, j \in Nat : \A u, v \in Event :
        Has(D, a, n, v) /\ Given(G, j, v) /\ Has(D, a, m, u) /\ m < n => \E i \in Nat : i < j /\ Given(G, i, u)

Delivered(D, R, G, outer) ==
    /\ Accounted(D, R, G, outer) /\ Untouched(D, R, G, outer)
    /\ Waits(D, R, G) /\ OneBatch(D, R) /\ Distinct(R)
    /\ HandedOver(D, G) /\ EarlierFirst(D, G) /\ Distinct(D)

(* The commit that has just happened is the outermost, and its end has not. *)
OuterCommitted == ending /\ Len(stack) = 1

Outer == IF OuterCommitted THEN Len(durable) ELSE 0

(* What each open transaction wrote, or what the outermost has just made durable. *)
Levels == IF OuterCommitted THEN <<durable[Len(durable)]>> ELSE written

Apart(W, D) == \A l, p, a, n \in Nat : \A v \in Event : ~(Has(W, l, p, v) /\ Has(D, a, n, v))

Callback == [tx : Nat, event : Event]

HeldTypes ==
    /\ stack \in Seq(Nat) /\ begun \in Nat /\ ending \in BOOLEAN /\ committed = ending
    /\ registered \in Seq(Callback)
    /\ ready \in Seq(Seq(Event)) /\ dispatched \in Seq(Event)
    /\ written \in Seq(Seq(Event)) /\ durable \in Seq(Seq(Event))
    /\ \A k \in 1..Len(ready) : ready[k] # <<>>

HeldShape ==
    /\ Len(written) = IF ending THEN Len(stack) - 1 ELSE Len(stack)
    /\ OuterCommitted => durable # <<>>
    /\ \A l \in 1..Len(stack) : stack[l] <= begun
    /\ \A l, m \in 1..Len(stack) : stack[l] = stack[m] => l = m

HeldInv ==
    /\ HeldTypes /\ HeldShape
    /\ Placed(registered, Levels, stack, ending)
    /\ Apart(written, durable)
    /\ Delivered(durable, ready, dispatched, Outer)

(* The entries of a sequence with one more. *)
LEMMA GivenAppended ==
    ASSUME NEW T, NEW G \in Seq(T), NEW e \in T, NEW i \in Nat, NEW v
    PROVE  Given(Append(G, e), i, v) <=> Given(G, i, v) \/ (i = Len(G) + 1 /\ v = e)
  <1>1. /\ Len(G) \in Nat /\ Len(Append(G, e)) = Len(G) + 1
        /\ \A j \in 1..Len(G) : Append(G, e)[j] = G[j]
        /\ Append(G, e)[Len(G) + 1] = e
    BY AppendProperties, LenProperties
  <1> QED BY <1>1 DEF Given

(* The entries of one sequence behind another. *)
LEMMA GivenJoined ==
    ASSUME NEW T, NEW G \in Seq(T), NEW H \in Seq(T), NEW i \in Nat, NEW v
    PROVE  Given(G \o H, i, v) <=> Given(G, i, v) \/ (i > Len(G) /\ Given(H, i - Len(G), v))
  <1>1. /\ Len(G) \in Nat /\ Len(H) \in Nat /\ Len(G \o H) = Len(G) + Len(H)
        /\ \A j \in 1..Len(G) + Len(H) : (G \o H)[j] = IF j <= Len(G) THEN G[j] ELSE H[j - Len(G)]
    BY ConcatProperties, LenProperties
  <1> QED BY <1>1 DEF Given

(* The entries of the sequences with one more. *)
LEMMA HasAppended ==
    ASSUME NEW L \in Seq(Seq(Event)), NEW w \in Seq(Event), NEW l \in Nat, NEW p \in Nat, NEW v
    PROVE  Has(Append(L, w), l, p, v) <=> Has(L, l, p, v) \/ (l = Len(L) + 1 /\ Given(w, p, v))
  <1>1. /\ Len(L) \in Nat /\ Len(Append(L, w)) = Len(L) + 1
        /\ \A j \in 1..Len(L) : Append(L, w)[j] = L[j]
        /\ Append(L, w)[Len(L) + 1] = w
    BY AppendProperties, LenProperties
  <1> QED BY <1>1 DEF Has

(* The entries of the sequences with one of them replaced. *)
LEMMA HasReplaced ==
    ASSUME NEW L \in Seq(Seq(Event)), NEW w \in Seq(Event), NEW n \in 1..Len(L), NEW l \in Nat, NEW p \in Nat, NEW v
    PROVE  Has([L EXCEPT ![n] = w], l, p, v) <=> (l # n /\ Has(L, l, p, v)) \/ (l = n /\ Given(w, p, v))
  <1>1. /\ Len(L) \in Nat /\ Len([L EXCEPT ![n] = w]) = Len(L)
        /\ \A j \in 1..Len(L) : [L EXCEPT ![n] = w][j] = IF j = n THEN w ELSE L[j]
    BY ExceptSeq, LenProperties
  <1> QED BY <1>1 DEF Has

(* All but the last. *)
LEMMA FrontOf ==
    ASSUME NEW T, NEW s \in Seq(T), s # <<>>
    PROVE  /\ Held!Front(s) \in Seq(T) /\ Len(s) \in Nat /\ Len(s) >= 1 /\ Len(Held!Front(s)) = Len(s) - 1
           /\ \A i \in 1..Len(s) - 1 : Held!Front(s)[i] = s[i]
  <1>1. Len(s) \in Nat /\ Len(s) >= 1 /\ \A i \in 1..Len(s) : s[i] \in T
    BY EmptySeq, LenProperties, ElementOfSeq
  <1> DEFINE n == Len(s) - 1
  <1>2. n \in Nat /\ \A i \in 1..n : s[i] \in T
    BY <1>1
  <1>3. /\ SubSeq(s, 1, n) \in Seq(T)
        /\ Len(SubSeq(s, 1, n)) = IF 1 <= n THEN n - 1 + 1 ELSE 0
        /\ \A i \in 1..n - 1 + 1 : SubSeq(s, 1, n)[i] = s[1 + i - 1]
    BY <1>2, SubSeqProperties
  <1>4. Held!Front(s) = SubSeq(s, 1, n)
    BY DEF Held!Front
  <1>5. \A i \in 1..n : SubSeq(s, 1, n)[i] = s[i]
    <2> SUFFICES ASSUME NEW i \in 1..n  PROVE SubSeq(s, 1, n)[i] = s[i]
      OBVIOUS
    <2>1. i \in 1..n - 1 + 1 /\ 1 + i - 1 = i
      BY <1>2
    <2> QED BY <2>1, <1>3
  <1>6. Len(SubSeq(s, 1, n)) = n
    <2> HIDE DEF n
    <2> QED BY <1>2, <1>3
  <1> QED BY <1>1, <1>3, <1>4, <1>5, <1>6

(* The entries of all sequences but the last. *)
LEMMA HasInFront ==
    ASSUME NEW L \in Seq(Seq(Event)), L # <<>>, NEW l \in Nat, NEW p \in Nat, NEW v
    PROVE  Has(Held!Front(L), l, p, v) <=> l <= Len(L) - 1 /\ Has(L, l, p, v)
  <1>1. /\ Len(L) \in Nat /\ Len(L) >= 1 /\ Len(Held!Front(L)) = Len(L) - 1
        /\ \A i \in 1..Len(L) - 1 : Held!Front(L)[i] = L[i]
    BY FrontOf
  <1> QED BY <1>1 DEF Has

(* Of the entries of s those at the first c positions. *)
LEMMA PickedFirst ==
    ASSUME NEW T, NEW s \in Seq(T), NEW c \in Nat, c <= Len(s)
    PROVE  /\ Held!Picked(s, 1..c) \in Seq(T) /\ Len(Held!Picked(s, 1..c)) = c
           /\ \A i \in 1..c : Held!Picked(s, 1..c)[i] = s[i]
  <1>0. \A S : Held!Cardinality(S) = Cardinality(S)
    BY Zenon DEF Held!Cardinality, Held!IsFiniteSet, Cardinality, IsFiniteSet
  <1>1. \A i \in Nat : Held!Cardinality(1..i) = i
    BY <1>0, FS_Interval
  <1>2. ASSUME NEW n \in 1..c  PROVE (CHOOSE i \in 1..c : Held!Cardinality((1..c) \cap (1..i)) = n) = n
    <2>1. \A i \in 1..c : (1..c) \cap (1..i) = 1..i
      OBVIOUS
    <2>2. \A i \in 1..c : Held!Cardinality((1..c) \cap (1..i)) = i
      <3> SUFFICES ASSUME NEW i \in 1..c  PROVE Held!Cardinality((1..c) \cap (1..i)) = i
        OBVIOUS
      <3>1. i \in Nat /\ (1..c) \cap (1..i) = 1..i
        BY <2>1
      <3> QED BY <3>1, <1>1
    <2> QED BY <2>2
  <1>3. Held!Picked(s, 1..c) = [n \in 1..c |-> s[n]]
    <2> DEFINE nth(n) == CHOOSE i \in 1..c : Held!Cardinality((1..c) \cap (1..i)) = n
               size == Held!Cardinality(1..c)
    <2>1. Held!Picked(s, 1..c) = [n \in 1..size |-> s[nth(n)]]
      BY DEF Held!Picked
    <2>2. size = c /\ \A n \in 1..c : nth(n) = n
      BY <1>1, <1>2
    <2> HIDE DEF nth, size
    <2> QED BY <2>1, <2>2
  <1>4. \A n \in 1..c : s[n] \in T
    BY ElementOfSeq, LenProperties
  <1> QED BY <1>3, <1>4, IsASeq, LenProperties

(* A savepoint that has just begun has written nothing. *)
LEMMA PlacedOpened ==
    ASSUME NEW P, NEW L, NEW M, NEW s, NEW t,
           \A l, p \in Nat : \A v \in Event : Has(M, l, p, v) <=> Has(L, l, p, v),
           \A i, l \in Nat : OfLevel(P[i].tx, l, s, FALSE) => OfLevel(P[i].tx, l, t, FALSE),
           Placed(P, L, s, FALSE)
    PROVE  Placed(P, M, t, FALSE)
  <1>1. SameLevels(P, M, t, FALSE)
    BY DEF Placed, SameLevels
  <1>2. AllHeld(P, M)
    BY DEF Placed, AllHeld
  <1>3. SameOrder(P, M)
    BY DEF Placed, SameOrder, Precedes
  <1>4. Distinct(M)
    BY DEF Placed, Distinct
  <1> QED BY <1>1, <1>2, <1>3, <1>4 DEF Placed

(* An event e that is published is written at the innermost level, n, behind the k that are there, and registered *)
(* behind the c callbacks there are.                                                                              *)
WrittenLast(L, M, n, k, e) ==
    \A l, p \in Nat : \A v \in Event :
        /\ Has(L, l, p, v) => l <= n /\ (l = n => p <= k) /\ v # e
        /\ Has(M, l, p, v) <=> Has(L, l, p, v) \/ (l = n /\ p = k + 1 /\ v = e)

RegisteredLast(P, Q, c, e) ==
    \A i \in Nat : \A v \in Event :
        /\ Holds(P, i, v) => i <= c /\ Q[i].tx = P[i].tx
        /\ Holds(Q, i, v) <=> Holds(P, i, v) \/ (i = c + 1 /\ v = e)

(* An event that is published is then held where it is written. *)
LEMMA PlacedPublished ==
    ASSUME NEW P, NEW Q, NEW L, NEW M, NEW s, NEW e \in Event,
           NEW n \in Nat, NEW k \in Nat, NEW c \in Nat,
           Placed(P, L, s, FALSE),
           WrittenLast(L, M, n, k, e), RegisteredLast(P, Q, c, e), OfLevel(Q[c + 1].tx, n, s, FALSE)
    PROVE  Placed(Q, M, s, FALSE)
  <1> USE DEF WrittenLast, RegisteredLast
  <1>1. SameLevels(Q, M, s, FALSE)
    <2> SUFFICES ASSUME NEW i \in Nat, NEW v \in Event, Holds(Q, i, v)
                 PROVE  \E l, p \in Nat : Has(M, l, p, v) /\ OfLevel(Q[i].tx, l, s, FALSE)
      BY DEF SameLevels
    <2>1. CASE Holds(P, i, v)
      BY <2>1 DEF Placed, SameLevels
    <2>2. CASE i = c + 1 /\ v = e
      <3>1. k + 1 \in Nat /\ Has(M, n, k + 1, v)
        BY <2>2
      <3> QED BY <2>2, <3>1
    <2> QED BY <2>1, <2>2
  <1>2. AllHeld(Q, M)
    <2> SUFFICES ASSUME NEW l \in Nat, NEW p \in Nat, NEW v \in Event, Has(M, l, p, v)
                 PROVE  \E i \in Nat : Holds(Q, i, v)
      BY DEF AllHeld
    <2>1. CASE Has(L, l, p, v)
      BY <2>1 DEF Placed, AllHeld
    <2>2. CASE v = e
      <3>1. c + 1 \in Nat /\ Holds(Q, c + 1, v)
        BY <2>2
      <3> QED BY <3>1
    <2> QED BY <2>1, <2>2
  <1>3. \A i \in Nat : ~Holds(P, i, e)
    BY DEF Placed, SameLevels
  <1>4. SameOrder(Q, M)
    <2> SUFFICES ASSUME NEW i \in Nat, NEW j \in Nat, NEW u \in Event, NEW v \in Event,
                        Holds(Q, i, u), Holds(Q, j, v), i < j
                 PROVE  Precedes(M, u, v)
      BY DEF SameOrder
    <2> SUFFICES ASSUME NEW l \in Nat, NEW m \in Nat, NEW p \in Nat, NEW q \in Nat, Has(M, l, p, u), Has(M, m, q, v)
                 PROVE  l < m \/ (l = m /\ p < q)
      BY DEF Precedes
    <2>1. Holds(P, i, u) /\ u # e /\ Has(L, l, p, u)
      BY <1>3
    <2>2. CASE Holds(P, j, v)
      BY <2>1, <2>2, <1>3 DEF Placed, SameOrder, Precedes
    <2>3. CASE v = e
      <3>1. m = n /\ q = k + 1
        BY <2>3
      <3> QED BY <2>1, <3>1
    <2> QED BY <2>2, <2>3
  <1>5. Distinct(M)
    <2> SUFFICES ASSUME NEW l \in Nat, NEW m \in Nat, NEW p \in Nat, NEW q \in Nat, NEW v \in Event,
                        Has(M, l, p, v), Has(M, m, q, v)
                 PROVE  l = m /\ p = q
      BY DEF Distinct
    <2>1. CASE v = e
      BY <2>1
    <2>2. CASE v # e
      BY <2>2 DEF Placed, Distinct
    <2> QED BY <2>1, <2>2
  <1> QED BY <1>1, <1>2, <1>4, <1>5 DEF Placed

(* A savepoint that is released, level n + 1, has written into the level below, behind the k that are there. *)
WrittenBelow(L, M, n, k) ==
    \A l, p \in Nat : \A v \in Event :
        /\ Has(L, l, p, v) => l <= n + 1 /\ p >= 1 /\ (l = n => p <= k)
        /\ Has(M, l, p, v) <=> (l <= n /\ Has(L, l, p, v)) \/ (l = n /\ p > k /\ Has(L, n + 1, p - k, v))

(* Releasing a savepoint moves its writes, and its callbacks still belong to them. *)
LEMMA PlacedReleased ==
    ASSUME NEW P, NEW L, NEW M, NEW s, NEW n \in Nat, NEW k \in Nat,
           Placed(P, L, s, FALSE), Len(s) = n + 1, n >= 1, WrittenBelow(L, M, n, k)
    PROVE  Placed(P, M, s, TRUE)
  <1> USE DEF WrittenBelow
  <1> DEFINE In(l, p, v, m, q) ==
                 (m = l /\ q = p /\ l <= n /\ (l = n => p <= k)) \/ (m = n + 1 /\ l = n /\ p > k /\ q = p - k)
  <1>1. ASSUME NEW l \in Nat, NEW p \in Nat, NEW v \in Event, Has(M, l, p, v)
        PROVE  \E m, q \in Nat : Has(L, m, q, v) /\ In(l, p, v, m, q)
    <2>1. CASE l <= n /\ Has(L, l, p, v)
      BY <2>1
    <2>2. CASE l = n /\ p > k /\ Has(L, n + 1, p - k, v)
      <3>1. n + 1 \in Nat /\ p - k \in Nat
        BY <2>2
      <3> QED BY <2>2, <3>1
    <2> QED BY <2>1, <2>2, <1>1
  <1>2. ASSUME NEW m \in Nat, NEW q \in Nat, NEW v \in Event, Has(L, m, q, v)
        PROVE  \E l, p \in Nat : Has(M, l, p, v) /\ In(l, p, v, m, q)
    <2>1. CASE m <= n
      BY <2>1, <1>2
    <2>2. CASE m = n + 1
      <3>1. k + q \in Nat /\ k + q > k /\ (k + q) - k = q
        BY <1>2
      <3>2. Has(M, n, k + q, v)
        BY <3>1, <2>2, <1>2
      <3> QED BY <3>1, <3>2, <2>2
    <2> QED BY <2>1, <2>2, <1>2
  <1>3. SameLevels(P, M, s, TRUE)
    <2> SUFFICES ASSUME NEW i \in Nat, NEW v \in Event, Holds(P, i, v)
                 PROVE  \E l, p \in Nat : Has(M, l, p, v) /\ OfLevel(P[i].tx, l, s, TRUE)
      BY DEF SameLevels
    <2>1. PICK m \in Nat, q \in Nat : Has(L, m, q, v) /\ OfLevel(P[i].tx, m, s, FALSE)
      BY DEF Placed, SameLevels
    <2>2. PICK l \in Nat, p \in Nat : Has(M, l, p, v) /\ In(l, p, v, m, q)
      BY <2>1, <1>2
    <2>3. OfLevel(P[i].tx, l, s, TRUE)
      BY <2>1, <2>2 DEF OfLevel
    <2> QED BY <2>2, <2>3
  <1>4. AllHeld(P, M)
    BY <1>1 DEF Placed, AllHeld
  <1>5. SameOrder(P, M)
    <2> SUFFICES ASSUME NEW i \in Nat, NEW j \in Nat, NEW u \in Event, NEW v \in Event,
                        Holds(P, i, u), Holds(P, j, v), i < j
                 PROVE  Precedes(M, u, v)
      BY DEF SameOrder
    <2> SUFFICES ASSUME NEW l \in Nat, NEW m \in Nat, NEW p \in Nat, NEW q \in Nat, Has(M, l, p, u), Has(M, m, q, v)
                 PROVE  l < m \/ (l = m /\ p < q)
      BY DEF Precedes
    <2>1. PICK l1 \in Nat, p1 \in Nat : Has(L, l1, p1, u) /\ In(l, p, u, l1, p1)
      BY <1>1
    <2>2. PICK m1 \in Nat, q1 \in Nat : Has(L, m1, q1, v) /\ In(m, q, v, m1, q1)
      BY <1>1
    <2>3. l1 < m1 \/ (l1 = m1 /\ p1 < q1)
      BY <2>1, <2>2 DEF Placed, SameOrder, Precedes
    <2> QED BY <2>1, <2>2, <2>3
  <1>6. Distinct(M)
    <2> SUFFICES ASSUME NEW l \in Nat, NEW m \in Nat, NEW p \in Nat, NEW q \in Nat, NEW v \in Event,
                        Has(M, l, p, v), Has(M, m, q, v)
                 PROVE  l = m /\ p = q
      BY DEF Distinct
    <2>1. PICK l1 \in Nat, p1 \in Nat : Has(L, l1, p1, v) /\ In(l, p, v, l1, p1)
      BY <1>1
    <2>2. PICK m1 \in Nat, q1 \in Nat : Has(L, m1, q1, v) /\ In(m, q, v, m1, q1)
      BY <1>1
    <2>3. l1 = m1 /\ p1 = q1
      BY <2>1, <2>2 DEF Placed, Distinct
    <2> QED BY <2>1, <2>2, <2>3
  <1> QED BY <1>3, <1>4, <1>5, <1>6 DEF Placed

(* The callbacks of a released savepoint are handed to the transaction that encloses it. *)
LevelsKept(P, Q, L, s, d, t, e) ==
    /\ \A i \in Nat : \A v \in Event : Holds(Q, i, v) <=> Holds(P, i, v)
    /\ \A i, l, p \in Nat : \A v \in Event :
           Holds(P, i, v) /\ Has(L, l, p, v) /\ OfLevel(P[i].tx, l, s, d) => OfLevel(Q[i].tx, l, t, e)

(* When its callbacks have been handed up, they belong to the level that has the writes. *)
LEMMA PlacedHandedUp ==
    ASSUME NEW P, NEW Q, NEW L, NEW s, NEW t, NEW d \in BOOLEAN, NEW e \in BOOLEAN,
           Placed(P, L, s, d), LevelsKept(P, Q, L, s, d, t, e)
    PROVE  Placed(Q, L, t, e)
  <1> USE DEF LevelsKept
  <1>1. SameLevels(Q, L, t, e)
    BY DEF Placed, SameLevels
  <1>2. AllHeld(Q, L)
    BY DEF Placed, AllHeld
  <1>3. SameOrder(Q, L)
    BY DEF Placed, SameOrder, Precedes
  <1> QED BY <1>1, <1>2, <1>3 DEF Placed

(* What the innermost level registered comes last, so dropping it leaves the first c callbacks; they and what the *)
(* enclosing levels wrote are of the same events.                                                                 *)
DroppedFrom(P, Q, L, M, s, t, n, c) ==
    /\ \A l, p \in Nat : \A v \in Event : Has(M, l, p, v) <=> l <= n /\ Has(L, l, p, v)
    /\ \A i \in Nat : \A v \in Event : Holds(Q, i, v) <=> i <= c /\ Holds(P, i, v)
    /\ \A i, l, p \in Nat : \A v \in Event :
           Holds(P, i, v) /\ Has(L, l, p, v) /\ OfLevel(P[i].tx, l, s, FALSE) =>
               (i <= c <=> l <= n) /\ (i <= c => OfLevel(Q[i].tx, l, t, FALSE))

(* Dropping the innermost callbacks keeps those of what the database keeps. *)
LEMMA PlacedDropped ==
    ASSUME NEW P, NEW Q, NEW L, NEW M, NEW s, NEW t, NEW n \in Nat, NEW c \in Nat,
           Placed(P, L, s, FALSE), DroppedFrom(P, Q, L, M, s, t, n, c)
    PROVE  Placed(Q, M, t, FALSE)
  <1> USE DEF DroppedFrom
  <1>1. SameLevels(Q, M, t, FALSE)
    BY DEF Placed, SameLevels
  <1>2. AllHeld(Q, M)
    <2> SUFFICES ASSUME NEW l \in Nat, NEW p \in Nat, NEW v \in Event, Has(L, l, p, v), l <= n
                 PROVE  \E i \in Nat : Holds(Q, i, v)
      BY DEF AllHeld
    <2>1. PICK i \in Nat : Holds(P, i, v)
      BY DEF Placed, AllHeld
    <2>2. PICK m \in Nat, q \in Nat : Has(L, m, q, v) /\ OfLevel(P[i].tx, m, s, FALSE)
      BY <2>1 DEF Placed, SameLevels
    <2>3. m = l
      BY <2>2 DEF Placed, Distinct
    <2> QED BY <2>1, <2>2, <2>3
  <1>3. SameOrder(Q, M)
    BY DEF Placed, SameOrder, Precedes
  <1>4. Distinct(M)
    BY DEF Placed, Distinct
  <1> QED BY <1>1, <1>2, <1>3, <1>4 DEF Placed

(* The outermost transaction commits what it wrote, W, of events that none of the c earlier commits has. *)
MadeDurable(D, E, W, c) ==
    \A a, n \in Nat : \A v \in Event :
        /\ Has(D, a, n, v) => a <= c
        /\ Has(W, a, n, v) => a = 1
        /\ Has(E, a, n, v) <=> Has(D, a, n, v) \/ (a = c + 1 /\ Has(W, 1, n, v))

(* Events that become durable are accounted for by the commit that has not ended. *)
LEMMA DeliveredCommitted ==
    ASSUME NEW D, NEW E, NEW R, NEW G, NEW W, NEW c \in Nat,
           Delivered(D, R, G, 0), Distinct(W), Apart(W, D), MadeDurable(D, E, W, c)
    PROVE  Delivered(E, R, G, c + 1)
  <1> USE DEF MadeDurable
  <1>1. Accounted(E, R, G, c + 1)
    <2> SUFFICES ASSUME NEW a \in Nat, NEW n \in Nat, NEW v \in Event, Has(E, a, n, v), a # c + 1
                 PROVE  (\E i \in Nat : Given(G, i, v)) \/ (\E k, x \in Nat : Has(R, k, x, v))
      BY DEF Accounted
    <2>1. Has(D, a, n, v) /\ a # 0
      BY DEF Has
    <2> QED BY <2>1 DEF Delivered, Accounted
  <1>2. ASSUME NEW n \in Nat, NEW v \in Event, Has(E, c + 1, n, v)
        PROVE  Has(W, 1, n, v) /\ \A a, m \in Nat : ~Has(D, a, m, v)
    <2>1. c + 1 \in Nat /\ ~(c + 1 <= c)
      OBVIOUS
    <2>2. Has(W, 1, n, v)
      BY <2>1, <1>2
    <2> QED BY <2>2 DEF Apart
  <1>3. Untouched(E, R, G, c + 1)
    BY <1>2 DEF Delivered, Untouched, Waits, HandedOver
  <1>4. Waits(E, R, G)
    BY DEF Delivered, Waits
  <1>5. OneBatch(E, R)
    <2> SUFFICES ASSUME NEW a \in Nat, NEW n \in Nat, NEW m \in Nat, NEW u \in Event, NEW v \in Event,
                        Has(E, a, n, u), Has(E, a, m, v), n < m
                 PROVE  Behind(R, v, u)
      BY DEF OneBatch
    <2> SUFFICES ASSUME NEW k \in Nat, NEW h \in Nat, NEW x \in Nat, NEW y \in Nat, Has(R, k, x, u), Has(R, h, y, v)
                 PROVE  k = h /\ x < y
      BY DEF Behind
    <2>1. a # c + 1
      BY <1>2 DEF Delivered, Waits
    <2> QED BY <2>1 DEF Delivered, OneBatch, Behind
  <1>6. HandedOver(E, G)
    BY DEF Delivered, HandedOver
  <1>7. EarlierFirst(E, G)
    <2> SUFFICES ASSUME NEW a \in Nat, NEW n \in Nat, NEW m \in Nat, NEW j \in Nat, NEW u \in Event, NEW v \in Event,
                        Has(E, a, n, v), Given(G, j, v), Has(E, a, m, u), m < n
                 PROVE  \E i \in Nat : i < j /\ Given(G, i, u)
      BY DEF EarlierFirst
    <2>1. a # c + 1
      BY <1>2 DEF Delivered, HandedOver
    <2> QED BY <2>1 DEF Delivered, EarlierFirst
  <1>8. Distinct(E)
    <2> SUFFICES ASSUME NEW l \in Nat, NEW m \in Nat, NEW p \in Nat, NEW q \in Nat, NEW v \in Event,
                        Has(E, l, p, v), Has(E, m, q, v)
                 PROVE  l = m /\ p = q
      BY DEF Distinct
    <2>1. CASE Has(D, l, p, v)
      <3>1. Has(D, m, q, v)
        BY <2>1 DEF Apart
      <3> QED BY <2>1, <3>1 DEF Delivered, Distinct
    <2>2. CASE l = c + 1 /\ Has(W, 1, p, v)
      <3>1. m = c + 1 /\ Has(W, 1, q, v)
        BY <2>2 DEF Apart
      <3> QED BY <2>2, <3>1 DEF Distinct
    <2> QED BY <2>1, <2>2
  <1> QED BY <1>1, <1>3, <1>4, <1>5, <1>6, <1>7, <1>8 DEF Delivered

(* The outermost transaction ends: its callbacks P become the batch that is run next, behind the c there are. *)
BatchAdded(D, R, S, P, L, outer, c) ==
    /\ \A l, n \in Nat : \A v \in Event : Has(L, l, n, v) <=> l = 1 /\ Has(D, outer, n, v)
    /\ \A k, x \in Nat : \A v \in Event : Has(R, k, x, v) => k <= c
    /\ \A k, x \in Nat : \A v \in Event : Has(S, k, x, v) <=> Has(R, k, x, v) \/ (k = c + 1 /\ Holds(P, x, v))
    /\ \A n \in Nat : \A v \in Event : ~Has(D, 0, n, v)

(* Events that were accounted for by the commit wait in its batch, in the order of their commit. *)
LEMMA DeliveredEnded ==
    ASSUME NEW D, NEW R, NEW S, NEW G, NEW P, NEW L, NEW outer \in Nat, NEW c \in Nat, NEW t \in BOOLEAN, NEW s,
           Delivered(D, R, G, outer), Placed(P, L, s, t), BatchAdded(D, R, S, P, L, outer, c)
    PROVE  Delivered(D, S, G, 0)
  <1> USE DEF BatchAdded
  <1>0. c + 1 \in Nat
    OBVIOUS
  <1>1. \A x \in Nat : \A v \in Event : Holds(P, x, v) => \E n \in Nat : Has(D, outer, n, v)
    BY DEF Placed, SameLevels
  <1>2. \A n \in Nat : \A v \in Event : Has(D, outer, n, v) => \E x \in Nat : Holds(P, x, v)
    BY DEF Placed, AllHeld
  <1>3. ASSUME NEW x \in Nat, NEW y \in Nat, NEW u \in Event, NEW v \in Event, NEW n \in Nat, NEW m \in Nat,
               Holds(P, x, u), Holds(P, y, v), x < y, Has(D, outer, n, u), Has(D, outer, m, v)
        PROVE  n < m
    <2>1. Precedes(L, u, v)
      BY <1>3 DEF Placed, SameOrder
    <2>2. Has(L, 1, n, u) /\ Has(L, 1, m, v)
      BY <1>3
    <2> QED BY <2>1, <2>2 DEF Precedes
  <1>4. Accounted(D, S, G, 0)
    <2> SUFFICES ASSUME NEW a \in Nat, NEW n \in Nat, NEW v \in Event, Has(D, a, n, v)
                 PROVE  (\E i \in Nat : Given(G, i, v)) \/ (\E k, x \in Nat : Has(S, k, x, v))
      BY DEF Accounted
    <2>1. CASE a = outer
      BY <2>1, <1>0, <1>2
    <2>2. CASE a # outer
      BY <2>2 DEF Delivered, Accounted
    <2> QED BY <2>1, <2>2
  <1>5. Untouched(D, S, G, 0)
    BY DEF Untouched
  <1>6. Waits(D, S, G)
    BY <1>1 DEF Delivered, Waits, Untouched
  <1>7. ASSUME NEW k \in Nat, NEW x \in Nat, NEW v \in Event, Has(S, k, x, v)
        PROVE  \/ Has(R, k, x, v) /\ k # c + 1 /\ \A n \in Nat : ~Has(D, outer, n, v)
               \/ k = c + 1 /\ Holds(P, x, v) /\ ~Has(R, k, x, v) /\ \E n \in Nat : Has(D, outer, n, v)
    BY <1>7, <1>1 DEF Delivered, Untouched
  <1>8. ASSUME NEW x \in Nat, NEW y \in Nat, NEW v \in Event, Holds(P, x, v), Holds(P, y, v)
        PROVE  x = y
    <2>1. PICK n \in Nat : Has(D, outer, n, v)
      BY <1>8, <1>1
    <2>2. ~(x < y) /\ ~(y < x)
      BY <1>8, <2>1, <1>3
    <2> QED BY <2>2
  <1>9. OneBatch(D, S)
    <2> SUFFICES ASSUME NEW a \in Nat, NEW n \in Nat, NEW m \in Nat, NEW u \in Event, NEW v \in Event,
                        Has(D, a, n, u), Has(D, a, m, v), n < m
                 PROVE  Behind(S, v, u)
      BY DEF OneBatch
    <2> SUFFICES ASSUME NEW k \in Nat, NEW h \in Nat, NEW x \in Nat, NEW y \in Nat, Has(S, k, x, u), Has(S, h, y, v)
                 PROVE  k = h /\ x < y
      BY DEF Behind
    <2>1. CASE a = outer
      <3>1. k = c + 1 /\ h = c + 1 /\ Holds(P, x, u) /\ Holds(P, y, v)
        BY <2>1, <1>7
      <3>2. ~(y < x)
        BY <2>1, <3>1, <1>3
      <3>3. x # y
        <4> SUFFICES ASSUME x = y PROVE FALSE
          OBVIOUS
        <4>1. u = v
          BY <3>1 DEF Holds
        <4> QED BY <4>1 DEF Delivered, Distinct
      <3> QED BY <3>1, <3>2, <3>3
    <2>2. CASE a # outer
      <3>1. \A i \in Nat : ~Has(D, outer, i, u) /\ ~Has(D, outer, i, v)
        BY <2>2 DEF Delivered, Distinct
      <3>2. Has(R, k, x, u) /\ Has(R, h, y, v)
        BY <3>1, <1>7
      <3> QED BY <3>2 DEF Delivered, OneBatch, Behind
    <2> QED BY <2>1, <2>2
  <1>10. Distinct(S)
    <2> SUFFICES ASSUME NEW l \in Nat, NEW m \in Nat, NEW p \in Nat, NEW q \in Nat, NEW v \in Event,
                        Has(S, l, p, v), Has(S, m, q, v)
                 PROVE  l = m /\ p = q
      BY DEF Distinct
    <2>1. CASE Has(R, l, p, v)
      <3>1. Has(R, m, q, v)
        BY <2>1, <1>7
      <3> QED BY <2>1, <3>1 DEF Delivered, Distinct
    <2>2. CASE l = c + 1 /\ Holds(P, p, v) /\ ~Has(R, l, p, v)
      <3>1. m = c + 1 /\ Holds(P, q, v)
        BY <2>2, <1>7
      <3> QED BY <2>2, <3>1, <1>8
    <2> QED BY <2>1, <2>2, <1>7
  <1> QED BY <1>4, <1>5, <1>6, <1>9, <1>10 DEF Delivered

(* The first callback, for e, of the last batch, r, is called, after c others. *)
FirstCalled(D, R, S, G, H, e, r, c) ==
    /\ Has(R, r, 1, e)
    /\ \A x \in Nat : \A v \in Event : Has(R, r, x, v) => x >= 1
    /\ \A k, x \in Nat : \A v \in Event :
           Has(S, k, x, v) <=> (k # r /\ Has(R, k, x, v)) \/ (k = r /\ x >= 1 /\ Has(R, r, x + 1, v))
    /\ \A i \in Nat : \A v \in Event : Given(G, i, v) => i <= c
    /\ \A i \in Nat : \A v \in Event : Given(H, i, v) <=> Given(G, i, v) \/ (i = c + 1 /\ v = e)
    /\ \A n \in Nat : \A v \in Event : ~Has(D, 0, n, v)

(* An event that is dispatched was the first of its commit that had not been. *)
LEMMA DeliveredDispatched ==
    ASSUME NEW D, NEW R, NEW S, NEW G, NEW H, NEW e \in Event, NEW r \in Nat, NEW c \in Nat,
           Delivered(D, R, G, 0),
           FirstCalled(D, R, S, G, H, e, r, c)
    PROVE  Delivered(D, S, H, 0)
  <1> USE DEF FirstCalled
  <1>0. c + 1 \in Nat
    OBVIOUS
  <1>1. ASSUME NEW k \in Nat, NEW x \in Nat, NEW v \in Event, Has(S, k, x, v)
        PROVE  v # e /\ \E y \in Nat : Has(R, k, y, v) /\ y = IF k = r THEN x + 1 ELSE x
    <2>1. CASE k = r
      <3>1. x + 1 \in Nat /\ x + 1 # 1 /\ Has(R, k, x + 1, v)
        BY <1>1, <2>1
      <3>2. v # e
        BY <3>1, <2>1 DEF Delivered, Distinct
      <3> QED BY <2>1, <3>1, <3>2
    <2>2. CASE k # r
      BY <1>1, <2>2 DEF Delivered, Distinct
    <2> QED BY <2>1, <2>2
  <1>2. ASSUME NEW k \in Nat, NEW x \in Nat, NEW v \in Event, Has(R, k, x, v), v # e
        PROVE  \E y \in Nat : Has(S, k, y, v)
    <2>1. CASE k = r
      <3>1. x # 1 /\ x >= 1
        BY <1>2, <2>1 DEF Has, Given
      <3>2. x - 1 \in Nat /\ x - 1 >= 1 /\ (x - 1) + 1 = x
        BY <3>1
      <3>3. Has(S, k, x - 1, v)
        BY <1>2, <2>1, <3>2
      <3> QED BY <3>2, <3>3
    <2>2. CASE k # r
      BY <1>2, <2>2
    <2> QED BY <2>1, <2>2
  <1>3. Accounted(D, S, H, 0)
    <2> SUFFICES ASSUME NEW a \in Nat, NEW n \in Nat, NEW v \in Event, Has(D, a, n, v)
                 PROVE  (\E i \in Nat : Given(H, i, v)) \/ (\E k, x \in Nat : Has(S, k, x, v))
      BY DEF Accounted
    <2>1. CASE v = e
      BY <2>1, <1>0
    <2>2. CASE v # e
      <3>1. (\E i \in Nat : Given(G, i, v)) \/ (\E k, x \in Nat : Has(R, k, x, v))
        BY DEF Delivered, Accounted
      <3> QED BY <3>1, <2>2, <1>2
    <2> QED BY <2>1, <2>2
  <1>4. Untouched(D, S, H, 0)
    BY DEF Untouched
  <1>5. Waits(D, S, H)
    <2> SUFFICES ASSUME NEW k \in Nat, NEW x \in Nat, NEW v \in Event, Has(S, k, x, v)
                 PROVE  (\E a, n \in Nat : Has(D, a, n, v)) /\ (\A i \in Nat : ~Given(H, i, v))
      BY DEF Waits
    <2>1. PICK y \in Nat : Has(R, k, y, v) /\ v # e
      BY <1>1
    <2> QED BY <2>1 DEF Delivered, Waits
  <1>6. OneBatch(D, S)
    <2> SUFFICES ASSUME NEW a \in Nat, NEW n \in Nat, NEW m \in Nat, NEW u \in Event, NEW v \in Event,
                        Has(D, a, n, u), Has(D, a, m, v), n < m
                 PROVE  Behind(S, v, u)
      BY DEF OneBatch
    <2> SUFFICES ASSUME NEW k \in Nat, NEW h \in Nat, NEW x \in Nat, NEW y \in Nat, Has(S, k, x, u), Has(S, h, y, v)
                 PROVE  k = h /\ x < y
      BY DEF Behind
    <2>1. PICK x1 \in Nat : Has(R, k, x1, u) /\ x1 = IF k = r THEN x + 1 ELSE x
      BY <1>1
    <2>2. PICK y1 \in Nat : Has(R, h, y1, v) /\ y1 = IF h = r THEN y + 1 ELSE y
      BY <1>1
    <2>3. k = h /\ x1 < y1
      BY <2>1, <2>2, SMTT(30) DEF Delivered, OneBatch, Behind
    <2> QED BY <2>1, <2>2, <2>3
  <1>7. Distinct(S)
    <2> SUFFICES ASSUME NEW l \in Nat, NEW m \in Nat, NEW p \in Nat, NEW q \in Nat, NEW v \in Event,
                        Has(S, l, p, v), Has(S, m, q, v)
                 PROVE  l = m /\ p = q
      BY DEF Distinct
    <2>1. PICK p1 \in Nat : Has(R, l, p1, v) /\ p1 = IF l = r THEN p + 1 ELSE p
      BY <1>1
    <2>2. PICK q1 \in Nat : Has(R, m, q1, v) /\ q1 = IF m = r THEN q + 1 ELSE q
      BY <1>1
    <2>3. l = m /\ p1 = q1
      BY <2>1, <2>2, SMTT(30) DEF Delivered, Distinct
    <2> QED BY <2>1, <2>2, <2>3
  <1>8. HandedOver(D, H)
    <2>1. (\E a, n \in Nat : Has(D, a, n, e)) /\ \A i \in Nat : ~Given(G, i, e)
      BY DEF Delivered, Waits
    <2> QED BY <2>1 DEF Delivered, HandedOver
  <1>9. EarlierFirst(D, H)
    <2> SUFFICES ASSUME NEW a \in Nat, NEW n \in Nat, NEW m \in Nat, NEW j \in Nat, NEW u \in Event, NEW v \in Event,
                        Has(D, a, n, v), Given(H, j, v), Has(D, a, m, u), m < n
                 PROVE  \E i \in Nat : i < j /\ Given(H, i, u)
      BY DEF EarlierFirst
    <2>1. CASE Given(G, j, v)
      BY <2>1 DEF Delivered, EarlierFirst
    <2>2. CASE j = c + 1 /\ v = e
      <3>1. \A k, x \in Nat : ~Has(R, k, x, u)
        <4> SUFFICES ASSUME NEW k \in Nat, NEW x \in Nat, Has(R, k, x, u)  PROVE FALSE
          OBVIOUS
        <4>1. k = r /\ x < 1
          BY <2>2 DEF Delivered, OneBatch, Behind
        <4> QED BY <4>1
      <3>2. a # 0
        OBVIOUS
      <3>3. PICK i \in Nat : Given(G, i, u)
        BY <3>1, <3>2 DEF Delivered, Accounted
      <3>4. i < j
        BY <3>3, <2>2
      <3> QED BY <3>3, <3>4
    <2> QED BY <2>1, <2>2
  <1> QED BY <1>3, <1>4, <1>5, <1>6, <1>7, <1>8, <1>9 DEF Delivered

(* Nothing is held when a process starts, whichever part of it a behaviour follows. *)
LEMMA HeldStarts == Held!Init => HeldInv
  <1> SUFFICES ASSUME Held!Init  PROVE HeldInv
    OBVIOUS
  <1>1. HeldTypes /\ HeldShape /\ Outer = 0 /\ Levels = <<>>
    <2>1. HeldTypes
      <3>1. /\ <<>> \in Seq(Nat) /\ <<>> \in Seq(Callback) /\ <<>> \in Seq(Event) /\ <<>> \in Seq(Seq(Event))
            /\ Len(<<>>) = 0
        BY EmptySeq
      <3>2. ending \in BOOLEAN /\ committed = ending
        BY DEF Held!Init
      <3> QED BY <3>1, <3>2 DEF Held!Init, HeldTypes
    <2>2. HeldShape /\ Outer = 0 /\ Levels = <<>>
      BY DEF Held!Init, HeldShape, Outer, Levels, OuterCommitted
    <2> QED BY <2>1, <2>2
  <1>2. \A l, p \in Nat : \A v \in Event : ~Has(<<>>, l, p, v)
    BY DEF Has
  <1>3. \A i \in Nat : \A v \in Event : ~Given(<<>>, i, v) /\ ~Holds(<<>>, i, v)
    BY DEF Given, Holds
  <1>4. Placed(<<>>, <<>>, stack, ending)
    BY <1>2, <1>3 DEF Placed, SameLevels, AllHeld, SameOrder, Distinct
  <1>5. Delivered(<<>>, <<>>, <<>>, 0)
    BY <1>2, <1>3 DEF Delivered, Accounted, Untouched, Waits, OneBatch, HandedOver, EarlierFirst, Distinct
  <1>6. Apart(<<>>, <<>>)
    BY <1>2 DEF Apart
  <1> QED BY <1>1, <1>4, <1>5, <1>6 DEF Held!Init, HeldInv

(* While no commit is under way the levels are those of the open transactions. *)
LEMMA NotEnding ==
    ASSUME HeldInv, ~ending
    PROVE  /\ ~OuterCommitted /\ Levels = written /\ Outer = 0 /\ Len(written) = Len(stack) /\ Len(stack) \in Nat
           /\ Placed(registered, written, stack, FALSE) /\ Delivered(durable, ready, dispatched, 0) /\ ending = FALSE
  <1>1. ~OuterCommitted /\ Levels = written /\ Outer = 0
    BY DEF OuterCommitted, Levels, Outer
  <1>2. Len(written) = Len(stack) /\ Len(stack) \in Nat /\ ending = FALSE
    BY LenProperties DEF HeldInv, HeldTypes, HeldShape
  <1> QED BY <1>1, <1>2 DEF HeldInv

(* A transaction that begins has a number no open one has. *)
LEMMA StackGrows ==
    ASSUME HeldInv, Held!Begin
    PROVE  /\ stack' \in Seq(Nat) /\ begun' \in Nat
           /\ Len(stack) \in Nat /\ Len(stack') = Len(stack) + 1
           /\ \A l \in 1..Len(stack) : stack'[l] = stack[l]
           /\ stack'[Len(stack) + 1] = begun + 1
           /\ \A l \in 1..Len(stack') : stack'[l] <= begun'
           /\ \A l, m \in 1..Len(stack') : stack'[l] = stack'[m] => l = m
  <1>1. /\ stack \in Seq(Nat) /\ begun \in Nat /\ stack' = Append(stack, begun + 1) /\ begun' = begun + 1
        /\ \A l \in 1..Len(stack) : stack[l] <= begun
        /\ \A l, m \in 1..Len(stack) : stack[l] = stack[m] => l = m
    BY DEF HeldInv, HeldTypes, HeldShape, Held!Begin
  <1>2. begun + 1 \in Nat /\ Len(stack) \in Nat /\ \A l \in 1..Len(stack) : stack[l] \in Nat
    BY <1>1, LenProperties, ElementOfSeq
  <1>3. /\ stack' \in Seq(Nat) /\ Len(stack') = Len(stack) + 1
        /\ \A l \in 1..Len(stack) : stack'[l] = stack[l]
        /\ stack'[Len(stack) + 1] = begun + 1
    BY <1>1, <1>2, AppendProperties
  <1>4. \A l \in 1..Len(stack') : stack'[l] <= begun'
    BY <1>1, <1>2, <1>3
  <1>5. \A l, m \in 1..Len(stack') : stack'[l] = stack'[m] => l = m
    <2> SUFFICES ASSUME NEW l \in 1..Len(stack'), NEW m \in 1..Len(stack'), stack'[l] = stack'[m]
                 PROVE  l = m
      OBVIOUS
    <2>1. (l \in 1..Len(stack) \/ l = Len(stack) + 1) /\ (m \in 1..Len(stack) \/ m = Len(stack) + 1)
      BY <1>2, <1>3
    <2> QED BY <2>1, <1>1, <1>2, <1>3
  <1> QED BY <1>1, <1>2, <1>3, <1>4, <1>5

(* A level that has just been opened. *)
LEMMA LevelOpens ==
    ASSUME HeldInv, ~ending, Held!Begin
    PROVE  /\ Placed(registered, Append(written, <<>>), stack', FALSE)
           /\ Append(written, <<>>) \in Seq(Seq(Event)) /\ Len(Append(written, <<>>)) = Len(stack')
           /\ Len(Append(written, <<>>)[Len(stack')]) = 0
           /\ \A l, p \in Nat : \A v \in Event : Has(Append(written, <<>>), l, p, v) <=> Has(written, l, p, v)
  <1>1. written \in Seq(Seq(Event)) /\ <<>> \in Seq(Event) /\ Len(<<>>) = 0
    BY EmptySeq DEF HeldInv, HeldTypes
  <1>2. /\ Append(written, <<>>) \in Seq(Seq(Event)) /\ Len(Append(written, <<>>)) = Len(written) + 1
        /\ Append(written, <<>>)[Len(written) + 1] = <<>>
    BY <1>1, AppendProperties
  <1>3. \A l, p \in Nat : \A v \in Event : Has(Append(written, <<>>), l, p, v) <=> Has(written, l, p, v)
    <2>1. \A p \in Nat : \A v \in Event : ~Given(<<>>, p, v)
      BY DEF Given
    <2> QED BY <1>1, <2>1, HasAppended
  <1>4. \A i, l \in Nat : OfLevel(registered[i].tx, l, stack, FALSE) => OfLevel(registered[i].tx, l, stack', FALSE)
    BY StackGrows DEF OfLevel
  <1>5. Placed(registered, Append(written, <<>>), stack', FALSE)
    BY <1>3, <1>4, NotEnding, PlacedOpened
  <1> QED BY <1>1, <1>2, <1>3, <1>5, NotEnding, StackGrows

(* A transaction or savepoint begins. *)
LEMMA BeginKeepsHeld == ASSUME HeldInv, Held!BeginTransaction  PROVE HeldInv'
  <1>1. ~ending /\ Held!Begin /\ written' = Append(written, <<>>)
        /\ UNCHANGED <<registered, committed, ending, ready, dispatched, durable>>
    BY DEF Held!BeginTransaction
  <1>2. HeldTypes'
    BY <1>1, StackGrows, LevelOpens DEF HeldInv, HeldTypes
  <1>3. ~OuterCommitted' /\ Outer' = 0 /\ Levels' = written' /\ ending' = FALSE
    BY <1>1, NotEnding DEF OuterCommitted, Outer, Levels
  <1>4. HeldShape'
    BY <1>1, <1>3, StackGrows, LevelOpens DEF HeldShape
  <1>5. Placed(registered, Levels, stack, ending)'
    BY <1>1, <1>3, LevelOpens
  <1>6. Apart(written, durable)'
    BY <1>1, LevelOpens DEF HeldInv, Apart
  <1>7. Delivered(durable, ready, dispatched, Outer)'
    BY <1>1, <1>3, NotEnding
  <1> QED BY <1>2, <1>4, <1>5, <1>6, <1>7 DEF HeldInv

(* publish_on_commit registers the event where its transaction writes. *)
LEMMA PublishKeepsHeld == ASSUME HeldInv, NEW e \in Event, Held!Publish(e)  PROVE HeldInv'
  <1> DEFINE W == IF Held!Open THEN written ELSE Append(written, <<>>)
             n == Len(stack')
             k == Len(W[n])
             c == Len(registered)
  <1>1. /\ ~ending /\ registered' = Append(registered, [tx |-> stack'[n], event |-> e])
        /\ UNCHANGED <<committed, ending, ready, dispatched, durable>>
        /\ IF Held!Open THEN UNCHANGED <<stack, begun>> ELSE Held!Begin
    BY DEF Held!Publish, Held!Last
  <1>2. /\ \A l, p \in Nat : ~Has(written, l, p, e)
        /\ \A l, p \in Nat : ~Has(durable, l, p, e)
    <2>1. ASSUME NEW L \in Seq(Seq(Event)), \A b \in Held!Range(L) : e \notin Held!Range(b), NEW l \in Nat, NEW p \in Nat
          PROVE  ~Has(L, l, p, e)
      <3> SUFFICES ASSUME Has(L, l, p, e)  PROVE FALSE
        OBVIOUS
      <3>1. l \in DOMAIN L /\ L[l] \in Seq(Event) /\ p \in 1..Len(L[l]) /\ L[l][p] = e
        BY LenProperties, ElementOfSeq DEF Has, Given
      <3>2. p \in DOMAIN L[l]
        BY <3>1, LenProperties
      <3> QED BY <2>1, <3>1, <3>2 DEF Held!Range
    <2>2. \A b \in Held!Range(durable) \cup Held!Range(written) : e \notin Held!Range(b)
      BY DEF Held!Publish
    <2> QED BY <2>1, <2>2 DEF HeldInv, HeldTypes
  <1>3. /\ stack' \in Seq(Nat) /\ begun' \in Nat /\ n \in Nat /\ n >= 1
        /\ \A l \in 1..n : stack'[l] <= begun'
        /\ \A l, m \in 1..n : stack'[l] = stack'[m] => l = m
        /\ W \in Seq(Seq(Event)) /\ Len(W) = n
        /\ Placed(registered, W, stack', FALSE)
        /\ \A l, p \in Nat : \A v \in Event : Has(W, l, p, v) <=> Has(written, l, p, v)
    <2>1. CASE Held!Open
      <3>1. Len(stack) \in Nat /\ Len(stack) >= 1
        BY <2>1, EmptySeq, LenProperties DEF HeldInv, HeldTypes, Held!Open
      <3> QED BY <1>1, <2>1, <3>1, NotEnding DEF HeldInv, HeldTypes, HeldShape
    <2>2. CASE ~Held!Open
      <3>1. Held!Begin
        BY <1>1, <2>2
      <3>2. n \in Nat /\ n >= 1
        BY <3>1, StackGrows
      <3> HIDE DEF n
      <3>3. /\ stack' \in Seq(Nat) /\ begun' \in Nat
            /\ \A l \in 1..n : stack'[l] <= begun'
            /\ \A l, m \in 1..n : stack'[l] = stack'[m] => l = m
        BY <3>1, StackGrows DEF n
      <3>4. W = Append(written, <<>>)
        BY <2>2
      <3> HIDE DEF W
      <3> QED BY <1>1, <3>1, <3>2, <3>3, <3>4, LevelOpens DEF n
    <2> QED BY <2>1, <2>2
  <1>4. W[n] \in Seq(Event) /\ k \in Nat
    BY <1>3, ElementOfSeq, LenProperties
  <1>5. written' = [W EXCEPT ![n] = Append(W[n], e)]
    <2>1. CASE Held!Open
      BY <2>1, <1>1, NotEnding DEF Held!Publish
    <2>2. CASE ~Held!Open
      <3>1. stack = <<>> /\ written' = <<<<e>>>>
        BY <2>2 DEF Held!Open, Held!Publish
      <3>2. written = <<>>
        BY <3>1, <1>1, NotEnding, EmptySeq DEF HeldInv, HeldTypes
      <3>3. W = <<<<>>>>
        BY <3>2, <2>2
      <3>4. n = 1
        BY <1>3, <3>3
      <3> HIDE DEF W, n
      <3> QED BY <3>1, <3>3, <3>4
    <2> QED BY <2>1, <2>2
  <1>n. n = Len(stack')
    OBVIOUS
  <1> HIDE DEF W, n
  <1>6. \A l, p \in Nat : \A v \in Event : Has(written', l, p, v) <=> Has(W, l, p, v) \/ (l = n /\ p = k + 1 /\ v = e)
    <2> SUFFICES ASSUME NEW l \in Nat, NEW p \in Nat, NEW v \in Event
                 PROVE  Has(written', l, p, v) <=> Has(W, l, p, v) \/ (l = n /\ p = k + 1 /\ v = e)
      OBVIOUS
    <2> DEFINE w == Append(W[n], e)
    <2>1. w \in Seq(Event) /\ n \in 1..Len(W)
      BY <1>3, <1>4, AppendProperties
    <2>2. Has(written', l, p, v) <=> (l # n /\ Has(W, l, p, v)) \/ (l = n /\ Given(w, p, v))
      <3>1. written' = [W EXCEPT ![n] = w] /\ W \in Seq(Seq(Event))
        BY <1>3, <1>5
      <3> HIDE DEF w
      <3>2. Has([W EXCEPT ![n] = w], l, p, v) <=> (l # n /\ Has(W, l, p, v)) \/ (l = n /\ Given(w, p, v))
        BY <2>1, <3>1, HasReplaced
      <3> QED BY <3>1, <3>2
    <2>3. Given(Append(W[n], e), p, v) <=> Given(W[n], p, v) \/ (p = k + 1 /\ v = e)
      BY <1>4, GivenAppended
    <2> QED BY <2>1, <2>2, <2>3 DEF Has
  <1>7. registered \in Seq(Callback) /\ [tx |-> stack'[n], event |-> e] \in Callback /\ c \in Nat
    <2>1. stack'[n] \in Nat
      BY <1>3, <1>n, ElementOfSeq
    <2> QED BY <2>1, LenProperties DEF HeldInv, HeldTypes, Callback
  <1>8. /\ registered' \in Seq(Callback) /\ Len(registered') = c + 1
        /\ \A i \in 1..c : registered'[i] = registered[i]
        /\ registered'[c + 1] = [tx |-> stack'[n], event |-> e]
    BY <1>1, <1>7, AppendProperties
  <1>9. Placed(registered', written', stack', FALSE)
    <2>1. \A l, p \in Nat : \A v \in Event : Has(W, l, p, v) => l <= n /\ (l = n => p <= k) /\ v # e
      <3> SUFFICES ASSUME NEW l \in Nat, NEW p \in Nat, NEW v \in Event, Has(W, l, p, v)
                   PROVE  l <= n /\ (l = n => p <= k) /\ v # e
        OBVIOUS
      <3>1. v # e
        BY <1>2, <1>3
      <3>2. l <= n /\ p \in 1..Len(W[l])
        BY <1>3 DEF Has, Given
      <3> QED BY <3>1, <3>2, <1>4
    <2>2. \A i \in Nat : \A v \in Event : Holds(registered, i, v) => i <= c /\ registered'[i].tx = registered[i].tx
      BY <1>7, <1>8 DEF Holds
    <2>3. \A i \in Nat : \A v \in Event : Holds(registered', i, v) <=> Holds(registered, i, v) \/ (i = c + 1 /\ v = e)
      BY <1>7, <1>8 DEF Holds
    <2>4. OfLevel(registered'[c + 1].tx, n, stack', FALSE)
      BY <1>3, <1>n, <1>8 DEF OfLevel
    <2>5. Placed(registered, W, stack', FALSE) /\ n \in Nat /\ k \in Nat /\ c \in Nat
      BY <1>3, <1>4, <1>7
    <2> HIDE DEF c, k
    <2>6. WrittenLast(W, written', n, k, e)
      BY <1>6, <2>1 DEF WrittenLast
    <2>7. RegisteredLast(registered, registered', c, e)
      BY <2>2, <2>3 DEF RegisteredLast
    <2> QED BY <2>4, <2>5, <2>6, <2>7, PlacedPublished
  <1>10. ~OuterCommitted' /\ Outer' = 0 /\ Levels' = written' /\ ending' = FALSE
    BY <1>1, NotEnding DEF OuterCommitted, Outer, Levels
  <1>11. written' \in Seq(Seq(Event)) /\ Len(written') = n
    BY <1>3, <1>4, <1>5, AppendProperties, ExceptSeq
  <1>12. HeldTypes'
    BY <1>1, <1>3, <1>8, <1>11 DEF HeldInv, HeldTypes
  <1>13. HeldShape'
    BY <1>3, <1>n, <1>10, <1>11 DEF HeldShape
  <1>14. Apart(written, durable)'
    BY <1>1, <1>2, <1>3, <1>6 DEF HeldInv, Apart
  <1>15. Delivered(durable, ready, dispatched, Outer)'
    BY <1>1, <1>10, NotEnding
  <1> QED BY <1>9, <1>10, <1>12, <1>13, <1>14, <1>15 DEF HeldInv

(* The stack without the transaction that ended. *)
LEMMA StackShrinks ==
    ASSUME HeldInv, stack # <<>>, stack' = Held!Front(stack), begun' = begun
    PROVE  /\ stack' \in Seq(Nat) /\ Len(stack) \in Nat /\ Len(stack) >= 1 /\ Len(stack') = Len(stack) - 1
           /\ \A l \in 1..Len(stack) - 1 : stack'[l] = stack[l]
           /\ \A l \in 1..Len(stack') : stack'[l] <= begun'
           /\ \A l, m \in 1..Len(stack') : stack'[l] = stack'[m] => l = m
  <1>1. /\ stack \in Seq(Nat) /\ begun \in Nat
        /\ \A l \in 1..Len(stack) : stack[l] <= begun
        /\ \A l, m \in 1..Len(stack) : stack[l] = stack[m] => l = m
    BY DEF HeldInv, HeldTypes, HeldShape
  <1>2. /\ stack' \in Seq(Nat) /\ Len(stack) \in Nat /\ Len(stack) >= 1 /\ Len(stack') = Len(stack) - 1
        /\ \A l \in 1..Len(stack) - 1 : stack'[l] = stack[l]
    BY <1>1, FrontOf
  <1>3. \A l \in 1..Len(stack') : l \in 1..Len(stack) /\ stack'[l] = stack[l]
    BY <1>2
  <1>4. \A l \in 1..Len(stack') : stack'[l] <= begun'
    BY <1>1, <1>3
  <1>5. \A l, m \in 1..Len(stack') : stack'[l] = stack'[m] => l = m
    BY <1>1, <1>3
  <1> QED BY <1>2, <1>4, <1>5

(* The outermost transaction commits: _on_commit. *)
LEMMA OuterCommitKeepsHeld == ASSUME HeldInv, Held!CommitInnermost, Len(stack) = 1  PROVE HeldInv'
  <1> DEFINE c == Len(durable)
  <1>1. /\ ~ending /\ committed' = TRUE /\ ending' = TRUE
        /\ UNCHANGED <<stack, begun, registered, ready, dispatched>>
    BY DEF Held!CommitInnermost
  <1>2. Len(written) = 1
    BY <1>1, NotEnding
  <1>3. written' = <<>> /\ durable' = Append(durable, written[1])
    BY <1>2 DEF Held!CommitInnermost, Held!Kept
  <1>4. written \in Seq(Seq(Event)) /\ durable \in Seq(Seq(Event)) /\ written[1] \in Seq(Event) /\ c \in Nat
    <2>1. written \in Seq(Seq(Event)) /\ durable \in Seq(Seq(Event))
      BY DEF HeldInv, HeldTypes
    <2>2. 1 \in 1..Len(written)
      BY <1>2
    <2> QED BY <2>1, <2>2, ElementOfSeq, LenProperties
  <1>5. /\ durable' \in Seq(Seq(Event)) /\ Len(durable') = c + 1 /\ durable'[c + 1] = written[1] /\ durable' # <<>>
    BY <1>3, <1>4, AppendProperties
  <1>6. OuterCommitted' /\ Outer' = c + 1 /\ Levels' = written
    <2>1. written = <<written[1]>>
      BY <1>2, <1>4
    <2> QED BY <1>1, <1>5, <2>1 DEF OuterCommitted, Outer, Levels
  <1>7. HeldTypes'
    BY <1>1, <1>3, <1>5, EmptySeq DEF HeldInv, HeldTypes
  <1>8. HeldShape'
    <2>1. Len(written') = 0 /\ ending' = TRUE /\ Len(stack') = 1
      BY <1>1, <1>3
    <2>2. /\ \A l \in 1..Len(stack') : stack'[l] <= begun'
          /\ \A l, m \in 1..Len(stack') : stack'[l] = stack'[m] => l = m
      BY <1>1 DEF HeldInv, HeldShape
    <2>3. Len(written') = IF ending' THEN Len(stack') - 1 ELSE Len(stack')
      BY <2>1
    <2> QED BY <1>5, <2>2, <2>3 DEF HeldShape
  <1>9. Placed(registered, Levels, stack, ending)'
    <2>1. LevelsKept(registered, registered, written, stack, FALSE, stack, TRUE)
      BY DEF LevelsKept, OfLevel
    <2>2. Placed(registered, written, stack, TRUE)
      BY <1>1, <2>1, NotEnding, PlacedHandedUp
    <2> QED BY <1>1, <1>6, <2>2
  <1>10. Apart(written, durable)'
    BY <1>3 DEF Apart, Has
  <1>11. Delivered(durable, ready, dispatched, Outer)'
    <2>1. MadeDurable(durable, durable', written, c)
      <3> SUFFICES ASSUME NEW a \in Nat, NEW n \in Nat, NEW v \in Event
                   PROVE  /\ Has(durable, a, n, v) => a <= c
                          /\ Has(written, a, n, v) => a = 1
                          /\ Has(durable', a, n, v) <=> Has(durable, a, n, v) \/ (a = c + 1 /\ Has(written, 1, n, v))
        BY DEF MadeDurable
      <3>1. Has(durable, a, n, v) => a <= c
        BY <1>4 DEF Has
      <3>2. Has(written, a, n, v) => a = 1
        BY <1>2 DEF Has
      <3>3. Has(durable', a, n, v) <=> Has(durable, a, n, v) \/ (a = c + 1 /\ Given(written[1], n, v))
        BY <1>3, <1>4, HasAppended
      <3>4. Has(written, 1, n, v) <=> Given(written[1], n, v)
        BY <1>2 DEF Has
      <3> QED BY <3>1, <3>2, <3>3, <3>4
    <2>2. Distinct(written) /\ Apart(written, durable) /\ Delivered(durable, ready, dispatched, 0)
      BY <1>1, NotEnding DEF HeldInv, Placed
    <2> HIDE DEF c
    <2>3. Delivered(durable', ready, dispatched, c + 1)
      BY <1>4, <2>1, <2>2, DeliveredCommitted
    <2> QED BY <1>1, <1>6, <2>3
  <1> QED BY <1>7, <1>8, <1>9, <1>10, <1>11 DEF HeldInv

(* A savepoint is released: _on_commit, before its end. *)
LEMMA ReleaseKeepsHeld == ASSUME HeldInv, Held!CommitInnermost, Len(stack) # 1  PROVE HeldInv'
  <1> DEFINE n == Len(stack) - 1
             k == Len(written[n])
             w == written[n] \o written[n + 1]
  <1>1. /\ ~ending /\ committed' = TRUE /\ ending' = TRUE
        /\ UNCHANGED <<stack, begun, registered, ready, dispatched>>
    BY DEF Held!CommitInnermost
  <1>2. /\ n \in Nat /\ n >= 1 /\ Len(stack) = n + 1 /\ Len(written) = n + 1
        /\ written \in Seq(Seq(Event)) /\ written # <<>>
    <2>1. stack # <<>> /\ stack \in Seq(Nat)
      BY DEF Held!CommitInnermost, Held!Open, HeldInv, HeldTypes
    <2>2. Len(stack) \in Nat \ {0}
      BY <2>1, EmptySeq
    <2>3. n \in Nat /\ n >= 1 /\ Len(stack) = n + 1
      BY <2>2, SMTT(20)
    <2>4. written \in Seq(Seq(Event)) /\ Len(written) = Len(stack)
      BY <1>1, NotEnding DEF HeldInv, HeldTypes
    <2>5. written # <<>>
      BY <2>2, <2>4
    <2> QED BY <2>3, <2>4, <2>5
  <1>n. n + 1 = Len(stack)
    BY <1>2
  <1> HIDE DEF n
  <1>3. written[n] \in Seq(Event) /\ written[n + 1] \in Seq(Event) /\ k \in Nat
    BY <1>2, ElementOfSeq, LenProperties
  <1>4. /\ Held!Front(written) \in Seq(Seq(Event)) /\ Len(Held!Front(written)) = n
        /\ \A i \in 1..n : Held!Front(written)[i] = written[i]
    <2>1. (n + 1) - 1 = n
      BY <1>2
    <2> QED BY <1>2, <2>1, FrontOf
  <1>5. UNCHANGED durable /\ written' = [Held!Front(written) EXCEPT ![n] = w]
    <2>1. Len(written) # 1 /\ Len(written) - 1 = n /\ Len(written) = n + 1
      BY <1>2
    <2>2. /\ UNCHANGED durable
          /\ written' = [Held!Front(written) EXCEPT ![n] = Held!Front(written)[n] \o written[n + 1]]
      BY <2>1 DEF Held!CommitInnermost, Held!Kept, Held!Last
    <2>3. n \in 1..n
      BY <1>2
    <2> QED BY <2>2, <2>3, <1>4
  <1>6. w \in Seq(Event)
    BY <1>3, ConcatProperties
  <1>7. written' \in Seq(Seq(Event)) /\ Len(written') = n
    <2>1. n \in 1..Len(Held!Front(written))
      BY <1>2, <1>4
    <2> HIDE DEF w
    <2> QED BY <2>1, <1>4, <1>5, <1>6, ExceptSeq
  <1>8. WrittenBelow(written, written', n, k)
    <2> SUFFICES ASSUME NEW l \in Nat, NEW p \in Nat, NEW v \in Event
                 PROVE  /\ Has(written, l, p, v) => l <= n + 1 /\ p >= 1 /\ (l = n => p <= k)
                        /\ Has(written', l, p, v)
                               <=> (l <= n /\ Has(written, l, p, v)) \/ (l = n /\ p > k /\ Has(written, n + 1, p - k, v))
      BY DEF WrittenBelow
    <2>1. Has(written, l, p, v) => l <= n + 1 /\ p >= 1 /\ (l = n => p <= k)
      <3> SUFFICES ASSUME Has(written, l, p, v)  PROVE l <= n + 1 /\ p >= 1 /\ (l = n => p <= k)
        OBVIOUS
      <3>1. l \in 1..n + 1 /\ p \in 1..Len(written[l])
        BY <1>2 DEF Has, Given
      <3>2. written[l] \in Seq(Event)
        BY <1>2, <3>1, ElementOfSeq
      <3>3. Len(written[l]) \in Nat
        BY <3>2, LenProperties
      <3> QED BY <3>1, <3>3, <1>2
    <2>2. Has(written', l, p, v) <=> (l # n /\ Has(Held!Front(written), l, p, v)) \/ (l = n /\ Given(w, p, v))
      <3>1. n \in 1..Len(Held!Front(written))
        BY <1>2, <1>4
      <3> DEFINE F == Held!Front(written)
      <3>2. F \in Seq(Seq(Event)) /\ n \in 1..Len(F) /\ written' = [F EXCEPT ![n] = w]
        BY <3>1, <1>4, <1>5
      <3> HIDE DEF w, F
      <3>3. Has([F EXCEPT ![n] = w], l, p, v) <=> (l # n /\ Has(F, l, p, v)) \/ (l = n /\ Given(w, p, v))
        BY <3>2, <1>6, HasReplaced
      <3> QED BY <3>2, <3>3 DEF F
    <2>3. Has(Held!Front(written), l, p, v) <=> l <= n /\ Has(written, l, p, v)
      BY <1>2, <1>4 DEF Has
    <2>4. Given(w, p, v) <=> Given(written[n], p, v) \/ (p > k /\ Given(written[n + 1], p - k, v))
      BY <1>3, GivenJoined
    <2>5. (l = n => (Has(written, l, p, v) <=> Given(written[n], p, v)))
          /\ (Has(written, n + 1, p - k, v) <=> Given(written[n + 1], p - k, v))
      BY <1>2 DEF Has
    <2> HIDE DEF k, w
    <2> QED BY <2>1, <2>2, <2>3, <2>4, <2>5, <1>2
  <1>9. ~OuterCommitted' /\ Outer' = 0 /\ Levels' = written' /\ ending' = TRUE
    BY <1>1, <1>2 DEF OuterCommitted, Outer, Levels
  <1>10. HeldTypes'
    BY <1>1, <1>5, <1>7 DEF HeldInv, HeldTypes
  <1>11. HeldShape'
    BY <1>1, <1>2, <1>7, <1>9 DEF HeldInv, HeldShape
  <1>12. Placed(registered, Levels, stack, ending)'
    <2>1. Placed(registered, written', stack, TRUE)
      <3>1. Placed(registered, written, stack, FALSE) /\ Len(stack) = n + 1 /\ n >= 1 /\ n \in Nat /\ k \in Nat
        BY <1>1, <1>2, <1>3, NotEnding
      <3> HIDE DEF k
      <3> QED BY <3>1, <1>8, PlacedReleased
    <2> QED BY <1>1, <1>9, <2>1
  <1>13. Apart(written, durable)'
    <2> SUFFICES ASSUME NEW l \in Nat, NEW p \in Nat, NEW a \in Nat, NEW m \in Nat, NEW v \in Event,
                        Has(written', l, p, v), Has(durable, a, m, v)
                 PROVE  FALSE
      BY <1>5 DEF Apart
    <2>1. CASE Has(written, l, p, v)
      BY <2>1 DEF HeldInv, Apart
    <2>2. CASE p > k /\ Has(written, n + 1, p - k, v)
      <3>1. n + 1 \in Nat /\ p - k \in Nat
        BY <1>2, <1>3, <2>2
      <3> QED BY <2>2, <3>1 DEF HeldInv, Apart
    <2> QED BY <2>1, <2>2, <1>8 DEF WrittenBelow
  <1>14. Delivered(durable, ready, dispatched, Outer)'
    BY <1>1, <1>5, <1>9, NotEnding
  <1> QED BY <1>10, <1>11, <1>12, <1>13, <1>14 DEF HeldInv

(* A released savepoint ends: _on_transaction_end hands its callbacks up. *)
LEMMA ReleaseEndKeepsHeld == ASSUME HeldInv, Held!EndCommitted, Len(stack) # 1  PROVE HeldInv'
  <1> DEFINE top == stack[Len(stack)]
             n == Len(stack) - 1
  <1>1. /\ ending = TRUE /\ committed = TRUE /\ committed' = FALSE /\ ending' = FALSE /\ stack' = Held!Front(stack)
        /\ UNCHANGED <<begun, dispatched, written, durable>>
    BY DEF Held!EndCommitted, Held!TransactionEnds, Held!Remembered, HeldInv, HeldTypes
  <1>2. /\ Len(written) = n /\ n \in Nat /\ n >= 1 /\ stack # <<>> /\ stack \in Seq(Nat) /\ Len(stack) = n + 1
        /\ ~OuterCommitted /\ ~OuterCommitted'
    <2>1. Len(written) = Len(stack) - 1 /\ written \in Seq(Seq(Event)) /\ stack \in Seq(Nat)
      BY <1>1 DEF HeldInv, HeldTypes, HeldShape
    <2>2. Len(written) \in Nat /\ Len(stack) \in Nat
      BY <2>1, LenProperties
    <2>3. n \in Nat /\ n >= 1 /\ Len(stack) = n + 1
      BY <2>1, <2>2
    <2>4. stack # <<>>
      BY <2>3
    <2> QED BY <2>1, <2>3, <2>4, <1>1 DEF OuterCommitted
  <1>3. UNCHANGED ready /\ registered' = Held!HandedUp(top, stack[n])
    <2>1. Len(stack) > 1
      BY <1>2
    <2> QED BY <1>1, <2>1 DEF Held!EndCommitted, Held!TransactionEnds, Held!Settled, Held!Innermost, Held!Last
  <1>4. registered \in Seq(Callback) /\ stack[n] \in Nat /\ Len(registered) \in Nat
    <2>1. n \in 1..Len(stack)
      BY <1>2
    <2> QED BY <1>2, <2>1, ElementOfSeq, LenProperties DEF HeldInv, HeldTypes
  <1>5. /\ registered' \in Seq(Callback) /\ Len(registered') = Len(registered)
        /\ \A i \in 1..Len(registered) :
               /\ registered'[i].event = registered[i].event
               /\ registered'[i].tx = IF registered[i].tx = top THEN stack[n] ELSE registered[i].tx
    <2> DEFINE up(i) == IF registered[i].tx = top THEN [registered[i] EXCEPT !.tx = stack[n]] ELSE registered[i]
               c == Len(registered)
    <2>1. registered' = [i \in 1..c |-> up(i)]
      BY <1>3, <1>4, LenProperties DEF Held!HandedUp
    <2>2. ASSUME NEW i \in 1..c
          PROVE  /\ up(i) \in Callback /\ up(i).event = registered[i].event
                 /\ up(i).tx = IF registered[i].tx = top THEN stack[n] ELSE registered[i].tx
      <3>1. registered[i] \in Callback
        BY <1>4, ElementOfSeq
      <3> QED BY <3>1, <1>4 DEF Callback
    <2> HIDE DEF up
    <2>3. registered' \in Seq(Callback)
      BY <2>1, <2>2, <1>4, IsASeq
    <2>4. Len(registered') = c
      BY <2>1, <1>4
    <2> QED BY <2>1, <2>2, <2>3, <2>4
  <1>6. /\ stack' \in Seq(Nat) /\ Len(stack') = n
        /\ \A l \in 1..n : stack'[l] = stack[l]
        /\ \A l \in 1..Len(stack') : stack'[l] <= begun'
        /\ \A l, m \in 1..Len(stack') : stack'[l] = stack'[m] => l = m
    BY <1>1, <1>2, StackShrinks
  <1>7. HeldTypes'
    BY <1>1, <1>3, <1>5, <1>6 DEF HeldInv, HeldTypes
  <1>8. HeldShape'
    BY <1>1, <1>2, <1>6 DEF HeldShape
  <1>9. Levels = written /\ Levels' = written /\ Outer = 0 /\ Outer' = 0
    BY <1>1, <1>2 DEF Levels, Outer
  <1>10. Placed(registered, Levels, stack, ending)'
    <2>1. LevelsKept(registered, registered', written, stack, TRUE, stack', FALSE)
      <3>1. \A i \in Nat : \A v \in Event : Holds(registered', i, v) <=> Holds(registered, i, v)
        BY <1>5 DEF Holds
      <3>2. ASSUME NEW i \in Nat, NEW l \in Nat, NEW p \in Nat, NEW v \in Event,
                   Holds(registered, i, v), Has(written, l, p, v), OfLevel(registered[i].tx, l, stack, TRUE)
            PROVE  OfLevel(registered'[i].tx, l, stack', FALSE)
        <4>1. i \in 1..Len(registered) /\ l \in 1..n
          BY <3>2, <1>2 DEF Holds, Has
        <4>2. registered'[i].tx = stack[l]
          <5>1. CASE registered[i].tx = top
            <6>1. registered'[i].tx = stack[n]
              BY <4>1, <5>1, <1>5
            <6>2. l = n
              <7> SUFFICES ASSUME l # n PROVE FALSE
                OBVIOUS
              <7>1. top = stack[l] /\ l \in 1..Len(stack) /\ Len(stack) \in 1..Len(stack) /\ l # Len(stack)
                BY <3>2, <4>1, <5>1, <1>2 DEF OfLevel
              <7> QED BY <7>1 DEF HeldInv, HeldShape
            <6> QED BY <6>1, <6>2
          <5>2. CASE registered[i].tx # top
            <6>1. registered'[i].tx = registered[i].tx
              BY <4>1, <5>2, <1>5
            <6> QED BY <6>1, <3>2, <5>2 DEF OfLevel
          <5> QED BY <5>1, <5>2
        <4> QED BY <4>1, <4>2, <1>6 DEF OfLevel
      <3> QED BY <3>1, <3>2 DEF LevelsKept
    <2>2. Placed(registered, written, stack, TRUE)
      BY <1>1, <1>9 DEF HeldInv
    <2>3. Placed(registered', written, stack', FALSE)
      BY <2>1, <2>2, PlacedHandedUp
    <2> QED BY <1>1, <1>9, <2>3
  <1>11. Apart(written, durable)'
    BY <1>1 DEF HeldInv
  <1>12. Delivered(durable, ready, dispatched, Outer)'
    BY <1>1, <1>3, <1>9 DEF HeldInv
  <1> QED BY <1>7, <1>8, <1>10, <1>11, <1>12 DEF HeldInv

(* Nothing is held and nothing is written where no transaction is open. *)
LEMMA NothingPlaced ==
    ASSUME NEW s, NEW e \in BOOLEAN
    PROVE  Placed(<<>>, <<>>, s, e)
  <1>1. \A l, p \in Nat : \A v \in Event : ~Has(<<>>, l, p, v)
    BY DEF Has
  <1>2. \A i \in Nat : \A v \in Event : ~Holds(<<>>, i, v)
    BY DEF Holds
  <1> QED BY <1>1, <1>2 DEF Placed, SameLevels, AllHeld, SameOrder, Distinct

(* The outermost transaction ends: what was registered is handed over to be dispatched. *)
LEMMA OuterEndKeepsHeld == ASSUME HeldInv, Held!EndCommitted, Len(stack) = 1  PROVE HeldInv'
  <1> DEFINE c == Len(ready)
             d == Len(durable)
  <1>1. /\ ending = TRUE /\ committed = TRUE /\ committed' = FALSE /\ ending' = FALSE /\ stack' = Held!Front(stack)
        /\ UNCHANGED <<begun, dispatched, written, durable>>
    BY DEF Held!EndCommitted, Held!TransactionEnds, Held!Remembered, HeldInv, HeldTypes
  <1>2. /\ registered' = <<>> /\ ready' = IF registered # <<>> THEN Append(ready, Held!Batch) ELSE ready
    BY <1>1 DEF Held!EndCommitted, Held!TransactionEnds
  <1>3. stack # <<>> /\ OuterCommitted /\ Outer = d /\ Levels = <<durable[d]>> /\ durable # <<>>
    BY <1>1 DEF OuterCommitted, Outer, Levels, HeldInv, HeldShape
  <1>4. /\ ready \in Seq(Seq(Event)) /\ c \in Nat /\ registered \in Seq(Callback) /\ Len(registered) \in Nat
        /\ durable \in Seq(Seq(Event)) /\ d \in Nat /\ d >= 1 /\ written = <<>>
    <2>1. /\ ready \in Seq(Seq(Event)) /\ registered \in Seq(Callback) /\ durable \in Seq(Seq(Event))
          /\ written \in Seq(Seq(Event)) /\ Len(written) = 0
      BY <1>1 DEF HeldInv, HeldTypes, HeldShape
    <2> QED BY <2>1, <1>3, LenProperties, EmptySeq
  <1>5. stack' \in Seq(Nat) /\ Len(stack') = 0
    BY <1>1, <1>3, StackShrinks
  <1>6. /\ Held!Batch \in Seq(Event) /\ (registered # <<>> => Held!Batch # <<>>)
        /\ \A x \in Nat : \A v \in Event : Given(Held!Batch, x, v) <=> Holds(registered, x, v)
    <2> DEFINE ev(i) == registered[i].event
               m == Len(registered)
    <2>1. Held!Batch = [i \in 1..m |-> ev(i)]
      BY <1>4, LenProperties DEF Held!Batch
    <2>2. \A i \in 1..m : ev(i) \in Event
      <3> SUFFICES ASSUME NEW i \in 1..m  PROVE ev(i) \in Event
        OBVIOUS
      <3>1. registered[i] \in Callback
        BY <1>4, ElementOfSeq
      <3> QED BY <3>1 DEF Callback
    <2>3. Held!Batch \in Seq(Event)
      <3> HIDE DEF ev
      <3> QED BY <2>1, <2>2, <1>4, IsASeq
    <2>4. Len(Held!Batch) = m
      BY <2>1, <1>4
    <2>5. registered # <<>> => m >= 1
      BY <1>4, EmptySeq
    <2>6. \A i \in 1..m : Held!Batch[i] = registered[i].event
      BY <2>1
    <2> QED BY <2>3, <2>4, <2>5, <2>6 DEF Given, Holds
  <1>7. ready' \in Seq(Seq(Event)) /\ \A k \in 1..Len(ready') : ready'[k] # <<>>
    <2>1. CASE registered # <<>>
      <3>1. /\ ready' \in Seq(Seq(Event)) /\ Len(ready') = c + 1
            /\ \A k \in 1..c : ready'[k] = ready[k]
            /\ ready'[c + 1] = Held!Batch
        BY <2>1, <1>2, <1>4, <1>6, AppendProperties
      <3>2. \A k \in 1..c : ready[k] # <<>>
        BY DEF HeldInv, HeldTypes
      <3>3. \A k \in 1..Len(ready') : k \in 1..c \/ k = c + 1
        BY <3>1, <1>4
      <3> HIDE DEF c
      <3> QED BY <2>1, <1>6, <3>1, <3>2, <3>3
    <2>2. CASE registered = <<>>
      BY <2>2, <1>2 DEF HeldInv, HeldTypes
    <2> QED BY <2>1, <2>2
  <1>8. HeldTypes'
    BY <1>1, <1>2, <1>5, <1>7, EmptySeq DEF HeldInv, HeldTypes
  <1>9. ~OuterCommitted' /\ Outer' = 0 /\ Levels' = <<>>
    BY <1>1, <1>4 DEF OuterCommitted, Outer, Levels
  <1>10. HeldShape'
    BY <1>1, <1>4, <1>5, <1>9 DEF HeldShape
  <1>11. Placed(registered, Levels, stack, ending)'
    <2>1. Placed(<<>>, <<>>, stack', FALSE)
      BY NothingPlaced
    <2> QED BY <1>1, <1>2, <1>9, <2>1
  <1>12. Apart(written, durable)'
    BY <1>1 DEF HeldInv
  <1>13. Delivered(durable, ready, dispatched, Outer)'
    <2>1. \A l, n \in Nat : \A v \in Event : Has(Levels, l, n, v) <=> l = 1 /\ Has(durable, d, n, v)
      <3>1. Len(Levels) = 1 /\ Levels[1] = durable[d]
        BY <1>3
      <3>2. d \in 1..Len(durable)
        BY <1>4
      <3> QED BY <3>1, <3>2 DEF Has
    <2>2. \A k, x \in Nat : \A v \in Event : Has(ready, k, x, v) => k <= c
      BY <1>4 DEF Has
    <2>3. \A k, x \in Nat : \A v \in Event : Has(ready', k, x, v) <=> Has(ready, k, x, v) \/ (k = c + 1 /\ Holds(registered, x, v))
      <3>1. CASE registered # <<>>
        BY <3>1, <1>2, <1>4, <1>6, HasAppended
      <3>2. CASE registered = <<>>
        <4>1. \A x \in Nat : \A v \in Event : ~Holds(registered, x, v)
          BY <3>2 DEF Holds
        <4> QED BY <3>2, <4>1, <1>2
      <3> QED BY <3>1, <3>2
    <2>4. \A n \in Nat : \A v \in Event : ~Has(durable, 0, n, v)
      BY <1>4 DEF Has
    <2> HIDE DEF c, d
    <2>5. BatchAdded(durable, ready, ready', registered, Levels, d, c)
      BY <2>1, <2>2, <2>3, <2>4 DEF BatchAdded
    <2>6. Delivered(durable, ready, dispatched, d) /\ Placed(registered, Levels, stack, TRUE)
      BY <1>1, <1>3 DEF HeldInv
    <2>7. Delivered(durable, ready', dispatched, 0)
      BY <1>4, <2>5, <2>6, DeliveredEnded
    <2> QED BY <1>1, <1>9, <2>7
  <1> QED BY <1>8, <1>10, <1>11, <1>12, <1>13 DEF HeldInv

(* The last transaction is rolled back, or closed: what it registered goes with what it wrote. *)
LEMMA OuterRollbackKeepsHeld == ASSUME HeldInv, Held!RollbackInnermost, Len(stack) = 1  PROVE HeldInv'
  <1>1. /\ ~ending /\ committed' = FALSE /\ ending' = FALSE /\ stack' = Held!Front(stack)
        /\ written' = Held!Front(written) /\ UNCHANGED <<begun, dispatched, durable>>
    BY DEF Held!RollbackInnermost, Held!TransactionEnds, Held!Remembered
  <1>2. registered' = <<>> /\ UNCHANGED ready
    <2>1. ~committed
      BY <1>1 DEF HeldInv, HeldTypes
    <2> QED BY <2>1 DEF Held!RollbackInnermost, Held!TransactionEnds
  <1>3. stack # <<>> /\ Len(written) = 1 /\ written \in Seq(Seq(Event))
    <2>1. stack # <<>> /\ written \in Seq(Seq(Event))
      BY DEF Held!RollbackInnermost, Held!Open, HeldInv, HeldTypes
    <2> QED BY <2>1, <1>1, NotEnding
  <1>4. written # <<>>
    BY <1>3
  <1>5. stack' \in Seq(Nat) /\ Len(stack') = 0
    BY <1>1, <1>3, StackShrinks
  <1>6. written' = <<>>
    <2>1. written' \in Seq(Seq(Event)) /\ Len(written') = Len(written) - 1
      BY <1>1, <1>3, <1>4, FrontOf
    <2> QED BY <2>1, <1>3, EmptySeq
  <1>7. HeldTypes'
    BY <1>1, <1>2, <1>5, <1>6, EmptySeq DEF HeldInv, HeldTypes
  <1>8. ~OuterCommitted' /\ Outer' = 0 /\ Levels' = <<>>
    BY <1>1, <1>6 DEF OuterCommitted, Outer, Levels
  <1>9. HeldShape'
    BY <1>1, <1>5, <1>6, <1>8 DEF HeldShape
  <1>10. Placed(registered, Levels, stack, ending)'
    <2>1. Placed(<<>>, <<>>, stack', FALSE)
      BY NothingPlaced
    <2> QED BY <1>1, <1>2, <1>8, <2>1
  <1>11. Apart(written, durable)'
    BY <1>6 DEF Apart, Has
  <1>12. Delivered(durable, ready, dispatched, Outer)'
    BY <1>1, <1>2, <1>8, NotEnding
  <1> QED BY <1>7, <1>9, <1>10, <1>11, <1>12 DEF HeldInv

(* The callbacks of the innermost transaction are the last that were registered. *)
LEMMA InnermostLast ==
    ASSUME HeldInv, ~ending, stack # <<>>
    PROVE  \E c \in Nat : /\ c <= Len(registered)
                          /\ {i \in DOMAIN registered : registered[i].tx # stack[Len(stack)]} = 1..c
  <1> DEFINE top == stack[Len(stack)]
             m == Len(registered)
             T == {i \in 1..m : registered[i].tx = top}
  <1>1. registered \in Seq(Callback) /\ m \in Nat /\ DOMAIN registered = 1..m
    BY LenProperties DEF HeldInv, HeldTypes
  <1>2. CASE T = {}
    <2>1. {i \in DOMAIN registered : registered[i].tx # top} = 1..m
      BY <1>1, <1>2
    <2> QED BY <1>1, <2>1
  <1>3. CASE T # {}
    <2>1. T \subseteq Nat
      BY <1>1
    <2>2. PICK x \in T : \A y \in T : ~(<<y, x>> \in OpToRel(<, Nat))
      <3> HIDE DEF T
      <3> QED BY <1>3, <2>1, NatLessThanWellFounded, WFMin
    <2>3. \A y \in T : ~(y < x)
      BY <2>1, <2>2 DEF OpToRel
    <2>4. ASSUME NEW j \in 1..m, x < j  PROVE registered[j].tx = top
      <3>1. PICK l \in Nat, p \in Nat : Has(written, l, p, registered[x].event) /\ OfLevel(registered[x].tx, l, stack, FALSE)
        <4>1. registered[x] \in Callback /\ Holds(registered, x, registered[x].event) /\ x \in Nat
          BY <1>1, <2>1, ElementOfSeq DEF Holds
        <4> QED BY <4>1, NotEnding DEF Placed, SameLevels, Callback
      <3>2. PICK h \in Nat, q \in Nat : Has(written, h, q, registered[j].event) /\ OfLevel(registered[j].tx, h, stack, FALSE)
        <4>1. registered[j] \in Callback /\ Holds(registered, j, registered[j].event) /\ j \in Nat
          BY <1>1, ElementOfSeq DEF Holds
        <4> QED BY <4>1, NotEnding DEF Placed, SameLevels, Callback
      <3>3. l <= h
        <4>1. /\ Holds(registered, x, registered[x].event) /\ Holds(registered, j, registered[j].event)
              /\ x \in Nat /\ j \in Nat /\ registered[x] \in Callback /\ registered[j] \in Callback
          BY <1>1, <2>1, ElementOfSeq DEF Holds
        <4>2. Precedes(written, registered[x].event, registered[j].event)
          BY <4>1, <2>4, NotEnding DEF Placed, SameOrder, Callback
        <4> QED BY <3>1, <3>2, <4>2 DEF Precedes
      <3>4. Len(written) = Len(stack) /\ Len(stack) \in Nat /\ l \in 1..Len(stack) /\ h \in 1..Len(stack)
        BY <3>1, <3>2, NotEnding DEF Has
      <3>5. top = stack[l] /\ registered[j].tx = stack[h]
        BY <3>1, <3>2 DEF OfLevel
      <3>6. l = Len(stack)
        <4>1. Len(stack) \in 1..Len(stack)
          BY <3>4
        <4> QED BY <3>4, <3>5, <4>1 DEF HeldInv, HeldShape
      <3> QED BY <3>3, <3>4, <3>5, <3>6
    <2>5. x - 1 \in Nat /\ x - 1 <= m
      BY <1>1
    <2>6. {i \in DOMAIN registered : registered[i].tx # top} = 1..(x - 1)
      <3>1. ASSUME NEW i \in 1..m  PROVE registered[i].tx # top <=> i \in 1..(x - 1)
        <4>1. CASE i < x
          <5>1. i \notin T
            BY <4>1, <2>3
          <5> QED BY <4>1, <5>1, <1>1
        <4>2. CASE i = x
          BY <4>2, <1>1
        <4>3. CASE x < i
          BY <4>3, <2>4, <1>1
        <4> QED BY <4>1, <4>2, <4>3, <1>1
      <3>2. \A i \in 1..(x - 1) : i \in 1..m
        BY <1>1
      <3> HIDE DEF m, top
      <3> QED BY <3>1, <3>2, <1>1
    <2> QED BY <2>5, <2>6
  <1> QED BY <1>2, <1>3

(* A savepoint is rolled back: its callbacks are dropped, and they are those of what the database undoes. *)
LEMMA RollbackKeepsHeld == ASSUME HeldInv, Held!RollbackInnermost, Len(stack) # 1  PROVE HeldInv'
  <1> DEFINE top == stack[Len(stack)]
             n == Len(stack) - 1
  <1>1. /\ ~ending /\ committed' = FALSE /\ ending' = FALSE /\ stack' = Held!Front(stack) /\ stack # <<>>
        /\ written' = Held!Front(written) /\ UNCHANGED <<begun, dispatched, durable>>
    BY DEF Held!RollbackInnermost, Held!TransactionEnds, Held!Remembered, Held!Open
  <1>2. /\ n \in Nat /\ n >= 1 /\ Len(stack) = n + 1 /\ Len(written) = n + 1
        /\ written \in Seq(Seq(Event)) /\ written # <<>> /\ stack \in Seq(Nat)
    <2>1. stack \in Seq(Nat) /\ written \in Seq(Seq(Event)) /\ Len(written) = Len(stack)
      BY <1>1, NotEnding DEF HeldInv, HeldTypes
    <2>2. Len(stack) \in Nat \ {0}
      BY <1>1, <2>1, EmptySeq
    <2>3. n \in Nat /\ n >= 1 /\ Len(stack) = n + 1
      BY <2>2
    <2>4. written # <<>>
      BY <2>1, <2>2
    <2> QED BY <2>1, <2>3, <2>4
  <1>3. UNCHANGED ready /\ registered' = Held!Dropped(top)
    <2>1. ~committed /\ Len(stack) > 1
      BY <1>1, <1>2 DEF HeldInv, HeldTypes
    <2> QED BY <2>1 DEF Held!RollbackInnermost, Held!TransactionEnds, Held!Settled, Held!Innermost, Held!Last
  <1>4. PICK c \in Nat : c <= Len(registered) /\ {i \in DOMAIN registered : registered[i].tx # top} = 1..c
    BY <1>1, InnermostLast
  <1>5. registered \in Seq(Callback) /\ Len(registered) \in Nat /\ DOMAIN registered = 1..Len(registered)
    BY LenProperties DEF HeldInv, HeldTypes
  <1>6. /\ registered' \in Seq(Callback) /\ Len(registered') = c
        /\ \A i \in 1..c : registered'[i] = registered[i]
    <2>1. registered' = Held!Picked(registered, 1..c)
      BY <1>3, <1>4 DEF Held!Dropped
    <2> QED BY <2>1, <1>4, <1>5, PickedFirst
  <1>7. /\ stack' \in Seq(Nat) /\ Len(stack') = n
        /\ \A l \in 1..n : stack'[l] = stack[l]
        /\ \A l \in 1..Len(stack') : stack'[l] <= begun'
        /\ \A l, m \in 1..Len(stack') : stack'[l] = stack'[m] => l = m
    BY <1>1, <1>2, StackShrinks, ZenonT(30)
  <1>8. written' \in Seq(Seq(Event)) /\ Len(written') = n
    BY <1>1, <1>2, FrontOf
  <1>9. HeldTypes'
    BY <1>1, <1>3, <1>6, <1>7, <1>8 DEF HeldInv, HeldTypes
  <1>10. ~OuterCommitted' /\ Outer' = 0 /\ Levels' = written'
    BY <1>1 DEF OuterCommitted, Outer, Levels
  <1>11. HeldShape'
    BY <1>1, <1>7, <1>8, <1>10 DEF HeldShape
  <1>12. \A l, p \in Nat : \A v \in Event : Has(written', l, p, v) <=> l <= n /\ Has(written, l, p, v)
    <2>1. Len(written) - 1 = n
      BY <1>2
    <2> QED BY <1>1, <1>2, <2>1, HasInFront
  <1>13. Placed(registered, Levels, stack, ending)'
    <2>1. \A i \in Nat : \A v \in Event : Holds(registered', i, v) <=> i <= c /\ Holds(registered, i, v)
      BY <1>4, <1>5, <1>6 DEF Holds
    <2>2. ASSUME NEW i \in Nat, NEW l \in Nat, NEW p \in Nat, NEW v \in Event,
                 Holds(registered, i, v), Has(written, l, p, v), OfLevel(registered[i].tx, l, stack, FALSE)
          PROVE  (i <= c <=> l <= n) /\ (i <= c => OfLevel(registered'[i].tx, l, stack', FALSE))
      <3>1. i \in 1..Len(registered) /\ l \in 1..n + 1
        BY <2>2, <1>2 DEF Holds, Has
      <3>2. registered[i].tx = stack[l]
        BY <2>2 DEF OfLevel
      <3>3. i <= c <=> registered[i].tx # top
        <4>1. i \in {j \in DOMAIN registered : registered[j].tx # top} <=> registered[i].tx # top
          BY <3>1, <1>5
        <4>2. i \in 1..c <=> registered[i].tx # top
          BY <4>1, <1>4
        <4> QED BY <4>2, <3>1, <1>5
      <3>4. registered[i].tx # top <=> l <= n
        <4>1. l \in 1..Len(stack) /\ Len(stack) \in 1..Len(stack)
          BY <3>1, <1>2
        <4>2. stack[l] = stack[Len(stack)] => l = Len(stack)
          BY <4>1 DEF HeldInv, HeldShape
        <4>3. l = Len(stack) <=> ~(l <= n)
          <5> HIDE DEF n
          <5> QED BY <3>1, <1>2
        <4> QED BY <3>2, <4>2, <4>3
      <3>5. i <= c => OfLevel(registered'[i].tx, l, stack', FALSE)
        <4> SUFFICES ASSUME i <= c  PROVE OfLevel(registered'[i].tx, l, stack', FALSE)
          OBVIOUS
        <4>1. i \in 1..c /\ l \in 1..n
          BY <3>1, <3>3, <3>4, <1>5
        <4>2. registered'[i].tx = stack'[l] /\ l \in 1..Len(stack')
          BY <4>1, <3>2, <1>6, <1>7
        <4> QED BY <4>2 DEF OfLevel
      <3> QED BY <3>3, <3>4, <3>5
    <2> HIDE DEF n
    <2>3. DroppedFrom(registered, registered', written, written', stack, stack', n, c)
      BY <2>1, <2>2, <1>12 DEF DroppedFrom
    <2>4. Placed(registered, written, stack, FALSE)
      BY <1>1, NotEnding
    <2>5. Placed(registered', written', stack', FALSE)
      BY <1>2, <1>4, <2>3, <2>4, PlacedDropped
    <2> QED BY <1>1, <1>10, <2>5
  <1>14. Apart(written, durable)'
    BY <1>1, <1>12 DEF HeldInv, Apart
  <1>15. Delivered(durable, ready, dispatched, Outer)'
    BY <1>1, <1>3, <1>10, NotEnding
  <1> QED BY <1>9, <1>11, <1>13, <1>14, <1>15 DEF HeldInv

(* _run calls the next callback of the batch that was handed over last. *)
LEMMA DispatchKeepsHeld == ASSUME HeldInv, Held!Dispatch  PROVE HeldInv'
  <1> DEFINE r == Len(ready)
             b == ready[r]
             e == b[1]
             c == Len(dispatched)
  <1>1. /\ ~ending /\ ready # <<>> /\ UNCHANGED <<stack, begun, registered, committed, ending, written, durable>>
        /\ dispatched' = Append(dispatched, Head(b))
        /\ ready' = IF Len(b) = 1 THEN Held!Front(ready) ELSE [ready EXCEPT ![r] = Tail(ready[r])]
    BY DEF Held!Dispatch, Held!Last
  <1>2. ready \in Seq(Seq(Event)) /\ dispatched \in Seq(Event) /\ \A k \in 1..Len(ready) : ready[k] # <<>>
    BY DEF HeldInv, HeldTypes
  <1>3. r \in Nat /\ r >= 1 /\ c \in Nat
    BY <1>1, <1>2, EmptySeq, LenProperties
  <1>4. r \in 1..Len(ready) /\ b \in Seq(Event) /\ b # <<>>
    BY <1>2, <1>3, ElementOfSeq
  <1>5. Len(b) \in Nat /\ Len(b) >= 1 /\ Head(b) = e /\ e \in Event
    <2>1. Len(b) \in Nat /\ Len(b) >= 1
      BY <1>4, EmptySeq, LenProperties
    <2>2. 1 \in 1..Len(b)
      BY <2>1
    <2> HIDE DEF b
    <2> QED BY <1>4, <2>1, <2>2, HeadTailProperties, ElementOfSeq
  <1>6. /\ Tail(b) \in Seq(Event) /\ Len(Tail(b)) = Len(b) - 1
        /\ \A x \in Nat : \A v \in Event : Given(Tail(b), x, v) <=> x >= 1 /\ Given(b, x + 1, v)
    <2> HIDE DEF b
    <2>1. Tail(b) \in Seq(Event) /\ Len(Tail(b)) = Len(b) - 1 /\ \A x \in 1..Len(Tail(b)) : Tail(b)[x] = b[x + 1]
      BY <1>4, HeadTailProperties
    <2> QED BY <2>1, <1>5 DEF Given
  <1>7. /\ ready' \in Seq(Seq(Event)) /\ \A k \in 1..Len(ready') : ready'[k] # <<>>
        /\ \A k, x \in Nat : \A v \in Event :
               Has(ready', k, x, v) <=> (k # r /\ Has(ready, k, x, v)) \/ (k = r /\ x >= 1 /\ Has(ready, r, x + 1, v))
    <2>1. CASE Len(b) = 1
      <3>1. ready' = Held!Front(ready)
        BY <2>1, <1>1
      <3>2. /\ ready' \in Seq(Seq(Event)) /\ Len(ready') = r - 1
            /\ \A k \in 1..r - 1 : ready'[k] = ready[k]
        BY <3>1, <1>1, <1>2, FrontOf, ZenonT(30)
      <3>3. ASSUME NEW k \in 1..Len(ready')  PROVE ready'[k] # <<>>
        <4>1. k \in 1..r - 1 /\ k \in 1..Len(ready)
          BY <3>2, <1>3
        <4> QED BY <3>2, <1>2, <4>1, Zenon
      <3>4. ASSUME NEW k \in Nat, NEW x \in Nat, NEW v \in Event
            PROVE  Has(ready', k, x, v) <=> (k # r /\ Has(ready, k, x, v)) \/ (k = r /\ x >= 1 /\ Has(ready, r, x + 1, v))
        <4>1. Has(ready', k, x, v) <=> k <= r - 1 /\ Has(ready, k, x, v)
          <5>1. Has(Held!Front(ready), k, x, v) <=> k <= r - 1 /\ Has(ready, k, x, v)
            BY <1>1, <1>2, HasInFront
          <5> QED BY <3>1, <5>1
        <4>2. ~(x >= 1 /\ Has(ready, r, x + 1, v))
          BY <2>1 DEF Has, Given
        <4>3. Has(ready, k, x, v) => k \in 1..r
          BY DEF Has
        <4> HIDE DEF r
        <4> QED BY <4>1, <4>2, <4>3, <1>3
      <3> QED BY <3>2, <3>3, <3>4
    <2>2. CASE Len(b) # 1
      <3> DEFINE w == Tail(b)
      <3>1. ready' = [ready EXCEPT ![r] = w] /\ w \in Seq(Event)
        BY <2>2, <1>1, <1>6
      <3>2. w # <<>>
        <4>1. Len(Tail(b)) = Len(b) - 1 /\ Len(b) \in Nat /\ Len(b) >= 1 /\ Len(b) # 1
          BY <2>2, <1>5, <1>6
        <4>2. Len(Tail(b)) # 0 /\ Len(<<>>) = 0
          <5> HIDE DEF b
          <5> QED BY <4>1, EmptySeq
        <4>3. Len(w) # Len(<<>>)
          BY <4>2
        <4> HIDE DEF w
        <4> QED BY <4>3
      <3>3. \A x \in Nat : \A v \in Event : Given(w, x, v) <=> x >= 1 /\ Given(b, x + 1, v)
        BY <1>6
      <3> HIDE DEF w
      <3>4. /\ ready' \in Seq(Seq(Event)) /\ Len(ready') = r
            /\ \A k \in 1..r : ready'[k] = IF k = r THEN w ELSE ready[k]
        BY <3>1, <1>2, <1>4, ExceptSeq
      <3>5. \A k \in 1..Len(ready') : ready'[k] # <<>>
        BY <3>2, <3>4, <1>2
      <3>6. ASSUME NEW k \in Nat, NEW x \in Nat, NEW v \in Event
            PROVE  Has(ready', k, x, v) <=> (k # r /\ Has(ready, k, x, v)) \/ (k = r /\ x >= 1 /\ Has(ready, r, x + 1, v))
        <4>1. Has([ready EXCEPT ![r] = w], k, x, v) <=> (k # r /\ Has(ready, k, x, v)) \/ (k = r /\ Given(w, x, v))
          BY <3>1, <1>2, <1>4, HasReplaced
        <4>2. Has(ready, r, x + 1, v) <=> Given(b, x + 1, v)
          BY <1>4 DEF Has
        <4> QED BY <4>1, <4>2, <3>1, <3>3
      <3> QED BY <3>4, <3>5, <3>6
    <2> QED BY <2>1, <2>2
  <1>8. dispatched' \in Seq(Event) /\ dispatched' = Append(dispatched, e)
    BY <1>1, <1>2, <1>5, AppendProperties
  <1>9. HeldTypes'
    BY <1>1, <1>7, <1>8 DEF HeldInv, HeldTypes
  <1>10. ~OuterCommitted' /\ Outer' = 0 /\ Levels' = Levels
    BY <1>1 DEF OuterCommitted, Outer, Levels
  <1>11. HeldShape'
    BY <1>1, <1>10 DEF HeldInv, HeldShape
  <1>12. Placed(registered, Levels, stack, ending)' /\ Apart(written, durable)'
    BY <1>1, <1>10 DEF HeldInv
  <1>13. Delivered(durable, ready, dispatched, Outer)'
    <2>1. Has(ready, r, 1, e)
      BY <1>4, <1>5 DEF Has, Given
    <2>2. \A x \in Nat : \A v \in Event : Has(ready, r, x, v) => x >= 1
      BY <1>5 DEF Has, Given
    <2>3. \A i \in Nat : \A v \in Event : Given(dispatched, i, v) => i <= c
      BY <1>3 DEF Given
    <2>4. \A i \in Nat : \A v \in Event : Given(dispatched', i, v) <=> Given(dispatched, i, v) \/ (i = c + 1 /\ v = e)
      BY <1>2, <1>5, <1>8, GivenAppended
    <2>5. \A m \in Nat : \A v \in Event : ~Has(durable, 0, m, v)
      BY LenProperties DEF Has, HeldInv, HeldTypes
    <2> HIDE DEF r, b, e, c
    <2>6. FirstCalled(durable, ready, ready', dispatched, dispatched', e, r, c)
      BY <1>7, <2>1, <2>2, <2>3, <2>4, <2>5 DEF FirstCalled
    <2>7. Delivered(durable, ready, dispatched, 0)
      BY <1>1, NotEnding
    <2>8. Delivered(durable, ready', dispatched', 0)
      BY <1>3, <1>5, <2>6, <2>7, DeliveredDispatched
    <2> QED BY <1>1, <1>10, <2>8
  <1> QED BY <1>9, <1>11, <1>12, <1>13 DEF HeldInv

(* What is registered, written, durable and dispatched agree, whatever the session does. *)
LEMMA HeldKept == HeldInv /\ [Held!Next]_HeldVars => HeldInv'
  <1> SUFFICES ASSUME HeldInv, [Held!Next]_HeldVars  PROVE HeldInv'
    OBVIOUS
  <1>1. CASE Held!BeginTransaction
    BY <1>1, BeginKeepsHeld
  <1>2. ASSUME NEW e \in Event, Held!Publish(e)  PROVE HeldInv'
    BY <1>2, PublishKeepsHeld
  <1>3. CASE Held!CommitInnermost
    BY <1>3, OuterCommitKeepsHeld, ReleaseKeepsHeld
  <1>4. CASE Held!ListenerRaises
    BY <1>4 DEF Held!ListenerRaises, HeldInv, HeldTypes, HeldShape, OuterCommitted, Outer, Levels
  <1>5. CASE Held!EndCommitted
    BY <1>5, OuterEndKeepsHeld, ReleaseEndKeepsHeld
  <1>6. CASE Held!RollbackInnermost
    BY <1>6, OuterRollbackKeepsHeld, RollbackKeepsHeld
  <1>7. CASE Held!Dispatch
    BY <1>7, DispatchKeepsHeld
  <1>8. CASE UNCHANGED HeldVars
    BY <1>8 DEF HeldVars, HeldInv, HeldTypes, HeldShape, OuterCommitted, Outer, Levels
  <1> QED BY <1>1, <1>2, <1>3, <1>4, <1>5, <1>6, <1>7, <1>8 DEF Held!Next

(* The invariant says what is dispatched. *)
LEMMA HeldMeans == HeldInv => DispatchedAsCommitted
  <1> SUFFICES ASSUME HeldInv  PROVE Held!NeverUndone /\ Held!InPublishOrder /\ Held!NothingForgotten
    BY DEF DispatchedAsCommitted, Held!DispatchedAsCommitted
  <1> USE DEF Held!Range
  <1>1. /\ dispatched \in Seq(Event) /\ durable \in Seq(Seq(Event)) /\ ready \in Seq(Seq(Event))
        /\ Delivered(durable, ready, dispatched, Outer)
    BY DEF HeldInv, HeldTypes
  <1>2. /\ Len(dispatched) \in Nat /\ DOMAIN dispatched = 1..Len(dispatched)
        /\ \A i \in 1..Len(dispatched) : dispatched[i] \in Event
        /\ Len(durable) \in Nat /\ DOMAIN durable = 1..Len(durable)
    BY <1>1, LenProperties, ElementOfSeq
  <1>3. ASSUME NEW a \in 1..Len(durable)
        PROVE  /\ durable[a] \in Seq(Event) /\ Len(durable[a]) \in Nat /\ DOMAIN durable[a] = 1..Len(durable[a])
               /\ \A n \in 1..Len(durable[a]) : durable[a][n] \in Event
    <2>1. durable[a] \in Seq(Event)
      BY <1>1, ElementOfSeq
    <2> QED BY <2>1, LenProperties, ElementOfSeq
  <1>4. ASSUME NEW v \in Event, NEW a \in Nat, NEW n \in Nat, Has(durable, a, n, v)
        PROVE  v \in Held!DurableEvents
    <2>1. a \in DOMAIN durable /\ a \in 1..Len(durable) /\ n \in 1..Len(durable[a]) /\ durable[a][n] = v
      BY <1>2, <1>4 DEF Has, Given
    <2>2. n \in DOMAIN durable[a]
      BY <1>3, <2>1
    <2> QED BY <2>1, <2>2 DEF Held!DurableEvents
  <1>5. Held!NeverUndone
    <2>1. ASSUME NEW i \in DOMAIN dispatched  PROVE dispatched[i] \in Held!DurableEvents
      <3>1. dispatched[i] \in Event /\ Given(dispatched, i, dispatched[i]) /\ i \in Nat
        BY <1>2 DEF Given
      <3> QED BY <3>1, <1>1, <1>4 DEF Delivered, HandedOver
    <2>2. ASSUME NEW i \in DOMAIN dispatched, NEW j \in DOMAIN dispatched, dispatched[i] = dispatched[j]  PROVE i = j
      <3>1. dispatched[i] \in Event /\ Given(dispatched, i, dispatched[i]) /\ Given(dispatched, j, dispatched[i]) /\ i \in Nat /\ j \in Nat
        BY <1>2, <2>2 DEF Given
      <3> QED BY <3>1, <1>1 DEF Delivered, HandedOver
    <2> QED BY <2>1, <2>2 DEF Held!NeverUndone, Held!IsInjective
  <1>6. Held!InPublishOrder
    <2> SUFFICES ASSUME NEW a \in DOMAIN durable, NEW n \in DOMAIN durable[a], NEW j \in DOMAIN dispatched,
                        dispatched[j] = durable[a][n], NEW m \in 1..n - 1
                 PROVE  \E i \in 1..j - 1 : dispatched[i] = durable[a][m]
      BY DEF Held!InPublishOrder
    <2>1. a \in 1..Len(durable) /\ n \in 1..Len(durable[a]) /\ m \in 1..Len(durable[a]) /\ m < n
      BY <1>2, <1>3
    <2>2. /\ Has(durable, a, n, durable[a][n]) /\ Has(durable, a, m, durable[a][m]) /\ Given(dispatched, j, durable[a][n])
          /\ a \in Nat /\ n \in Nat /\ m \in Nat /\ j \in Nat /\ durable[a][n] \in Event /\ durable[a][m] \in Event
      BY <2>1, <1>2, <1>3 DEF Has, Given
    <2>3. PICK i \in Nat : i < j /\ Given(dispatched, i, durable[a][m])
      BY <2>1, <2>2, <1>1 DEF Delivered, EarlierFirst
    <2>4. i \in 1..j - 1 /\ dispatched[i] = durable[a][m]
      BY <2>2, <2>3 DEF Given
    <2> QED BY <2>4
  <1>7. Held!NothingForgotten
    <2> SUFFICES ASSUME ready = <<>>, ~ending, NEW b \in Held!Range(durable), NEW v \in Held!Range(b)
                 PROVE  v \in Held!Range(dispatched)
      BY DEF Held!NothingForgotten, Held!DurableEvents
    <2>1. PICK a \in DOMAIN durable : b = durable[a]
      OBVIOUS
    <2>2. PICK n \in DOMAIN b : v = b[n]
      OBVIOUS
    <2>3. a \in 1..Len(durable) /\ n \in 1..Len(durable[a])
      BY <2>1, <2>2, <1>2, <1>3
    <2>4. Has(durable, a, n, v) /\ a \in Nat /\ n \in Nat /\ v \in Event /\ a # 0
      BY <2>1, <2>2, <2>3, <1>2, <1>3 DEF Has, Given
    <2>5. Outer = 0 /\ \A k, x \in Nat : ~Has(ready, k, x, v)
      BY NotEnding DEF Has
    <2>6. PICK i \in Nat : Given(dispatched, i, v)
      BY <2>4, <2>5, <1>1 DEF Delivered, Accounted
    <2> QED BY <2>6, <1>2 DEF Given
  <1> QED BY <1>5, <1>6, <1>7

(* publish_on_commit: what is dispatched is what was committed, all of it, once and in the order of publication, *)
(* through savepoints that are released or rolled back, listeners that raise and callbacks that commit again.    *)
THEOREM CommittedIsDispatched == HostSpec => []DispatchedAsCommitted
  <1>1. HostInit => HeldInv
    BY HeldStarts DEF HostInit
  <1>2. [HostNext]_allVars => [Held!Next]_HeldVars
    BY DEF HostNext, allVars, HeldVars
  <1> QED BY <1>1, <1>2, HeldKept, HeldMeans, PTL DEF HostSpec

=============================================================================
