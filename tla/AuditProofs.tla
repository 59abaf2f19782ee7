---------------------------- MODULE AuditProofs ----------------------------
(***************************************************************************)
(* What pruning and sealing guarantee for every deployment, every number   *)
(* of transactions and maintainers, and every bound.                       *)
(*                                                                         *)
(* The argument rests on what a checkpoint is once its window is due: a    *)
(* row that comes into the window afterwards is late, whoever writes it.   *)
(* So the copy in the sink and an attempt to seal the window again differ  *)
(* in late rows only, unless rows went meanwhile, which under the lock     *)
(* they do only from windows that are sealed; and below the end of a       *)
(* checkpoint of the database every row is late or in a checkpoint, which  *)
(* is where pruning stops.  What a verification reports is explained from  *)
(* this and from where a prune may stop: the last part of the module.      *)
(***************************************************************************)
EXTENDS Audit, SequenceTheorems, WellFoundedInduction, TLAPS

(***************************************************************************)
(* The invariant                                                           *)
(***************************************************************************)
(* The rows there have been. *)
Known == log \cup trace.removed

Busy(m) == work[m].pc # "idle"

(* A time that is so long past that what comes before it comes late: for everybody, and under the lock  *)
(* by the time that the run which holds it goes by.                                                      *)
Settled(e) ==
    /\ e + Grace <= now
    /\ ~story.unlocked => \A m \in Maintainer : Busy(m) => e + Grace <= work[m].now

(* Where a chain begins every row before it is late. *)
NoneBelow(e) == \A r \in Known : r.at < e => r \in trace.late

IsCheckpoint(c) ==
    /\ c = [start |-> c.start, end |-> c.end, hash |-> c.hash, prev |-> c.prev,
            retention |-> c.retention, hold |-> c.hold, key |-> c.key]
    /\ c.hash = [rows |-> c.hash.rows, prev |-> c.prev]
    /\ c.start \in Nat /\ c.end \in Nat /\ c.start < c.end /\ c.retention \in Int

Follows(start, prev) == \E p \in chain : p.end = start /\ p.hash = prev

(* A document of the sink, or one that is about to be: it has the rows of its window except late ones, and *)
(* goes on where a checkpoint of the database ends, or begins the chain.                                   *)
DocumentSound(c) ==
    /\ IsCheckpoint(c)
    /\ Settled(c.end)
    /\ \A r \in log : Within(r, c) => r \in c.hash.rows \/ r \in trace.late
    /\ \A r \in c.hash.rows : r \in Known /\ Within(r, c)
    /\ \/ c.prev = Nothing /\ NoneBelow(c.start) /\ \E r \in Known : Within(r, c)
       \/ Follows(c.start, c.prev)

(* A window that is to be sealed if it is due. *)
WindowSound(w) ==
    /\ w.start \in Nat
    /\ \/ /\ w.prev = Nothing
          /\ \A r \in Known : r.at < w.start /\ r.at + Grace < w.now => r \in trace.late
          /\ \E r \in Known : w.start <= r.at /\ r.at < WindowEnd(w.start, w.set.window)
       \/ Follows(w.start, w.prev)

(* A cutoff that a row accounts for: below the end of a checkpoint and below the floor, and on MySQL not *)
(* beyond the last partition.                                                                            *)
PruneSound(w) ==
    /\ w.cutoff \in Int /\ w.cutoff \in trace.accounted
    /\ \E c \in chain : w.cutoff <= c.end
    /\ w.cutoff <= (IF mode = "plain" THEN now ELSE DatabaseNow) - Floor * Day
    /\ mode = "mysql" => \E d \in parts : w.cutoff < (d + 1) * Day

Stages == {"idle", "settings", "change", "ensure", "newest", "window", "sink", "store", "retention", "prune"}

WorkShape(w) ==
    /\ w = [pc |-> w.pc, now |-> w.now, set |-> w.set, start |-> w.start, prev |-> w.prev,
            cp |-> w.cp, written |-> w.written, cutoff |-> w.cutoff]
    /\ w.pc \in Stages /\ w.now \in Nat /\ (w.pc # "idle" => w.now <= now)
    /\ w.set = Nothing \/ (w.set \in AuditSettings /\ Accepted(w.set))
    /\ w.pc \notin {"idle", "settings", "ensure"} => w.set # Nothing

RunSound(w) ==
    /\ WorkShape(w)
    /\ w.pc = "window" => WindowSound(w)
    /\ w.pc \in {"sink", "store"} => DocumentSound(w.cp) /\ w.cp.start = w.start /\ w.cp.prev = w.prev
    /\ w.pc = "store" => w.cp \in sink
    /\ w.pc = "prune" => PruneSound(w)

Seals(m) == work[m].pc \in {"window", "sink", "store"}

(* As long as no session was lost there is one run at a time, and the chain has no branches. *)
Alone ==
    ~story.unlocked =>
        /\ \A m \in Maintainer : Busy(m) => lock = m
        /\ \A c, d \in chain : c = d \/ c.end <= d.start \/ d.end <= c.start
        /\ \A m \in Maintainer : Seals(m) =>
             /\ \A c \in chain : c.end <= work[m].start
             /\ (chain = {} /\ work[m].prev = Nothing) \/ Follows(work[m].start, work[m].prev)

SinkSound ==
    /\ chain \subseteq sink
    /\ \A c, d \in sink : c.start = d.start => c = d
    /\ \A c \in sink : DocumentSound(c)

(* Below the end of a checkpoint every row is late or in one. *)
ChainSound ==
    /\ \A c \in chain, r \in log : r.at < c.end => r \in trace.late \/ \E d \in chain : r \in d.hash.rows
    /\ chain # {} => \E c \in chain, r \in Known : Within(r, c)

RemovedSound ==
    \A r \in trace.removed :
        /\ \E c \in chain : r.at < c.end
        /\ r \in trace.late \/ \E c \in chain : r \in c.hash.rows
        /\ \E c \in trace.accounted : r.at < c

(* The partitions that were there after the last run that made any, except those behind the floor. *)
PartitionsSound ==
    /\ trace.ensured \in Nat /\ trace.ensured <= DayOf(MaxTime)
    /\ mode = "postgres" =>
         \A d \in 0..(trace.ensured + Ahead) :
            d >= trace.ensured - 1 => d \in parts \/ (d + 1) * Day <= DatabaseNow - Floor * Day
    /\ mode = "mysql" => /\ \E d \in parts : d >= trace.ensured + Ahead
                         /\ \A r \in log : \E d \in parts : d >= DayOf(r.at)

AuditTypes ==
    /\ story \in Story /\ story.settings # <<>>
    /\ now \in StartTime..MaxTime
    /\ \A r \in Known : r.at \in Nat
    /\ \A r \in log : r.by[1] = "prune" => r.by[3] \in trace.accounted
    /\ tx = [t \in Tx |-> [is |-> tx[t].is, at |-> tx[t].at]] /\ \A t \in Tx : tx[t].at \in Nat
    /\ parts \subseteq 0..(DayOf(MaxTime) + Ahead)
    /\ work = [m \in Maintainer |-> work[m]]

AuditInv ==
    /\ AuditTypes
    /\ \A m \in Maintainer : RunSound(work[m])
    /\ Alone /\ SinkSound /\ ChainSound /\ RemovedSound /\ PartitionsSound
    /\ FloorRespected /\ ConflictExplained /\ PartitionsAhead


(***************************************************************************)
(* Least and greatest elements                                             *)
(***************************************************************************)
(* A set of numbers that is not empty has a least element, and Min is it. *)
LEMMA LeastOfNumbers ==
    ASSUME NEW S, S \subseteq Nat, S # {}
    PROVE  Min(S) \in S /\ \A y \in S : Min(S) <= y
  <1>1. PICK x \in S : \A y \in S : ~(<<y, x>> \in OpToRel(<, Nat))
    BY NatLessThanWellFounded, WFMin
  <1>2. \A y \in S : ~(y < x)
    BY <1>1 DEF OpToRel
  <1>3. \A y \in S : x <= y
    BY <1>2
  <1> QED BY <1>3 DEF Min

(* The lesser of two times, as Cutoff and the floor take it. *)
LEMMA LeastOfTwo ==
    ASSUME NEW a \in Int, NEW b \in Int
    PROVE  Min({a, b}) \in {a, b} /\ Min({a, b}) <= a /\ Min({a, b}) <= b
  <1>1. \E x \in {a, b} : \A y \in {a, b} : x <= y
    OBVIOUS
  <1>2. Min({a, b}) \in {a, b} /\ \A y \in {a, b} : Min({a, b}) <= y
    BY <1>1 DEF Min
  <1> QED BY <1>2

(* A bounded set of numbers that is not empty has a greatest element, and Max is it. *)
LEMMA GreatestOfNumbers ==
    ASSUME NEW n \in Nat, NEW S, S \subseteq 0..n, S # {}
    PROVE  Max(S) \in S /\ \A y \in S : y <= Max(S)
  <1> DEFINE T == {n - i : i \in S}
  <1>0. \A i \in S : i \in Nat /\ n - i \in Nat
    OBVIOUS
  <1>1. T \subseteq Nat /\ T # {}
    BY <1>0, Zenon
  <1>2. Min(T) \in T /\ \A y \in T : Min(T) <= y
    BY <1>1, LeastOfNumbers
  <1>3. PICK i \in S : Min(T) = n - i
    BY <1>2
  <1>4. \A j \in S : n - i <= n - j
    BY <1>2, <1>3
  <1>5. \A j \in S : i >= j
    BY <1>0, <1>4
  <1>6. Max(S) \in S /\ \A y \in S : Max(S) >= y
    BY <1>5 DEF Max
  <1> QED BY <1>0, <1>6

(* The newest checkpoint is one that starts last, since windows start before the last instant. *)
LEMMA NewestExists ==
    ASSUME chain # {}, NEW n \in Nat, \A c \in chain : c.start \in 0..n
    PROVE  Newest \in chain /\ \A d \in chain : d.start <= Newest.start
  <1> DEFINE S == {c.start : c \in chain}
  <1>1. S \subseteq 0..n /\ S # {}
    OBVIOUS
  <1>2. Max(S) \in S /\ \A y \in S : y <= Max(S)
    BY <1>1, GreatestOfNumbers
  <1>3. \E c \in chain : \A d \in chain : d.start <= c.start
    BY <1>2
  <1> QED BY <1>3 DEF Newest

(***************************************************************************)
(* How the state grows                                                     *)
(***************************************************************************)
(* What every step keeps of the deployment. *)
SameDeployment ==
    /\ story' \in Story /\ story'.settings # <<>>
    /\ story'.mode = story.mode /\ story'.floor = story.floor /\ story'.lag = story.lag
    /\ story.unlocked => story'.unlocked

(* A row a step adds: it is within the grace, or late, or of the time of the run that holds the lock. *)
NewRow(r) ==
    /\ r.at \in Nat
    /\ \/ now <= r.at + Grace
       \/ r \in trace'.late
       \/ ~story.unlocked /\ \E m \in Maintainer : At(m, "retention") /\ r.at = work[m].now

Grown ==
    /\ SameDeployment
    /\ now <= now' /\ now' \in StartTime..MaxTime
    /\ Known \subseteq Known' /\ trace.removed \subseteq trace'.removed
    /\ trace.late \subseteq trace'.late /\ trace.accounted \subseteq trace'.accounted
    /\ chain \subseteq chain' /\ sink \subseteq sink'
    /\ \A r \in log' \ log : NewRow(r)
    /\ \A m \in Maintainer : Busy(m)' => work'[m].now = now \/ (Busy(m) /\ work'[m].now = work[m].now)
    /\ parts' \subseteq 0..(DayOf(MaxTime) + Ahead)
    /\ mode = "mysql" => \A d \in parts : \E e \in parts' : d <= e

(* What Remember makes of the trace, field by field. *)
LEMMA Remembered ==
    ASSUME Remember
    PROVE  /\ trace'.late = trace.late \cup {r \in log' \ log : now > r.at + Grace /\ (r.by[1] \in Tx \/ story.unlocked)}
           /\ trace'.removed = trace.removed \cup (log \ log')
           /\ trace'.young = trace.young \cup {r \in log \ log' :
                                  r.at > (IF mode = "plain" THEN now ELSE DatabaseNow) - Floor * Day}
           /\ trace'.accounted = trace.accounted \cup {r.by[3] : r \in {x \in log' \ log : x.by[1] = "prune"}}
  BY DEF Remember

(* A run, a crash or a failure uses up one of those a story has, and changes nothing else of it. *)
LEMMA Spends ==
    ASSUME NEW s \in Story, NEW n \in Nat
    PROVE
    /\ [s EXCEPT !.runs = n] \in Story
       /\ [s EXCEPT !.runs = n].settings = s.settings /\ [s EXCEPT !.runs = n].mode = s.mode
       /\ [s EXCEPT !.runs = n].floor = s.floor /\ [s EXCEPT !.runs = n].lag = s.lag
       /\ [s EXCEPT !.runs = n].unlocked = s.unlocked
    /\ [s EXCEPT !.crashes = n] \in Story
       /\ [s EXCEPT !.crashes = n].settings = s.settings /\ [s EXCEPT !.crashes = n].mode = s.mode
       /\ [s EXCEPT !.crashes = n].floor = s.floor /\ [s EXCEPT !.crashes = n].lag = s.lag
       /\ [s EXCEPT !.crashes = n].unlocked = s.unlocked
    /\ [s EXCEPT !.faults = n] \in Story
       /\ [s EXCEPT !.faults = n].settings = s.settings /\ [s EXCEPT !.faults = n].mode = s.mode
       /\ [s EXCEPT !.faults = n].floor = s.floor /\ [s EXCEPT !.faults = n].lag = s.lag
       /\ [s EXCEPT !.faults = n].unlocked = s.unlocked
  <1>1. /\ [s EXCEPT !.runs = n] \in Story
          /\ [s EXCEPT !.runs = n].settings = s.settings /\ [s EXCEPT !.runs = n].mode = s.mode
          /\ [s EXCEPT !.runs = n].floor = s.floor /\ [s EXCEPT !.runs = n].lag = s.lag
          /\ [s EXCEPT !.runs = n].unlocked = s.unlocked
    BY DEF Story
  <1>2. /\ [s EXCEPT !.crashes = n] \in Story
          /\ [s EXCEPT !.crashes = n].settings = s.settings /\ [s EXCEPT !.crashes = n].mode = s.mode
          /\ [s EXCEPT !.crashes = n].floor = s.floor /\ [s EXCEPT !.crashes = n].lag = s.lag
          /\ [s EXCEPT !.crashes = n].unlocked = s.unlocked
    BY DEF Story
  <1>3. /\ [s EXCEPT !.faults = n] \in Story
          /\ [s EXCEPT !.faults = n].settings = s.settings /\ [s EXCEPT !.faults = n].mode = s.mode
          /\ [s EXCEPT !.faults = n].floor = s.floor /\ [s EXCEPT !.faults = n].lag = s.lag
          /\ [s EXCEPT !.faults = n].unlocked = s.unlocked
    BY DEF Story
  <1> QED BY <1>1, <1>2, <1>3

(* No step changes how and where the log is stored, and a lost lock is never forgotten. *)
LEMMA DeploymentStays ==
    ASSUME AuditTypes, Next
    PROVE  SameDeployment
  <1>0. story \in Story /\ story.settings # <<>>
    BY DEF AuditTypes
  <1>1. CASE story' = story
    BY <1>1 DEF SameDeployment, AuditTypes
  <1>2. CASE ChangeSettings
    <2>1. story.settings \in Seq(AuditSettings) /\ Len(story.settings) > 1
      BY <1>2 DEF AuditTypes, Story, ChangeSettings
    <2>2. Tail(story.settings) \in Seq(AuditSettings) /\ Tail(story.settings) # <<>>
      <3>1. story.settings # <<>>
        BY <1>0
      <3>2. Tail(story.settings) \in Seq(AuditSettings) /\ Len(Tail(story.settings)) = Len(story.settings) - 1
        BY <2>1, <3>1, HeadTailProperties, Zenon
      <3>a. Len(story.settings) \in Nat
        BY <2>1, LenProperties, Zenon
      <3>3. Len(story.settings) - 1 # 0
        <4>1. \A n \in Nat : n > 1 => n - 1 # 0
          OBVIOUS
        <4> QED BY <2>1, <3>a, <4>1, Zenon
      <3>4. Tail(story.settings) # <<>>
        BY <3>2, <3>3
      <3> QED BY <3>2, <3>4
    <2> QED BY <1>0, <1>2, <2>2 DEF SameDeployment, Story, ChangeSettings
  <1>3. CASE LoseLock
    <2>1. story.losses \in Nat /\ story.losses > 0
      BY <1>0, <1>3 DEF Story, LoseLock
    <2>2. story' = [[story EXCEPT !.losses = @ - 1] EXCEPT !.unlocked = TRUE]
      BY <1>3 DEF LoseLock
    <2>a. story.losses - 1 \in Nat
      BY <2>1
    <2>b. [story EXCEPT !.losses = @ - 1] \in Story
      BY <1>0, <2>a DEF Story
    <2>3. story' \in Story
      <3>1. \A x \in Story : [x EXCEPT !.unlocked = TRUE] \in Story
        BY DEF Story
      <3> QED BY <2>b, <2>2, <3>1
    <2> QED BY <1>0, <2>2, <2>3 DEF SameDeployment, Story
  <1>4. ASSUME NEW m \in Maintainer, StartRun(m) \/ Crash(m) \/ StepFails(m)
        PROVE  SameDeployment
    <2>a. story.runs \in Nat /\ story.crashes \in Nat /\ story.faults \in Nat
      BY <1>0 DEF Story
    <2>1. CASE StartRun(m)
      <3>1. story.runs > 0 /\ story' = [story EXCEPT !.runs = story.runs - 1]
        BY <2>1 DEF StartRun
      <3>2. PICK n \in Nat : n = story.runs - 1
        BY <2>a, <3>1
      <3>3. story' = [story EXCEPT !.runs = n]
        BY <3>1, <3>2, Zenon
      <3>4. [story EXCEPT !.runs = n] \in Story /\ [story EXCEPT !.runs = n].settings # <<>>
            /\ [story EXCEPT !.runs = n].mode = story.mode /\ [story EXCEPT !.runs = n].floor = story.floor
            /\ [story EXCEPT !.runs = n].lag = story.lag /\ [story EXCEPT !.runs = n].unlocked = story.unlocked
        BY <1>0, Spends, Zenon
      <3> QED BY <3>3, <3>4, Zenon DEF SameDeployment
    <2>2. CASE Crash(m)
      <3>1. story.crashes > 0 /\ story' = [story EXCEPT !.crashes = story.crashes - 1]
        BY <2>2 DEF Crash
      <3>2. PICK n \in Nat : n = story.crashes - 1
        BY <2>a, <3>1
      <3>3. story' = [story EXCEPT !.crashes = n]
        BY <3>1, <3>2, Zenon
      <3>4. [story EXCEPT !.crashes = n] \in Story /\ [story EXCEPT !.crashes = n].settings # <<>>
            /\ [story EXCEPT !.crashes = n].mode = story.mode /\ [story EXCEPT !.crashes = n].floor = story.floor
            /\ [story EXCEPT !.crashes = n].lag = story.lag /\ [story EXCEPT !.crashes = n].unlocked = story.unlocked
        BY <1>0, Spends, Zenon
      <3> QED BY <3>3, <3>4, Zenon DEF SameDeployment
    <2>3. CASE StepFails(m)
      <3>1. story.faults > 0 /\ story' = [story EXCEPT !.faults = story.faults - 1]
        BY <2>3 DEF StepFails
      <3>2. PICK n \in Nat : n = story.faults - 1
        BY <2>a, <3>1
      <3>3. story' = [story EXCEPT !.faults = n]
        BY <3>1, <3>2, Zenon
      <3>4. [story EXCEPT !.faults = n] \in Story /\ [story EXCEPT !.faults = n].settings # <<>>
            /\ [story EXCEPT !.faults = n].mode = story.mode /\ [story EXCEPT !.faults = n].floor = story.floor
            /\ [story EXCEPT !.faults = n].lag = story.lag /\ [story EXCEPT !.faults = n].unlocked = story.unlocked
        BY <1>0, Spends, Zenon
      <3> QED BY <3>3, <3>4, Zenon DEF SameDeployment
    <2> QED BY <1>4, <2>1, <2>2, <2>3
  <1>5. \/ story' = story \/ ChangeSettings \/ LoseLock
        \/ \E m \in Maintainer : StartRun(m) \/ Crash(m) \/ StepFails(m)
    BY ZenonT(60) DEF Next, Maintain, Tick, Stage, Commit, RecordDetached, ReadSettings, RecordChange, EnsurePartitions,
           ReadNewest, DigestWindow, WriteSink, StoreCheckpoint, DropPartitions, RecordPrune, DropOnePartition,
           DeleteBatch, KeepAll, BeginVerify, VerifyWindow, EndVerify
  <1> QED BY <1>1, <1>2, <1>3, <1>4, <1>5

(* The clock never goes back, and stops at the last instant. *)
LEMMA ClockGoesOn ==
    ASSUME AuditTypes, Next
    PROVE  now <= now' /\ now' \in StartTime..MaxTime
  <1>1. now' = now \/ (now < MaxTime /\ now' = now + 1)
    BY ZenonT(60) DEF Next, Maintain, Tick, ChangeSettings, LoseLock, Stage, Commit, RecordDetached, StartRun, ReadSettings,
           RecordChange, EnsurePartitions, ReadNewest, DigestWindow, WriteSink, StoreCheckpoint, DropPartitions,
           RecordPrune, DropOnePartition, DeleteBatch, KeepAll, StepFails, Crash, BeginVerify, VerifyWindow, EndVerify
  <1> QED BY <1>1, AuditAssumption DEF AuditTypes

(* Nothing is taken from the chain or from the sink. *)
LEMMA ChainAndSinkGrow ==
    ASSUME Next
    PROVE  chain \subseteq chain' /\ sink \subseteq sink'
  BY ZenonT(60) DEF Next, Maintain, Tick, ChangeSettings, LoseLock, Stage, Commit, RecordDetached, StartRun, ReadSettings,
         RecordChange, EnsurePartitions, ReadNewest, DigestWindow, WriteSink, StoreCheckpoint, DropPartitions,
         RecordPrune, DropOnePartition, DeleteBatch, KeepAll, StepFails, Crash, BeginVerify, VerifyWindow, EndVerify

(* The steps of a maintainer move its own run only. *)
LEMMA OneRunMoves ==
    ASSUME AuditTypes, NEW m \in Maintainer, Maintain(m) \/ StepFails(m) \/ Crash(m)
    PROVE  work' = [work EXCEPT ![m] = work'[m]]
  BY DEF AuditTypes, Maintain, StartRun, ReadSettings, RecordChange, EnsurePartitions, ReadNewest, DigestWindow,
         WriteSink, StoreCheckpoint, DropPartitions, RecordPrune, DropOnePartition, DeleteBatch, KeepAll, StepFails,
         Crash, Skip, Finish, Go

(* The other steps move none. *)
LEMMA RunsStay ==
    ASSUME Next
    PROVE  work' = work \/ \E m \in Maintainer : Maintain(m) \/ StepFails(m) \/ Crash(m)
  BY DEF Next, Tick, ChangeSettings, LoseLock, Stage, Commit, RecordDetached, BeginVerify, VerifyWindow, EndVerify

(* A run as the record of its fields. *)
Fields(p, t, s, b, v, c, n, e) ==
    [pc |-> p, now |-> t, set |-> s, start |-> b, prev |-> v, cp |-> c, written |-> n, cutoff |-> e]

(* What a move of a run leaves it as. *)
LEMMA Moved ==
    ASSUME AuditTypes, NEW m \in Maintainer, WorkShape(work[m])
    PROVE  LET w == work[m]
           IN  /\ w = Fields(w.pc, w.now, w.set, w.start, w.prev, w.cp, w.written, w.cutoff)
               /\ \A p : Go(m, p) => work'[m] = Fields(p, w.now, w.set, w.start, w.prev, w.cp, w.written, w.cutoff)
               /\ Finish(m) => work'[m] = Idle
  <1> DEFINE w == work[m]
  <1>1. work = [x \in Maintainer |-> work[x]] /\ w = Fields(w.pc, w.now, w.set, w.start, w.prev, w.cp, w.written, w.cutoff)
    BY DEF AuditTypes, WorkShape, Fields
  <1>2. ASSUME NEW p, Go(m, p)
        PROVE  work'[m] = Fields(p, w.now, w.set, w.start, w.prev, w.cp, w.written, w.cutoff)
    <2>1. work'[m] = [w EXCEPT !.pc = p]
      BY <1>1, <1>2 DEF Go
    <2> QED BY <1>1, <2>1 DEF Fields
  <1>3. Finish(m) => work'[m] = Idle
    BY <1>1 DEF Finish
  <1> QED BY <1>1, <1>2, <1>3

(* A run keeps the time it started with. *)
LEMMA RunKeepsItsTime ==
    ASSUME AuditTypes, NEW m \in Maintainer, Maintain(m) \/ StepFails(m) \/ Crash(m), WorkShape(work[m])
    PROVE  \/ work'[m] = Idle
           \/ work'[m].now = now
           \/ Busy(m) /\ work'[m].now = work[m].now
  <1> DEFINE w == work[m]
  <1>0. /\ \A p : Go(m, p) => work'[m].now = w.now
        /\ Finish(m) => work'[m] = Idle
    <2>1. /\ \A p : Go(m, p) => work'[m] = Fields(p, w.now, w.set, w.start, w.prev, w.cp, w.written, w.cutoff)
          /\ Finish(m) => work'[m] = Idle
      BY Moved
    <2>3. ASSUME NEW p, Go(m, p)  PROVE work'[m].now = w.now
      <3>1. work'[m] = Fields(p, w.now, w.set, w.start, w.prev, w.cp, w.written, w.cutoff)
        BY <2>1, <2>3, Zenon
      <3> QED BY <3>1 DEF Fields
    <2> QED BY <2>1, <2>3
  <1>1. work = [x \in Maintainer |-> work[x]]
    BY DEF AuditTypes
  <1>a. w = Fields(w.pc, w.now, w.set, w.start, w.prev, w.cp, w.written, w.cutoff)
    BY Moved
  <1>2. CASE StartRun(m)
    BY <1>1, <1>2 DEF StartRun, Idle
  <1>3. CASE ReadSettings(m)
    BY <1>1, <1>a, <1>3 DEF ReadSettings, Fields, At, Busy
  <1>4. CASE ReadNewest(m)
    BY <1>0, <1>1, <1>a, <1>4 DEF ReadNewest, Fields, At, Busy
  <1>5. CASE DigestWindow(m)
    BY <1>0, <1>1, <1>a, <1>5 DEF DigestWindow, Fields, At, Busy
  <1>6. CASE WriteSink(m)
    BY <1>0, <1>1, <1>a, <1>6 DEF WriteSink, Fields, At, Busy
  <1>7. CASE StoreCheckpoint(m)
    BY <1>0, <1>1, <1>a, <1>7 DEF StoreCheckpoint, Fields, At, Busy
  <1>8. CASE RecordPrune(m)
    BY <1>0, <1>1, <1>a, <1>8 DEF RecordPrune, Fields, At, Busy
  <1>9. CASE RecordChange(m) \/ EnsurePartitions(m) \/ DropPartitions(m) \/ DropOnePartition(m) \/ DeleteBatch(m)
              \/ KeepAll(m) \/ StepFails(m) \/ Crash(m)
    BY <1>0, <1>9, SMTT(30) DEF RecordChange, EnsurePartitions, DropPartitions, DropOnePartition, DeleteBatch,
                      KeepAll, StepFails, Crash, Skip, At, Busy
  <1> QED BY <1>2, <1>3, <1>4, <1>5, <1>6, <1>7, <1>8, <1>9 DEF Maintain

(* The steps that neither write a row nor take one leave the log and the partitions, which only a run makes more of. *)
LEMMA LogStays ==
    ASSUME Next
    PROVE  \/ log' = log /\ parts' = parts
           \/ \E t \in Tx : Commit(t) \/ RecordDetached(t)
           \/ \E m \in Maintainer : \/ RecordChange(m) \/ EnsurePartitions(m) \/ DropPartitions(m)
                                    \/ RecordPrune(m) \/ DropOnePartition(m) \/ DeleteBatch(m)
  BY ZenonT(60) DEF Next, Maintain, Tick, ChangeSettings, LoseLock, Stage, StartRun, ReadSettings, ReadNewest, DigestWindow,
         WriteSink, StoreCheckpoint, KeepAll, StepFails, Crash, BeginVerify, VerifyWindow, EndVerify

(* What a transaction adds is within the grace or late. *)
LEMMA CommittedRows ==
    ASSUME AuditTypes, Remember, NEW t \in Tx, Commit(t) \/ RecordDetached(t)
    PROVE  /\ log \subseteq log' /\ parts' = parts
           /\ \A r \in log' \ log : NewRow(r) /\ r.by[1] # "prune"
  <1>1. t \notin {"change", "prune"}
    BY AuditAssumption
  <1>2. now \in Nat /\ Grace \in Nat
    BY AuditAssumption DEF AuditTypes
  <1>3. CASE Commit(t)
    <2>1. log' = log \/ log' = log \cup {Written(t)}
      BY <1>3 DEF Commit
    <2>2. parts' = parts
      BY <1>3 DEF Commit
    <2>3. ASSUME NEW r \in log' \ log  PROVE NewRow(r) /\ r.by[1] # "prune"
      <3>1. r = [at |-> tx[t].at, by |-> <<t>>]
        BY <2>1, <2>3 DEF Written
      <3>2. r.at \in Nat /\ r.by[1] = t
        BY <3>1 DEF AuditTypes
      <3>3. now > r.at + Grace => r \in trace'.late
        BY <2>3, <3>2, Remembered
      <3> QED BY <1>1, <1>2, <3>2, <3>3 DEF NewRow
    <2> QED BY <2>1, <2>2, <2>3
  <1>4. CASE RecordDetached(t)
    <2>1. log' = log \/ log' = log \cup {[at |-> now, by |-> <<t>>]}
      BY <1>4 DEF RecordDetached
    <2>2. parts' = parts
      BY <1>4 DEF RecordDetached
    <2>3. ASSUME NEW r \in log' \ log  PROVE NewRow(r) /\ r.by[1] # "prune"
      <3>1. r = [at |-> now, by |-> <<t>>]
        BY <2>1, <2>3
      <3>2. r.at = now /\ r.by[1] = t
        BY <3>1
      <3> QED BY <1>1, <1>2, <3>2 DEF NewRow
    <2> QED BY <2>1, <2>2, <2>3
  <1> QED BY <1>3, <1>4

(* What a run adds: the row of a change is of now, that of a prune of the time of the run or of now. *)
LEMMA MaintenanceRow ==
    ASSUME AuditTypes, Remember, NEW m \in Maintainer, At(m, "retention"), WorkShape(work[m]), NEW r \in log' \ log,
           r.at = now \/ r.at = work[m].now
    PROVE  NewRow(r)
  <1>1. now \in Nat /\ Grace \in Nat /\ work[m].now \in Nat
    BY AuditAssumption DEF AuditTypes, WorkShape
  <1>2. r.at \in Nat
    BY <1>1
  <1>3. story.unlocked /\ now > r.at + Grace => r \in trace'.late
    BY Remembered
  <1> QED BY <1>1, <1>2, <1>3 DEF NewRow

(* What a prune on MySQL drops: a partition below one that stays. *)
LEMMA DroppedPartition ==
    ASSUME AuditTypes, NEW m \in Maintainer, At(m, "prune"), PruneSound(work[m]), mode = "mysql",
           Expired(work[m].cutoff) # {}
    PROVE  LET p == Min(Expired(work[m].cutoff))
           IN  /\ p \in parts /\ p \in Nat /\ (p + 1) * Day <= work[m].cutoff
               /\ \E e \in parts : e \in Nat /\ p < e /\ work[m].cutoff < (e + 1) * Day
  <1> DEFINE p == Min(Expired(work[m].cutoff))
  <1>1. Day \in Nat \ {0} /\ work[m].cutoff \in Int
    BY AuditAssumption DEF PruneSound
  <1>2. \A d \in parts : d \in Nat
    BY DEF AuditTypes
  <1>3. Expired(work[m].cutoff) \subseteq Nat
    BY <1>2 DEF Expired
  <1>4. p \in Expired(work[m].cutoff)
    BY <1>3, LeastOfNumbers
  <1>5. p \in parts /\ p \in Nat /\ (p + 1) * Day <= work[m].cutoff
    BY <1>2, <1>4 DEF Expired
  <1>6. PICK e \in parts : work[m].cutoff < (e + 1) * Day
    BY DEF PruneSound
  <1>7. e \in Nat
    BY <1>2
  <1>8. p < e
    <2> HIDE DEF p
    <2>1. (p + 1) * Day < (e + 1) * Day
      BY <1>1, <1>5, <1>6, <1>7
    <2> QED BY <1>1, <1>5, <1>7, <2>1
  <1> QED BY <1>5, <1>6, <1>7, <1>8

(* What the steps of a run do to the log and to the partitions. *)
LEMMA MaintenanceRows ==
    ASSUME AuditTypes, Remember, NEW m \in Maintainer, RunSound(work[m]),
           \/ RecordChange(m) \/ EnsurePartitions(m) \/ DropPartitions(m)
           \/ RecordPrune(m) \/ DropOnePartition(m) \/ DeleteBatch(m)
    PROVE  /\ \A r \in log' \ log : NewRow(r)
           /\ mode = "mysql" => \A d \in parts : \E e \in parts' : d <= e
  <1>0. \A d \in parts : d \in Nat /\ d <= d
    BY DEF AuditTypes
  <1>1. CASE RecordChange(m)
    <2>1. parts' = parts
      BY <1>1 DEF RecordChange
    <2>2. ASSUME NEW r \in log' \ log  PROVE r = [at |-> now, by |-> <<"change", serial>>]
      BY <1>1, <2>2 DEF RecordChange
    <2>3. ASSUME NEW r \in log' \ log  PROVE NewRow(r)
      <3>1. r.at = now
        BY <2>2
      <3>2. now \in Nat /\ Grace \in Nat
        BY AuditAssumption DEF AuditTypes
      <3> QED BY <3>1, <3>2 DEF NewRow
    <2> QED BY <1>0, <2>1, <2>3
  <1>2. CASE EnsurePartitions(m)
    <2>1. log' = log /\ parts \subseteq parts'
      BY <1>2 DEF EnsurePartitions
    <2> QED BY <1>0, <2>1
  <1>3. CASE DropPartitions(m)
    <2>1. mode = "postgres" /\ At(m, "retention")
      BY <1>3 DEF DropPartitions
    <2>2. ASSUME NEW r \in log' \ log
          PROVE  r = PruneRow(work[m].now, Min({Cutoff(m), DatabaseNow - Floor * Day}))
      BY <1>3, <2>2 DEF DropPartitions
    <2>3. ASSUME NEW r \in log' \ log  PROVE NewRow(r)
      <3>1. r.at = work[m].now
        BY <2>2 DEF PruneRow
      <3>2. WorkShape(work[m])
        BY DEF RunSound
      <3> QED BY <2>1, <3>1, <3>2, MaintenanceRow
    <2> QED BY <2>1, <2>3
  <1>4. CASE RecordPrune(m)
    <2>1. parts' = parts /\ At(m, "retention")
      BY <1>4 DEF RecordPrune
    <2>2. ASSUME NEW r \in log' \ log
          PROVE  \E c : r = PruneRow(IF mode = "mysql" THEN work[m].now ELSE now, c)
      BY <1>4, <2>2 DEF RecordPrune
    <2>3. ASSUME NEW r \in log' \ log  PROVE NewRow(r)
      <3>1. r.at = work[m].now \/ r.at = now
        BY <2>2 DEF PruneRow
      <3>2. WorkShape(work[m])
        BY DEF RunSound
      <3> QED BY <2>1, <3>1, <3>2, MaintenanceRow
    <2> QED BY <1>0, <2>1, <2>3
  <1>5. CASE DropOnePartition(m)
    <2>1. log' \subseteq log
      BY <1>5 DEF DropOnePartition
    <2>2. CASE Expired(work[m].cutoff) = {}
      BY <1>0, <1>5, <2>1, <2>2 DEF DropOnePartition
    <2>3. CASE Expired(work[m].cutoff) # {}
      <3> DEFINE p == Min(Expired(work[m].cutoff))
      <3>1. parts' = parts \ {p} /\ At(m, "prune") /\ mode = "mysql"
        BY <1>5, <2>3 DEF DropOnePartition
      <3>2. PruneSound(work[m])
        BY <3>1 DEF RunSound, At
      <3>3. PICK e \in parts : e \in Nat /\ p \in Nat /\ p < e
        BY <2>3, <3>1, <3>2, DroppedPartition
      <3> HIDE DEF p
      <3>4. e \in parts'
        BY <3>1, <3>3
      <3> QED BY <1>0, <2>1, <3>1, <3>3, <3>4
    <2> QED BY <2>2, <2>3
  <1>6. CASE DeleteBatch(m)
    <2>1. parts' = parts /\ log' \subseteq log
      BY <1>6 DEF DeleteBatch
    <2> QED BY <1>0, <2>1
  <1> QED BY <1>1, <1>2, <1>3, <1>4, <1>5, <1>6

(* What every step does to the state, as far as the parts of the invariant that are not its own go. *)
LEMMA Growth ==
    ASSUME AuditInv, Next
    PROVE  Grown
  <1> USE DEF AuditInv
  <1>0. Remember
    BY DEF Next
  <1>1. SameDeployment /\ now <= now' /\ now' \in StartTime..MaxTime /\ chain \subseteq chain' /\ sink \subseteq sink'
    BY DeploymentStays, ClockGoesOn, ChainAndSinkGrow
  <1>2. /\ trace.removed \subseteq trace'.removed /\ trace.late \subseteq trace'.late
        /\ trace.accounted \subseteq trace'.accounted /\ log \ log' \subseteq trace'.removed
    BY <1>0, Remembered
  <1>3. Known \subseteq Known'
    BY <1>2 DEF Known
  <1>4. /\ \A r \in log' \ log : NewRow(r)
        /\ mode = "mysql" => \A d \in parts : \E e \in parts' : d <= e
    <2>1. CASE log' = log /\ parts' = parts
      BY <2>1 DEF AuditTypes
    <2>2. ASSUME NEW t \in Tx, Commit(t) \/ RecordDetached(t)
          PROVE  /\ \A r \in log' \ log : NewRow(r)
                 /\ mode = "mysql" => \A d \in parts : \E e \in parts' : d <= e
      <3>1. parts' = parts /\ \A r \in log' \ log : NewRow(r)
        BY <1>0, <2>2, CommittedRows
      <3> QED BY <3>1 DEF AuditTypes
    <2>3. ASSUME NEW m \in Maintainer, \/ RecordChange(m) \/ EnsurePartitions(m) \/ DropPartitions(m)
                                       \/ RecordPrune(m) \/ DropOnePartition(m) \/ DeleteBatch(m)
          PROVE  /\ \A r \in log' \ log : NewRow(r)
                 /\ mode = "mysql" => \A d \in parts : \E e \in parts' : d <= e
      BY <1>0, <2>3, MaintenanceRows
    <2> QED BY <2>1, <2>2, <2>3, LogStays
  <1>5. ASSUME NEW m \in Maintainer, Busy(m)'
        PROVE  work'[m].now = now \/ (Busy(m) /\ work'[m].now = work[m].now)
    <2>1. CASE work' = work
      BY <1>5, <2>1 DEF Busy
    <2>2. ASSUME NEW x \in Maintainer, Maintain(x) \/ StepFails(x) \/ Crash(x)
          PROVE  work'[m].now = now \/ (Busy(m) /\ work'[m].now = work[m].now)
      <3>1. work' = [work EXCEPT ![x] = work'[x]]
        BY <2>2, OneRunMoves
      <3>2. CASE x # m
        <4>1. work'[m] = work[m]
          BY <3>1, <3>2 DEF AuditTypes
        <4> QED BY <1>5, <4>1 DEF Busy
      <3>3. CASE x = m
        <4>1. work'[m] # Idle
          BY <1>5 DEF Busy, Idle
        <4>2. WorkShape(work[m])
          BY DEF RunSound
        <4> QED BY <2>2, <3>3, <4>1, <4>2, RunKeepsItsTime
      <3> QED BY <3>2, <3>3
    <2> QED BY <2>1, <2>2, RunsStay
  <1>6. parts' \subseteq 0..(DayOf(MaxTime) + Ahead)
    <2>1. \A t : Installed(t) \subseteq 0..(DayOf(MaxTime) + Ahead)
      BY DEF Installed, Days
    <2>2. parts' \subseteq parts \cup Installed(DatabaseNow)
      BY LogStays DEF Commit, RecordDetached, RecordChange, EnsurePartitions, DropPartitions, RecordPrune, DropOnePartition,
                      DeleteBatch
    <2> QED BY <2>1, <2>2 DEF AuditTypes
  <1> QED BY <1>1, <1>2, <1>3, <1>4, <1>5, <1>6 DEF Grown

(***************************************************************************)
(* What growth keeps                                                       *)
(***************************************************************************)
(* What is settled stays settled. *)
LEMMA SettledStays ==
    ASSUME AuditInv, Grown, NEW e \in Int, Settled(e)
    PROVE  Settled(e)'
  <1>1. now \in Nat /\ now' \in Nat /\ now <= now' /\ Grace \in Nat /\ \A m \in Maintainer : work[m].now \in Nat
    BY AuditAssumption DEF AuditInv, AuditTypes, Grown, RunSound, WorkShape
  <1>2. e + Grace <= now /\ e + Grace <= now'
    BY <1>1 DEF Settled
  <1>3. ASSUME ~story'.unlocked, NEW m \in Maintainer, Busy(m)'
        PROVE  e + Grace <= work'[m].now
    <2>1. ~story.unlocked
      BY <1>3 DEF Grown, SameDeployment
    <2>2. work'[m].now = now \/ (Busy(m) /\ work'[m].now = work[m].now)
      BY <1>3 DEF Grown
    <2> QED BY <1>2, <2>1, <2>2 DEF Settled
  <1> QED BY <1>2, <1>3 DEF Settled

(* A row that comes below a settled time comes late. *)
LEMMA LateBelow ==
    ASSUME AuditInv, Grown, NEW e \in Int, Settled(e), NEW r \in log' \ log, r.at < e
    PROVE  r \in trace'.late
  <1>1. now \in Nat /\ Grace \in Nat /\ \A m \in Maintainer : work[m].now \in Nat
    BY AuditAssumption DEF AuditInv, AuditTypes, RunSound, WorkShape
  <1>2. NewRow(r) /\ r.at \in Nat
    BY DEF Grown, NewRow
  <1>3. ~(now <= r.at + Grace)
    BY <1>1, <1>2 DEF Settled
  <1>4. ASSUME ~story.unlocked, NEW m \in Maintainer, At(m, "retention"), r.at = work[m].now  PROVE FALSE
    <2>1. Busy(m)
      BY <1>4 DEF At, Busy
    <2>2. e + Grace <= work[m].now
      BY <1>4, <2>1 DEF Settled
    <2> QED BY <1>1, <1>4, <2>2
  <1> QED BY <1>2, <1>3, <1>4 DEF NewRow

(* The rows there have been are those that were there before and those a step adds. *)
LEMMA KnownFrom ==
    ASSUME Remember
    PROVE  /\ Known \subseteq Known'
           /\ \A r \in Known' : r \in Known \/ r \in log' \ log
  BY Remembered DEF Known

(* A document keeps what makes it sound, whatever comes and goes. *)
LEMMA DocumentStays ==
    ASSUME AuditInv, Grown, Remember, NEW c, DocumentSound(c)
    PROVE  DocumentSound(c)'
  <1>1. IsCheckpoint(c)'
    BY DEF DocumentSound, IsCheckpoint
  <1>2. c.start \in Int /\ c.end \in Int /\ c.start < c.end /\ Settled(c.end)
    BY DEF DocumentSound, IsCheckpoint
  <1>3. Settled(c.end)'
    BY <1>2, SettledStays
  <1>4. trace.late \subseteq trace'.late /\ chain \subseteq chain'
    BY DEF Grown
  <1>5. \A r \in log' : Within(r, c) => r \in c.hash.rows \/ r \in trace'.late
    BY <1>2, <1>4, LateBelow DEF Within, DocumentSound
  <1>6. \A r \in c.hash.rows : r \in Known' /\ Within(r, c)
    BY KnownFrom DEF DocumentSound
  <1>7. ASSUME c.prev = Nothing, NoneBelow(c.start), NEW q \in Known, Within(q, c)
        PROVE  NoneBelow(c.start)' /\ \E r \in Known' : Within(r, c)
    <2>1. ASSUME NEW r \in Known', r.at < c.start  PROVE r \in trace'.late
      <3>1. CASE r \in Known
        BY <1>4, <1>7, <2>1, <3>1 DEF NoneBelow
      <3>2. CASE r \in log' \ log
        <4>1. r.at \in Int
          BY <3>2 DEF Grown, NewRow
        <4>2. r.at < c.end
          BY <1>2, <2>1, <4>1
        <4> QED BY <1>2, <3>2, <4>2, LateBelow
      <3> QED BY <2>1, <3>1, <3>2, KnownFrom
    <2> QED BY <1>7, <2>1, KnownFrom DEF NoneBelow
  <1>8. Follows(c.start, c.prev) => Follows(c.start, c.prev)'
    BY <1>4 DEF Follows
  <1> QED BY <1>1, <1>3, <1>5, <1>6, <1>7, <1>8 DEF DocumentSound, Within

(* A window that a run looks at keeps what makes it sound. *)
LEMMA WindowStays ==
    ASSUME AuditInv, Grown, Remember, NEW m \in Maintainer, Seals(m), WindowSound(work[m]), NEW w, w = work[m]
    PROVE  WindowSound(w)'
  <1>1. /\ now \in Nat /\ Grace \in Nat /\ w.now \in Nat /\ w.now <= now /\ w.pc # "idle" /\ w.pc # "retention"
    BY AuditAssumption DEF AuditInv, AuditTypes, RunSound, WorkShape, Seals
  <1>2. trace.late \subseteq trace'.late /\ chain \subseteq chain'
    BY DEF Grown
  <1>3. w.start \in Nat /\ WindowSound(w)
    BY DEF WindowSound
  <1>4. ASSUME \A r \in Known : r.at < w.start /\ r.at + Grace < w.now => r \in trace.late,
               NEW r \in Known', r.at < w.start, r.at + Grace < w.now
        PROVE  r \in trace'.late
    <2>1. CASE r \in Known
      BY <1>2, <1>4, <2>1
    <2>2. CASE r \in log' \ log
      <3>1. NewRow(r) /\ r.at \in Nat
        BY <2>2 DEF Grown, NewRow
      <3>2. ~(now <= r.at + Grace)
        BY <1>1, <1>4, <3>1
      <3>3. ASSUME ~story.unlocked, NEW x \in Maintainer, At(x, "retention")  PROVE FALSE
        <4>1. Busy(x) /\ Busy(m)
          BY <1>1, <3>3 DEF Busy, At
        <4>2. x = m
          BY <3>3, <4>1 DEF AuditInv, Alone
        <4> QED BY <1>1, <3>3, <4>2 DEF At
      <3> QED BY <3>1, <3>2, <3>3 DEF NewRow
    <2> QED BY <1>4, <2>1, <2>2, KnownFrom
  <1>5. Follows(w.start, w.prev) => Follows(w.start, w.prev)'
    BY <1>2 DEF Follows
  <1>6. ASSUME NEW q \in Known, w.start <= q.at, q.at < WindowEnd(w.start, w.set.window)
        PROVE  \E r \in Known' : w.start <= r.at /\ r.at < WindowEnd(w.start, w.set.window)
    BY <1>6, KnownFrom
  <1> QED BY <1>3, <1>4, <1>5, <1>6 DEF WindowSound, WindowEnd

(* A cutoff keeps what makes it sound. *)
LEMMA PruneStays ==
    ASSUME AuditInv, Grown, NEW w, PruneSound(w)
    PROVE  PruneSound(w)'
  <1>1. /\ now \in Nat /\ now' \in Nat /\ now <= now' /\ Day \in Nat /\ story.floor \in Nat /\ story.lag \in Nat
        /\ parts \subseteq Nat
    BY AuditAssumption DEF AuditInv, AuditTypes, Grown, Story
  <1>2. story'.mode = story.mode /\ story'.floor = story.floor /\ story'.lag = story.lag
    BY DEF Grown, SameDeployment
  <1>3. w.cutoff \in Int /\ w.cutoff \in trace'.accounted /\ \E c \in chain' : w.cutoff <= c.end
    BY DEF PruneSound, Grown
  <1>4. w.cutoff <= (IF mode = "plain" THEN now ELSE DatabaseNow) - Floor * Day
    BY DEF PruneSound
  <1>5. w.cutoff <= (IF mode' = "plain" THEN now' ELSE DatabaseNow') - Floor' * Day
    <2>1. Floor' * Day = Floor * Day /\ Floor * Day \in Nat
      BY <1>1, <1>2 DEF Floor
    <2> QED BY <1>1, <1>2, <1>3, <1>4, <2>1 DEF mode, DatabaseNow
  <1>6. mode' = "mysql" => \E d \in parts' : w.cutoff < (d + 1) * Day
    <2>1. SUFFICES ASSUME mode = "mysql"  PROVE \E d \in parts' : w.cutoff < (d + 1) * Day
      BY <1>2 DEF mode
    <2>2. PICK d \in parts : w.cutoff < (d + 1) * Day
      BY <2>1 DEF PruneSound
    <2>3. PICK e \in parts' : d <= e
      BY <2>1 DEF Grown
    <2>4. d \in Nat /\ e \in Nat
      BY <1>1 DEF Grown
    <2>5. (d + 1) * Day <= (e + 1) * Day
      BY <1>1, <2>3, <2>4
    <2> QED BY <1>1, <1>3, <2>2, <2>3, <2>4, <2>5
  <1> QED BY <1>3, <1>5, <1>6 DEF PruneSound

(* A run that does not move stays sound. *)
LEMMA RunStays ==
    ASSUME AuditInv, Grown, Remember, NEW m \in Maintainer, NEW w, w = work[m]
    PROVE  RunSound(w)'
  <1>1. RunSound(w)
    BY DEF AuditInv
  <1>2. WorkShape(w)'
    <2>1. WorkShape(w)
      BY <1>1 DEF RunSound
    <2>2. now \in Nat /\ now' \in Nat /\ now <= now' /\ story'.floor = story.floor
      BY AuditAssumption DEF AuditInv, AuditTypes, Grown, SameDeployment
    <2>3. Accepted(w.set) => Accepted(w.set)'
      BY <2>2 DEF Accepted, Floor
    <2>4. w.now \in Nat /\ (w.pc # "idle" => w.now <= now')
      BY <2>1, <2>2 DEF WorkShape
    <2> QED BY <2>1, <2>3, <2>4 DEF WorkShape
  <1>3. w.pc = "window" => WindowSound(w)'
    <2>1. w.pc = "window" => Seals(m) /\ WindowSound(work[m])
      BY <1>1 DEF Seals, RunSound
    <2> QED BY <2>1, WindowStays
  <1>4. w.pc \in {"sink", "store"} => DocumentSound(w.cp)' /\ w.cp.start = w.start /\ w.cp.prev = w.prev
    BY <1>1, DocumentStays DEF RunSound
  <1>5. w.pc = "store" => w.cp \in sink'
    BY <1>1 DEF RunSound, Grown
  <1>6. w.pc = "prune" => PruneSound(w)'
    BY <1>1, PruneStays DEF RunSound
  <1> QED BY <1>2, <1>3, <1>4, <1>5, <1>6 DEF RunSound

(* Idle runs and runs that go on to a step which needs nothing are sound. *)
LEMMA EasySound ==
    ASSUME AuditInv, Grown, NEW m \in Maintainer, NEW w, NEW p \in {"settings", "change", "ensure", "newest", "retention"},
           \/ w = Idle
           \/ /\ w = Fields(p, work[m].now, work[m].set, work[m].start, work[m].prev, work[m].cp,
                           work[m].written, work[m].cutoff)
              /\ Busy(m) /\ (p \notin {"settings", "ensure"} => work[m].set # Nothing)
    PROVE  RunSound(w)'
  <1>1. WorkShape(work[m])
    BY DEF AuditInv, RunSound
  <1>2. now \in Nat /\ now' \in Nat /\ now <= now' /\ story'.floor = story.floor
    BY AuditAssumption DEF AuditInv, AuditTypes, Grown, SameDeployment
  <1>3. CASE w = Idle
    <2>1. w.pc = "idle"
      BY <1>3 DEF Idle
    <2>2. WorkShape(w)'
      BY <1>3 DEF WorkShape, Idle, Stages
    <2> QED BY <2>1, <2>2 DEF RunSound
  <1>4. CASE w # Idle
    <2>1. /\ w = Fields(p, work[m].now, work[m].set, work[m].start, work[m].prev, work[m].cp,
                        work[m].written, work[m].cutoff)
          /\ Busy(m) /\ (p \notin {"settings", "ensure"} => work[m].set # Nothing)
      BY <1>4
    <2>2. w.pc = p /\ w.now = work[m].now /\ w.set = work[m].set
      BY <2>1 DEF Fields
    <2>3. w = Fields(w.pc, w.now, w.set, w.start, w.prev, w.cp, w.written, w.cutoff)
      BY <2>1 DEF Fields
    <2>4. Accepted(w.set) => Accepted(w.set)'
      BY <1>2 DEF Accepted, Floor
    <2>5. /\ w.pc \in Stages /\ w.now \in Nat /\ w.now <= now'
      BY <1>1, <1>2, <2>1, <2>2 DEF WorkShape, Stages, Busy
    <2>6. /\ w.set = Nothing \/ (w.set \in AuditSettings /\ Accepted(w.set)')
          /\ w.pc \notin {"idle", "settings", "ensure"} => w.set # Nothing
      BY <1>1, <2>1, <2>2, <2>4 DEF WorkShape
    <2>7. WorkShape(w)'
      BY <2>3, <2>5, <2>6 DEF WorkShape, Fields
    <2> QED BY <2>2, <2>7 DEF RunSound
  <1> QED BY <1>3, <1>4

(***************************************************************************)
(* The runs                                                                *)
(***************************************************************************)
(* A run that goes on to the next step. *)
LEMMA SkipSound ==
    ASSUME AuditInv, Grown, NEW m \in Maintainer, Busy(m), Skip(m), NEW w, w = work'[m]
    PROVE  RunSound(w)'
  <1> DEFINE p == NextStep(work[m].pc, work[m].set)
  <1>1. AuditTypes /\ WorkShape(work[m])
    BY DEF AuditInv, RunSound
  <1>2. CASE p = "done"
    <2>1. w = Idle
      BY <1>1, <1>2, Moved DEF Skip
    <2> QED BY <2>1, EasySound
  <1>3. CASE p # "done"
    <2>1. Go(m, p)
      BY <1>3 DEF Skip
    <2>2. w = Fields(p, work[m].now, work[m].set, work[m].start, work[m].prev, work[m].cp, work[m].written, work[m].cutoff)
      BY <1>1, <2>1, Moved, Zenon
    <2>3. p \in {"ensure", "newest", "retention"} /\ (p # "ensure" => work[m].set # Nothing)
      BY <1>1, <1>3 DEF NextStep, WorkShape
    <2> HIDE DEF p
    <2> QED BY <2>2, <2>3, EasySound
  <1> QED BY <1>2, <1>3

(* A run that goes on to a step which needs nothing. *)
LEMMA GoSound ==
    ASSUME AuditInv, Grown, NEW m \in Maintainer, Busy(m), NEW p \in {"ensure", "retention"}, Go(m, p), NEW w, w = work'[m],
           p = "ensure" \/ work[m].set # Nothing
    PROVE  RunSound(w)'
  <1>1. AuditTypes /\ WorkShape(work[m])
    BY DEF AuditInv, RunSound
  <1>2. w = Fields(p, work[m].now, work[m].set, work[m].start, work[m].prev, work[m].cp, work[m].written, work[m].cutoff)
    BY <1>1, Moved, Zenon
  <1> QED BY <1>2, EasySound

(* A run that is over. *)
LEMMA FinishSound ==
    ASSUME AuditInv, Grown, NEW m \in Maintainer, Finish(m), NEW w, w = work'[m]
    PROVE  RunSound(w)'
  <1>1. AuditTypes /\ WorkShape(work[m])
    BY DEF AuditInv, RunSound
  <1>2. w = Idle
    BY <1>1, Moved
  <1> QED BY <1>2, EasySound

(* A run begins with what the settings are. *)
LEMMA StartSound ==
    ASSUME AuditInv, Grown, NEW m \in Maintainer, StartRun(m) \/ ReadSettings(m), NEW w, w = work'[m]
    PROVE  RunSound(w)'
  <1>1. AuditTypes /\ WorkShape(work[m])
    BY DEF AuditInv, RunSound
  <1>2. now \in Nat /\ now' \in Nat /\ now <= now' /\ story'.floor = story.floor
    BY AuditAssumption DEF AuditInv, AuditTypes, Grown, SameDeployment
  <1>3. CASE StartRun(m)
    <2>1. w = [Idle EXCEPT !.pc = "settings", !.now = now]
      BY <1>1, <1>3 DEF AuditTypes, StartRun
    <2>2. w = Fields("settings", now, Nothing, 0, Nothing, Nothing, 0, 0)
      BY <2>1 DEF Idle, Fields
    <2>3. WorkShape(w)'
      BY <1>2, <2>2 DEF WorkShape, Fields, Stages
    <2>4. w.pc = "settings"
      BY <2>2 DEF Fields
    <2> QED BY <2>3, <2>4 DEF RunSound
  <1>4. CASE ReadSettings(m)
    <2>1. work[m] = Fields(work[m].pc, work[m].now, work[m].set, work[m].start, work[m].prev, work[m].cp,
                           work[m].written, work[m].cutoff)
      BY <1>1, Moved
    <2>b. PICK s, p : /\ s = (IF Accepted(Config) THEN Config ELSE Nothing)
                      /\ p = (IF Accepted(Config) THEN "change" ELSE "ensure")
      OBVIOUS
    <2>2. w = Fields(p, work[m].now, s, work[m].start, work[m].prev, work[m].cp, work[m].written, work[m].cutoff)
      <3>1. w = [[work[m] EXCEPT !.pc = p] EXCEPT !.set = s]
        BY <1>1, <1>4, <2>b DEF AuditTypes, ReadSettings
      <3> QED BY <2>1, <3>1 DEF Fields
    <2>3. Config \in AuditSettings
      <3>1. story.settings \in Seq(AuditSettings) /\ story.settings # <<>>
        BY <1>1 DEF AuditTypes, Story
      <3> QED BY <3>1, HeadTailProperties DEF Config
    <2>4. Nothing \notin AuditSettings
      BY AuditAssumption
    <2>5. /\ s = Nothing \/ (s \in AuditSettings /\ Accepted(s)')
          /\ p \in {"change", "ensure"} /\ (p = "change" => s # Nothing)
      BY <1>2, <2>3, <2>4, <2>b DEF Accepted, Floor
    <2>6. work[m].now \in Nat /\ work[m].now <= now'
      BY <1>1, <1>2, <1>4 DEF WorkShape, ReadSettings, At
    <2>7. w.pc = p /\ w.set = s /\ w.now = work[m].now
      BY <2>2 DEF Fields
    <2>a. w = Fields(w.pc, w.now, w.set, w.start, w.prev, w.cp, w.written, w.cutoff)
      BY <2>2 DEF Fields
    <2>8. WorkShape(w)'
      BY <2>5, <2>6, <2>7, <2>a DEF WorkShape, Fields, Stages
    <2> QED BY <2>5, <2>7, <2>8 DEF RunSound
  <1> QED BY <1>3, <1>4

(* A step that leaves the log leaves what is known of the rows. *)
LEMMA KnownStays ==
    ASSUME Remember, log' = log
    PROVE  /\ Known' = Known /\ trace'.late = trace.late /\ trace'.removed = trace.removed /\ trace'.young = trace.young
           /\ trace'.accounted = trace.accounted
  BY Remembered, ZenonT(60) DEF Known

(* A run in a step that needs more than its settings has their shape. *)
LEMMA ShapeFrom ==
    ASSUME AuditInv, Grown, NEW m \in Maintainer, work[m].pc \notin {"idle", "settings", "ensure"}, NEW w, w.pc \in Stages,
           w = Fields(w.pc, work[m].now, work[m].set, w.start, w.prev, w.cp, w.written, w.cutoff)
    PROVE  WorkShape(w)' /\ w.set = work[m].set /\ w.now = work[m].now
  <1>1. WorkShape(work[m])
    BY DEF AuditInv, RunSound
  <1>2. now \in Nat /\ now' \in Nat /\ now <= now' /\ story'.floor = story.floor
    BY AuditAssumption DEF AuditInv, AuditTypes, Grown, SameDeployment
  <1>3. /\ w.set = work[m].set /\ w.now = work[m].now
        /\ w = Fields(w.pc, w.now, w.set, w.start, w.prev, w.cp, w.written, w.cutoff)
    BY DEF Fields
  <1>4. Accepted(w.set) => Accepted(w.set)'
    BY <1>2 DEF Accepted, Floor
  <1>5. w.now \in Nat /\ w.now <= now' /\ w.set # Nothing /\ w.set \in AuditSettings /\ Accepted(w.set)'
    BY <1>1, <1>2, <1>3, <1>4 DEF WorkShape
  <1>6. WorkShape(w)'
    BY <1>3, <1>5 DEF WorkShape, Fields
  <1> QED BY <1>3, <1>6

(* The documents of the database are those of the sink; their windows start and end before now. *)
LEMMA ChainOfDocuments ==
    ASSUME AuditInv
    PROVE  \A c \in chain : /\ DocumentSound(c) /\ c.start \in 0..MaxTime /\ c.end \in Nat /\ c.start < c.end
                            /\ c.end <= now /\ c.retention \in Int
  <1>1. now \in Nat /\ now <= MaxTime /\ MaxTime \in Nat /\ Grace \in Nat
    BY AuditAssumption DEF AuditInv, AuditTypes
  <1>2. ASSUME NEW c \in chain
        PROVE  /\ DocumentSound(c) /\ c.start \in 0..MaxTime /\ c.end \in Nat /\ c.start < c.end
               /\ c.end <= now /\ c.retention \in Int
    <2>1. DocumentSound(c)
      BY DEF AuditInv, SinkSound
    <2>2. c.start \in Nat /\ c.end \in Nat /\ c.start < c.end /\ c.retention \in Int /\ c.end + Grace <= now
      BY <2>1 DEF DocumentSound, IsCheckpoint, Settled
    <2> QED BY <1>1, <2>1, <2>2
  <1> QED BY <1>2

(* The newest checkpoint is one of the chain and starts last. *)
LEMMA NewestOfChain ==
    ASSUME AuditInv, chain # {}
    PROVE  Newest \in chain /\ \A d \in chain : d.start <= Newest.start
  <1>1. MaxTime \in Nat /\ \A c \in chain : c.start \in 0..MaxTime
    BY AuditAssumption, ChainOfDocuments
  <1> QED BY <1>1, NewestExists

(* The window of a time starts at a multiple of its length. *)
LEMMA WindowOf ==
    ASSUME NEW t \in Nat, NEW w \in Nat \ {0}, NEW b, b = t - (t % w)
    PROVE  b \in Nat /\ b <= t /\ t < (b \div w + 1) * w
  <1>1. t = (t \div w) * w + (t % w)
    OBVIOUS
  <1>2. t % w \in Nat /\ t % w < w /\ t \div w \in Nat
    OBVIOUS
  <1>3. PICK q \in Nat, k \in Nat : q = t \div w /\ k = t % w
    BY <1>2
  <1>4. t = q * w + k /\ k < w /\ b = q * w
    BY <1>1, <1>2, <1>3
  <1>5. b \div w = q
    BY <1>4
  <1>6. (q + 1) * w = q * w + w
    OBVIOUS
  <1>7. q * w \in Nat
    OBVIOUS
  <1> QED BY <1>4, <1>5, <1>6, <1>7

(* A log that was never sealed was never pruned, and its first window has its first row. *)
LEMMA FirstWindow ==
    ASSUME AuditInv, chain = {}, log # {}, NEW window \in Nat \ {0}
    PROVE  /\ FirstStart(window) \in Nat
           /\ Known = log /\ \A r \in log : ~(r.at < FirstStart(window))
           /\ \E r \in log : FirstStart(window) <= r.at /\ r.at < WindowEnd(FirstStart(window), window)
  <1> DEFINE S == {r.at : r \in log}
             first == Min(S)
             b == FirstStart(window)
  <1>1. Known = log
    BY DEF AuditInv, RemovedSound, Known
  <1>2. S \subseteq Nat /\ S # {}
    BY <1>1 DEF AuditInv, AuditTypes
  <1>3. first \in S /\ first \in Nat /\ \A y \in S : first <= y
    BY <1>2, LeastOfNumbers
  <1>4. PICK q \in log : q.at = first
    BY <1>3
  <1>5. b = first - (first % window)
    BY DEF FirstStart
  <1> HIDE DEF first, b
  <1>6. b \in Nat /\ b <= first /\ first < (b \div window + 1) * window
    BY <1>3, <1>5, WindowOf
  <1>7. \A r \in log : ~(r.at < b)
    <2>1. \A r \in log : r.at \in Nat /\ first <= r.at
      BY <1>2, <1>3
    <2> QED BY <1>3, <1>6, <2>1
  <1>8. b <= q.at /\ q.at < WindowEnd(b, window)
    BY <1>4, <1>6 DEF WindowEnd
  <1> QED BY <1>1, <1>6, <1>7, <1>8 DEF b

(* A run looks at the first window, or at the one after the newest checkpoint. *)
LEMMA ReadNewestSound ==
    ASSUME AuditInv, Grown, Remember, NEW m \in Maintainer, ReadNewest(m), NEW w, w = work'[m]
    PROVE  RunSound(w)'
  <1>1. AuditTypes /\ WorkShape(work[m]) /\ work[m].pc = "newest" /\ work[m].set # Nothing /\ Busy(m)
    BY DEF AuditInv, RunSound, ReadNewest, At, WorkShape, Busy
  <1>2. CASE Go(m, "retention")
    BY <1>1, <1>2, GoSound
  <1>3. CASE ~((chain = {} /\ log = {}) \/ (chain # {} /\ Newest.end > work[m].now))
    <2>0. work[m] = Fields(work[m].pc, work[m].now, work[m].set, work[m].start, work[m].prev, work[m].cp,
                           work[m].written, work[m].cutoff)
      BY <1>1, Moved
    <2>1. PICK b, v : /\ b = (IF chain # {} THEN Newest.end ELSE FirstStart(work[m].set.window))
                      /\ v = (IF chain # {} THEN Newest.hash ELSE Nothing)
      OBVIOUS
    <2>2. w = Fields("window", work[m].now, work[m].set, b, v, work[m].cp, work[m].written, work[m].cutoff)
      <3>1. w = [[[work[m] EXCEPT !.pc = "window"] EXCEPT !.start = b] EXCEPT !.prev = v]
        BY <1>1, <1>3, <2>1 DEF AuditTypes, ReadNewest
      <3> QED BY <2>0, <3>1 DEF Fields
    <2>3. /\ WorkShape(w)' /\ w.pc = "window" /\ w.start = b /\ w.prev = v
          /\ w.set = work[m].set /\ w.now = work[m].now
      <3>1. "window" \in Stages /\ work[m].pc \notin {"idle", "settings", "ensure"}
        BY <1>1 DEF Stages
      <3>2. /\ w = Fields(w.pc, work[m].now, work[m].set, w.start, w.prev, w.cp, w.written, w.cutoff)
            /\ w.pc = "window" /\ w.start = b /\ w.prev = v
        BY <2>2 DEF Fields
      <3> QED BY <3>1, <3>2, ShapeFrom
    <2>4. log' = log /\ chain' = chain
      BY DEF ReadNewest
    <2>5. Known' = Known /\ trace'.late = trace.late
      BY <2>4, KnownStays
    <2>6. WindowSound(w)'
      <3>1. CASE chain # {}
        <4>1. Newest \in chain
          BY <3>1, NewestOfChain
        <4>2. b = Newest.end /\ v = Newest.hash /\ b \in Nat
          BY <2>1, <3>1, <4>1, ChainOfDocuments
        <4> QED BY <2>3, <2>4, <4>1, <4>2 DEF WindowSound, Follows
      <3>2. CASE chain = {}
        <4>1. work[m].set.window \in Nat \ {0} /\ log # {}
          BY <1>1, <1>3, <3>2 DEF WorkShape, AuditSettings
        <4>2. b = FirstStart(work[m].set.window) /\ v = Nothing
          BY <2>1, <3>2
        <4>3. /\ b \in Nat /\ Known = log /\ \A r \in log : ~(r.at < b)
              /\ \E r \in log : b <= r.at /\ r.at < WindowEnd(b, w.set.window)
          BY <2>3, <3>2, <4>1, <4>2, FirstWindow
        <4> QED BY <2>3, <2>5, <4>2, <4>3 DEF WindowSound, WindowEnd
      <3> QED BY <3>1, <3>2
    <2> QED BY <2>3, <2>6 DEF RunSound
  <1> QED BY <1>2, <1>3 DEF ReadNewest

(* What a run digests once a window is due is a sound document. *)
LEMMA DigestSound ==
    ASSUME AuditInv, Grown, Remember, NEW m \in Maintainer, DigestWindow(m), NEW w, w = work'[m]
    PROVE  RunSound(w)'
  <1>1. AuditTypes /\ WorkShape(work[m]) /\ work[m].pc = "window" /\ work[m].set # Nothing /\ Busy(m) /\ WindowSound(work[m])
    BY DEF AuditInv, RunSound, DigestWindow, At, WorkShape, Busy
  <1>2. CASE Go(m, "retention")
    BY <1>1, <1>2, GoSound
  <1>3. PICK end : end = WindowEnd(work[m].start, work[m].set.window)
    OBVIOUS
  <1>4. PICK c : c = Checkpoint(work[m].start, end, work[m].prev, work[m].set)
    OBVIOUS
  <1>5. CASE Due(m, end)
    <2>0. work[m] = Fields(work[m].pc, work[m].now, work[m].set, work[m].start, work[m].prev, work[m].cp,
                           work[m].written, work[m].cutoff)
      BY <1>1, Moved
    <2>1. w = Fields("sink", work[m].now, work[m].set, work[m].start, work[m].prev, c, work[m].written, work[m].cutoff)
      <3>1. w = [[work[m] EXCEPT !.pc = "sink"] EXCEPT !.cp = c]
        BY <1>1, <1>3, <1>4, <1>5 DEF AuditTypes, DigestWindow
      <3> QED BY <2>0, <3>1 DEF Fields
    <2>2. /\ WorkShape(w)' /\ w.pc = "sink" /\ w.start = work[m].start /\ w.prev = work[m].prev /\ w.cp = c
      <3>1. "sink" \in Stages /\ work[m].pc \notin {"idle", "settings", "ensure"}
        BY <1>1 DEF Stages
      <3>2. /\ w = Fields(w.pc, work[m].now, work[m].set, w.start, w.prev, w.cp, w.written, w.cutoff)
            /\ w.pc = "sink" /\ w.start = work[m].start /\ w.prev = work[m].prev /\ w.cp = c
        BY <2>1 DEF Fields
      <3> QED BY <3>1, <3>2, ShapeFrom
    <2>3. /\ work[m].start \in Nat /\ work[m].set.window \in Nat \ {0} /\ work[m].set.retention \in Int
          /\ work[m].now \in Nat /\ work[m].now <= now /\ now \in Nat /\ Grace \in Nat
      BY <1>1, AuditAssumption DEF WindowSound, WorkShape, AuditSettings, AuditTypes
    <2>4. end \in Nat /\ work[m].start < end
      <3>1. \A t \in Nat, d \in Nat \ {0} : t < (t \div d + 1) * d /\ (t \div d + 1) * d \in Nat
        OBVIOUS
      <3> QED BY <1>3, <2>3, <3>1 DEF WindowEnd
    <2>5. end + Grace <= work[m].now
      BY <1>5 DEF Due
    <2>6. /\ c.start = work[m].start /\ c.end = end /\ c.prev = work[m].prev /\ c.retention = work[m].set.retention
          /\ c.hash.rows = {r \in log : work[m].start <= r.at /\ r.at < end}
          /\ IsCheckpoint(c)
      BY <1>4, <2>3, <2>4 DEF Checkpoint, Digest, IsCheckpoint
    <2>7. Settled(end)
      <3>1. end + Grace <= now
        BY <2>3, <2>4, <2>5
      <3>2. ASSUME ~story.unlocked, NEW x \in Maintainer, Busy(x)  PROVE end + Grace <= work[x].now
        <4>1. x = m
          BY <1>1, <3>2 DEF AuditInv, Alone
        <4> QED BY <2>5, <4>1
      <3> QED BY <3>1, <3>2 DEF Settled
    <2>8. /\ \A r \in log : Within(r, c) => r \in c.hash.rows
          /\ \A r \in c.hash.rows : r \in Known /\ Within(r, c)
      BY <2>6 DEF Within, Known
    <2>9. \/ c.prev = Nothing /\ NoneBelow(c.start) /\ \E r \in Known : Within(r, c)
          \/ Follows(c.start, c.prev)
      <3>1. ASSUME NEW r \in Known, r.at < work[m].start  PROVE r.at + Grace < work[m].now
        <4>1. r.at \in Nat
          BY <1>1 DEF AuditTypes
        <4> QED BY <2>3, <2>4, <2>5, <3>1, <4>1
      <3>2. ASSUME \A r \in Known : r.at < work[m].start /\ r.at + Grace < work[m].now => r \in trace.late
            PROVE  NoneBelow(c.start)
        BY <2>6, <3>1, <3>2 DEF NoneBelow
      <3> QED BY <1>1, <1>3, <2>6, <3>2 DEF WindowSound, Within
    <2>10. DocumentSound(c)
      BY <2>6, <2>7, <2>8, <2>9 DEF DocumentSound
    <2>11. DocumentSound(c)'
      BY <2>10, DocumentStays
    <2> QED BY <2>2, <2>6, <2>11 DEF RunSound
  <1> QED BY <1>2, <1>3, <1>5 DEF DigestWindow

(* What a run has put into the sink, or found there, is what it stores. *)
LEMMA WriteSinkSound ==
    ASSUME AuditInv, Grown, Remember, NEW m \in Maintainer, WriteSink(m), NEW w, w = work'[m]
    PROVE  RunSound(w)'
  <1>1. /\ AuditTypes /\ WorkShape(work[m]) /\ work[m].pc = "sink" /\ work[m].set # Nothing /\ Busy(m)
        /\ DocumentSound(work[m].cp) /\ work[m].cp.start = work[m].start /\ work[m].cp.prev = work[m].prev
    BY DEF AuditInv, RunSound, WriteSink, At, WorkShape, Busy
  <1>2. work[m] = Fields(work[m].pc, work[m].now, work[m].set, work[m].start, work[m].prev, work[m].cp,
                         work[m].written, work[m].cutoff)
    BY <1>1, Moved
  <1>3. CASE Go(m, "retention")
    BY <1>1, <1>3, GoSound
  <1>4. ASSUME NEW c, c \in sink', DocumentSound(c), c.start = work[m].start, c.prev = work[m].prev,
               w = Fields("store", work[m].now, work[m].set, work[m].start, work[m].prev, c, work[m].written, work[m].cutoff)
        PROVE  RunSound(w)'
    <2>1. /\ WorkShape(w)' /\ w.pc = "store" /\ w.start = work[m].start /\ w.prev = work[m].prev /\ w.cp = c
      <3>1. "store" \in Stages /\ work[m].pc \notin {"idle", "settings", "ensure"}
        BY <1>1 DEF Stages
      <3>2. /\ w = Fields(w.pc, work[m].now, work[m].set, w.start, w.prev, w.cp, w.written, w.cutoff)
            /\ w.pc = "store" /\ w.start = work[m].start /\ w.prev = work[m].prev /\ w.cp = c
        BY <1>4 DEF Fields
      <3> QED BY <3>1, <3>2, ShapeFrom
    <2>2. DocumentSound(c)'
      BY <1>4, DocumentStays
    <2> QED BY <1>4, <2>1, <2>2 DEF RunSound
  <1>5. CASE Copies(m) = {}
    <2>1. work[m].cp \in sink' /\ Go(m, "store")
      BY <1>5 DEF WriteSink
    <2>2. w = Fields("store", work[m].now, work[m].set, work[m].start, work[m].prev, work[m].cp, work[m].written, work[m].cutoff)
      BY <1>1, <2>1, Moved, Zenon
    <2> QED BY <1>1, <1>4, <2>1, <2>2
  <1>6. CASE Copies(m) # {}
    <2>1. PICK s : s = CHOOSE c \in Copies(m) : TRUE
      OBVIOUS
    <2>2. s \in sink /\ s.start = work[m].start
      BY <1>6, <2>1 DEF Copies
    <2>3. PICK c : c = Resealed(work[m].cp, s)
      OBVIOUS
    <2>4. CASE c = s
      <3>1. work' = [work EXCEPT ![m].pc = "store", ![m].cp = c] /\ sink' = sink
        BY <1>6, <2>1, <2>3, <2>4 DEF WriteSink, Reproduces
      <3>2. w = [[work[m] EXCEPT !.pc = "store"] EXCEPT !.cp = c]
        BY <1>1, <3>1 DEF AuditTypes
      <3>3. w = Fields("store", work[m].now, work[m].set, work[m].start, work[m].prev, c, work[m].written, work[m].cutoff)
        BY <1>2, <3>2 DEF Fields
      <3>4. c.prev = work[m].prev
        <4>1. work[m].cp = [start |-> work[m].cp.start, end |-> work[m].cp.end, hash |-> work[m].cp.hash,
                            prev |-> work[m].cp.prev, retention |-> work[m].cp.retention, hold |-> work[m].cp.hold,
                            key |-> work[m].cp.key]
          BY <1>1 DEF DocumentSound, IsCheckpoint
        <4> QED BY <1>1, <2>3, <4>1 DEF Resealed
      <3>5. c \in sink' /\ DocumentSound(c) /\ c.start = work[m].start
        BY <2>2, <2>4, <3>1 DEF AuditInv, SinkSound
      <3> QED BY <1>4, <3>3, <3>4, <3>5
    <2>5. CASE c # s
      <3>1. Go(m, "retention")
        BY <1>6, <2>1, <2>3, <2>5 DEF WriteSink, Reproduces
      <3> QED BY <1>3, <3>1
    <2> QED BY <2>4, <2>5
  <1> QED BY <1>5, <1>6

(* A run that has stored a checkpoint goes on behind it. *)
LEMMA StoreSound ==
    ASSUME AuditInv, Grown, Remember, NEW m \in Maintainer, StoreCheckpoint(m), NEW w, w = work'[m]
    PROVE  RunSound(w)'
  <1>1. /\ AuditTypes /\ WorkShape(work[m]) /\ work[m].pc = "store" /\ work[m].set # Nothing /\ Busy(m)
        /\ DocumentSound(work[m].cp)
    BY DEF AuditInv, RunSound, StoreCheckpoint, At, WorkShape, Busy
  <1>2. work[m] = Fields(work[m].pc, work[m].now, work[m].set, work[m].start, work[m].prev, work[m].cp,
                         work[m].written, work[m].cutoff)
    BY <1>1, Moved
  <1>3. CASE Go(m, "retention")
    BY <1>1, <1>3, GoSound
  <1>4. CASE ~Go(m, "retention")
    <2>1. /\ chain' = chain \cup {work[m].cp}
          /\ work' = [work EXCEPT ![m].pc = "window", ![m].written = @ + 1,
                                  ![m].start = work[m].cp.end, ![m].prev = work[m].cp.hash]
      BY <1>4 DEF StoreCheckpoint
    <2>2. w = [[[[work[m] EXCEPT !.pc = "window"] EXCEPT !.written = @ + 1] EXCEPT !.start = work[m].cp.end]
                  EXCEPT !.prev = work[m].cp.hash]
      BY <1>1, <2>1 DEF AuditTypes
    <2>3. w = Fields("window", work[m].now, work[m].set, work[m].cp.end, work[m].cp.hash, work[m].cp,
                     work[m].written + 1, work[m].cutoff)
      BY <1>2, <2>2 DEF Fields
    <2>4. /\ WorkShape(w)' /\ w.pc = "window" /\ w.start = work[m].cp.end /\ w.prev = work[m].cp.hash
      <3>1. "window" \in Stages /\ work[m].pc \notin {"idle", "settings", "ensure"}
        BY <1>1 DEF Stages
      <3>2. /\ w = Fields(w.pc, work[m].now, work[m].set, w.start, w.prev, w.cp, w.written, w.cutoff)
            /\ w.pc = "window" /\ w.start = work[m].cp.end /\ w.prev = work[m].cp.hash
        BY <2>3 DEF Fields
      <3> QED BY <3>1, <3>2, ShapeFrom
    <2>5. work[m].cp.end \in Nat
      BY <1>1 DEF DocumentSound, IsCheckpoint
    <2>6. WindowSound(w)'
      BY <2>1, <2>4, <2>5 DEF WindowSound, Follows
    <2> QED BY <2>4, <2>6 DEF RunSound
  <1> QED BY <1>3, <1>4

(* A cutoff is at least the retention, and so the floor, before the time of the run, and never beyond the newest checkpoint. *)
LEMMA CutoffBounded ==
    ASSUME AuditInv, NEW m \in Maintainer, At(m, "retention"), MayPrune(m)
    PROVE  /\ Cutoff(m) \in Int /\ Cutoff(m) < work[m].now /\ Cutoff(m) <= work[m].now - Floor * Day
           /\ Newest \in chain /\ Cutoff(m) <= Newest.end
  <1>1. WorkShape(work[m]) /\ work[m].pc = "retention" /\ work[m].set # Nothing
    BY DEF AuditInv, RunSound, WorkShape, At
  <1>2. /\ work[m].now \in Nat /\ work[m].set.retention \in Int /\ work[m].set.retention > 0
        /\ work[m].set.retention >= Floor /\ Floor \in Nat \ {0} /\ Day \in Nat \ {0}
    BY <1>1, AuditAssumption, SMTT(30) DEF WorkShape, AuditSettings, MayPrune, Accepted, Floor, AuditInv, AuditTypes, Story
  <1>3. Newest \in chain
    BY NewestOfChain DEF MayPrune
  <1>4. Newest.end \in Nat /\ Newest.retention \in Int /\ Newest.retention > 0
    BY <1>3, ChainOfDocuments DEF MayPrune, Allowing
  <1>5. PICK a \in Int, b \in Int : a = work[m].set.retention * Day /\ b = Newest.retention * Day
    BY <1>2, <1>4
  <1>6. a >= Floor * Day /\ a > 0 /\ b > 0
    BY <1>2, <1>4, <1>5
  <1>7. Cutoff(m) = Min({work[m].now - a, Newest.end - b})
    BY <1>5 DEF Cutoff, RetentionHorizon
  <1>8. Cutoff(m) \in {work[m].now - a, Newest.end - b} /\ Cutoff(m) <= work[m].now - a /\ Cutoff(m) <= Newest.end - b
    <2>1. work[m].now - a \in Int /\ Newest.end - b \in Int
      BY <1>2, <1>4, <1>5
    <2> QED BY <1>7, <2>1, LeastOfTwo, Zenon
  <1>9. Floor * Day \in Int
    BY <1>2
  <1> QED BY <1>2, <1>3, <1>4, <1>5, <1>6, <1>8, <1>9

(* Where the database enforces the floor the cutoff also respects that. *)
LEMMA FlooredCutoff ==
    ASSUME AuditInv, NEW m \in Maintainer, At(m, "retention"), MayPrune(m), NEW c,
           c = Min({Cutoff(m), DatabaseNow - Floor * Day})
    PROVE  c \in Int /\ c < work[m].now /\ c <= DatabaseNow - Floor * Day /\ \E d \in chain : c <= d.end
  <1>1. /\ Cutoff(m) \in Int /\ Cutoff(m) < work[m].now /\ Newest \in chain /\ Cutoff(m) <= Newest.end
    BY CutoffBounded
  <1>2. DatabaseNow - Floor * Day \in Int
    BY AuditAssumption, SMTT(30) DEF AuditInv, AuditTypes, Story, DatabaseNow, Floor
  <1>3. c \in {Cutoff(m), DatabaseNow - Floor * Day} /\ c <= Cutoff(m) /\ c <= DatabaseNow - Floor * Day
    BY <1>1, <1>2, LeastOfTwo
  <1>4. work[m].now \in Nat /\ Newest.end \in Nat
    BY <1>1, ChainOfDocuments DEF AuditInv, RunSound, WorkShape
  <1>5. c \in Int
    BY <1>1, <1>2, <1>3
  <1>6. PICK k \in Int : k = Cutoff(m)
    BY <1>1, Zenon
  <1>7. c <= k /\ k < work[m].now /\ k <= Newest.end
    BY <1>1, <1>3, <1>6, Zenon
  <1>8. \A x, y \in Int : \A z, w \in Nat : x <= y /\ y < z /\ y <= w => x < z /\ x <= w
    OBVIOUS
  <1>9. c < work[m].now /\ c <= Newest.end
    BY <1>4, <1>5, <1>6, <1>7, <1>8, Zenon
  <1> QED BY <1>1, <1>3, <1>5, <1>9, Zenon

(* The row of a prune accounts for its cutoff. *)
LEMMA PruneIsAccounted ==
    ASSUME AuditInv, Remember, NEW t, NEW c, PruneRow(t, c) \in log'
    PROVE  c \in trace'.accounted
  <1>1. PruneRow(t, c).by[1] = "prune" /\ PruneRow(t, c).by[3] = c
    BY DEF PruneRow
  <1>2. CASE PruneRow(t, c) \in log
    BY <1>1, <1>2, Remembered DEF AuditInv, AuditTypes
  <1>3. CASE PruneRow(t, c) \notin log
    BY <1>1, <1>3, Remembered
  <1> QED BY <1>2, <1>3

(* What a prune on MySQL or in a plain table goes by once its row is committed. *)
LEMMA RecordPruneSound ==
    ASSUME AuditInv, Grown, Remember, NEW m \in Maintainer, RecordPrune(m), NEW w, w = work'[m]
    PROVE  RunSound(w)'
  <1>1. AuditTypes /\ WorkShape(work[m]) /\ work[m].pc = "retention" /\ At(m, "retention") /\ MayPrune(m) /\ mode # "postgres"
    BY DEF AuditInv, RunSound, RecordPrune, At
  <1>2. work[m] = Fields(work[m].pc, work[m].now, work[m].set, work[m].start, work[m].prev, work[m].cp,
                         work[m].written, work[m].cutoff)
    BY <1>1, Moved
  <1>3. PICK c : c = IF mode = "mysql" THEN Min({Cutoff(m), DatabaseNow - Floor * Day})
                     ELSE IF Sealed(Cutoff(m)) # {} THEN Min(Sealed(Cutoff(m))) ELSE 0
    OBVIOUS
  <1>4. PICK t : t = IF mode = "mysql" THEN work[m].now ELSE now
    OBVIOUS
  <1>5. CASE Finish(m)
    BY <1>5, FinishSound
  <1>6. CASE ~Finish(m)
    <2>1. /\ work' = [work EXCEPT ![m].pc = "prune", ![m].cutoff = c]
          /\ log' = log \cup {PruneRow(t, c)} /\ parts' = parts /\ chain' = chain /\ now' = now /\ story' = story
          /\ IF mode = "mysql" THEN Expired(c) # {} /\ Insertable(PruneRow(t, c)) ELSE \E x \in log : x.at < c
      BY <1>3, <1>4, <1>6 DEF RecordPrune
    <2>2. w = [[work[m] EXCEPT !.pc = "prune"] EXCEPT !.cutoff = c]
      BY <1>1, <2>1 DEF AuditTypes
    <2>3. w = Fields("prune", work[m].now, work[m].set, work[m].start, work[m].prev, work[m].cp, work[m].written, c)
      BY <1>2, <2>2 DEF Fields
    <2>4. /\ WorkShape(w)' /\ w.pc = "prune" /\ w.cutoff = c
      <3>1. "prune" \in Stages /\ work[m].pc \notin {"idle", "settings", "ensure"}
        BY <1>1 DEF Stages
      <3>2. /\ w = Fields(w.pc, work[m].now, work[m].set, w.start, w.prev, w.cp, w.written, w.cutoff)
            /\ w.pc = "prune" /\ w.cutoff = c
        BY <2>3 DEF Fields
      <3> QED BY <3>1, <3>2, ShapeFrom
    <2>5. c \in trace'.accounted
      BY <2>1, PruneIsAccounted
    <2>6. /\ now \in Nat /\ work[m].now \in Nat /\ work[m].now <= now /\ Floor * Day \in Int /\ Day \in Nat \ {0}
          /\ DatabaseNow \in Int
      BY <1>1, AuditAssumption, SMTT(30) DEF AuditTypes, WorkShape, Story, Floor, DatabaseNow
    <2>7. CASE mode = "mysql"
      <3>1. c \in Int /\ c < work[m].now /\ c <= DatabaseNow - Floor * Day /\ \E d \in chain : c <= d.end
        BY <1>1, <1>3, <2>7, FlooredCutoff
      <3>2. PICK d \in parts : d >= DayOf(work[m].now)
        <4>1. PruneRow(t, c).at = work[m].now
          BY <1>4, <2>7 DEF PruneRow
        <4> QED BY <2>1, <2>7, <4>1 DEF Insertable, PartitionsFor
      <3>3. d \in Nat
        BY <1>1 DEF AuditTypes
      <3>4. c < (d + 1) * Day
        <4>1. \A x \in Nat, y \in Nat \ {0} : x < (x \div y + 1) * y /\ x \div y \in Nat
          OBVIOUS
        <4>2. work[m].now < (DayOf(work[m].now) + 1) * Day /\ DayOf(work[m].now) \in Nat
          BY <2>6, <4>1 DEF DayOf
        <4>3. (DayOf(work[m].now) + 1) * Day <= (d + 1) * Day
          BY <2>6, <3>2, <3>3, <4>2
        <4> QED BY <2>6, <3>1, <3>3, <4>2, <4>3
      <3>5. PruneSound(w)'
        BY <2>1, <2>4, <2>5, <2>7, <3>1, <3>4 DEF PruneSound, mode, DatabaseNow, Floor
      <3> QED BY <2>4, <3>5 DEF RunSound
    <2>8. CASE mode # "mysql"
      <3>1. mode = "plain"
        BY <1>1, <2>8 DEF AuditTypes, Story, AllModes, mode
      <3>2. Cutoff(m) \in Int /\ Cutoff(m) <= work[m].now - Floor * Day
        BY <1>1, CutoffBounded
      <3>3. Sealed(Cutoff(m)) # {}
        <4>1. SUFFICES ASSUME Sealed(Cutoff(m)) = {}  PROVE FALSE
          OBVIOUS
        <4>2. PICK x \in log : x.at < 0
          BY <1>3, <2>1, <2>8, <4>1
        <4>3. x.at \in Nat
          BY <1>1 DEF AuditTypes, Known
        <4> QED BY <4>2, <4>3
      <3>4. Sealed(Cutoff(m)) \subseteq Nat
        BY ChainOfDocuments DEF Sealed
      <3>5. c \in Sealed(Cutoff(m))
        BY <1>3, <2>8, <3>3, <3>4, LeastOfNumbers
      <3>6. PICK y \in chain : y.start <= Cutoff(m) /\ c = y.start
        BY <3>5 DEF Sealed
      <3>7. c \in Nat /\ c < y.end /\ y.end \in Nat
        BY <3>6, ChainOfDocuments
      <3>8. c <= now - Floor * Day
        BY <2>6, <3>2, <3>6, <3>7
      <3>9. PruneSound(w)'
        <4>1. \E d \in chain' : c <= d.end
          BY <2>1, <3>7
        <4>2. mode' = "plain" /\ c <= now' - Floor' * Day /\ c \in Int
          BY <2>1, <3>1, <3>7, <3>8 DEF mode, Floor
        <4> QED BY <2>4, <2>5, <4>1, <4>2 DEF PruneSound
      <3> QED BY <2>4, <3>9 DEF RunSound
    <2> QED BY <2>7, <2>8
  <1> QED BY <1>5, <1>6

(* Every run is sound after every step. *)
LEMMA RunsSound ==
    ASSUME AuditInv, Grown, Next, NEW x \in Maintainer, NEW w, w = work'[x]
    PROVE  RunSound(w)'
  <1>0. Remember /\ AuditTypes
    BY DEF Next, AuditInv
  <1>1. CASE work'[x] = work[x]
    BY <1>0, <1>1, RunStays
  <1>2. ASSUME NEW m \in Maintainer, Maintain(m) \/ StepFails(m) \/ Crash(m), work'[x] # work[x]
        PROVE  RunSound(w)'
    <2>1. x = m
      BY <1>0, <1>2, OneRunMoves DEF AuditTypes
    <2>2. w = work'[m] /\ WorkShape(work[m])
      BY <2>1 DEF AuditInv, RunSound
    <2>3. CASE StartRun(m) \/ ReadSettings(m)
      BY <2>2, <2>3, StartSound
    <2>4. CASE RecordChange(m)
      BY <2>2, <2>4, GoSound DEF RecordChange, At, Busy
    <2>5. CASE EnsurePartitions(m) \/ StepFails(m)
      BY <2>2, <2>5, SkipSound DEF EnsurePartitions, StepFails, At, Busy
    <2>6. CASE ReadNewest(m)
      BY <1>0, <2>2, <2>6, ReadNewestSound
    <2>7. CASE DigestWindow(m)
      BY <1>0, <2>2, <2>7, DigestSound
    <2>8. CASE WriteSink(m)
      BY <1>0, <2>2, <2>8, WriteSinkSound
    <2>9. CASE StoreCheckpoint(m)
      BY <1>0, <2>2, <2>9, StoreSound
    <2>10. CASE RecordPrune(m)
      BY <1>0, <2>2, <2>10, RecordPruneSound
    <2>11. CASE DropPartitions(m) \/ DropOnePartition(m) \/ DeleteBatch(m) \/ KeepAll(m) \/ Crash(m)
      <3>1. Finish(m) \/ work' = work
        BY <2>11 DEF DropPartitions, DropOnePartition, DeleteBatch, KeepAll, Crash
      <3> QED BY <1>2, <2>2, <3>1, FinishSound
    <2> QED BY <1>2, <2>3, <2>4, <2>5, <2>6, <2>7, <2>8, <2>9, <2>10, <2>11 DEF Maintain
  <1> QED BY <1>1, <1>2, RunsStay

(***************************************************************************)
(* The rest of the invariant                                               *)
(***************************************************************************)
(* What a step takes from the log is below a cutoff that a row accounts for, the floor allows and a checkpoint covers. *)
LEMMA GoneRows ==
    ASSUME AuditInv, Next, NEW r \in log \ log'
    PROVE  \E c \in trace'.accounted :
              /\ c \in Int /\ r.at < c
              /\ c <= (IF mode = "plain" THEN now ELSE DatabaseNow) - Floor * Day
              /\ \E d \in chain : c <= d.end
  <1>0. Remember /\ AuditTypes
    BY DEF Next, AuditInv
  <1>1. r.at \in Nat /\ Day \in Nat \ {0}
    BY AuditAssumption DEF AuditInv, AuditTypes, Known
  <1>2. DayOf(r.at) \in Nat /\ r.at < (DayOf(r.at) + 1) * Day
    <2>1. \A x \in Nat, y \in Nat \ {0} : x < (x \div y + 1) * y /\ x \div y \in Nat
      OBVIOUS
    <2> QED BY <1>1, <2>1 DEF DayOf
  <1>3. ASSUME NEW m \in Maintainer, DropPartitions(m)
        PROVE  \E c \in trace'.accounted :
                  /\ c \in Int /\ r.at < c
                  /\ c <= (IF mode = "plain" THEN now ELSE DatabaseNow) - Floor * Day
                  /\ \E d \in chain : c <= d.end
    <2>1. At(m, "retention") /\ MayPrune(m) /\ mode = "postgres"
      BY <1>3 DEF DropPartitions
    <2>2. PICK c : c = Min({Cutoff(m), DatabaseNow - Floor * Day})
      OBVIOUS
    <2>3. c \in Int /\ c <= DatabaseNow - Floor * Day /\ \E d \in chain : c <= d.end
      BY <2>1, <2>2, FlooredCutoff
    <2>4. log' = {x \in log : DayOf(x.at) \notin Expired(c)} \cup {PruneRow(work[m].now, c)}
      BY <1>3, <2>2 DEF DropPartitions
    <2>5. DayOf(r.at) \in Expired(c)
      BY <2>4
    <2>6. (DayOf(r.at) + 1) * Day <= c
      BY <2>5 DEF Expired
    <2>7. (DayOf(r.at) + 1) * Day \in Int
      BY <1>1, <1>2
    <2>8. r.at < c
      BY <1>1, <1>2, <2>3, <2>6, <2>7
    <2>9. c \in trace'.accounted
      BY <1>0, <2>4, PruneIsAccounted
    <2> QED BY <2>1, <2>3, <2>8, <2>9
  <1>4. ASSUME NEW m \in Maintainer, At(m, "prune"), r.at < work[m].cutoff
        PROVE  \E c \in trace'.accounted :
                  /\ c \in Int /\ r.at < c
                  /\ c <= (IF mode = "plain" THEN now ELSE DatabaseNow) - Floor * Day
                  /\ \E d \in chain : c <= d.end
    <2>1. PruneSound(work[m])
      BY <1>4 DEF AuditInv, RunSound, At
    <2>2. work[m].cutoff \in trace'.accounted
      BY <1>0, <2>1, Remembered DEF PruneSound
    <2> QED BY <1>4, <2>1, <2>2 DEF PruneSound
  <1>5. ASSUME NEW m \in Maintainer, DropOnePartition(m)
        PROVE  At(m, "prune") /\ r.at < work[m].cutoff
    <2> DEFINE p == Min(Expired(work[m].cutoff))
    <2>1. At(m, "prune") /\ mode = "mysql" /\ Expired(work[m].cutoff) # {} /\ PartitionOf(r) = p
      BY <1>5 DEF DropOnePartition
    <2>2. PruneSound(work[m])
      BY <2>1 DEF AuditInv, RunSound, At
    <2>3. p \in Nat /\ (p + 1) * Day <= work[m].cutoff
      BY <1>0, <2>1, <2>2, DroppedPartition
    <2>4. p \in PartitionsFor(r)
      <3>1. PartitionsFor(r) = {d \in parts : d >= DayOf(r.at)}
        BY <2>1 DEF PartitionsFor
      <3>2. PartitionsFor(r) # {}
        BY <2>1, <3>1 DEF AuditInv, PartitionsSound
      <3>3. PartitionsFor(r) \subseteq Nat
        BY <1>0, <3>1 DEF AuditTypes
      <3>4. Min(PartitionsFor(r)) \in PartitionsFor(r)
        BY <3>2, <3>3, LeastOfNumbers
      <3> QED BY <2>1, <3>4 DEF PartitionOf
    <2>5. p >= DayOf(r.at)
      BY <2>1, <2>4 DEF PartitionsFor
    <2> HIDE DEF p
    <2>6. (DayOf(r.at) + 1) * Day <= (p + 1) * Day
      BY <1>1, <1>2, <2>3, <2>5
    <2>7. work[m].cutoff \in Int
      BY <2>2 DEF PruneSound
    <2>8. (DayOf(r.at) + 1) * Day \in Int /\ (p + 1) * Day \in Int
      BY <1>1, <1>2, <2>3
    <2> QED BY <1>1, <1>2, <2>1, <2>3, <2>6, <2>7, <2>8
  <1>6. ASSUME NEW m \in Maintainer, DeleteBatch(m)
        PROVE  At(m, "prune") /\ r.at < work[m].cutoff
    BY <1>6 DEF DeleteBatch
  <1>7. \E m \in Maintainer : DropPartitions(m) \/ DropOnePartition(m) \/ DeleteBatch(m)
    BY LogStays DEF Commit, RecordDetached, RecordChange, EnsurePartitions, RecordPrune
  <1> QED BY <1>3, <1>4, <1>5, <1>6, <1>7

(* Types. *)
LEMMA TypesKept ==
    ASSUME AuditInv, Grown, Next
    PROVE  AuditTypes'
  <1>0. Remember /\ AuditTypes
    BY DEF Next, AuditInv
  <1>1. story' \in Story /\ story'.settings # <<>> /\ now' \in StartTime..MaxTime
        /\ parts' \subseteq 0..(DayOf(MaxTime) + Ahead)
    BY DEF Grown, SameDeployment
  <1>2. \A r \in Known' : r.at \in Nat
    BY <1>0, KnownFrom DEF Grown, NewRow, AuditTypes
  <1>3. \A r \in log' : r.by[1] = "prune" => r.by[3] \in trace'.accounted
    BY <1>0, Remembered DEF AuditTypes
  <1>4. tx' = [t \in Tx |-> [is |-> tx'[t].is, at |-> tx'[t].at]] /\ \A t \in Tx : tx'[t].at \in Nat
    <2>1. now \in Nat
      BY <1>0, AuditAssumption DEF AuditTypes
    <2>2. CASE tx' = tx
      BY <1>0, <2>2 DEF AuditTypes
    <2>3. ASSUME NEW t \in Tx, NEW v, NEW n \in Nat, tx' = [tx EXCEPT ![t] = [is |-> v, at |-> n]]
          PROVE  tx' = [u \in Tx |-> [is |-> tx'[u].is, at |-> tx'[u].at]] /\ \A u \in Tx : tx'[u].at \in Nat
      <3>1. tx = [u \in Tx |-> [is |-> tx[u].is, at |-> tx[u].at]] /\ \A u \in Tx : tx[u].at \in Nat
        BY <1>0 DEF AuditTypes
      <3>2. tx' = [u \in Tx |-> IF u = t THEN [is |-> v, at |-> n] ELSE tx[u]]
        BY <2>3, <3>1
      <3>3. ASSUME NEW u \in Tx  PROVE tx'[u] = [is |-> tx'[u].is, at |-> tx'[u].at] /\ tx'[u].at \in Nat
        BY <3>1, <3>2
      <3> QED BY <3>2, <3>3
    <2>4. ASSUME NEW t \in Tx, Stage(t) \/ RecordDetached(t)
          PROVE  \E v : tx' = [tx EXCEPT ![t] = [is |-> v, at |-> now]]
      BY <2>4 DEF Stage, RecordDetached
    <2>5. ASSUME NEW t \in Tx, Commit(t)
          PROVE  \E v : tx' = [tx EXCEPT ![t] = [is |-> v, at |-> tx[t].at]]
      <3>1. PICK v : tx' = [tx EXCEPT ![t].is = v]
        BY <2>5 DEF Commit
      <3>2. tx = [u \in Tx |-> tx[u]] /\ tx[t] = [is |-> tx[t].is, at |-> tx[t].at]
        BY <1>0 DEF AuditTypes
      <3>3. tx' = [tx EXCEPT ![t] = [is |-> v, at |-> tx[t].at]]
        <4>1. [tx[t] EXCEPT !.is = v] = [is |-> v, at |-> tx[t].at]
          BY <3>2
        <4>2. tx' = [tx EXCEPT ![t] = [tx[t] EXCEPT !.is = v]]
          BY <3>1, ZenonT(60)
        <4> QED BY <4>1, <4>2, Zenon
      <3> QED BY <3>3
    <2>6. tx' = tx \/ \E t \in Tx : Stage(t) \/ RecordDetached(t) \/ Commit(t)
      BY ZenonT(60) DEF Next, Maintain, Tick, ChangeSettings, LoseLock, StartRun, ReadSettings, RecordChange, EnsurePartitions,
             ReadNewest, DigestWindow, WriteSink, StoreCheckpoint, DropPartitions, RecordPrune, DropOnePartition,
             DeleteBatch, KeepAll, StepFails, Crash, BeginVerify, VerifyWindow, EndVerify
    <2>7. \A t \in Tx : tx[t].at \in Nat
      BY <1>0 DEF AuditTypes
    <2> QED BY <2>1, <2>2, <2>3, <2>4, <2>5, <2>6, <2>7
  <1>5. work' = [m \in Maintainer |-> work'[m]]
    <2>1. work = [m \in Maintainer |-> work[m]]
      BY <1>0 DEF AuditTypes
    <2>2. ASSUME NEW m \in Maintainer, NEW z, work' = [work EXCEPT ![m] = z]  PROVE work' = [x \in Maintainer |-> work'[x]]
      BY <2>1, <2>2
    <2> QED BY <1>0, <2>1, <2>2, RunsStay, OneRunMoves
  <1> QED BY <1>1, <1>2, <1>3, <1>4, <1>5 DEF AuditTypes

(* A run stores its checkpoint, and goes on behind it. *)
Stores(m) ==
    /\ StoreCheckpoint(m) /\ chain' = chain \cup {work[m].cp}
    /\ work' = [work EXCEPT ![m].pc = "window", ![m].written = @ + 1,
                            ![m].start = work[m].cp.end, ![m].prev = work[m].cp.hash]

(* The chain gets longer only by what a run has put into the sink. *)
LEMMA ChainGrows ==
    ASSUME Next
    PROVE  chain' = chain \/ \E m \in Maintainer : Stores(m)
  BY ZenonT(60) DEF Next, Maintain, Tick, ChangeSettings, LoseLock, Stage, Commit, RecordDetached, StartRun, ReadSettings,
         RecordChange, EnsurePartitions, ReadNewest, DigestWindow, WriteSink, StoreCheckpoint, DropPartitions,
         RecordPrune, DropOnePartition, DeleteBatch, KeepAll, StepFails, Crash, BeginVerify, VerifyWindow, EndVerify,
         Stores

(* The sink has one document for a window, a sound one, and every checkpoint of the database. *)
LEMMA SinkKept ==
    ASSUME AuditInv, Grown, Next
    PROVE  SinkSound'
  <1>0. Remember /\ SinkSound
    BY DEF Next, AuditInv
  <1>1. ASSUME NEW c \in sink'  PROVE DocumentSound(c)'
    <2>1. CASE c \in sink
      BY <1>0, <2>1, DocumentStays DEF SinkSound
    <2>2. ASSUME NEW m \in Maintainer, c = work[m].cp, At(m, "sink")  PROVE DocumentSound(c)'
      <3>1. DocumentSound(c)
        BY <2>2 DEF AuditInv, RunSound, At
      <3> QED BY <1>0, <3>1, DocumentStays
    <2>3. c \in sink \/ \E m \in Maintainer : c = work[m].cp /\ At(m, "sink")
      BY ZenonT(60) DEF Next, Maintain, Tick, ChangeSettings, LoseLock, Stage, Commit, RecordDetached, StartRun, ReadSettings,
             RecordChange, EnsurePartitions, ReadNewest, DigestWindow, WriteSink, StoreCheckpoint, DropPartitions,
             RecordPrune, DropOnePartition, DeleteBatch, KeepAll, StepFails, Crash, BeginVerify, VerifyWindow, EndVerify,
             Unanswered
    <2> QED BY <2>1, <2>2, <2>3
  <1>2. ASSUME NEW c \in sink', NEW d \in sink', c.start = d.start  PROVE c = d
    <2>1. CASE sink' = sink
      BY <1>0, <1>2, <2>1 DEF SinkSound
    <2>2. ASSUME NEW m \in Maintainer, At(m, "sink"), Copies(m) = {}, sink' = sink \cup {work[m].cp}
          PROVE  c = d
      <3>1. work[m].cp.start = work[m].start
        BY <2>2 DEF AuditInv, RunSound, At
      <3>2. \A x \in sink : x.start # work[m].start
        BY <2>2 DEF Copies
      <3> QED BY <1>0, <1>2, <2>2, <3>1, <3>2 DEF SinkSound
    <2>3. sink' = sink \/ \E m \in Maintainer : At(m, "sink") /\ Copies(m) = {} /\ sink' = sink \cup {work[m].cp}
      <3>1. CASE \E m \in Maintainer : WriteSink(m)
        BY <3>1 DEF WriteSink
      <3>2. ASSUME NEW m \in Maintainer, StepFails(m)
            PROVE  sink' = sink \/ (At(m, "sink") /\ Copies(m) = {} /\ sink' = sink \cup {work[m].cp})
        BY <3>2 DEF StepFails, Unanswered
      <3>3. \/ sink' = sink \/ \E m \in Maintainer : WriteSink(m) \/ StepFails(m)
        BY ZenonT(60) DEF Next, Maintain, Tick, ChangeSettings, LoseLock, Stage, Commit, RecordDetached, StartRun, ReadSettings,
               RecordChange, EnsurePartitions, ReadNewest, DigestWindow, StoreCheckpoint, DropPartitions,
               RecordPrune, DropOnePartition, DeleteBatch, KeepAll, Crash, BeginVerify, VerifyWindow, EndVerify
      <3> QED BY <3>1, <3>2, <3>3
    <2> QED BY <2>1, <2>2, <2>3
  <1>3. chain' \subseteq sink'
    <2>1. chain \subseteq sink /\ sink \subseteq sink'
      BY <1>0 DEF SinkSound, Grown
    <2>2. ASSUME NEW m \in Maintainer, StoreCheckpoint(m)  PROVE work[m].cp \in sink
      BY <2>2 DEF AuditInv, RunSound, StoreCheckpoint, At
    <2> QED BY <2>1, <2>2, ChainGrows, ZenonT(60) DEF Stores
  <1> QED BY <1>1, <1>2, <1>3 DEF SinkSound

(* Below the end of a checkpoint every row stays late or sealed. *)
LEMMA ChainKept ==
    ASSUME AuditInv, Grown, Next
    PROVE  ChainSound'
  <1>0. Remember /\ ChainSound /\ trace.late \subseteq trace'.late /\ chain \subseteq chain' /\ Known \subseteq Known'
    BY DEF Next, AuditInv, Grown
  <1>1. ASSUME NEW c \in chain, NEW r \in log', r.at < c.end
        PROVE  r \in trace'.late \/ \E d \in chain' : r \in d.hash.rows
    <2>1. CASE r \in log
      BY <1>0, <1>1, <2>1 DEF ChainSound
    <2>2. CASE r \notin log
      <3>1. c.end \in Int /\ Settled(c.end)
        BY ChainOfDocuments DEF DocumentSound
      <3> QED BY <1>1, <2>2, <3>1, LateBelow
    <2> QED BY <2>1, <2>2
  <1>2. CASE chain' = chain
    BY <1>0, <1>1, <1>2 DEF ChainSound
  <1>3. ASSUME NEW m \in Maintainer, StoreCheckpoint(m), chain' = chain \cup {work[m].cp}
        PROVE  ChainSound'
    <2> DEFINE a == work[m].cp
    <2>1. DocumentSound(a) /\ log' = log
      BY <1>3 DEF AuditInv, RunSound, StoreCheckpoint, At
    <2>2. a.start \in Nat /\ a.end \in Nat /\ \A r \in log : r.at \in Nat
      BY <2>1 DEF DocumentSound, IsCheckpoint, AuditInv, AuditTypes, Known
    <2>3. ASSUME NEW r \in log, r.at < a.end
          PROVE  r \in trace'.late \/ \E d \in chain' : r \in d.hash.rows
      <3>1. CASE a.start <= r.at
        <4>1. Within(r, a)
          BY <2>3, <3>1 DEF Within
        <4>2. r \in a.hash.rows \/ r \in trace.late
          BY <2>1, <4>1 DEF DocumentSound
        <4> QED BY <1>0, <1>3, <4>2
      <3>2. CASE r.at < a.start
        <4>1. CASE NoneBelow(a.start)
          BY <1>0, <3>2, <4>1 DEF NoneBelow, Known
        <4>2. CASE Follows(a.start, a.prev)
          <5>1. PICK p \in chain : p.end = a.start
            BY <4>2 DEF Follows
          <5> QED BY <1>1, <2>1, <3>2, <5>1
        <4> QED BY <2>1, <4>1, <4>2 DEF DocumentSound
      <3> QED BY <2>2, <3>1, <3>2
    <2>4. \E c \in chain', r \in Known' : Within(r, c)
      <3>1. CASE chain # {}
        BY <1>0, <3>1 DEF ChainSound
      <3>2. CASE chain = {}
        <4>1. ~Follows(a.start, a.prev)
          BY <3>2 DEF Follows
        <4>2. \E r \in Known : Within(r, a)
          BY <2>1, <4>1 DEF DocumentSound
        <4> QED BY <1>0, <1>3, <4>2
      <3> QED BY <3>1, <3>2
    <2> HIDE DEF a
    <2>5. ASSUME NEW c \in chain', NEW r \in log', r.at < c.end
          PROVE  r \in trace'.late \/ \E d \in chain' : r \in d.hash.rows
      <3>1. CASE c \in chain
        BY <1>1, <2>5, <3>1
      <3>2. CASE c = a
        BY <2>1, <2>3, <2>5, <3>2
      <3> QED BY <1>3, <3>1, <3>2 DEF a
    <2> QED BY <2>4, <2>5 DEF ChainSound, Within
  <1> QED BY <1>2, <1>3, ChainGrows DEF Stores

(* What was removed stays accounted for, and within what was sealed. *)
LEMMA RemovedKept ==
    ASSUME AuditInv, Grown, Next
    PROVE  RemovedSound' /\ FloorRespected'
  <1>0. /\ Remember /\ ChainSound /\ RemovedSound /\ FloorRespected
        /\ trace.late \subseteq trace'.late /\ chain \subseteq chain' /\ trace.accounted \subseteq trace'.accounted
    BY DEF Next, AuditInv, Grown
  <1>1. ASSUME NEW r \in log \ log'
        PROVE  /\ \E c \in chain : r.at < c.end
               /\ r \in trace.late \/ \E c \in chain : r \in c.hash.rows
               /\ \E c \in trace'.accounted : r.at < c
               /\ ~(r.at > (IF mode = "plain" THEN now ELSE DatabaseNow) - Floor * Day)
    <2>1. PICK c \in trace'.accounted :
              /\ c \in Int /\ r.at < c
              /\ c <= (IF mode = "plain" THEN now ELSE DatabaseNow) - Floor * Day
              /\ \E d \in chain : c <= d.end
      BY GoneRows
    <2>2. PICK d \in chain : c <= d.end
      BY <2>1
    <2>3. d.end \in Nat /\ r.at \in Nat
      BY ChainOfDocuments DEF AuditInv, AuditTypes, Known
    <2>4. r.at < d.end
      BY <2>1, <2>2, <2>3
    <2>5. (IF mode = "plain" THEN now ELSE DatabaseNow) - Floor * Day \in Int
      BY AuditAssumption DEF AuditInv, AuditTypes, Story, DatabaseNow, Floor
    <2>6. ~(r.at > (IF mode = "plain" THEN now ELSE DatabaseNow) - Floor * Day)
      <3>1. PICK y \in Int : y = (IF mode = "plain" THEN now ELSE DatabaseNow) - Floor * Day
        BY <2>5
      <3>2. ~(r.at > y)
        BY <2>1, <2>3, <3>1
      <3> QED BY <3>1, <3>2
    <2> QED BY <1>0, <2>1, <2>4, <2>6 DEF ChainSound
  <1>2. trace'.removed = trace.removed \cup (log \ log')
    BY <1>0, Remembered
  <1>3. RemovedSound'
    BY <1>0, <1>1, <1>2 DEF RemovedSound
  <1>4. trace'.young = {}
    BY <1>0, <1>1, Remembered DEF FloorRespected
  <1> QED BY <1>3, <1>4 DEF FloorRespected

(* The lock of a run goes with the run. *)
LEMMA LockMoves ==
    ASSUME NEW m \in Maintainer, Maintain(m) \/ StepFails(m) \/ Crash(m)
    PROVE  StartRun(m) \/ (Busy(m) /\ lock' = lock) \/ (Busy(m) /\ Finish(m))
  <1>1. CASE ReadSettings(m) \/ RecordChange(m) \/ ReadNewest(m) \/ DigestWindow(m) \/ WriteSink(m) \/ StoreCheckpoint(m)
    BY <1>1 DEF ReadSettings, RecordChange, ReadNewest, DigestWindow, WriteSink, StoreCheckpoint, At, Busy
  <1>2. CASE EnsurePartitions(m) \/ StepFails(m)
    BY <1>2 DEF EnsurePartitions, StepFails, Skip, At, Busy
  <1>3. CASE DropPartitions(m) \/ RecordPrune(m) \/ DropOnePartition(m) \/ DeleteBatch(m) \/ KeepAll(m) \/ Crash(m)
    BY <1>3 DEF DropPartitions, RecordPrune, DropOnePartition, DeleteBatch, KeepAll, Crash, At, Busy
  <1> QED BY <1>1, <1>2, <1>3 DEF Maintain

(* Under the lock: who is busy after a step holds it, and was busy or has just begun. *)
LEMMA LockStep ==
    ASSUME AuditInv, Next, ~story'.unlocked
    PROVE  /\ ~story.unlocked
           /\ \A x \in Maintainer : Busy(x)' => lock' = x
           /\ \A x \in Maintainer : Seals(x)' => Busy(x)
  <1>0. AuditTypes /\ Alone /\ Nothing \notin Maintainer
    BY AuditAssumption DEF AuditInv
  <1>1. ~story.unlocked
    BY <1>0, DeploymentStays DEF SameDeployment
  <1>2. \A x \in Maintainer : Busy(x) => lock = x
    BY <1>0, <1>1 DEF Alone
  <1>3. ASSUME NEW m \in Maintainer, Maintain(m) \/ StepFails(m) \/ Crash(m)
        PROVE  /\ \A x \in Maintainer : Busy(x)' => lock' = x
               /\ \A x \in Maintainer : Seals(x)' => Busy(x)
    <2>1. \A x \in Maintainer : x # m => work'[x] = work[x]
      BY <1>0, <1>3, OneRunMoves DEF AuditTypes
    <2>2. \A x \in Maintainer : x # m /\ Busy(x)' => Busy(x)
      BY <2>1 DEF Busy
    <2>3. \A x \in Maintainer : Seals(x)' => Busy(x)'
      BY DEF Seals, Busy
    <2>4. CASE StartRun(m)
      <3>1. lock = Nothing /\ lock' = m
        BY <2>4 DEF StartRun
      <3>2. work'[m].pc = "settings"
        BY <1>0, <2>4 DEF StartRun, AuditTypes, Idle
      <3>3. ~Seals(m)'
        BY <3>2 DEF Seals
      <3> QED BY <1>0, <1>2, <2>2, <2>3, <3>1, <3>3
    <2>5. CASE Busy(m) /\ lock' = lock
      BY <1>2, <2>2, <2>3, <2>5
    <2>6. CASE Busy(m) /\ Finish(m)
      <3>1. work'[m] = Idle
        BY <1>0, <2>6 DEF Finish, AuditTypes
      <3>2. ~Busy(m)'
        BY <3>1 DEF Busy, Idle
      <3> QED BY <1>2, <2>2, <2>3, <2>6, <3>2
    <2> QED BY <1>3, <2>4, <2>5, <2>6, LockMoves
  <1>4. CASE Tick \/ ChangeSettings \/ (\E t \in Tx : Stage(t) \/ Commit(t) \/ RecordDetached(t))
             \/ BeginVerify \/ VerifyWindow \/ EndVerify
    <2>1. work' = work /\ lock' = lock
      BY <1>4 DEF Tick, ChangeSettings, Stage, Commit, RecordDetached, BeginVerify, VerifyWindow, EndVerify
    <2> QED BY <1>1, <1>2, <2>1 DEF Busy, Seals
  <1>5. ~LoseLock
    BY <1>0 DEF LoseLock, AuditTypes, Story
  <1> QED BY <1>1, <1>3, <1>4, <1>5 DEF Next

(* A run seals because it did, in the same window, or because it has just looked where the chain ends. *)
LEMMA SealsFrom ==
    ASSUME AuditInv, NEW m \in Maintainer, Maintain(m) \/ StepFails(m) \/ Crash(m), ~Stores(m), Seals(m)'
    PROVE  \/ Seals(m) /\ work'[m].start = work[m].start /\ work'[m].prev = work[m].prev
           \/ /\ work'[m].start = (IF chain # {} THEN Newest.end ELSE FirstStart(work[m].set.window))
              /\ work'[m].prev = (IF chain # {} THEN Newest.hash ELSE Nothing)
  <1>0. AuditTypes /\ WorkShape(work[m]) /\ work = [x \in Maintainer |-> work[x]]
    BY DEF AuditInv, RunSound, AuditTypes
  <1>1. work[m] = Fields(work[m].pc, work[m].now, work[m].set, work[m].start, work[m].prev, work[m].cp,
                         work[m].written, work[m].cutoff)
    BY <1>0, Moved
  <1>2. work'[m].pc \in {"window", "sink", "store"}
    BY DEF Seals
  <1>3. ASSUME NEW p, Go(m, p)
        PROVE  work'[m].pc = p /\ work'[m].start = work[m].start /\ work'[m].prev = work[m].prev
    <2>1. work'[m] = Fields(p, work[m].now, work[m].set, work[m].start, work[m].prev, work[m].cp, work[m].written, work[m].cutoff)
      BY <1>0, <1>3, Moved, Zenon
    <2> QED BY <2>1 DEF Fields
  <1>4. ~Finish(m)
    BY <1>0, <1>2, Moved DEF Idle
  <1>5. ~Go(m, "retention") /\ ~Go(m, "ensure") /\ ~Go(m, "newest")
    BY <1>2, <1>3
  <1>6. CASE StartRun(m)
    BY <1>0, <1>2, <1>6 DEF StartRun, Idle
  <1>7. CASE ReadSettings(m)
    BY <1>0, <1>1, <1>2, <1>7 DEF ReadSettings, Fields
  <1>8. CASE RecordChange(m)
    BY <1>5, <1>8 DEF RecordChange
  <1>9. CASE EnsurePartitions(m) \/ StepFails(m)
    <2>1. Skip(m)
      BY <1>9 DEF EnsurePartitions, StepFails
    <2>2. NextStep(work[m].pc, work[m].set) \in {"ensure", "newest", "retention", "done"}
      BY DEF NextStep
    <2> QED BY <1>4, <1>5, <2>1, <2>2 DEF Skip
  <1>10. CASE ReadNewest(m)
    <2>1. PICK b, v : /\ b = (IF chain # {} THEN Newest.end ELSE FirstStart(work[m].set.window))
                      /\ v = (IF chain # {} THEN Newest.hash ELSE Nothing)
      OBVIOUS
    <2>2. work'[m] = [[[work[m] EXCEPT !.pc = "window"] EXCEPT !.start = b] EXCEPT !.prev = v]
      BY <1>0, <1>5, <1>10, <2>1 DEF ReadNewest
    <2>3. work'[m].start = b /\ work'[m].prev = v
      BY <1>1, <2>2 DEF Fields
    <2> QED BY <2>1, <2>3
  <1>11. CASE DigestWindow(m)
    <2>1. Seals(m)
      BY <1>11 DEF DigestWindow, At, Seals
    <2>2. PICK c : work' = [work EXCEPT ![m].pc = "sink", ![m].cp = c]
      BY <1>5, <1>11 DEF DigestWindow
    <2>3. work'[m] = [[work[m] EXCEPT !.pc = "sink"] EXCEPT !.cp = c]
      BY <1>0, <2>2
    <2> QED BY <1>1, <2>1, <2>3 DEF Fields
  <1>12. CASE WriteSink(m)
    <2>1. Seals(m)
      BY <1>12 DEF WriteSink, At, Seals
    <2>2. CASE Go(m, "store")
      BY <1>3, <2>1, <2>2
    <2>3. CASE ~Go(m, "store")
      <3>1. PICK c : work' = [work EXCEPT ![m].pc = "store", ![m].cp = c]
        BY <1>5, <1>12, <2>3 DEF WriteSink
      <3>2. work'[m] = [[work[m] EXCEPT !.pc = "store"] EXCEPT !.cp = c]
        BY <1>0, <3>1
      <3> QED BY <1>1, <2>1, <3>2 DEF Fields
    <2> QED BY <2>2, <2>3
  <1>13. CASE StoreCheckpoint(m)
    BY <1>5, <1>13 DEF StoreCheckpoint, Stores
  <1>14. CASE RecordPrune(m)
    <2>1. PICK c : work' = [work EXCEPT ![m].pc = "prune", ![m].cutoff = c]
      BY <1>4, <1>14 DEF RecordPrune
    <2>2. work'[m] = [[work[m] EXCEPT !.pc = "prune"] EXCEPT !.cutoff = c]
      BY <1>0, <2>1
    <2> QED BY <1>1, <1>2, <2>2 DEF Fields
  <1>15. CASE DropPartitions(m) \/ KeepAll(m) \/ Crash(m)
    BY <1>4, <1>15 DEF DropPartitions, KeepAll, Crash
  <1>16. CASE DropOnePartition(m) \/ DeleteBatch(m)
    BY <1>2, <1>4, <1>16 DEF DropOnePartition, DeleteBatch, At
  <1> QED BY <1>6, <1>7, <1>8, <1>9, <1>10, <1>11, <1>12, <1>13, <1>14, <1>15, <1>16 DEF Maintain

(* A run that seals goes on where the chain ends. *)
AtTheEnd(b, v) ==
    /\ \A c \in chain : c.end <= b
    /\ (chain = {} /\ v = Nothing) \/ Follows(b, v)

(* As long as no session was lost the chain has no branches. *)
LEMMA AloneKept ==
    ASSUME AuditInv, Grown, Next
    PROVE  Alone'
  <1>1. SUFFICES ASSUME ~story'.unlocked
                 PROVE  /\ \A x \in Maintainer : Busy(x)' => lock' = x
                        /\ \A c, d \in chain' : c = d \/ c.end <= d.start \/ d.end <= c.start
                        /\ \A x \in Maintainer : Seals(x)' => AtTheEnd(work[x].start, work[x].prev)'
    BY DEF Alone, AtTheEnd
  <1>2. /\ ~story.unlocked /\ \A x \in Maintainer : Busy(x)' => lock' = x
        /\ \A x \in Maintainer : Seals(x)' => Busy(x)
    BY <1>1, LockStep
  <1>3. /\ AuditTypes
        /\ \A x \in Maintainer : Busy(x) => lock = x
        /\ \A c, d \in chain : c = d \/ c.end <= d.start \/ d.end <= c.start
        /\ \A x \in Maintainer : Seals(x) => AtTheEnd(work[x].start, work[x].prev)
    BY <1>2 DEF AuditInv, Alone, AtTheEnd
  <1>4. ASSUME NEW m \in Maintainer, Stores(m)
        PROVE  /\ \A c, d \in chain' : c = d \/ c.end <= d.start \/ d.end <= c.start
               /\ \A x \in Maintainer : Seals(x)' => AtTheEnd(work[x].start, work[x].prev)'
    <2>1. PICK a : a = work[m].cp
      OBVIOUS
    <2>a. chain' = chain \cup {a} /\ StoreCheckpoint(m)
      BY <1>4, <2>1 DEF Stores
    <2>2. DocumentSound(a) /\ a.start = work[m].start /\ Seals(m) /\ Busy(m)
      BY <2>1, <2>a DEF AuditInv, RunSound, StoreCheckpoint, At, Seals, Busy
    <2>3. a.start \in Nat /\ a.end \in Nat /\ a.start < a.end
      BY <2>2 DEF DocumentSound, IsCheckpoint
    <2>4. \A c \in chain : c.end <= a.start /\ c.end \in Nat
      BY <1>3, <2>2, ChainOfDocuments DEF AtTheEnd
    <2>5. \A c, d \in chain' : c = d \/ c.end <= d.start \/ d.end <= c.start
      BY <1>3, <2>a, <2>4
    <2>6. ASSUME NEW x \in Maintainer, Seals(x)'  PROVE x = m
      BY <1>2, <1>3, <2>2, <2>6
    <2>7. work'[m].start = a.end /\ work'[m].prev = a.hash
      <3>1. /\ work = [x \in Maintainer |-> work[x]]
            /\ work[m] = Fields(work[m].pc, work[m].now, work[m].set, work[m].start, work[m].prev, work[m].cp,
                                work[m].written, work[m].cutoff)
        BY <1>3, Moved DEF AuditInv, RunSound, AuditTypes
      <3>2. work'[m] = [[[[work[m] EXCEPT !.pc = "window"] EXCEPT !.written = @ + 1] EXCEPT !.start = work[m].cp.end]
                           EXCEPT !.prev = work[m].cp.hash]
        BY <1>4, <3>1 DEF Stores
      <3> QED BY <2>1, <3>1, <3>2 DEF Fields
    <2>8. AtTheEnd(work[m].start, work[m].prev)'
      <3>1. \A c \in chain' : c.end <= a.end
        BY <2>a, <2>3, <2>4
      <3>2. a \in chain'
        BY <2>a
      <3> QED BY <2>7, <3>1, <3>2 DEF AtTheEnd, Follows
    <2> QED BY <2>5, <2>6, <2>8
  <1>5. CASE chain' = chain /\ ~\E m \in Maintainer : Stores(m)
    <2>1. ASSUME NEW x \in Maintainer, Seals(x)'  PROVE AtTheEnd(work[x].start, work[x].prev)'
      <3>1. ASSUME NEW b, NEW v, AtTheEnd(b, v), work'[x].start = b, work'[x].prev = v
            PROVE  AtTheEnd(work[x].start, work[x].prev)'
        BY <1>5, <3>1 DEF AtTheEnd, Follows
      <3>2. CASE work'[x] = work[x]
        <4>1. Seals(x)
          BY <2>1, <3>2 DEF Seals
        <4> QED BY <1>3, <3>1, <3>2, <4>1
      <3>3. ASSUME NEW m \in Maintainer, Maintain(m) \/ StepFails(m) \/ Crash(m), work'[x] # work[x]
            PROVE  AtTheEnd(work[x].start, work[x].prev)'
        <4>1. x = m
          BY <1>3, <3>3, OneRunMoves DEF AuditTypes
        <4>2. CASE Seals(m) /\ work'[m].start = work[m].start /\ work'[m].prev = work[m].prev
          BY <1>3, <3>1, <4>1, <4>2
        <4>3. CASE /\ work'[m].start = (IF chain # {} THEN Newest.end ELSE FirstStart(work[m].set.window))
                   /\ work'[m].prev = (IF chain # {} THEN Newest.hash ELSE Nothing)
          <5>1. CASE chain = {}
            <6>1. AtTheEnd(work'[m].start, work'[m].prev)
              BY <4>3, <5>1 DEF AtTheEnd
            <6> QED BY <3>1, <4>1, <6>1
          <5>2. CASE chain # {}
            <6>1. Newest \in chain /\ \A d \in chain : d.start <= Newest.start
              BY <5>2, NewestOfChain
            <6>2. \A d \in chain : d.end <= Newest.end
              <7>1. PICK c \in chain : c = Newest
                BY <6>1
              <7>2. c.start \in Nat /\ c.end \in Nat /\ c.start < c.end
                BY ChainOfDocuments
              <7>3. ASSUME NEW d \in chain  PROVE d.end <= c.end
                <8>1. d.start \in Nat /\ d.end \in Nat /\ d.start < d.end /\ d.start <= c.start
                  BY <6>1, <7>1, ChainOfDocuments
                <8>2. c = d \/ c.end <= d.start \/ d.end <= c.start
                  BY <1>3
                <8> QED BY <7>2, <8>1, <8>2
              <7> QED BY <7>1, <7>3
            <6>3. AtTheEnd(work'[m].start, work'[m].prev)
              BY <4>3, <5>2, <6>1, <6>2 DEF AtTheEnd, Follows
            <6> QED BY <3>1, <4>1, <6>3
          <5> QED BY <5>1, <5>2
        <4> QED BY <1>5, <2>1, <3>3, <4>1, <4>2, <4>3, SealsFrom
      <3> QED BY <3>1, <3>2, <3>3, RunsStay
    <2> QED BY <1>2, <1>3, <1>5, <2>1
  <1> QED BY <1>2, <1>4, <1>5, ChainGrows

(* The days that were made sure of change only when a run makes sure. *)
LEMMA EnsuredFrom ==
    ASSUME AuditInv, Next
    PROVE  \/ trace'.ensured = trace.ensured
           \/ trace'.ensured = DayOf(DatabaseNow) /\ \E m \in Maintainer : EnsurePartitions(m)
  <1>0. Remember /\ AuditTypes
    BY DEF Next, AuditInv
  <1>1. trace'.ensured = IF \E m \in Maintainer : At(m, "ensure") /\ work'[m].pc # "ensure" /\ story' = story
                         THEN DayOf(DatabaseNow) ELSE trace.ensured
    BY <1>0, SMTT(30) DEF Remember
  <1>2. ASSUME NEW m \in Maintainer, At(m, "ensure"), work'[m].pc # "ensure", story' = story
        PROVE  EnsurePartitions(m)
    <2>1. work'[m] # work[m]
      BY <1>2 DEF At
    <2>2. PICK x \in Maintainer : Maintain(x) \/ StepFails(x) \/ Crash(x)
      BY <2>1, RunsStay
    <2>3. x = m
      BY <1>0, <2>1, <2>2, OneRunMoves DEF AuditTypes
    <2>4. ~StepFails(m) /\ ~Crash(m)
      BY <1>0, <1>2 DEF AuditTypes, Story, StepFails, Crash
    <2> QED BY <1>2, <2>2, <2>3, <2>4 DEF Maintain, StartRun, ReadSettings, RecordChange, ReadNewest, DigestWindow, WriteSink,
              StoreCheckpoint, DropPartitions, RecordPrune, DropOnePartition, DeleteBatch, KeepAll, At
  <1> QED BY <1>1, <1>2

(* The days of the two clocks. *)
LEMMA DaysOfClocks ==
    ASSUME AuditInv, Grown
    PROVE  /\ DatabaseNow \in Nat /\ DatabaseNow' \in Nat /\ DatabaseNow <= DatabaseNow' /\ DatabaseNow <= now
           /\ DayOf(DatabaseNow) \in Nat /\ DayOf(MaxTime) \in Nat /\ DayOf(DatabaseNow) <= DayOf(MaxTime)
           /\ Floor \in Nat /\ Floor * Day \in Nat /\ Floor' = Floor /\ mode' = mode /\ Day \in Nat \ {0} /\ Ahead \in Nat \ {0}
  <1>1. /\ story.lag \in 0..StartTime /\ story.floor \in Nat /\ now \in StartTime..MaxTime /\ now' \in StartTime..MaxTime
        /\ now <= now' /\ story'.lag = story.lag /\ story'.floor = story.floor /\ story'.mode = story.mode
    BY DEF AuditInv, AuditTypes, Story, Grown, SameDeployment
  <1>2. StartTime \in Nat /\ MaxTime \in Nat /\ Day \in Nat \ {0} /\ Ahead \in Nat \ {0}
    BY AuditAssumption
  <1>3. /\ DatabaseNow \in Nat /\ DatabaseNow' \in Nat /\ DatabaseNow <= DatabaseNow' /\ DatabaseNow <= MaxTime
        /\ DatabaseNow <= now
    BY <1>1, <1>2 DEF DatabaseNow
  <1>4. \A x \in Nat, y \in Nat, d \in Nat \ {0} : x <= y => x \div d \in Nat /\ y \div d \in Nat /\ x \div d <= y \div d
    OBVIOUS
  <1>5. DayOf(DatabaseNow) \in Nat /\ DayOf(MaxTime) \in Nat /\ DayOf(DatabaseNow) <= DayOf(MaxTime)
    BY <1>2, <1>3, <1>4 DEF DayOf
  <1>6. Floor \in Nat /\ Floor * Day \in Nat /\ Floor' = Floor /\ mode' = mode
    BY <1>1, <1>2 DEF Floor, mode
  <1> QED BY <1>2, <1>3, <1>5, <1>6

(* On MySQL a row finds a partition that ends after it. *)
LEMMA NewRowsHoused ==
    ASSUME AuditInv, Next, mode = "mysql", NEW r \in log' \ log
    PROVE  \E d \in parts : d >= DayOf(r.at)
  <1>1. Insertable(r)
    <2>1. ASSUME NEW t \in Tx, Commit(t) \/ RecordDetached(t)  PROVE Insertable(r)
      BY <2>1 DEF Commit, RecordDetached
    <2>2. ASSUME NEW m \in Maintainer, RecordChange(m)  PROVE Insertable(r)
      BY <2>2 DEF RecordChange
    <2>3. ASSUME NEW m \in Maintainer, RecordPrune(m)  PROVE Insertable(r)
      BY <2>3 DEF RecordPrune
    <2> QED BY <2>1, <2>2, <2>3, LogStays DEF EnsurePartitions, DropPartitions, DropOnePartition, DeleteBatch
  <1> QED BY <1>1 DEF Insertable, PartitionsFor

(* On PostgreSQL a partition goes only behind the floor. *)
LEMMA DroppedBehindFloor ==
    ASSUME AuditInv, Next, mode = "postgres", NEW d \in parts \ parts'
    PROVE  (d + 1) * Day <= DatabaseNow - Floor * Day
  <1>1. PICK m \in Maintainer : DropPartitions(m)
    BY LogStays DEF Commit, RecordDetached, RecordChange, EnsurePartitions, RecordPrune, DropOnePartition, DeleteBatch
  <1>2. PICK c : c = Min({Cutoff(m), DatabaseNow - Floor * Day})
    OBVIOUS
  <1>3. At(m, "retention") /\ MayPrune(m) /\ d \in Expired(c)
    BY <1>1, <1>2 DEF DropPartitions
  <1>4. c \in Int /\ c <= DatabaseNow - Floor * Day
    BY <1>2, <1>3, FlooredCutoff
  <1>5. (d + 1) * Day <= c
    BY <1>3 DEF Expired
  <1>6. (d + 1) * Day \in Int /\ DatabaseNow - Floor * Day \in Int
    BY AuditAssumption, SMTT(30) DEF AuditInv, AuditTypes, Story, DatabaseNow, Floor
  <1> QED BY <1>4, <1>5, <1>6

(* The partitions that a run has made sure of. *)
LEMMA PartitionsKept ==
    ASSUME AuditInv, Grown, Next
    PROVE  PartitionsSound'
  <1>0. /\ PartitionsSound /\ Remember /\ parts \subseteq Nat /\ parts' \subseteq Nat
        /\ parts \subseteq 0..(DayOf(MaxTime) + Ahead)
    BY DEF Next, AuditInv, AuditTypes, Grown
  <1>1. /\ DatabaseNow \in Nat /\ DatabaseNow' \in Nat /\ DatabaseNow <= DatabaseNow'
        /\ DayOf(DatabaseNow) \in Nat /\ DayOf(MaxTime) \in Nat /\ DayOf(DatabaseNow) <= DayOf(MaxTime)
        /\ Floor * Day \in Nat /\ Floor' = Floor /\ mode' = mode /\ Day \in Nat \ {0} /\ Ahead \in Nat \ {0}
    BY DaysOfClocks
  <1>2. mode = "mysql" => \A r \in log' : \E d \in parts' : d >= DayOf(r.at)
    <2>1. ASSUME mode = "mysql", NEW r \in log'  PROVE \E d \in parts' : d >= DayOf(r.at)
      <3>1. PICK d \in parts : d >= DayOf(r.at)
        BY <1>0, <2>1, NewRowsHoused DEF PartitionsSound
      <3>2. PICK e \in parts' : d <= e
        BY <2>1 DEF Grown
      <3>3. r.at \in Nat
        BY <1>0, KnownFrom DEF Grown, NewRow, AuditInv, AuditTypes, Known
      <3>4. \A x \in Nat, y \in Nat \ {0} : x \div y \in Nat
        OBVIOUS
      <3>5. DayOf(r.at) \in Nat /\ d \in Nat /\ e \in Nat
        BY <1>0, <1>1, <3>3, <3>4 DEF DayOf
      <3> QED BY <3>1, <3>2, <3>5
    <2> QED BY <2>1
  <1>3. CASE trace'.ensured = trace.ensured
    <2>1. trace.ensured \in Nat /\ trace.ensured <= DayOf(MaxTime)
      BY <1>0 DEF PartitionsSound
    <2>2. ASSUME mode = "postgres", NEW d \in 0..(trace.ensured + Ahead), d >= trace.ensured - 1
          PROVE  d \in parts' \/ (d + 1) * Day <= DatabaseNow' - Floor' * Day
      <3>1. d \in parts \/ (d + 1) * Day <= DatabaseNow - Floor * Day
        BY <1>0, <2>2 DEF PartitionsSound
      <3>2. d \in parts' \/ (d + 1) * Day <= DatabaseNow - Floor * Day
        BY <2>2, <3>1, DroppedBehindFloor
      <3>3. (d + 1) * Day \in Int
        BY <1>1
      <3> QED BY <1>1, <3>2, <3>3
    <2>3. ASSUME mode = "mysql"  PROVE \E d \in parts' : d >= trace.ensured + Ahead
      <3>1. PICK d \in parts : d >= trace.ensured + Ahead
        BY <1>0, <2>3 DEF PartitionsSound
      <3>2. PICK e \in parts' : d <= e
        BY <2>3 DEF Grown
      <3> QED BY <1>0, <1>1, <2>1, <3>1, <3>2
    <2> QED BY <1>1, <1>2, <1>3, <2>1, <2>2, <2>3 DEF PartitionsSound, DayOf
  <1>4. ASSUME trace'.ensured = DayOf(DatabaseNow), NEW m \in Maintainer, EnsurePartitions(m)
        PROVE  PartitionsSound'
    <2>1. ASSUME mode = "postgres", NEW d \in 0..(DayOf(DatabaseNow) + Ahead), d >= DayOf(DatabaseNow) - 1
          PROVE  d \in parts'
      <3>1. parts' = parts \cup Installed(DatabaseNow)
        BY <1>4, <2>1 DEF EnsurePartitions
      <3>2. d \in Installed(DatabaseNow)
        BY <1>1, <2>1 DEF Installed, Days
      <3> QED BY <3>1, <3>2
    <2>2. ASSUME mode = "mysql"  PROVE \E d \in parts' : d >= DayOf(DatabaseNow) + Ahead
      <3>1. parts' = parts \cup {d \in Installed(DatabaseNow) : d > Max(parts)}
        BY <1>4, <2>2 DEF EnsurePartitions
      <3>2. Max(parts) \in parts
        <4>1. parts # {} /\ DayOf(MaxTime) + Ahead \in Nat
          BY <1>0, <1>1, <2>2 DEF PartitionsSound
        <4> QED BY <1>0, <4>1, GreatestOfNumbers
      <3>3. DayOf(DatabaseNow) + Ahead \in Installed(DatabaseNow)
        BY <1>1 DEF Installed, Days
      <3>4. Max(parts) \in Nat
        BY <1>0, <3>2
      <3>5. CASE DayOf(DatabaseNow) + Ahead > Max(parts)
        <4>1. DayOf(DatabaseNow) + Ahead \in parts'
          BY <3>1, <3>3, <3>5
        <4> QED BY <1>1, <4>1
      <3>6. CASE ~(DayOf(DatabaseNow) + Ahead > Max(parts))
        BY <1>1, <3>1, <3>2, <3>4, <3>6
      <3> QED BY <3>5, <3>6
    <2> QED BY <1>1, <1>2, <1>4, <2>1, <2>2 DEF PartitionsSound, DayOf
  <1> QED BY <1>3, <1>4, EnsuredFrom

(* A row that is refused found no partition for its day. *)
LEMMA RefusedRow ==
    ASSUME AuditInv, Next, NEW t \in Tx, tx'[t].is = "refused", tx[t].is # "refused"
    PROVE  \E r : r.at = tx'[t].at /\ ~Insertable(r)
  <1>0. tx = [u \in Tx |-> [is |-> tx[u].is, at |-> tx[u].at]]
    BY DEF AuditInv, AuditTypes
  <1>1. ASSUME NEW u \in Tx, Stage(u)  PROVE FALSE
    <2>1. tx'[t] = IF u = t THEN [is |-> "open", at |-> now] ELSE tx[t]
      BY <1>0, <1>1 DEF Stage
    <2> QED BY <2>1
  <1>2. ASSUME NEW u \in Tx, Commit(u)  PROVE \E r : r.at = tx'[t].at /\ ~Insertable(r)
    <2>1. PICK v : tx' = [tx EXCEPT ![u].is = v] /\ (v = "refused" => ~Insertable(Written(u)))
      BY <1>2 DEF Commit
    <2>2. u = t
      BY <1>0, <2>1
    <2>3. tx'[t] = [tx[t] EXCEPT !.is = v]
      BY <1>0, <2>1, <2>2
    <2>4. tx[t] = [is |-> tx[t].is, at |-> tx[t].at]
      BY <1>0
    <2>5. tx'[t].is = v /\ tx'[t].at = tx[t].at
      BY <2>3, <2>4
    <2>6. Written(t).at = tx[t].at
      BY DEF Written
    <2> QED BY <2>1, <2>2, <2>5, <2>6
  <1>3. ASSUME NEW u \in Tx, RecordDetached(u)  PROVE \E r : r.at = tx'[t].at /\ ~Insertable(r)
    <2>1. PICK v : /\ tx' = [tx EXCEPT ![u] = [is |-> v, at |-> now]]
                   /\ v = "refused" => ~Insertable([at |-> now, by |-> <<u>>])
      BY <1>3 DEF RecordDetached
    <2>2. tx'[t] = IF u = t THEN [is |-> v, at |-> now] ELSE tx[t]
      BY <1>0, <2>1
    <2>3. u = t /\ v = "refused" /\ tx'[t].at = now
      BY <2>2
    <2>4. [at |-> now, by |-> <<u>>].at = now
      BY SMTT(30)
    <2> QED BY <2>1, <2>3, <2>4
  <1>4. \E u \in Tx : Stage(u) \/ RecordDetached(u) \/ Commit(u)
    BY ZenonT(60) DEF Next, Maintain, Tick, ChangeSettings, LoseLock, StartRun, ReadSettings, RecordChange, EnsurePartitions,
           ReadNewest, DigestWindow, WriteSink, StoreCheckpoint, DropPartitions, RecordPrune, DropOnePartition,
           DeleteBatch, KeepAll, StepFails, Crash, BeginVerify, VerifyWindow, EndVerify
  <1> QED BY <1>1, <1>2, <1>3, <1>4

(* It is further ahead than was made sure of, or too far behind. *)
LEMMA AheadKept ==
    ASSUME AuditInv, Grown, Next
    PROVE  PartitionsAhead'
  <1>0. Remember /\ PartitionsAhead /\ PartitionsSound /\ AuditTypes /\ AuditTypes'
    BY TypesKept DEF Next, AuditInv
  <1>1. /\ DatabaseNow \in Nat /\ DatabaseNow <= now /\ now \in Nat /\ parts \subseteq Nat
        /\ Floor \in Nat /\ Floor * Day \in Nat /\ Floor' = Floor /\ mode' = mode /\ Day \in Nat \ {0} /\ Ahead \in Nat \ {0}
        /\ trace.ensured \in Nat
    BY <1>0, DaysOfClocks, AuditAssumption DEF PartitionsSound, AuditTypes
  <1>2. ASSUME NEW t \in Tx, tx'[t].is = "refused", tx[t].is # "refused"
        PROVE  \/ DayOf(tx'[t].at) > trace.ensured + Ahead
               \/ mode = "postgres" /\ DayOf(tx'[t].at) < trace.ensured - 1
               \/ tx'[t].at < now - Floor * Day
    <2>1. PICK r : r.at = tx'[t].at /\ ~Insertable(r)
      BY <1>2, RefusedRow
    <2>2. r.at \in Nat
      BY <1>0, <2>1 DEF AuditTypes
    <2>3. PICK d \in Nat : d = DayOf(r.at) /\ r.at < (d + 1) * Day
      <3>1. \A x \in Nat, y \in Nat \ {0} : x < (x \div y + 1) * y /\ x \div y \in Nat
        OBVIOUS
      <3> QED BY <1>1, <2>2, <3>1 DEF DayOf
    <2>4. CASE mode = "postgres"
      <3>1. d \notin parts
        BY <2>1, <2>3, <2>4 DEF Insertable, PartitionsFor
      <3>2. ASSUME d <= trace.ensured + Ahead, d >= trace.ensured - 1
            PROVE  r.at < now - Floor * Day
        <4>1. (d + 1) * Day <= DatabaseNow - Floor * Day
          BY <1>0, <1>1, <2>4, <3>1, <3>2 DEF PartitionsSound
        <4>2. (d + 1) * Day \in Nat
          BY <1>1
        <4> QED BY <1>1, <2>2, <2>3, <4>1, <4>2
      <3> QED BY <1>1, <2>1, <2>3, <2>4, <3>2
    <2>5. CASE mode = "mysql"
      <3>1. \A e \in parts : ~(e >= d)
        BY <2>1, <2>3, <2>5 DEF Insertable, PartitionsFor
      <3>2. PICK e \in parts : e >= trace.ensured + Ahead
        BY <1>0, <2>5 DEF PartitionsSound
      <3> QED BY <1>1, <2>1, <2>3, <3>1, <3>2
    <2>6. mode # "plain"
      BY <2>1 DEF Insertable
    <2> QED BY <1>0, <2>4, <2>5, <2>6 DEF AuditTypes, Story, AllModes, mode
  <1>3. trace'.refused = trace.refused \cup {[at |-> tx'[t].at, on |-> now, ensured |-> trace.ensured] :
                                                t \in {u \in Tx : tx'[u].is = "refused" /\ tx[u].is # "refused"}}
    BY <1>0 DEF Remember
  <1>4. ASSUME NEW r \in trace'.refused
        PROVE  \/ DayOf(r.at) > r.ensured + Ahead
               \/ mode = "postgres" /\ DayOf(r.at) < r.ensured - 1
               \/ r.at < r.on - Floor * Day
    <2>1. CASE r \in trace.refused
      BY <1>0, <2>1 DEF PartitionsAhead
    <2>2. CASE r \notin trace.refused
      <3>1. PICK t \in Tx : /\ tx'[t].is = "refused" /\ tx[t].is # "refused"
                            /\ r = [at |-> tx'[t].at, on |-> now, ensured |-> trace.ensured]
        BY <1>3, <2>2
      <3>2. r.at = tx'[t].at /\ r.on = now /\ r.ensured = trace.ensured
        BY <3>1
      <3> QED BY <1>2, <3>1, <3>2
    <2> QED BY <2>1, <2>2
  <1> QED BY <1>1, <1>4 DEF PartitionsAhead, DayOf

(* What makes the sink stop a run. *)
Explained(s, a) ==
    \/ s.end # a.end \/ s.key # a.key \/ \E r \in trace.late : r.at < a.end
    \/ story.unlocked /\ (s.prev # a.prev \/ \E r \in trace.removed : Within(r, a))

(* The document of the sink and the attempt to seal its window again differ for a reason. *)
LEMMA DifferForAReason ==
    ASSUME AuditInv, NEW m \in Maintainer, At(m, "sink"), NEW s \in sink, s.start = work[m].start,
           Resealed(work[m].cp, s) # s
    PROVE  Explained(s, work[m].cp)
  <1>1. PICK a : a = work[m].cp
    OBVIOUS
  <1>2. DocumentSound(a) /\ a.start = work[m].start /\ a.prev = work[m].prev /\ DocumentSound(s) /\ Seals(m)
    BY <1>1 DEF AuditInv, RunSound, SinkSound, At, Seals
  <1>3. SUFFICES ASSUME ~Explained(s, a)  PROVE FALSE
    BY <1>1
  <1>4. /\ s.end = a.end /\ s.key = a.key /\ ~\E r \in trace.late : r.at < a.end
        /\ story.unlocked => s.prev = a.prev /\ ~\E r \in trace.removed : Within(r, a)
    BY <1>3 DEF Explained
  <1>5. a.start \in Nat /\ a.end \in Nat /\ a.start < a.end /\ s.start = a.start
    BY <1>2 DEF DocumentSound, IsCheckpoint
  <1>6. \A r \in Known : r.at \in Nat
    BY DEF AuditInv, AuditTypes
  <1>7. ASSUME ~story.unlocked
        PROVE  s.prev = a.prev /\ ~\E r \in trace.removed : Within(r, a)
    <2>1. /\ \A c, d \in chain : c = d \/ c.end <= d.start \/ d.end <= c.start
          /\ \A c \in chain : c.end <= a.start
          /\ (chain = {} /\ a.prev = Nothing) \/ Follows(a.start, a.prev)
      BY <1>2, <1>7 DEF AuditInv, Alone
    <2>2. ASSUME NEW r \in trace.removed, Within(r, a)  PROVE FALSE
      <3>1. PICK c \in chain : r.at < c.end
        BY DEF AuditInv, RemovedSound
      <3>2. c.end \in Nat /\ c.end <= a.start /\ r.at \in Nat
        BY <1>6, <2>1, ChainOfDocuments DEF Known
      <3> QED BY <1>5, <2>2, <3>1, <3>2 DEF Within
    <2>3. s.prev = a.prev
      <3>1. CASE Follows(s.start, s.prev)
        <4>1. PICK p \in chain : p.end = a.start /\ p.hash = s.prev
          BY <1>5, <3>1 DEF Follows
        <4>2. PICK q \in chain : q.end = a.start /\ q.hash = a.prev
          BY <2>1, <4>1 DEF Follows
        <4>3. p = q
          <5>1. p.start \in Nat /\ p.end \in Nat /\ p.start < p.end /\ q.start \in Nat /\ q.end \in Nat /\ q.start < q.end
            BY ChainOfDocuments
          <5>2. p = q \/ p.end <= q.start \/ q.end <= p.start
            BY <2>1
          <5> QED BY <4>1, <4>2, <5>1, <5>2
        <4> QED BY <4>1, <4>2, <4>3
      <3>2. CASE ~Follows(s.start, s.prev)
        <4>1. s.prev = Nothing /\ NoneBelow(s.start)
          BY <1>2, <3>2 DEF DocumentSound
        <4>2. CASE chain = {}
          BY <2>1, <4>1, <4>2 DEF Follows
        <4>3. CASE chain # {}
          <5>1. PICK c \in chain, r \in Known : Within(r, c)
            BY <4>3 DEF AuditInv, ChainSound
          <5>2. c.end \in Nat /\ c.end <= a.start /\ r.at \in Nat /\ r.at < c.end
            BY <1>6, <2>1, <5>1, ChainOfDocuments DEF Within
          <5>3. r.at < s.start /\ r.at < a.end
            BY <1>5, <5>2
          <5>4. r \in trace.late
            BY <4>1, <5>3 DEF NoneBelow
          <5> QED BY <1>4, <5>3, <5>4
        <4> QED BY <4>2, <4>3
      <3> QED BY <3>1, <3>2
    <2> QED BY <2>2, <2>3
  <1>8. s.prev = a.prev /\ ~\E r \in trace.removed : Within(r, a)
    BY <1>4, <1>7
  <1>9. \A r : Within(r, s) <=> Within(r, a)
    BY <1>4, <1>5 DEF Within
  <1>10. ASSUME NEW c, NEW d, DocumentSound(c), DocumentSound(d), \A r : Within(r, c) <=> Within(r, d),
                ~\E r \in trace.removed : Within(r, c), ~\E r \in trace.late : Within(r, c)
         PROVE  c.hash.rows \subseteq d.hash.rows
    <2>1. ASSUME NEW r \in c.hash.rows  PROVE r \in d.hash.rows
      <3>1. r \in Known /\ Within(r, c)
        BY <1>10 DEF DocumentSound
      <3>2. r \in log /\ Within(r, d) /\ r \notin trace.late
        BY <1>10, <3>1 DEF Known
      <3> QED BY <1>10, <3>2 DEF DocumentSound
    <2> QED BY <2>1
  <1>11. ~\E r \in trace.late : Within(r, a)
    BY <1>4 DEF Within
  <1>12. s.hash.rows = a.hash.rows
    BY <1>2, <1>8, <1>9, <1>10, <1>11, SMTT(30)
  <1>13. s.hash = a.hash
    BY <1>2, <1>8, <1>12 DEF DocumentSound, IsCheckpoint
  <1>14. /\ a = [start |-> a.start, end |-> a.end, hash |-> a.hash, prev |-> a.prev,
                 retention |-> a.retention, hold |-> a.hold, key |-> a.key]
         /\ s = [start |-> s.start, end |-> s.end, hash |-> s.hash, prev |-> s.prev,
                 retention |-> s.retention, hold |-> s.hold, key |-> s.key]
    BY <1>2 DEF DocumentSound, IsCheckpoint
  <1>15. Resealed(a, s) = [start |-> a.start, end |-> a.end, hash |-> a.hash, prev |-> a.prev,
                           retention |-> s.retention, hold |-> s.hold, key |-> a.key]
    <2>1. PICK e, h : e = s.retention /\ h = s.hold
      OBVIOUS
    <2>2. PICK z : z = [a EXCEPT !.retention = e, !.hold = h]
      OBVIOUS
    <2>3. a = [start |-> a.start, end |-> a.end, hash |-> a.hash, prev |-> a.prev,
               retention |-> a.retention, hold |-> a.hold, key |-> a.key]
      BY <1>14
    <2>4. z = [start |-> a.start, end |-> a.end, hash |-> a.hash, prev |-> a.prev,
               retention |-> e, hold |-> h, key |-> a.key]
      BY ONLY <2>2, <2>3
    <2>5. Resealed(a, s) = z
      BY <2>1, <2>2, Zenon DEF Resealed
    <2> QED BY <2>1, <2>4, <2>5
  <1>16. Resealed(a, s) = s
    BY <1>4, <1>5, <1>8, <1>13, <1>14, <1>15
  <1> QED BY <1>1, <1>16

(* So a conflict stays explained, and a new one is. *)
LEMMA ConflictKept ==
    ASSUME AuditInv, Grown, Next
    PROVE  ConflictExplained'
  <1>0. Remember /\ ConflictExplained /\ AuditTypes
    BY DEF Next, AuditInv
  <1>1. ASSUME NEW s, NEW a, Explained(s, a)  PROVE Explained(s, a)'
    <2>1. trace.late \subseteq trace'.late /\ trace.removed \subseteq trace'.removed /\ (story.unlocked => story'.unlocked)
      BY DEF Grown, SameDeployment
    <2> QED BY <1>1, <2>1 DEF Explained, Within
  <1>2. PICK stopped : stopped = {m \in Maintainer : At(m, "sink") /\ work'[m].pc = "retention" /\ story' = story}
    OBVIOUS
  <1>3. trace'.conflict = IF stopped = {} THEN trace.conflict
                          ELSE [stored |-> CHOOSE c \in sink : \E m \in stopped : c.start = work[m].start,
                                attempt |-> (CHOOSE w \in {work[m] : m \in stopped} : TRUE).cp]
    BY <1>0, <1>2 DEF Remember
  <1>4. CASE stopped = {}
    <2>1. trace'.conflict = trace.conflict
      BY <1>3, <1>4
    <2>2. trace.conflict # Nothing => Explained(trace.conflict.stored, trace.conflict.attempt)
      BY <1>0 DEF ConflictExplained, Explained
    <2>3. PICK s, a : s = trace.conflict.stored /\ a = trace.conflict.attempt
      OBVIOUS
    <2>4. trace.conflict # Nothing => Explained(s, a)'
      BY <1>1, <2>2, <2>3
    <2> QED BY <2>1, <2>3, <2>4 DEF ConflictExplained, Explained
  <1>5. ASSUME NEW m \in stopped  PROVE ConflictExplained'
    <2>1. m \in Maintainer /\ At(m, "sink") /\ work'[m].pc = "retention" /\ story' = story
      BY <1>2
    <2>2. work'[m] # work[m]
      BY <2>1 DEF At
    <2>3. PICK x \in Maintainer : Maintain(x) \/ StepFails(x) \/ Crash(x)
      BY <2>2, RunsStay
    <2>4. \A y \in Maintainer : y # x => work'[y] = work[y]
      BY <1>0, <2>3, OneRunMoves DEF AuditTypes
    <2>5. x = m /\ stopped = {m}
      <3>1. \A y \in stopped : y \in Maintainer /\ work'[y] # work[y]
        BY <1>2, SMTT(30) DEF At
      <3> QED BY <2>1, <2>4, <3>1
    <2>6. WriteSink(m)
      <3>1. ~StepFails(m) /\ ~Crash(m)
        BY <1>0, <2>1 DEF AuditTypes, Story, StepFails, Crash
      <3> QED BY <2>1, <2>3, <2>5, <3>1 DEF Maintain, StartRun, ReadSettings, RecordChange, EnsurePartitions, ReadNewest,
                DigestWindow, StoreCheckpoint, DropPartitions, RecordPrune, DropOnePartition, DeleteBatch, KeepAll, At
    <2>7. work = [y \in Maintainer |-> work[y]] /\ work[m] = Fields(work[m].pc, work[m].now, work[m].set, work[m].start,
              work[m].prev, work[m].cp, work[m].written, work[m].cutoff)
      BY <1>0, <2>1, Moved DEF AuditInv, RunSound, AuditTypes
    <2>8. /\ Copies(m) # {}
          /\ Resealed(work[m].cp, CHOOSE c \in Copies(m) : TRUE) # CHOOSE c \in Copies(m) : TRUE
      <3>1. ~Go(m, "store")
        <4>1. ASSUME Go(m, "store")  PROVE work'[m] = [work[m] EXCEPT !.pc = "store"]
          BY <2>1, <2>7, <4>1 DEF Go
        <4> QED BY <2>1, <2>7, <4>1 DEF Fields
      <3>2. ASSUME NEW c, work' = [work EXCEPT ![m].pc = "store", ![m].cp = c]  PROVE FALSE
        <4>1. work'[m] = [[work[m] EXCEPT !.pc = "store"] EXCEPT !.cp = c]
          BY <2>1, <2>7, <3>2
        <4> QED BY <2>1, <2>7, <4>1 DEF Fields
      <3> QED BY <2>6, <3>1, <3>2 DEF WriteSink, Reproduces
    <2>9. PICK s \in Copies(m) : Resealed(work[m].cp, s) # s
      BY <2>8
    <2>10. s \in sink /\ s.start = work[m].start
      BY <2>9 DEF Copies
    <2>11. Explained(s, work[m].cp)
      BY <2>1, <2>9, <2>10, DifferForAReason
    <2>12. trace'.conflict.stored = s /\ trace'.conflict.attempt = work[m].cp
      <3>1. trace'.conflict = [stored |-> CHOOSE c \in sink : \E y \in stopped : c.start = work[y].start,
                               attempt |-> (CHOOSE w \in {work[y] : y \in stopped} : TRUE).cp]
        BY <1>3
      <3>2. (CHOOSE c \in sink : \E y \in stopped : c.start = work[y].start) = s
        <4>1. \A c, d \in sink : c.start = d.start => c = d
          BY DEF AuditInv, SinkSound
        <4>2. \A c \in sink : (\E y \in stopped : c.start = work[y].start) <=> c = s
          BY <2>5, <2>10, <4>1
        <4> QED BY <2>10, <4>2
      <3>3. (CHOOSE w \in {work[y] : y \in stopped} : TRUE) = work[m]
        <4>1. {work[y] : y \in stopped} = {work[m]}
          BY <2>5
        <4> QED BY <4>1
      <3>4. trace'.conflict = [stored |-> s, attempt |-> work[m].cp]
        BY <3>1, <3>2, <3>3
      <3> QED BY <3>4
    <2>13. PICK a : a = work[m].cp
      OBVIOUS
    <2>14. Explained(s, a)'
      BY <1>1, <2>11, <2>13
    <2> QED BY <2>12, <2>13, <2>14 DEF ConflictExplained, Explained
  <1> QED BY <1>4, <1>5

(***************************************************************************)
(* The theorems                                                            *)
(***************************************************************************)
(* The invariant holds when the log is installed. *)
LEMMA AuditStart ==
    ASSUME Init
    PROVE  AuditInv
  <1>1. /\ story \in Story /\ story.settings # <<>> /\ now = StartTime /\ log = {} /\ chain = {} /\ sink = {}
        /\ work = [m \in Maintainer |-> Idle] /\ tx = [t \in Tx |-> [is |-> "new", at |-> 0]]
        /\ parts = IF mode = "plain" THEN {} ELSE Installed(DatabaseNow)
        /\ trace.removed = {} /\ trace.young = {} /\ trace.refused = {} /\ trace.conflict = Nothing
        /\ trace.ensured = DayOf(DatabaseNow)
    BY AuditAssumption DEF Init
  <1>2. Known = {}
    BY <1>1 DEF Known
  <1>3. StartTime \in Nat /\ MaxTime \in Nat /\ StartTime <= MaxTime /\ Day \in Nat \ {0} /\ Ahead \in Nat \ {0}
    BY AuditAssumption
  <1>4. AuditTypes
    <2>1. parts \subseteq 0..(DayOf(MaxTime) + Ahead)
      BY <1>1 DEF Installed, Days
    <2>2. tx = [t \in Tx |-> [is |-> tx[t].is, at |-> tx[t].at]] /\ \A t \in Tx : tx[t].at \in Nat
      BY <1>1
    <2>3. work = [m \in Maintainer |-> work[m]]
      BY <1>1
    <2> QED BY <1>1, <1>2, <1>3, <2>1, <2>2, <2>3 DEF AuditTypes
  <1>5. ASSUME NEW m \in Maintainer  PROVE RunSound(work[m])
    <2>1. work[m] = Idle
      BY <1>1
    <2>2. WorkShape(Idle) /\ Idle.pc = "idle"
      BY DEF WorkShape, Idle, Stages
    <2> QED BY <2>1, <2>2 DEF RunSound
  <1>6. Alone
    <2>1. \A m \in Maintainer : work[m].pc = "idle"
      BY <1>1 DEF Idle
    <2> QED BY <1>1, <2>1 DEF Alone, Busy, Seals
  <1>7. SinkSound /\ ChainSound /\ RemovedSound /\ FloorRespected /\ ConflictExplained /\ PartitionsAhead
    BY <1>1 DEF SinkSound, ChainSound, RemovedSound, FloorRespected, ConflictExplained, PartitionsAhead
  <1>8. PartitionsSound
    <2>1. story.lag \in 0..StartTime
      BY <1>1 DEF Story
    <2>2. DatabaseNow \in Nat /\ DatabaseNow <= MaxTime
      BY <1>1, <1>3, <2>1 DEF DatabaseNow
    <2>3. \A x \in Nat, y \in Nat, d \in Nat \ {0} : x <= y => x \div d \in Nat /\ y \div d \in Nat /\ x \div d <= y \div d
      OBVIOUS
    <2>4. DayOf(DatabaseNow) \in Nat /\ DayOf(MaxTime) \in Nat /\ DayOf(DatabaseNow) <= DayOf(MaxTime)
      BY <1>3, <2>2, <2>3 DEF DayOf
    <2>5. \A d \in 0..(DayOf(DatabaseNow) + Ahead) : d >= DayOf(DatabaseNow) - 1 => d \in Installed(DatabaseNow)
      BY <1>3, <2>4 DEF Installed, Days
    <2>6. DayOf(DatabaseNow) + Ahead \in Installed(DatabaseNow)
      BY <1>3, <2>4 DEF Installed, Days
    <2>7. DayOf(DatabaseNow) + Ahead >= DayOf(DatabaseNow) + Ahead
      BY <1>3, <2>4
    <2> QED BY <1>1, <2>4, <2>5, <2>6, <2>7 DEF PartitionsSound
  <1> QED BY <1>4, <1>5, <1>6, <1>7, <1>8 DEF AuditInv

(* Every step keeps it. *)
LEMMA AuditStep ==
    ASSUME AuditInv, [Next]_vars
    PROVE  AuditInv'
  <1>1. CASE Next
    <2>1. Grown
      BY <1>1, Growth
    <2>2. ASSUME NEW m \in Maintainer  PROVE RunSound(work[m])'
      <3>1. PICK w : w = work'[m]
        OBVIOUS
      <3>2. RunSound(w)'
        BY <1>1, <2>1, <3>1, RunsSound
      <3> QED BY <3>1, <3>2
    <2>3. AuditTypes' /\ Alone' /\ SinkSound' /\ ChainSound' /\ RemovedSound' /\ PartitionsSound'
      BY <1>1, <2>1, TypesKept, AloneKept, SinkKept, ChainKept, RemovedKept, PartitionsKept
    <2>4. FloorRespected' /\ ConflictExplained' /\ PartitionsAhead'
      BY <1>1, <2>1, RemovedKept, ConflictKept, AheadKept
    <2> QED BY <2>2, <2>3, <2>4 DEF AuditInv
  <1>2. CASE UNCHANGED vars
    <2>0. /\ story' = story /\ now' = now /\ log' = log /\ tx' = tx /\ parts' = parts /\ chain' = chain /\ sink' = sink
          /\ lock' = lock /\ work' = work /\ trace' = trace
      BY <1>2 DEF vars
    <2>1. Known' = Known /\ mode' = mode /\ DatabaseNow' = DatabaseNow /\ Floor' = Floor
      BY <2>0 DEF Known, mode, DatabaseNow, Floor
    <2>2. AuditTypes'
      BY <2>0, <2>1 DEF AuditInv, AuditTypes
    <2>3. \A c : DocumentSound(c) => DocumentSound(c)'
      BY <2>0, <2>1 DEF DocumentSound, IsCheckpoint, Settled, Busy, NoneBelow, Follows
    <2>4. ASSUME NEW m \in Maintainer  PROVE RunSound(work[m])'
      <3>1. RunSound(work[m])
        BY DEF AuditInv
      <3> QED BY <2>0, <2>1, <2>3, <3>1 DEF RunSound, WorkShape, Accepted, WindowSound, WindowEnd, Follows, PruneSound
    <2>5. Alone'
      BY <2>0 DEF AuditInv, Alone, Busy, Seals, Follows
    <2>6. SinkSound' /\ ChainSound' /\ RemovedSound' /\ PartitionsSound'
      BY <2>0, <2>1, <2>3 DEF AuditInv, SinkSound, ChainSound, RemovedSound, PartitionsSound, DayOf, Within
    <2>7. FloorRespected' /\ ConflictExplained' /\ PartitionsAhead'
      BY <2>0, <2>1 DEF AuditInv, FloorRespected, ConflictExplained, PartitionsAhead, DayOf, Within
    <2> QED BY <2>2, <2>4, <2>5, <2>6, <2>7 DEF AuditInv
  <1> QED BY <1>1, <1>2

(* The invariant of the audit log, its checkpoints and its retention: documents of the sink have the rows of their windows  *)
(* but for late ones, below a checkpoint every row is late or sealed, and under the lock the chain has no branches.         *)
THEOREM AuditHolds == Spec => []AuditInv
  BY AuditStart, AuditStep, PTL DEF Spec

(* run_audit_maintenance: whatever fails, dies or runs without the lock, a prune takes no row that no checkpoint has sealed *)
(* unless it came late, none that the floor protects, none before a row accounts for it; and a row is refused only where no *)
(* run can have made a partition for it.                                                                                    *)
THEOREM NoRowIsLost == Spec => []NoRowLost
  <1>1. AuditInv => NoRowLost
    BY DEF AuditInv, NoRowLost, SealedBeforePruned, PruneAccounted, RemovedSound
  <1> QED BY <1>1, AuditHolds, PTL

(* seal_pending_windows, _copy_to_sink: the sink has every checkpoint of the database, and stops sealing only where the     *)
(* window, the key or a late row differs, or a run has gone on without the lock.                                            *)
THEOREM SinkAndChainAgree == Spec => []SinkAgrees
  <1>1. AuditInv => SinkAgrees
    BY DEF AuditInv, SinkAgrees, SinkFirst, SinkSound
  <1> QED BY <1>1, AuditHolds, PTL

(***************************************************************************)
(* An honest log verifies                                                  *)
(*                                                                         *)
(* A verification reads the checkpoints once and goes through them in      *)
(* their order.  Unless windows overlap, a checkpoint that another one     *)
(* precedes goes on exactly where that one ends, or begins the chain a     *)
(* second time.  A row of a checkpoint that is gone went below a cutoff    *)
(* where a window begins or a day ends, so the whole window is below the   *)
(* cutoff, which a checkpoint allows that the verification finds too.      *)
(***************************************************************************)
(* The lengths of the windows there are divide a day, which the settings are validated for. *)
SettingsDivide ==
    /\ \A i \in DOMAIN story.settings : Day % story.settings[i].window = 0
    /\ \A m \in Maintainer : work[m].set # Nothing => Day % work[m].set.window = 0

(* So no window goes on past the end of a day it begins in. *)
Aligned(c) == \A k \in Nat : c.start < k * Day => c.end <= k * Day

DocumentsAligned ==
    /\ \A c \in sink : Aligned(c)
    /\ \A m \in Maintainer : work[m].pc \in {"sink", "store"} => Aligned(work[m].cp)

(* A time no window goes across, unless windows overlap. *)
Edge(h) == (\E k \in Nat : h = k * Day) \/ \E c \in chain : h = c.start

(* A time that a checkpoint lets everything before it go. *)
Allowed(h) == \E c \in Allowing : h <= RetentionHorizon(c)

GoneAllowed ==
    /\ \A r \in trace.removed : \E h \in Int : r.at < h /\ Edge(h) /\ Allowed(h)
    /\ \A m \in Maintainer : work[m].pc = "prune" =>
          Allowed(work[m].cutoff) /\ (mode = "plain" => Edge(work[m].cutoff))

(* Under the lock the chain begins once. *)
BegunOnce ==
    ~story.unlocked => \A c \in chain : Follows(c.start, c.prev) \/ \A d \in chain : c.start <= d.start

(* One checkpoint goes on from the other, or begins the chain again after a row that came late. *)
Linked(p, c) ==
    \/ p.end = c.start /\ p.hash = c.prev
    \/ story.unlocked /\ \E r \in trace.late : r.at \in Nat /\ r.at < c.start

Snapshot == verifier.prev \cup verifier.rest

Adjacent(p, c, S) == p.start < c.start /\ \A e \in S : ~(p.start < e.start /\ e.start < c.start)

VerifierShape ==
    verifier = [pc |-> verifier.pc, rest |-> verifier.rest, prev |-> verifier.prev, horizon |-> verifier.horizon,
                bad |-> verifier.bad]

(* The checkpoints of a verification have not changed since it read them; what went since is excused. *)
SnapshotSound ==
    /\ Snapshot \subseteq chain
    /\ verifier.horizon = Nothing \/ verifier.horizon \in Int
    /\ verifier.prev = {} =>
         /\ verifier.rest # {}
         /\ \A c \in verifier.rest : (\A d \in verifier.rest : c.start <= d.start) => c.prev = Nothing
    /\ verifier.prev # {} => \E p \in chain : verifier.prev = {p} /\ \A c \in verifier.rest : p.start < c.start

LinksSound == \A p, c \in Snapshot : Adjacent(p, c, Snapshot) => Linked(p, c)

RestSound ==
    \A c \in verifier.rest, r \in trace.removed :
        Within(r, c) => r \in trace.excused \/ (verifier.horizon # Nothing /\ c.end <= verifier.horizon)

VerifierSound ==
    /\ VerifierShape
    /\ verifier.pc = "windows" => SnapshotSound /\ (Overlapping \/ (LinksSound /\ RestSound))

HonestInv ==
    /\ SettingsDivide /\ DocumentsAligned /\ GoneAllowed /\ BegunOnce
    /\ VerifierSound /\ HonestLogVerifies

(* What a step makes of the settings, the document and the cutoff of a run. *)
Turned(m) ==
    /\ work'[m].set \in {work[m].set, Nothing, Config}
    /\ work'[m].pc \in {"sink", "store"} =>
         \/ work'[m].cp \in sink
         \/ work[m].pc = "sink" /\ work'[m].cp = work[m].cp
         \/ /\ work[m].pc = "window" /\ work[m].set # Nothing
            /\ work'[m].cp = Checkpoint(work[m].start, WindowEnd(work[m].start, work[m].set.window),
                                        work[m].prev, work[m].set)
    /\ work'[m].pc = "prune" => RecordPrune(m) \/ (work[m].pc = "prune" /\ work'[m].cutoff = work[m].cutoff)

(* A step of a run passes on its settings, its document and its cutoff, or makes new ones from what it has read. *)
LEMMA RunTurns ==
    ASSUME AuditInv, NEW m \in Maintainer, Maintain(m) \/ StepFails(m) \/ Crash(m)
    PROVE  Turned(m)
  <1> DEFINE w == work[m]
  <1>0. /\ AuditTypes /\ WorkShape(w) /\ work = [x \in Maintainer |-> work[x]]
        /\ w = Fields(w.pc, w.now, w.set, w.start, w.prev, w.cp, w.written, w.cutoff)
    BY Moved DEF AuditInv, RunSound, AuditTypes
  <1>1. ASSUME NEW p \in {"change", "ensure", "newest", "window", "retention"},
               work'[m] = Fields(p, w.now, w.set, w.start, w.prev, w.cp, w.written, w.cutoff)
        PROVE  Turned(m)
    BY <1>1 DEF Fields, Turned
  <1>2. ASSUME NEW p \in {"change", "ensure", "newest", "window", "retention"}, Go(m, p)
        PROVE  Turned(m)
    BY <1>0, <1>1, <1>2, Moved
  <1>3. CASE work'[m] = Idle
    BY <1>3 DEF Idle, Turned
  <1>4. CASE StartRun(m)
    <2>1. work'[m] = [[Idle EXCEPT !.pc = "settings"] EXCEPT !.now = now]
      BY <1>0, <1>4 DEF StartRun
    <2> QED BY <2>1 DEF Idle, Turned
  <1>5. CASE ReadSettings(m)
    <2>1. work'[m] = [[w EXCEPT !.pc = IF Accepted(Config) THEN "change" ELSE "ensure"]
                        EXCEPT !.set = IF Accepted(Config) THEN Config ELSE Nothing]
      BY <1>0, <1>5 DEF ReadSettings
    <2>2. /\ work'[m].set \in {Nothing, Config}
          /\ work'[m].pc \in {"change", "ensure"}
      BY <1>0, <2>1 DEF Fields
    <2> QED BY <2>2 DEF Turned
  <1>6. CASE Skip(m)
    <2>1. NextStep(w.pc, w.set) \in {"ensure", "newest", "retention", "done"}
      BY DEF NextStep
    <2>2. CASE NextStep(w.pc, w.set) = "done"
      BY <1>0, <1>3, <1>6, <2>2, Moved DEF Skip
    <2>3. CASE NextStep(w.pc, w.set) # "done"
      BY <1>2, <1>6, <2>1, <2>3 DEF Skip
    <2> QED BY <2>2, <2>3
  <1>7. CASE RecordChange(m) \/ EnsurePartitions(m) \/ StepFails(m)
    BY <1>2, <1>6, <1>7 DEF RecordChange, EnsurePartitions, StepFails
  <1>8. CASE ReadNewest(m)
    <2>1. CASE Go(m, "retention")
      BY <1>2, <2>1
    <2>2. CASE ~Go(m, "retention")
      <3>1. PICK b, v : work' = [work EXCEPT ![m].pc = "window", ![m].start = b, ![m].prev = v]
        BY <1>8, <2>2 DEF ReadNewest
      <3>2. work'[m] = [[[w EXCEPT !.pc = "window"] EXCEPT !.start = b] EXCEPT !.prev = v]
        BY <1>0, <3>1
      <3>3. work'[m].set = w.set /\ work'[m].pc = "window"
        BY <1>0, <3>2 DEF Fields
      <3> QED BY <3>3 DEF Turned
    <2> QED BY <2>1, <2>2
  <1>9. CASE DigestWindow(m)
    <2>1. CASE Go(m, "retention")
      BY <1>2, <2>1
    <2>2. CASE ~Go(m, "retention")
      <3>1. PICK c : c = Checkpoint(w.start, WindowEnd(w.start, w.set.window), w.prev, w.set)
        OBVIOUS
      <3>2. w.pc = "window" /\ w.set # Nothing /\ work' = [work EXCEPT ![m].pc = "sink", ![m].cp = c]
        BY <1>0, <1>9, <2>2, <3>1 DEF DigestWindow, At, WorkShape
      <3>3. work'[m] = [[w EXCEPT !.pc = "sink"] EXCEPT !.cp = c]
        BY <1>0, <3>2
      <3>4. work'[m].set = w.set /\ work'[m].pc = "sink" /\ work'[m].cp = c
        BY <1>0, <3>3 DEF Fields
      <3> QED BY <3>1, <3>2, <3>4 DEF Turned
    <2> QED BY <2>1, <2>2
  <1>10. CASE WriteSink(m)
    <2>0. w.pc = "sink"
      BY <1>10 DEF WriteSink, At
    <2>1. CASE Go(m, "retention")
      BY <1>2, <2>1
    <2>2. CASE Go(m, "store")
      <3>1. work'[m] = Fields("store", w.now, w.set, w.start, w.prev, w.cp, w.written, w.cutoff)
        BY <1>0, <2>2, Moved
      <3>2. work'[m].set = w.set /\ work'[m].pc = "store" /\ work'[m].cp = w.cp
        BY <3>1 DEF Fields
      <3> QED BY <2>0, <3>2 DEF Turned
    <2>3. CASE ~Go(m, "retention") /\ ~Go(m, "store")
      <3>1. PICK s, c : /\ s = CHOOSE x \in Copies(m) : TRUE
                        /\ c = Resealed(w.cp, s) /\ c = s /\ Copies(m) # {}
                        /\ work' = [work EXCEPT ![m].pc = "store", ![m].cp = c]
        BY <1>10, <2>3 DEF WriteSink, Reproduces
      <3>2. c \in sink
        BY <3>1 DEF Copies
      <3>3. work'[m] = [[w EXCEPT !.pc = "store"] EXCEPT !.cp = c]
        BY <1>0, <3>1
      <3>4. work'[m].set = w.set /\ work'[m].pc = "store" /\ work'[m].cp = c
        BY <1>0, <3>3 DEF Fields
      <3> QED BY <3>2, <3>4 DEF Turned
    <2> QED BY <2>1, <2>2, <2>3
  <1>11. CASE StoreCheckpoint(m)
    <2>1. CASE Go(m, "retention")
      BY <1>2, <2>1
    <2>2. CASE ~Go(m, "retention")
      <3>1. work' = [work EXCEPT ![m].pc = "window", ![m].written = @ + 1,
                                 ![m].start = work[m].cp.end, ![m].prev = work[m].cp.hash]
        BY <1>11, <2>2 DEF StoreCheckpoint
      <3>2. work'[m] = [[[[w EXCEPT !.pc = "window"] EXCEPT !.written = @ + 1] EXCEPT !.start = w.cp.end]
                           EXCEPT !.prev = w.cp.hash]
        BY <1>0, <3>1
      <3>3. work'[m].set = w.set /\ work'[m].pc = "window"
        BY <1>0, <3>2 DEF Fields
      <3> QED BY <3>3 DEF Turned
    <2> QED BY <2>1, <2>2
  <1>12. CASE RecordPrune(m)
    <2>1. CASE Finish(m)
      BY <1>0, <1>3, <2>1, Moved
    <2>2. CASE ~Finish(m)
      <3>1. PICK c : work' = [work EXCEPT ![m].pc = "prune", ![m].cutoff = c]
        BY <1>12, <2>2 DEF RecordPrune
      <3>2. work'[m] = [[w EXCEPT !.pc = "prune"] EXCEPT !.cutoff = c]
        BY <1>0, <3>1
      <3>3. work'[m].set = w.set /\ work'[m].pc = "prune"
        BY <1>0, <3>2 DEF Fields
      <3> QED BY <1>12, <3>3 DEF Turned
    <2> QED BY <2>1, <2>2
  <1>13. CASE DropPartitions(m) \/ DropOnePartition(m) \/ DeleteBatch(m) \/ KeepAll(m) \/ Crash(m)
    <2>1. Finish(m) \/ (work' = work /\ w.pc = "prune")
      BY <1>13 DEF DropPartitions, DropOnePartition, DeleteBatch, KeepAll, Crash, At
    <2>2. CASE Finish(m)
      BY <1>0, <1>3, <2>2, Moved
    <2>3. CASE work' = work /\ w.pc = "prune"
      BY <2>3 DEF Turned
    <2> QED BY <2>1, <2>2, <2>3
  <1> QED BY <1>4, <1>5, <1>7, <1>8, <1>9, <1>10, <1>11, <1>12, <1>13 DEF Maintain

(* A run is as it was, or has made a step. *)
LEMMA RunTurnsOrStays ==
    ASSUME AuditInv, Next, NEW x \in Maintainer
    PROVE  work'[x] = work[x] \/ (Turned(x) /\ (Maintain(x) \/ StepFails(x) \/ Crash(x)))
  <1>1. AuditTypes
    BY DEF AuditInv
  <1>2. ASSUME NEW m \in Maintainer, Maintain(m) \/ StepFails(m) \/ Crash(m)
        PROVE  work'[x] = work[x] \/ (Turned(x) /\ (Maintain(x) \/ StepFails(x) \/ Crash(x)))
    <2>1. CASE x = m
      BY <1>2, <2>1, RunTurns
    <2>2. CASE x # m
      BY <1>1, <1>2, <2>2, OneRunMoves DEF AuditTypes
    <2> QED BY <2>1, <2>2
  <1> QED BY <1>2, RunsStay

(* The settings stay as they are but for those that have been in force and no longer are. *)
LEMMA SettingsPass ==
    ASSUME AuditInv, Next
    PROVE  \/ story'.settings = story.settings
           \/ story'.settings = Tail(story.settings) /\ Len(story.settings) > 1
  <1>1. story \in Story
    BY DEF AuditInv, AuditTypes
  <1>2. CASE story' = story
    BY <1>2
  <1>3. CASE ChangeSettings
    BY <1>1, <1>3 DEF ChangeSettings, Story
  <1>4. CASE LoseLock
    BY <1>1, <1>4 DEF LoseLock, Story
  <1>5. ASSUME NEW m \in Maintainer, StartRun(m) \/ Crash(m) \/ StepFails(m)
        PROVE  story'.settings = story.settings
    BY <1>1, <1>5 DEF StartRun, Crash, StepFails, Story
  <1>6. \/ story' = story \/ ChangeSettings \/ LoseLock
        \/ \E m \in Maintainer : StartRun(m) \/ Crash(m) \/ StepFails(m)
    BY ZenonT(60) DEF Next, Maintain, Tick, Stage, Commit, RecordDetached, ReadSettings, RecordChange, EnsurePartitions,
           ReadNewest, DigestWindow, WriteSink, StoreCheckpoint, DropPartitions, RecordPrune, DropOnePartition,
           DeleteBatch, KeepAll, BeginVerify, VerifyWindow, EndVerify
  <1> QED BY <1>2, <1>3, <1>4, <1>5, <1>6

(* So every run has a window that divides a day. *)
LEMMA SettingsDivideStill ==
    ASSUME AuditInv, SettingsDivide, Next
    PROVE  SettingsDivide'
  <1>1. story.settings \in Seq(AuditSettings) /\ story.settings # <<>>
    BY DEF AuditInv, AuditTypes, Story
  <1>2. \A i \in DOMAIN story'.settings : Day % story'.settings[i].window = 0
    <2>1. CASE story'.settings = story.settings
      BY <2>1 DEF SettingsDivide
    <2>2. CASE story'.settings = Tail(story.settings)
      <3>1. Len(Tail(story.settings)) = Len(story.settings) - 1 /\ Tail(story.settings) \in Seq(AuditSettings)
            /\ \A i \in 1..Len(Tail(story.settings)) : Tail(story.settings)[i] = story.settings[i + 1]
        BY <1>1, HeadTailProperties, ElementOfSeq, SMTT(30)
      <3>2. DOMAIN Tail(story.settings) = 1..Len(Tail(story.settings)) /\ DOMAIN story.settings = 1..Len(story.settings)
            /\ Len(story.settings) \in Nat
        BY <1>1, <3>1, LenProperties
      <3>3. ASSUME NEW i \in DOMAIN Tail(story.settings)  PROVE Day % Tail(story.settings)[i].window = 0
        <4>1. i + 1 \in DOMAIN story.settings
          BY <3>1, <3>2
        <4> QED BY <3>1, <3>2, <4>1 DEF SettingsDivide
      <3> QED BY <2>2, <3>3
    <2> QED BY <2>1, <2>2, SettingsPass
  <1>3. Day % Config.window = 0
    <2>1. 1 \in DOMAIN story.settings /\ Config = story.settings[1]
      <3>1. Len(story.settings) \in Nat /\ Len(story.settings) # 0 /\ DOMAIN story.settings = 1..Len(story.settings)
        BY <1>1, LenProperties, EmptySeq, SMTT(30)
      <3>2. Config = story.settings[1]
        BY <1>1 DEF Config
      <3> QED BY <3>1, <3>2
    <2> QED BY <2>1 DEF SettingsDivide
  <1>4. ASSUME NEW m \in Maintainer, work'[m].set # Nothing  PROVE Day % work'[m].set.window = 0
    <2>1. work'[m].set \in {work[m].set, Nothing, Config}
      BY RunTurnsOrStays DEF Turned
    <2> QED BY <1>3, <1>4, <2>1 DEF SettingsDivide
  <1> QED BY <1>2, <1>4 DEF SettingsDivide

(* A window that begins on a day ends on it: its end is the next multiple of its length, and the end of the day is one. *)
LEMMA WindowEndsInDay ==
    ASSUME NEW t \in Nat, NEW w \in Nat \ {0}, Day % w = 0, NEW k \in Nat, t < k * Day
    PROVE  WindowEnd(t, w) <= k * Day
  <1>0. Day \in Nat
    BY AuditAssumption
  <1>1. PICK q \in Nat : Day = q * w
    <2>1. PICK x \in Nat : x = Day
      BY <1>0
    <2>2. x = (x \div w) * w + (x % w) /\ x \div w \in Nat
      OBVIOUS
    <2>3. PICK y \in Nat : y = x \div w
      BY <2>2
    <2>4. x = y * w + 0
      BY <2>1, <2>2, <2>3
    <2>5. y * w \in Nat
      OBVIOUS
    <2> QED BY <2>1, <2>4, <2>5
  <1>2. PICK a \in Nat : a = t \div w
    OBVIOUS
  <1>3. a * w <= t
    <2>1. \A x \in Nat, y \in Nat \ {0} : (x \div y) * y <= x
      OBVIOUS
    <2> QED BY <1>2, <2>1
  <1>4. PICK n \in Nat : n = k * q
    BY <1>1
  <1>5. k * Day = n * w
    <2>1. \A x, y, z \in Nat : x * (y * z) = (x * y) * z
      OBVIOUS
    <2> QED BY <1>1, <1>4, <2>1
  <1>6. a < n
    <2>1. ASSUME n <= a  PROVE FALSE
      <3>1. n * w <= a * w
        BY <2>1
      <3>2. n * w \in Nat /\ a * w \in Nat
        OBVIOUS
      <3> QED BY <1>3, <1>5, <3>1, <3>2
    <2> QED BY <2>1
  <1>7. (a + 1) * w <= n * w
    BY <1>6
  <1> QED BY <1>2, <1>5, <1>7 DEF WindowEnd

(* So no document goes on past the end of a day. *)
LEMMA DocumentsAlignedStill ==
    ASSUME AuditInv, SettingsDivide, DocumentsAligned, Next
    PROVE  DocumentsAligned'
  <1>1. ASSUME NEW m \in Maintainer, work'[m].pc \in {"sink", "store"}
        PROVE  Aligned(work'[m].cp)
    <2>1. CASE work'[m] = work[m]
      BY <1>1, <2>1 DEF DocumentsAligned
    <2>2. CASE work'[m].cp \in sink
      BY <2>2 DEF DocumentsAligned
    <2>3. CASE work[m].pc = "sink" /\ work'[m].cp = work[m].cp
      BY <2>3 DEF DocumentsAligned
    <2>4. ASSUME NEW c, c = Checkpoint(work[m].start, WindowEnd(work[m].start, work[m].set.window), work[m].prev, work[m].set),
                 work[m].pc = "window", work[m].set # Nothing
          PROVE  Aligned(c)
      <3>1. work[m].start \in Nat /\ work[m].set.window \in Nat \ {0}
        BY <2>4 DEF AuditInv, RunSound, WindowSound, WorkShape, AuditSettings
      <3>2. Day % work[m].set.window = 0
        BY <2>4 DEF SettingsDivide
      <3>3. c.start = work[m].start /\ c.end = WindowEnd(work[m].start, work[m].set.window)
        BY <2>4 DEF Checkpoint
      <3> QED BY <3>1, <3>2, <3>3, WindowEndsInDay DEF Aligned
    <2> QED BY <1>1, <2>1, <2>2, <2>3, <2>4, RunTurnsOrStays DEF Turned
  <1>2. ASSUME NEW c \in sink'  PROVE Aligned(c)
    <2>1. c \in sink \/ \E m \in Maintainer : c = work[m].cp /\ work[m].pc = "sink"
      BY ZenonT(60) DEF Next, Maintain, Tick, ChangeSettings, LoseLock, Stage, Commit, RecordDetached, StartRun, ReadSettings,
             RecordChange, EnsurePartitions, ReadNewest, DigestWindow, WriteSink, StoreCheckpoint, DropPartitions,
             RecordPrune, DropOnePartition, DeleteBatch, KeepAll, StepFails, Crash, BeginVerify, VerifyWindow, EndVerify,
             Unanswered, At
    <2> QED BY <2>1 DEF DocumentsAligned
  <1> QED BY <1>1, <1>2 DEF DocumentsAligned, Aligned

(* What a checkpoint of the database is besides sound. *)
LEMMA ChainAligned ==
    ASSUME AuditInv, DocumentsAligned
    PROVE  \A c \in chain : Aligned(c) /\ c.start \in Nat /\ c.end \in Nat /\ c.start < c.end /\ c.retention \in Int
  BY ChainOfDocuments, AuditAssumption, SMTT(30) DEF AuditInv, SinkSound, DocumentsAligned

(* Where a day ends and where a window begins stays where it is, and what was allowed stays allowed. *)
LEMMA AllowedStays ==
    ASSUME AuditInv, Grown, NEW h
    PROVE  (Edge(h) => Edge(h)') /\ (Allowed(h) => Allowed(h)')
  BY DEF Grown, Edge, Allowed, Allowing, RetentionHorizon

(* A cutoff is allowed by the newest checkpoint. *)
LEMMA CutoffAllowed ==
    ASSUME AuditInv, NEW m \in Maintainer, At(m, "retention"), MayPrune(m), NEW c \in Int, c <= Cutoff(m)
    PROVE  Allowed(c)
  <1>1. WorkShape(work[m]) /\ work[m].pc = "retention" /\ work[m].set # Nothing /\ Newest \in Allowing /\ Newest \in chain
    BY DEF AuditInv, RunSound, WorkShape, At, MayPrune, Allowing
  <1>2. work[m].now \in Nat /\ work[m].set.retention \in Int /\ Day \in Nat /\ Newest.end \in Nat /\ Newest.retention \in Int
    BY <1>1, AuditAssumption, ChainOfDocuments, SMTT(30) DEF WorkShape, AuditSettings
  <1>3. PICK a \in Int, b \in Int : a = work[m].now - work[m].set.retention * Day /\ b = RetentionHorizon(Newest)
    BY <1>2 DEF RetentionHorizon
  <1>4. Cutoff(m) = Min({a, b})
    BY <1>3 DEF Cutoff
  <1>5. Cutoff(m) \in Int /\ Cutoff(m) <= b
    BY <1>3, <1>4, LeastOfTwo
  <1>6. c <= b
    BY <1>3, <1>5
  <1> QED BY <1>1, <1>3, <1>6 DEF Allowed

(* What is before an allowed time is allowed. *)
LEMMA AllowedBefore ==
    ASSUME AuditInv, NEW h \in Int, Allowed(h), NEW b \in Int, b <= h
    PROVE  Allowed(b)
  <1>1. PICK c \in Allowing : h <= RetentionHorizon(c)
    BY DEF Allowed
  <1>2. c \in chain /\ Day \in Nat
    BY AuditAssumption DEF Allowing
  <1>3. c.end \in Nat /\ c.retention \in Int
    BY <1>2, ChainOfDocuments
  <1>4. RetentionHorizon(c) \in Int
    BY <1>2, <1>3 DEF RetentionHorizon
  <1>5. b <= RetentionHorizon(c)
    BY <1>1, <1>4
  <1> QED BY <1>5 DEF Allowed

(* The time a partitioned table is pruned at is not after the cutoff. *)
LEMMA FlooredBelowCutoff ==
    ASSUME AuditInv, NEW m \in Maintainer, At(m, "retention"), MayPrune(m), NEW c,
           c = Min({Cutoff(m), DatabaseNow - Floor * Day})
    PROVE  c \in Int /\ c <= Cutoff(m)
  <1>1. Cutoff(m) \in Int
    BY CutoffBounded
  <1>2. DatabaseNow - Floor * Day \in Int
    BY AuditAssumption, SMTT(30) DEF AuditInv, AuditTypes, Story, DatabaseNow, Floor
  <1> QED BY <1>1, <1>2, LeastOfTwo

(* A row that goes is before the end of a day or before the beginning of a window, and a checkpoint allows all before that to go. *)
LEMMA GoneBelow ==
    ASSUME AuditInv, GoneAllowed, Next, NEW r \in log \ log'
    PROVE  \E h \in Int : r.at < h /\ Edge(h) /\ Allowed(h)
  <1>0. AuditTypes
    BY DEF AuditInv
  <1>1. r.at \in Nat /\ Day \in Nat \ {0}
    BY AuditAssumption DEF AuditInv, AuditTypes, Known
  <1>2. DayOf(r.at) \in Nat /\ r.at < (DayOf(r.at) + 1) * Day
    <2>1. \A x \in Nat, y \in Nat \ {0} : x < (x \div y + 1) * y /\ x \div y \in Nat
      OBVIOUS
    <2> QED BY <1>1, <2>1 DEF DayOf
  <1>3. PICK k \in Nat, b \in Nat : k = DayOf(r.at) + 1 /\ b = k * Day
    BY <1>1, <1>2
  <1>4. r.at < b /\ Edge(b)
    BY <1>2, <1>3 DEF Edge
  <1>5. ASSUME NEW m \in Maintainer, DropPartitions(m)
        PROVE  Allowed(b)
    <2>1. At(m, "retention") /\ MayPrune(m)
      BY <1>5 DEF DropPartitions
    <2>2. PICK c : c = Min({Cutoff(m), DatabaseNow - Floor * Day})
      OBVIOUS
    <2>3. c \in Int /\ c <= Cutoff(m)
      BY <2>1, <2>2, FlooredBelowCutoff
    <2>4. log' = {x \in log : DayOf(x.at) \notin Expired(c)} \cup {PruneRow(work[m].now, c)}
      BY <1>5, <2>2 DEF DropPartitions
    <2>5. DayOf(r.at) \in Expired(c)
      BY <2>4
    <2>6. b <= c
      BY <1>3, <2>5 DEF Expired
    <2>7. Allowed(c)
      BY <2>1, <2>3, CutoffAllowed
    <2> QED BY <1>3, <2>3, <2>6, <2>7, AllowedBefore
  <1>6. ASSUME NEW m \in Maintainer, DropOnePartition(m)
        PROVE  Allowed(b)
    <2> DEFINE p == Min(Expired(work[m].cutoff))
    <2>1. At(m, "prune") /\ mode = "mysql" /\ Expired(work[m].cutoff) # {} /\ PartitionOf(r) = p
      BY <1>6 DEF DropOnePartition
    <2>2. PruneSound(work[m])
      BY <2>1 DEF AuditInv, RunSound, At
    <2>3. p \in Nat /\ (p + 1) * Day <= work[m].cutoff
      BY <1>0, <2>1, <2>2, DroppedPartition
    <2>4. p \in PartitionsFor(r)
      <3>1. PartitionsFor(r) = {d \in parts : d >= DayOf(r.at)}
        BY <2>1 DEF PartitionsFor
      <3>2. PartitionsFor(r) # {}
        BY <2>1, <3>1 DEF AuditInv, PartitionsSound
      <3>3. PartitionsFor(r) \subseteq Nat
        BY <1>0, <3>1 DEF AuditTypes
      <3>4. Min(PartitionsFor(r)) \in PartitionsFor(r)
        BY <3>2, <3>3, LeastOfNumbers
      <3> QED BY <2>1, <3>4 DEF PartitionOf
    <2>5. p >= DayOf(r.at)
      BY <2>1, <2>4 DEF PartitionsFor
    <2> HIDE DEF p
    <2>6. b <= (p + 1) * Day
      <3>1. k <= p + 1
        BY <1>2, <1>3, <2>3, <2>5
      <3>2. \A x, y, z \in Nat : x <= y => x * z <= y * z
        OBVIOUS
      <3> QED BY <1>1, <1>3, <2>3, <3>1, <3>2
    <2>7. work[m].cutoff \in Int /\ Allowed(work[m].cutoff)
      BY <2>1, <2>2 DEF PruneSound, GoneAllowed, At
    <2>8. (p + 1) * Day \in Int
      BY <1>1, <2>3
    <2>9. b <= work[m].cutoff
      BY <1>3, <2>3, <2>6, <2>7, <2>8
    <2> QED BY <1>3, <2>7, <2>9, AllowedBefore
  <1>7. ASSUME NEW m \in Maintainer, DeleteBatch(m)
        PROVE  \E h \in Int : r.at < h /\ Edge(h) /\ Allowed(h)
    <2>1. At(m, "prune") /\ mode = "plain" /\ r.at < work[m].cutoff
      BY <1>7 DEF DeleteBatch
    <2>2. PruneSound(work[m])
      BY <2>1 DEF AuditInv, RunSound, At
    <2>3. work[m].cutoff \in Int /\ Allowed(work[m].cutoff) /\ Edge(work[m].cutoff)
      BY <2>1, <2>2 DEF PruneSound, GoneAllowed, At
    <2> QED BY <2>1, <2>3
  <1>8. \E m \in Maintainer : DropPartitions(m) \/ DropOnePartition(m) \/ DeleteBatch(m)
    BY LogStays DEF Commit, RecordDetached, RecordChange, EnsurePartitions, RecordPrune
  <1> QED BY <1>3, <1>4, <1>5, <1>6, <1>7, <1>8

(* What a run is about to prune is allowed, and in a plain table ends where a window begins. *)
LEMMA PruneAllowed ==
    ASSUME AuditInv, Next, NEW m \in Maintainer, RecordPrune(m), work'[m].pc = "prune"
    PROVE  Allowed(work'[m].cutoff) /\ (mode = "plain" => Edge(work'[m].cutoff))
  <1>1. AuditTypes /\ WorkShape(work[m]) /\ At(m, "retention") /\ MayPrune(m) /\ mode # "postgres"
    BY DEF AuditInv, RunSound, RecordPrune
  <1>2. work[m] = Fields(work[m].pc, work[m].now, work[m].set, work[m].start, work[m].prev, work[m].cp,
                         work[m].written, work[m].cutoff)
    BY <1>1, Moved
  <1>3. PICK c : c = IF mode = "mysql" THEN Min({Cutoff(m), DatabaseNow - Floor * Day})
                     ELSE IF Sealed(Cutoff(m)) # {} THEN Min(Sealed(Cutoff(m))) ELSE 0
    OBVIOUS
  <1>4. ~Finish(m)
    BY <1>1, Moved DEF Idle
  <1>5. /\ work' = [work EXCEPT ![m].pc = "prune", ![m].cutoff = c]
        /\ mode = "mysql" \/ \E x \in log : x.at < c
    BY <1>3, <1>4 DEF RecordPrune
  <1>6. work'[m].cutoff = c
    <2>1. work'[m] = [[work[m] EXCEPT !.pc = "prune"] EXCEPT !.cutoff = c]
      BY <1>1, <1>5 DEF AuditTypes
    <2> QED BY <1>2, <2>1 DEF Fields
  <1>7. CASE mode = "mysql"
    <2>1. c \in Int /\ c <= Cutoff(m)
      BY <1>1, <1>3, <1>7, FlooredBelowCutoff
    <2>2. Allowed(c)
      BY <1>1, <2>1, CutoffAllowed
    <2> QED BY <1>6, <1>7, <2>2
  <1>8. CASE mode # "mysql"
    <2>1. Sealed(Cutoff(m)) # {}
      <3>1. SUFFICES ASSUME Sealed(Cutoff(m)) = {}  PROVE FALSE
        OBVIOUS
      <3>2. PICK x \in log : x.at < 0
        BY <1>3, <1>5, <1>8, <3>1
      <3>3. x.at \in Nat
        BY <1>1 DEF AuditTypes, Known
      <3> QED BY <3>2, <3>3
    <2>2. Sealed(Cutoff(m)) \subseteq Nat
      BY ChainOfDocuments DEF Sealed
    <2>3. c \in Sealed(Cutoff(m))
      BY <1>3, <1>8, <2>1, <2>2, LeastOfNumbers
    <2>4. PICK y \in chain : y.start <= Cutoff(m) /\ c = y.start
      BY <2>3 DEF Sealed
    <2>5. Edge(c)
      BY <2>4 DEF Edge
    <2>6. Allowed(c)
      <3>1. c \in Int /\ c <= Cutoff(m)
        BY <2>2, <2>3, <2>4
      <3> QED BY <1>1, <3>1, CutoffAllowed
    <2> QED BY <1>6, <2>5, <2>6
  <1> QED BY <1>7, <1>8

(* So it stays with everything that has gone. *)
LEMMA GoneAllowedStill ==
    ASSUME AuditInv, Grown, GoneAllowed, Next
    PROVE  GoneAllowed'
  <1>0. Remember /\ mode' = mode
    BY DEF Next, Grown, SameDeployment, mode
  <1>1. ASSUME NEW r \in trace'.removed
        PROVE  \E h \in Int : r.at < h /\ Edge(h)' /\ Allowed(h)'
    <2>1. r \in trace.removed \/ r \in log \ log'
      BY <1>0, Remembered
    <2>2. \E h \in Int : r.at < h /\ Edge(h) /\ Allowed(h)
      BY <2>1, GoneBelow DEF GoneAllowed
    <2> QED BY <2>2, AllowedStays
  <1>2. ASSUME NEW m \in Maintainer, work'[m].pc = "prune", NEW b, b = work'[m].cutoff
        PROVE  Allowed(b)' /\ (mode' = "plain" => Edge(b)')
    <2>1. Allowed(b) /\ (mode = "plain" => Edge(b))
      <3>1. CASE work[m].pc = "prune" /\ work'[m].cutoff = work[m].cutoff
        BY <1>2, <3>1 DEF GoneAllowed
      <3>2. CASE RecordPrune(m)
        BY <1>2, <3>2, PruneAllowed
      <3> QED BY <1>2, <3>1, <3>2, RunTurnsOrStays DEF Turned
    <2> QED BY <1>0, <2>1, AllowedStays
  <1>3. \A m \in Maintainer : work'[m].pc = "prune" =>
           Allowed(work[m].cutoff)' /\ (mode' = "plain" => Edge(work[m].cutoff)')
    <2>1. ASSUME NEW m \in Maintainer, work'[m].pc = "prune"
          PROVE  Allowed(work[m].cutoff)' /\ (mode' = "plain" => Edge(work[m].cutoff)')
      <3>1. PICK b : b = work'[m].cutoff
        OBVIOUS
      <3>2. Allowed(b)' /\ (mode' = "plain" => Edge(b)')
        BY <1>2, <2>1, <3>1
      <3> QED BY <3>1, <3>2 DEF Allowed, Edge
    <2> QED BY <2>1
  <1> QED BY <1>1, <1>3 DEF GoneAllowed

(* Under the lock a run that stores a checkpoint goes on from the last one, if there is one. *)
LEMMA BegunOnceStill ==
    ASSUME AuditInv, Grown, BegunOnce, Next
    PROVE  BegunOnce'
  <1>1. SUFFICES ASSUME ~story'.unlocked, NEW c \in chain'
                 PROVE  Follows(c.start, c.prev)' \/ \A d \in chain' : c.start <= d.start
    BY DEF BegunOnce
  <1>2. ~story.unlocked /\ chain \subseteq chain'
    BY <1>1 DEF Grown, SameDeployment
  <1>3. \A b, v : Follows(b, v) => Follows(b, v)'
    BY <1>2 DEF Follows
  <1>4. CASE chain' = chain
    BY <1>1, <1>2, <1>3, <1>4 DEF BegunOnce
  <1>5. ASSUME NEW m \in Maintainer, Stores(m)
        PROVE  Follows(c.start, c.prev)' \/ \A d \in chain' : c.start <= d.start
    <2>1. PICK a : a = work[m].cp
      OBVIOUS
    <2>2. chain' = chain \cup {a} /\ StoreCheckpoint(m)
      BY <1>5, <2>1 DEF Stores
    <2>3. DocumentSound(a) /\ a.start = work[m].start /\ a.prev = work[m].prev /\ Seals(m)
      BY <2>1, <2>2 DEF AuditInv, RunSound, StoreCheckpoint, At, Seals
    <2>4. a.start \in Nat
      BY <2>3 DEF DocumentSound, IsCheckpoint
    <2>5. /\ \A d \in chain : d.end <= a.start
          /\ chain = {} \/ Follows(a.start, a.prev)
      BY <1>2, <2>3 DEF AuditInv, Alone
    <2>6. CASE c = a
      BY <1>3, <2>2, <2>4, <2>5, <2>6
    <2>7. CASE c \in chain
      <3>1. Follows(c.start, c.prev) \/ \A d \in chain : c.start <= d.start
        BY <1>2, <2>7 DEF BegunOnce
      <3>2. c.start \in Nat /\ c.end \in Nat /\ c.start < c.end /\ c.end <= a.start
        BY <2>5, <2>7, ChainOfDocuments
      <3>3. c.start <= a.start
        BY <2>4, <3>2
      <3> QED BY <1>3, <2>2, <3>1, <3>3
    <2> QED BY <2>2, <2>6, <2>7
  <1> QED BY <1>4, <1>5, ChainGrows

(* Of some checkpoints one is the earliest. *)
LEMMA EarliestExists ==
    ASSUME AuditInv, NEW S, S \subseteq chain, S # {}
    PROVE  Earliest(S) \in S /\ \A d \in S : Earliest(S).start <= d.start
  <1> DEFINE T == {c.start : c \in S}
  <1>1. T \subseteq Nat /\ T # {}
    BY ChainOfDocuments
  <1>2. Min(T) \in T /\ \A y \in T : Min(T) <= y
    BY <1>1, LeastOfNumbers
  <1>3. \E c \in S : \A d \in S : c.start <= d.start
    BY <1>2
  <1> QED BY <1>3 DEF Earliest

(* The first checkpoint begins the chain. *)
LEMMA FirstBegins ==
    ASSUME AuditInv, NEW f \in chain, \A d \in chain : f.start <= d.start
    PROVE  f.prev = Nothing /\ NoneBelow(f.start) /\ \E r \in Known : Within(r, f)
  <1>1. DocumentSound(f) /\ f.start \in Nat
    BY ChainOfDocuments
  <1>2. ~Follows(f.start, f.prev)
    <2>1. ASSUME NEW e \in chain, e.end = f.start  PROVE FALSE
      <3>1. e.start \in Nat /\ e.end \in Nat /\ e.start < e.end /\ f.start <= e.start
        BY ChainOfDocuments
      <3> QED BY <2>1, <3>1
    <2> QED BY <2>1 DEF Follows
  <1> QED BY <1>1, <1>2 DEF DocumentSound

(* If no windows overlap every window ends before the next one begins. *)
LEMMA InOrder ==
    ASSUME AuditInv, ~Overlapping, NEW c \in chain, NEW d \in chain, c.start < d.start
    PROVE  c.end <= d.start
  <1>1. c.end \in Nat /\ d.start \in Nat
    BY ChainOfDocuments
  <1>2. ~(d.start < c.end)
    BY DEF Overlapping
  <1> QED BY <1>1, <1>2

(* A checkpoint that begins the chain though others precede it was preceded by nothing but late rows. *)
LEMMA BegunAgain ==
    ASSUME AuditInv, ~Overlapping, NEW c \in chain, NoneBelow(c.start), NEW p \in chain, p.start < c.start
    PROVE  \E r \in trace.late : r.at \in Nat /\ r.at < c.start
  <1>1. PICK f \in chain : \A d \in chain : f.start <= d.start
    BY EarliestExists
  <1>2. PICK r \in Known : Within(r, f)
    BY <1>1, FirstBegins
  <1>3. /\ f.start \in Nat /\ f.end \in Nat /\ p.start \in Nat /\ c.start \in Nat /\ f.start <= p.start
        /\ r.at \in Nat
    BY <1>1, ChainOfDocuments DEF AuditInv, AuditTypes
  <1>4. f.end <= c.start
    BY <1>3, InOrder
  <1>5. r.at < c.start
    BY <1>2, <1>3, <1>4 DEF Within
  <1> QED BY <1>2, <1>3, <1>5 DEF NoneBelow

(* One checkpoint goes on from the other if there is none between them, unless the chain was begun again. *)
LEMMA NeighboursLinked ==
    ASSUME AuditInv, BegunOnce, ~Overlapping, NEW p \in chain, NEW c \in chain, Adjacent(p, c, chain)
    PROVE  Linked(p, c)
  <1>1. /\ p.start < c.start /\ DocumentSound(c)
        /\ p.start \in Nat /\ p.end \in Nat /\ c.start \in Nat
    BY ChainOfDocuments DEF Adjacent
  <1>2. CASE Follows(c.start, c.prev)
    <2>1. PICK e \in chain : e.end = c.start /\ e.hash = c.prev
      BY <1>2 DEF Follows
    <2>2. e.start \in Nat /\ e.end \in Nat /\ e.start < e.end
      BY ChainOfDocuments
    <2>3. ~(p.start < e.start)
      BY <2>1, <2>2 DEF Adjacent
    <2>4. ~(e.start < p.start)
      <3>1. ASSUME e.start < p.start  PROVE FALSE
        <4>1. e.end <= p.start
          BY <3>1, InOrder
        <4> QED BY <1>1, <2>1, <2>2, <4>1
      <3> QED BY <3>1
    <2>5. e.start = p.start
      BY <1>1, <2>2, <2>3, <2>4
    <2>6. e = p
      BY <2>5 DEF AuditInv, SinkSound
    <2> QED BY <2>1, <2>6 DEF Linked
  <1>3. CASE ~Follows(c.start, c.prev)
    <2>1. NoneBelow(c.start)
      BY <1>1, <1>3 DEF DocumentSound
    <2>2. \E r \in trace.late : r.at \in Nat /\ r.at < c.start
      BY <1>1, <2>1, BegunAgain
    <2>3. story.unlocked
      <3>1. ASSUME ~story.unlocked  PROVE FALSE
        <4>1. c.start <= p.start
          BY <1>3, <3>1 DEF BegunOnce
        <4> QED BY <1>1, <4>1
      <3> QED BY <3>1
    <2> QED BY <2>2, <2>3 DEF Linked
  <1> QED BY <1>2, <1>3

(* A set of integers with a bound has a greatest element, and Max is it. *)
LEMMA GreatestBelow ==
    ASSUME NEW n \in Int, NEW S, S \subseteq Int, S # {}, \A x \in S : x <= n
    PROVE  Max(S) \in S /\ \A y \in S : y <= Max(S)
  <1> DEFINE T == {n - x : x \in S}
  <1>0. \A x \in S : n - x \in Nat
    OBVIOUS
  <1>1. T \subseteq Nat /\ T # {}
    BY <1>0, Zenon
  <1>2. Min(T) \in T /\ \A y \in T : Min(T) <= y
    BY <1>1, LeastOfNumbers
  <1>3. PICK x \in S : n - x = Min(T)
    BY <1>2
  <1>4. ASSUME NEW y \in S  PROVE y <= x
    <2>1. n - y \in T
      OBVIOUS
    <2>2. n - x <= n - y
      BY <1>2, <1>3, <2>1
    <2>3. x \in Int /\ y \in Int
      OBVIOUS
    <2> QED BY <2>2, <2>3
  <1>5. \E z \in S : \A y \in S : y <= z
    BY <1>4
  <1> QED BY <1>5 DEF Max

(* What a verification takes for pruned is all that a checkpoint allows. *)
LEMMA HorizonCovers ==
    ASSUME AuditInv
    PROVE  /\ PruningHorizon = Nothing \/ PruningHorizon \in Int
           /\ \A c \in Allowing : PruningHorizon # Nothing /\ PruningHorizon \in Int /\ RetentionHorizon(c) <= PruningHorizon
  <1> DEFINE S == {RetentionHorizon(c) : c \in Allowing}
  <1>1. CASE Allowing = {}
    BY <1>1 DEF PruningHorizon
  <1>2. CASE Allowing # {}
    <2>1. Nothing \notin Int /\ Day \in Nat /\ now \in Nat
      BY AuditAssumption DEF AuditInv, AuditTypes
    <2>2. ASSUME NEW c \in Allowing  PROVE RetentionHorizon(c) \in Int /\ RetentionHorizon(c) <= now
      <3>1. c.end \in Nat /\ c.end <= now /\ c.retention \in Int /\ c.retention > 0
        BY ChainOfDocuments DEF Allowing
      <3>2. c.retention * Day \in Nat
        BY <2>1, <3>1
      <3> QED BY <2>1, <3>1, <3>2 DEF RetentionHorizon
    <2>3. S \subseteq Int /\ S # {} /\ \A x \in S : x <= now
      BY <1>2, <2>2
    <2>4. PICK T : T = S
      OBVIOUS
    <2>5. T \subseteq Int /\ T # {} /\ \A x \in T : x <= now
      BY <2>3, <2>4, Zenon
    <2>6. now \in Int
      BY <2>1
    <2>7. Max(T) \in T /\ \A y \in T : y <= Max(T)
      BY <2>5, <2>6, GreatestBelow, Zenon
    <2>8. PruningHorizon = Max(T)
      BY <1>2, <2>4, Zenon DEF PruningHorizon
    <2>9. PruningHorizon \in Int /\ \A c \in Allowing : RetentionHorizon(c) <= PruningHorizon
      BY <2>4, <2>5, <2>7, <2>8
    <2> QED BY <2>1, <2>9
  <1> QED BY <1>1, <1>2

(* A window that a row has gone from is one a verification takes for pruned. *)
LEMMA GoneWithinHorizon ==
    ASSUME AuditInv, DocumentsAligned, GoneAllowed, ~Overlapping, NEW r \in trace.removed, NEW c \in chain, Within(r, c)
    PROVE  PruningHorizon # Nothing /\ c.end <= PruningHorizon
  <1>1. PICK h \in Int : r.at < h /\ Edge(h) /\ Allowed(h)
    BY DEF GoneAllowed
  <1>2. c.start \in Nat /\ c.end \in Nat /\ Aligned(c) /\ r.at \in Nat
    BY ChainAligned DEF AuditInv, AuditTypes, Known
  <1>3. c.start < h
    BY <1>1, <1>2 DEF Within
  <1>4. c.end <= h
    <2>1. CASE \E k \in Nat : h = k * Day
      BY <1>2, <1>3, <2>1 DEF Aligned
    <2>2. CASE \E y \in chain : h = y.start
      BY <1>3, <2>2, InOrder
    <2> QED BY <1>1, <2>1, <2>2 DEF Edge
  <1>5. PICK a \in Allowing : h <= RetentionHorizon(a)
    BY <1>1 DEF Allowed
  <1>6. PruningHorizon # Nothing /\ PruningHorizon \in Int /\ RetentionHorizon(a) <= PruningHorizon
    BY HorizonCovers
  <1>7. RetentionHorizon(a) \in Int
    <2>1. a \in chain /\ Day \in Nat
      BY AuditAssumption DEF Allowing
    <2> QED BY <2>1, ChainOfDocuments DEF RetentionHorizon
  <1> QED BY <1>1, <1>2, <1>4, <1>5, <1>6, <1>7

(* What a verification says of a window that is not all right. *)
Honest(b) ==
    \/ b.status = "row_mismatch" /\ \E r \in trace.late \cup trace.excused : Within(r, b)
    \/ story.unlocked /\ Overlapping
    \/ story.unlocked /\ b.status # "row_mismatch" /\ \E r \in trace.late : r.at < b.end

(* Rows are excused for good, those that go while a verification is under way, and those left of a window it finds torn. *)
LEMMA ExcusedGrows ==
    ASSUME Remember
    PROVE  /\ trace.excused \subseteq trace'.excused
           /\ verifier.pc = "windows" => log \ log' \subseteq trace'.excused
           /\ verifier.pc = "windows" /\ verifier.rest # {} /\ verifier' # verifier
                /\ (\E r \in trace.removed : Within(r, Earliest(verifier.rest)))
              => {r \in log : Within(r, Earliest(verifier.rest))} \subseteq trace'.excused
  <1>1. trace'.excused =
          trace.excused
            \cup (IF verifier.pc = "windows" /\ verifier.rest # {} /\ verifier' # verifier
                       /\ \E r \in trace.removed : Within(r, Earliest(verifier.rest))
                  THEN {r \in log : Within(r, Earliest(verifier.rest))} ELSE {})
            \cup (IF verifier.pc = "windows" THEN log \ log' ELSE {})
    BY Zenon DEF Remember
  <1> QED BY <1>1

(* What explains a report goes on explaining it. *)
LEMMA HonestStays ==
    ASSUME AuditInv, Grown, Remember, NEW b, Honest(b)
    PROVE  Honest(b)'
  <1>1. /\ trace.late \subseteq trace'.late /\ trace.excused \subseteq trace'.excused /\ chain \subseteq chain'
        /\ story.unlocked => story'.unlocked
    BY ExcusedGrows DEF Grown, SameDeployment
  <1>2. Overlapping => Overlapping'
    BY <1>1 DEF Overlapping
  <1>3. \A r : Within(r, b) => Within(r, b)'
    BY DEF Within
  <1> QED BY <1>1, <1>2, <1>3 DEF Honest

(* Windows overlap only where a run has gone on without the lock. *)
LEMMA OverlapsUnlocked ==
    ASSUME AuditInv, Overlapping
    PROVE  story.unlocked
  <1>1. PICK c \in chain, d \in chain : c.start < d.start /\ d.start < c.end
    BY DEF Overlapping
  <1>2. c.start \in Nat /\ c.end \in Nat /\ d.start \in Nat /\ d.end \in Nat /\ d.start < d.end /\ c # d
    BY <1>1, ChainOfDocuments
  <1>3. ~(c.end <= d.start) /\ ~(d.end <= c.start)
    BY <1>1, <1>2
  <1> QED BY <1>2, <1>3 DEF AuditInv, Alone

(* A step is one of the verification or leaves it, and one of the verification leaves everything else. *)
LEMMA VerifierMoves ==
    ASSUME Next
    PROVE  \/ verifier' = verifier
           \/ /\ BeginVerify \/ VerifyWindow \/ EndVerify
              /\ log' = log /\ chain' = chain /\ story' = story
  BY ZenonT(60) DEF Next, Maintain, Tick, ChangeSettings, LoseLock, Stage, Commit, RecordDetached, StartRun, ReadSettings,
         RecordChange, EnsurePartitions, ReadNewest, DigestWindow, WriteSink, StoreCheckpoint, DropPartitions,
         RecordPrune, DropOnePartition, DeleteBatch, KeepAll, StepFails, Crash, BeginVerify, VerifyWindow, EndVerify

(* Beside a verification checkpoints are added and rows go, which are excused. *)
LEMMA VerifierWaits ==
    ASSUME AuditInv, Grown, VerifierSound, Remember, verifier' = verifier
    PROVE  VerifierSound'
  <1>1. VerifierShape' /\ Snapshot' = Snapshot
    BY DEF VerifierSound, VerifierShape, Snapshot
  <1>2. SUFFICES ASSUME verifier.pc = "windows"
                 PROVE  SnapshotSound' /\ (Overlapping' \/ (LinksSound' /\ RestSound'))
    BY <1>1 DEF VerifierSound
  <1>3. /\ chain \subseteq chain' /\ trace.late \subseteq trace'.late /\ trace.excused \subseteq trace'.excused
        /\ story.unlocked => story'.unlocked
    BY ExcusedGrows DEF Grown, SameDeployment
  <1>4. SnapshotSound'
    BY <1>1, <1>2, <1>3 DEF VerifierSound, SnapshotSound
  <1>5. CASE Overlapping
    BY <1>3, <1>4, <1>5 DEF Overlapping
  <1>6. CASE ~Overlapping
    <2>1. LinksSound /\ RestSound
      BY <1>2, <1>6 DEF VerifierSound
    <2>2. LinksSound'
      BY <1>1, <1>3, <2>1 DEF LinksSound, Linked, Adjacent
    <2>3. RestSound'
      <3>1. ASSUME NEW c \in verifier.rest, NEW r \in trace'.removed, Within(r, c)
            PROVE  r \in trace'.excused \/ (verifier.horizon # Nothing /\ c.end <= verifier.horizon)
        <4>1. r \in trace.removed \/ r \in log \ log'
          BY Remembered
        <4>2. log \ log' \subseteq trace'.excused
          BY <1>2, ExcusedGrows
        <4> QED BY <1>3, <2>1, <3>1, <4>1, <4>2 DEF RestSound
      <3> QED BY <3>1 DEF RestSound, Within
    <2> QED BY <1>4, <2>2, <2>3
  <1> QED BY <1>5, <1>6

(* A verification begins with all checkpoints, and reports the rows before the first, which are late. *)
LEMMA VerifierBegins ==
    ASSUME AuditInv, Grown, HonestInv, Remember, BeginVerify
    PROVE  VerifierSound' /\ \A b \in verifier'.bad : Honest(b)
  <1>1. chain # {} /\ chain' = chain /\ log' = log /\ story' = story
    BY DEF BeginVerify
  <1>2. PICK f : f = Earliest(chain)
    OBVIOUS
  <1>3. f \in chain /\ \A d \in chain : f.start <= d.start
    BY <1>1, <1>2, EarliestExists
  <1>4. verifier' = [pc |-> "windows", rest |-> chain, prev |-> {}, horizon |-> PruningHorizon,
                     bad |-> {[start |-> 0, end |-> f.start, status |-> "row_mismatch"] : x \in Orphans(f.start)}]
    BY <1>2 DEF BeginVerify
  <1>5. /\ verifier'.pc = "windows" /\ verifier'.rest = chain /\ verifier'.prev = {} /\ verifier'.horizon = PruningHorizon
        /\ verifier'.bad = {[start |-> 0, end |-> f.start, status |-> "row_mismatch"] : x \in Orphans(f.start)}
        /\ VerifierShape'
    BY <1>4 DEF VerifierShape
  <1>6. Snapshot' = chain
    BY <1>5 DEF Snapshot
  <1>7. SnapshotSound'
    <2>1. ASSUME NEW c \in chain, \A d \in chain : c.start <= d.start  PROVE c.prev = Nothing
      BY <2>1, FirstBegins
    <2>2. PruningHorizon = Nothing \/ PruningHorizon \in Int
      BY HorizonCovers
    <2> QED BY <1>1, <1>5, <1>6, <2>1, <2>2 DEF SnapshotSound
  <1>8. ASSUME ~Overlapping  PROVE LinksSound' /\ RestSound'
    <2>1. trace.late \subseteq trace'.late /\ trace'.removed = trace.removed
      BY <1>1, Remembered
    <2>2. ASSUME NEW p \in chain, NEW c \in chain, Adjacent(p, c, chain)  PROVE Linked(p, c)'
      <3>1. Linked(p, c)
        BY <1>8, <2>2, NeighboursLinked DEF HonestInv
      <3> QED BY <1>1, <2>1, <3>1 DEF Linked
    <2>3. ASSUME NEW c \in chain, NEW r \in trace.removed, Within(r, c)
          PROVE  PruningHorizon # Nothing /\ c.end <= PruningHorizon
      BY <1>8, <2>3, GoneWithinHorizon DEF HonestInv
    <2>4. LinksSound'
      BY <1>6, <2>2 DEF LinksSound, Adjacent
    <2>5. RestSound'
      BY <1>5, <2>1, <2>3 DEF RestSound, Within
    <2> QED BY <2>4, <2>5
  <1>9. Overlapping => Overlapping'
    BY <1>1 DEF Overlapping
  <1>10. ASSUME NEW b \in verifier'.bad  PROVE Honest(b)
    <2>1. PICK r \in Orphans(f.start) : b = [start |-> 0, end |-> f.start, status |-> "row_mismatch"]
      BY <1>5
    <2>2. r \in log /\ r.at < f.start /\ r \in Known /\ r.at \in Nat
      BY <2>1 DEF Orphans, Known, AuditInv, AuditTypes
    <2>3. r \in trace.late
      BY <1>3, <2>2, FirstBegins DEF NoneBelow
    <2>4. b.status = "row_mismatch" /\ Within(r, b)
      BY <2>1, <2>2 DEF Within
    <2> QED BY <2>3, <2>4 DEF Honest
  <1> QED BY <1>5, <1>7, <1>8, <1>9, <1>10 DEF VerifierSound

(* A window that is reported although its rows are neither late nor excused would have been pruned. *)
LEMMA MismatchExplained ==
    ASSUME AuditInv, Remember, NEW c, c \in verifier.rest, c \in chain, c = Earliest(verifier.rest), RestSound,
           verifier.pc = "windows", verifier' # verifier, log' = log,
           Digest(c.start, c.end, c.prev) # c.hash, ~Pruned(c, Digest(c.start, c.end, c.prev), verifier.horizon)
    PROVE  \E r \in trace'.late \cup trace'.excused : Within(r, c)
  <1>1. DocumentSound(c) /\ c.hash = [rows |-> c.hash.rows, prev |-> c.prev]
    BY ChainOfDocuments DEF DocumentSound, IsCheckpoint
  <1>2. PICK R : R = {r \in log : c.start <= r.at /\ r.at < c.end}
    OBVIOUS
  <1>3. Digest(c.start, c.end, c.prev) = [rows |-> R, prev |-> c.prev]
    BY <1>2 DEF Digest
  <1>4. \A r : r \in R <=> r \in log /\ Within(r, c)
    BY <1>2 DEF Within
  <1>5. R # c.hash.rows
    BY <1>1, <1>3
  <1>6. trace.late \subseteq trace'.late /\ trace.excused \subseteq trace'.excused
    BY Remembered, ExcusedGrows
  <1>7. CASE \E r \in R : r \notin c.hash.rows
    <2>1. PICK r \in R : r \notin c.hash.rows
      BY <1>7
    <2>2. r \in trace.late /\ Within(r, c)
      BY <1>1, <1>4, <2>1 DEF DocumentSound
    <2> QED BY <1>6, <2>2
  <1>8. CASE \E r \in c.hash.rows : r \notin R
    <2>1. PICK r \in c.hash.rows : r \notin R
      BY <1>8
    <2>2. r \in trace.removed /\ Within(r, c)
      BY <1>1, <1>4, <2>1 DEF DocumentSound, Known
    <2>3. CASE R # {}
      <3>1. PICK x \in R : TRUE
        BY <2>3
      <3>2. x \in {y \in log : Within(y, Earliest(verifier.rest))}
        BY <1>4, <3>1
      <3>3. x \in trace'.excused
        BY <2>2, <3>2, ExcusedGrows
      <3> QED BY <1>4, <3>1, <3>3
    <2>4. CASE R = {}
      <3>1. c.hash.rows # {}
        BY <2>1
      <3>2. ~(verifier.horizon # Nothing /\ c.end <= verifier.horizon)
        BY <1>3, <2>4, <3>1 DEF Pruned
      <3>3. r \in trace.excused
        BY <2>2, <3>2 DEF RestSound
      <3> QED BY <1>6, <2>2, <3>3
    <2> QED BY <2>3, <2>4
  <1> QED BY <1>5, <1>7, <1>8

(* The windows that are left stay as they were, and what the verification reports of the next one is explained. *)
LEMMA VerifierGoesOn ==
    ASSUME AuditInv, Grown, HonestInv, Remember, VerifyWindow
    PROVE  VerifierSound' /\ \A b \in verifier'.bad : b \in verifier.bad \/ Honest(b)'
  <1>1. /\ verifier.pc = "windows" /\ verifier.rest # {} /\ chain' = chain /\ log' = log /\ story' = story
    BY DEF VerifyWindow
  <1>2. PICK c : c = Earliest(verifier.rest)
    OBVIOUS
  <1>3. VerifierShape /\ SnapshotSound /\ (Overlapping \/ (LinksSound /\ RestSound)) /\ BegunOnce
    BY <1>1 DEF HonestInv, VerifierSound
  <1>4. verifier.rest \subseteq chain
    BY <1>3 DEF SnapshotSound, Snapshot
  <1>5. c \in verifier.rest /\ c \in chain /\ \A d \in verifier.rest : c.start <= d.start
    BY <1>1, <1>2, <1>4, EarliestExists
  <1>6. PICK gap : gap = {[start |-> p.end, end |-> c.start, status |-> "missing_window"] :
                           p \in {q \in verifier.prev : q.end # c.start}}
    OBVIOUS
  <1>6a. PICK found : found = [start |-> c.start, end |-> c.end, status |-> Status(c, verifier.prev, verifier.horizon)]
    OBVIOUS
  <1>6b. verifier' = [verifier EXCEPT !.rest = @ \ {c}, !.prev = {c},
                                      !.bad = @ \cup gap \cup {x \in {found} : x.status # "ok"}]
    BY <1>2, <1>6, <1>6a, Zenon DEF VerifyWindow
  <1>7. /\ verifier'.pc = "windows" /\ verifier'.rest = verifier.rest \ {c} /\ verifier'.prev = {c}
        /\ verifier'.horizon = verifier.horizon
        /\ verifier'.bad = verifier.bad \cup gap \cup {x \in {found} : x.status # "ok"}
        /\ VerifierShape'
    BY <1>1, <1>3, <1>6b DEF VerifierShape
  <1>8. /\ trace.late \subseteq trace'.late /\ trace.excused \subseteq trace'.excused /\ trace'.removed = trace.removed
        /\ verifier' # verifier
    <2>1. verifier'.rest # verifier.rest
      BY <1>5, <1>7
    <2> QED BY <1>1, <2>1, Remembered, ExcusedGrows
  <1>9. Snapshot' = verifier.rest /\ verifier.rest \subseteq Snapshot
    BY <1>5, <1>7 DEF Snapshot
  <1>10. SnapshotSound'
    <2>1. ASSUME NEW d \in verifier.rest \ {c}  PROVE c.start < d.start
      <3>1. c.start \in Nat /\ d.start \in Nat /\ c.start <= d.start /\ d \in chain
        BY <1>4, <1>5, ChainOfDocuments
      <3>2. c.start # d.start
        BY <1>5, <2>1, <3>1 DEF AuditInv, SinkSound
      <3> QED BY <3>1, <3>2
    <2> QED BY <1>1, <1>3, <1>4, <1>5, <1>7, <1>9, <2>1 DEF SnapshotSound
  <1>11. Overlapping => Overlapping'
    BY <1>1 DEF Overlapping
  <1>12. ASSUME LinksSound, RestSound  PROVE LinksSound' /\ RestSound'
    <2>1. ASSUME NEW p \in verifier.rest, NEW d \in verifier.rest, Adjacent(p, d, verifier.rest)
          PROVE  Linked(p, d)
      <3>1. ASSUME NEW e \in verifier.prev, p.start < e.start, e.start < d.start  PROVE FALSE
        <4>1. PICK q \in chain : verifier.prev = {q} /\ \A x \in verifier.rest : q.start < x.start
          BY <1>3, <3>1 DEF SnapshotSound
        <4>2. e.start \in Nat /\ p.start \in Nat /\ e.start < p.start
          BY <1>4, <3>1, <4>1, ChainOfDocuments
        <4> QED BY <3>1, <4>2
      <3>2. Adjacent(p, d, Snapshot)
        BY <2>1, <3>1 DEF Adjacent, Snapshot
      <3> QED BY <1>9, <1>12, <3>2 DEF LinksSound
    <2>2. LinksSound'
      BY <1>1, <1>8, <1>9, <2>1 DEF LinksSound, Linked, Adjacent
    <2>3. RestSound'
      BY <1>7, <1>8, <1>12 DEF RestSound, Within
    <2> QED BY <2>2, <2>3
  <1>13. VerifierSound'
    BY <1>3, <1>7, <1>10, <1>11, <1>12 DEF VerifierSound
  <1>14. CASE Overlapping
    <2>1. \A b : Honest(b)'
      BY <1>1, <1>11, <1>14, OverlapsUnlocked DEF Honest
    <2> QED BY <1>13, <2>1
  <1>15. CASE ~Overlapping
    <2>0. LinksSound /\ RestSound
      BY <1>3, <1>15
    <2>1. ASSUME NEW p \in verifier.prev  PROVE Linked(p, c)
      <3>1. PICK q \in chain : verifier.prev = {q} /\ \A x \in verifier.rest : q.start < x.start
        BY <1>3, <2>1 DEF SnapshotSound
      <3>2. p = q /\ p.start < c.start /\ p.start \in Nat /\ c.start \in Nat
        BY <1>5, <2>1, <3>1, ChainOfDocuments
      <3>3. ASSUME NEW e \in Snapshot, p.start < e.start, e.start < c.start  PROVE FALSE
        <4>1. CASE e \in verifier.prev
          <5>1. e = p
            BY <3>1, <3>2, <4>1
          <5> QED BY <3>2, <3>3, <5>1
        <4>2. CASE e \in verifier.rest
          <5>1. e.start \in Nat /\ c.start <= e.start
            BY <1>4, <1>5, <4>2, ChainOfDocuments
          <5> QED BY <3>2, <3>3, <5>1
        <4> QED BY <3>3, <4>1, <4>2 DEF Snapshot
      <3>4. Adjacent(p, c, Snapshot)
        BY <3>2, <3>3 DEF Adjacent
      <3>5. p \in Snapshot /\ c \in Snapshot
        BY <1>5, <2>1 DEF Snapshot
      <3> QED BY <2>0, <3>4, <3>5 DEF LinksSound
    <2>2. ASSUME NEW b \in gap  PROVE Honest(b)'
      <3>1. PICK p \in verifier.prev : /\ p.end # c.start
                                       /\ b = [start |-> p.end, end |-> c.start, status |-> "missing_window"]
        BY <1>6, <2>2
      <3>2. b.status # "row_mismatch" /\ b.end = c.start
        BY <3>1
      <3>3. story.unlocked /\ \E r \in trace.late : r.at < c.start
        BY <2>1, <3>1 DEF Linked
      <3> QED BY <1>1, <1>8, <3>2, <3>3 DEF Honest
    <2>3. ASSUME found.status # "ok"  PROVE Honest(found)'
      <3>0. found.start = c.start /\ found.end = c.end /\ found.status = Status(c, verifier.prev, verifier.horizon)
        BY <1>6a
      <3>1. PICK d : d = Digest(c.start, c.end, c.prev)
        OBVIOUS
      <3>2. CASE d # c.hash /\ ~Pruned(c, d, verifier.horizon)
        <4>1. PICK r \in trace'.late \cup trace'.excused : Within(r, c)
          BY <1>1, <1>2, <1>5, <1>8, <2>0, <3>1, <3>2, MismatchExplained
        <4>2. Within(r, found)
          BY <3>0, <4>1 DEF Within
        <4>3. found.status = "row_mismatch"
          BY <3>0, <3>1, <3>2 DEF Status
        <4> QED BY <4>2, <4>3 DEF Honest, Within
      <3>3. CASE ~(d # c.hash /\ ~Pruned(c, d, verifier.horizon))
        <4>1. /\ found.status = "broken_chain"
              /\ c.prev \notin (IF verifier.prev = {} THEN {Nothing} ELSE {p.hash : p \in verifier.prev})
          BY <2>3, <3>0, <3>1, <3>3 DEF Status
        <4>2. verifier.prev # {}
          <5>1. ASSUME verifier.prev = {}  PROVE FALSE
            <6>1. c.prev = Nothing
              BY <1>3, <1>5, <5>1 DEF SnapshotSound
            <6> QED BY <4>1, <5>1, <6>1
          <5> QED BY <5>1
        <4>3. PICK p \in verifier.prev : c.prev # p.hash
          BY <4>1, <4>2
        <4>4. story.unlocked /\ \E r \in trace.late : r.at \in Nat /\ r.at < c.start
          BY <2>1, <4>3 DEF Linked
        <4>5. c.start \in Nat /\ c.end \in Nat /\ c.start < c.end
          BY <1>5, ChainOfDocuments
        <4>6. \E r \in trace.late : r.at < c.end
          <5>1. PICK r \in trace.late : r.at \in Nat /\ r.at < c.start
            BY <4>4
          <5> QED BY <4>5, <5>1
        <4>7. found.end = c.end /\ found.status # "row_mismatch"
          BY <3>0, <4>1
        <4> QED BY <1>1, <1>8, <4>4, <4>6, <4>7 DEF Honest
      <3> QED BY <3>2, <3>3
    <2> QED BY <1>7, <1>13, <2>2, <2>3
  <1> QED BY <1>14, <1>15

(* After the last checkpoint of a verification the next one there is goes on where it ends, or begins the chain again. *)
LEMMA VerifierEnds ==
    ASSUME AuditInv, Grown, HonestInv, Remember, EndVerify
    PROVE  VerifierSound' /\ \A b \in verifier'.bad : b \in verifier.bad \/ Honest(b)'
  <1>1. verifier.pc = "windows" /\ verifier.rest = {} /\ chain' = chain /\ log' = log /\ story' = story
    BY DEF EndVerify
  <1>2. VerifierShape /\ SnapshotSound /\ BegunOnce
    BY <1>1 DEF HonestInv, VerifierSound
  <1>3. PICK p \in chain : verifier.prev = {p}
    BY <1>1, <1>2 DEF SnapshotSound
  <1>4. p = CHOOSE q \in verifier.prev : TRUE
    BY <1>3
  <1>5. PICK F : F = {c.start : c \in {d \in chain : d.start >= p.end}}
    OBVIOUS
  <1>6. PICK gap : gap = IF F = {} \/ p.end \in F THEN {}
                         ELSE {[start |-> p.end, end |-> Min(F), status |-> "missing_window"]}
    OBVIOUS
  <1>7. verifier' = [verifier EXCEPT !.pc = "done", !.bad = @ \cup gap]
    BY <1>4, <1>5, <1>6, Zenon DEF EndVerify
  <1>8. verifier'.pc = "done" /\ verifier'.bad = verifier.bad \cup gap /\ VerifierShape'
    BY <1>2, <1>7 DEF VerifierShape
  <1>9. ASSUME NEW b \in gap  PROVE Honest(b)'
    <2>1. F # {} /\ p.end \notin F /\ b.end = Min(F) /\ b.status # "row_mismatch"
      BY <1>6, <1>9
    <2>2. CASE Overlapping
      <3>1. Overlapping' /\ story'.unlocked
        BY <1>1, <2>2, OverlapsUnlocked DEF Overlapping
      <3> QED BY <3>1 DEF Honest
    <2>3. CASE ~Overlapping
      <3>1. p.start \in Nat /\ p.end \in Nat /\ p.start < p.end
        BY ChainOfDocuments
      <3>2. F \subseteq Nat
        BY <1>5, ChainOfDocuments
      <3>3. Min(F) \in F /\ \A y \in F : Min(F) <= y
        BY <2>1, <3>2, LeastOfNumbers
      <3>4. PICK d \in chain : d.start = Min(F) /\ d.start >= p.end
        BY <1>5, <3>3
      <3>5. d.start \in Nat
        BY ChainOfDocuments
      <3>6. ASSUME NEW e \in chain, p.start < e.start, e.start < d.start  PROVE FALSE
        <4>1. e.start \in Nat /\ p.end <= e.start
          BY <3>6, <2>3, InOrder, ChainOfDocuments
        <4>2. e.start \in F
          BY <1>5, <3>1, <4>1
        <4>3. d.start <= e.start
          BY <3>3, <3>4, <4>2
        <4> QED BY <3>5, <3>6, <4>1, <4>3
      <3>7. Adjacent(p, d, chain)
        BY <3>1, <3>4, <3>5, <3>6 DEF Adjacent
      <3>8. Linked(p, d)
        BY <1>2, <2>3, <3>7, NeighboursLinked
      <3>9. story.unlocked /\ \E r \in trace.late : r.at < b.end
        BY <2>1, <3>3, <3>4, <3>8 DEF Linked
      <3>10. trace.late \subseteq trace'.late
        BY Remembered
      <3> QED BY <1>1, <2>1, <3>9, <3>10 DEF Honest
    <2> QED BY <2>2, <2>3
  <1> QED BY <1>8, <1>9 DEF VerifierSound

(* What a verification has found is explained. *)
LEMMA ReportsHonest ==
    ASSUME HonestLogVerifies
    PROVE  \A b \in verifier.bad : Honest(b)
  BY DEF HonestLogVerifies, Honest

(* There is nothing to verify when the log is installed. *)
LEMMA HonestStart ==
    ASSUME Init
    PROVE  HonestInv
  <1>1. /\ story \in Stories /\ chain = {} /\ sink = {} /\ work = [m \in Maintainer |-> Idle] /\ trace.removed = {}
        /\ verifier = [pc |-> "idle", rest |-> {}, prev |-> {}, horizon |-> Nothing, bad |-> {}]
    BY DEF Init
  <1>2. \A m \in Maintainer : work[m].set = Nothing /\ work[m].pc = "idle"
    BY <1>1 DEF Idle
  <1>3. SettingsDivide
    BY <1>1, <1>2, AuditAssumption DEF SettingsDivide
  <1>4. DocumentsAligned /\ GoneAllowed /\ BegunOnce
    BY <1>1, <1>2 DEF DocumentsAligned, GoneAllowed, BegunOnce
  <1>5. VerifierSound /\ HonestLogVerifies
    BY <1>1 DEF VerifierSound, VerifierShape, HonestLogVerifies
  <1> QED BY <1>3, <1>4, <1>5 DEF HonestInv

(* A step of the verification reports nothing that is not explained, and the others take no explanation away. *)
LEMMA HonestStep ==
    ASSUME AuditInv, HonestInv, [Next]_vars
    PROVE  HonestInv'
  <1>1. CASE Next
    <2>1. Grown /\ Remember
      BY <1>1, Growth DEF Next
    <2>2. SettingsDivide' /\ DocumentsAligned' /\ GoneAllowed' /\ BegunOnce'
      BY <1>1, <2>1, SettingsDivideStill, DocumentsAlignedStill, GoneAllowedStill, BegunOnceStill DEF HonestInv
    <2>3. \A b \in verifier.bad : Honest(b)'
      BY <2>1, HonestStays, ReportsHonest DEF HonestInv
    <2>4. VerifierSound' /\ \A b \in verifier'.bad : b \in verifier.bad \/ Honest(b)'
      <3>1. CASE verifier' = verifier
        BY <2>1, <3>1, VerifierWaits DEF HonestInv
      <3>2. CASE BeginVerify
        <4>1. VerifierSound' /\ \A b \in verifier'.bad : Honest(b)
          BY <2>1, <3>2, VerifierBegins
        <4> QED BY <2>1, <4>1, HonestStays
      <3>3. CASE VerifyWindow
        BY <2>1, <3>3, VerifierGoesOn
      <3>4. CASE EndVerify
        BY <2>1, <3>4, VerifierEnds
      <3> QED BY <1>1, <3>1, <3>2, <3>3, <3>4, VerifierMoves
    <2>5. HonestLogVerifies'
      BY <2>3, <2>4 DEF HonestLogVerifies, Honest
    <2> QED BY <2>2, <2>4, <2>5 DEF HonestInv
  <1>2. CASE UNCHANGED vars
    <2>1. /\ story' = story /\ log' = log /\ chain' = chain /\ sink' = sink /\ work' = work /\ trace' = trace
          /\ verifier' = verifier
      BY <1>2 DEF vars
    <2>2. SettingsDivide' /\ DocumentsAligned' /\ BegunOnce'
      BY <2>1 DEF HonestInv, SettingsDivide, DocumentsAligned, Aligned, BegunOnce, Follows
    <2>3. \A h : (Edge(h)' <=> Edge(h)) /\ (Allowed(h)' <=> Allowed(h))
      BY <2>1 DEF Edge, Allowed, Allowing, RetentionHorizon
    <2>4. GoneAllowed'
      BY <2>1, <2>3 DEF HonestInv, GoneAllowed, mode
    <2>5. VerifierSound'
      <3>1. SnapshotSound => SnapshotSound'
        BY <2>1 DEF SnapshotSound, Snapshot
      <3>2. LinksSound => LinksSound'
        BY <2>1 DEF LinksSound, Snapshot, Linked, Adjacent
      <3>3. RestSound => RestSound'
        BY <2>1 DEF RestSound, Within
      <3> QED BY <2>1, <3>1, <3>2, <3>3 DEF HonestInv, VerifierSound, VerifierShape, Overlapping
    <2>6. HonestLogVerifies'
      BY <2>1 DEF HonestInv, HonestLogVerifies, Overlapping, Within
    <2> QED BY <2>2, <2>4, <2>5, <2>6 DEF HonestInv
  <1> QED BY <1>1, <1>2

(* verify_checkpoints: whatever fails, dies or runs without the lock, and however the settings change, a verification of a  *)
(* log nobody has tampered with reports only windows that a late row, an interrupted prune or one that ran meanwhile, or    *)
(* two runs that both began the chain, explain.                                                                             *)
THEOREM HonestLogsVerify == Spec => []HonestLogVerifies
  <1>1. Init => AuditInv /\ HonestInv
    BY AuditStart, HonestStart
  <1>2. AuditInv /\ HonestInv /\ [Next]_vars => (AuditInv /\ HonestInv)'
    BY AuditStep, HonestStep
  <1>3. AuditInv /\ HonestInv => HonestLogVerifies
    BY DEF HonestInv
  <1> QED BY <1>1, <1>2, <1>3, PTL DEF Spec
=============================================================================
