------------------------- MODULE EventStreamProofs -------------------------
(***************************************************************************)
(* Proofs about the event bus: an entry is handled once at most and, once   *)
(* read, not forgotten; the event log says what happened; a process has one *)
(* consumer.                                                               *)
(*                                                                         *)
(* The argument for the entries: they are numbered without a gap, so that   *)
(* what has been delivered is what lies at or below the last delivered      *)
(* number or below the oldest entry kept (Behind).  A trim, a poll and a    *)
(* flush only raise that mark, although a flush forgets the number.  What   *)
(* the threads carry lies behind it, no entry is carried twice, and an      *)
(* entry is handled by the thread that carries it, at the head of its       *)
(* batch.                                                                  *)
(***************************************************************************)
EXTENDS EventStream, SequenceTheorems, TLAPS

Event == UNION {{o[i] : i \in 1..Len(o)} : o \in Outbound}

Place == {"polling", "recording", "handling", "completed", "failed", "acking", "ended", "crashed"}

StreamEntry == [number : Nat, event : Event]

StreamState == [entries : Seq(StreamEntry), group : BOOLEAN, last : Nat, next : Nat \ {0}, lost : SUBSET Nat]

ThreadState == [at : Place, batch : Seq(StreamEntry), missing : BOOLEAN]

Types == {e.type : e \in Event}

Status == {"published", "queued", "processing", "completed", "failed"}

LogRow == [type : Types, status : Status]

Log == [AllIds -> LogRow \cup {Nothing}]

(* What the constants are: Nothing is no row and no thread. *)
Bounds ==
    /\ MaxLen \in Nat /\ ReadBatch \in Nat /\ MaxStarts \in Nat
    /\ \A o \in Outbound : o \in Seq(Event)
    /\ Nothing \notin LogRow /\ Nothing \notin Nat

TypeOK ==
    /\ outbound \in Seq(Event)
    /\ sending \in Event \cup {Nothing}
    /\ sending # Nothing => outbound # <<>>
    /\ stream \in StreamState
    /\ pending \subseteq Nat
    /\ consumer \in [Process -> Thread \cup {Nothing}]
    /\ signalled \subseteq Thread
    /\ watches \in [Thread -> Thread \cup {Nothing}]
    /\ thread \in [Thread -> ThreadState]
    /\ rows \in Log
    /\ handled \in Seq(Nat)

(* The entries kept are the last ones numbered. *)
Base == stream.next - 1 - Len(stream.entries)

Numbered ==
    /\ Len(handled) = stream.next - 1
    /\ Len(stream.entries) < stream.next
    /\ \A i \in 1..Len(stream.entries) : stream.entries[i].number = Base + i
    /\ stream.last < stream.next
    /\ ~stream.group => stream.last = 0

(* A number that has been delivered, or whose entry was trimmed or flushed. *)
Behind(n) == n \in 1..(stream.next - 1) /\ (n <= stream.last \/ n <= Base)

Carried(t, i) == thread[t].batch[i].number

Position(t) == 1..Len(thread[t].batch)

(* What a thread is in the middle of: its batch, and the entry at the head of it. *)
Dispatching ==
    \A t \in Thread :
        /\ thread[t].at \in {"polling", "ended"} => thread[t].batch = <<>>
        /\ thread[t].at \in {"recording", "handling", "completed", "failed", "acking"} => thread[t].batch # <<>>
        /\ watches[t] = Nothing => thread[t] = Ended

CarriedBehind == \A t \in Thread : \A i \in Position(t) : Behind(Carried(t, i))

CarriedOnce ==
    \A t, u \in Thread : \A i \in Position(t), j \in Position(u) : Carried(t, i) = Carried(u, j) => t = u /\ i = j

(* Handled so far: nothing ahead of the mark, and of a batch nothing but its head. *)
HandledBehind == \A n \in 1..Len(handled) : handled[n] <= 1 /\ (handled[n] # 0 => Behind(n))

HandledInTurn ==
    \A t \in Thread : \A i \in Position(t) :
        /\ (thread[t].at # "crashed" /\ i > 1) => handled[Carried(t, i)] = 0
        /\ thread[t].at \in {"recording", "handling"} => handled[Carried(t, i)] = 0
        /\ (thread[t].at \in {"completed", "failed", "acking"} /\ i = 1) => handled[Carried(t, i)] = 1

PendingBehind == \A n \in pending : Behind(n)

(* Every thread watches a stop event of its own, made when it was started. *)
Watching ==
    /\ \A t \in Thread : watches[t] \in {Nothing, t}
    /\ \A p \in Process : consumer[p] # Nothing => watches[consumer[p]] = consumer[p]

(* What the threads carry and have handled. *)
Delivered ==
    Dispatching /\ CarriedBehind /\ CarriedOnce /\ HandledBehind /\ HandledInTurn /\ PendingBehind /\ ReadIsHandled

DeliveryInv == TypeOK /\ Numbered /\ Watching /\ Delivered

(***************************************************************************)
(* The operators                                                           *)
(***************************************************************************)
(* The fields of a stream. *)
LEMMA StreamFields ==
    ASSUME NEW s \in StreamState
    PROVE  /\ s.entries \in Seq(StreamEntry) /\ s.group \in BOOLEAN /\ s.last \in Nat
           /\ s.next \in Nat /\ s.next > 0 /\ s.lost \subseteq Nat
  BY DEF StreamState

(* The fields of a thread. *)
LEMMA ThreadFields ==
    ASSUME NEW r \in ThreadState
    PROVE  r.at \in Place /\ r.batch \in Seq(StreamEntry) /\ r.missing \in BOOLEAN
  BY DEF ThreadState

(* What is published has an id of the log and a type. *)
LEMMA EventFields ==
    ASSUME NEW e \in Event, Bounds
    PROVE  e.id \in AllIds /\ e.type \in Types
  <1>1. PICK o \in Outbound : e \in {o[i] : i \in 1..Len(o)}
    BY DEF Event
  <1>2. e.id \in Ids(o)
    BY <1>1 DEF Ids
  <1> QED BY <1>2 DEF AllIds, Types

(* A poll answers a run of consecutive entries, all after the last delivered one. *)
LEMMA BatchFacts ==
    ASSUME Bounds, NEW s \in StreamState, NEW b \in Nat,
           \A i \in 1..Len(s.entries) : s.entries[i].number = b + i,
           s.last <= b + Len(s.entries)
    PROVE  /\ Batch(s) \in Seq(StreamEntry)
           /\ \E c \in Nat :
                /\ c >= s.last /\ c >= b /\ c + Len(Batch(s)) <= b + Len(s.entries)
                /\ \A i \in 1..Len(Batch(s)) : Batch(s)[i].number = c + i
  <1> DEFINE L == Len(s.entries)
             First(i) == \A j \in 1..L : s.entries[j].number > s.last <=> j >= i
             f == FirstUnread(s)
             u == Unread(s)
  <1>1. s.entries \in Seq(StreamEntry) /\ s.last \in Nat /\ L \in Nat
    BY StreamFields, LenProperties
  <1>2. \E i \in 1..(L + 1) : First(i)
    <2>1. CASE s.last <= b
      <3>1. First(1)
        BY <1>1, <2>1
      <3> QED BY <1>1, <3>1
    <2>2. CASE s.last > b
      <3>1. s.last - b + 1 \in 1..(L + 1)
        BY <1>1, <2>2
      <3>2. First(s.last - b + 1)
        BY <1>1, <2>2
      <3> QED BY <3>1, <3>2
    <2> QED BY <1>1, <2>1, <2>2
  <1>3. f \in 1..(L + 1) /\ First(f)
    BY <1>2 DEF FirstUnread
  <1> HIDE DEF First, f
  <1>4. \A i \in f..L : s.entries[i] \in StreamEntry
    BY <1>1, <1>3, ElementOfSeq
  <1>5. /\ u \in Seq(StreamEntry)
        /\ Len(u) = L - f + 1
        /\ \A i \in 1..(L - f + 1) : u[i] = s.entries[f + i - 1]
    <2>1. f \in Int /\ L \in Int
      BY <1>1, <1>3
    <2>2. /\ SubSeq(s.entries, f, L) \in Seq(StreamEntry)
          /\ Len(SubSeq(s.entries, f, L)) = IF f <= L THEN L - f + 1 ELSE 0
          /\ \A i \in 1..(L - f + 1) : SubSeq(s.entries, f, L)[i] = s.entries[f + i - 1]
      BY <1>4, <2>1, SubSeqProperties
    <2>3. (IF f <= L THEN L - f + 1 ELSE 0) = L - f + 1
      BY <1>1, <1>3
    <2>4. u = SubSeq(s.entries, f, L)
      BY DEF Unread, f
    <2> QED BY <2>2, <2>3, <2>4
  <1> DEFINE c == b + f - 1
  <1>6. c \in Nat /\ c >= b /\ c >= s.last
    <2>1. CASE f = L + 1
      BY <1>1, <1>3, <2>1
    <2>2. CASE f <= L
      <3>1. s.entries[f].number > s.last /\ s.entries[f].number = b + f
        BY <1>1, <1>3, <2>2 DEF First
      <3> QED BY <1>1, <1>3, <3>1
    <2> QED BY <1>1, <1>3, <2>1, <2>2
  <1>7. \A i \in 1..Len(u) : u[i].number = c + i
    <2> TAKE i \in 1..Len(u)
    <2>1. i \in Nat /\ i >= 1 /\ i <= L - f + 1
      BY <1>5, <1>1, <1>3
    <2>2. u[i] = s.entries[f + i - 1] /\ f + i - 1 \in 1..L
      BY <1>5, <1>1, <1>3, <2>1
    <2>3. s.entries[f + i - 1].number = b + (f + i - 1)
      BY <2>2
    <2> QED BY <2>2, <2>3, <2>1, <1>1, <1>3
  <1>8. CASE Len(u) > ReadBatch
    <2>1. \A i \in 1..ReadBatch : u[i] \in StreamEntry
      BY <1>5, <1>8, <1>1, <1>3, ElementOfSeq DEF Bounds
    <2>2. /\ SubSeq(u, 1, ReadBatch) \in Seq(StreamEntry)
          /\ Len(SubSeq(u, 1, ReadBatch)) = IF 1 <= ReadBatch THEN ReadBatch - 1 + 1 ELSE 0
          /\ \A i \in 1..(ReadBatch - 1 + 1) : SubSeq(u, 1, ReadBatch)[i] = u[1 + i - 1]
      <3>1. 1 \in Int /\ ReadBatch \in Int
        BY DEF Bounds
      <3> HIDE DEF u
      <3> QED BY <2>1, <3>1, SubSeqProperties
    <2>3. Batch(s) = SubSeq(u, 1, ReadBatch)
      BY <1>8 DEF Batch
    <2>4. Len(Batch(s)) = ReadBatch
      BY <2>2, <2>3 DEF Bounds
    <2>5. \A i \in 1..Len(Batch(s)) : Batch(s)[i].number = c + i
      <3> TAKE i \in 1..Len(Batch(s))
      <3>1. i \in 1..ReadBatch /\ i \in 1..Len(u) /\ 1 + i - 1 = i /\ i \in 1..(ReadBatch - 1 + 1)
        BY <2>4, <1>8, <1>5, <1>1, <1>3 DEF Bounds
      <3> HIDE DEF u, c
      <3>2. Batch(s)[i] = u[i]
        BY <2>2, <2>3, <3>1
      <3> QED BY <3>1, <3>2, <1>7
    <2>6. c + Len(Batch(s)) <= b + L
      BY <2>4, <1>8, <1>5, <1>1, <1>3 DEF Bounds
    <2> HIDE DEF c, u
    <2> QED BY <1>6, <2>2, <2>3, <2>5, <2>6
  <1>9. CASE ~(Len(u) > ReadBatch)
    <2>1. Batch(s) = u
      BY <1>9 DEF Batch
    <2>2. c + Len(u) <= b + L
      <3>1. Len(u) = L - f + 1
        BY <1>5
      <3> HIDE DEF u, L
      <3> QED BY <3>1, <1>1, <1>3
    <2> HIDE DEF c, u
    <2> QED BY <1>6, <1>7, <1>5, <2>1, <2>2
  <1> QED BY <1>8, <1>9

(* Making sure of the group moves nothing, when a stream without one stands at its beginning. *)
LEMMA EnsureGroupFacts ==
    ASSUME NEW s \in StreamState, ~s.group => s.last = 0
    PROVE  /\ EnsureGroup(s) \in StreamState
           /\ EnsureGroup(s).entries = s.entries /\ EnsureGroup(s).last = s.last
           /\ EnsureGroup(s).next = s.next /\ EnsureGroup(s).lost = s.lost
           /\ EnsureGroup(s).group
  BY DEF EnsureGroup, StreamState

(* The cap keeps the newest entries. *)
LEMMA TrimmedFacts ==
    ASSUME Bounds, NEW entries \in Seq(StreamEntry)
    PROVE  /\ Trimmed(entries) \in Seq(StreamEntry)
           /\ Len(Trimmed(entries)) <= Len(entries)
           /\ \A i \in 1..Len(Trimmed(entries)) : Trimmed(entries)[i] = entries[Len(entries) - Len(Trimmed(entries)) + i]
  <1> DEFINE L == Len(entries)
             m == L - MaxLen + 1
  <1>1. L \in Nat /\ MaxLen \in Nat
    BY LenProperties DEF Bounds
  <1>2. CASE L > MaxLen
    <2>1. \A i \in m..L : entries[i] \in StreamEntry
      BY <1>1, <1>2, ElementOfSeq
    <2>2. m \in Int /\ L \in Int
      BY <1>1
    <2> HIDE DEF m
    <2>3. /\ SubSeq(entries, m, L) \in Seq(StreamEntry)
          /\ Len(SubSeq(entries, m, L)) = IF m <= L THEN L - m + 1 ELSE 0
          /\ \A i \in 1..(L - m + 1) : SubSeq(entries, m, L)[i] = entries[m + i - 1]
      BY <2>1, <2>2, SubSeqProperties
    <2>4. Trimmed(entries) = SubSeq(entries, m, L)
      BY <1>2 DEF Trimmed, m
    <2>5. Len(Trimmed(entries)) = MaxLen /\ L - m + 1 = MaxLen
      BY <1>1, <1>2, <2>3, <2>4 DEF m
    <2>6. \A i \in 1..Len(Trimmed(entries)) : Trimmed(entries)[i] = entries[L - Len(Trimmed(entries)) + i]
      <3> TAKE i \in 1..Len(Trimmed(entries))
      <3>1. m + i - 1 = L - Len(Trimmed(entries)) + i
        BY <1>1, <2>5 DEF m
      <3>2. i \in 1..(L - m + 1)
        BY <2>5
      <3> QED BY <2>3, <2>4, <3>1, <3>2
    <2> QED BY <1>1, <1>2, <2>3, <2>4, <2>5, <2>6
  <1>3. CASE ~(L > MaxLen)
    BY <1>1, <1>3 DEF Trimmed
  <1> QED BY <1>2, <1>3

(* What a write of the log leaves is a log. *)
LEMMA LogFacts ==
    ASSUME Bounds, TypeOK, NEW e \in Event, NEW status \in Status
    PROVE  Inserted(e, status) \in Log /\ Marked(e, status) \in Log
  <1>1. e.id \in AllIds /\ e.type \in Types
    BY EventFields
  <1>2. Row(e, status) \in LogRow
    BY <1>1 DEF Row, LogRow
  <1>3. Inserted(e, status) \in Log
    BY <1>1, <1>2 DEF Inserted, TypeOK, Log
  <1>4. BusRow(e) => rows[e.id] \in LogRow
    BY <1>1 DEF BusRow, TypeOK, Log
  <1>5. BusRow(e) => [rows[e.id] EXCEPT !.status = status] \in LogRow
    BY <1>4 DEF LogRow
  <1>6. Marked(e, status) = IF BusRow(e) THEN [rows EXCEPT ![e.id] = [rows[e.id] EXCEPT !.status = status]] ELSE rows
    BY DEF Marked
  <1>7. Marked(e, status) \in Log
    BY <1>1, <1>5, <1>6 DEF TypeOK, Log
  <1> QED BY <1>3, <1>7

(* The entry a thread is at is an entry. *)
LEMMA EntryFacts ==
    ASSUME TypeOK, NEW t \in Thread, thread[t].batch # <<>>
    PROVE  /\ Entry(t) \in StreamEntry /\ Entry(t).event \in Event
           /\ 1 \in Position(t) /\ Entry(t) = thread[t].batch[1] /\ Entry(t).number = Carried(t, 1)
  <1>1. thread[t].batch \in Seq(StreamEntry)
    BY ThreadFields DEF TypeOK
  <1>2. Entry(t) \in StreamEntry
    BY <1>1, HeadTailProperties DEF Entry
  <1>3. Len(thread[t].batch) \in Nat /\ Len(thread[t].batch) # 0
    BY <1>1, EmptySeq
  <1>4. Entry(t) = thread[t].batch[1]
    BY <1>1 DEF Entry
  <1> QED BY <1>2, <1>3, <1>4 DEF StreamEntry, Position, Carried

(* Publishing keeps the types. *)
LEMMA PublishTypes ==
    ASSUME Bounds, TypeOK, Numbered,
           RecordPublished \/ AddEntry \/ RecordQueued \/ \E result \in {"completed", "failed"} : PublishInline(result)
    PROVE  TypeOK'
  <1> USE DEF TypeOK
  <1>u. outbound # <<>> => Upcoming \in Event /\ Tail(outbound) \in Seq(Event)
    BY HeadTailProperties DEF Upcoming
  <1>1. CASE RecordPublished
    <2>1. rows' \in Log
      BY <1>1, <1>u, LogFacts DEF RecordPublished, Safely, Status
    <2> QED BY <1>1, <1>u, <2>1 DEF RecordPublished
  <1>2. CASE RecordQueued
    <2>1. rows' \in Log
      BY <1>2, <1>u, LogFacts DEF RecordQueued, Safely, Status
    <2> QED BY <1>2, <1>u, <2>1 DEF RecordQueued
  <1>3. CASE AddEntry
    <2>1. stream.entries \in Seq(StreamEntry) /\ stream.next \in Nat
      BY StreamFields
    <2>2. sending \in Event
      BY <1>3 DEF AddEntry
    <2> DEFINE e == [number |-> stream.next, event |-> sending]
               all == Trimmed(Append(stream.entries, e))
    <2>3. e \in StreamEntry
      BY <2>1, <2>2 DEF StreamEntry
    <2>4. all \in Seq(StreamEntry)
      <3>1. Append(stream.entries, e) \in Seq(StreamEntry)
        BY <2>1, <2>3, AppendProperties
      <3> QED BY <3>1, TrimmedFacts
    <2>5. stream' = [stream EXCEPT !.entries = all, !.next = @ + 1] \/ stream' = stream
      BY <1>3 DEF AddEntry
    <2>6. stream' \in StreamState
      <3> HIDE DEF all
      <3>0. stream.next + 1 \in Nat \ {0}
        BY <2>1
      <3>1. [stream EXCEPT !.entries = all, !.next = @ + 1] \in StreamState
        BY <2>4, <3>0 DEF StreamState
      <3> QED BY <2>5, <3>1
    <2>7. handled' \in Seq(Nat)
      <3>1. handled' = Append(handled, 0) \/ handled' = handled
        BY <1>3 DEF AddEntry
      <3>2. Append(handled, 0) \in Seq(Nat)
        OBVIOUS
      <3> QED BY <3>1, <3>2
    <2>8. Tail(outbound) \in Seq(Event)
      BY <1>u, <1>3 DEF AddEntry
    <2> QED BY <1>3, <2>6, <2>7, <2>8 DEF AddEntry
  <1>4. ASSUME NEW result \in {"completed", "failed"}, PublishInline(result)  PROVE TypeOK'
    <2>1. Upcoming \in Event /\ Upcoming.id \in AllIds /\ Inserted(Upcoming, "published") \in Log
      BY <1>4, <1>u, LogFacts, EventFields DEF PublishInline, Status
    <2> DEFINE log == Inserted(Upcoming, "published")
               old == log[Upcoming.id]
               row == IF old.type = Upcoming.type /\ old.status # "queued" THEN [old EXCEPT !.status = result] ELSE old
    <2>2. rows' = [log EXCEPT ![Upcoming.id] = row]
      BY <1>4 DEF PublishInline
    <2>3. old \in LogRow
      <3>1. Row(Upcoming, "published") \in LogRow
        BY <2>1, EventFields DEF Row, LogRow, Status
      <3>2. rows[Upcoming.id] = Nothing => old = Row(Upcoming, "published")
        BY <2>1 DEF Inserted, Log
      <3>3. rows[Upcoming.id] # Nothing => old = rows[Upcoming.id]
        BY DEF Inserted
      <3> QED BY <3>1, <3>2, <3>3, <2>1 DEF Log
    <2> HIDE DEF old, log
    <2>4. row \in LogRow
      BY <2>3 DEF LogRow, Status
    <2>5. rows' \in Log
      <3>1. log \in Log
        BY <2>1 DEF log
      <3> HIDE DEF row
      <3> QED BY <2>1, <2>2, <2>4, <3>1 DEF Log
    <2> QED BY <1>4, <1>u, <2>5 DEF PublishInline
  <1> QED BY <1>1, <1>2, <1>3, <1>4

(* What a poll answers, with the group in place or made again: consecutive numbers, none behind the mark. *)
LEMMA PollFacts ==
    ASSUME Bounds, TypeOK, Numbered, NEW s \in {stream, EnsureGroup(stream)}
    PROVE  /\ s \in StreamState
           /\ s.entries = stream.entries /\ s.last = stream.last /\ s.next = stream.next /\ s.lost = stream.lost
           /\ Base \in Nat
           /\ Batch(s) \in Seq(StreamEntry)
           /\ \E c \in Nat :
                /\ c >= stream.last /\ c >= Base /\ c + Len(Batch(s)) < stream.next
                /\ \A i \in 1..Len(Batch(s)) : Batch(s)[i].number = c + i
  <1>1. /\ stream \in StreamState /\ stream.entries \in Seq(StreamEntry) /\ stream.last \in Nat
        /\ stream.next \in Nat /\ Len(stream.entries) \in Nat
    BY StreamFields, LenProperties DEF TypeOK
  <1>2. /\ s \in StreamState
        /\ s.entries = stream.entries /\ s.last = stream.last /\ s.next = stream.next /\ s.lost = stream.lost
    BY <1>1, EnsureGroupFacts DEF Numbered
  <1>3. Base \in Nat /\ Base + Len(stream.entries) = stream.next - 1
    BY <1>1 DEF Numbered, Base
  <1>4. \A i \in 1..Len(s.entries) : s.entries[i].number = Base + i
    BY <1>2 DEF Numbered
  <1>5. s.last <= Base + Len(s.entries)
    BY <1>1, <1>2, <1>3 DEF Numbered
  <1>6. /\ Batch(s) \in Seq(StreamEntry)
        /\ \E c \in Nat :
             /\ c >= s.last /\ c >= Base /\ c + Len(Batch(s)) <= Base + Len(s.entries)
             /\ \A i \in 1..Len(Batch(s)) : Batch(s)[i].number = c + i
    BY <1>2, <1>3, <1>4, <1>5, BatchFacts
  <1>7. PICK c \in Nat :
             /\ c >= s.last /\ c >= Base /\ c + Len(Batch(s)) <= Base + Len(s.entries)
             /\ \A i \in 1..Len(Batch(s)) : Batch(s)[i].number = c + i
    BY <1>6
  <1>8. c + Len(Batch(s)) < stream.next
    <2>1. Len(Batch(s)) \in Nat
      BY <1>6, LenProperties
    <2> QED BY <1>1, <1>2, <1>3, <1>7, <2>1
  <1> QED BY <1>2, <1>3, <1>6, <1>7, <1>8

(* The last number of an answer, and the mark it leaves. *)
LEMMA LastOfBatch ==
    ASSUME NEW batch \in Seq(StreamEntry), batch # <<>>, NEW c \in Nat,
           \A i \in 1..Len(batch) : batch[i].number = c + i
    PROVE  Len(batch) \in Nat /\ Len(batch) > 0 /\ batch[Len(batch)].number = c + Len(batch)
  <1>1. Len(batch) \in Nat \ {0}
    BY EmptySeq
  <1> QED BY <1>1

(* Entries are numbered by naturals. *)
LEMMA NumbersAreNat ==
    ASSUME NEW batch \in Seq(StreamEntry)
    PROVE  \A i \in 1..Len(batch) : batch[i].number \in Nat
  <1> TAKE i \in 1..Len(batch)
  <1>1. batch[i] \in StreamEntry
    BY ElementOfSeq
  <1> QED BY <1>1 DEF StreamEntry

(* A consumer's steps keep the types. *)
LEMMA ConsumerTypes ==
    ASSUME Bounds, TypeOK, Numbered, Dispatching, CarriedBehind, NEW t \in Thread,
           \/ End(t) \/ Poll(t) \/ PollFails(t) \/ MarkProcessing(t) \/ CallHandlers(t)
           \/ MarkFinished(t) \/ Ack(t) \/ Crash(t)
    PROVE  TypeOK'
  <1> USE DEF TypeOK
  <1>t. thread[t] \in ThreadState /\ thread[t].batch \in Seq(StreamEntry) /\ thread[t].at \in Place
    BY ThreadFields
  <1>p. ASSUME NEW at \in Place  PROVE [thread EXCEPT ![t].at = at] \in [Thread -> ThreadState]
    <2>1. [thread[t] EXCEPT !.at = at] \in ThreadState
      BY <1>t DEF ThreadState
    <2>2. [thread EXCEPT ![t].at = at] = [thread EXCEPT ![t] = [thread[t] EXCEPT !.at = at]]
      OBVIOUS
    <2> QED BY <2>1, <2>2
  <1>m. ASSUME NEW missing \in BOOLEAN  PROVE [thread EXCEPT ![t].missing = missing] \in [Thread -> ThreadState]
    <2>1. [thread[t] EXCEPT !.missing = missing] \in ThreadState
      BY <1>t DEF ThreadState
    <2>2. [thread EXCEPT ![t].missing = missing] = [thread EXCEPT ![t] = [thread[t] EXCEPT !.missing = missing]]
      OBVIOUS
    <2> QED BY <2>1, <2>2
  <1>1. CASE End(t)
    <2>1. Ended \in ThreadState
      BY EmptySeq DEF Ended, ThreadState, Place
    <2> QED BY <1>1, <2>1 DEF End
  <1>2. CASE Poll(t)
    <2> DEFINE s == IF thread[t].missing THEN EnsureGroup(stream) ELSE stream
               batch == Batch(s)
    <2>1. s \in StreamState /\ batch \in Seq(StreamEntry)
      BY PollFacts
    <2>2. CASE ~s.group
      <3>1. thread' = [thread EXCEPT ![t].missing = TRUE] /\ UNCHANGED <<stream, pending>>
        BY <1>2, <2>2 DEF Poll
      <3> QED BY <1>2, <3>1, <1>m DEF Poll
    <2>3. CASE s.group
      <3> DEFINE r == [at |-> IF batch = <<>> THEN "polling" ELSE "recording", batch |-> batch, missing |-> FALSE]
                 numbers == {batch[i].number : i \in 1..Len(batch)}
      <3>1. /\ stream' = IF batch = <<>> THEN s ELSE [s EXCEPT !.last = batch[Len(batch)].number]
            /\ pending' = pending \cup numbers
            /\ thread' = [thread EXCEPT ![t] = r]
        BY <1>2, <2>3 DEF Poll
      <3> HIDE DEF s, batch
      <3>2. r \in ThreadState
        BY <2>1 DEF ThreadState, Place
      <3>3. \A i \in 1..Len(batch) : batch[i].number \in Nat
        BY <2>1, NumbersAreNat
      <3>4. batch # <<>> => Len(batch) \in 1..Len(batch)
        BY <2>1, EmptySeq
      <3>5. stream' \in StreamState
        <4>1. CASE batch = <<>>
          BY <4>1, <3>1, <2>1
        <4>2. CASE batch # <<>>
          <5>1. batch[Len(batch)].number \in Nat
            BY <3>3, <3>4, <4>2
          <5>2. [s EXCEPT !.last = batch[Len(batch)].number] \in StreamState
            BY <5>1, <2>1 DEF StreamState
          <5> QED BY <5>2, <3>1, <4>2
        <4> QED BY <4>1, <4>2
      <3>6. pending' \subseteq Nat
        BY <3>1, <3>3
      <3> HIDE DEF r
      <3> QED BY <1>2, <3>1, <3>2, <3>5, <3>6 DEF Poll
    <2> QED BY <2>2, <2>3
  <1>3. CASE PollFails(t)
    <2> DEFINE batch == Batch(stream)
               numbers == {batch[i].number : i \in 1..Len(batch)}
    <2>1. stream \in StreamState /\ batch \in Seq(StreamEntry)
      BY PollFacts
    <2>2. \/ stream' = stream /\ pending' = pending
          \/ /\ batch # <<>>
             /\ stream' = [stream EXCEPT !.last = batch[Len(batch)].number, !.lost = @ \cup numbers]
             /\ pending' = pending \cup numbers
      BY <1>3 DEF PollFails
    <2> HIDE DEF batch
    <2>3. \A i \in 1..Len(batch) : batch[i].number \in Nat
      BY <2>1, NumbersAreNat
    <2>4. batch # <<>> => Len(batch) \in 1..Len(batch)
      BY <2>1, EmptySeq
    <2>5. stream' \in StreamState /\ pending' \subseteq Nat
      <3>1. ASSUME batch # <<>>
            PROVE  [stream EXCEPT !.last = batch[Len(batch)].number, !.lost = @ \cup numbers] \in StreamState
        <4>1. batch[Len(batch)].number \in Nat /\ numbers \subseteq Nat
          BY <2>3, <2>4, <3>1
        <4>2. stream.lost \cup numbers \subseteq Nat
          BY <4>1, StreamFields
        <4> HIDE DEF numbers
        <4> QED BY <4>1, <4>2 DEF StreamState
      <3> QED BY <2>1, <2>2, <2>3, <3>1
    <2> QED BY <1>3, <2>5, <1>m DEF PollFails
  <1>4. CASE MarkProcessing(t)
    <2>1. Entry(t).event \in Event
      BY <1>4, EntryFacts DEF MarkProcessing, Dispatching
    <2>2. rows' \in Log
      BY <1>4, <2>1, LogFacts DEF MarkProcessing, Safely, Status
    <2>3. thread' \in [Thread -> ThreadState]
      BY <1>4, <1>p DEF MarkProcessing, At, Place
    <2> QED BY <1>4, <2>2, <2>3 DEF MarkProcessing
  <1>5. CASE CallHandlers(t)
    <2>1. Entry(t).number = Carried(t, 1) /\ 1 \in Position(t)
      BY <1>5, EntryFacts DEF CallHandlers, Dispatching
    <2>2. Entry(t).number \in 1..Len(handled)
      BY <2>1 DEF CarriedBehind, Behind, Numbered
    <2>3. handled[Entry(t).number] + 1 \in Nat
      BY <2>2, ElementOfSeq
    <2>4. handled' \in Seq(Nat)
      BY <1>5, <2>2, <2>3, ExceptSeq DEF CallHandlers
    <2>5. thread' \in [Thread -> ThreadState]
      BY <1>5, <1>p, ZenonT(60) DEF CallHandlers, At, Place
    <2> QED BY <1>5, <2>4, <2>5 DEF CallHandlers
  <1>6. CASE MarkFinished(t)
    <2>1. Entry(t).event \in Event
      BY <1>6, EntryFacts DEF MarkFinished, Dispatching
    <2>2. rows' \in Log
      BY <1>6, <2>1, LogFacts DEF MarkFinished, Safely, Status
    <2>3. thread' \in [Thread -> ThreadState]
      BY <1>6, <1>p DEF MarkFinished, At, Place
    <2> QED BY <1>6, <2>2, <2>3 DEF MarkFinished
  <1>7. CASE Ack(t)
    <2> DEFINE rest == Tail(thread[t].batch)
               r == [thread[t] EXCEPT !.at = IF rest = <<>> THEN "polling" ELSE "recording", !.batch = rest]
    <2>1. rest \in Seq(StreamEntry)
      BY <1>7, <1>t, HeadTailProperties DEF Ack, Dispatching
    <2>2. thread' = [thread EXCEPT ![t] = r]
      BY <1>7 DEF Ack, AfterAck
    <2>3. r \in ThreadState
      <3> HIDE DEF rest
      <3> QED BY <2>1, <1>t DEF ThreadState, Place
    <2>4. pending' \subseteq Nat
      BY <1>7 DEF Ack
    <2> HIDE DEF r
    <2> QED BY <1>7, <2>2, <2>3, <2>4 DEF Ack
  <1>8. CASE Crash(t)
    <2>1. thread' \in [Thread -> ThreadState]
      BY <1>8, <1>p DEF Crash, Place
    <2> QED BY <1>8, <2>1 DEF Crash
  <1> QED BY <1>1, <1>2, <1>3, <1>4, <1>5, <1>6, <1>7, <1>8

(* Starting and stopping a bus, and losing the stream, keep the types. *)
LEMMA BusTypes ==
    ASSUME Bounds, TypeOK, Numbered, Watching, (\E p \in Process : Start(p) \/ Stop(p)) \/ Flush
    PROVE  TypeOK'
  <1> USE DEF TypeOK
  <1>1. ASSUME NEW p \in Process, Start(p)  PROVE TypeOK'
    <2>1. PICK t \in Thread :
            \/ /\ stream' = EnsureGroup(stream)
               /\ consumer' = [consumer EXCEPT ![p] = t]
               /\ watches' = [watches EXCEPT ![t] = t]
               /\ signalled' = signalled \ {t}
               /\ thread' = [thread EXCEPT ![t] = [at |-> "polling", batch |-> <<>>, missing |-> FALSE]]
            \/ UNCHANGED <<stream, consumer, watches, signalled, thread>>
      BY <1>1 DEF Start, FreshEvent
    <2>2. EnsureGroup(stream) \in StreamState
      BY EnsureGroupFacts DEF Numbered
    <2>3. [at |-> "polling", batch |-> <<>>, missing |-> FALSE] \in ThreadState
      BY EmptySeq DEF ThreadState, Place
    <2>4. stream' \in StreamState /\ thread' \in [Thread -> ThreadState]
      BY <2>1, <2>2, <2>3, ZenonT(60)
    <2>5. /\ consumer' \in [Process -> Thread \cup {Nothing}]
          /\ watches' \in [Thread -> Thread \cup {Nothing}] /\ signalled' \subseteq Thread
      BY <2>1, ZenonT(60)
    <2> QED BY <1>1, <2>4, <2>5 DEF Start
  <1>2. ASSUME NEW p \in Process, Stop(p)  PROVE TypeOK'
    <2>1. watches[consumer[p]] \in Thread
      BY <1>2 DEF Stop, Watching
    <2> QED BY <1>2, <2>1 DEF Stop
  <1>3. ASSUME Flush  PROVE TypeOK'
    <2>1. stream' \in StreamState
      <3>1. [stream EXCEPT !.entries = <<>>, !.group = FALSE, !.last = 0] \in StreamState
        BY EmptySeq DEF StreamState
      <3> QED BY <3>1, <1>3 DEF Flush
    <2> QED BY <1>3, <2>1 DEF Flush
  <1> QED BY <1>1, <1>2, <1>3

(***************************************************************************)
(* The mark                                                                *)
(***************************************************************************)
(* Adding an entry continues the numbering; what the cap drops lies behind the mark. *)
LEMMA AddEntryMark ==
    ASSUME Bounds, TypeOK, Numbered, AddEntry
    PROVE  Numbered' /\ \A n : Behind(n) => Behind(n)'
  <1>1. /\ stream \in StreamState /\ stream.entries \in Seq(StreamEntry) /\ stream.last \in Nat
        /\ stream.next \in Nat /\ Len(stream.entries) \in Nat
    BY StreamFields, LenProperties DEF TypeOK
  <1> DEFINE e == [number |-> stream.next, event |-> sending]
             more == Append(stream.entries, e)
             all == Trimmed(more)
  <1>2. CASE stream' = stream /\ handled' = handled
    BY <1>2 DEF Numbered, Behind, Base
  <1>3. CASE /\ stream' = [stream EXCEPT !.entries = all, !.next = @ + 1]
             /\ handled' = Append(handled, 0)
    <2>1. e \in StreamEntry /\ e.number = stream.next
      BY <1>1 DEF StreamEntry, AddEntry, TypeOK
    <2>2. /\ more \in Seq(StreamEntry) /\ Len(more) = Len(stream.entries) + 1
          /\ \A i \in 1..Len(stream.entries) : more[i] = stream.entries[i]
          /\ more[Len(stream.entries) + 1] = e
      <3> HIDE DEF e
      <3> QED BY <2>1, <1>1, AppendProperties
    <2> HIDE DEF more
    <2>3. /\ all \in Seq(StreamEntry) /\ Len(all) <= Len(more)
          /\ \A i \in 1..Len(all) : all[i] = more[Len(more) - Len(all) + i]
      BY <2>2, TrimmedFacts
    <2> HIDE DEF all, e
    <2>4. Len(all) \in Nat
      BY <2>3, LenProperties
    <2>5. /\ stream'.entries = all /\ stream'.next = stream.next + 1
          /\ stream'.last = stream.last /\ stream'.group = stream.group
      BY <1>3 DEF TypeOK, StreamState
    <2>6. Base \in Nat /\ Base' \in Nat /\ Base' = stream.next - Len(all) /\ Base' >= Base
      <3>1. Base = stream.next - 1 - Len(stream.entries)
        BY DEF Base
      <3>2. Base' = stream'.next - 1 - Len(stream'.entries)
        BY DEF Base
      <3>3. Base' = stream.next - Len(all)
        BY <1>1, <2>4, <2>5, <3>2
      <3>4. Len(stream.entries) < stream.next
        BY DEF Numbered
      <3>5. Len(all) <= Len(stream.entries) + 1
        BY <2>2, <2>3
      <3> QED BY <1>1, <2>4, <3>1, <3>3, <3>4, <3>5
    <2>7. \A i \in 1..Len(more) : more[i].number = Base + i
      <3> TAKE i \in 1..Len(more)
      <3>1. CASE i <= Len(stream.entries)
        BY <3>1, <2>2, <1>1 DEF Numbered
      <3>2. CASE i = Len(stream.entries) + 1
        BY <3>2, <2>1, <2>2, <1>1 DEF Base
      <3>3. i <= Len(stream.entries) \/ i = Len(stream.entries) + 1
        BY <2>2, <1>1
      <3> QED BY <3>1, <3>2, <3>3
    <2>8. \A i \in 1..Len(all) : all[i].number = Base' + i
      <3> TAKE i \in 1..Len(all)
      <3>1. Len(more) - Len(all) + i \in 1..Len(more)
        BY <2>2, <2>3, <2>4, <1>1
      <3>2. all[i].number = Base + (Len(more) - Len(all) + i)
        BY <2>3, <2>7, <3>1
      <3>3. Base + (Len(more) - Len(all) + i) = Base' + i
        <4>1. Base = stream.next - 1 - Len(stream.entries)
          BY DEF Base
        <4>2. Base' = stream.next - Len(all) /\ Len(more) = Len(stream.entries) + 1
          BY <2>2, <2>6
        <4>3. i \in Int /\ Len(all) \in Int /\ stream.next \in Int /\ Len(stream.entries) \in Int
          BY <1>1, <2>4
        <4>4. (stream.next - 1 - Len(stream.entries)) + ((Len(stream.entries) + 1) - Len(all) + i)
                  = (stream.next - Len(all)) + i
          BY <4>3
        <4> QED BY <4>1, <4>2, <4>4
      <3> QED BY <3>2, <3>3
    <2>9. Len(handled') = stream'.next - 1
      <3>1. Len(handled') = Len(handled) + 1 /\ Len(handled) \in Nat
        BY <1>3 DEF TypeOK
      <3> QED BY <3>1, <2>5, <1>1 DEF Numbered
    <2>10. Numbered'
      BY <1>1, <2>2, <2>3, <2>4, <2>5, <2>8, <2>9 DEF Numbered
    <2>11. \A n : Behind(n) => Behind(n)'
      BY <1>1, <2>5, <2>6 DEF Behind
    <2> QED BY <2>10, <2>11
  <1> QED BY <1>2, <1>3 DEF AddEntry

(* The last delivered number rises with what is delivered, lost with the answer or not. *)
LEMMA DeliveredMark ==
    ASSUME TypeOK, Numbered, NEW last \in Nat, last >= stream.last, last < stream.next, stream'.group,
           stream'.entries = stream.entries, stream'.next = stream.next, stream'.last = last, handled' = handled
    PROVE  Numbered' /\ \A n : Behind(n) => Behind(n)'
  <1>1. stream.last \in Nat /\ stream.next \in Nat /\ Base' = Base
    BY StreamFields DEF TypeOK, Base
  <1>2. Numbered'
    BY <1>1 DEF Numbered
  <1>3. \A n : Behind(n) => Behind(n)'
    BY <1>1 DEF Behind
  <1> QED BY <1>2, <1>3

(* A flush loses the entries, the group and its last number; the numbers go on, so the mark rises to the end. *)
LEMMA FlushMark ==
    ASSUME TypeOK, Numbered, Flush
    PROVE  Numbered' /\ \A n : Behind(n) => Behind(n)'
  <1>1. stream.next \in Nat /\ stream.next > 0 /\ stream.last \in Nat
    BY StreamFields DEF TypeOK
  <1>2. /\ stream'.entries = <<>> /\ stream'.group = FALSE /\ stream'.last = 0 /\ stream'.next = stream.next
        /\ handled' = handled
    BY DEF Flush, TypeOK, StreamState
  <1>3. Len(stream'.entries) = 0
    BY <1>2, EmptySeq
  <1>4. Base' = stream.next - 1
    BY <1>1, <1>2, <1>3 DEF Base
  <1>5. Numbered'
    BY <1>1, <1>2, <1>3 DEF Numbered
  <1>6. \A n : Behind(n) => Behind(n)'
    BY <1>1, <1>2, <1>4 DEF Behind
  <1> QED BY <1>5, <1>6

(* No step lowers the mark or leaves a gap in the numbers. *)
LEMMA MarkStep ==
    ASSUME Bounds, TypeOK, Numbered, Dispatching, CarriedBehind, [Next]_busVars
    PROVE  Numbered' /\ \A n : Behind(n) => Behind(n)'
  <1>s. /\ stream \in StreamState /\ stream.last \in Nat /\ stream.last < stream.next
        /\ (~stream.group => stream.last = 0)
    BY StreamFields DEF TypeOK, Numbered
  <1>1. ASSUME stream' = stream, handled' = handled  PROVE Numbered' /\ \A n : Behind(n) => Behind(n)'
    BY <1>1 DEF Numbered, Behind, Base
  <1>2. ASSUME stream' = EnsureGroup(stream), handled' = handled  PROVE Numbered' /\ \A n : Behind(n) => Behind(n)'
    <2>1. /\ stream'.entries = stream.entries /\ stream'.last = stream.last /\ stream'.next = stream.next
          /\ stream'.group
      BY <1>2, <1>s, EnsureGroupFacts
    <2> QED BY <1>2, <1>s, <2>1, DeliveredMark
  <1>3. ASSUME NEW p \in Process, Start(p)  PROVE Numbered' /\ \A n : Behind(n) => Behind(n)'
    <2>1. (stream' = EnsureGroup(stream) \/ stream' = stream) /\ handled' = handled
      BY <1>3 DEF Start
    <2> QED BY <2>1, <1>1, <1>2
  <1>4. ASSUME NEW t \in Thread, Poll(t)  PROVE Numbered' /\ \A n : Behind(n) => Behind(n)'
    <2> DEFINE s == IF thread[t].missing THEN EnsureGroup(stream) ELSE stream
               batch == Batch(s)
    <2>h. handled' = handled
      BY <1>4 DEF Poll
    <2>1. CASE ~s.group
      BY <1>1, <1>4, <2>1, <2>h DEF Poll
    <2>2. CASE s.group /\ batch = <<>>
      <3>1. stream' = s
        BY <1>4, <2>2 DEF Poll
      <3> QED BY <3>1, <1>1, <1>2, <2>h
    <2>3. CASE s.group /\ batch # <<>>
      <3>1. stream' = [s EXCEPT !.last = batch[Len(batch)].number]
        BY <1>4, <2>3 DEF Poll
      <3>2. /\ s \in StreamState /\ s.entries = stream.entries /\ s.next = stream.next
            /\ batch \in Seq(StreamEntry)
            /\ \E c \in Nat :
                /\ c >= stream.last /\ c >= Base /\ c + Len(batch) < stream.next
                /\ \A i \in 1..Len(batch) : batch[i].number = c + i
        BY PollFacts
      <3> HIDE DEF s, batch
      <3>3. PICK c \in Nat :
                /\ c >= stream.last /\ c >= Base /\ c + Len(batch) < stream.next
                /\ \A i \in 1..Len(batch) : batch[i].number = c + i
        BY <3>2
      <3>4. Len(batch) \in Nat /\ Len(batch) > 0 /\ batch[Len(batch)].number = c + Len(batch)
        BY <2>3, <3>2, <3>3, LastOfBatch
      <3>5. /\ stream'.entries = stream.entries /\ stream'.next = stream.next /\ stream'.group
            /\ stream'.last = c + Len(batch)
        BY <2>3, <3>1, <3>2, <3>4 DEF StreamState
      <3>6. c + Len(batch) \in Nat /\ c + Len(batch) >= stream.last
        BY <3>3, <3>4, <1>s
      <3> QED BY <2>h, <3>3, <3>5, <3>6, DeliveredMark
    <2> QED BY <2>1, <2>2, <2>3
  <1>5. ASSUME NEW t \in Thread, PollFails(t)  PROVE Numbered' /\ \A n : Behind(n) => Behind(n)'
    <2> DEFINE batch == Batch(stream)
               numbers == {batch[i].number : i \in 1..Len(batch)}
    <2>h. handled' = handled
      BY <1>5 DEF PollFails
    <2>1. CASE stream' = stream
      BY <2>1, <2>h, <1>1
    <2>2. CASE stream' # stream
      <3>1. /\ stream.group /\ batch # <<>>
            /\ stream' = [stream EXCEPT !.last = batch[Len(batch)].number, !.lost = @ \cup numbers]
        BY <1>5, <2>2 DEF PollFails
      <3>2. /\ batch \in Seq(StreamEntry)
            /\ \E c \in Nat :
                /\ c >= stream.last /\ c >= Base /\ c + Len(batch) < stream.next
                /\ \A i \in 1..Len(batch) : batch[i].number = c + i
        BY PollFacts
      <3> HIDE DEF batch
      <3>3. PICK c \in Nat :
                /\ c >= stream.last /\ c >= Base /\ c + Len(batch) < stream.next
                /\ \A i \in 1..Len(batch) : batch[i].number = c + i
        BY <3>2
      <3>4. Len(batch) \in Nat /\ Len(batch) > 0 /\ batch[Len(batch)].number = c + Len(batch)
        BY <3>1, <3>2, <3>3, LastOfBatch
      <3> HIDE DEF numbers
      <3>5. /\ stream'.entries = stream.entries /\ stream'.next = stream.next /\ stream'.group
            /\ stream'.last = c + Len(batch)
        BY <1>s, <3>1, <3>4 DEF StreamState
      <3>6. c + Len(batch) \in Nat /\ c + Len(batch) >= stream.last
        BY <3>3, <3>4, <1>s
      <3> QED BY <2>h, <3>3, <3>5, <3>6, DeliveredMark
    <2> QED BY <2>1, <2>2
  <1>6. ASSUME NEW t \in Thread, CallHandlers(t)  PROVE Numbered' /\ \A n : Behind(n) => Behind(n)'
    <2>1. Entry(t).number = Carried(t, 1) /\ 1 \in Position(t)
      BY <1>6, EntryFacts DEF CallHandlers, Dispatching
    <2>2. Entry(t).number \in 1..Len(handled)
      BY <2>1 DEF CarriedBehind, Behind, Numbered
    <2>3. handled[Entry(t).number] + 1 \in Nat
      BY <2>2, ElementOfSeq DEF TypeOK
    <2>4. Len(handled') = Len(handled) /\ stream' = stream
      BY <1>6, <2>2, <2>3, ExceptSeq DEF CallHandlers, TypeOK
    <2> QED BY <2>4 DEF Numbered, Behind, Base
  <1>7. ASSUME NEW t \in Thread, End(t) \/ MarkProcessing(t) \/ MarkFinished(t) \/ Ack(t) \/ Crash(t)
        PROVE  Numbered' /\ \A n : Behind(n) => Behind(n)'
    BY <1>7, <1>1 DEF End, MarkProcessing, MarkFinished, Ack, Crash
  <1>8. ASSUME NEW p \in Process, Stop(p)  PROVE Numbered' /\ \A n : Behind(n) => Behind(n)'
    BY <1>8, <1>1 DEF Stop
  <1>9. ASSUME NEW result, PublishInline(result)  PROVE Numbered' /\ \A n : Behind(n) => Behind(n)'
    BY <1>9, <1>1 DEF PublishInline
  <1>10. ASSUME RecordPublished \/ RecordQueued \/ UNCHANGED busVars  PROVE Numbered' /\ \A n : Behind(n) => Behind(n)'
    BY <1>10, <1>1 DEF RecordPublished, RecordQueued, busVars
  <1> QED
    BY <1>3, <1>4, <1>5, <1>6, <1>7, <1>8, <1>9, <1>10, AddEntryMark, FlushMark DEF Next

(***************************************************************************)
(* What is carried and handled                                             *)
(***************************************************************************)
(* What lies behind the mark has been numbered. *)
LEMMA BehindIsNumbered ==
    ASSUME TypeOK, Numbered, NEW n, Behind(n)
    PROVE  n \in Nat /\ n \in 1..Len(handled)
  <1>1. stream.next \in Nat
    BY StreamFields DEF TypeOK
  <1> QED BY <1>1 DEF Behind, Numbered

(* Steps that leave the threads alone: publishing, adding an entry, a stop, a flush. *)
LEMMA ThreadsIdle ==
    ASSUME TypeOK, Numbered, Delivered, Numbered', \A n : Behind(n) => Behind(n)',
           thread' = thread, watches' = watches, pending' \subseteq pending, stream'.lost = stream.lost,
           \A n \in 1..Len(handled) : handled'[n] = handled[n],
           \A n \in 1..Len(handled') : n \in 1..Len(handled) \/ handled'[n] = 0
    PROVE  Delivered'
  <1> USE DEF Delivered
  <1>1. Dispatching' /\ CarriedOnce'
    BY DEF Dispatching, CarriedOnce, Position, Carried
  <1>2. CarriedBehind'
    <2> SUFFICES ASSUME NEW t \in Thread, NEW i \in Position(t)  PROVE (Behind(Carried(t, i)))'
      BY DEF CarriedBehind, Position, Carried
    <2>1. Carried(t, i)' = Carried(t, i)
      BY DEF Carried
    <2>2. Behind(Carried(t, i))
      BY DEF CarriedBehind
    <2> DEFINE n == thread[t].batch[i].number
    <2>3. thread'[t].batch[i].number = n
      OBVIOUS
    <2>4. n \in 1..(stream'.next - 1) /\ (n <= stream'.last \/ n <= Base')
      <3>1. Behind(n)
        BY <2>2 DEF Carried
      <3> QED BY <3>1 DEF Behind
    <2> QED BY <2>3, <2>4 DEF Behind, Carried
  <1>3. HandledBehind'
    <2> SUFFICES ASSUME NEW n \in 1..Len(handled')  PROVE handled'[n] <= 1 /\ (handled'[n] # 0 => Behind(n)')
      BY DEF HandledBehind, Behind
    <2>1. CASE n \in 1..Len(handled)
      BY <2>1 DEF HandledBehind
    <2>2. CASE handled'[n] = 0
      BY <2>2
    <2> QED BY <2>1, <2>2
  <1>4. HandledInTurn'
    <2> SUFFICES ASSUME NEW t \in Thread, NEW i \in Position(t)
                 PROVE  handled'[Carried(t, i)] = handled[Carried(t, i)]
      BY DEF HandledInTurn, Position, Carried
    <2>1. Behind(Carried(t, i))
      BY DEF CarriedBehind
    <2> QED BY <2>1, BehindIsNumbered
  <1>5. PendingBehind'
    BY DEF PendingBehind, Behind
  <1>6. ReadIsHandled'
    <2> SUFFICES ASSUME NEW n \in pending' \ stream'.lost  PROVE handled'[n] = 1 \/ Holding(n)' # {}
      BY DEF ReadIsHandled, Holding
    <2>1. n \in pending \ stream.lost /\ Holding(n)' = Holding(n)
      BY DEF Holding
    <2>2. n \in 1..Len(handled)
      BY <2>1, BehindIsNumbered DEF PendingBehind
    <2> QED BY <2>1, <2>2 DEF ReadIsHandled
  <1> QED BY <1>1, <1>2, <1>3, <1>4, <1>5, <1>6

(* Steps of a thread that keep its batch, and start no handler. *)
LEMMA BatchKept ==
    ASSUME TypeOK, TypeOK', Numbered, Delivered, Numbered', \A n : Behind(n) => Behind(n)', NEW t \in Thread,
           \A u \in Thread : u # t => thread'[u] = thread[u] /\ watches'[u] = watches[u],
           thread'[t].batch = thread[t].batch, handled' = handled,
           \A n \in pending' : n \in pending \/ Behind(n)',
           \A n \in pending' \ stream'.lost : n \in pending \ stream.lost,
           \* what the thread is at
           \/ thread[t].batch = <<>> /\ thread'[t].at \in {"polling", "ended", "crashed"}
           \/ thread[t].at = "recording" /\ thread'[t].at = "handling"
           \/ thread[t].at \in {"completed", "failed"} /\ thread'[t].at = "acking"
           \/ thread'[t].at = "crashed",
           watches'[t] = Nothing => thread'[t] = Ended
    PROVE  Delivered'
  <1> USE DEF Delivered
  <1>b. \A u \in Thread : thread'[u].batch = thread[u].batch
    OBVIOUS
  <1>p. \A u \in Thread : Position(u)' = Position(u) /\ \A i : Carried(u, i)' = Carried(u, i)
    BY <1>b DEF Position, Carried
  <1>n. \A u \in Thread : \A i \in Position(u) : i \in Nat /\ i >= 1
    <2> SUFFICES ASSUME NEW u \in Thread, NEW i \in Position(u)  PROVE i \in Nat /\ i >= 1
      OBVIOUS
    <2>1. Len(thread[u].batch) \in Nat
      BY ThreadFields, LenProperties DEF TypeOK
    <2> QED BY <2>1 DEF Position
  <1>e. thread[t].batch = <<>> => Position(t) = {}
    BY EmptySeq DEF Position
  <1>1. Dispatching'
    <2> SUFFICES ASSUME NEW u \in Thread
                 PROVE  /\ thread'[u].at \in {"polling", "ended"} => thread'[u].batch = <<>>
                        /\ thread'[u].at \in {"recording", "handling", "completed", "failed", "acking"}
                               => thread'[u].batch # <<>>
                        /\ watches'[u] = Nothing => thread'[u] = Ended
      BY DEF Dispatching
    <2>1. CASE u # t
      BY <2>1 DEF Dispatching
    <2>2. CASE u = t
      BY <2>2 DEF Dispatching
    <2> QED BY <2>1, <2>2
  <1>2. CarriedOnce'
    BY <1>p DEF CarriedOnce
  <1>3. CarriedBehind'
    <2> SUFFICES ASSUME NEW u \in Thread, NEW i \in Position(u)'  PROVE (Behind(Carried(u, i)))'
      BY DEF CarriedBehind
    <2> DEFINE n == Carried(u, i)
    <2>1. Behind(n)
      BY <1>p DEF CarriedBehind
    <2>2. n \in 1..(stream'.next - 1) /\ (n <= stream'.last \/ n <= Base')
      <3> HIDE DEF n
      <3> QED BY <2>1 DEF Behind
    <2>3. Carried(u, i)' = n
      BY <1>p
    <2> QED BY <2>2, <2>3 DEF Behind
  <1>4. HandledBehind'
    <2> SUFFICES ASSUME NEW n \in 1..Len(handled)  PROVE handled'[n] <= 1 /\ (handled'[n] # 0 => Behind(n)')
      BY DEF HandledBehind, Behind
    <2> QED BY DEF HandledBehind
  <1>5. HandledInTurn'
    <2> SUFFICES ASSUME NEW u \in Thread, NEW i \in Position(u)
                 PROVE  /\ (thread'[u].at # "crashed" /\ i > 1) => handled[Carried(u, i)] = 0
                        /\ thread'[u].at \in {"recording", "handling"} => handled[Carried(u, i)] = 0
                        /\ (thread'[u].at \in {"completed", "failed", "acking"} /\ i = 1) => handled[Carried(u, i)] = 1
      BY <1>p DEF HandledInTurn
    <2>1. CASE u # t
      BY <2>1 DEF HandledInTurn
    <2>2. CASE u = t
      BY <2>2, <1>e, <1>n DEF HandledInTurn
    <2> QED BY <2>1, <2>2
  <1>6. PendingBehind'
    <2> SUFFICES ASSUME NEW n \in pending'  PROVE Behind(n)'
      BY DEF PendingBehind, Behind
    <2> QED BY DEF PendingBehind
  <1>7. ReadIsHandled'
    <2> SUFFICES ASSUME NEW n \in pending' \ stream'.lost  PROVE handled'[n] = 1 \/ Holding(n)' # {}
      BY DEF ReadIsHandled, Holding
    <2>1. n \in pending \ stream.lost /\ Holding(n)' = Holding(n)
      BY <1>b DEF Holding
    <2> QED BY <2>1 DEF ReadIsHandled
  <1> QED BY <1>1, <1>2, <1>3, <1>4, <1>5, <1>6, <1>7

(* The handlers are called for the head of the batch, which nobody else carries. *)
LEMMA CallHandlersDelivered ==
    ASSUME Bounds, TypeOK, TypeOK', Numbered, Delivered, Numbered', NEW t \in Thread, CallHandlers(t)
    PROVE  Delivered'
  <1> USE DEF Delivered
  <1> DEFINE m == Entry(t).number
  <1>1. /\ m = Carried(t, 1) /\ 1 \in Position(t) /\ thread[t].at = "handling" /\ thread[t].batch # <<>>
    BY EntryFacts DEF CallHandlers, Dispatching
  <1>2. Behind(m) /\ m \in Nat /\ m \in 1..Len(handled) /\ handled[m] = 0
    BY <1>1, BehindIsNumbered DEF CarriedBehind, HandledInTurn
  <1> HIDE DEF m
  <1>3. handled' = [handled EXCEPT ![m] = @ + 1]
    BY DEF CallHandlers, m
  <1>4. /\ Len(handled') = Len(handled) /\ handled'[m] = 1
        /\ \A n \in 1..Len(handled) : n # m => handled'[n] = handled[n]
    <2>1. handled[m] + 1 = 1 /\ 1 \in Nat
      BY <1>2
    <2>2. handled' = [handled EXCEPT ![m] = 1]
      BY <1>3, <2>1
    <2>3. /\ Len([handled EXCEPT ![m] = 1]) = Len(handled)
          /\ \A j \in 1..Len(handled) : [handled EXCEPT ![m] = 1][j] = IF j = m THEN 1 ELSE handled[j]
      BY <1>2, ExceptSeq DEF TypeOK
    <2> QED BY <1>2, <2>2, <2>3
  <1>5. stream' = stream /\ pending' = pending /\ watches' = watches
    BY DEF CallHandlers
  <1>6. PICK at \in {"completed", "failed"} : thread' = [thread EXCEPT ![t].at = at]
    BY DEF CallHandlers, At
  <1>7. /\ \A u \in Thread : u # t => thread'[u] = thread[u]
        /\ \A u \in Thread : thread'[u].batch = thread[u].batch
        /\ thread'[t].at = at
    BY <1>6 DEF TypeOK, ThreadState
  <1>8. \A u \in Thread : Position(u)' = Position(u) /\ \A i : Carried(u, i)' = Carried(u, i)
    BY <1>7 DEF Position, Carried
  <1>9. \A n : Behind(n)' = Behind(n)
    BY <1>5 DEF Behind, Base
  <1>10. Dispatching'
    <2> SUFFICES ASSUME NEW u \in Thread
                 PROVE  /\ thread'[u].at \in {"polling", "ended"} => thread'[u].batch = <<>>
                        /\ thread'[u].at \in {"recording", "handling", "completed", "failed", "acking"}
                               => thread'[u].batch # <<>>
                        /\ watches'[u] = Nothing => thread'[u] = Ended
      BY DEF Dispatching
    <2>1. CASE u # t
      BY <2>1, <1>5, <1>7 DEF Dispatching
    <2>2. CASE u = t
      <3>1. watches[t] # Nothing
        BY <1>1 DEF Dispatching, Ended
      <3> QED BY <2>2, <3>1, <1>1, <1>5, <1>7
    <2> QED BY <2>1, <2>2
  <1>11. CarriedOnce'
    BY <1>8 DEF CarriedOnce
  <1>12. CarriedBehind'
    <2> SUFFICES ASSUME NEW u \in Thread, NEW i \in Position(u)'  PROVE (Behind(Carried(u, i)))'
      BY DEF CarriedBehind
    <2>1. Behind(Carried(u, i)) /\ Carried(u, i)' = Carried(u, i)
      BY <1>8 DEF CarriedBehind
    <2> QED BY <2>1, <1>5 DEF Behind, Base
  <1>13. HandledBehind'
    <2> SUFFICES ASSUME NEW n \in 1..Len(handled)  PROVE handled'[n] <= 1 /\ (handled'[n] # 0 => Behind(n))
      BY <1>4, <1>5 DEF HandledBehind, Behind, Base
    <2>1. CASE n = m
      BY <2>1, <1>2, <1>4
    <2>2. CASE n # m
      BY <2>2, <1>4 DEF HandledBehind
    <2> QED BY <2>1, <2>2
  <1>14. HandledInTurn'
    <2> SUFFICES ASSUME NEW u \in Thread, NEW i \in Position(u)
                 PROVE  /\ (thread'[u].at # "crashed" /\ i > 1) => handled'[Carried(u, i)] = 0
                        /\ thread'[u].at \in {"recording", "handling"} => handled'[Carried(u, i)] = 0
                        /\ (thread'[u].at \in {"completed", "failed", "acking"} /\ i = 1) => handled'[Carried(u, i)] = 1
      BY <1>8 DEF HandledInTurn
    <2>1. Carried(u, i) \in 1..Len(handled)
      BY BehindIsNumbered DEF CarriedBehind
    <2>2. CASE u = t /\ i = 1
      BY <2>2, <1>1, <1>4, <1>7
    <2>3. CASE ~(u = t /\ i = 1)
      <3>1. Carried(u, i) # m
        BY <2>3, <1>1 DEF CarriedOnce
      <3>2. handled'[Carried(u, i)] = handled[Carried(u, i)]
        BY <3>1, <2>1, <1>4
      <3>3. CASE u # t
        BY <3>2, <3>3, <1>7 DEF HandledInTurn
      <3>4. CASE u = t
        BY <3>2, <3>4, <2>3, <1>1, <1>7 DEF HandledInTurn
      <3> QED BY <3>3, <3>4
    <2> QED BY <2>2, <2>3
  <1>15. PendingBehind'
    BY <1>5, <1>9 DEF PendingBehind, Behind, Base
  <1>16. ReadIsHandled'
    <2> SUFFICES ASSUME NEW n \in pending \ stream.lost  PROVE handled'[n] = 1 \/ Holding(n)' # {}
      BY <1>5 DEF ReadIsHandled, Holding
    <2>1. Holding(n)' = Holding(n)
      BY <1>7 DEF Holding
    <2>2. n \in 1..Len(handled)
      BY BehindIsNumbered DEF PendingBehind
    <2> QED BY <2>1, <2>2, <1>4 DEF ReadIsHandled
  <1> QED BY <1>10, <1>11, <1>12, <1>13, <1>14, <1>15, <1>16

(* An entry leaves its batch after its handlers have run, acknowledged or not. *)
LEMMA AckDelivered ==
    ASSUME Bounds, TypeOK, TypeOK', Numbered, Delivered, Numbered', NEW t \in Thread, Ack(t)
    PROVE  Delivered'
  <1> USE DEF Delivered
  <1> DEFINE b == thread[t].batch
             rest == Tail(b)
             r == [thread[t] EXCEPT !.at = IF rest = <<>> THEN "polling" ELSE "recording", !.batch = rest]
  <1>1. b # <<>> /\ thread[t].at = "acking" /\ b \in Seq(StreamEntry) /\ thread[t] \in ThreadState
    BY ThreadFields DEF Ack, Dispatching, TypeOK
  <1>2. /\ rest \in Seq(StreamEntry) /\ Len(rest) = Len(b) - 1 /\ Len(b) \in Nat
        /\ \A i \in 1..Len(rest) : rest[i] = b[i + 1]
    BY <1>1, HeadTailProperties, LenProperties
  <1>3. thread' = [thread EXCEPT ![t] = r]
    BY DEF Ack, AfterAck
  <1>4. stream' = stream /\ handled' = handled /\ watches' = watches /\ pending' \subseteq pending
    BY DEF Ack
  <1> HIDE DEF rest
  <1>5. /\ \A u \in Thread : u # t => thread'[u] = thread[u]
        /\ thread'[t].batch = rest
        /\ thread'[t].at = IF rest = <<>> THEN "polling" ELSE "recording"
    BY <1>1, <1>3 DEF TypeOK, ThreadState
  <1>6. \A u \in Thread : u # t => Position(u)' = Position(u) /\ \A i : Carried(u, i)' = Carried(u, i)
    BY <1>5 DEF Position, Carried
  <1>7. \A i \in Position(t)' : i \in Nat /\ i >= 1 /\ i + 1 \in Position(t) /\ Carried(t, i)' = Carried(t, i + 1)
    <2> SUFFICES ASSUME NEW i \in Position(t)'
                 PROVE  i \in Nat /\ i >= 1 /\ i + 1 \in Position(t) /\ Carried(t, i)' = Carried(t, i + 1)
      OBVIOUS
    <2>1. i \in 1..Len(rest)
      BY <1>5 DEF Position
    <2>2. i \in Nat /\ i >= 1 /\ i + 1 \in 1..Len(b)
      BY <2>1, <1>2
    <2>3. Carried(t, i)' = rest[i].number
      BY <1>5 DEF Carried
    <2> QED BY <2>1, <2>2, <2>3, <1>2 DEF Position, Carried
  <1>8. 1 \in Position(t) /\ handled[Carried(t, 1)] = 1
    BY <1>1, EntryFacts DEF HandledInTurn
  <1>10. Dispatching'
    <2> SUFFICES ASSUME NEW u \in Thread
                 PROVE  /\ thread'[u].at \in {"polling", "ended"} => thread'[u].batch = <<>>
                        /\ thread'[u].at \in {"recording", "handling", "completed", "failed", "acking"}
                               => thread'[u].batch # <<>>
                        /\ watches'[u] = Nothing => thread'[u] = Ended
      BY DEF Dispatching
    <2>1. CASE u # t
      BY <2>1, <1>4, <1>5 DEF Dispatching
    <2>2. CASE u = t
      <3>1. watches[t] # Nothing
        BY <1>1 DEF Dispatching, Ended
      <3> QED BY <2>2, <3>1, <1>4, <1>5
    <2> QED BY <2>1, <2>2
  <1>11. CarriedOnce'
    <2> SUFFICES ASSUME NEW u \in Thread, NEW v \in Thread, NEW i \in Position(u)', NEW j \in Position(v)',
                        Carried(u, i)' = Carried(v, j)'
                 PROVE  u = v /\ i = j
      BY DEF CarriedOnce
    <2> DEFINE i0 == IF u = t THEN i + 1 ELSE i
               j0 == IF v = t THEN j + 1 ELSE j
    <2>1. i0 \in Position(u) /\ Carried(u, i)' = Carried(u, i0)
      BY <1>6, <1>7
    <2>2. j0 \in Position(v) /\ Carried(v, j)' = Carried(v, j0)
      BY <1>6, <1>7
    <2>3. u = v /\ i0 = j0
      <3> HIDE DEF i0, j0
      <3> QED BY <2>1, <2>2 DEF CarriedOnce
    <2>4. CASE u = t
      BY <2>3, <2>4, <1>7
    <2>5. CASE u # t
      BY <2>3, <2>5
    <2> QED BY <2>4, <2>5
  <1>12. CarriedBehind'
    <2> SUFFICES ASSUME NEW u \in Thread, NEW i \in Position(u)'  PROVE (Behind(Carried(u, i)))'
      BY DEF CarriedBehind
    <2>1. \E i0 \in Position(u) : Carried(u, i)' = Carried(u, i0)
      BY <1>6, <1>7
    <2>2. PICK i0 \in Position(u) : Carried(u, i)' = Carried(u, i0)
      BY <2>1
    <2>3. Behind(Carried(u, i0))
      BY DEF CarriedBehind
    <2> QED BY <2>2, <2>3, <1>4 DEF Behind, Base
  <1>13. HandledBehind'
    BY <1>4 DEF HandledBehind, Behind, Base
  <1>14. HandledInTurn'
    <2> SUFFICES ASSUME NEW u \in Thread, NEW i \in Position(u)'
                 PROVE  /\ (thread'[u].at # "crashed" /\ i > 1) => handled[Carried(u, i)'] = 0
                        /\ thread'[u].at \in {"recording", "handling"} => handled[Carried(u, i)'] = 0
                        /\ (thread'[u].at \in {"completed", "failed", "acking"} /\ i = 1) => handled[Carried(u, i)'] = 1
      BY <1>4 DEF HandledInTurn
    <2>1. CASE u # t
      BY <2>1, <1>5, <1>6 DEF HandledInTurn
    <2>2. CASE u = t
      <3>1. Carried(t, i)' = Carried(t, i + 1) /\ i + 1 \in Position(t) /\ i + 1 > 1
        BY <2>2, <1>7
      <3>2. handled[Carried(t, i + 1)] = 0
        BY <3>1, <1>1 DEF HandledInTurn
      <3>3. thread'[t].at \in {"polling", "recording"}
        BY <1>5
      <3> QED BY <2>2, <3>1, <3>2, <3>3
    <2> QED BY <2>1, <2>2
  <1>15. PendingBehind'
    BY <1>4 DEF PendingBehind, Behind, Base
  <1>16. ReadIsHandled'
    <2> SUFFICES ASSUME NEW n \in pending' \ stream.lost, handled[n] # 1  PROVE Holding(n)' # {}
      BY <1>4 DEF ReadIsHandled, Holding
    <2>1. PICK u \in Thread : \E i \in Position(u) : Carried(u, i) = n
      BY <1>4 DEF ReadIsHandled, Holding, Position, Carried
    <2>2. PICK i \in Position(u) : Carried(u, i) = n
      BY <2>1
    <2>3. \E k \in Position(u)' : Carried(u, k)' = n
      <3>1. CASE u # t
        BY <3>1, <2>2, <1>6
      <3>2. CASE u = t
        <4>1. i # 1 /\ i \in 1..Len(b)
          BY <3>2, <2>2, <1>8 DEF Position
        <4>2. i - 1 \in 1..Len(rest)
          BY <4>1, <1>2
        <4>3. rest[i - 1] = b[i - 1 + 1] /\ i - 1 + 1 = i
          BY <4>1, <4>2, <1>2
        <4>4. i - 1 \in Position(t)' /\ Carried(t, i - 1)' = rest[i - 1].number
          BY <4>2, <1>5 DEF Position, Carried
        <4> QED BY <3>2, <2>2, <4>3, <4>4 DEF Carried
      <3> QED BY <3>1, <3>2
    <2> QED BY <2>3 DEF Holding, Position, Carried
  <1> QED BY <1>10, <1>11, <1>12, <1>13, <1>14, <1>15, <1>16

(* An answered poll gives the thread entries that lay ahead of the mark: nobody carries or has handled them. *)
LEMMA PollDelivered ==
    ASSUME Bounds, TypeOK, TypeOK', Numbered, Delivered, Numbered', \A n : Behind(n) => Behind(n)',
           NEW t \in Thread, Poll(t)
    PROVE  Delivered'
  <1> USE DEF Delivered
  <1> DEFINE s == IF thread[t].missing THEN EnsureGroup(stream) ELSE stream
             b == Batch(s)
  <1>1. thread[t].at = "polling" /\ thread[t].batch = <<>> /\ watches[t] # Nothing /\ thread[t] \in ThreadState
    BY DEF Poll, Polls, Dispatching, Ended, TypeOK
  <1>2. handled' = handled /\ watches' = watches
    BY DEF Poll
  <1>3. /\ s \in StreamState
        /\ s.entries = stream.entries /\ s.last = stream.last /\ s.next = stream.next /\ s.lost = stream.lost
        /\ b \in Seq(StreamEntry)
        /\ \E c \in Nat :
             /\ c >= stream.last /\ c >= Base /\ c + Len(b) < stream.next
             /\ \A i \in 1..Len(b) : b[i].number = c + i
    BY PollFacts
  <1>4. CASE ~s.group
    <2>1. thread' = [thread EXCEPT ![t].missing = TRUE] /\ stream' = stream /\ pending' = pending
      BY <1>4 DEF Poll
    <2>2. /\ \A u \in Thread : u # t => thread'[u] = thread[u] /\ watches'[u] = watches[u]
          /\ thread'[t].batch = thread[t].batch /\ thread'[t].at = "polling"
      BY <1>1, <1>2, <2>1 DEF TypeOK, ThreadState
    <2> QED BY <1>1, <1>2, <2>1, <2>2, BatchKept
  <1>5. CASE s.group /\ b = <<>>
    <2>1. /\ stream' = s /\ pending' = pending \cup {b[i].number : i \in 1..Len(b)}
          /\ thread' = [thread EXCEPT ![t] = [at |-> "polling", batch |-> <<>>, missing |-> FALSE]]
      BY <1>5 DEF Poll
    <2>2. /\ \A u \in Thread : u # t => thread'[u] = thread[u] /\ watches'[u] = watches[u]
          /\ thread'[t].batch = thread[t].batch /\ thread'[t].at = "polling"
      BY <1>1, <1>2, <2>1 DEF TypeOK, ThreadState
    <2>3. pending' = pending
      <3>1. 1..Len(b) = {}
        BY <1>5, EmptySeq
      <3> QED BY <2>1, <3>1
    <2>4. stream'.lost = stream.lost
      BY <2>1, <1>3
    <2> QED BY <1>1, <1>2, <2>2, <2>3, <2>4, BatchKept
  <1>6. CASE s.group /\ b # <<>>
    <2>1. /\ stream' = [s EXCEPT !.last = b[Len(b)].number]
          /\ pending' = pending \cup {b[i].number : i \in 1..Len(b)}
          /\ thread' = [thread EXCEPT ![t] = [at |-> "recording", batch |-> b, missing |-> FALSE]]
      BY <1>6 DEF Poll
    <2> HIDE DEF s, b
    <2>a. PICK a : a = b
      OBVIOUS
    <2>2. PICK c \in Nat :
             /\ c >= stream.last /\ c >= Base /\ c + Len(a) < stream.next
             /\ \A i \in 1..Len(a) : a[i].number = c + i
      BY <1>3, <2>a
    <2>3. Len(a) \in Nat /\ Len(a) > 0 /\ a[Len(a)].number = c + Len(a)
      BY <1>3, <1>6, <2>a, <2>2, LastOfBatch
    <2>4. stream'.last = c + Len(a) /\ stream'.next = stream.next /\ stream'.lost = stream.lost
      BY <1>3, <2>1, <2>a, <2>3 DEF StreamState
    <2>5. /\ \A u \in Thread : u # t => thread'[u] = thread[u]
          /\ thread'[t].batch = a /\ thread'[t].at = "recording"
      BY <2>1, <2>a DEF TypeOK
    <2>n. stream.last \in Nat /\ stream.next \in Nat /\ Base \in Int
      <3>1. stream.entries \in Seq(StreamEntry) /\ stream.last \in Nat /\ stream.next \in Nat
        BY StreamFields DEF TypeOK
      <3>2. Len(stream.entries) \in Nat
        BY <3>1, LenProperties
      <3> QED BY <3>1, <3>2 DEF Base
    <2>6. \A n : Behind(n) => n \in Nat /\ n <= c
      BY <2>2, <2>n DEF Behind
    <2>7. \A i \in 1..Len(a) : Behind(a[i].number)' /\ ~Behind(a[i].number) /\ a[i].number \in 1..Len(handled)
      <3> SUFFICES ASSUME NEW i \in 1..Len(a)
                   PROVE  Behind(a[i].number)' /\ ~Behind(a[i].number) /\ a[i].number \in 1..Len(handled)
        OBVIOUS
      <3>1. a[i].number = c + i /\ i \in Nat /\ i >= 1 /\ i <= Len(a)
        BY <2>2, <2>3
      <3>2. c + i \in 1..(stream'.next - 1) /\ c + i <= stream'.last /\ ~(c + i <= c)
        BY <3>1, <2>2, <2>3, <2>4, <2>n
      <3>3. Behind(a[i].number)'
        BY <3>1, <3>2 DEF Behind
      <3>4. ~Behind(a[i].number)
        BY <3>1, <3>2, <2>6
      <3> QED BY <3>1, <3>2, <3>3, <3>4, <2>4 DEF Numbered
    <2>8. /\ \A u \in Thread : u # t => Position(u)' = Position(u) /\ \A i : Carried(u, i)' = Carried(u, i)
          /\ Position(t)' = 1..Len(a) /\ \A i : Carried(t, i)' = a[i].number
      BY <2>5 DEF Position, Carried
    <2>10. Dispatching'
      <3> SUFFICES ASSUME NEW u \in Thread
                   PROVE  /\ thread'[u].at \in {"polling", "ended"} => thread'[u].batch = <<>>
                          /\ thread'[u].at \in {"recording", "handling", "completed", "failed", "acking"}
                                 => thread'[u].batch # <<>>
                          /\ watches'[u] = Nothing => thread'[u] = Ended
        BY DEF Dispatching
      <3>1. CASE u # t
        BY <3>1, <2>5, <1>2 DEF Dispatching
      <3>2. CASE u = t
        BY <3>2, <2>5, <1>1, <1>2, <1>6, <2>a
      <3> QED BY <3>1, <3>2
    <2>11. CarriedOnce'
      <3> SUFFICES ASSUME NEW u \in Thread, NEW v \in Thread, NEW i \in Position(u)', NEW j \in Position(v)',
                          Carried(u, i)' = Carried(v, j)'
                   PROVE  u = v /\ i = j
        BY DEF CarriedOnce
      <3>1. CASE u = t /\ v = t
        <4>1. i \in 1..Len(a) /\ j \in 1..Len(a) /\ a[i].number = a[j].number
          BY <3>1, <2>8
        <4>2. c + i = c + j
          BY <4>1, <2>2
        <4> QED BY <3>1, <4>1, <4>2, <2>2, <2>3
      <3>2. CASE u = t /\ v # t
        <4>1. i \in 1..Len(a) /\ j \in Position(v) /\ a[i].number = Carried(v, j)
          BY <3>2, <2>8
        <4> QED BY <4>1, <2>7 DEF CarriedBehind
      <3>3. CASE u # t /\ v = t
        <4>1. j \in 1..Len(a) /\ i \in Position(u) /\ a[j].number = Carried(u, i)
          BY <3>3, <2>8
        <4> QED BY <4>1, <2>7 DEF CarriedBehind
      <3>4. CASE u # t /\ v # t
        BY <3>4, <2>8 DEF CarriedOnce
      <3> QED BY <3>1, <3>2, <3>3, <3>4
    <2>12. CarriedBehind'
      <3> SUFFICES ASSUME NEW u \in Thread, NEW i \in Position(u)'  PROVE (Behind(Carried(u, i)))'
        BY DEF CarriedBehind
      <3>1. PICK n : n = Carried(u, i)'
        OBVIOUS
      <3>2. Behind(n)'
        <4>1. CASE u = t
          BY <4>1, <3>1, <2>7, <2>8
        <4>2. CASE u # t
          BY <4>2, <3>1, <2>8 DEF CarriedBehind
        <4> QED BY <4>1, <4>2
      <3> QED BY <3>1, <3>2 DEF Behind
    <2>13. HandledBehind'
      <3> SUFFICES ASSUME NEW n \in 1..Len(handled)  PROVE handled[n] <= 1 /\ (handled[n] # 0 => Behind(n)')
        BY <1>2 DEF HandledBehind, Behind
      <3> QED BY DEF HandledBehind
    <2>14. HandledInTurn'
      <3> SUFFICES ASSUME NEW u \in Thread, NEW i \in Position(u)'
                   PROVE  /\ (thread'[u].at # "crashed" /\ i > 1) => handled[Carried(u, i)'] = 0
                          /\ thread'[u].at \in {"recording", "handling"} => handled[Carried(u, i)'] = 0
                          /\ (thread'[u].at \in {"completed", "failed", "acking"} /\ i = 1)
                                 => handled[Carried(u, i)'] = 1
        BY <1>2 DEF HandledInTurn
      <3>1. CASE u # t
        BY <3>1, <2>5, <2>8 DEF HandledInTurn
      <3>2. CASE u = t
        <4>1. i \in 1..Len(a) /\ Carried(u, i)' = a[i].number
          BY <3>2, <2>8
        <4>2. handled[a[i].number] = 0
          BY <4>1, <2>7 DEF HandledBehind
        <4> QED BY <3>2, <4>1, <4>2, <2>5
      <3> QED BY <3>1, <3>2
    <2>15. PendingBehind'
      <3> SUFFICES ASSUME NEW n \in pending'  PROVE Behind(n)'
        BY DEF PendingBehind, Behind
      <3> QED BY <2>1, <2>a, <2>7 DEF PendingBehind
    <2>16. ReadIsHandled'
      <3> SUFFICES ASSUME NEW n \in pending' \ stream.lost  PROVE handled[n] = 1 \/ Holding(n)' # {}
        BY <1>2, <2>4 DEF ReadIsHandled, Holding
      <3>1. CASE n \in pending
        <4>1. handled[n] = 1 \/ \E u \in Thread : \E i \in Position(u) : Carried(u, i) = n
          BY <3>1 DEF ReadIsHandled, Holding, Position, Carried
        <4>2. ASSUME NEW u \in Thread, NEW i \in Position(u), Carried(u, i) = n  PROVE Holding(n)' # {}
          <5>1. u # t
            BY <1>1, EmptySeq DEF Position
          <5>2. i \in Position(u)' /\ Carried(u, i)' = n
            BY <5>1, <4>2, <2>8
          <5> QED BY <5>2 DEF Holding, Position, Carried
        <4> QED BY <4>1, <4>2
      <3>2. CASE n \notin pending
        <4>1. \E i \in Position(t)' : Carried(t, i)' = n
          BY <3>2, <2>1, <2>a, <2>8
        <4> QED BY <4>1 DEF Holding, Position, Carried
      <3> QED BY <3>1, <3>2
    <2> QED BY <2>10, <2>11, <2>12, <2>13, <2>14, <2>15, <2>16
  <1> QED BY <1>4, <1>5, <1>6

(* An answer that is lost counts as delivered to the server: its numbers are recorded as lost. *)
LEMMA PollFailsDelivered ==
    ASSUME Bounds, TypeOK, TypeOK', Numbered, Delivered, Numbered', \A n : Behind(n) => Behind(n)',
           NEW t \in Thread, PollFails(t)
    PROVE  Delivered'
  <1> DEFINE b == Batch(stream)
             numbers == {b[i].number : i \in 1..Len(b)}
  <1>1. thread[t].at = "polling" /\ thread[t].batch = <<>> /\ watches[t] # Nothing /\ thread[t] \in ThreadState
    BY DEF PollFails, Polls, Delivered, Dispatching, Ended, TypeOK
  <1>2. handled' = handled /\ watches' = watches
    BY DEF PollFails
  <1>3. thread' = [thread EXCEPT ![t].missing = FALSE]
    BY DEF PollFails
  <1>4. /\ \A u \in Thread : u # t => thread'[u] = thread[u] /\ watches'[u] = watches[u]
        /\ thread'[t].batch = thread[t].batch /\ thread'[t].at = "polling"
    BY <1>1, <1>2, <1>3 DEF TypeOK, ThreadState
  <1>5. CASE stream' = stream /\ pending' = pending
    BY <1>1, <1>2, <1>4, <1>5, BatchKept
  <1>6. CASE /\ b # <<>>
             /\ stream' = [stream EXCEPT !.last = b[Len(b)].number, !.lost = @ \cup numbers]
             /\ pending' = pending \cup numbers
    <2>1. /\ b \in Seq(StreamEntry)
          /\ \E c \in Nat :
               /\ c >= stream.last /\ c >= Base /\ c + Len(b) < stream.next
               /\ \A i \in 1..Len(b) : b[i].number = c + i
      BY PollFacts
    <2> HIDE DEF b
    <2>2. PICK c \in Nat :
               /\ c >= stream.last /\ c >= Base /\ c + Len(b) < stream.next
               /\ \A i \in 1..Len(b) : b[i].number = c + i
      BY <2>1
    <2>3. Len(b) \in Nat /\ Len(b) > 0 /\ b[Len(b)].number = c + Len(b)
      BY <1>6, <2>1, <2>2, LastOfBatch
    <2>4. \A n \in numbers : n \in Nat /\ n >= 1 /\ n <= c + Len(b)
      BY <2>2, <2>3
    <2> HIDE DEF numbers
    <2>5. stream \in StreamState /\ stream.next \in Nat
      BY StreamFields DEF TypeOK
    <2>6. stream'.last = c + Len(b) /\ stream'.next = stream.next /\ stream'.lost = stream.lost \cup numbers
      BY <1>6, <2>3, <2>5 DEF StreamState
    <2>7. \A n \in pending' : n \in pending \/ Behind(n)'
      <3> SUFFICES ASSUME NEW n \in pending', n \notin pending  PROVE Behind(n)'
        OBVIOUS
      <3>1. n \in numbers
        BY <1>6
      <3>2. n \in Nat /\ n >= 1 /\ n <= c + Len(b)
        BY <3>1, <2>4
      <3>3. n \in 1..(stream'.next - 1) /\ n <= stream'.last
        BY <3>2, <2>2, <2>3, <2>5, <2>6
      <3> QED BY <3>3 DEF Behind
    <2>8. \A n \in pending' \ stream'.lost : n \in pending \ stream.lost
      BY <1>6, <2>6
    <2> QED BY <1>1, <1>2, <1>4, <2>7, <2>8, BatchKept
  <1> QED BY <1>5, <1>6 DEF PollFails

(* Every step keeps what is carried and handled. *)
LEMMA DeliveredStep ==
    ASSUME Bounds, DeliveryInv, TypeOK', Numbered', \A n : Behind(n) => Behind(n)', [Next]_busVars
    PROVE  Delivered'
  <1> USE DEF DeliveryInv
  <1>d. Dispatching
    BY DEF Delivered
  <1>1. ASSUME thread' = thread, watches' = watches, pending' = pending, stream' = stream, handled' = handled
        PROVE  Delivered'
    BY <1>1, ThreadsIdle
  <1>2. ASSUME AddEntry  PROVE Delivered'
    <2>1. thread' = thread /\ watches' = watches /\ pending' = pending
      BY <1>2 DEF AddEntry
    <2>2. stream'.lost = stream.lost
      BY <1>2 DEF AddEntry, TypeOK, StreamState
    <2>3. handled' = handled \/ handled' = Append(handled, 0)
      BY <1>2 DEF AddEntry
    <2>4. /\ Len(handled) \in Nat /\ Len(Append(handled, 0)) = Len(handled) + 1
          /\ \A n \in 1..Len(handled) : Append(handled, 0)[n] = handled[n]
          /\ Append(handled, 0)[Len(handled) + 1] = 0
      BY DEF TypeOK
    <2>5. /\ \A n \in 1..Len(handled) : handled'[n] = handled[n]
          /\ \A n \in 1..Len(handled') : n \in 1..Len(handled) \/ handled'[n] = 0
      BY <2>3, <2>4
    <2> QED BY <2>1, <2>2, <2>5, ThreadsIdle
  <1>3. ASSUME Flush  PROVE Delivered'
    <2>1. thread' = thread /\ watches' = watches /\ pending' = {} /\ handled' = handled
      BY <1>3 DEF Flush
    <2>2. stream'.lost = stream.lost
      BY <1>3 DEF Flush, TypeOK, StreamState
    <2> QED BY <2>1, <2>2, ThreadsIdle
  <1>4. ASSUME NEW p \in Process, Start(p)  PROVE Delivered'
    <2>1. PICK t \in Thread :
            /\ watches[t] = Nothing
            /\ \/ /\ stream' = EnsureGroup(stream)
                  /\ watches' = [watches EXCEPT ![t] = t]
                  /\ thread' = [thread EXCEPT ![t] = [at |-> "polling", batch |-> <<>>, missing |-> FALSE]]
               \/ UNCHANGED <<stream, watches, thread>>
      <3>1. PICK t \in Thread :
            /\ \A u \in Thread : watches[u] = Nothing <=> u >= t
            /\ \/ /\ stream' = EnsureGroup(stream)
                  /\ watches' = [watches EXCEPT ![t] = t]
                  /\ thread' = [thread EXCEPT ![t] = [at |-> "polling", batch |-> <<>>, missing |-> FALSE]]
               \/ UNCHANGED <<stream, watches, thread>>
        BY <1>4 DEF Start, FreshEvent
      <3>2. t >= t
        BY DEF Thread
      <3> QED BY <3>1, <3>2
    <2>2. handled' = handled /\ pending' = pending
      BY <1>4 DEF Start
    <2>3. CASE UNCHANGED <<stream, watches, thread>>
      BY <1>1, <2>2, <2>3
    <2>4. CASE /\ stream' = EnsureGroup(stream)
               /\ watches' = [watches EXCEPT ![t] = t]
               /\ thread' = [thread EXCEPT ![t] = [at |-> "polling", batch |-> <<>>, missing |-> FALSE]]
      <3>1. stream'.lost = stream.lost
        BY <2>4, EnsureGroupFacts DEF Numbered, TypeOK
      <3>2. thread[t].batch = <<>>
        BY <2>1, <1>d DEF Dispatching, Ended
      <3>3. /\ \A u \in Thread : u # t => thread'[u] = thread[u] /\ watches'[u] = watches[u]
            /\ thread'[t].batch = thread[t].batch /\ thread'[t].at = "polling"
        BY <2>4, <3>2 DEF TypeOK
      <3>4. watches'[t] # Nothing
        <4>1. watches'[t] = t /\ t \in Nat
          BY <2>4 DEF TypeOK, Thread
        <4> QED BY <4>1 DEF Bounds
      <3> QED BY <2>2, <3>1, <3>2, <3>3, <3>4, BatchKept
    <2> QED BY <2>1, <2>3, <2>4
  <1>5. ASSUME NEW t \in Thread, End(t)  PROVE Delivered'
    <2>1. thread[t].batch = <<>>
      BY <1>5, <1>d DEF End, Dispatching
    <2>2. /\ \A u \in Thread : u # t => thread'[u] = thread[u] /\ watches'[u] = watches[u]
          /\ thread'[t] = Ended /\ thread'[t].batch = thread[t].batch /\ thread'[t].at = "ended"
      BY <1>5, <2>1 DEF End, Ended, TypeOK
    <2>3. handled' = handled /\ pending' = pending /\ stream' = stream
      BY <1>5 DEF End
    <2> QED BY <2>1, <2>2, <2>3, BatchKept
  <1>6. ASSUME NEW t \in Thread, MarkProcessing(t) \/ MarkFinished(t) \/ Crash(t)  PROVE Delivered'
    <2>1. handled' = handled /\ pending' = pending /\ stream' = stream /\ watches' = watches
      BY <1>6 DEF MarkProcessing, MarkFinished, Crash
    <2>2. PICK at \in Place :
            /\ thread' = [thread EXCEPT ![t].at = at]
            /\ \/ thread[t].at = "recording" /\ at = "handling"
               \/ thread[t].at \in {"completed", "failed"} /\ at = "acking"
               \/ at = "crashed"
      BY <1>6 DEF MarkProcessing, MarkFinished, Crash, At, Place
    <2>3. /\ \A u \in Thread : u # t => thread'[u] = thread[u] /\ watches'[u] = watches[u]
          /\ thread'[t].batch = thread[t].batch /\ thread'[t].at = at
      BY <2>1, <2>2 DEF TypeOK, ThreadState
    <2>4. watches'[t] # Nothing
      <3>1. CASE MarkProcessing(t) \/ MarkFinished(t)
        BY <3>1, <2>1, <1>d DEF MarkProcessing, MarkFinished, Dispatching, Ended
      <3>2. CASE Crash(t)
        <4>1. t # Nothing
          BY DEF Bounds, Thread
        <4>2. watches[t] = t
          BY <3>2, <4>1 DEF Crash, Watching
        <4> QED BY <4>1, <4>2, <2>1
      <3> QED BY <3>1, <3>2, <1>6
    <2> QED BY <2>1, <2>2, <2>3, <2>4, BatchKept
  <1>7. ASSUME NEW t \in Thread, Poll(t) \/ PollFails(t) \/ CallHandlers(t) \/ Ack(t)  PROVE Delivered'
    BY <1>7, PollDelivered, PollFailsDelivered, CallHandlersDelivered, AckDelivered
  <1>8. ASSUME NEW p \in Process, Stop(p)  PROVE Delivered'
    BY <1>8, <1>1 DEF Stop
  <1>9. ASSUME NEW result, PublishInline(result)  PROVE Delivered'
    BY <1>9, <1>1 DEF PublishInline
  <1>10. ASSUME RecordPublished \/ RecordQueued \/ UNCHANGED busVars  PROVE Delivered'
    BY <1>10, <1>1 DEF RecordPublished, RecordQueued, busVars
  <1> QED BY <1>2, <1>3, <1>4, <1>5, <1>6, <1>7, <1>8, <1>9, <1>10 DEF Next

(* A thread gets a stop event of its own, and none but its bus is told of it. *)
LEMMA WatchingStep ==
    ASSUME Bounds, TypeOK, Watching, [Next]_busVars
    PROVE  Watching'
  <1> USE DEF Watching, TypeOK
  <1>1. ASSUME watches' = watches, consumer' = consumer  PROVE Watching'
    BY <1>1
  <1>2. ASSUME NEW p \in Process, Start(p)  PROVE Watching'
    <2>1. PICK t \in Thread :
            \/ consumer' = [consumer EXCEPT ![p] = t] /\ watches' = [watches EXCEPT ![t] = t]
            \/ UNCHANGED <<consumer, watches>>
      BY <1>2 DEF Start, FreshEvent
    <2> QED BY <2>1
  <1>3. ASSUME NEW p \in Process, Stop(p)  PROVE Watching'
    BY <1>3 DEF Stop
  <1>4. ASSUME NEW t \in Thread, Crash(t)  PROVE Watching'
    BY <1>4 DEF Crash
  <1>5. ASSUME NEW t \in Thread, End(t) \/ Poll(t) \/ PollFails(t) \/ MarkProcessing(t) \/ CallHandlers(t)
                                 \/ MarkFinished(t) \/ Ack(t)
        PROVE  Watching'
    BY <1>5, <1>1 DEF End, Poll, PollFails, MarkProcessing, CallHandlers, MarkFinished, Ack
  <1>6. ASSUME NEW result, PublishInline(result)  PROVE Watching'
    BY <1>6, <1>1 DEF PublishInline
  <1>7. ASSUME RecordPublished \/ AddEntry \/ RecordQueued \/ Flush \/ UNCHANGED busVars  PROVE Watching'
    BY <1>7, <1>1 DEF RecordPublished, AddEntry, RecordQueued, Flush, busVars
  <1> QED BY <1>2, <1>3, <1>4, <1>5, <1>6, <1>7 DEF Next

(* The strengthening holds of every reachable state. *)
THEOREM DeliveryInvariant ==
    ASSUME Bounds
    PROVE  Spec => []DeliveryInv
  <1>1. Init => DeliveryInv
    <2> SUFFICES ASSUME Init  PROVE DeliveryInv
      OBVIOUS
    <2>1. stream = [entries |-> <<>>, group |-> FALSE, last |-> 0, next |-> 1, lost |-> {}] /\ stream \in StreamState
      <3>1. stream = [entries |-> <<>>, group |-> FALSE, last |-> 0, next |-> 1, lost |-> {}]
        BY DEF Init, Started
      <3>2. <<>> \in Seq(StreamEntry) /\ 1 \in Nat \ {0} /\ {} \subseteq Nat
        BY EmptySeq
      <3> QED BY <3>1, <3>2 DEF StreamState
    <2>2. Ended \in ThreadState /\ Ended.batch = <<>> /\ Ended.at = "ended"
      BY EmptySeq DEF Ended, ThreadState, Place
    <2>3. handled = <<>> /\ handled \in Seq(Nat) /\ Len(handled) = 0
      BY EmptySeq DEF Init, Started
    <2>4. TypeOK
      <3>1. outbound \in Seq(Event)
        BY DEF Init, Bounds
      <3>2. rows \in Log
        BY DEF Init, Started, Log
      <3> QED BY <2>1, <2>2, <2>3, <3>1, <3>2 DEF Init, Started, TypeOK
    <2>5. Len(stream.entries) = 0 /\ stream.next = 1 /\ stream.last = 0
      BY <2>1, EmptySeq
    <2>6. Numbered
      BY <2>3, <2>5 DEF Numbered
    <2>7. Watching
      BY DEF Watching, Init, Started
    <2>8. \A t \in Thread : thread[t] = Ended /\ Position(t) = {}
      <3>1. \A t \in Thread : thread[t] = Ended
        BY DEF Init, Started
      <3>2. \A t \in Thread : Len(thread[t].batch) = 0
        BY <3>1, <2>2, EmptySeq
      <3> QED BY <3>1, <3>2 DEF Position
    <2>9. pending = {}
      BY DEF Init, Started
    <2>10. Delivered
      BY <2>2, <2>3, <2>8, <2>9 DEF Delivered, Dispatching, CarriedBehind, CarriedOnce, HandledBehind, HandledInTurn,
         PendingBehind, ReadIsHandled
    <2> QED BY <2>4, <2>6, <2>7, <2>10 DEF DeliveryInv
  <1>2. DeliveryInv /\ [Next]_busVars => DeliveryInv'
    <2> SUFFICES ASSUME DeliveryInv, [Next]_busVars  PROVE DeliveryInv'
      OBVIOUS
    <2> USE DEF DeliveryInv
    <2>1. TypeOK'
      <3>1. CASE UNCHANGED busVars
        BY <3>1 DEF busVars, TypeOK
      <3>2. CASE Next
        BY <3>2, PublishTypes, BusTypes, ConsumerTypes DEF Next, Delivered
      <3> QED BY <3>1, <3>2
    <2>2. Numbered' /\ \A n : Behind(n) => Behind(n)'
      BY MarkStep DEF Delivered
    <2>3. Watching'
      BY WatchingStep
    <2>4. Delivered'
      BY <2>1, <2>2, DeliveredStep
    <2> QED BY <2>1, <2>2, <2>3, <2>4
  <1> QED BY <1>1, <1>2, PTL DEF Spec

(* An entry's handlers are started at most once, and an entry whose read was answered is not forgotten: *)
(* for any number of processes, restarts, lost acknowledgements and flushes, any cap of the stream and   *)
(* any size of a batch (_poll_once, _ensure_group, _dispatch).                                           *)
THEOREM ReadOnceHandledOnce ==
    ASSUME Bounds
    PROVE  Spec => []HandledOnceRead
  <1>1. DeliveryInv => HandledOnceRead
    BY DEF DeliveryInv, Delivered, HandledBehind, HandledOnceRead, HandledAtMostOnce
  <1> QED BY <1>1, DeliveryInvariant, PTL

(* A thread that nobody has told to stop is the one its bus would tell: stop and start again leave no *)
(* second consumer that goes on (start, stop).                                                        *)
THEOREM ConsumerIsAttached ==
    ASSUME Bounds
    PROVE  Spec => []OneConsumer
  <1> DEFINE Inv == DeliveryInv /\ OneConsumer
  <1>1. Init => OneConsumer
    BY DEF Init, Started, OneConsumer, Ended
  <1>2. Inv /\ [Next]_busVars => OneConsumer'
    <2> SUFFICES ASSUME DeliveryInv, OneConsumer, [Next]_busVars, NEW u \in Thread,
                        thread'[u].at \notin {"ended", "crashed"}, watches'[u] \notin signalled'
                 PROVE  \E p \in Process : consumer'[p] = u
      BY DEF OneConsumer
    <2>t. TypeOK /\ Watching
      BY DEF DeliveryInv
    <2> USE DEF TypeOK
    <2>1. ASSUME consumer' = consumer, watches' = watches, signalled' = signalled, thread[u].at \notin {"ended", "crashed"}
          PROVE  \E p \in Process : consumer'[p] = u
      BY <2>1 DEF OneConsumer
    <2>2. ASSUME NEW p \in Process, Start(p)  PROVE \E q \in Process : consumer'[q] = u
      <3>1. CASE UNCHANGED <<consumer, watches, signalled, thread>>
        BY <3>1, <2>1
      <3>2. ASSUME NEW t \in Thread, consumer' = [consumer EXCEPT ![p] = t], watches' = [watches EXCEPT ![t] = t],
                   signalled' = signalled \ {t},
                   thread' = [thread EXCEPT ![t] = [at |-> "polling", batch |-> <<>>, missing |-> FALSE]]
            PROVE  \E q \in Process : consumer'[q] = u
        <4>1. CASE u = t
          BY <4>1, <3>2, <2>t
        <4>2. CASE u # t
          <5>1. watches'[u] = watches[u] /\ thread'[u] = thread[u]
            BY <4>2, <3>2, <2>t
          <5>2. watches[u] \notin signalled
            BY <4>2, <5>1, <3>2, <2>t DEF Watching, Bounds, Thread
          <5>3. PICK q \in Process : consumer[q] = u
            BY <5>1, <5>2 DEF OneConsumer
          <5>4. q # p
            BY <5>3, <2>2 DEF Start, Bounds, Thread
          <5> QED BY <5>3, <5>4, <3>2, <2>t
        <4> QED BY <4>1, <4>2
      <3> QED BY <2>2, <3>1, <3>2 DEF Start, FreshEvent
    <2>3. ASSUME NEW p \in Process, Stop(p)  PROVE \E q \in Process : consumer'[q] = u
      <3>1. watches' = watches /\ thread' = thread /\ signalled' = signalled \cup {watches[consumer[p]]}
            /\ consumer' = [consumer EXCEPT ![p] = Nothing] /\ consumer[p] # Nothing
        BY <2>3 DEF Stop
      <3>2. PICK q \in Process : consumer[q] = u
        BY <3>1 DEF OneConsumer
      <3>3. q # p
        BY <3>1, <3>2
      <3> QED BY <3>1, <3>2, <3>3, <2>t
    <2>4. ASSUME NEW t \in Thread, Crash(t)  PROVE \E q \in Process : consumer'[q] = u
      <3>1. thread' = [thread EXCEPT ![t].at = "crashed"] /\ watches' = watches /\ signalled' = signalled
        BY <2>4 DEF Crash
      <3>2. u # t /\ thread'[u] = thread[u]
        BY <3>1, <2>t DEF ThreadState
      <3>3. PICK q \in Process : consumer[q] = u
        BY <3>1, <3>2 DEF OneConsumer
      <3>4. PICK p \in Process : consumer[p] = t /\ consumer' = [consumer EXCEPT ![p] = Nothing]
        BY <2>4 DEF Crash
      <3> QED BY <3>2, <3>3, <3>4, <2>t
    <2>5. ASSUME NEW t \in Thread, End(t) \/ Poll(t) \/ PollFails(t) \/ MarkProcessing(t) \/ CallHandlers(t)
                                   \/ MarkFinished(t) \/ Ack(t)
          PROVE  \E q \in Process : consumer'[q] = u
      <3>1. consumer' = consumer /\ watches' = watches /\ signalled' = signalled
        BY <2>5 DEF End, Poll, PollFails, MarkProcessing, CallHandlers, MarkFinished, Ack
      <3>2. u # t => thread'[u] = thread[u]
        BY <2>5, <2>t DEF End, Poll, PollFails, MarkProcessing, CallHandlers, MarkFinished, Ack, At
      <3>3. thread[t].at \notin {"ended", "crashed"}
        BY <2>5 DEF End, Poll, PollFails, Polls, MarkProcessing, CallHandlers, MarkFinished, Ack
      <3> QED BY <2>1, <3>1, <3>2, <3>3
    <2>6. ASSUME NEW result, PublishInline(result)  PROVE \E q \in Process : consumer'[q] = u
      BY <2>6, <2>1 DEF PublishInline
    <2>7. ASSUME RecordPublished \/ AddEntry \/ RecordQueued \/ Flush \/ UNCHANGED busVars
          PROVE  \E q \in Process : consumer'[q] = u
      BY <2>7, <2>1 DEF RecordPublished, AddEntry, RecordQueued, Flush, busVars
    <2> QED BY <2>2, <2>3, <2>4, <2>5, <2>6, <2>7 DEF Next
  <1> QED BY <1>1, <1>2, DeliveryInvariant, PTL DEF Spec

(***************************************************************************)
(* The event log                                                           *)
(***************************************************************************)
(* A thread about to record a result has called that event's handlers, and they ended so. *)
OutcomeKnown ==
    \A t \in Thread :
        thread[t].at \in {"completed", "failed"} => <<Entry(t).event.id, Entry(t).event.type, thread[t].at>> \in outcomes

(* An insert changes only a missing row. *)
LEMMA InsertedRow ==
    ASSUME Bounds, TypeOK, NEW e \in Event, NEW status \in Status, NEW i \in AllIds
    PROVE  \/ Inserted(e, status)[i] = rows[i]
           \/ i = e.id /\ rows[i] = Nothing /\ Inserted(e, status)[i] = Row(e, status)
  BY EventFields DEF Inserted, TypeOK, Log

(* A mark changes only the status of the row of its event, and of no row that is queued. *)
LEMMA MarkedRow ==
    ASSUME Bounds, TypeOK, NEW e \in Event, NEW status \in Status, NEW i \in AllIds
    PROVE  \/ Marked(e, status)[i] = rows[i]
           \/ /\ i = e.id /\ rows[i] \in LogRow /\ rows[i].status # "queued" /\ rows[i].type = e.type
              /\ Marked(e, status)[i] = [rows[i] EXCEPT !.status = status]
  BY EventFields DEF Marked, BusRow, TypeOK, Log

(* What one step can do to a row: write a missing one, or say what became of its event. *)
LEMMA RowStep ==
    ASSUME Bounds, DeliveryInv, OutcomeKnown, Next, NEW i \in AllIds
    PROVE  \/ rows'[i] = rows[i]
           \/ rows[i] # Nothing /\ rows[i].status # "queued" /\ rows'[i] # Nothing /\ rows'[i].status = "processing"
           \/ rows[i] = Nothing /\ rows'[i] # Nothing /\ rows'[i].status \in {"published", "queued"}
           \/ /\ rows[i] # Nothing => rows[i].status # "queued"
              /\ rows'[i] # Nothing /\ <<i, rows'[i].type, rows'[i].status>> \in outcomes'
  <1>t. TypeOK /\ Dispatching
    BY DEF DeliveryInv, Delivered
  <1>u. outbound # <<>> => Upcoming \in Event
    BY <1>t, HeadTailProperties DEF Upcoming, TypeOK
  <1>n. \A r \in LogRow : r # Nothing
    BY DEF Bounds
  <1>1. ASSUME NEW e \in Event, NEW status \in {"published", "queued"}, Safely(Inserted(e, status))
        PROVE  \/ rows'[i] = rows[i]
               \/ rows[i] = Nothing /\ rows'[i] # Nothing /\ rows'[i].status \in {"published", "queued"}
    <2>1. Row(e, status) \in LogRow /\ Row(e, status).status = status
      BY EventFields DEF Row, LogRow, Status
    <2>2. \/ Inserted(e, status)[i] = rows[i]
          \/ rows[i] = Nothing /\ Inserted(e, status)[i] = Row(e, status)
      BY <1>t, InsertedRow DEF Status
    <2> QED BY <1>1, <1>n, <2>1, <2>2 DEF Safely
  <1>2. ASSUME RecordPublished  PROVE rows'[i] = rows[i] \/ (rows[i] = Nothing /\ rows'[i] # Nothing /\ rows'[i].status \in {"published", "queued"})
    BY <1>2, <1>1, <1>u DEF RecordPublished
  <1>3. ASSUME RecordQueued  PROVE rows'[i] = rows[i] \/ (rows[i] = Nothing /\ rows'[i] # Nothing /\ rows'[i].status \in {"published", "queued"})
    BY <1>3, <1>1, <1>u DEF RecordQueued
  <1>4. ASSUME NEW result \in {"completed", "failed"}, PublishInline(result)
        PROVE  \/ rows'[i] = rows[i]
               \/ rows[i] = Nothing /\ rows'[i] # Nothing /\ rows'[i].status \in {"published", "queued"}
               \/ /\ rows[i] # Nothing => rows[i].status # "queued"
                  /\ rows'[i] # Nothing /\ <<i, rows'[i].type, rows'[i].status>> \in outcomes'
    <2>1. Upcoming \in Event /\ Upcoming.id \in AllIds /\ Upcoming.type \in Types
      BY <1>4, <1>u, EventFields DEF PublishInline
    <2> DEFINE log == Inserted(Upcoming, "published")
               old == log[Upcoming.id]
    <2>2. log \in Log
      BY <1>t, <2>1, LogFacts DEF Status
    <2>3. rows' = [log EXCEPT ![Upcoming.id] =
                      IF old.type = Upcoming.type /\ old.status # "queued" THEN [old EXCEPT !.status = result] ELSE old]
      BY <1>4 DEF PublishInline
    <2>4. <<Upcoming.id, Upcoming.type, result>> \in outcomes'
      BY <1>4 DEF PublishInline
    <2>5. \/ log[i] = rows[i]
          \/ i = Upcoming.id /\ rows[i] = Nothing /\ log[i] = Row(Upcoming, "published")
      BY <1>t, <2>1, InsertedRow DEF Status
    <2>6. rows[Upcoming.id] # Nothing => old = rows[Upcoming.id]
      BY DEF Inserted
    <2>7. rows[Upcoming.id] = Nothing => old = Row(Upcoming, "published")
      BY <1>t, <2>1 DEF Inserted, TypeOK, Log
    <2>8. Row(Upcoming, "published") \in LogRow /\ Row(Upcoming, "published").status = "published"
          /\ Row(Upcoming, "published").type = Upcoming.type
      BY <2>1 DEF Row, LogRow, Status
    <2>9. old \in LogRow
      BY <2>1, <2>6, <2>7, <2>8, <1>t DEF TypeOK, Log
    <2> HIDE DEF log, old
    <2>10. CASE i # Upcoming.id
      <3>1. rows'[i] = log[i]
        BY <2>2, <2>3, <2>10 DEF Log
      <3> QED BY <3>1, <2>5, <2>10
    <2>11. CASE i = Upcoming.id /\ old.type = Upcoming.type /\ old.status # "queued"
      <3>1. rows'[i] = [old EXCEPT !.status = result]
        BY <2>1, <2>2, <2>3, <2>11 DEF Log
      <3>2. [old EXCEPT !.status = result] \in LogRow /\ [old EXCEPT !.status = result].type = old.type
            /\ [old EXCEPT !.status = result].status = result
        BY <2>9 DEF LogRow, Status
      <3>3. rows'[i] # Nothing /\ rows'[i].type = Upcoming.type /\ rows'[i].status = result
        BY <3>1, <3>2, <2>11, <1>n
      <3>4. rows[i] # Nothing => rows[i].status # "queued"
        BY <2>6, <2>11
      <3> QED BY <3>3, <3>4, <2>4, <2>11
    <2>12. CASE i = Upcoming.id /\ ~(old.type = Upcoming.type /\ old.status # "queued")
      <3>1. rows'[i] = old
        BY <2>1, <2>2, <2>3, <2>12 DEF Log
      <3>2. rows[i] # Nothing
        BY <2>7, <2>8, <2>12
      <3> QED BY <3>1, <3>2, <2>6, <2>12
    <2> QED BY <2>10, <2>11, <2>12
  <1>5. ASSUME NEW t \in Thread, MarkProcessing(t)
        PROVE  \/ rows'[i] = rows[i]
               \/ rows[i] # Nothing /\ rows[i].status # "queued" /\ rows'[i] # Nothing /\ rows'[i].status = "processing"
    <2>1. Entry(t).event \in Event
      BY <1>5, <1>t, EntryFacts DEF MarkProcessing, Dispatching
    <2>2. \/ rows'[i] = rows[i]
          \/ rows[i] \in LogRow /\ rows[i].status # "queued" /\ rows'[i] = [rows[i] EXCEPT !.status = "processing"]
      BY <1>5, <1>t, <2>1, MarkedRow DEF MarkProcessing, Safely, Status
    <2>3. rows[i] \in LogRow => /\ [rows[i] EXCEPT !.status = "processing"] \in LogRow
                                /\ [rows[i] EXCEPT !.status = "processing"].status = "processing"
      BY DEF LogRow, Status
    <2> QED BY <2>2, <2>3, <1>n
  <1>6. ASSUME NEW t \in Thread, MarkFinished(t)
        PROVE  \/ rows'[i] = rows[i]
               \/ /\ rows[i] # Nothing => rows[i].status # "queued"
                  /\ rows'[i] # Nothing /\ <<i, rows'[i].type, rows'[i].status>> \in outcomes'
    <2>1. Entry(t).event \in Event
      BY <1>6, <1>t, EntryFacts DEF MarkFinished, Dispatching
    <2>2. thread[t].at \in Status /\ <<Entry(t).event.id, Entry(t).event.type, thread[t].at>> \in outcomes /\ outcomes' = outcomes
      BY <1>6 DEF MarkFinished, Status, OutcomeKnown
    <2>3. PICK at \in Status : at = thread[t].at
      BY <2>2
    <2>4. \/ rows'[i] = rows[i]
          \/ /\ i = Entry(t).event.id /\ rows[i] \in LogRow /\ rows[i].status # "queued"
             /\ rows[i].type = Entry(t).event.type
             /\ rows'[i] = [rows[i] EXCEPT !.status = at]
      BY <1>6, <1>t, <2>1, <2>3, MarkedRow DEF MarkFinished, Safely
    <2>5. rows[i] \in LogRow => /\ [rows[i] EXCEPT !.status = at] \in LogRow
                                /\ [rows[i] EXCEPT !.status = at].type = rows[i].type
                                /\ [rows[i] EXCEPT !.status = at].status = at
      BY DEF LogRow
    <2> QED BY <2>2, <2>3, <2>4, <2>5, <1>n
  <1>7. ASSUME rows' = rows  PROVE rows'[i] = rows[i]
    BY <1>7
  <1> QED
    BY <1>2, <1>3, <1>4, <1>5, <1>6, <1>7 DEF Next, AddEntry, Flush, Start, Stop, End, Poll, PollFails, CallHandlers,
       Ack, Crash

(* A thread says completed or failed only after it has called the handlers, with the result they had. *)
LEMMA OutcomeStep ==
    ASSUME Bounds, DeliveryInv, OutcomeKnown, Next
    PROVE  OutcomeKnown'
  <1>t. TypeOK /\ Dispatching
    BY DEF DeliveryInv, Delivered
  <1> SUFFICES ASSUME NEW u \in Thread, thread'[u].at \in {"completed", "failed"}
               PROVE  <<Entry(u)'.event.id, Entry(u)'.event.type, thread'[u].at>> \in outcomes'
    BY DEF OutcomeKnown
  <1>o. outcomes \subseteq outcomes'
    BY DEF Next, RecordPublished, AddEntry, RecordQueued, Flush, PublishInline, Start, Stop, End, Poll, PollFails,
       MarkProcessing, CallHandlers, MarkFinished, Ack, Crash
  <1>1. ASSUME thread'[u] = thread[u]  PROVE <<Entry(u)'.event.id, Entry(u)'.event.type, thread'[u].at>> \in outcomes'
    BY <1>1, <1>o DEF OutcomeKnown, Entry
  <1>2. ASSUME NEW t \in Thread, CallHandlers(t)  PROVE <<Entry(u)'.event.id, Entry(u)'.event.type, thread'[u].at>> \in outcomes'
    <2>1. u # t => thread'[u] = thread[u]
      BY <1>2, <1>t DEF CallHandlers, At, TypeOK
    <2>0. PICK result \in {"completed", "failed"} :
              outcomes' = outcomes \cup {<<Entry(t).event.id, Entry(t).event.type, result>>} /\ At(t, result)
      BY <1>2 DEF CallHandlers
    <2>2. thread'[t].batch = thread[t].batch /\ thread'[t].at = result
      BY <2>0, <1>t DEF At, TypeOK, ThreadState
    <2>3. <<Entry(t).event.id, Entry(t).event.type, thread'[t].at>> \in outcomes'
      BY <2>0, <2>2
    <2>4. Entry(t)' = Entry(t)
      BY <2>2 DEF Entry
    <2> QED BY <1>1, <2>1, <2>3, <2>4
  <1>3. ASSUME NEW t \in Thread, End(t) \/ Poll(t) \/ PollFails(t) \/ MarkProcessing(t) \/ MarkFinished(t) \/ Ack(t) \/ Crash(t)
        PROVE  thread'[u] = thread[u]
    <2>1. u # t => thread'[u] = thread[u]
      BY <1>3, <1>t DEF End, Poll, PollFails, MarkProcessing, MarkFinished, Ack, Crash, At, TypeOK
    <2>2. thread'[t].at \notin {"completed", "failed"}
      <3>t. thread \in [Thread -> ThreadState] /\ thread[t] \in ThreadState
        BY <1>t DEF TypeOK
      <3>1. CASE End(t)
        BY <3>1, <3>t DEF End, Ended
      <3>2. CASE Poll(t)
        <4>1. thread[t].at = "polling"
          BY <3>2 DEF Poll, Polls
        <4>2. \/ thread' = [thread EXCEPT ![t].missing = TRUE]
              \/ \E b : thread' = [thread EXCEPT ![t] = [at |-> IF b = <<>> THEN "polling" ELSE "recording",
                                                        batch |-> b, missing |-> FALSE]]
          BY <3>2 DEF Poll
        <4> QED BY <4>1, <4>2, <3>t DEF ThreadState
      <3>3. CASE PollFails(t)
        <4>1. thread[t].at = "polling" /\ thread' = [thread EXCEPT ![t].missing = FALSE]
          BY <3>3 DEF PollFails, Polls
        <4> QED BY <4>1, <3>t DEF ThreadState
      <3>4. CASE MarkProcessing(t) \/ MarkFinished(t) \/ Crash(t)
        BY <3>4, <3>t DEF MarkProcessing, MarkFinished, Crash, At, ThreadState
      <3>5. CASE Ack(t)
        BY <3>5, <3>t DEF Ack, ThreadState
      <3> QED BY <1>3, <3>1, <3>2, <3>3, <3>4, <3>5
    <2> QED BY <2>1, <2>2
  <1>4. ASSUME NEW p \in Process, Start(p)  PROVE thread'[u] = thread[u]
    BY <1>4, <1>t DEF Start, TypeOK
  <1>5. ASSUME NEW p \in Process, Stop(p)  PROVE thread'[u] = thread[u]
    BY <1>5 DEF Stop
  <1>6. ASSUME NEW result, PublishInline(result)  PROVE thread'[u] = thread[u]
    BY <1>6 DEF PublishInline
  <1>7. ASSUME RecordPublished \/ AddEntry \/ RecordQueued \/ Flush  PROVE thread'[u] = thread[u]
    BY <1>7 DEF RecordPublished, AddEntry, RecordQueued, Flush
  <1> QED BY <1>1, <1>2, <1>3, <1>4, <1>5, <1>6, <1>7 DEF Next

(* The strengthening of the log. *)
LEMMA TruthInvariant ==
    ASSUME Bounds
    PROVE  Spec => [](DeliveryInv /\ OutcomeKnown /\ RowsTellTheTruth)
  <1>1. Init => OutcomeKnown /\ RowsTellTheTruth
    BY DEF Init, Started, OutcomeKnown, RowsTellTheTruth, Ended
  <1>2. DeliveryInv /\ OutcomeKnown /\ RowsTellTheTruth /\ [Next]_busVars => OutcomeKnown' /\ RowsTellTheTruth'
    <2> SUFFICES ASSUME DeliveryInv, OutcomeKnown, RowsTellTheTruth, [Next]_busVars
                 PROVE  OutcomeKnown' /\ RowsTellTheTruth'
      OBVIOUS
    <2>1. CASE UNCHANGED busVars
      BY <2>1 DEF busVars, OutcomeKnown, RowsTellTheTruth, Entry
    <2>2. CASE Next
      <3>1. OutcomeKnown'
        BY <2>2, OutcomeStep
      <3>2. RowsTellTheTruth'
        <4> SUFFICES ASSUME NEW i \in AllIds, rows'[i] # Nothing, rows'[i].status \in {"completed", "failed"}
                     PROVE  <<i, rows'[i].type, rows'[i].status>> \in outcomes'
          BY DEF RowsTellTheTruth
        <4>o. outcomes \subseteq outcomes'
          BY <2>2 DEF Next, RecordPublished, AddEntry, RecordQueued, Flush, PublishInline, Start, Stop, End, Poll,
             PollFails, MarkProcessing, CallHandlers, MarkFinished, Ack, Crash
        <4>1. rows'[i] = rows[i] \/ <<i, rows'[i].type, rows'[i].status>> \in outcomes'
          BY <2>2, RowStep
        <4> QED BY <4>o, <4>1 DEF RowsTellTheTruth
      <3> QED BY <3>1, <3>2
    <2> QED BY <2>1, <2>2
  <1> QED BY <1>1, <1>2, DeliveryInvariant, PTL DEF Spec

(* A row says completed or failed only of the event and type it was first written for, and only a result that *)
(* its handlers had, whatever ids are reused, whatever writes of the log are lost and however many threads    *)
(* deliver (_bus_row, mark_finished).                                                                         *)
THEOREM LogTellsTheTruth ==
    ASSUME Bounds
    PROVE  Spec => []RowsTellTheTruth
  BY TruthInvariant, PTL

(* The row of a durable event is never rewritten by the bus, whatever is delivered under its id (_bus_row). *)
THEOREM QueuedRowsAreKept ==
    ASSUME Bounds
    PROVE  Spec => [][QueuedIsTerminal]_busVars
  <1>1. DeliveryInv /\ OutcomeKnown /\ [Next]_busVars => [QueuedIsTerminal]_busVars
    <2> SUFFICES ASSUME DeliveryInv, OutcomeKnown, Next, NEW i \in AllIds, rows[i] # Nothing, rows[i].status = "queued"
                 PROVE  rows'[i] = rows[i]
      BY DEF QueuedIsTerminal
    <2> QED BY RowStep
  <1> QED BY <1>1, TruthInvariant, PTL DEF Spec
=============================================================================
