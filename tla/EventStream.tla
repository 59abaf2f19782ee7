---------------------------- MODULE EventStream ----------------------------
(***************************************************************************)
(* The event bus (jasil/backends/events_redis.py, events_inprocess.py) and  *)
(* the event log its deliveries are recorded in (jasil/event_log).         *)
(*                                                                         *)
(* A process has one bus object, whose consumer thread is started and      *)
(* stopped; a stop that times out leaves the old thread running beside the *)
(* next one.  Entries of the stream are numbered as Redis would number     *)
(* them, also across a flush.                                              *)
(***************************************************************************)
EXTENDS Naturals, Sequences, FiniteSets

CONSTANTS
    Process,        \* processes that run a consumer
    Outbound,       \* the events to publish, one sequence per behaviour
    MaxLen,         \* _STREAM_MAXLEN
    ReadBatch,      \* _READ_BATCH
    MaxStarts,      \* bound on the threads started
    MaxTroubles,    \* bound on lost connections, failed writes, flushes and crashes
    Nothing

VARIABLES
    outbound,       \* the events still to be published
    sending,        \* the event between its row and its entry, or Nothing
    stream,         \* the entries, the consumer group, and what it has delivered
    pending,        \* entries read and not acknowledged
    consumer,       \* the thread of each process's bus, or Nothing
    signalled,      \* the threads' stop events that are set
    watches,        \* the stop event each thread watches
    thread,         \* what each thread is doing
    rows,           \* the event log
    handled,        \* how often the handlers were started for each entry
    outcomes,       \* the events whose handlers ran, by id, type and result
    troubles

busVars == <<outbound, sending, stream, pending, consumer, signalled, watches, thread, rows, handled, outcomes, troubles>>

Thread == 1..MaxStarts

Ended == [at |-> "ended", batch |-> <<>>, missing |-> FALSE]

Ids(sequence) == {sequence[i].id : i \in 1..Len(sequence)}

AllIds == UNION {Ids(o) : o \in Outbound}

Started ==
    /\ sending = Nothing
    /\ stream = [entries |-> <<>>, group |-> FALSE, last |-> 0, next |-> 1, lost |-> {}]
    /\ pending = {}
    /\ consumer = [p \in Process |-> Nothing]
    /\ signalled = {} /\ watches = [t \in Thread |-> Nothing]
    /\ thread = [t \in Thread |-> Ended]
    /\ rows = [i \in AllIds |-> Nothing]
    /\ handled = <<>>
    /\ outcomes = {}
    /\ troubles = 0

Init == outbound \in Outbound /\ Started

NoBus == outbound = <<>> /\ Started

Trouble == troubles < MaxTroubles /\ troubles' = troubles + 1

(***************************************************************************)
(* The event log: every write is best-effort                               *)
(***************************************************************************)
Row(e, status) == [type |-> e.type, status |-> status]

(* record_published and record_queued insert; a reused id keeps its first row. *)
Inserted(e, status) ==
    IF rows[e.id] = Nothing THEN [rows EXCEPT ![e.id] = Row(e, status)] ELSE rows

(* Mutant: a row is found by its id, whatever type it was written for. *)
BusRowById(e) == rows[e.id] # Nothing /\ rows[e.id].status # "queued"

(* _bus_row: this event's row, and not one handed to the durable jobs. *)
BusRow(e) ==
    /\ rows[e.id] # Nothing
    /\ rows[e.id].type = e.type
    /\ rows[e.id].status # "queued"

Marked(e, status) == IF BusRow(e) THEN [rows EXCEPT ![e.id].status = status] ELSE rows

Safely(write) ==
    \/ rows' = write /\ UNCHANGED troubles
    \/ UNCHANGED rows /\ Trouble

(***************************************************************************)
(* publish                                                                 *)
(***************************************************************************)
Upcoming == Head(outbound)

RecordPublished ==
    /\ outbound # <<>> /\ sending = Nothing
    /\ Upcoming.route = "stream"
    /\ Safely(Inserted(Upcoming, "published"))
    /\ sending' = Upcoming
    /\ UNCHANGED <<outbound, stream, pending, consumer, signalled, watches, thread, handled, outcomes>>

(* XADD appends and drops the oldest entries past the cap, read or not. *)
Trimmed(entries) ==
    IF Len(entries) > MaxLen THEN SubSeq(entries, Len(entries) - MaxLen + 1, Len(entries)) ELSE entries

AddEntry ==
    /\ sending # Nothing
    /\ \/ /\ stream' = [stream EXCEPT !.entries = Trimmed(Append(@, [number |-> stream.next, event |-> sending])),
                                      !.next = @ + 1]
          /\ handled' = Append(handled, 0)
          /\ UNCHANGED troubles
       \/ Trouble /\ UNCHANGED <<stream, handled>>
    /\ sending' = Nothing
    /\ outbound' = Tail(outbound)
    /\ UNCHANGED <<pending, consumer, signalled, watches, thread, rows, outcomes>>

(* A durable event's row is written beside its outbox row. *)
RecordQueued ==
    /\ outbound # <<>> /\ sending = Nothing
    /\ Upcoming.route = "durable"
    /\ Safely(Inserted(Upcoming, "queued"))
    /\ outbound' = Tail(outbound)
    /\ UNCHANGED <<sending, stream, pending, consumer, signalled, watches, thread, handled, outcomes>>

(* The in-process bus runs the handlers inline and writes no processing row. *)
PublishInline(result) ==
    /\ outbound # <<>> /\ sending = Nothing
    /\ Upcoming.route = "inline"
    /\ rows' = [Inserted(Upcoming, "published") EXCEPT
                   ![Upcoming.id] = IF @.type = Upcoming.type /\ @.status # "queued" THEN [@ EXCEPT !.status = result] ELSE @]
    /\ outcomes' = outcomes \cup {<<Upcoming.id, Upcoming.type, result>>}
    /\ outbound' = Tail(outbound)
    /\ UNCHANGED <<sending, stream, pending, consumer, signalled, watches, thread, handled, troubles>>

(***************************************************************************)
(* start and stop                                                          *)
(***************************************************************************)
(* _ensure_group: a group that exists is left where it is. *)
EnsureGroup(s) == IF s.group THEN s ELSE [s EXCEPT !.group = TRUE, !.last = 0]

(* Mutant: a restart clears the bus's one stop event, which the old thread watches too. *)
SameEvent(p, t) == p

FreshEvent(p, t) == t

Start(p) ==
    /\ consumer[p] = Nothing
    /\ \E t \in Thread :
        /\ \A u \in Thread : watches[u] = Nothing <=> u >= t
        /\ \/ /\ stream' = EnsureGroup(stream)
              /\ consumer' = [consumer EXCEPT ![p] = t]
              /\ watches' = [watches EXCEPT ![t] = FreshEvent(p, t)]
              /\ signalled' = signalled \ {FreshEvent(p, t)}
              /\ thread' = [thread EXCEPT ![t] = [at |-> "polling", batch |-> <<>>, missing |-> FALSE]]
              /\ UNCHANGED troubles
           \/ Trouble /\ UNCHANGED <<stream, consumer, watches, signalled, thread>>
    /\ UNCHANGED <<outbound, sending, pending, rows, handled, outcomes>>

(* The thread is signalled; the join may give up before it has ended. *)
Stop(p) ==
    /\ consumer[p] # Nothing
    /\ signalled' = signalled \cup {watches[consumer[p]]}
    /\ consumer' = [consumer EXCEPT ![p] = Nothing]
    /\ UNCHANGED <<outbound, sending, stream, pending, watches, thread, rows, handled, outcomes, troubles>>

(***************************************************************************)
(* The consumer loop                                                       *)
(***************************************************************************)
End(t) ==
    /\ thread[t].at = "polling" /\ watches[t] \in signalled
    /\ thread' = [thread EXCEPT ![t] = Ended]
    /\ UNCHANGED <<outbound, sending, stream, pending, consumer, signalled, watches, rows, handled, outcomes, troubles>>

(* Mutant: each poll reads what was delivered to the consumer before as well. *)
UnreadFromStart(s) == s.entries

FirstUnread(s) ==
    CHOOSE i \in 1..(Len(s.entries) + 1) : \A j \in 1..Len(s.entries) : s.entries[j].number > s.last <=> j >= i

Unread(s) == SubSeq(s.entries, FirstUnread(s), Len(s.entries))

Batch(s) == LET unread == Unread(s) IN IF Len(unread) > ReadBatch THEN SubSeq(unread, 1, ReadBatch) ELSE unread

Polls(t) == thread[t].at = "polling" /\ watches[t] \notin signalled

Poll(t) ==
    /\ Polls(t)
    /\ LET s == IF thread[t].missing THEN EnsureGroup(stream) ELSE stream
           batch == Batch(s) IN
       IF ~s.group
       THEN thread' = [thread EXCEPT ![t].missing = TRUE] /\ UNCHANGED <<stream, pending>>     \* NOGROUP
       ELSE /\ stream' = IF batch = <<>> THEN s ELSE [s EXCEPT !.last = batch[Len(batch)].number]
            /\ pending' = pending \cup {batch[i].number : i \in 1..Len(batch)}
            /\ thread' = [thread EXCEPT ![t] = [at |-> IF batch = <<>> THEN "polling" ELSE "recording",
                                                batch |-> batch, missing |-> FALSE]]
    /\ UNCHANGED <<outbound, sending, consumer, signalled, watches, rows, handled, outcomes, troubles>>

(* The connection is lost: before the read, or with the answer to it, whose entries the *)
(* server then counts as delivered to this consumer.                                    *)
PollFails(t) ==
    /\ Polls(t)
    /\ Trouble
    /\ LET batch == Batch(stream)
           numbers == {batch[i].number : i \in 1..Len(batch)} IN
       \/ UNCHANGED <<stream, pending>>
       \/ /\ stream.group /\ batch # <<>>
          /\ stream' = [stream EXCEPT !.last = batch[Len(batch)].number, !.lost = @ \cup numbers]
          /\ pending' = pending \cup numbers
    /\ thread' = [thread EXCEPT ![t].missing = FALSE]
    /\ UNCHANGED <<outbound, sending, consumer, signalled, watches, rows, handled, outcomes>>

Entry(t) == Head(thread[t].batch)

At(t, at) == thread' = [thread EXCEPT ![t].at = at]

MarkProcessing(t) ==
    /\ thread[t].at = "recording"
    /\ Safely(Marked(Entry(t).event, "processing"))
    /\ At(t, "handling")
    /\ UNCHANGED <<outbound, sending, stream, pending, consumer, signalled, watches, handled, outcomes>>

(* Every handler is called; what they raise is collected and recorded. *)
CallHandlers(t) ==
    /\ thread[t].at = "handling"
    /\ handled' = [handled EXCEPT ![Entry(t).number] = @ + 1]
    /\ \E result \in {"completed", "failed"} :
        /\ outcomes' = outcomes \cup {<<Entry(t).event.id, Entry(t).event.type, result>>}
        /\ At(t, result)
    /\ UNCHANGED <<outbound, sending, stream, pending, consumer, signalled, watches, rows, troubles>>

MarkFinished(t) ==
    /\ thread[t].at \in {"completed", "failed"}
    /\ Safely(Marked(Entry(t).event, thread[t].at))
    /\ At(t, "acking")
    /\ UNCHANGED <<outbound, sending, stream, pending, consumer, signalled, watches, handled, outcomes>>

(* Mutant: an acknowledgement that fails ends the poll. *)
EndsBatch(rest, acked) == IF acked THEN rest ELSE <<>>

AfterAck(rest, acked) == rest

Ack(t) ==
    /\ thread[t].at = "acking"
    /\ \E acked \in BOOLEAN :
        /\ IF acked THEN pending' = pending \ {Entry(t).number} /\ UNCHANGED troubles
           ELSE Trouble /\ UNCHANGED pending
        /\ LET rest == AfterAck(Tail(thread[t].batch), acked) IN
           thread' = [thread EXCEPT ![t].at = IF rest = <<>> THEN "polling" ELSE "recording", ![t].batch = rest]
    /\ UNCHANGED <<outbound, sending, stream, consumer, signalled, watches, rows, handled, outcomes>>

(***************************************************************************)
(* Redis restarts without persistence; a process dies                      *)
(***************************************************************************)
Flush ==
    /\ Trouble
    /\ stream.next > 1
    /\ stream' = [stream EXCEPT !.entries = <<>>, !.group = FALSE, !.last = 0]
    /\ pending' = {}
    /\ UNCHANGED <<outbound, sending, consumer, signalled, watches, thread, rows, handled, outcomes>>

Crash(t) ==
    /\ \E p \in Process : consumer[p] = t /\ consumer' = [consumer EXCEPT ![p] = Nothing]
    /\ Trouble
    /\ thread' = [thread EXCEPT ![t] = [@ EXCEPT !.at = "crashed"]]
    /\ UNCHANGED <<outbound, sending, stream, pending, signalled, watches, rows, handled, outcomes>>

Next ==
    \/ RecordPublished \/ AddEntry \/ RecordQueued \/ Flush
    \/ \E result \in {"completed", "failed"} : PublishInline(result)
    \/ \E p \in Process : Start(p) \/ Stop(p)
    \/ \E t \in Thread :
        End(t) \/ Poll(t) \/ PollFails(t) \/ MarkProcessing(t) \/ CallHandlers(t) \/ MarkFinished(t) \/ Ack(t) \/ Crash(t)

Spec == Init /\ [][Next]_busVars

(* An entry's handlers are started at most once, through restarts, overlapping consumer *)
(* threads, lost acknowledgements and a flushed group (_poll_once, _ensure_group).      *)
HandledAtMostOnce ==
    \A n \in 1..Len(handled) : handled[n] <= 1

Holding(n) == {t \in Thread : \E i \in 1..Len(thread[t].batch) : thread[t].batch[i].number = n}

(* An entry whose read was answered is handled, or still in the batch of the thread that *)
(* read it: no failed acknowledgement and no stop amid a batch loses one (_dispatch).    *)
ReadIsHandled ==
    \A n \in pending \ stream.lost : handled[n] = 1 \/ Holding(n) # {}

(* An entry whose read was answered is handled once and only once, whatever *)
(* acknowledgement or group is lost, unless its process dies (_poll_once).  *)
HandledOnceRead == HandledAtMostOnce /\ ReadIsHandled

(* However often the bus is stopped and started, one thread per process at most goes on: *)
(* the one it would signal (start, stop).                                                *)
OneConsumer ==
    \A t \in Thread :
        thread[t].at \notin {"ended", "crashed"} /\ watches[t] \notin signalled => \E p \in Process : consumer[p] = t

(* A row says completed or failed only of the event it was first written for, by id and  *)
(* type, and only once the handlers of a delivery of it ended so: an event of another     *)
(* type under a reused id does not write its own result there (_bus_row).                 *)
RowsTellTheTruth ==
    \A i \in AllIds :
        (rows[i] # Nothing /\ rows[i].status \in {"completed", "failed"}) => <<i, rows[i].type, rows[i].status>> \in outcomes

(* The row of a durable event stays queued, whatever the bus delivers under its id. *)
QueuedIsTerminal ==
    \A i \in AllIds : (rows[i] # Nothing /\ rows[i].status = "queued") => rows'[i] = rows[i]
=============================================================================
