------------------------------ MODULE Realtime ------------------------------
(***************************************************************************)
(* Realtime hints over Redis Pub/Sub (jasil/backends/realtime_redis.py) and *)
(* their envelope (jasil/_core/realtime_envelope.py).                      *)
(*                                                                         *)
(* One process subscribes; its subscriber thread owns a dedicated client.  *)
(* A connection may fail loudly or go silent: nothing arrives any more and *)
(* nothing says so.  A subscription that stays silent past two keepalives  *)
(* is given up; the keepalive clock is the count of silent polls.          *)
(***************************************************************************)
EXTENDS Naturals, Sequences, FiniteSets

CONSTANTS
    Hints,          \* what is published on the channel, one sequence per behaviour
    MaxStarts,      \* bound on the subscriber threads
    MaxLosses,      \* bound on the connections that fail or go silent
    Keepalive,      \* silent polls before the subscription is pinged
    Nothing

VARIABLES
    hints,          \* what is still to be published
    numbered,       \* hints published so far
    subscriber,     \* the thread the provider would signal, or Nothing
    starting,       \* the thread start waits for, or Nothing
    ready,          \* the thread whose subscription start reported, or Nothing
    halted,         \* the stop events that are set
    event,          \* the stop event each thread watches
    loop,           \* what each thread is doing
    inbox,          \* what the server has queued on each thread's connection
    heard,          \* hints the handlers were called with
    expected,       \* hints published while ready stood on a sound connection
    losses

hintVars == <<hints, numbered, subscriber, starting, ready, halted, event, loop, inbox, heard, expected, losses>>

Thread == 1..MaxStarts

Down == [at |-> "ended", client |-> FALSE, subscribed |-> FALSE, silent |-> 0, pinged |-> FALSE, sound |-> FALSE]

Quiet ==
    /\ numbered = 0
    /\ subscriber = Nothing /\ starting = Nothing /\ ready = Nothing
    /\ halted = {} /\ event = [t \in Thread |-> Nothing]
    /\ loop = [t \in Thread |-> Down]
    /\ inbox = [t \in Thread |-> <<>>]
    /\ heard = {} /\ expected = {}
    /\ losses = 0

Init == hints \in Hints /\ Quiet

NoHints == hints = <<>> /\ Quiet

(***************************************************************************)
(* The envelope                                                            *)
(***************************************************************************)
(* A hint that cannot be encoded within the cap is refused where it is sent. *)
Encodes(hint) == hint.from = "notify" /\ hint.valid

(* Another publisher of the channel may send anything; the previous version is still read. *)
Decodes(hint) == hint.valid /\ hint.version \in {1, 2}

(***************************************************************************)
(* notify                                                                  *)
(***************************************************************************)
Receiving(t) == loop[t].subscribed /\ loop[t].sound

Published(hint) ==
    [t \in Thread |-> IF Receiving(t) THEN Append(inbox[t], [number |-> numbered + 1, hint |-> hint]) ELSE inbox[t]]

(* The threads start has reported, whose connection holds. *)
Promised == {t \in Thread : t = ready /\ loop[t].sound}

Notify ==
    /\ hints # <<>>
    /\ hints' = Tail(hints)
    /\ IF Encodes(Head(hints)) \/ Head(hints).from = "elsewhere"
       THEN /\ numbered' = numbered + 1
            /\ inbox' = Published(Head(hints))
            /\ expected' = IF Decodes(Head(hints)) THEN expected \cup (Promised \X {numbered + 1}) ELSE expected
       ELSE UNCHANGED <<numbered, inbox, expected>>
    /\ UNCHANGED <<subscriber, starting, ready, halted, event, loop, heard, losses>>

(* The transport fails: the hint is logged and dropped. *)
NotifyFails ==
    /\ hints # <<>> /\ Encodes(Head(hints))
    /\ losses < MaxLosses
    /\ losses' = losses + 1
    /\ hints' = Tail(hints)
    /\ UNCHANGED <<numbered, subscriber, starting, ready, halted, event, loop, inbox, heard, expected>>

(***************************************************************************)
(* start and stop                                                          *)
(***************************************************************************)
(* Mutant: a restart clears the one stop event of the provider. *)
SameEvent(t) == 1

FreshEvent(t) == t

Start ==
    /\ subscriber = Nothing /\ starting = Nothing
    /\ \E t \in Thread :
        /\ \A u \in Thread : event[u] = Nothing <=> u >= t
        /\ subscriber' = t /\ starting' = t
        /\ event' = [event EXCEPT ![t] = FreshEvent(t)]
        /\ halted' = halted \ {FreshEvent(t)}
        /\ loop' = [loop EXCEPT ![t] = [Down EXCEPT !.at = "connecting"]]
    /\ UNCHANGED <<hints, numbered, ready, inbox, heard, expected, losses>>

(* Mutant: start takes the SUBSCRIBE that was sent for one that was confirmed. *)
SentIsConfirmed(t) == loop[t].at \in {"confirming", "listening"}

(* The subscribed event is set only once Redis has confirmed. *)
Confirmed(t) == loop[t].at = "listening"

(* start returns: the first SUBSCRIBE was confirmed, or it has waited long enough. *)
StartReturns ==
    /\ starting # Nothing
    /\ ready' \in {Nothing} \cup {t \in {starting} : Confirmed(t) /\ subscriber = t}
    /\ starting' = Nothing
    /\ UNCHANGED <<hints, numbered, subscriber, halted, event, loop, inbox, heard, expected, losses>>

(* The thread is signalled; the join may give up before it has ended. *)
Stop ==
    /\ subscriber # Nothing
    /\ halted' = halted \cup {event[subscriber]}
    /\ ready' = Nothing
    /\ expected' = {}
    /\ subscriber' = Nothing
    /\ UNCHANGED <<hints, numbered, starting, event, loop, inbox, heard, losses>>

(***************************************************************************)
(* The subscriber thread                                                   *)
(***************************************************************************)
Running(t) == event[t] # Nothing /\ event[t] \notin halted

Lose == losses < MaxLosses /\ losses' = losses + 1

Connected == [Down EXCEPT !.at = "confirming", !.client = TRUE, !.sound = TRUE]

(* The dedicated client is made and verified, and the SUBSCRIBE is sent. *)
Connect(t) ==
    /\ loop[t].at = "connecting" /\ Running(t)
    /\ \/ loop' = [loop EXCEPT ![t] = Connected] /\ UNCHANGED losses
       \/ loop' = [loop EXCEPT ![t].at = "backoff"] /\ Lose
    /\ UNCHANGED <<hints, numbered, subscriber, starting, ready, halted, event, inbox, heard, expected>>

(* The server carries the SUBSCRIBE out and its confirmation arrives. *)
Subscribed(t) ==
    /\ loop[t].at = "confirming" /\ loop[t].sound
    /\ loop' = [loop EXCEPT ![t].subscribed = TRUE, ![t].at = "listening"]
    /\ UNCHANGED <<hints, numbered, subscriber, starting, ready, halted, event, inbox, heard, expected, losses>>

Listening(t) == loop[t].at = "listening" /\ Running(t)

(* A message is decoded and every handler is called with it. *)
Receive(t) ==
    /\ Listening(t) /\ loop[t].sound
    /\ inbox[t] # <<>>
    /\ heard' = IF Decodes(Head(inbox[t]).hint) THEN heard \cup {Head(inbox[t]).number} ELSE heard
    /\ inbox' = [inbox EXCEPT ![t] = Tail(@)]
    /\ loop' = [loop EXCEPT ![t].silent = 0, ![t].pinged = FALSE]
    /\ UNCHANGED <<hints, numbered, subscriber, starting, ready, halted, event, expected, losses>>

(* Mutant: the subscription is given up when it would be pinged. *)
ExpiredAtPing(t) == loop[t].silent >= Keepalive

Expired(t) == loop[t].silent > 2 * Keepalive

(* The subscription is pinged after one keepalive of silence, and a sound connection     *)
(* answers the ping.                                                                     *)
Polled(r) ==
    IF r.pinged /\ r.sound THEN [r EXCEPT !.silent = 0, !.pinged = FALSE]
    ELSE [r EXCEPT !.silent = r.silent + 1, !.pinged = r.pinged \/ r.silent + 1 >= Keepalive]

(* A poll that found nothing. *)
SilentPoll(t) ==
    /\ Listening(t)
    /\ inbox[t] = <<>> \/ ~loop[t].sound
    /\ ~Expired(t)
    /\ loop' = [loop EXCEPT ![t] = Polled(loop[t])]
    /\ UNCHANGED <<hints, numbered, subscriber, starting, ready, halted, event, inbox, heard, expected, losses>>

(* Mutant: the client is given up when the backoff is over. *)
KeptOpen(t) == loop[t].client

ClosedNow(t) == FALSE

Unless(t) == IF ready = t THEN Nothing ELSE ready

(* The connection fails, stays silent for too long, or is never confirmed: the client is *)
(* closed before the backoff.                                                            *)
Disconnect(t) ==
    /\ loop[t].at \in {"confirming", "listening"} /\ Running(t)
    /\ \/ loop[t].at = "listening" /\ Expired(t) /\ UNCHANGED losses
       \/ loop[t].at = "confirming" /\ ~loop[t].sound /\ UNCHANGED losses
       \/ loop[t].sound /\ Lose
    /\ loop' = [loop EXCEPT ![t] = [Down EXCEPT !.at = "backoff", !.client = ClosedNow(t)]]
    /\ inbox' = [inbox EXCEPT ![t] = <<>>]
    /\ ready' = Unless(t)
    /\ expected' = {x \in expected : x[1] # t}
    /\ UNCHANGED <<hints, numbered, subscriber, starting, halted, event, heard>>

(* The network drops the connection without a word. *)
GoSilent(t) ==
    /\ loop[t].sound /\ Lose
    /\ loop' = [loop EXCEPT ![t].sound = FALSE]
    /\ ready' = Unless(t)
    /\ expected' = {x \in expected : x[1] # t}
    /\ UNCHANGED <<hints, numbered, subscriber, starting, halted, event, inbox, heard>>

Retry(t) ==
    /\ loop[t].at = "backoff" /\ Running(t)
    /\ loop' = [loop EXCEPT ![t].at = "connecting"]
    /\ UNCHANGED <<hints, numbered, subscriber, starting, ready, halted, event, inbox, heard, expected, losses>>

(* A signalled thread closes its client and ends. *)
Finish(t) ==
    /\ loop[t].at # "ended" /\ event[t] \in halted
    /\ loop' = [loop EXCEPT ![t] = Down]
    /\ inbox' = [inbox EXCEPT ![t] = <<>>]
    /\ UNCHANGED <<hints, numbered, subscriber, starting, ready, halted, event, heard, expected, losses>>

Next ==
    \/ Notify \/ NotifyFails \/ Start \/ StartReturns \/ Stop
    \/ \E t \in Thread :
        \/ Connect(t) \/ Subscribed(t) \/ Receive(t) \/ SilentPoll(t) \/ Disconnect(t) \/ GoSilent(t) \/ Retry(t) \/ Finish(t)

Spec == Init /\ [][Next]_hintVars

(* A usable hint published after start reported a subscription is heard, or waits on the *)
(* connection, for as long as that connection holds (_await_subscribed).                 *)
HeardOnceReady ==
    \A x \in expected : x[2] \in heard \/ \E i \in 1..Len(inbox[x[1]]) : inbox[x[1]][i].number = x[2]

(* Restarted behind a stop that timed out, the provider has one subscriber: no thread but *)
(* the one it would signal goes on receiving (start, stop).                               *)
OneSubscriber ==
    \A t \in Thread : loop[t].at # "ended" /\ Running(t) => subscriber = t

(* A dedicated client is open only while its thread uses it, never through a backoff or *)
(* after the thread has ended (_run, _close).                                           *)
ClientNotHeldIdle ==
    \A t \in Thread : loop[t].client => loop[t].at \in {"confirming", "listening"}

(* A sound subscription is never taken for one that went silent, however long it stays   *)
(* without a hint (_listen).                                                             *)
SoundNotExpired ==
    \A t \in Thread : loop[t].sound => ~Expired(t)

(* A subscription that start reported is one: it hears what follows, is not *)
(* given up while it is sound and holds no connection it does not use.      *)
SubscriptionSound == HeardOnceReady /\ SoundNotExpired /\ ClientNotHeldIdle
=============================================================================
