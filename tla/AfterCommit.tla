---------------------------- MODULE AfterCommit ----------------------------
(***************************************************************************)
(* The best-effort route of an event: run_after_commit (                   *)
(* _core/after_commit.py) as publish_on_commit uses it.  A session nests   *)
(* savepoints in a transaction; an event is held until the outermost       *)
(* commit and dropped with whatever encloses it.  The state of the module  *)
(* is beside a ghost of the database, which keeps what was written in the  *)
(* same places, so the two can be compared.                                *)
(***************************************************************************)
EXTENDS Integers, FiniteSets, SequencesExt

CONSTANTS Event,             \* events published on the session, each once
          MaxDepth,          \* bound: savepoints open at once, and the transaction
          MaxTransactions    \* bound: transactions and savepoints ever begun

VARIABLES stack,        \* open transactions of the session, outermost first
          begun,        \* transactions begun
          pending,      \* info[_PENDING]
          committed,    \* info[_COMMITTED]
          ending,       \* after_commit has fired for the innermost, its end has not
          broken,       \* another after_commit listener raised: the session must be closed
          ready,        \* batches being dispatched; the callbacks of a batch may commit another
          dispatched,   \* events handed to the bus, in order
          written,      \* ghost: what each open transaction wrote
          durable       \* ghost: what each outermost commit made durable

vars == <<stack, begun, pending, committed, ending, broken, ready, dispatched, written, durable>>

-----------------------------------------------------------------------------
Open == stack # <<>>
Innermost == Last(stack)

Published == {x.event : x \in Range(pending)} \cup Range(dispatched)
                 \cup UNION {Range(b) : b \in Range(ready)}

Init ==
    /\ stack = <<>> /\ begun = 0
    /\ pending = <<>> /\ committed = FALSE
    /\ ending = FALSE /\ broken = FALSE
    /\ ready = <<>> /\ dispatched = <<>>
    /\ written = <<>> /\ durable = <<>>

Begin ==
    /\ stack' = Append(stack, begun + 1)
    /\ begun' = begun + 1

(* begin, or begin_nested inside a transaction *)
BeginTransaction ==
    /\ ~ ending /\ ~ broken
    /\ Len(stack) < MaxDepth
    /\ begun < MaxTransactions
    /\ Begin
    /\ written' = Append(written, <<>>)
    /\ UNCHANGED <<pending, committed, ending, broken, ready, dispatched, durable>>

(* publish_on_commit: mints the event and registers its dispatch with the  *)
(* innermost transaction, beginning one if there is none.  An event that   *)
(* cannot be minted is not registered.                                     *)
Publish(e) ==
    /\ ~ ending /\ ~ broken
    /\ e \notin Published /\ \A b \in Range(durable) \cup Range(written) : e \notin Range(b)
    /\ IF Open THEN UNCHANGED <<stack, begun>> ELSE begun < MaxTransactions /\ Begin
    /\ pending' = Append(pending, [tx |-> Last(stack'), event |-> e])
    /\ written' = IF Open THEN [written EXCEPT ![Len(written)] = Append(@, e)] ELSE <<<<e>>>>
    /\ UNCHANGED <<committed, ending, broken, ready, dispatched, durable>>

-----------------------------------------------------------------------------
(* What the database makes of it (external): a released savepoint's work    *)
(* belongs to the enclosing transaction.                                    *)
Kept ==
    IF Len(written) = 1
    THEN /\ written' = <<>>
         /\ durable' = Append(durable, written[1])
    ELSE /\ written' = [Front(written) EXCEPT ![Len(written) - 1] = @ \o Last(written)]
         /\ UNCHANGED durable

(* The innermost transaction commits or is released: _on_commit. *)
CommitInnermost ==
    /\ Open /\ ~ ending /\ ~ broken
    /\ committed' = TRUE
    /\ ending' = TRUE
    /\ Kept
    /\ UNCHANGED <<stack, begun, pending, broken, ready, dispatched>>

(* A listener of the host raises before the transaction ends. *)
ListenerRaises ==
    /\ ending /\ ~ broken
    /\ broken' = TRUE
    /\ UNCHANGED <<stack, begun, pending, committed, ending, ready, dispatched, written, durable>>

HandedUp(tx, parent) ==
    [i \in DOMAIN pending |->
        IF pending[i].tx = tx THEN [pending[i] EXCEPT !.tx = parent] ELSE pending[i]]

(* The entries of s at the positions keep, in order: the n-th is the one with n of them *)
(* at or before it.                                                                     *)
Picked(s, keep) == [n \in 1..Cardinality(keep) |-> s[CHOOSE i \in keep : Cardinality(keep \cap (1..i)) = n]]

Dropped(tx) == Picked(pending, {i \in DOMAIN pending : pending[i].tx # tx})

(* Mutant of Remembered: the flag is read and not popped. *)
RememberedForEver == committed

(* _COMMITTED after it was popped *)
Remembered == FALSE

(* Mutant of Batch: the latest registration runs first. *)
LatestFirst == Reverse([i \in DOMAIN pending |-> pending[i].event])

Batch == [i \in DOMAIN pending |-> pending[i].event]

(* Mutant of Settled: a released savepoint drops its callbacks. *)
SettledDropping(tx, parent) == Dropped(tx)

(* How a savepoint that ends leaves the pending callbacks. *)
Settled(tx, parent) == IF committed THEN HandedUp(tx, parent) ELSE Dropped(tx)

(* _on_transaction_end, for the innermost transaction *)
TransactionEnds ==
    /\ stack' = Front(stack)
    /\ committed' = Remembered
    /\ ending' = FALSE
    /\ broken' = (broken /\ Len(stack) > 1)
    /\ IF Len(stack) > 1
       THEN /\ pending' = Settled(Innermost, stack[Len(stack) - 1])
            /\ UNCHANGED ready
       ELSE /\ pending' = <<>>
            /\ ready' = IF committed /\ pending # <<>> THEN Append(ready, Batch) ELSE ready

EndCommitted ==
    /\ ending
    /\ TransactionEnds
    /\ UNCHANGED <<begun, dispatched, written, durable>>

(* The innermost transaction is rolled back or closed, or its commit fails. *)
RollbackInnermost ==
    /\ Open /\ ~ ending
    /\ TransactionEnds
    /\ written' = Front(written)
    /\ UNCHANGED <<begun, dispatched, durable>>

(* _run: the next callback of the batch is called; what it raises is swallowed. *)
Dispatch ==
    /\ ready # <<>> /\ ~ ending
    /\ dispatched' = Append(dispatched, Head(Last(ready)))
    /\ ready' = IF Len(Last(ready)) = 1 THEN Front(ready)
                ELSE [ready EXCEPT ![Len(ready)] = Tail(@)]
    /\ UNCHANGED <<stack, begun, pending, committed, ending, broken, written, durable>>

Next ==
    \/ BeginTransaction
    \/ \E e \in Event : Publish(e)
    \/ CommitInnermost \/ ListenerRaises \/ EndCommitted \/ RollbackInnermost
    \/ Dispatch

Spec == Init /\ [][Next]_vars

-----------------------------------------------------------------------------
DurableEvents == UNION {Range(b) : b \in Range(durable)}

(* publish_on_commit: "An event published inside a SAVEPOINT that is rolled *)
(* back, or in a transaction that is rolled back or closed, is discarded    *)
(* and never dispatched"; and none is dispatched twice.                     *)
NeverUndone ==
    /\ Range(dispatched) \subseteq DurableEvents
    /\ IsInjective(dispatched)

(* publish_many_on_commit: the events of one commit are dispatched in the   *)
(* order in which they were published, through savepoints and even when a   *)
(* callback commits another transaction on the session.                     *)
InPublishOrder ==
    \A b \in Range(durable) :
        \A n \in DOMAIN b, j \in DOMAIN dispatched :
            dispatched[j] = b[n] => \A m \in 1..n - 1 : \E i \in 1..j - 1 : dispatched[i] = b[m]

(* Every event of a commit is dispatched once its batch has been run: none  *)
(* is lost when a savepoint is released, when a host's listener raises, or  *)
(* when a callback publishes on the session.                                *)
NothingForgotten ==
    ready = <<>> /\ ~ ending => DurableEvents \subseteq Range(dispatched)

(* publish_on_commit: what is dispatched is what was committed, all of it,  *)
(* once and in the order of publication.                                    *)
DispatchedAsCommitted == NeverUndone /\ InPublishOrder /\ NothingForgotten
=============================================================================
