------------------------------ MODULE MCOutbox ------------------------------
(* A small instance of Outbox. *)
EXTENDS Outbox

CONSTANTS e1, e2, a, b

MCKnown == [r \in Relayer |-> Subscriber]

(* One event, the same with another, and a different one under the same id. *)
MCPlans == {{<<e1, a>>}, {<<e1, a>>, <<e2, a>>}, {<<e1, b>>}}

(* PostgreSQL, and a MySQL without SKIP LOCKED. *)
MCDatabases == {[skipLocked |-> TRUE, snapshots |-> FALSE],
                [skipLocked |-> FALSE, snapshots |-> TRUE]}
=============================================================================
