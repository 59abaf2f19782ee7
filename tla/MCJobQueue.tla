----------------------------- MODULE MCJobQueue -----------------------------
(* JobQueue for TLC: the configurations share these definitions. *)
EXTENDS JobQueue, TLC

(* Workers that may all die are interchangeable, and so are jobs that may  *)
(* all be replayed and pruned.                                             *)
SymmetricWorkers == Permutations(Worker)
=============================================================================
