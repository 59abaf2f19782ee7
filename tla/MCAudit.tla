------------------------------ MODULE MCAudit ------------------------------
(* Deployments that differ in one or two respects each from the first. *)
EXTENDS Audit

Symmetry == Permutations(Tx) \cup Permutations(Maintainer)

Setting(w, r, h, k) == [window |-> w, retention |-> r, hold |-> h, key |-> k]

first   == Setting(1, 1, FALSE, "k1")
longer  == Setting(1, 2, FALSE, "k1")
wider   == Setting(2, 1, FALSE, "k1")
held    == Setting(1, 1, TRUE, "k1")
rotated == Setting(1, 1, FALSE, "k2")
kept    == Setting(1, 0, FALSE, "k1")

plain == [mode |-> "plain", lag |-> 0, floor |-> 1, settings |-> <<first>>, crew |-> Maintainer, runs |-> 2,
          faults |-> 0, crashes |-> 0, losses |-> 0, unlocked |-> FALSE]

MCStories ==
    {[plain EXCEPT !.settings = <<first, longer>>, !.crashes = 1],
     [plain EXCEPT !.settings = <<first, wider>>, !.faults = 1],
     [plain EXCEPT !.settings = <<first, rotated>>, !.crashes = 1],
     [plain EXCEPT !.settings = <<first, held, first>>],
     [plain EXCEPT !.settings = <<kept, first>>, !.floor = 3],
     [plain EXCEPT !.losses = 1, !.settings = <<first, wider>>],
     [plain EXCEPT !.mode = "postgres", !.lag = 1, !.faults = 1],
     [plain EXCEPT !.mode = "mysql", !.settings = <<wider, first>>, !.crashes = 1]}
=============================================================================
