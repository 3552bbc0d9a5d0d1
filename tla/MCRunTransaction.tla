-------------------------- MODULE MCRunTransaction --------------------------
(* Bounds for TLC: two runs are what a repeat, a history entry and an open   *)
(* attempt need; the crash bound lets recovery itself die.                   *)
EXTENDS RunTransaction, TLC

Symmetry == Permutations(Runs)

=============================================================================
