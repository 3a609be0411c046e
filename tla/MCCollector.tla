---------------------------- MODULE MCCollector -----------------------------
(* Collector with two concurrent snapshots. *)
EXTENDS Collector, TLC

CONSTANTS s1, s2

Symmetry == Permutations({s1, s2})
=============================================================================
