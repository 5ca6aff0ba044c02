----------------------------- MODULE MCMetrics -----------------------------
(* Small instances of Metrics: goroutines and readers are interchangeable. *)
EXTENDS Metrics, TLC

Symmetry == Permutations(Goroutines) \cup Permutations(Readers)
=============================================================================
