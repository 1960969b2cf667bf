----------------------------- MODULE MCLoadGen -----------------------------
(* LoadGen with a handful of goroutines and connections. *)
EXTENDS LoadGen, TLC

Symmetry == Permutations(Conn) \cup Permutations(Dial)
=============================================================================
