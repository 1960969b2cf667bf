------------------------------ MODULE MCServer ------------------------------
(* Server with a handful of connections and small costs. *)
EXTENDS Server, TLC

Symmetry == Permutations(Conn)
=============================================================================
