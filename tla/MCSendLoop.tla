----------------------------- MODULE MCSendLoop -----------------------------
(* SendLoop with a few connections and intervals of a few steps. *)
EXTENDS SendLoop, TLC

Symmetry == Permutations(Conn)
=============================================================================
