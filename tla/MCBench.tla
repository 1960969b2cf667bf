------------------------------ MODULE MCBench ------------------------------
(* Two variants, one of which has the name of the other and a number.      *)
EXTENDS Bench

CONSTANT nbio

MCWords == {nbio}

MCVariants == << <<nbio>>, <<nbio, 2>> >>

MCOutcomes ==
  {[stop_reason |-> "plateau", oom_killed |-> FALSE, figure |-> 9],
   [stop_reason |-> "stopped", oom_killed |-> TRUE, figure |-> 4],
   [stop_reason |-> "stopped", oom_killed |-> TRUE, figure |-> None]}
=============================================================================
