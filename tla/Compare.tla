------------------------------ MODULE Compare ------------------------------
(***************************************************************************)
(* The comparison table of benchmark runs (bench/local/compare.py), as      *)
(* operators on the result directories: one row per variant, the median of  *)
(* its runs, and why they stopped. One figure stands for the columns, all    *)
(* of which are made in the same way; it is None where a run has none.      *)
(***************************************************************************)
EXTENDS Integers, SequencesExt

CONSTANT None

\* Why record.py stops.
Reasons == {"stopped", "held", "plateau", "limit"}

\* What stat makes of a column; a range is of more than one figure.
Cells == [mid : Int, range : (Int \X Int) \cup {None}]

-----------------------------------------------------------------------------
(* load: a dict keeps its keys in the order in which they were added.      *)

\* Fault: a run takes the place of the one before it.
AddToReplacing(groups, s) ==
  LET at == {i \in DOMAIN groups : groups[i].variant = s.variant}
  IN  IF at = {} THEN Append(groups, [variant |-> s.variant, runs |-> <<s>>])
      ELSE [groups EXCEPT ![Max(at)].runs = <<s>>]

AddTo(groups, s) ==
  LET at == {i \in DOMAIN groups : groups[i].variant = s.variant}
  IN  IF at = {} THEN Append(groups, [variant |-> s.variant, runs |-> <<s>>])
      ELSE [groups EXCEPT ![Max(at)].runs = Append(@, s)]

\* The groups after each turn of the loop. A directory without a summary is passed over.
load(dirs, disk) ==
  LET groups[j \in 0 .. Len(dirs)] ==
        IF j = 0 THEN << >>
        ELSE IF disk[dirs[j]] = None THEN groups[j - 1]
        ELSE AddTo(groups[j - 1], disk[dirs[j]])
  IN  groups[Len(dirs)]

-----------------------------------------------------------------------------
(* stat                                                                    *)

\* Fault: the values are taken in the order of the runs.
sortedAsGiven(values) == SelectSeq(values, LAMBDA v : v # None)

\* Those that are not None, in increasing order.
sorted(values) ==
  LET kept == {i \in DOMAIN values : values[i] # None}
      p == CHOOSE p \in Bijection(1 .. Cardinality(kept), kept) :
             \A i, j \in 1 .. Cardinality(kept) : i < j => values[p[i]] <= values[p[j]]
  IN  [i \in 1 .. Cardinality(kept) |-> values[p[i]]]

\* Twice the median, which statistics.median halves.
Median2(s) == s[(Len(s) + 1) \div 2] + s[(Len(s) \div 2) + 1]

stat(values) ==
  LET s == sorted(values)
      n == Len(s)
  IN  IF n = 0 THEN None
      ELSE [mid |-> Median2(s), range |-> IF s[1] = s[n] THEN None ELSE <<s[1], s[n]>>]

-----------------------------------------------------------------------------
(* main                                                                    *)

stop_label(run) == IF run.oom_killed THEN "OOM kill"
                   ELSE IF run.stop_reason = "plateau" THEN "still up"
                   ELSE run.stop_reason

Row(group) == [variant |-> group.variant,
               runs |-> Len(group.runs),
               figure |-> stat([i \in DOMAIN group.runs |-> group.runs[i].figure]),
               stops |-> {stop_label(r) : r \in ToSet(group.runs)}]

main(dirs, disk) == LET groups == load(dirs, disk)
                    IN  [i \in DOMAIN groups |-> Row(groups[i])]
=============================================================================
