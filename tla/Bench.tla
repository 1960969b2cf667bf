------------------------------- MODULE Bench -------------------------------
(***************************************************************************)
(* A comparison of variants of the server on one machine: matrix.sh runs     *)
(* run.sh for every variant, several times over, and compare.py makes the     *)
(* table. All runs share one compose project and one directory of results.   *)
(* Any command may fail, which ends the run and with it the matrix (set -e), *)
(* except for the recorder, whose failure leaves a run without a summary,    *)
(* and for the `down` before a run, whose failure is ignored. After a failure, *)
(* or with KEEP=1, containers stay up, and the matrix may be started again.    *)
(*                                                                         *)
(* A variant's name is a sequence, so that a directory's name is the          *)
(* variant's, or the variant's with a number: names that end in a number may  *)
(* coincide. Runs are numbered for the properties; the scripts do not.        *)
(***************************************************************************)
EXTENDS Compare, FiniteSets

CONSTANTS Words,         \* what names are made of, besides numbers
          Variants,      \* the variants, in the order of the command line
          Repeats,
          Outcomes,      \* stop reason, OOM kill and figure of a recorded run
          MaxMatrices,   \* how often the matrix is started (a bound)
          MaxDirs        \* result directories in all (a bound)

\* The summary of the run with a number, in the matrix with a number.
Summaries == [variant : ToSet(Variants), run : Nat \X Nat, stop_reason : Reasons,
              oom_killed : BOOLEAN, figure : Int \cup {None}]

ASSUME BenchAssumption == /\ Variants \in Seq(Seq(Words \cup Nat)) /\ Variants # << >>
                          /\ {Repeats, MaxMatrices, MaxDirs} \subseteq Nat \ {0}
                          /\ Outcomes \subseteq [stop_reason : Reasons, oom_killed : BOOLEAN,
                                                figure : Int \cup {None}]
                          /\ None \notin Int \cup (Int \X Int) \cup Cells \cup Summaries

VARIABLES disk,          \* what is in the result directories, by name
          stack,         \* the containers that run
          keep,          \* KEEP=1
          pc, k,         \* the scripts: the next command, and the runs behind
          out,           \* the directory of this run
          dirs,          \* those of the runs before
          table,
          matrices,
          finished,      \* history: the summaries that this matrix has written
          swept          \* history: whether the last `down` before a run worked

scripts == <<pc, k, out, dirs, table, matrices>>
vars == <<disk, stack, keep, scripts, finished, swept>>

\* The server's variant, if there is one, and whether there are load generators.
Stacks == [server : ToSet(Variants) \cup {None}, loaded : BOOLEAN]

NoStack == [server |-> None, loaded |-> FALSE]

Init == /\ disk = << >>
        /\ stack = NoStack /\ keep \in BOOLEAN /\ swept = FALSE
        /\ pc = "mkdir" /\ k = 0
        /\ out = None /\ dirs = << >> /\ table = None
        /\ matrices = 1 /\ finished = {}

\* The repeats are the outer loop.
Variant == Variants[(k % Len(Variants)) + 1]

-----------------------------------------------------------------------------
(* run.sh                                                                  *)

Path(v, n) == IF n = 1 THEN v ELSE Append(v, n)

\* Fault: the name is not looked up before it is used.
FreshByDate(v) == Path(v, 1)

\* The first name that does not exist.
Fresh(v) == LET free == {n \in 1 .. Cardinality(DOMAIN disk) + 1 : Path(v, n) \notin DOMAIN disk}
            IN  Path(v, Min(free))

MakeDir == /\ pc = "mkdir"
           /\ Cardinality(DOMAIN disk) < MaxDirs
           /\ out' = Fresh(Variant)
           /\ disk' = [p \in DOMAIN disk \cup {out'} |-> IF p = out' THEN None ELSE disk[p]]
           /\ pc' = "sweep"
           /\ UNCHANGED <<stack, keep, k, dirs, table, matrices, finished, swept>>

\* What a `down` that fails may leave.
Remains == {s \in Stacks : s.server \in {stack.server, None} /\ (s.loaded => stack.loaded)}

\* After the build, `down -v --remove-orphans || true`.
Sweep == /\ pc = "sweep"
         /\ \/ stack' = NoStack /\ swept' = TRUE
            \/ stack' \in Remains /\ swept' = FALSE
         /\ pc' = "up"
         /\ UNCHANGED <<disk, keep, k, out, dirs, table, matrices, finished>>

\* `up -d server`: compose makes a new server for another image, and leaves load
\* generators alone.
Up == /\ pc = "up"
      /\ stack' = [stack EXCEPT !.server = Variant]
      /\ pc' = "idle"
      /\ UNCHANGED <<disk, keep, k, out, dirs, table, matrices, finished, swept>>

\* record.py idle
MeasureIdle == /\ pc = "idle"
               /\ pc' = "load"
               /\ UNCHANGED <<disk, stack, keep, k, out, dirs, table, matrices, finished, swept>>

StartLoad == /\ pc = "load"
             /\ stack' = [stack EXCEPT !.loaded = TRUE]
             /\ pc' = "record"
             /\ UNCHANGED <<disk, keep, k, out, dirs, table, matrices, finished, swept>>

Summary(o) == [variant |-> Variant, run |-> <<matrices, k>>, stop_reason |-> o.stop_reason,
               oom_killed |-> o.oom_killed, figure |-> o.figure]

\* record.py run, which writes a summary or fails before.
Record == /\ pc = "record"
          /\ \/ \E o \in Outcomes :
                  /\ disk' = [disk EXCEPT ![out] = Summary(o)]
                  /\ finished' = finished \cup {Summary(o)}
             \/ UNCHANGED <<disk, finished>>
          /\ pc' = "down"
          /\ UNCHANGED <<stack, keep, k, out, dirs, table, matrices, swept>>

\* Fault: a run that the recorder left without a summary is not noted.
DownForgetsDir == /\ pc = "down"
                  /\ stack' = IF keep THEN stack ELSE NoStack
                  /\ dirs' = IF disk[out] = None THEN dirs ELSE Append(dirs, out)
                  /\ k' = k + 1
                  /\ pc' = IF k' = Repeats * Len(Variants) THEN "table" ELSE "mkdir"
                  /\ UNCHANGED <<disk, keep, out, table, matrices, finished, swept>>

\* Fault: a last `down` that fails is ignored like the first.
DownIgnoresFailure == /\ pc = "down"
                      /\ IF keep THEN UNCHANGED stack ELSE stack' \in Remains
                      /\ dirs' = Append(dirs, out)
                      /\ k' = k + 1
                      /\ pc' = IF k' = Repeats * Len(Variants) THEN "table" ELSE "mkdir"
                      /\ UNCHANGED <<disk, keep, out, table, matrices, finished, swept>>

\* KEEP=1 leaves the containers. matrix.sh notes the directory that run.sh printed.
Down == /\ pc = "down"
        /\ stack' = IF keep THEN stack ELSE NoStack
        /\ dirs' = Append(dirs, out)
        /\ k' = k + 1
        /\ pc' = IF k' = Repeats * Len(Variants) THEN "table" ELSE "mkdir"
        /\ UNCHANGED <<disk, keep, out, table, matrices, finished, swept>>

run == MakeDir \/ Sweep \/ Up \/ MeasureIdle \/ StartLoad \/ Record \/ Down

-----------------------------------------------------------------------------
(* matrix.sh                                                               *)

MakeTable == /\ pc = "table"
             /\ table' = main(dirs, disk)
             /\ pc' = "done"
             /\ UNCHANGED <<disk, stack, keep, k, out, dirs, matrices, finished, swept>>

\* What a command that fails, or that somebody stops, may leave.
HalfDone == CASE pc = "sweep" \/ (pc = "down" /\ ~keep) -> Remains
              [] pc = "up"   -> {[stack EXCEPT !.server = v] : v \in {stack.server, None, Variant}}
              [] pc = "load" -> {stack, [stack EXCEPT !.loaded = TRUE]}
              [] OTHER       -> {stack}

Fail == /\ pc \notin {"done", "aborted"}
        /\ stack' \in HalfDone
        /\ pc' = "aborted"
        /\ UNCHANGED <<disk, keep, k, out, dirs, table, matrices, finished, swept>>

Restart == /\ pc \in {"done", "aborted"}
           /\ matrices < MaxMatrices
           /\ matrices' = matrices + 1
           /\ pc' = "mkdir" /\ k' = 0
           /\ out' = None /\ dirs' = << >> /\ table' = None
           /\ finished' = {} /\ keep' \in BOOLEAN
           /\ UNCHANGED <<disk, stack, swept>>

Next == run \/ MakeTable \/ Fail \/ Restart

Spec == Init /\ [][Next]_vars

-----------------------------------------------------------------------------
TypeOK == /\ \A p \in DOMAIN disk : disk[p] \in Summaries \cup {None}
          /\ stack \in Stacks /\ keep \in BOOLEAN /\ swept \in BOOLEAN
          /\ pc \in {"mkdir", "sweep", "up", "idle", "load", "record", "down", "table", "done", "aborted"}
          /\ k \in 0 .. Repeats * Len(Variants)
          /\ (pc # "aborted" => Len(dirs) = k) /\ ToSet(dirs) \subseteq DOMAIN disk
          /\ out = None \/ out \in DOMAIN disk
          /\ matrices \in 1 .. MaxMatrices

\* The server is measured at rest, and the right one, whatever a run that failed or one
\* with KEEP=1 has left behind, when either of two safeguards holds: the `down` before the
\* run, whose failure is ignored, or that of the run before in this matrix, whose failure
\* ends it (run.sh:70-81, 92-96).
IdleIsIdle ==
  pc = "idle" /\ (swept \/ (k > 0 /\ ~keep)) => stack = [server |-> Variant, loaded |-> FALSE]

\* No run touches the results of another, of an earlier matrix or of a variant with a
\* name that a number was added to (run.sh:34-37).
ResultsStay == \A p \in DOMAIN disk : /\ p \in DOMAIN disk'
                                      /\ disk[p] # None => disk'[p] = disk[p]
OldResultsKept == [][ResultsStay]_vars

\* Each run of this matrix that has a summary counts once, in the row of its variant,
\* and no other does; an OOM kill among them shows (compare.py:17-26, 39-45, 56-68).
TableIsExact ==
  pc = "done" =>
    /\ {table[i].variant : i \in DOMAIN table} = {s.variant : s \in finished}
    /\ \A i \in DOMAIN table :
         LET mine == {s \in finished : s.variant = table[i].variant}
         IN  /\ table[i].runs = Cardinality(mine)
             /\ "OOM kill" \in table[i].stops <=> \E s \in mine : s.oom_killed
             /\ "still up" \in table[i].stops <=>
                  \E s \in mine : s.stop_reason = "plateau" /\ ~s.oom_killed

\* At least half of the figures of a row are at most its median, and at least half are
\* at least that; the range is the least and the greatest of them (compare.py:29-36).
MedianIsCentral ==
  pc = "done" =>
    \A i \in DOMAIN table :
      LET mine == {s \in finished : s.variant = table[i].variant /\ s.figure # None}
          cell == table[i].figure
      IN  /\ cell = None <=> mine = {}
          /\ cell # None =>
               /\ 2 * Cardinality({s \in mine : 2 * s.figure <= cell.mid}) >= Cardinality(mine)
               /\ 2 * Cardinality({s \in mine : 2 * s.figure >= cell.mid}) >= Cardinality(mine)
               /\ \A s \in mine : IF cell.range = None THEN 2 * s.figure = cell.mid
                                  ELSE s.figure \in cell.range[1] .. cell.range[2]
=============================================================================
