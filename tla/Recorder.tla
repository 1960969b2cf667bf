------------------------------ MODULE Recorder ------------------------------
(***************************************************************************)
(* The benchmark recorder (bench/local/record.py). `record.py idle` measures *)
(* the server at rest. `record.py run` samples it every two seconds under   *)
(* load, decides when the run is over and why, picks the sample that the    *)
(* summary is about and works out the figures. run.sh calls the one, then   *)
(* starts the load and calls the other; either may fail when the container  *)
(* is not there.                                                           *)
(*                                                                         *)
(* Time is counted in steps of two seconds. Numbers of connections are      *)
(* taken from a few levels, some within 0.5% of each other.                *)
(***************************************************************************)
EXTENDS Sampler, SequencesExt

CONSTANTS Hold, Plateau, TimeLimit     \* --hold, --plateau and --max

ASSUME RecorderAssumption == /\ {Hold, Plateau, TimeLimit} \subseteq Nat \ {0}
                             /\ None \notin {"stopped", "held", "plateau", "limit"}

VARIABLES pc,            \* where the recorder is; "done" and "failed" are its ends
          idle,          \* idle.json: the memory at rest
          rows,          \* samples taken
          best, bestAt, reachedAt, reason

files == <<idle, rows>>
verdict == <<best, bestAt, reachedAt, reason>>
vars == <<server, now, row, lastCpu, pc, files, verdict>>

Init == /\ server = "running"
        /\ now = 0 /\ row = NoRow /\ lastCpu = None
        /\ pc = "open_idle"
        /\ idle = None /\ rows = << >>
        /\ best = None /\ bestAt = 0 /\ reachedAt = None /\ reason = None

-----------------------------------------------------------------------------
(* cmd_idle, before there is any load.                                     *)

\* A Sampler is made, or the program ends with an exception.
Open(from, to) == /\ pc = from
                  /\ \E ok \in opens : pc' = IF ok THEN to ELSE "failed"
                  /\ UNCHANGED <<server, now, row, lastCpu, files, verdict>>

OpenIdle == Open("open_idle", "idle")

\* Two samples; the second is written.
RecordIdle == /\ pc = "idle"
              /\ idle' = CASE server = "running" -> Memory(0)
                           [] server = "dying" -> 0
                           [] OTHER -> None
              /\ pc' = "open_run"
              /\ UNCHANGED <<server, now, row, lastCpu, rows, verdict>>

cmd_idle == OpenIdle \/ RecordIdle

-----------------------------------------------------------------------------
(* cmd_run: the samples.                                                   *)

\* idle.json is there: run.sh ends when cmd_idle fails.
OpenRun == Open("open_run", "prime")

StartRun == /\ pc = "prime"
            /\ Prime
            /\ pc' = "sleep"
            /\ UNCHANGED <<files, verdict>>

TakeRow == \/ /\ pc = "sleep" /\ ReadCgroup
              /\ pc' = "scrape"
              /\ UNCHANGED <<files, verdict>>
           \/ /\ pc = "scrape" /\ Scrape
              /\ pc' = "ask"
              /\ UNCHANGED <<files, verdict>>
           \/ /\ pc = "ask" /\ AskPrometheusAndDocker
              /\ rows' = Append(rows, row')
              /\ pc' = "judge"
              /\ UNCHANGED <<idle, verdict>>

-----------------------------------------------------------------------------
(* cmd_run: when to stop.                                                  *)

\* s["server_conns"] or 0
Seen(r) == IF r.conns = None THEN 0 ELSE r.conns

Grown == best = None \/ 1000 * Seen(row) > 1005 * best
Reached == row.target # None /\ Seen(row) >= row.target

\* Fault: a failed reading is taken for a number.
UpdateBestRaw == IF Grown THEN best' = row.conns /\ bestAt' = now
                          ELSE UNCHANGED <<best, bestAt>>

\* Fault: best follows every growth, best_at only the larger ones.
UpdateBestCreeping ==
  /\ best' = IF best = None \/ Seen(row) > best THEN Seen(row) ELSE best
  /\ bestAt' = IF Grown THEN now ELSE bestAt

\* best and best_at are updated before the tests, reached_at in one of them.
UpdateBest == IF Grown THEN best' = Seen(row) /\ bestAt' = now
                       ELSE UNCHANGED <<best, bestAt>>

UpdateReached == reachedAt' = IF row.state = "running" /\ Reached /\ reachedAt = None
                              THEN now ELSE reachedAt

\* Fault: at the target only the hold ends the run.
VerdictWaitsAtTarget ==
  IF row.state # "running" THEN "stopped"
  ELSE IF Reached THEN IF now - reachedAt' >= Hold THEN "held" ELSE None
  ELSE IF now - bestAt' >= Plateau THEN "plateau"
  ELSE IF now >= TimeLimit THEN "limit"
  ELSE None

Verdict == IF row.state # "running" THEN "stopped"
           ELSE IF Reached /\ now - reachedAt' >= Hold THEN "held"
           ELSE IF now - bestAt' >= Plateau THEN "plateau"
           ELSE IF now >= TimeLimit THEN "limit"
           ELSE None

Judge == /\ pc = "judge"
         /\ UpdateBest
         /\ UpdateReached
         /\ reason' = Verdict
         /\ pc' = IF reason' = None THEN "sleep" ELSE "done"
         /\ UNCHANGED <<server, now, row, lastCpu, files>>

-----------------------------------------------------------------------------
(* write_summary.                                                          *)

\* Only samples where the server answered and the cgroup still existed.
Live == {i \in DOMAIN rows : Seen(rows[i]) > 0 /\ rows[i].mem # None}

Top == Max({0} \cup {Seen(rows[i]) : i \in Live})

\* Fault: the summary is about the last sample.
PeakLast == Last(rows)

\* The last live sample within 0.5% of the maximum.
Peak == IF Live = {} THEN Last(rows)
        ELSE LET top == Top
             IN  rows[Max({i \in Live : 1000 * Seen(rows[i]) >= 995 * top})]

\* Python's round: to the nearest, and to the even one of two.
Round(a, b) == LET q == a \div b
                   r == a % b
               IN  IF 2 * r > b \/ (2 * r = b /\ q % 2 = 1) THEN q + 1 ELSE q

per_conn(value, before, conns) ==
  IF value = None \/ before = None \/ conns = 0 THEN None
  ELSE Round(value - before, conns)

\* The CPU shares near the peak, each as the interval that it is the share of.
window == LET conns == Seen(Peak)
          IN  {i \in Live : 100 * Seen(rows[i]) >= 98 * conns}
cpu == {rows[i].cpu : i \in window} \ {None}

summary == LET peak == Peak
           IN  [stop_reason |-> reason,
                peak_connections |-> Seen(peak),
                bytes_per_connection |-> per_conn(peak.mem, idle, Seen(peak)),
                cpu_pct_near_peak |-> cpu,
                oom_killed |-> Last(rows).state = "oom"]

cmd_run == OpenRun \/ StartRun \/ TakeRow \/ Judge

-----------------------------------------------------------------------------

\* What happens between the last reading of a sample and the next sleep shows in the
\* next sample, if there is one.
Container == /\ pc \notin {"judge", "done", "failed"}
             /\ ServerStops
             /\ UNCHANGED <<pc, files, verdict>>

Next == cmd_idle \/ cmd_run \/ Container

Spec == Init /\ [][Next]_vars

-----------------------------------------------------------------------------
Figures == Nat \cup {None}
Samples == [t : Nat, mem : Figures, cpu : (Nat \X Nat) \cup {None},
            conns : Levels \cup {None}, target : Targets \cup {None},
            state : {"running", "gone"} \cup Stopped]

TypeOK == /\ server \in {"running", "dying"} \cup Stopped
          /\ now \in Nat /\ lastCpu \in Figures
          /\ pc \in {"open_idle", "idle", "open_run", "prime", "sleep", "scrape", "ask",
                     "judge", "done", "failed"}
          /\ idle \in Figures
          /\ row \in Samples /\ rows \in Seq(Samples)
          /\ best \in Levels \cup {0, None} /\ (best = None => Len(rows) <= 1)
          /\ bestAt \in 0 .. now
          /\ reachedAt \in 0 .. now \cup {None}
          /\ reason \in {"stopped", "held", "plateau", "limit", None}

\* "the connection count has not grown by more than 0.5% for 90 seconds"
\* (local-benchmark.md:45): no sample of that time is more than that above the
\* most that was seen before it, however slowly the count crept up.
PlateauIsReal ==
  reason = "plateau" =>
    \E b \in ToSet(rows) : /\ b.t <= now - Plateau
                          /\ \A r \in ToSet(rows) : 1000 * Seen(r) <= 1005 * Seen(b)

\* A run that grows, stalls or loses its target again ends at --max, give or
\* take one sample (record.py:242-244).
StopsInTime == pc = "sleep" => now < TimeLimit

\* The summary and the stop reason agree. A run that is held ended with the answer of a
\* server at its target, together with the memory of that many connections, and reports
\* a peak of at least 99.5% of the target; a run whose last sample has Docker's report of
\* an OOM kill is stopped, for no other reason; and if any sample has both figures, the
\* summary is about one that has.
SummaryAgrees ==
  pc = "done" =>
    LET last == Last(rows)
        killed == last.state = "oom"
    IN  /\ reason = "held" => /\ ~killed /\ Seen(last) >= last.target
                             /\ last.mem # None
                             /\ Memory(Seen(last)) - last.mem <= Cost * Drift
                             /\ 1000 * Seen(Peak) >= 995 * last.target
        /\ killed => reason = "stopped"
        /\ (\E i \in DOMAIN rows : rows[i].mem # None /\ rows[i].conns # None) =>
              Seen(Peak) > 0

\* The memory of a connection that the summary reports is what a connection takes, up
\* to what the number of connections changed within one sample: a dead server's count
\* is never put together with an empty cgroup (record.py:32-34, local-benchmark.md:41).
FigureIsClose ==
  (pc = "done" /\ Live # {}) =>
    LET s == summary
        n == s.peak_connections
        b == s.bytes_per_connection
    IN  /\ b # None
        /\ 2 * (b - Cost) * n <= 2 * Cost * Drift + n
        /\ 2 * (Cost - b) * n <= 2 * Cost * Drift + n

\* The CPU average near the peak has a share to average, and no time is in two of the
\* shares (record.py:164-170, 194, 207).
CpuMeasured ==
  (pc = "done" /\ Live # {}) =>
    LET near == window
    IN  /\ near # {}
        /\ \A i \in near : rows[i].cpu # None
        /\ \A i, j \in near : i < j => rows[i].cpu[2] <= rows[j].cpu[1]

\* "target ... reached and held for ...s" (record.py:237): from some sample that
\* long ago on, no answered sample is below the target.
HeldForHold ==
  reason = "held" =>
    \A r \in ToSet(rows) : (r.t > now - Hold /\ r.conns # None) => r.conns >= Last(rows).target
=============================================================================
