--------------------------- MODULE RecorderProofs ---------------------------
(***************************************************************************)
(* The recorder ends in time, and what it reports is true, for any levels,  *)
(* targets, costs, drifts, delays and limits: its types, the plateau, the   *)
(* agreement of the summary with the stop reason, the figure per connection *)
(* and the CPU shares.                                                     *)
(***************************************************************************)
EXTENDS Recorder, Counting

\* The assumptions, one fact each.
LEMMA Constants ==
  /\ Levels \subseteq Nat \ {0} /\ Targets \subseteq Nat \ {0}
  /\ None \notin Nat /\ None \notin Nat \X Nat
  /\ IdleMemory \in Nat /\ Cost \in Nat /\ Drift \in Nat /\ Delay \in Nat
  /\ Hold \in Nat \ {0} /\ Plateau \in Nat \ {0} /\ TimeLimit \in Nat \ {0}
  /\ None # "stopped" /\ None # "held" /\ None # "plateau" /\ None # "limit"
BY SamplerAssumption, RecorderAssumption DEF SamplerAssumption, RecorderAssumption

\* The product of two numbers is one.
LEMMA Product == ASSUME NEW a \in Nat, NEW b \in Nat PROVE a * b \in Nat
OBVIOUS

\* Memory is a number.
LEMMA MemoryIsNat == ASSUME NEW n \in Nat PROVE Memory(n) \in Nat
<1>1. Cost * n \in Nat
  BY Constants, Product
<1>2. QED
  BY <1>1, Constants DEF Memory

\* What a reading of the cgroup may give.
LEMMA ReadGives ==
  /\ read \subseteq Figures
  /\ server = "running" => \A mem \in read : mem \in Nat /\ mem >= IdleMemory
  /\ server = "dying" => \A mem \in read : mem \in Nat
  /\ (server = "running" \/ server = "dying") => read # {None}
  /\ read # {None} => None \notin read
<1>1. ASSUME NEW n \in Levels \cup {0}
      PROVE  Memory(n) \in Nat /\ Memory(n) >= IdleMemory
  <2>1. n \in Nat
    BY Constants
  <2>2. Cost * n \in Nat
    BY <2>1, Constants, Product
  <2>3. QED
    BY <2>2, Constants DEF Memory
<1>2. CASE server = "running"
  <2>1. read = {Memory(n) : n \in Levels \cup {0}}
    BY <1>2 DEF read
  <2>2. Memory(0) \in read
    BY <2>1
  <2>3. \A mem \in read : mem \in Nat /\ mem >= IdleMemory
    BY <1>1, <2>1
  <2>4. QED
    BY <1>2, <2>2, <2>3, Constants DEF Figures
<1>3. CASE server = "dying"
  BY <1>3, Constants DEF read, Figures
<1>4. CASE server # "running" /\ server # "dying"
  BY <1>4 DEF read, Figures
<1>5. QED
  BY <1>2, <1>3, <1>4

\* A sequence of samples with one more at its end.
LEMMA OneMore ==
  ASSUME NEW s \in Seq(Samples), NEW r \in Samples, NEW t, t = Append(s, r)
  PROVE  /\ t \in Seq(Samples) /\ Len(t) = Len(s) + 1 /\ Len(s) \in Nat
         /\ DOMAIN s = 1 .. Len(s) /\ DOMAIN t = 1 .. Len(s) + 1
         /\ \A i \in 1 .. Len(s) : t[i] = s[i]
         /\ t[Len(s) + 1] = r
OBVIOUS

-----------------------------------------------------------------------------
(* Where the recorder is and what it holds there.                          *)

Early == {"open_idle", "idle", "open_run", "prime", "failed"}

Phases == /\ pc \in Early => /\ now = 0 /\ rows = << >> /\ lastCpu = None
                             /\ best = None /\ bestAt = 0
          /\ pc # "done" => reason = None
          /\ pc \in {"scrape", "ask", "judge"} => row.t <= now
          /\ pc \in {"judge", "done"} => rows # << >> /\ Last(rows) = row
          /\ best = None => rows = << >> \/ (pc = "judge" /\ Len(rows) = 1)

Typed == TypeOK /\ Phases

\* A recorder that has not been started satisfies it.
LEMMA InitTyped == Init => Typed
BY Constants DEF Init, Typed, TypeOK, Phases, Early, NoRow, Samples, Figures, Stopped

\* Making a Sampler changes the program counter only.
LEMMA OpenTyped ==
  ASSUME Typed, OpenIdle \/ OpenRun
  PROVE  Typed'
<1>1. pc \in Early /\ pc # "failed" /\ pc' \in Early
  BY DEF OpenIdle, OpenRun, Open, Early
<1>2. UNCHANGED <<server, now, row, lastCpu, idle, rows, best, bestAt, reachedAt, reason>>
  BY DEF OpenIdle, OpenRun, Open, files, verdict
<1>3. TypeOK'
  BY <1>1, <1>2 DEF Typed, TypeOK, Early
<1>4. Phases'
  BY <1>1, <1>2 DEF Typed, Phases, Early
<1>5. QED
  BY <1>3, <1>4 DEF Typed

\* idle.json is written before the first sample.
LEMMA RecordIdleTyped ==
  ASSUME Typed, RecordIdle
  PROVE  Typed'
<1>1. pc = "idle" /\ pc' = "open_run"
  BY DEF RecordIdle
<1>2. UNCHANGED <<server, now, row, lastCpu, rows, best, bestAt, reachedAt, reason>>
  BY DEF RecordIdle, verdict
<1>3. idle' \in Figures
  BY MemoryIsNat DEF RecordIdle, Figures
<1>4. TypeOK'
  BY <1>1, <1>2, <1>3 DEF Typed, TypeOK
<1>5. Phases'
  BY <1>1, <1>2 DEF Typed, Phases, Early
<1>6. QED
  BY <1>4, <1>5 DEF Typed

\* The loop starts with no rows and a primed counter.
LEMMA StartRunTyped ==
  ASSUME Typed, StartRun
  PROVE  Typed'
<1>1. pc = "prime" /\ pc' = "sleep"
  BY DEF StartRun
<1>2. UNCHANGED <<server, now, row, idle, rows, best, bestAt, reachedAt, reason>>
  BY DEF StartRun, Prime, files, verdict
<1>3. lastCpu' \in Figures
  BY DEF StartRun, Prime, ReadCpu, Typed, TypeOK, Figures
<1>4. TypeOK'
  BY <1>1, <1>2, <1>3 DEF Typed, TypeOK
<1>5. Phases'
  BY <1>1, <1>2 DEF Typed, Phases, Early
<1>6. QED
  BY <1>4, <1>5 DEF Typed

\* A row is made by the first reading and filled by the others.
LEMMA ReadCgroupTyped ==
  ASSUME Typed, pc = "sleep", ReadCgroup, pc' = "scrape", UNCHANGED <<files, verdict>>
  PROVE  Typed'
<1>1. now' = now + 1 /\ now \in Nat /\ lastCpu \in Figures
  BY DEF ReadCgroup, Typed, TypeOK
<1>2. lastCpu' \in Figures
  BY <1>1 DEF ReadCgroup, ReadCpu, Figures
<1>3. PICK mem \in read :
        row' = [NoRow EXCEPT !.t = now', !.mem = mem,
                             !.cpu = IF mem = None \/ lastCpu = None THEN None
                                     ELSE <<lastCpu, now'>>]
  BY DEF ReadCgroup
<1>4. mem \in Figures
  BY ReadGives
<1>5. row' = [t |-> now', mem |-> mem,
              cpu |-> IF mem = None \/ lastCpu = None THEN None ELSE <<lastCpu, now'>>,
              conns |-> None, target |-> None, state |-> "running"]
  BY <1>3 DEF NoRow
<1>6. (IF mem = None \/ lastCpu = None THEN None ELSE <<lastCpu, now'>>)
        \in (Nat \X Nat) \cup {None}
  BY <1>1 DEF Figures
<1>7. row' \in Samples /\ row'.t = now'
  BY <1>1, <1>4, <1>5, <1>6 DEF Samples
<1>8. UNCHANGED <<server, idle, rows, best, bestAt, reachedAt, reason>>
  BY DEF ReadCgroup, files, verdict
<1>9. TypeOK'
  BY <1>1, <1>2, <1>7, <1>8 DEF Typed, TypeOK
<1>10. Phases'
  BY <1>1, <1>7, <1>8 DEF Typed, Phases, Early
<1>11. QED
  BY <1>9, <1>10 DEF Typed

\* The count of connections is put into the row.
LEMMA ScrapeTyped ==
  ASSUME Typed, pc = "scrape", Scrape, pc' = "ask", UNCHANGED <<files, verdict>>
  PROVE  Typed'
<1>1. PICK d \in 0 .. Delay : now' = now + d
  BY DEF Scrape
<1>2. now \in Nat /\ now' \in Nat /\ now <= now'
  BY <1>1, Constants DEF Typed, TypeOK
<1>3. PICK n \in scrape_server : row' = [row EXCEPT !.conns = n]
  BY DEF Scrape
<1>4. n \in Levels \cup {None}
  BY DEF scrape_server
<1>5. row' \in Samples /\ row'.t = row.t
  BY <1>3, <1>4 DEF Typed, TypeOK, Samples
<1>6. UNCHANGED <<server, lastCpu, idle, rows, best, bestAt, reachedAt, reason>>
  BY DEF Scrape, files, verdict
<1>7. TypeOK'
  BY <1>2, <1>5, <1>6 DEF Typed, TypeOK
<1>8. row.t \in Nat /\ row.t <= now
  BY DEF Typed, TypeOK, Samples, Phases
<1>9. Phases'
  BY <1>2, <1>5, <1>6, <1>8 DEF Typed, Phases, Early
<1>10. QED
  BY <1>7, <1>9 DEF Typed

\* A finished row is kept.
LEMMA AskTyped ==
  ASSUME Typed, pc = "ask", AskPrometheusAndDocker, rows' = Append(rows, row'),
         pc' = "judge", UNCHANGED <<idle, verdict>>
  PROVE  Typed'
<1>1. PICK target \in prom, state \in docker_state :
        row' = [row EXCEPT !.target = target, !.state = state]
  BY DEF AskPrometheusAndDocker
<1>2. target \in Targets \cup {None} /\ state \in {"running", "gone"} \cup Stopped
  BY DEF prom, docker_state, Typed, TypeOK, Stopped
<1>3. row' \in Samples /\ row'.t = row.t
  BY <1>1, <1>2 DEF Typed, TypeOK, Samples
<1>4. rows \in Seq(Samples)
  BY DEF Typed, TypeOK
<1>5. /\ rows' \in Seq(Samples) /\ Len(rows') = Len(rows) + 1
      /\ Last(rows') = row' /\ rows' # << >>
  BY <1>3, <1>4, OneMore DEF Last
<1>6. UNCHANGED <<server, now, lastCpu, idle, best, bestAt, reachedAt, reason>>
  BY DEF AskPrometheusAndDocker, verdict
<1>7. best = None => rows = << >>
  BY DEF Typed, Phases
<1>8. best = None => Len(rows') = 1
  BY <1>5, <1>7
<1>9. TypeOK'
  BY <1>3, <1>5, <1>6, <1>8 DEF Typed, TypeOK
<1>10. Phases'
  BY <1>3, <1>5, <1>6, <1>8 DEF Typed, Phases, Early
<1>11. QED
  BY <1>9, <1>10 DEF Typed

\* A level is a number of connections.
LEMMA LevelIsNat == \A n \in Levels : n \in Nat /\ n > 0
BY Constants

\* A row counts as none or some of the levels.
LEMMA SeenIsNat ==
  ASSUME NEW r \in Samples
  PROVE  /\ Seen(r) \in Levels \cup {0} /\ Seen(r) \in Nat
         /\ Seen(r) > 0 <=> r.conns # None
         /\ r.conns # None => r.conns \in Nat /\ Seen(r) = r.conns
<1>1. r.conns \in Levels \cup {None}
  BY DEF Samples
<1>2. CASE r.conns = None
  <2>1. Seen(r) = 0
    BY <1>2 DEF Seen
  <2>2. QED
    BY <1>2, <2>1
<1>3. CASE r.conns # None
  <2>1. Seen(r) = r.conns /\ r.conns \in Levels
    BY <1>1, <1>3 DEF Seen
  <2>2. r.conns \in Nat /\ r.conns > 0
    BY <2>1, LevelIsNat
  <2>3. QED
    BY <1>3, <2>1, <2>2
<1>4. QED
  BY <1>2, <1>3

\* A verdict is a reason or none.
LEMMA JudgeTyped ==
  ASSUME Typed, Judge
  PROVE  Typed'
<1>1. /\ UNCHANGED <<server, now, row, lastCpu, idle, rows>>
      /\ pc = "judge" /\ pc' \in {"sleep", "done"}
      /\ pc' = "sleep" <=> reason' = None
  BY DEF Judge, files
<1>2. row \in Samples /\ now \in Nat /\ best \in Levels \cup {0, None} /\ bestAt \in 0 .. now
  BY DEF Typed, TypeOK
<1>3. best' \in Levels \cup {0, None} /\ best' # None /\ bestAt' \in 0 .. now
  <2>1. CASE Grown
    <3>1. best' = Seen(row) /\ bestAt' = now
      BY <2>1 DEF Judge, UpdateBest
    <3>2. QED
      BY <1>2, <3>1, SeenIsNat, Constants
  <2>2. CASE ~Grown
    <3>1. best' = best /\ bestAt' = bestAt
      BY <2>2 DEF Judge, UpdateBest
    <3>2. QED
      BY <1>2, <2>2, <3>1 DEF Grown
  <2>3. QED
    BY <2>1, <2>2
<1>4. reachedAt' \in 0 .. now \cup {None}
  BY <1>2 DEF Judge, UpdateReached, Typed, TypeOK
<1>5. reason' \in {"stopped", "held", "plateau", "limit", None}
  BY DEF Judge, Verdict
<1>6. TypeOK'
  BY <1>1, <1>3, <1>4, <1>5 DEF Typed, TypeOK
<1>7. Phases'
  BY <1>1, <1>3 DEF Typed, Phases, Early
<1>8. QED
  BY <1>6, <1>7 DEF Typed

\* The container changes its state only.
LEMMA ContainerTyped ==
  ASSUME Typed, Container
  PROVE  Typed'
<1>1. UNCHANGED <<now, row, lastCpu, pc, idle, rows, best, bestAt, reachedAt, reason>>
  BY DEF Container, ServerStops, files, verdict
<1>2. server' \in {"running", "dying"} \cup Stopped
  BY DEF Container, ServerStops
<1>3. TypeOK'
  BY <1>1, <1>2 DEF Typed, TypeOK
<1>4. Phases'
  BY <1>1 DEF Typed, Phases, Early
<1>5. QED
  BY <1>3, <1>4 DEF Typed

\* A row is taken in three steps.
LEMMA TakeRowSteps ==
  ASSUME TakeRow
  PROVE  \/ pc = "sleep" /\ ReadCgroup /\ pc' = "scrape" /\ UNCHANGED <<files, verdict>>
         \/ pc = "scrape" /\ Scrape /\ pc' = "ask" /\ UNCHANGED <<files, verdict>>
         \/ /\ pc = "ask" /\ AskPrometheusAndDocker /\ rows' = Append(rows, row')
            /\ pc' = "judge" /\ UNCHANGED <<idle, verdict>>
BY DEF TakeRow

\* Every step of the recorder and of the container keeps it.
LEMMA TypedStep ==
  ASSUME Typed, [Next]_vars
  PROVE  Typed'
<1>1. CASE OpenIdle \/ OpenRun
  BY <1>1, OpenTyped
<1>2. CASE RecordIdle
  BY <1>2, RecordIdleTyped
<1>3. CASE StartRun
  BY <1>3, StartRunTyped
<1>4. CASE TakeRow
  BY <1>4, TakeRowSteps, ReadCgroupTyped, ScrapeTyped, AskTyped
<1>5. CASE Judge
  BY <1>5, JudgeTyped
<1>6. CASE Container
  BY <1>6, ContainerTyped
<1>7. CASE UNCHANGED vars
  <2>1. TypeOK'
    BY <1>7 DEF Typed, TypeOK, vars, files, verdict
  <2>2. Phases'
    BY <1>7 DEF Typed, Phases, Early, vars, files, verdict
  <2>3. QED
    BY <2>1, <2>2 DEF Typed
<1>8. QED
  BY <1>1, <1>2, <1>3, <1>4, <1>5, <1>6, <1>7 DEF Next, cmd_idle, cmd_run

\* No value of the recorder is of another kind than the code gives it: in particular
\* best is a number from the first row on (record.py:209, 228-229).
THEOREM RecorderTypes == Spec => []TypeOK
<1>1. Init => Typed
  BY InitTyped
<1>2. Typed /\ [Next]_vars => Typed'
  BY TypedStep
<1>3. Typed => TypeOK
  BY DEF Typed
<1>4. QED
  BY <1>1, <1>2, <1>3, PTL DEF Spec

-----------------------------------------------------------------------------
(* The end of a run.                                                       *)

\* best is the count of some row that had been taken at best_at, and no row that has
\* been judged is more than 0.5% above it: that some row attains best is what makes
\* the plateau one of the samples.
Growth == /\ \A i \in DOMAIN rows :
                \/ pc = "judge" /\ i = Len(rows)
                \/ best # None /\ 1000 * Seen(rows[i]) <= 1005 * best
          /\ best # None =>
               \E i \in DOMAIN rows : rows[i].t <= bestAt /\ Seen(rows[i]) = best

\* What the reasons rest on.
Ends == /\ pc = "sleep" => now < TimeLimit
        /\ reason = "plateau" => best # None /\ now - bestAt >= Plateau
        /\ reason = "held" => row.state = "running" /\ Reached
        /\ (pc = "done" /\ row.state = "oom") => reason = "stopped"

Judged == Growth /\ Ends

\* Two readings of one sample are of one time: now is a number, and so on.
LEMMA JudgedTypes ==
  ASSUME Typed
  PROVE  /\ rows \in Seq(Samples) /\ row \in Samples /\ now \in Nat /\ bestAt \in Nat
         /\ bestAt <= now /\ best \in Nat \cup {None}
         /\ DOMAIN rows = 1 .. Len(rows) /\ Len(rows) \in Nat
         /\ \A i \in 1 .. Len(rows) : rows[i] \in Samples /\ rows[i].t \in Nat
         /\ row.t \in Nat
<1>1. /\ rows \in Seq(Samples) /\ row \in Samples /\ now \in Nat /\ bestAt \in Nat
      /\ bestAt <= now /\ best \in Nat \cup {None}
  BY Constants DEF Typed, TypeOK
<1>2. \A r \in Samples : r.t \in Nat
  BY DEF Samples
<1>3. DOMAIN rows = 1 .. Len(rows) /\ Len(rows) \in Nat
      /\ \A i \in 1 .. Len(rows) : rows[i] \in Samples
  BY <1>1
<1>4. QED
  BY <1>1, <1>2, <1>3

\* Nothing is judged at the start.
LEMMA InitJudged == Init => Judged
BY Constants DEF Init, Judged, Growth, Ends, NoRow

\* A new row is not judged yet.
LEMMA AskJudged ==
  ASSUME Typed, Judged, pc = "ask", AskPrometheusAndDocker, rows' = Append(rows, row'),
         pc' = "judge", UNCHANGED <<idle, verdict>>, Typed'
  PROVE  Judged'
<1>1. rows \in Seq(Samples) /\ row' \in Samples
  BY DEF Typed, TypeOK
<1>2. /\ Len(rows') = Len(rows) + 1 /\ Len(rows) \in Nat
      /\ DOMAIN rows = 1 .. Len(rows) /\ DOMAIN rows' = 1 .. Len(rows) + 1
      /\ \A i \in 1 .. Len(rows) : rows'[i] = rows[i]
  BY <1>1, OneMore
<1>3. best' = best /\ bestAt' = bestAt /\ reason' = reason /\ now' = now /\ reason = None
  BY DEF AskPrometheusAndDocker, verdict, Typed, Phases
<1>4. ASSUME NEW i \in DOMAIN rows'
      PROVE  (pc' = "judge" /\ i = Len(rows')) \/ (best' # None /\ 1000 * Seen(rows'[i]) <= 1005 * best')
  <2>1. CASE i = Len(rows) + 1
    BY <1>2, <2>1
  <2>2. CASE i \in 1 .. Len(rows)
    <3>1. best # None /\ 1000 * Seen(rows[i]) <= 1005 * best
      BY <1>2, <2>2 DEF Judged, Growth
    <3>2. Seen(rows'[i]) = Seen(rows[i])
      BY <1>2, <2>2 DEF Seen
    <3>3. QED
      BY <1>3, <3>1, <3>2
  <2>3. QED
    BY <1>2, <2>1, <2>2
<1>5. ASSUME best' # None
      PROVE  \E i \in DOMAIN rows' : rows'[i].t <= bestAt' /\ Seen(rows'[i]) = best'
  <2>1. PICK i \in DOMAIN rows : rows[i].t <= bestAt /\ Seen(rows[i]) = best
    BY <1>3, <1>5 DEF Judged, Growth
  <2>2. i \in DOMAIN rows' /\ rows'[i] = rows[i]
    BY <1>2
  <2>3. rows'[i].t <= bestAt' /\ Seen(rows'[i]) = best'
    BY <1>3, <2>1, <2>2 DEF Seen
  <2>4. QED
    BY <2>2, <2>3
<1>6. Growth'
  BY <1>4, <1>5 DEF Growth
<1>7. Ends'
  BY <1>3, Constants DEF Ends
<1>8. QED
  BY <1>6, <1>7 DEF Judged

\* The step that judges a row.
LEMMA JudgeJudged ==
  ASSUME Typed, Judged, Judge
  PROVE  Judged'
<1>1. /\ UNCHANGED <<now, row, rows>> /\ pc = "judge"
      /\ pc' = IF reason' = None THEN "sleep" ELSE "done"
      /\ UpdateBest /\ reason' = Verdict
  BY DEF Judge, files
<1>2. Last(rows) = row /\ rows # << >>
  BY <1>1 DEF Typed, Phases
<1>3. Len(rows) \in DOMAIN rows /\ rows[Len(rows)] = row
  BY <1>2, JudgedTypes DEF Last
<1>4. row.t <= now /\ row \in Samples /\ Seen(row) \in Nat
  BY <1>1, JudgedTypes, SeenIsNat DEF Typed, Phases
<1>5. /\ best' \in Nat /\ 1000 * Seen(row) <= 1005 * best'
      /\ best # None => best <= best'
  <2>1. CASE Grown
    <3>1. best' = Seen(row)
      BY <1>1, <2>1 DEF UpdateBest
    <3>2. best # None => 1000 * Seen(row) > 1005 * best
      BY <2>1 DEF Grown
    <3>3. QED
      BY <1>4, <3>1, <3>2, JudgedTypes
  <2>2. CASE ~Grown
    <3>1. best' = best /\ best # None /\ ~(1000 * Seen(row) > 1005 * best)
      BY <1>1, <2>2 DEF UpdateBest, Grown
    <3>2. QED
      BY <1>4, <3>1, JudgedTypes
  <2>3. QED
    BY <2>1, <2>2
<1>6. ASSUME NEW i \in DOMAIN rows
      PROVE  1000 * Seen(rows[i]) <= 1005 * best'
  <2>1. CASE i = Len(rows)
    BY <1>3, <1>5, <2>1
  <2>2. CASE i # Len(rows)
    <3>1. best # None /\ 1000 * Seen(rows[i]) <= 1005 * best
      BY <2>2 DEF Judged, Growth
    <3>2. Seen(rows[i]) \in Nat
      BY JudgedTypes, SeenIsNat
    <3>3. QED
      BY <1>5, <3>1, <3>2, JudgedTypes
  <2>3. QED
    BY <2>1, <2>2
<1>7. \E i \in DOMAIN rows : rows[i].t <= bestAt' /\ Seen(rows[i]) = best'
  <2>1. CASE Grown
    <3>1. best' = Seen(row) /\ bestAt' = now
      BY <1>1, <2>1 DEF UpdateBest
    <3>2. QED
      BY <1>3, <1>4, <3>1
  <2>2. CASE ~Grown
    <3>1. best' = best /\ bestAt' = bestAt /\ best # None
      BY <1>1, <2>2 DEF UpdateBest, Grown
    <3>2. QED
      BY <3>1 DEF Judged, Growth
  <2>3. QED
    BY <2>1, <2>2
<1>8. best' # None /\ DOMAIN rows' = DOMAIN rows
      /\ \A i \in DOMAIN rows : rows'[i].t = rows[i].t /\ Seen(rows'[i]) = Seen(rows[i])
  BY <1>1, <1>5, Constants
<1>9. Growth'
  BY <1>6, <1>7, <1>8 DEF Growth
<1>10. Ends'
  <2>1. pc' = "sleep" => reason' = None
    BY <1>1
  <2>2. reason' = None => now < TimeLimit
    <3>1. reason' = None => ~(now >= TimeLimit)
      BY <1>1, Constants DEF Verdict
    <3>2. QED
      BY <3>1, Constants, JudgedTypes
  <2>3. reason' = "plateau" => now - bestAt' >= Plateau
    BY <1>1, Constants DEF Verdict
  <2>4. reason' = "held" => row.state = "running" /\ Reached
    BY <1>1, Constants DEF Verdict
  <2>5. row.state = "oom" => reason' = "stopped"
    BY <1>1 DEF Verdict
  <2>6. Reached' = Reached
    BY <1>1 DEF Reached, Seen
  <2>7. QED
    BY <1>1, <1>5, <2>1, <2>2, <2>3, <2>4, <2>5, <2>6, Constants DEF Ends
<1>11. QED
  BY <1>9, <1>10 DEF Judged

\* Before the loop, between two readings and in the container nothing is judged.
LEMMA OthersJudged ==
  ASSUME Typed, Judged, UNCHANGED <<rows, best, bestAt, reason>>,
         pc \notin {"judge", "done"}, pc' \notin {"judge", "done"},
         pc' = "sleep" => now' < TimeLimit
  PROVE  Judged'
<1>1. reason' = None
  BY DEF Typed, Phases
<1>2. Growth'
  BY DEF Judged, Growth, Seen
<1>3. Ends'
  BY <1>1, Constants DEF Ends
<1>4. QED
  BY <1>2, <1>3 DEF Judged

\* Every step keeps it.
LEMMA JudgedStep ==
  ASSUME Typed, Judged, [Next]_vars, Typed'
  PROVE  Judged'
<1>1. CASE OpenIdle \/ OpenRun \/ RecordIdle
  BY <1>1, OthersJudged DEF OpenIdle, OpenRun, Open, RecordIdle, verdict, files
<1>2. CASE StartRun
  <2>1. now' < TimeLimit
    BY <1>2, Constants DEF StartRun, Prime, Typed, Phases, Early
  <2>2. QED
    BY <1>2, <2>1, OthersJudged DEF StartRun, verdict, files
<1>3. CASE TakeRow
  <2>1. CASE pc \in {"sleep", "scrape"} /\ pc' \in {"scrape", "ask"} /\ UNCHANGED <<files, verdict>>
    BY <2>1, OthersJudged DEF verdict, files
  <2>2. CASE pc = "ask" /\ AskPrometheusAndDocker /\ rows' = Append(rows, row')
             /\ pc' = "judge" /\ UNCHANGED <<idle, verdict>>
    BY <2>2, AskJudged
  <2>3. QED
    BY <1>3, TakeRowSteps, <2>1, <2>2
<1>4. CASE Judge
  BY <1>4, JudgeJudged
<1>5. CASE Container
  <2>1. now' = now /\ pc' = pc /\ pc \notin {"judge", "done"}
        /\ UNCHANGED <<rows, best, bestAt, reason>>
    BY <1>5 DEF Container, ServerStops, files, verdict
  <2>2. pc' = "sleep" => now' < TimeLimit
    BY <2>1 DEF Judged, Ends
  <2>3. QED
    BY <2>1, <2>2, OthersJudged
<1>6. CASE UNCHANGED vars
  <2>1. Growth'
    BY <1>6 DEF Judged, Growth, Seen, vars, files, verdict
  <2>2. Ends'
    BY <1>6 DEF Judged, Ends, Reached, Seen, vars, files, verdict
  <2>3. QED
    BY <2>1, <2>2 DEF Judged
<1>7. QED
  BY <1>1, <1>2, <1>3, <1>4, <1>5, <1>6 DEF Next, cmd_idle, cmd_run

\* A run that grows, stalls or loses its target again ends at --max: the loop is not
\* entered again at or after the limit, whatever the verdicts before (record.py:242-244).
THEOREM RunsEnd == Spec => []StopsInTime
<1>1. Init => Typed /\ Judged
  BY InitTyped, InitJudged
<1>2. Typed /\ Judged /\ [Next]_vars => Typed' /\ Judged'
  BY TypedStep, JudgedStep
<1>3. Typed /\ Judged => StopsInTime
  BY DEF Judged, Ends, StopsInTime
<1>4. QED
  BY <1>1, <1>2, <1>3, PTL DEF Spec

\* A run that is reported as a plateau is one, however slowly the count crept up: the
\* sample that set best is the one that nothing later exceeds (record.py:228-240).
THEOREM PlateausAreReal == Spec => []PlateauIsReal
<1>1. Init => Typed /\ Judged
  BY InitTyped, InitJudged
<1>2. Typed /\ Judged /\ [Next]_vars => Typed' /\ Judged'
  BY TypedStep, JudgedStep
<1>3. Typed /\ Judged => PlateauIsReal
  <2> SUFFICES ASSUME Typed, Judged, reason = "plateau"
               PROVE  \E b \in ToSet(rows) :
                        /\ b.t <= now - Plateau
                        /\ \A r \in ToSet(rows) : 1000 * Seen(r) <= 1005 * Seen(b)
    BY DEF PlateauIsReal
  <2>1. best # None /\ now - bestAt >= Plateau /\ pc # "judge"
    BY Constants DEF Judged, Ends, Typed, Phases
  <2>2. PICK i \in DOMAIN rows : rows[i].t <= bestAt /\ Seen(rows[i]) = best
    BY <2>1 DEF Judged, Growth
  <2>3. rows[i].t <= now - Plateau
    BY <2>1, <2>2, JudgedTypes, Constants
  <2>4. \A j \in DOMAIN rows : 1000 * Seen(rows[j]) <= 1005 * Seen(rows[i])
    BY <2>1, <2>2 DEF Judged, Growth
  <2>5. rows[i] \in ToSet(rows) /\ \A r \in ToSet(rows) : \E j \in DOMAIN rows : r = rows[j]
    BY DEF ToSet
  <2>6. QED
    BY <2>3, <2>4, <2>5
<1>4. QED
  BY <1>1, <1>2, <1>3, PTL DEF Spec

-----------------------------------------------------------------------------
(* A hold.                                                                 *)

\* A sample at its target, of a server that runs.
AtTarget(r) == r.state = "running" /\ r.target # None /\ Seen(r) >= r.target

\* reached_at is the time of a row at its target, or later, and is never forgotten.
Since == /\ reachedAt # None =>
              \E i \in DOMAIN rows : rows[i].t <= reachedAt /\ AtTarget(rows[i])
         /\ reason = "held" => reachedAt # None /\ now - reachedAt >= Hold

\* "target ... reached and held for ...s" (record.py:237), as far as the code sees to
\* it: the last sample is at its target, and one of at least that long ago was at the
\* target it had. What lies between is not looked at: HeldForHold does not hold.
HeldAtBothEnds ==
  reason = "held" => /\ AtTarget(Last(rows))
                     /\ \E r \in ToSet(rows) : r.t <= now - Hold /\ AtTarget(r)

\* A step that judges nothing keeps the row that reached_at is about.
LEMMA OthersSince ==
  ASSUME Typed, Since, UNCHANGED <<reachedAt, reason>>, pc \notin {"done"},
         rows' = rows \/ rows' = Append(rows, row'), Typed',
         pc = "judge" => pc' = "judge"
  PROVE  Since'
<1>1. reason = None
  BY DEF Typed, Phases
<1>2. ASSUME NEW i \in DOMAIN rows
      PROVE  i \in DOMAIN rows' /\ rows'[i] = rows[i]
  <2>1. CASE rows' = Append(rows, row')
    <3>1. rows \in Seq(Samples) /\ row' \in Samples
      BY DEF Typed, TypeOK
    <3>2. QED
      BY <2>1, <3>1, OneMore, JudgedTypes
  <2>2. QED
    BY <2>1
<1>3. ASSUME reachedAt' # None
      PROVE  \E i \in DOMAIN rows' : rows'[i].t <= reachedAt' /\ AtTarget(rows'[i])
  <2>1. PICK i \in DOMAIN rows : rows[i].t <= reachedAt /\ AtTarget(rows[i])
    BY <1>3 DEF Since
  <2>2. QED
    BY <1>2, <2>1 DEF AtTarget, Seen
<1>4. QED
  BY <1>1, <1>3, Constants DEF Since

\* The step that judges a row sets reached_at by that row, or leaves it.
LEMMA JudgeSince ==
  ASSUME Typed, Since, Judge
  PROVE  Since'
<1>1. /\ UNCHANGED <<now, row, rows>> /\ pc = "judge" /\ UpdateReached /\ reason' = Verdict
  BY DEF Judge, files
<1>2. Len(rows) \in DOMAIN rows /\ rows[Len(rows)] = row /\ row.t <= now
  <2>1. Last(rows) = row /\ rows # << >> /\ row.t <= now
    BY <1>1 DEF Typed, Phases
  <2>2. QED
    BY <2>1, JudgedTypes DEF Last
<1>3. ASSUME reachedAt' # None
      PROVE  \E i \in DOMAIN rows : rows[i].t <= reachedAt' /\ AtTarget(rows[i])
  <2>1. CASE row.state = "running" /\ Reached /\ reachedAt = None
    <3>1. reachedAt' = now /\ AtTarget(row)
      BY <1>1, <2>1 DEF UpdateReached, Reached, AtTarget
    <3>2. QED
      BY <1>2, <3>1
  <2>2. CASE ~(row.state = "running" /\ Reached /\ reachedAt = None)
    <3>1. reachedAt' = reachedAt
      BY <1>1, <2>2 DEF UpdateReached
    <3>2. QED
      BY <1>3, <3>1 DEF Since
  <2>3. QED
    BY <2>1, <2>2
<1>4. ASSUME reason' = "held"
      PROVE  reachedAt' # None /\ now - reachedAt' >= Hold
  <2>1. row.state = "running" /\ Reached /\ now - reachedAt' >= Hold
    BY <1>1, <1>4, Constants DEF Verdict
  <2>2. now # None
    BY Constants, JudgedTypes
  <2>3. QED
    BY <1>1, <2>1, <2>2 DEF UpdateReached
<1>5. DOMAIN rows' = DOMAIN rows /\ now' = now /\ \A i \in DOMAIN rows : rows'[i] = rows[i]
  BY <1>1
<1>6. QED
  BY <1>3, <1>4, <1>5 DEF Since, AtTarget, Seen

\* Every step keeps it.
LEMMA SinceStep ==
  ASSUME Typed, Since, [Next]_vars, Typed'
  PROVE  Since'
<1>1. CASE Judge
  BY <1>1, JudgeSince
<1>2. CASE OpenIdle \/ OpenRun \/ RecordIdle
  BY <1>2, OthersSince DEF OpenIdle, OpenRun, Open, RecordIdle, verdict, files
<1>3. CASE StartRun
  BY <1>3, OthersSince DEF StartRun, verdict, files
<1>4. CASE TakeRow
  BY <1>4, OthersSince, TakeRowSteps DEF verdict, files
<1>5. CASE Container
  BY <1>5, OthersSince DEF Container, ServerStops, files, verdict
<1>6. CASE UNCHANGED vars
  BY <1>6 DEF Since, AtTarget, Seen, vars, files, verdict
<1>7. QED
  BY <1>1, <1>2, <1>3, <1>4, <1>5, <1>6 DEF Next, cmd_idle, cmd_run

\* A run that is reported as held began the hold at its target and ended it there
\* (record.py:233-238).
THEOREM HoldsHaveTwoEnds == Spec => []HeldAtBothEnds
<1>1. Init => Typed /\ Judged /\ Since
  BY InitTyped, InitJudged, Constants DEF Init, Since
<1>2. Typed /\ Judged /\ Since /\ [Next]_vars => Typed' /\ Judged' /\ Since'
  BY TypedStep, JudgedStep, SinceStep
<1>3. ASSUME Typed, Judged, Since
      PROVE  HeldAtBothEnds
  <2> SUFFICES ASSUME reason = "held"
               PROVE  /\ AtTarget(Last(rows))
                      /\ \E r \in ToSet(rows) : r.t <= now - Hold /\ AtTarget(r)
    BY DEF HeldAtBothEnds
  <2>1. reachedAt # None /\ now - reachedAt >= Hold /\ reachedAt \in Nat /\ pc = "done"
    BY <1>3, Constants DEF Since, Typed, TypeOK, Phases
  <2>2. AtTarget(Last(rows))
    <3>1. Last(rows) = row
      BY <1>3, <2>1 DEF Typed, Phases
    <3>2. row.state = "running" /\ Reached
      BY <1>3 DEF Judged, Ends
    <3>3. QED
      BY <3>1, <3>2 DEF AtTarget, Reached
  <2>3. PICK i \in DOMAIN rows : rows[i].t <= reachedAt /\ AtTarget(rows[i])
    BY <1>3, <2>1 DEF Since
  <2>4. rows[i].t <= now - Hold
    BY <1>3, <2>1, <2>3, JudgedTypes, Constants
  <2>5. rows[i] \in ToSet(rows)
    BY DEF ToSet
  <2>6. QED
    BY <2>2, <2>3, <2>4, <2>5
<1>4. Typed /\ Judged /\ Since => HeldAtBothEnds
  BY <1>3
<1>5. QED
  BY <1>1, <1>2, <1>4, PTL DEF Spec

-----------------------------------------------------------------------------
(* The figures.                                                            *)

\* A row with a count of connections has the memory of a server that holds about as
\* many; the memory at rest was that of a server that ran; and a row with memory has a
\* CPU share.
Close(r) == /\ r.conns # None => /\ r.mem \in Nat /\ r.mem >= IdleMemory
                                 /\ Memory(r.conns) - r.mem <= Cost * Drift
                                 /\ r.mem - Memory(r.conns) <= Cost * Drift
                                 /\ idle = IdleMemory
            /\ r.mem # None => r.cpu # None

Figured == /\ \A i \in DOMAIN rows : Close(rows[i])
           /\ pc \in {"scrape", "ask"} => Close(row)
           /\ (server = "running" /\ pc \notin {"open_idle", "idle"}) => idle = IdleMemory
           /\ (pc \in {"sleep", "scrape", "ask", "judge"} /\ server \notin Stopped) =>
                lastCpu # None
           /\ pc = "scrape" =>
                /\ row.conns = None
                /\ server \notin Stopped => row.mem # None
                /\ server = "running" => row.mem >= IdleMemory

\* The CPU shares are of times one after the other, and none of them goes on.
Shares == /\ lastCpu # None => lastCpu <= now
          /\ \A i \in DOMAIN rows :
                rows[i].cpu # None => lastCpu # None /\ rows[i].cpu[2] <= lastCpu
          /\ \A i, j \in DOMAIN rows :
                (i < j /\ rows[i].cpu # None /\ rows[j].cpu # None) =>
                  rows[i].cpu[2] <= rows[j].cpu[1]
          /\ (pc \in {"scrape", "ask"} /\ row.cpu # None) =>
                /\ lastCpu # None /\ row.cpu[2] <= lastCpu
                /\ \A i \in DOMAIN rows : rows[i].cpu # None => rows[i].cpu[2] <= row.cpu[1]

\* Nothing is measured at the start.
LEMMA InitFigured == Init => Figured /\ Shares
BY Constants DEF Init, Figured, Shares, Close, NoRow

\* Making a Sampler fails only when the server does not run.
LEMMA OpenFigured ==
  ASSUME Typed, Figured, OpenIdle \/ OpenRun
  PROVE  Figured'
<1>1. UNCHANGED <<server, now, row, lastCpu, idle, rows>>
  BY DEF OpenIdle, OpenRun, Open, files
<1>2. \/ pc = "open_idle" /\ pc' = "idle"
      \/ pc = "open_run" /\ pc' = "prime"
      \/ pc' = "failed" /\ server # "running"
  BY DEF OpenIdle, OpenRun, Open, opens
<1>3. rows = << >>
  BY DEF OpenIdle, OpenRun, Open, Typed, Phases, Early
<1>4. QED
  BY <1>1, <1>2, <1>3 DEF Figured

\* The memory at rest of a server that runs is what a server needs without connections.
LEMMA RecordIdleFigured ==
  ASSUME Typed, Figured, RecordIdle
  PROVE  Figured'
<1>1. UNCHANGED <<server, now, row, lastCpu, rows>> /\ pc' = "open_run"
  BY DEF RecordIdle
<1>2. rows = << >>
  BY DEF RecordIdle, Typed, Phases, Early
<1>3. Memory(0) = IdleMemory
  BY Constants DEF Memory
<1>4. server = "running" => idle' = IdleMemory
  BY <1>3 DEF RecordIdle
<1>5. QED
  BY <1>1, <1>2, <1>4 DEF Figured

\* The CPU counter is primed if the cgroup is there.
LEMMA StartRunFigured ==
  ASSUME Typed, Figured, StartRun
  PROVE  Figured'
<1>1. UNCHANGED <<server, now, row, idle, rows>> /\ pc = "prime" /\ pc' = "sleep"
  BY DEF StartRun, Prime, files
<1>2. rows = << >> /\ now = 0 /\ server \in {"running", "dying"} \cup Stopped
  BY <1>1 DEF Typed, TypeOK, Phases, Early
<1>3. server \notin Stopped => lastCpu' # None
  BY <1>2, ReadGives, Constants DEF StartRun, Prime, ReadCpu
<1>4. QED
  BY <1>1, <1>2, <1>3 DEF Figured

\* The first reading of a row.
LEMMA ReadCgroupFigured ==
  ASSUME Typed, Figured, pc = "sleep", ReadCgroup, pc' = "scrape", UNCHANGED <<files, verdict>>
  PROVE  Figured'
<1>1. UNCHANGED <<server, idle, rows>>
  BY DEF ReadCgroup, files
<1>2. PICK mem \in read :
        row' = [NoRow EXCEPT !.t = now', !.mem = mem,
                             !.cpu = IF mem = None \/ lastCpu = None THEN None
                                     ELSE <<lastCpu, now'>>]
  BY DEF ReadCgroup
<1>3. /\ row'.mem = mem /\ row'.conns = None
      /\ row'.cpu = IF mem = None \/ lastCpu = None THEN None ELSE <<lastCpu, now'>>
  BY <1>2 DEF NoRow
<1>4. server \in {"running", "dying"} \cup Stopped /\ now \in Nat /\ now' = now + 1
      /\ lastCpu \in Figures
  BY DEF Typed, TypeOK, ReadCgroup
<1>5. server \notin Stopped => mem \in Nat /\ lastCpu # None /\ lastCpu' # None
  BY <1>4, ReadGives, Constants DEF Figured, ReadCgroup, ReadCpu
<1>6. server = "running" => mem >= IdleMemory
  BY ReadGives
<1>7. server \in Stopped => mem = None
  BY DEF read, Stopped
<1>8. row'.mem # None => row'.cpu # None
  <2>1. row'.mem # None => mem # None /\ lastCpu # None
    BY <1>3, <1>5, <1>7
  <2>2. lastCpu # None => <<lastCpu, now'>> \in Nat \X Nat
    BY <1>4 DEF Figures
  <2>3. QED
    BY <1>3, <2>1, <2>2, Constants
<1>9. Close(row)'
  BY <1>3, <1>8 DEF Close
<1>10. \A i \in DOMAIN rows : Close(rows[i])'
  BY <1>1 DEF Figured, Close
<1>11. QED
  BY <1>1, <1>3, <1>5, <1>6, <1>9, <1>10, Constants DEF Figured

\* A count comes from a server that runs, whose memory has been read.
LEMMA ScrapeFigured ==
  ASSUME Typed, Figured, pc = "scrape", Scrape, pc' = "ask", UNCHANGED <<files, verdict>>
  PROVE  Figured'
<1>1. UNCHANGED <<server, lastCpu, idle, rows>>
  BY DEF Scrape, files
<1>2. PICK n \in scrape_server : row' = [row EXCEPT !.conns = n]
  BY DEF Scrape
<1>3. row'.conns = n /\ row'.mem = row.mem /\ row'.cpu = row.cpu
  BY <1>2 DEF Typed, TypeOK, Samples
<1>4. n # None => /\ server = "running"
                  /\ Memory(n) - row.mem <= Cost * Drift
                  /\ row.mem - Memory(n) <= Cost * Drift
  BY DEF scrape_server
<1>5. n # None => row.mem \in Nat /\ row.mem >= IdleMemory /\ idle = IdleMemory
  <2>1. row.mem \in Figures
    BY DEF Typed, TypeOK, Samples
  <2>2. QED
    BY <1>4, <2>1 DEF Figured, Stopped, Figures
<1>6. Close(row)'
  BY <1>1, <1>3, <1>4, <1>5 DEF Close, Figured
<1>7. \A i \in DOMAIN rows : Close(rows[i])'
  BY <1>1 DEF Figured, Close
<1>8. QED
  BY <1>1, <1>6, <1>7 DEF Figured

\* A finished row is as close as it was.
LEMMA AskFigured ==
  ASSUME Typed, Figured, pc = "ask", AskPrometheusAndDocker, rows' = Append(rows, row'),
         pc' = "judge", UNCHANGED <<idle, verdict>>, Typed'
  PROVE  Figured'
<1>1. UNCHANGED <<server, lastCpu, idle>>
  BY DEF AskPrometheusAndDocker
<1>2. row'.conns = row.conns /\ row'.mem = row.mem /\ row'.cpu = row.cpu
  BY DEF AskPrometheusAndDocker, Typed, TypeOK, Samples
<1>3. Close(row)'
  BY <1>1, <1>2 DEF Figured, Close
<1>4. /\ Len(rows) \in Nat /\ DOMAIN rows = 1 .. Len(rows)
      /\ DOMAIN rows' = 1 .. Len(rows) + 1
      /\ \A i \in 1 .. Len(rows) : rows'[i] = rows[i]
      /\ rows'[Len(rows) + 1] = row'
  <2>1. rows \in Seq(Samples) /\ row' \in Samples
    BY DEF Typed, TypeOK
  <2>2. QED
    BY <2>1, OneMore
<1>5. ASSUME NEW i \in 1 .. Len(rows) + 1 PROVE Close(rows[i])'
  <2>1. CASE i = Len(rows) + 1
    BY <1>3, <1>4, <2>1 DEF Close
  <2>2. CASE i \in 1 .. Len(rows)
    <3>1. Close(rows[i]) /\ rows'[i] = rows[i]
      BY <1>4, <2>2 DEF Figured
    <3>2. QED
      BY <1>1, <3>1 DEF Close
  <2>3. QED
    BY <1>4, <2>1, <2>2
<1>6. QED
  BY <1>1, <1>4, <1>5 DEF Figured

\* A server that has stopped never runs again.
LEMMA ContainerFigured ==
  ASSUME Figured, Container
  PROVE  Figured'
<1>1. UNCHANGED <<now, row, lastCpu, pc, idle, rows>>
  BY DEF Container, ServerStops, files
<1>2. /\ server' # "running"
      /\ server' \notin Stopped => server \notin Stopped
  BY DEF Container, ServerStops, Stopped
<1>3. \A i \in DOMAIN rows : Close(rows[i])'
  BY <1>1 DEF Figured, Close
<1>4. pc \in {"scrape", "ask"} => Close(row)'
  BY <1>1 DEF Figured, Close
<1>5. QED
  BY <1>1, <1>2, <1>3, <1>4 DEF Figured

\* Every step keeps it.
LEMMA FiguredStep ==
  ASSUME Typed, Figured, [Next]_vars, Typed'
  PROVE  Figured'
<1>1. CASE OpenIdle \/ OpenRun
  BY <1>1, OpenFigured
<1>2. CASE RecordIdle
  BY <1>2, RecordIdleFigured
<1>3. CASE StartRun
  BY <1>3, StartRunFigured
<1>4. CASE TakeRow
  BY <1>4, TakeRowSteps, ReadCgroupFigured, ScrapeFigured, AskFigured
<1>5. CASE Judge
  BY <1>5 DEF Judge, Figured, Close, files
<1>6. CASE Container
  BY <1>6, ContainerFigured
<1>7. CASE UNCHANGED vars
  BY <1>7 DEF Figured, Close, vars, files
<1>8. QED
  BY <1>1, <1>2, <1>3, <1>4, <1>5, <1>6, <1>7 DEF Next, cmd_idle, cmd_run

\* The counter is read once more: the new share begins where the one before ended.
LEMMA ReadCgroupShares ==
  ASSUME Typed, Shares, pc = "sleep", ReadCgroup, pc' = "scrape", UNCHANGED <<files, verdict>>
  PROVE  Shares'
<1>1. UNCHANGED rows /\ now' = now + 1 /\ now \in Nat /\ lastCpu \in Figures
  BY DEF ReadCgroup, files, Typed, TypeOK
<1>2. PICK mem \in read :
        row' = [NoRow EXCEPT !.t = now', !.mem = mem,
                             !.cpu = IF mem = None \/ lastCpu = None THEN None
                                     ELSE <<lastCpu, now'>>]
  BY DEF ReadCgroup
<1>3. row'.cpu = IF mem = None \/ lastCpu = None THEN None ELSE <<lastCpu, now'>>
  BY <1>2 DEF NoRow
<1>4. lastCpu' = IF read = {None} THEN lastCpu ELSE now'
  BY DEF ReadCgroup, ReadCpu
<1>5. read = {None} => mem = None
  OBVIOUS
<1>6. \A i \in DOMAIN rows : rows[i].cpu # None => rows[i].cpu[2] \in Nat
  <2>1. \A r \in Samples : r.cpu # None => r.cpu[2] \in Nat
    BY DEF Samples
  <2>2. QED
    BY <2>1, JudgedTypes
<1>7. /\ lastCpu # None => lastCpu \in Nat /\ lastCpu <= now'
      /\ lastCpu' # None => lastCpu' <= now'
      /\ lastCpu # None => lastCpu' # None /\ lastCpu <= lastCpu'
  BY <1>1, <1>4, Constants DEF Shares, Figures
<1>8. ASSUME NEW i \in DOMAIN rows, rows[i].cpu # None
      PROVE  /\ lastCpu # None /\ rows[i].cpu[2] <= lastCpu
             /\ lastCpu' # None /\ rows[i].cpu[2] <= lastCpu'
  <2>1. lastCpu # None /\ rows[i].cpu[2] <= lastCpu
    BY <1>8 DEF Shares
  <2>2. lastCpu' \in Nat
    BY <1>1, <1>4, <1>7, <2>1
  <2>3. QED
    BY <1>6, <1>7, <1>8, <2>1, <2>2
<1>9. ASSUME row'.cpu # None
      PROVE  /\ lastCpu' # None /\ row'.cpu[2] <= lastCpu'
             /\ \A i \in DOMAIN rows : rows[i].cpu # None => rows[i].cpu[2] <= row'.cpu[1]
  <2>1. row'.cpu = <<lastCpu, now'>> /\ lastCpu # None /\ mem # None
    BY <1>3, <1>9
  <2>2. row'.cpu[1] = lastCpu /\ row'.cpu[2] = now'
    BY <2>1
  <2>3. lastCpu' = now'
    BY <1>4, <1>5, <2>1
  <2>4. QED
    BY <1>1, <1>7, <1>8, <2>1, <2>2, <2>3
<1>10. QED
  BY <1>1, <1>7, <1>8, <1>9 DEF Shares

\* A finished row is the last one.
LEMMA AskShares ==
  ASSUME Typed, Shares, pc = "ask", AskPrometheusAndDocker, rows' = Append(rows, row'),
         pc' = "judge", UNCHANGED <<idle, verdict>>, Typed'
  PROVE  Shares'
<1>1. UNCHANGED <<now, lastCpu>>
  BY DEF AskPrometheusAndDocker
<1>2. row'.cpu = row.cpu
  BY DEF AskPrometheusAndDocker, Typed, TypeOK, Samples
<1>3. /\ Len(rows) \in Nat /\ DOMAIN rows = 1 .. Len(rows)
      /\ DOMAIN rows' = 1 .. Len(rows) + 1
      /\ \A i \in 1 .. Len(rows) : rows'[i] = rows[i]
      /\ rows'[Len(rows) + 1] = row'
  <2>1. rows \in Seq(Samples) /\ row' \in Samples
    BY DEF Typed, TypeOK
  <2>2. QED
    BY <2>1, OneMore
<1>4. row.cpu # None =>
        /\ lastCpu # None /\ row.cpu[2] <= lastCpu
        /\ \A i \in 1 .. Len(rows) : rows[i].cpu # None => rows[i].cpu[2] <= row.cpu[1]
  BY <1>3 DEF Shares
<1>5. ASSUME NEW i \in 1 .. Len(rows) + 1, rows'[i].cpu # None
      PROVE  lastCpu # None /\ rows'[i].cpu[2] <= lastCpu
  <2>1. CASE i = Len(rows) + 1
    BY <1>2, <1>3, <1>4, <1>5, <2>1
  <2>2. CASE i \in 1 .. Len(rows)
    BY <1>3, <1>5, <2>2 DEF Shares
  <2>3. QED
    BY <1>3, <2>1, <2>2
<1>6. ASSUME NEW i \in 1 .. Len(rows) + 1, NEW j \in 1 .. Len(rows) + 1, i < j,
             rows'[i].cpu # None, rows'[j].cpu # None
      PROVE  rows'[i].cpu[2] <= rows'[j].cpu[1]
  <2>1. i \in 1 .. Len(rows) /\ rows'[i] = rows[i]
    BY <1>3, <1>6
  <2>2. CASE j = Len(rows) + 1
    BY <1>2, <1>3, <1>4, <1>6, <2>1, <2>2
  <2>3. CASE j \in 1 .. Len(rows)
    BY <1>3, <1>6, <2>1, <2>3 DEF Shares
  <2>4. QED
    BY <1>3, <2>2, <2>3
<1>7. QED
  BY <1>1, <1>3, <1>5, <1>6 DEF Shares

\* Every step keeps it.
LEMMA SharesStep ==
  ASSUME Typed, Shares, [Next]_vars, Typed'
  PROVE  Shares'
<1>1. CASE OpenIdle \/ OpenRun \/ RecordIdle
  <2>1. UNCHANGED <<now, lastCpu, rows>> /\ pc' \notin {"scrape", "ask"}
    BY <1>1 DEF OpenIdle, OpenRun, Open, RecordIdle, files
  <2>2. QED
    BY <2>1 DEF Shares
<1>2. CASE StartRun
  <2>1. rows = << >> /\ lastCpu = None /\ now = 0
    BY <1>2 DEF StartRun, Typed, Phases, Early
  <2>2. now' = now /\ lastCpu' \in {now, None} /\ rows' = rows /\ pc' = "sleep"
    BY <1>2, <2>1 DEF StartRun, Prime, ReadCpu, files
  <2>3. QED
    BY <2>1, <2>2 DEF Shares
<1>3. CASE TakeRow
  <2>1. CASE pc = "scrape" /\ Scrape /\ pc' = "ask" /\ UNCHANGED <<files, verdict>>
    <3>1. UNCHANGED <<lastCpu, rows>>
      BY <2>1 DEF Scrape, files
    <3>2. row'.cpu = row.cpu
      BY <2>1 DEF Scrape, Typed, TypeOK, Samples
    <3>3. lastCpu # None => lastCpu <= now'
      <4>1. PICK d \in 0 .. Delay : now' = now + d
        BY <2>1 DEF Scrape
      <4>2. now \in Nat /\ lastCpu \in Figures /\ (lastCpu # None => lastCpu <= now)
        BY DEF Typed, TypeOK, Shares
      <4>3. QED
        BY <4>1, <4>2, Constants DEF Figures
    <3>4. QED
      BY <2>1, <3>1, <3>2, <3>3 DEF Shares
  <2>2. QED
    BY <1>3, TakeRowSteps, ReadCgroupShares, AskShares, <2>1
<1>4. CASE Judge
  BY <1>4 DEF Judge, Shares, files
<1>5. CASE Container
  BY <1>5 DEF Container, ServerStops, Shares, files
<1>6. CASE UNCHANGED vars
  BY <1>6 DEF Shares, vars, files
<1>7. QED
  BY <1>1, <1>2, <1>3, <1>4, <1>5, <1>6 DEF Next, cmd_idle, cmd_run

-----------------------------------------------------------------------------
(* The summary.                                                            *)

\* A bounded set of numbers has its Max.
LEMMA MaxIsGreatest ==
  ASSUME NEW S \in SUBSET Nat, S # {}, NEW b \in Nat, \A x \in S : x <= b
  PROVE  Max(S) \in S /\ \A x \in S : Max(S) >= x
<1>1. \E m \in S : \A x \in S : m >= x
  BY GreatestExists
<1>2. QED
  BY <1>1, Zenon DEF Max

\* The peak is a live row within 0.5% of every live row.
LEMMA PeakIsTop ==
  ASSUME Typed, Judged, pc = "done", Live # {}
  PROVE  \E p \in Live :
           Peak = rows[p] /\ \A i \in Live : 995 * Seen(rows[i]) <= 1000 * Seen(rows[p])
<1> DEFINE S == {0} \cup {Seen(rows[i]) : i \in Live}
           top == Top
           near == {i \in Live : 1000 * Seen(rows[i]) >= 995 * top}
<1>1. ASSUME NEW i \in DOMAIN rows
      PROVE  i \in Nat /\ i <= Len(rows) /\ Seen(rows[i]) \in Nat
             /\ best \in Nat /\ Seen(rows[i]) <= 2 * best
  <2>1. i \in 1 .. Len(rows) /\ Len(rows) \in Nat /\ Seen(rows[i]) \in Nat
    BY JudgedTypes, SeenIsNat
  <2>2. best # None /\ 1000 * Seen(rows[i]) <= 1005 * best
    BY DEF Judged, Growth
  <2>3. QED
    BY <2>1, <2>2, JudgedTypes
<1>2. Live \subseteq DOMAIN rows /\ \A i \in Live : Seen(rows[i]) > 0
  BY DEF Live
<1>3. PICK q \in Live : TRUE
  OBVIOUS
<1>4. best \in Nat /\ 2 * best \in Nat /\ Len(rows) \in Nat
  BY <1>1, <1>2, <1>3, JudgedTypes
<1>5. S \in SUBSET Nat /\ S # {} /\ \A x \in S : x <= 2 * best
  <2>1. \A x \in S : x \in Nat /\ x <= 2 * best
    BY <1>1, <1>2, <1>4
  <2>2. QED
    BY <2>1
<1>6. top \in S /\ \A x \in S : top >= x
  BY <1>4, <1>5, MaxIsGreatest DEF Top
<1> HIDE DEF top
<1>7. PICK m \in Live : top = Seen(rows[m])
  <2>1. Seen(rows[q]) \in S /\ Seen(rows[q]) > 0 /\ Seen(rows[q]) \in Nat
    BY <1>1, <1>2
  <2>2. top # 0
    BY <1>6, <2>1
  <2>3. QED
    BY <1>6, <2>2
<1>8. m \in near
  <2>1. top \in Nat
    BY <1>1, <1>2, <1>7
  <2>2. 1000 * top >= 995 * top
    BY <2>1
  <2>3. QED
    BY <1>7, <2>2
<1>9. near \in SUBSET Nat /\ near # {} /\ \A x \in near : x <= Len(rows)
  BY <1>1, <1>2, <1>8
<1> DEFINE p == Max(near)
<1> HIDE DEF near
<1>10. p \in near
  BY <1>4, <1>9, MaxIsGreatest
<1>11. Peak = rows[p]
  BY DEF Peak, top, near
<1> HIDE DEF p
<1>12. p \in Live /\ 1000 * Seen(rows[p]) >= 995 * top
  BY <1>10 DEF near
<1>13. ASSUME NEW i \in Live PROVE 995 * Seen(rows[i]) <= 1000 * Seen(rows[p])
  <2>1. Seen(rows[i]) \in S
    OBVIOUS
  <2>2. top >= Seen(rows[i])
    BY <1>6, <2>1
  <2>3. Seen(rows[i]) \in Nat /\ top \in Nat /\ Seen(rows[p]) \in Nat
    BY <1>1, <1>2, <1>7, <1>12
  <2>4. QED
    BY ONLY <1>12, <2>2, <2>3
<1>14. QED
  BY <1>11, <1>12, <1>13

\* Multiplication over a difference.
LEMMA Distribute ==
  ASSUME NEW a \in Int, NEW b \in Int, NEW n \in Nat
  PROVE  /\ a * n \in Int /\ b * n \in Int
         /\ 2 * (a - b) * n = 2 * (a * n) - 2 * (b * n)
         /\ (a + 1) * n = a * n + n
OBVIOUS

\* Python's round is off by a half at the most.
LEMMA RoundIsNear ==
  ASSUME NEW a \in Nat, NEW n \in Nat \ {0}
  PROVE  /\ Round(a, n) \in Int
         /\ 2 * (Round(a, n) * n) <= 2 * a + n
         /\ 2 * a <= 2 * (Round(a, n) * n) + n
<1> DEFINE q == a \div n
           r == a % n
<1>1. q \in Nat /\ r \in Nat /\ r < n /\ a = q * n + r
  BY SMTT(30)
<1>2. Round(a, n) = IF 2 * r > n \/ (2 * r = n /\ q % 2 = 1) THEN q + 1 ELSE q
  BY DEF Round
<1> HIDE DEF q, r
<1>3. (q + 1) * n = q * n + n /\ q * n \in Int
  BY <1>1, Distribute
<1>4. CASE Round(a, n) = q + 1 /\ 2 * r >= n
  BY <1>1, <1>3, <1>4
<1>5. CASE Round(a, n) = q /\ 2 * r <= n
  BY <1>1, <1>3, <1>5
<1>6. QED
  BY <1>1, <1>2, <1>4, <1>5

RInv == Typed /\ Judged /\ Figured /\ Shares

\* The invariant holds of every behaviour.
LEMMA RecorderInvariant == Spec => []RInv
<1>1. Init => RInv
  BY InitTyped, InitJudged, InitFigured DEF RInv
<1>2. RInv /\ [Next]_vars => RInv'
  BY TypedStep, JudgedStep, FiguredStep, SharesStep DEF RInv
<1>3. QED
  BY <1>1, <1>2, PTL DEF Spec

\* What a live row holds.
LEMMA LiveRow ==
  ASSUME RInv, pc = "done", NEW i \in Live
  PROVE  /\ i \in 1 .. Len(rows) /\ rows[i] \in Samples
         /\ Seen(rows[i]) \in Nat \ {0} /\ Seen(rows[i]) = rows[i].conns
         /\ rows[i].mem \in Nat /\ rows[i].mem >= IdleMemory /\ idle = IdleMemory
         /\ Memory(Seen(rows[i])) - rows[i].mem <= Cost * Drift
         /\ rows[i].mem - Memory(Seen(rows[i])) <= Cost * Drift
         /\ rows[i].cpu # None
<1>1. i \in DOMAIN rows /\ Seen(rows[i]) > 0 /\ rows[i].mem # None
  BY DEF Live
<1>2. i \in 1 .. Len(rows) /\ rows[i] \in Samples
  BY <1>1, JudgedTypes DEF RInv
<1>3. Seen(rows[i]) \in Nat \ {0} /\ Seen(rows[i]) = rows[i].conns /\ rows[i].conns # None
  BY <1>1, <1>2, SeenIsNat
<1>4. Close(rows[i])
  BY <1>1 DEF RInv, Figured
<1>5. QED
  BY <1>1, <1>2, <1>3, <1>4 DEF Close

\* What the last row tells of the end of a run that was held at its target.
LEMMA HeldRow ==
  ASSUME RInv, pc = "done", reason = "held"
  PROVE  /\ Last(rows).state = "running" /\ Last(rows).target \in Nat
         /\ Len(rows) \in Live /\ Last(rows) = rows[Len(rows)]
         /\ Seen(rows[Len(rows)]) >= Last(rows).target
<1>1. rows # << >> /\ Last(rows) = row /\ Last(rows) = rows[Len(rows)]
  BY DEF RInv, Typed, Phases, Last
<1>2. row.state = "running" /\ row.target # None /\ Seen(row) >= row.target
  BY DEF RInv, Judged, Ends, Reached
<1>3. row.target \in Nat \ {0}
  <2>1. row.target \in Targets
    BY <1>2 DEF RInv, Typed, TypeOK, Samples
  <2>2. QED
    BY <2>1, Constants
<1>4. Len(rows) \in DOMAIN rows /\ row \in Samples
  BY <1>1, JudgedTypes DEF RInv
<1>5. Seen(row) > 0 /\ row.conns # None
  BY <1>2, <1>3, <1>4, SeenIsNat
<1>6. row.mem # None
  <2>1. Close(rows[Len(rows)])
    BY <1>4 DEF RInv, Figured
  <2>2. row.mem \in Nat
    BY <1>1, <1>5, <2>1 DEF Close
  <2>3. QED
    BY <2>2, Constants
<1>7. Len(rows) \in Live
  BY <1>1, <1>4, <1>5, <1>6 DEF Live
<1>8. QED
  BY <1>1, <1>2, <1>3, <1>7

\* The summary tells the same story as the stop reason: a run that was held ended with
\* the answer of a server at its target and the memory that goes with it, and reports a
\* peak within 0.5% of the target, whatever became of the count between its samples; a run
\* whose last sample has Docker's report of an OOM kill is stopped, for no other reason;
\* and only a run without any live row reports no connections (record.py:230-238, 250-257,
\* 282).
THEOREM SummariesAgree == Spec => []SummaryAgrees
<1>1. ASSUME RInv, pc = "done" PROVE SummaryAgrees
  <2>1. ASSUME Live # {}
        PROVE  /\ Seen(Peak) > 0
               /\ \A i \in Live : 995 * Seen(rows[i]) <= 1000 * Seen(Peak)
    <3>1. PICK p \in Live :
            Peak = rows[p] /\ \A i \in Live : 995 * Seen(rows[i]) <= 1000 * Seen(rows[p])
      BY <1>1, <2>1, PeakIsTop DEF RInv
    <3>2. Seen(rows[p]) > 0
      BY <1>1, LiveRow
    <3>3. QED
      BY <3>1, <3>2
  <2>2. ASSUME reason = "held"
        PROVE  /\ Last(rows).state # "oom" /\ Seen(Last(rows)) >= Last(rows).target
               /\ Last(rows).mem # None
               /\ Memory(Seen(Last(rows))) - Last(rows).mem <= Cost * Drift
               /\ 1000 * Seen(Peak) >= 995 * Last(rows).target
    <3> DEFINE z == Len(rows)
    <3>1. /\ Last(rows).state = "running" /\ Last(rows).target \in Nat
          /\ z \in Live /\ Seen(rows[z]) >= Last(rows).target /\ Last(rows) = rows[z]
      BY <1>1, <2>2, HeldRow
    <3> HIDE DEF z
    <3>2. 995 * Seen(rows[z]) <= 1000 * Seen(Peak)
      BY <2>1, <3>1
    <3>3. /\ Seen(rows[z]) \in Nat /\ rows[z].mem # None
          /\ Memory(Seen(rows[z])) - rows[z].mem <= Cost * Drift
      BY <1>1, <3>1, LiveRow, Constants
    <3>4. Seen(Peak) \in Nat
      <4>1. \E p \in Live : Peak = rows[p]
        BY <1>1, <3>1, PeakIsTop DEF RInv
      <4>2. QED
        BY <1>1, <4>1, LiveRow
    <3>5. QED
      BY <3>1, <3>2, <3>3, <3>4
  <2>3. Last(rows).state = "oom" => reason = "stopped"
    BY <1>1 DEF RInv, Typed, Phases, Judged, Ends
  <2>4. ASSUME NEW i \in DOMAIN rows, rows[i].mem # None, rows[i].conns # None
        PROVE  Live # {}
    <3>1. Seen(rows[i]) > 0
      BY <1>1, <2>4, JudgedTypes, SeenIsNat DEF RInv
    <3>2. i \in Live
      BY <2>4, <3>1 DEF Live
    <3>3. QED
      BY <3>2
  <2>5. QED
    BY <2>1, <2>2, <2>3, <2>4 DEF SummaryAgrees
<1>2. RInv => SummaryAgrees
  BY <1>1 DEF SummaryAgrees
<1>3. QED
  BY <1>2, RecorderInvariant, PTL

\* No time is counted twice in the CPU average near the peak, and the peak itself has a
\* share, because the counter is primed before the loop (record.py:164-170, 207, 261).
THEOREM CpuIsMeasured == Spec => []CpuMeasured
<1>1. ASSUME RInv, pc = "done", Live # {} PROVE CpuMeasured
  <2>1. PICK p \in Live : Peak = rows[p]
    BY <1>1, PeakIsTop DEF RInv
  <2>2. window \subseteq Live
    BY DEF window
  <2>3. p \in window
    <3>1. Seen(Peak) = Seen(rows[p])
      BY <2>1
    <3>2. Seen(rows[p]) \in Nat
      BY <1>1, LiveRow
    <3>3. 100 * Seen(rows[p]) >= 98 * Seen(Peak)
      BY <3>1, <3>2
    <3>4. QED
      BY <3>3 DEF window
  <2>4. \A i \in window : rows[i].cpu # None
    BY <1>1, <2>2, LiveRow
  <2>5. \A i, j \in window : i < j => rows[i].cpu[2] <= rows[j].cpu[1]
    <3>1. Live \subseteq DOMAIN rows
      BY DEF Live
    <3>2. QED
      BY <1>1, <2>2, <2>4, <3>1 DEF RInv, Shares
  <2>6. QED
    BY <2>3, <2>4, <2>5 DEF CpuMeasured
<1>2. RInv => CpuMeasured
  BY <1>1 DEF CpuMeasured
<1>3. QED
  BY <1>2, RecorderInvariant, PTL

\* From the memory of a row to the figure per connection.
LEMMA FigureOfRow ==
  ASSUME NEW mem \in Nat, NEW base \in Nat, NEW c \in Nat, NEW d \in Nat,
         NEW n \in Nat \ {0}, mem >= base,
         NEW m \in Nat, m = base + c * n, m - mem <= d, mem - m <= d
  PROVE  /\ Round(mem - base, n) \in Int
         /\ 2 * (Round(mem - base, n) - c) * n <= 2 * d + n
         /\ 2 * (c - Round(mem - base, n)) * n <= 2 * d + n
<1> DEFINE a == mem - base
           b == Round(a, n)
<1>1. a \in Nat
  OBVIOUS
<1>2. b \in Int /\ 2 * (b * n) <= 2 * a + n /\ 2 * a <= 2 * (b * n) + n
  BY <1>1, RoundIsNear
<1>3. a - c * n <= d /\ c * n - a <= d /\ c * n \in Int
  BY Distribute
<1> HIDE DEF a, b
<1>4. /\ 2 * (b - c) * n = 2 * (b * n) - 2 * (c * n)
      /\ 2 * (c - b) * n = 2 * (c * n) - 2 * (b * n)
      /\ b * n \in Int
  BY <1>2, Distribute
<1>5. 2 * (b - c) * n <= 2 * d + n /\ 2 * (c - b) * n <= 2 * d + n
  BY <1>1, <1>2, <1>3, <1>4
<1>6. QED
  BY <1>2, <1>5 DEF a, b

\* The reported memory per connection is what a connection takes, up to what the count
\* changed within one sample and a half for the rounding: a count is never put together
\* with the memory of another moment, such as the empty cgroup of a dead server
\* (record.py:32-34, 172, 186-189, 252).
THEOREM FiguresAreClose == Spec => []FigureIsClose
<1>1. ASSUME RInv, pc = "done", Live # {} PROVE FigureIsClose
  <2>1. PICK p \in Live : Peak = rows[p]
    BY <1>1, PeakIsTop DEF RInv
  <2> DEFINE n == Seen(Peak)
             mem == rows[p].mem
             b == Round(mem - IdleMemory, n)
  <2>2. /\ n = Seen(rows[p]) /\ n \in Nat \ {0} /\ mem \in Nat /\ mem >= IdleMemory
        /\ idle = IdleMemory
        /\ Memory(n) - mem <= Cost * Drift /\ mem - Memory(n) <= Cost * Drift
    BY <1>1, <2>1, LiveRow
  <2>3. summary.peak_connections = n /\ summary.bytes_per_connection = b
    <3>1. Peak.mem = mem /\ mem # None /\ idle # None /\ n # 0
      BY <2>1, <2>2, Constants
    <3>2. per_conn(Peak.mem, idle, n) = b
      BY <2>2, <3>1 DEF per_conn
    <3>3. QED
      BY <3>2 DEF summary
  <2> HIDE DEF n, mem
  <2>4. Cost * Drift \in Nat
    BY Constants, Product
  <2>5. Memory(n) = IdleMemory + Cost * n
    BY DEF Memory
  <2> DEFINE d == Cost * Drift
  <2>6. /\ b \in Int
        /\ 2 * (b - Cost) * n <= 2 * d + n
        /\ 2 * (Cost - b) * n <= 2 * d + n
    <3>1. d \in Nat /\ Memory(n) - mem <= d /\ mem - Memory(n) <= d
      BY <2>2, <2>4, Zenon
    <3>2. n \in Nat \ {0} /\ mem \in Nat /\ mem >= IdleMemory
      BY <2>2
    <3>3. IdleMemory \in Nat /\ Cost \in Nat /\ Memory(n) \in Nat
      BY <2>2, Constants, MemoryIsNat
    <3> HIDE DEF d
    <3>4. QED
      BY ONLY <2>5, <3>1, <3>2, <3>3, FigureOfRow
  <2> HIDE DEF b
  <2>7. 2 * d = 2 * Cost * Drift
    BY Constants
  <2>8. b # None
    BY <2>6, SamplerAssumption DEF SamplerAssumption
  <2>9. QED
    BY <2>3, <2>6, <2>7, <2>8 DEF FigureIsClose
<1>2. RInv => FigureIsClose
  BY <1>1 DEF FigureIsClose
<1>3. QED
  BY <1>2, RecorderInvariant, PTL
=============================================================================
