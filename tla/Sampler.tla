------------------------------ MODULE Sampler ------------------------------
(***************************************************************************)
(* One sample of the benchmark recorder (bench/local/record.py, class       *)
(* Sampler): the container's cgroup, then the server's own metrics, then    *)
(* Prometheus and Docker. The server may die between any two of these       *)
(* readings, and the number of connections changes while they are taken.   *)
(*                                                                         *)
(* Memory is what the server needs at rest and Cost per connection. A CPU  *)
(* share is kept as the interval that it is the share of.                  *)
(***************************************************************************)
EXTENDS Integers

CONSTANTS Levels,        \* numbers of connections the server may hold
          Targets,       \* loadgen_connections_target, summed over the replicas
                         \* that Prometheus has scraped
          None,          \* no value: a reading that failed
          IdleMemory,    \* memory without connections
          Cost,          \* memory per connection; with 0, memory tells nothing
          Drift,         \* how far the number of connections moves in a sample
          Delay          \* steps a sample may take beyond its sleep (a bound)

ASSUME SamplerAssumption == /\ Levels \subseteq Nat \ {0}
                            /\ Targets \subseteq Nat \ {0}
                            /\ None \notin Int /\ None \notin Nat \X Nat
                            /\ {IdleMemory, Cost, Drift, Delay} \subseteq Nat

VARIABLES server,        \* "running", "dying" (killed, not yet cleared away),
                         \* then "oom" or "exited"
          now,           \* time since start, in steps of STEP seconds
          row,           \* the sample being taken
          lastCpu        \* Sampler.last_cpu: when the CPU counter was last read

Memory(n) == IdleMemory + Cost * n

Stopped == {"oom", "exited"}

-----------------------------------------------------------------------------
(* What each reading may return.                                           *)

\* The cgroup's files are there as long as the cgroup, which outlives the process
\* for a moment, empty.
read == CASE server = "running" -> {Memory(n) : n \in Levels \cup {0}}
          [] server = "dying" -> {0}
          [] OTHER -> {None}

\* Fault: the count comes from Prometheus, which goes on returning the last value
\* that it scraped.
scrape_prometheus == Levels \cup {None}

\* A busy server may not answer in time; a dead one never does. None stands for an
\* answer of 0 as well: every test of the recorder treats them alike.
scrape_server ==
  IF server # "running" THEN {None}
  ELSE {None} \cup {n \in Levels : /\ Memory(n) - row.mem <= Cost * Drift
                                  /\ row.mem - Memory(n) <= Cost * Drift}

\* Prometheus may not know the load generators, or not all of them, yet.
prom == Targets \cup {None}

\* Docker sees the end of a container after its process has ended, and an inspect
\* that fails prints nothing.
docker_state == {IF server = "dying" THEN "running" ELSE server, "gone"}

-----------------------------------------------------------------------------
(* Sampler                                                                 *)

NoRow == [t |-> 0, mem |-> None, cpu |-> None, conns |-> None, target |-> None,
          state |-> "running"]

\* Sampler.__init__ reads the cgroup's path from the container's first process, and
\* raises when there is none.
opens == CASE server = "running" -> {TRUE}
           [] server = "dying" -> BOOLEAN
           [] OTHER -> {FALSE}

\* Fault: the counter's first reading stays the one to compare with.
ReadCpuOnce(t) == lastCpu' = IF read # {None} /\ lastCpu = None THEN t ELSE lastCpu

ReadCpu(t) == lastCpu' = IF read = {None} THEN lastCpu ELSE t

\* The sample of cmd_run before the loop: it is thrown away, all but the counter.
Prime == /\ ReadCpu(now)
         /\ UNCHANGED <<server, now, row>>

\* The sleep, and the cgroup's files.
ReadCgroup == /\ now' = now + 1
              /\ \E mem \in read :
                   row' = [NoRow EXCEPT
                             !.t = now',
                             !.mem = mem,
                             !.cpu = IF mem = None \/ lastCpu = None THEN None
                                     ELSE <<lastCpu, now'>>]
              /\ ReadCpu(now')
              /\ UNCHANGED server

Scrape == /\ \E n \in scrape_server : row' = [row EXCEPT !.conns = n]
          /\ \E d \in 0 .. Delay : now' = now + d
          /\ UNCHANGED <<server, lastCpu>>

AskPrometheusAndDocker ==
  /\ \E target \in prom, state \in docker_state :
       row' = [row EXCEPT !.target = target, !.state = state]
  /\ UNCHANGED <<server, now, lastCpu>>

-----------------------------------------------------------------------------
(* The container, which has no restart policy.                             *)

ServerStops == /\ \/ server = "running" /\ server' = "dying"
                  \/ server = "dying" /\ server' \in Stopped
               /\ UNCHANGED <<now, row, lastCpu>>
=============================================================================
