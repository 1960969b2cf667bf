# A verification project for millionws

millionws is a WebSocket echo server built on nbio that is meant to hold about a
million idle connections in a small container, with the tools to show that it does:
a load generator, benchmark scripts and a cloud setup with cost guards. This
directory holds TLA+ modules for the parts of it that decide something, TLC runs
that check them on small instances, and TLAPS proofs of the properties that matter
most, for every value of the constants. `PROJECT.json` maps every definition to the
lines it stands for and lists the hazards with the properties that cover them.

## 1. The system

| component | source | state | operations | status |
|---|---|---|---|---|
| connection registry | `cmd/loadgen/registry.go` | array of connections, index of slots, set of early closes | `add`, `remove`, `len`, `batch` | modelled (`ConnSet`, `Registry`) |
| dial loop and OnClose | `cmd/loadgen/main.go` | `active`, `pending`, semaphore, gauge, one goroutine per dial | dial loop's tick, dial goroutine, OnClose callback, interrupt | modelled (`LoadGen`) |
| send loop | `cmd/loadgen/main.go` | `cursor`, `carry` | count, batch and send every 100 ms | modelled (`SendLoop`) |
| `/ws` handler, callbacks, metrics | `main.go` | connections of the engine, gauge, counters, `overloaded` | accept, 503 check, upgrade, OnOpen, OnClose | modelled (`Server`) |
| memory guard | `memory.go` | `overloaded` | read `memory.current`, decide | modelled (`Server`) |
| startup | `main.go` | addresses, ports open | `parsePorts`, `listenAddrs`, nbio's Start, `checkListening` | modelled (`Startup`) |
| Go memory limit | `memory.go` | `last`, the runtime's limit | two readings, compute, set | modelled (`MemoryLimit`) |
| benchmark recorder | `bench/local/record.py` | `best`, `best_at`, `reached_at`, rows | idle and run mode: sample, judge, pick the peak, work out the figures | modelled (`Sampler`, `Recorder`) |
| cost guards | `infra/opentofu/aws-ec2/guard`, `watchdog.tf`, `user_data_*.sh`, `scripts/kill-bench.sh` | instances, launch times, timers | on-instance timer, watchdog, kill switch | modelled (`CostGuard`) |
| benchmark scripts | `bench/local/run.sh`, `matrix.sh`, `compare.py` | result directories, containers, table | make a directory, start, measure, record, stop; group, median, range, label | modelled (`Compare`, `Bench`) |
| infrastructure and deployment | `infra/`, `deploy/`, `Dockerfile` | none of the program's own | declarations | not modelled |
| evidence scripts and dashboards | `scripts/evidence/`, `deploy/grafana` | none of the program's own | plots, exports | not modelled |

How they interact. The load generator's dial loop starts a goroutine per dial; a
dial that succeeds gives a connection that nbio's own goroutines may close at any
time, through `OnClose`, before the dialling goroutine has added it to the registry
or counted it. The send loop reads the registry that both change. On the other side
of the sockets the server's engine accepts connections up to `-maxload`; the `/ws`
handler loads one flag, `overloaded`, which the memory guard writes every 250 ms from
a reading of the container's memory; that memory is what the accepted connections,
their upgrades and their unread messages make of it. The kernel kills the process
when it grows past the limit and Docker starts it again. A second loop of the server
gives the Go runtime a limit that follows the kernel's share, so that garbage goes
before clients are refused. The recorder watches a local run from outside: the
container's cgroup, the server's metrics, Prometheus, Docker. `run.sh` calls it twice
around the start of the load, `matrix.sh` calls `run.sh` for each variant in turn over
the same containers and the same directory of results, and `compare.py` reads the
summaries of the directories that `matrix.sh` has noted. On AWS three guards that
know nothing of each other end the instances.

Hard behaviours: two atomic loads that are not one; callbacks that overtake the
goroutine they belong to; three counters updated one after the other; a cursor and a
count that are stale when the batch is taken; fractions in a float64 that must not be lost;
decisions on a reading of a quarter of a second ago; a check that is stale when the
upgrade follows; a stalled process whose sockets fill; a restart between an OnOpen
and its OnClose; a `Start` that reports success with no port open, and a check that
any process can answer; two readings of memory at two moments; samples put together
from four readings of a server that may die between any two of them; a CPU share that
is the difference to a sample which may have failed; runs that fail half way and leave
containers and directories to the next; instances that
stop, start and are launched between a guard's listing and its call.

What makes the parts correct: the registry's array and index are inverses and it
behaves as a set; counters equal what they count; no slot is lost on any path; the
target is reached, held, and passed by a bounded number only; messages are even and
at most a step late; admission keeps memory under a ceiling; the guard opens again; a server that
serves has all its ports open; the runtime is past its limit when memory is above the
guard's threshold; a run stops for the reason it reports and its figures are those
of a live server; a server measured at rest is at rest, no run touches another's results,
and the table counts each run once; no instance outlives its
deadline by more than the watchdog's period.

## 2. Modules

```
ConnSet <--refines-- Registry <--EXTENDS-- SendLoop <-- RegistryProofs
   ^ INSTANCE
LoadGen <-- LoadGenProofs              Server, Startup <-- ServerProofs
MemoryLimit <-- MemoryLimitProofs      CostGuard <-- CostGuardProofs
Sampler <--EXTENDS-- Recorder <-- RecorderProofs
Compare <--EXTENDS-- Bench    <-- BenchProofs
Counting: lemmas on counts, extremes, loops and sorting, for LoadGenProofs, ServerProofs,
          RecorderProofs, BenchProofs
```

Modules `MC*` add the symmetry sets and the values of constants for TLC. Operators
commented "Fault" in a
module are wrong versions of the action after them (a dropped guard, a skipped
reset, a swapped comparison). No `Next` uses them; each property of each run has
been seen to fail when one of them takes its action's place, which shows that the
property can tell that fault from the code.

**ConnSet** is what the registry promises: a set of stored connections and a set of
connections closed before they were added. **Registry** is the code: array, index,
swap with the last on removal. Each method holds the mutex, hence one action each.
`ImplementsConnSet` is the refinement, with `stored` mapped to the index's domain.

**LoadGen** uses `ConnSet` for the registry (sound by that refinement) and has a step
for every atomic operation of `dialLoop`, of a dial's goroutine and of OnClose: the
two loads of the target check, the select on the semaphore, `add`, `active.Add`, the
gauge, the two deferred releases. `dpc[d]` and `link[c]` are the program counters of
a goroutine and of a callback. A connection may close right after the handshake, so
OnClose can come before `add`. A `Conn` value may be given to a new connection when
nothing in the program refers to it any more, as with a pointer that was collected.

**SendLoop** extends `Registry`: `Count` is `reg.len` and the share due, `Take` is
`reg.batch` and the messages, `Change` is what other goroutines do in between. `carry`
is kept in units of 1/Interval of a connection. The source keeps it in a float64, where a
quotient, a product and a sum are rounded in each step (`int` and the difference after it
are exact): ten additions of 0.1 make 0.9999999999999999, and no message. `Count` lets the
sum be any amount within `Rounding` of the exact one (`RoundedSums`).
`RoundingAssumption` says that what a watched registry's steps round off together is at most one
connection's share of a step; with 53 bits that takes millions of steps. A sum just under
a whole number then delays a message by one step, which is what `NotLate` allows; `NotEarly`
allows as much to the other side. With the bounds of an exact carry the run refutes both.
`ticks` and `turns` are history.

**Server** has one program counter per connection: accepted, refused, past the check,
in the two halves of OnOpen, open, in the two halves of OnClose. A failed upgrade and a
refusal end without either (`MetricsAccount` fails if the handler's error path touches the
gauge). The guard reads and
decides in two steps. `Memory` adds up costs per connection and per unread message.
`World` holds what is outside: the process stalls, messages arrive, the kernel kills.
`admitted`, the requests that passed the check since the last reading, gives the
bound `PerPeriod` its meaning; the program keeps no such count.

**Startup** validates `-maxload`, parses every pair of `-ports` items, joins them with a `-port`
that nobody validates (main.go:190, 224), binds in turn, and dials each address
while other processes take and free ports. A bind fails for a port that is out of range,
taken, or refused by the kernel (`denied`: a privileged port, or every port of a host that
is not local); for port 0 the kernel picks one (`Free`), and the dial then finds nobody on
port 0. A dial is answered, by this process or another, finds nobody, or takes more than its
two seconds. The loops of `parsePorts` and `listenAddrs` are
recursive functions, from the number of items or ports dealt with to the result so far.
`answeredBy` and `taken` are history. Its specification is `StartupSpec`, since its theorems
share a module with those of `Server`, which is what the process becomes.

**MemoryLimit** reads `memory.current` and the runtime's figures in two steps, with
memory changing around them, and sets the limit in the second. Sizes are units; `Share`
is the source's 100. `base`, `readKernel` and `readHeap` are history.

**Sampler** says what each reading may return while the server runs, dies and is
cleared away: `read` the cgroup, which outlives the process for a moment, empty;
`scrape_server`; `prom`; `docker_state`, which sees the end last. A sample is taken in
three steps (`ReadCgroup`, `Scrape`, `AskPrometheusAndDocker`) with `ServerStops` between
any two. Memory is a constant and `Cost` per connection; the count of a sample may differ
from the one its memory belongs to by `Drift`. A CPU share is kept as the interval that it
is the share of, which is what decides whether shares overlap.

**Recorder** extends it with the program: `cmd_idle`, then `cmd_run`, which primes the CPU
counter, samples, judges in the order of the code's tests and ends. `Peak`, `per_conn`,
`window` and `summary` are `write_summary`. Time is in steps of two seconds, and a sample
may take longer. A reading that fails and a server with no connections are one value, as
every test of the source treats them.

**Compare** is `compare.py` as operators on result directories; one figure stands for the
columns, which are all made by `stat`. `load` is a recursive function over the directories,
and `sorted` any order of the values that increases. **Bench** extends it with `run.sh`, one action per
command that changes containers or results, and `matrix.sh` around it. `Sweep` is the `down`
before a run, whose failure the script ignores (run.sh:70); `Up` replaces a server of another
image and leaves load generators alone. `Fail` ends a matrix
at any command, and leaves what the command has done so far (`HalfDone`, `Remains`);
`Restart` starts another over what was left, with KEEP=1 or without. A variant's name is a sequence,
and the number that `run.sh` appends is its last element, so that variant `<<nbio>>`'s
second directory and variant `<<nbio, 2>>`'s first have one name. `finished`, `swept`
and the numbers of the runs are history.

**CostGuard** has one state per instance, the ticks left of its pending shutdown and
its age since LaunchTime; ages are alike past `MaxLife`. The watchdog and the kill switch
list in one step and terminate in another. What EC2 does (a start resets LaunchTime, a
pending shutdown is lost with a stop, a call that names an instance the role may not
touch fails as a whole) is external.

## 3. Runs

| run | instance | question, and what it shows |
|---|---|---|
| `loadgen` | 3 dials, 4 connections, target 2, 2 per tick, 2 in flight, 2 faults | All interleavings. More goroutines than slots and more connections than the target, so both limits are hit and the overshoot happens; 2 faults allow a close and a failed dial in one run; after the interrupt closes are free. |
| `loadgen_live` | 2 dials, 3 connections, 1 in flight, 2 faults, fair | The target is reached and held once failures stop, and passed by at most one, which is the bound here: with more in flight a wrong limit would need more dials to show. |
| `sendloop` | 4 connections, symmetric, interval of 2.5 steps, rounding of 1/8 step, 8 steps, 7 registry calls | The registry and the loop that reads it. Four connections and seven calls are enough for a removal from the first, a middle and the last slot, of a moved connection too, with a late close among them. Step 8 and interval 20 give batches of 0, 1 and 2 and, with the rounding, every carry; 8 steps are more than three intervals, and round off a whole step's share together, which is as much as the assumption allows. |
| `server` | 6 connections, 2 in the handshake, 1 per period, one stall | Memory with a page per connection of headroom above the ceiling: no OOM kill. Costs 2/1/1, thresholds 1 and 2: one websocket is at the upper threshold, so five more race stale readings. |
| `server_restart` | 3 connections, a limit that is too small, fair | Metrics are exact across a kill; the guard opens again. Every action fires. |
| `startup` | ports 1..3, numbers 0, 1, 3, 4 for the items and for `-port`, 2 items, foreign ports 1 and 3, port 1 refused or not | Numbers on both sides of each bound; ranges that repeat, overlap and touch, also the main port. |
| `startup_taken` | 2 ports, 1 item | A server with no port open *does* go on to serve when another process answers. |
| `recorder` | counts 1000, 1004, 1006, target 1004, 50 at rest and 6 each, drift 2, hold 2, plateau 3, limit 4, delays of 1 | All three counts are within 0.6% of each other and 1000 and 1006 are not within 0.5%, so that a count can creep; 1004 and 1006 are within the drift of one sample, 1000 is not, so that a count put together with the wrong memory shows. The limit is reached after every other reason could have been. |
| `recorder_hold` | counts 2000, 2006, 2012, targets 2000 and 2006, no drift, hold 2, plateau 3, limit 5 | A run that dropped below its target during the hold *is* reported as held. The target may also be that of a fleet of which a replica has not been scraped yet. |
| `bench` | variants `nbio` and `nbio-2`, 3 repeats, 2 matrices, each with KEEP=1 or not, 7 directories, 3 outcomes, one of them without a figure | Six directories are one matrix, the seventh belongs to a second one; the names clash in the second repeat. The second matrix meets whatever load the first has left, and a first `down` may fail in any run. Three repeats give rows of one, two and three runs, with and without figures, hence medians of odd and even numbers. |
| `memorylimit` | memory of 18 units, threshold 16, target 12, share 6, growth and gap 1 | The dead band is 2 units at the most, and 12 + 2 + 1 + 1 is the threshold: with 15 in its place the property fails. |
| `costguard` | 2 tagged instances and one other, runtime 2, deadline 3, period 2, boot 1, 1 failed run | The age bound of 7 is reached. Three instances let a guard's call mix an expired, a young and a foreign one. |

The runs `recorder_hold` and `startup_taken` each
check one statement of the source's own comments and find a behaviour of the code
that contradicts it; section 6 says how much that matters.

`CHECK_DEADLOCK FALSE` stands where the program or the bounded history ends: an
interrupted load generator, a send loop at `MaxTicks`, a server that serves or gives
up at startup, a recorder that has stopped, a matrix with no restart or directory left.

### Fairness

`LoadGen`: weak fairness of the loop, of every goroutine and of every callback. The
Go scheduler is preemptive and runs each runnable goroutine, `time.Ticker` keeps
ticking, and `DialTimeout` (main.go:178) ends every dial. Closing and failing are
bounded by `MaxFaults` and never forced. `Server`: weak fairness of the guard's
ticker, of handlers and callbacks, of the client that hangs up after a 503 (the
connection also has a read deadline), and of a stalled process being resumed; nobody
is obliged to dial or to leave. `Reopens` assumes what the code assumes, that memory
gets below the lower threshold and stays there while the process runs.

`UnderLow` is a definition of its own because TLC does not take the product inside
`Memory` when the formula is written out under `<>[]`.

## 4. Proofs

All theorems are checked by TLAPS for arbitrary finite sets and arbitrary numbers,
from the assumptions named in the modules (`ConstAssumption`): finiteness, naturals,
`Low <= High` and `HttpCost <= WsCost` for the server, and, for the Go limit,
`GapAssumption`: target, dead band and what a second adds stay within the threshold.

* **RegistryProofs.** `RegInv` is `TypeOK`, `SlotsMatch` and `ClosedNotStored`
  together. `SlotsMatch` alone is not inductive: `remove` overwrites
  `conns[slot[c]]` and is right only if the last connection's slot is the last index,
  which needs the other half of the inverse. From it: the index is exact, only the last connection
  moves, every step is a step of `ConnSet` or a stutter, and each call is the same call
  of `ConnSet` (`CallsAgree`), which is what lets `LoadGen` use the set.

  `SendInv` adds the send loop. None of `Even`, `NotLate` and `NotEarly` is inductive: they
  do not say where the walk is. `Walked` says that since the list last changed there were
  `q` whole laps and `m` more connections from where the cursor was then (`Lap`), round the
  end of the list (`InArc`), and that what was sent, is due and is carried equals the steps'
  shares up to a carry and a batch of before the change (`Balance`). A batch joins its arc
  to the one so far (`ArcsMeet`), where the modulus of a stale cursor wraps once
  (`Wrapped`). The balance is off by what the steps so far have rounded, which
  `RoundingIsSmall` bounds by one step's share. `NoMessageIsLate` assumes
  `Step + Rounding <= Interval`, without which `batch` drops what is due beyond one message
  each and the property is false.
* **LoadGenProofs.** `LInv` is `TypeOK`, `TriesLeft`, `Counted`, `Headroom` and
  `Known`. `Counted` holds the counting equations of the semaphore, `pending`, `active`
  and the gauge. `Known` says which goroutine, registry entry or socket refers to a
  connection, so that `add` and `remove` find what they expect; `StoredAreOpen` and
  `NoTombstoneLeak` are two of its conjuncts and not inductive alone. `Headroom` gives
  `OvershootBounded`: `active` plus the dials that may still raise it stays within
  `seen + Inflight` between the two loads, because the semaphore bounds the dials that
  were in progress at the first one. The counting facts rest on `Counting!MoveOne`: when
  one process moves, a count changes by what it leaves and enters.
* **ServerProofs.** `SInv` is `TypeOK`, `MetricsAccount`, `Limits` and `Headroom`.
  `AdmissionBounded` is not inductive: it needs how far memory can be above the last
  reading. `Headroom` says it for each state of the guard: what the requests that
  passed the check weigh once they are websockets (`Weight`) is at most what a reading
  at the threshold leaves room for (`Budget`) plus the admissions since, of one period
  more while a reading waits for its decision. `AmpleMemoryKeepsConnections` turns it into a sizing
  rule: no connection is lost if the process never stalls and the limit is at least
  the ceiling, or if the limit is at least the ceiling and a page per connection.
  The startup has an invariant of its own, `StartupInv`. `NeverFewer` is not inductive: it
  needs that the addresses are exactly the planned ports and none of them twice
  (`Addressed`), so that a bind never fails because of a port this process has opened before,
  only because of `-port`, another process or the kernel (`Cause`), and that from then
  on either all ports are open or none is and each dial so far was answered by somebody else
  (`Opened`). The same invariant says when `ServingIsListening` holds, which the run
  `startup_taken` refutes: whenever no other process has had a planned port
  (`ListensUnlessTaken`), since nobody answers on a port that is out of range or refused.
  That the addresses are so is about two loops: `PortsParsed` and
  `AddressesListed` say what `parsePorts` and `listenAddrs` return for every list of items.
* **MemoryLimitProofs.** `GarbageFirst` is not inductive: it needs `InForce`, that the
  limit in force is at most a dead band above what the last computed share gives, that
  this share was underestimated by no more than the runtime grew between the two
  readings, and that the kernel has grown by no more than `Growth` since; and `Reading`
  for the moment between the two readings. `DivMonotone` turns the dead band of the
  limit in force into that of the target, and `GapAssumption` closes the sum. It says
  what the gap of 2% in the source has to cover: 0.9% of dead band, and 1.1% for what
  the container's memory does in a second.

* **CostGuardProofs.** `AgeBounded` is not inductive: it needs how old an instance may be
  at each moment of the watchdog's cycle. `Oldest` is the deadline, a period per failed
  run, and the time since the last run, or a period while one is under way; a tick moves
  it with the ages, a failed run trades the elapsed period for one more in `missed`, and a
  run that completes puts it back to the deadline, because whatever is older was in its
  listing. `Fine` adds, per instance, that one with a timer is younger than the deadline
  (`GraceAssumption`), and that one listed as expired has no timer and gets none before the
  call, since a boot takes a tick and a guard's run does not.
* **RecorderProofs.** `RInv` has four parts. `Typed` is `TypeOK` with what each program
  counter adds. `Judged` (`Growth`, `Ends`) says that `best` is the count of a sample taken
  by `best_at` and that no sample judged so far exceeds it by more than 0.5%, and what
  each stop reason follows from; with it a plateau has its witness, however the counts
  moved. `Since` does the same for `reached_at`, and gives what a report of a hold is worth
  where `HeldForHold` fails: a sample at the target on either side of it
  (`HeldAtBothEnds`). `Figured` says that a sample with a count has memory and count of one live server
  up to the drift: neither is in the past of a server that died, because the cgroup is
  read first. `Shares` says that the CPU intervals of the samples follow each other and end
  by `last_cpu`; every sample with memory has one since the counter was primed. The figures
  of the summary then need that the peak is a live sample within 0.5% of the highest
  (`PeakIsTop`, from `Counting!GreatestExists`) and that `Round` is within a half
  (`RoundIsNear`).
* **BenchProofs.** `BInv` is `Counted`, that the matrix has noted one directory per run;
  `Owns`, that a run's directory exists and holds no summary until its recorder writes
  one; `Stacked`, what the containers are at each command, which is nothing after a `down` that
  worked and between the runs of a matrix without KEEP=1; and `Tabled`, that the
  summaries in the directories noted are those this matrix has written, each with the number
  of its run, so that no two of them are equal.
  `FreshIsNew` is the loop of `run.sh`: among one more number than there are directories
  one gives a free name, by the pigeonhole principle and because a name and a number are
  recovered from the directory (`PathIsInjective`). The first free one is then never one
  that exists, whatever the variants are called.

  The table is then a matter of `compare.py` alone. `LoadGroups` is the loop of `load`: after
  any number of directories there is one group per variant met, with each of its summaries
  once (`GroupsOf`, kept by `AddToGroups`). `RowCounts` and `RowIsCentral` are a row's count,
  labels and figure: `SortedOrders` says that `sorted` keeps each figure, which needs
  that numbers can be sorted at all (`Counting!OrderExists`, by induction over their number),
  and `MedianSplits` counts the figures on both sides of the middle, odd or even.

Induction over data is done in `Counting` with sets in place of predicates: a property of
numbers is a set of them, and the invariant of a loop is the function from each turn to the
set of values that it allows (`Induction`, `LoopRuns`, `LoopKeeps`). `LoopRuns` also gives the
recursive functions of `Compare` and `Startup` their existence, which is what lets their
equations be used.

Only model-checked: the liveness properties `ReachesTarget` and `Reopens` (fairness is out
of the prover's reach). The runs check each property on its small instance;
`ClosedNotStored` and the type invariants of `MemoryLimit` and `CostGuard` are left to their
proofs.

## 5. Assumptions and what is left out

* nbio is modelled from how the code uses it: OnClose runs once per connection whose
  handshake succeeded and never for a dial that failed; on the server OnOpen runs
  within `Upgrade`, before OnClose, and OnClose never runs for a request that was refused or
  whose upgrade failed. The callback at main.go:77-80 takes a connection off the gauge
  without a test of its own, so that `MetricsAccount` rests on this last point;
  the engine holds at most `MaxLoad` connections and
  resets the others; a listener that fails to bind leaves none open and `Start`
  returns nil (the comment at main.go:141-143). These definitions are marked external.
* The server's counters of connections and disconnections are kept as their difference,
  and counters the program never reads (dials, errors, messages, rejected) are left out,
  as are payloads, latencies, logs and the reason a dial failed.
* `PerPeriod` and `Clients` are bounds of the environment: requests between two readings
  of the guard, and handshakes under way, which `-rate` and `-inflight` of the load
  generators limit. The ceiling is stated in them; without them no guard that reads
  four times a second bounds anything.
* A reading of the cgroup that fails is skipped by the code and is a stutter here; a
  container with no limit has no guard and no `Server` model.
* A restart is the container's `restart` policy. Clients that dial again are new
  connections.
* Bounds: `MaxFaults`, `MaxChanges`, `MaxTicks`, `MaxFreezes`, `MaxKills`, `MaxItems`,
  `MaxMissed`, `MaxMatrices`, `MaxDirs`, and `Delay`, `Drift`, `Growth`, `Gap`, `Rounding` and `BootTime` for
  how late and how much.
  They limit how often the environment acts, and in `SendLoop` how long a registry is
  watched, never what the program may do.
* The recorder's clock is the same in all its readings, and a number of connections may
  take any of the levels from one sample to the next, by at most `Drift` within a sample.
  A killed server answers nothing; its cgroup lasts a moment longer and is empty; Docker
  reports the end last or not at all. A server that dies between the scrape and the inspect of
  a sample may therefore be reported as held, or at a plateau, and one that Docker no longer
  knows as stopped without an OOM kill: `SummaryAgrees` says that the last sample of a run that
  was held was answered, with its memory, by a server at its target, and that a report of a
  kill in the last sample is passed on, no more. The server container of a benchmark has no
  restart policy.
* One memory counter stands for the seven of the summary; latencies, dial errors by reason,
  conntrack, `summary.md` and `environment.md` only format what was read.
* The directories of `Bench` are those of one day, so that every name may clash. A
  `docker compose` command that fails leaves any part of what it would have removed or
  started. One `run.sh` runs at a time.
* A guard's run on AWS takes less time than a boot. One watchdog is modelled; a second
  stack whose instances have another deadline, which the runbook warns of, is not.
* Not modelled: deployment and infrastructure (declarations, and the cloud-init scripts
  that install and start what they declare), dashboards, plots and exports (I/O on recorded
  data, without state or decisions).

## 6. Where the source's words and its behaviour part

* `recorder_hold`: `reached_at` survives a drop below the target, so "held for 60 seconds"
  may be a first and a last sample at the target with less between them. Those two it
  always is (`HeldAtBothEnds`, proved).
* `startup_taken`: `checkListening` cannot tell its own listener from another process's.

Others have no run.

* The dial loop "keeps the number of open plus in-progress connections at the target"
  (main.go:144-145), but may pass it: a dial that is counted and leaves `pending` between
  the two loads is seen by neither. The window is of nanoseconds, and `OvershootIsBounded`
  proves the limit.
* With the guard "existing connections stay up and only new clients are turned away"
  (memory.go:100-101). It refuses upgrades only, and a process that stalls still collects
  unread messages: the run `server_restart` fires the OOM kill, and
  `AmpleMemoryKeepsConnections` says what memory makes the comment true. The runbook says
  so (docs/aws-runbook.md:69).
* An interval under 100 ms is accepted and not kept: `batch` gives each connection one
  message per step at most, so `NotLate` needs an interval longer than a step and its
  rounding, as in the run.
* "the stack ends every instance after `max_runtime_minutes` regardless"
  (docs/roadmap.md:85): an instance that loses its timer, or is stopped and started, lasts up
  to `MaxLife` after its last launch, and may be started again.
* A median comes "with the range in brackets when there is more than one run"
  (compare.py:6-7); `stat` leaves the range out as well when the runs agree or only one of
  them has the figure (compare.py:34).
* "Each variant ran N times" (matrix.sh:33) also stands over a table whose runs are fewer:
  a run whose recorder raised (record.py:141) has no summary and is passed over. The
  column "Runs" tells.
* "Dial errors by reason: none" is also what summary.md says when Prometheus did not
  answer (record.py:96-97, 325).
* `idle.json` is a "sample before any client connects" (docs/local-benchmark.md:95) if one of two
  `down`s worked (`IdleIsIdle`). Neither need have: with KEEP=1, or in the first run of a matrix
  that follows one that was cut short, load generators are there, and if the `down` of
  run.sh:70 then fails, its failure is ignored, `up -d` leaves them alone, and `record.py idle`
  samples a server under load.
* `-port` is not validated (main.go:190), unlike the items of `-ports` (main.go:110): 0 or 70000
  ends in "not listening on", not in "out of range".
* A second matrix of the same day keeps the first one's results (`OldResultsKept`) and
  replaces its table (matrix.sh:29-42).

## 7. Plan

1. `System`: `LoadGen` and `Server` over one set of sockets: a 503, a reset, an OOM kill
   as the faults of the dial loop; whether the load comes back after a restart.
2. `Guards`: the memory guard and the Go limit over one memory, with live data that
   the runtime cannot give back; whether garbage alone can make the guard refuse.
3. `Discovery`: what cloud-init does to find the server and the clients, with retries
   and time limits on both sides (`user_data_server.sh`, `user_data_client.sh`).
4. `CostGuard` with two stacks and two deadlines in one region.
