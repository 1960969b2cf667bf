-------------------------- MODULE CostGuardProofs --------------------------
(***************************************************************************)
(* The guards end every tagged instance in time and no other instance, for *)
(* any instances, deadlines and periods.                                   *)
(***************************************************************************)
EXTENDS CostGuard, TLAPS

\* Products of a number of runs and the period.
LEMMA Runs ==
  ASSUME NEW m \in Nat, NEW n \in Nat, NEW p \in Nat
  PROVE  /\ m * p \in Nat /\ n * p \in Nat
         /\ (m + 1) * p = m * p + p
         /\ m <= n => m * p <= n * p
         /\ 0 * p = 0
OBVIOUS

\* The assumptions, one fact each.
LEMMA Numbers ==
  /\ Tagged \subseteq Instance
  /\ Runtime \in Nat /\ Period \in Nat /\ BootTime \in Nat
  /\ MaxAge \in Nat /\ MaxMissed \in Nat
  /\ Runtime > 0 /\ Period > 0 /\ BootTime > 0
  /\ Runtime + BootTime <= MaxAge
BY CostAssumption, GraceAssumption DEF CostAssumption, GraceAssumption

-----------------------------------------------------------------------------
(* The inductive invariant.                                                *)

\* The oldest that a tagged instance may be now: past its deadline by the runs of
\* the watchdog that failed and the time since the last one; while one is under
\* way, that time is a period.
Oldest == MaxAge + missed * Period + (IF watchdog.on THEN Period ELSE Period - due)

\* An instance that has a timer is younger than the deadline, one that is listed as
\* expired has no timer and gets none, and one that is not listed is young.
Fine(i) ==
  /\ state[i] = "pending" => age[i] <= BootTime
  /\ timer[i] # -1 => /\ i \in Tagged /\ state[i] = "running"
                      /\ age[i] + timer[i] <= Runtime + BootTime
  /\ i \in watchdog.doomed => timer[i] = -1 /\ (state[i] = "pending" => age[i] = 0)
  /\ (i \in Tagged /\ Exists(i)) =>
       /\ age[i] <= Oldest
       /\ watchdog.on => i \in watchdog.doomed \/ age[i] <= MaxAge
       /\ kill.on => i \in kill.doomed \/ age[i] = 0

Listings == /\ watchdog.doomed \subseteq Tagged /\ kill.doomed \subseteq Tagged
            /\ IF watchdog.on THEN due = Period ELSE watchdog.doomed = {}

CInv == /\ TypeOK
        /\ Listings
        /\ \A i \in Instance : Fine(i)

\* The oldest is a number, and MaxLife the largest it gets to be.
LEMMA OldestBounded ==
  ASSUME TypeOK
  PROVE  /\ Oldest \in Nat /\ Oldest <= MaxLife
         /\ MaxLife \in Nat /\ MaxAge <= Oldest
<1>1. /\ missed \in Nat /\ missed <= MaxMissed /\ due \in Nat /\ due <= Period
  BY Numbers DEF TypeOK
<1> DEFINE a == missed * Period
           b == MaxMissed * Period
           c == (MaxMissed + 1) * Period
<1>2. a \in Nat /\ b \in Nat /\ c = b + Period /\ a <= b
  BY <1>1, Numbers, Runs
<1>3. Oldest = MaxAge + a + (IF watchdog.on THEN Period ELSE Period - due)
  BY DEF Oldest
<1>4. MaxLife = MaxAge + c
  BY DEF MaxLife
<1> HIDE DEF a, b, c
<1>5. QED
  BY <1>1, <1>2, <1>3, <1>4, Numbers

LEMMA InitCInv == Init => CInv
<1> SUFFICES ASSUME Init PROVE CInv
  OBVIOUS
<1>1. TypeOK
  <2>1. MaxLife \in Nat
    <3>1. (MaxMissed + 1) * Period \in Nat
      BY Numbers, Runs
    <3>2. QED
      BY <3>1, Numbers DEF MaxLife
  <2>2. QED
    BY <2>1, Numbers DEF Init, TypeOK, Idle
<1>2. Listings
  BY DEF Init, Listings, Idle
<1>3. \A i \in Instance : Fine(i)
  BY DEF Init, Fine, Exists, Idle
<1>4. QED
  BY <1>1, <1>2, <1>3 DEF CInv

-----------------------------------------------------------------------------
(* A step of one instance.                                                 *)

\* It leaves the clock, the guards and the other instances alone.
OneMoves(i) == /\ UNCHANGED <<clock, guards>>
               /\ \A j \in Instance \ {i} :
                    state'[j] = state[j] /\ age'[j] = age[j] /\ timer'[j] = timer[j]

\* Such a step keeps the invariant when it keeps it for its own instance.
LEMMA OneKeeps ==
  ASSUME CInv, NEW i \in Instance, OneMoves(i), TypeOK', Fine(i)'
  PROVE  CInv'
<1>1. watchdog' = watchdog /\ kill' = kill /\ missed' = missed /\ due' = due
  BY DEF OneMoves, clock, guards
<1>2. Listings'
  BY <1>1 DEF CInv, Listings
<1>3. Oldest' = Oldest
  BY <1>1 DEF Oldest
<1>4. ASSUME NEW j \in Instance \ {i} PROVE Fine(j)'
  <2>1. state'[j] = state[j] /\ age'[j] = age[j] /\ timer'[j] = timer[j]
    BY DEF OneMoves
  <2>2. Fine(j)
    BY DEF CInv
  <2>3. QED
    BY <1>1, <1>3, <2>1, <2>2 DEF Fine, Exists
<1>5. QED
  BY <1>2, <1>4 DEF CInv

\* Every step of an instance keeps the invariant.
LEMMA InstanceKept ==
  ASSUME CInv, NEW i \in Instance,
         Launch(i) \/ Boot(i) \/ Stop(i) \/ End(i) \/ TimerFires(i) \/ TimerLost(i)
  PROVE  CInv'
<1>1. /\ TypeOK /\ Fine(i)
      /\ state[i] \in {"none", "pending", "running", "stopped", "terminated"}
      /\ age[i] \in Nat /\ timer[i] \in -1 .. Runtime
  BY DEF CInv, TypeOK
<1>2. /\ Oldest \in Nat /\ Oldest <= MaxLife /\ MaxLife \in Nat
  BY <1>1, OldestBounded
<1>3. OneMoves(i)
  BY <1>1 DEF TypeOK, OneMoves, Launch, Boot, Stop, End, TimerFires, TimerLost
<1>4. watchdog' = watchdog /\ kill' = kill /\ Oldest' = Oldest
  BY <1>3 DEF OneMoves, clock, guards, Oldest
<1>5. CASE Launch(i)
  <2>1. state'[i] = "pending" /\ age'[i] = 0 /\ timer'[i] = timer[i]
    BY <1>1, <1>5 DEF Launch, TypeOK
  <2>2. timer[i] = -1
    BY <1>1, <1>5 DEF Launch, Fine
  <2>3. TypeOK'
    BY <1>2, <1>5 DEF CInv, Launch, TypeOK, clock, guards
  <2>4. Fine(i)'
    BY <1>1, <1>2, <1>4, <2>1, <2>2, Numbers DEF Fine, Exists
  <2>5. QED
    BY <1>3, <2>3, <2>4, OneKeeps
<1>6. CASE Boot(i)
  <2>1. /\ state[i] = "pending" /\ age[i] > 0 /\ age'[i] = age[i]
        /\ state'[i] = "running"
        /\ timer'[i] = timer[i] \/ (i \in Tagged /\ timer'[i] = Runtime)
    BY <1>1, <1>6 DEF Boot, TypeOK
  <2>2. timer[i] = -1 /\ i \notin watchdog.doomed /\ age[i] <= BootTime
    BY <1>1, <2>1 DEF Fine
  <2>3. TypeOK'
    <3>1. timer' \in [Instance -> -1 .. Runtime]
      BY <1>1, <1>6, Numbers DEF Boot, TypeOK
    <3>2. QED
      BY <1>6, <3>1 DEF CInv, Boot, TypeOK, clock, guards
  <2>4. Fine(i)'
    BY <1>1, <1>2, <1>4, <2>1, <2>2, Numbers DEF Fine, Exists
  <2>5. QED
    BY <1>3, <2>3, <2>4, OneKeeps
<1>7. CASE Stop(i)
  <2>1. /\ Exists(i) /\ state'[i] = "stopped" /\ age'[i] = age[i] /\ timer'[i] = -1
    BY <1>1, <1>7 DEF Stop, TypeOK, Exists
  <2>2. TypeOK'
    BY <1>7, Numbers DEF CInv, Stop, TypeOK, clock, guards
  <2>3. Fine(i)'
    BY <1>1, <1>4, <2>1 DEF Fine, Exists
  <2>4. QED
    BY <1>3, <2>2, <2>3, OneKeeps
<1>8. CASE End(i) \/ TimerFires(i)
  <2>1. /\ state'[i] = "terminated" /\ age'[i] = age[i] /\ timer'[i] = -1
    BY <1>1, <1>8 DEF End, TimerFires, TypeOK
  <2>2. TypeOK'
    BY <1>8, Numbers DEF CInv, End, TimerFires, TypeOK, clock, guards
  <2>3. Fine(i)'
    BY <1>1, <1>4, <2>1 DEF Fine, Exists
  <2>4. QED
    BY <1>3, <2>2, <2>3, OneKeeps
<1>9. CASE TimerLost(i)
  <2>1. /\ state'[i] = state[i] /\ age'[i] = age[i] /\ timer'[i] = -1
    BY <1>1, <1>9 DEF TimerLost, TypeOK
  <2>2. TypeOK'
    BY <1>9, Numbers DEF CInv, TimerLost, TypeOK, clock, guards
  <2>3. Fine(i)'
    BY <1>1, <1>4, <2>1 DEF Fine, Exists
  <2>4. QED
    BY <1>3, <2>2, <2>3, OneKeeps
<1>10. QED
  BY <1>5, <1>6, <1>7, <1>8, <1>9

-----------------------------------------------------------------------------
(* The steps of the guards, and time.                                      *)

\* The watchdog's listing has every tagged instance past its deadline, and none
\* that has a timer.
LEMMA ListKept ==
  ASSUME CInv, WatchdogList
  PROVE  CInv'
<1>1. /\ TypeOK /\ Listings /\ \A i \in Instance : Fine(i)
  BY DEF CInv
<1>2. /\ ~watchdog.on /\ due = 0 /\ due' = Period
      /\ UNCHANGED <<state, age, booted, timer, missed, kill>>
      /\ watchdog' = [on |-> TRUE, doomed |-> {i \in describe_instances : expired(i)}]
  BY DEF WatchdogList, Listed
<1>3. watchdog'.on /\ watchdog'.doomed = {i \in describe_instances : expired(i)}
  BY <1>2
<1>4. TypeOK'
  BY <1>1, <1>2, <1>3, Numbers DEF TypeOK, describe_instances
<1>5. Listings'
  BY <1>1, <1>2, <1>3 DEF Listings, describe_instances
<1>6. Oldest' = Oldest
  BY <1>2, <1>3, Numbers DEF Oldest
<1>7. ASSUME NEW i \in Instance PROVE Fine(i)'
  <2>1. Fine(i) /\ age[i] \in Nat /\ timer[i] \in -1 .. Runtime
    BY <1>1 DEF TypeOK
  <2>2. i \in watchdog'.doomed <=> i \in Tagged /\ Exists(i) /\ age[i] > MaxAge
    BY <1>3, Numbers DEF describe_instances, expired
  <2>3. timer[i] # -1 => age[i] <= MaxAge
    BY <2>1, Numbers DEF Fine
  <2>4. state[i] = "pending" => age[i] <= MaxAge
    BY <2>1, Numbers DEF Fine
  <2>5. (i \in Tagged /\ Exists(i)) => (i \in watchdog'.doomed \/ age[i] <= MaxAge)
    BY <2>1, <2>2, Numbers
  <2>6. i \in watchdog'.doomed => timer[i] = -1 /\ state[i] # "pending"
    BY <2>1, <2>2, <2>3, <2>4, Numbers
  <2>7. QED
    BY <1>2, <1>6, <2>1, <2>5, <2>6 DEF Fine, Exists
<1>8. QED
  BY <1>4, <1>5, <1>7 DEF CInv

\* A listing that is kept or cleared has its type.
LEMMA ListingsTyped ==
  ASSUME TypeOK, watchdog' \in {Idle, watchdog}, kill' \in {Idle, kill}
  PROVE  \A g \in {watchdog', kill'} : g.on \in BOOLEAN /\ g.doomed \subseteq Instance
<1>1. ASSUME NEW g \in {Idle, watchdog, kill}
      PROVE  g.on \in BOOLEAN /\ g.doomed \subseteq Instance
  <2>1. CASE g = Idle
    BY <2>1 DEF Idle
  <2>2. CASE g \in {watchdog, kill}
    BY <2>2 DEF TypeOK
  <2>3. QED
    BY <2>1, <2>2
<1>2. QED
  BY <1>1

\* What a guard terminates no longer counts.
LEMMA TerminatedFine ==
  ASSUME CInv, NEW S \in SUBSET Tagged, terminate_instances(S), NEW i \in S
  PROVE  i \in Instance /\ state'[i] = "terminated" /\ timer'[i] = -1
BY Numbers DEF terminate_instances

\* After a run of the watchdog no tagged instance is past its deadline.
LEMMA TerminateKept ==
  ASSUME CInv, WatchdogTerminate
  PROVE  CInv'
<1>1. /\ TypeOK /\ Listings /\ \A i \in Instance : Fine(i)
  BY DEF CInv
<1>2. /\ watchdog.on /\ due = Period /\ watchdog.doomed \subseteq Tagged
      /\ terminate_instances(watchdog.doomed)
      /\ UNCHANGED <<age, booted, due, kill>>
      /\ missed' = 0 /\ ~watchdog'.on /\ watchdog'.doomed = {}
  BY <1>1 DEF WatchdogTerminate, Allowed, Listings, Idle
<1>3. Oldest' = MaxAge
  BY <1>2, Numbers, Runs DEF Oldest
<1>4. TypeOK'
  <2>1. state' \in [Instance -> {"none", "pending", "running", "stopped", "terminated"}]
    BY <1>1, <1>2 DEF TypeOK, terminate_instances
  <2>2. timer' \in [Instance -> -1 .. Runtime]
    BY <1>1, <1>2, Numbers DEF TypeOK, terminate_instances
  <2>3. \A g \in {watchdog', kill'} : g.on \in BOOLEAN /\ g.doomed \subseteq Instance
    BY <1>1, <1>2, ListingsTyped DEF WatchdogTerminate
  <2>4. /\ age' \in [Instance -> 0 .. MaxLife + 1] /\ booted' \subseteq Instance
        /\ due' \in 0 .. Period /\ missed' \in 0 .. MaxMissed
    BY <1>1, <1>2, Numbers DEF TypeOK
  <2>5. QED
    BY <2>1, <2>2, <2>3, <2>4 DEF TypeOK
<1>5. Listings'
  BY <1>1, <1>2 DEF Listings
<1>6. ASSUME NEW i \in Instance PROVE Fine(i)'
  <2>1. Fine(i)
    BY <1>1
  <2>2. CASE i \in watchdog.doomed
    <3>1. state'[i] = "terminated" /\ timer'[i] = -1
      BY <1>2, <2>2, TerminatedFine
    <3>2. QED
      BY <1>2, <3>1 DEF Fine, Exists
  <2>3. CASE i \notin watchdog.doomed
    <3>1. state'[i] = state[i] /\ timer'[i] = timer[i]
      BY <1>2, <2>3 DEF terminate_instances
    <3>2. QED
      BY <1>2, <1>3, <2>1, <2>3, <3>1 DEF Fine, Exists
  <2>4. QED
    BY <2>2, <2>3
<1>7. QED
  BY <1>4, <1>5, <1>6 DEF CInv

\* A run that fails costs one period.
LEMMA FailKept ==
  ASSUME CInv, WatchdogFails
  PROVE  CInv'
<1>1. /\ TypeOK /\ Listings /\ \A i \in Instance : Fine(i)
  BY DEF CInv
<1>2. /\ missed < MaxMissed /\ missed' = missed + 1 /\ missed \in Nat /\ due' = Period
      /\ UNCHANGED <<state, age, booted, timer, kill>>
      /\ ~watchdog'.on /\ watchdog'.doomed = {}
      /\ watchdog.on \/ due = 0
      /\ watchdog' \in {Idle, watchdog}
  BY <1>1, Numbers DEF WatchdogFails, Listings, Idle, TypeOK
<1>3. Oldest' = Oldest
  <2> DEFINE a == missed * Period
             b == (missed + 1) * Period
  <2>1. a \in Nat /\ b = a + Period
    BY <1>2, Numbers, Runs
  <2>2. Oldest = MaxAge + a + Period
    BY <1>2, Numbers DEF Oldest
  <2>3. Oldest' = MaxAge + b + (Period - Period)
    BY <1>2 DEF Oldest
  <2> HIDE DEF a, b
  <2>4. QED
    BY <2>1, <2>2, <2>3, Numbers
<1>4. TypeOK'
  <2>1. \A g \in {watchdog', kill'} : g.on \in BOOLEAN /\ g.doomed \subseteq Instance
    BY <1>1, <1>2, ListingsTyped
  <2>2. missed' \in 0 .. MaxMissed /\ due' \in 0 .. Period
    BY <1>2, Numbers
  <2>3. /\ state' = state /\ age' = age /\ booted' = booted /\ timer' = timer
    BY <1>2
  <2>4. QED
    BY <1>1, <2>1, <2>2, <2>3 DEF TypeOK
<1>5. Listings'
  BY <1>1, <1>2 DEF Listings
<1>6. ASSUME NEW i \in Instance PROVE Fine(i)'
  BY <1>1, <1>2, <1>3 DEF Fine, Exists
<1>7. QED
  BY <1>4, <1>5, <1>6 DEF CInv

\* The kill switch's listing has every tagged instance there is.
LEMMA KillListKept ==
  ASSUME CInv, KillList
  PROVE  CInv'
<1>1. /\ TypeOK /\ Listings /\ \A i \in Instance : Fine(i)
  BY DEF CInv
<1>2. /\ kill' = [on |-> TRUE, doomed |-> describe_instances]
      /\ state' = state /\ age' = age /\ booted' = booted /\ timer' = timer
      /\ due' = due /\ missed' = missed /\ watchdog' = watchdog
  BY DEF KillList, Listed, clock
<1>3. kill'.on /\ kill'.doomed = describe_instances
  BY <1>2
<1>4. TypeOK'
  <2>1. kill'.on \in BOOLEAN /\ kill'.doomed \subseteq Instance
    BY <1>2, <1>3, Numbers DEF describe_instances
  <2>2. QED
    BY <1>1, <1>2, <2>1 DEF TypeOK
<1>5. Listings'
  BY <1>1, <1>2, <1>3 DEF Listings, describe_instances
<1>6. Oldest' = Oldest
  BY <1>2 DEF Oldest
<1>7. ASSUME NEW i \in Instance PROVE Fine(i)'
  <2>1. Fine(i)
    BY <1>1
  <2>2. (i \in Tagged /\ Exists(i)) => i \in kill'.doomed
    BY <1>3 DEF describe_instances
  <2>3. QED
    BY <1>2, <1>6, <2>1, <2>2 DEF Fine, Exists
<1>8. QED
  BY <1>4, <1>5, <1>7 DEF CInv

\* Its call leaves the watchdog's listing as it was.
LEMMA KillTerminateKept ==
  ASSUME CInv, KillTerminate
  PROVE  CInv'
<1>1. /\ TypeOK /\ Listings /\ \A i \in Instance : Fine(i)
  BY DEF CInv
<1>2. /\ kill.doomed \subseteq Tagged
      /\ terminate_instances(kill.doomed)
      /\ age' = age /\ booted' = booted /\ due' = due /\ missed' = missed
      /\ watchdog' = watchdog /\ kill' = Idle /\ ~kill'.on /\ kill'.doomed = {}
  BY <1>1 DEF KillTerminate, Listings, Idle, clock
<1>3. Oldest' = Oldest
  BY <1>2 DEF Oldest
<1>4. TypeOK'
  <2>1. state' \in [Instance -> {"none", "pending", "running", "stopped", "terminated"}]
    BY <1>1, <1>2 DEF TypeOK, terminate_instances
  <2>2. timer' \in [Instance -> -1 .. Runtime]
    BY <1>1, <1>2, Numbers DEF TypeOK, terminate_instances
  <2>3. \A g \in {watchdog', kill'} : g.on \in BOOLEAN /\ g.doomed \subseteq Instance
    BY <1>1, <1>2, ListingsTyped
  <2>4. QED
    BY <1>1, <1>2, <2>1, <2>2, <2>3 DEF TypeOK
<1>5. Listings'
  BY <1>1, <1>2 DEF Listings
<1>6. ASSUME NEW i \in Instance PROVE Fine(i)'
  <2>1. Fine(i)
    BY <1>1
  <2>2. CASE i \in kill.doomed
    <3>1. state'[i] = "terminated" /\ timer'[i] = -1
      BY <1>2, <2>2, TerminatedFine
    <3>2. QED
      BY <1>2, <3>1 DEF Fine, Exists
  <2>3. CASE i \notin kill.doomed
    <3>1. state'[i] = state[i] /\ timer'[i] = timer[i]
      BY <1>2, <2>3 DEF terminate_instances
    <3>2. QED
      BY <1>2, <1>3, <2>1, <2>3, <3>1 DEF Fine, Exists
  <2>4. QED
    BY <2>2, <2>3
<1>7. QED
  BY <1>4, <1>5, <1>6 DEF CInv

\* Time passes when no guard is at work, and ages and their bound grow alike.
LEMMA TickKept ==
  ASSUME CInv, Tick
  PROVE  CInv'
<1>1. /\ TypeOK /\ Listings /\ \A i \in Instance : Fine(i)
  BY DEF CInv
<1>2. /\ due > 0 /\ ~watchdog.on /\ ~kill.on /\ due' = due - 1
      /\ state' = state /\ booted' = booted /\ missed' = missed
      /\ watchdog' = watchdog /\ kill' = kill
  BY DEF Tick, Punctual, guards
<1>3. /\ Oldest \in Nat /\ Oldest' = Oldest + 1 /\ Oldest <= MaxLife /\ MaxLife \in Nat
  <2> DEFINE a == missed * Period
  <2>1. due \in Nat /\ missed \in Nat
    BY <1>1, Numbers DEF TypeOK
  <2>2. a \in Nat
    BY <2>1, Numbers, Runs
  <2>3. Oldest = MaxAge + a + (Period - due) /\ Oldest' = MaxAge + a + (Period - due')
    BY <1>2 DEF Oldest
  <2>4. Oldest \in Nat /\ Oldest <= MaxLife /\ MaxLife \in Nat
    BY <1>1, OldestBounded
  <2> HIDE DEF a
  <2>5. QED
    BY <1>2, <2>1, <2>2, <2>3, <2>4, Numbers
<1>4. ASSUME NEW i \in Instance
      PROVE  /\ age[i] \in 0 .. MaxLife + 1 /\ timer[i] \in -1 .. Runtime
             /\ age'[i] = IF Exists(i) /\ age[i] <= MaxLife THEN age[i] + 1 ELSE age[i]
             /\ timer'[i] = IF timer[i] > 0 THEN timer[i] - 1 ELSE timer[i]
  BY <1>1 DEF TypeOK, Tick
<1>5. TypeOK'
  <2>1. age' \in [Instance -> 0 .. MaxLife + 1]
    <3>1. \A i \in Instance : age'[i] \in 0 .. MaxLife + 1
      BY <1>3, <1>4
    <3>2. age' = [i \in Instance |-> age'[i]]
      BY DEF Tick
    <3>3. QED
      BY <3>1, <3>2
  <2>2. timer' \in [Instance -> -1 .. Runtime]
    <3>1. \A i \in Instance : timer'[i] \in -1 .. Runtime
      BY <1>4, Numbers
    <3>2. timer' = [i \in Instance |-> timer'[i]]
      BY DEF Tick
    <3>3. QED
      BY <3>1, <3>2
  <2>3. due' \in 0 .. Period
    BY <1>1, <1>2, Numbers DEF TypeOK
  <2>4. QED
    BY <1>1, <1>2, <2>1, <2>2, <2>3 DEF TypeOK
<1>6. Listings'
  BY <1>1, <1>2 DEF Listings
<1>7. ASSUME NEW i \in Instance PROVE Fine(i)'
  <2>1. Fine(i)
    BY <1>1
  <2>2. state[i] = "running" => timer[i] # 0
    BY DEF Tick, Punctual
  <2>3. state[i] = "pending" => age[i] < BootTime
    BY DEF Tick, Punctual
  <2>4. i \notin watchdog.doomed \/ timer[i] = -1
    BY <2>1 DEF Fine
  <2>5. state'[i] = "pending" => age'[i] <= BootTime
    BY <1>2, <1>3, <1>4, <2>3, Numbers
  <2>6. timer'[i] # -1 => /\ i \in Tagged /\ state'[i] = "running"
                         /\ age'[i] + timer'[i] <= Runtime + BootTime
    BY <1>2, <1>3, <1>4, <2>1, <2>2, Numbers DEF Fine
  <2>7. (i \in Tagged /\ Exists(i)) => age'[i] <= Oldest'
    BY <1>3, <1>4, <2>1 DEF Fine
  <2>8. i \in watchdog.doomed => FALSE
    BY <1>1, <1>2 DEF Listings
  <2>9. QED
    BY <1>2, <2>5, <2>6, <2>7, <2>8 DEF Fine, Exists
<1>8. QED
  BY <1>5, <1>6, <1>7 DEF CInv

-----------------------------------------------------------------------------
(* The invariant holds.                                                    *)

\* Every step keeps the invariant.
LEMMA NextCInv == CInv /\ [Next]_vars => CInv'
<1> SUFFICES ASSUME CInv, [Next]_vars PROVE CInv'
  OBVIOUS
<1>1. CASE \E i \in Instance : \/ Launch(i) \/ Boot(i) \/ Stop(i) \/ End(i)
                               \/ TimerFires(i) \/ TimerLost(i)
  BY <1>1, InstanceKept
<1>2. CASE Watchdog
  BY <1>2, ListKept, TerminateKept, FailKept DEF Watchdog
<1>3. CASE KillList \/ KillTerminate
  BY <1>3, KillListKept, KillTerminateKept
<1>4. CASE Tick
  BY <1>4, TickKept
<1>5. CASE KillFails \/ UNCHANGED vars
  <2>1. /\ state' = state /\ age' = age /\ booted' = booted /\ timer' = timer
        /\ due' = due /\ missed' = missed /\ watchdog' = watchdog /\ kill' \in {Idle, kill}
    BY <1>5 DEF KillFails, vars, clock, guards
  <2>2. TypeOK'
    <3>1. \A g \in {watchdog', kill'} : g.on \in BOOLEAN /\ g.doomed \subseteq Instance
      BY <2>1, ListingsTyped DEF CInv
    <3>2. QED
      BY <2>1, <3>1 DEF CInv, TypeOK
  <2>3. Listings' /\ Oldest' = Oldest
    BY <2>1 DEF CInv, Listings, Oldest, Idle
  <2>4. \A i \in Instance : Fine(i)'
    BY <2>1, <2>3 DEF CInv, Fine, Exists, Idle
  <2>5. QED
    BY <2>2, <2>3, <2>4 DEF CInv
<1>6. QED
  BY <1>1, <1>2, <1>3, <1>4, <1>5 DEF Next

\* The invariant holds in every state.
LEMMA CInvHolds == Spec => []CInv
BY InitCInv, NextCInv, PTL DEF Spec

\* Instances, timers and the guards' listings keep their kinds, and no timer is longer
\* than the runtime that the instance was given (main.tf:260-272, guard.py:20-42).
THEOREM CostGuardTypes == Spec => []TypeOK
<1>1. CInv => TypeOK
  BY DEF CInv
<1>2. QED
  BY <1>1, CInvHolds, PTL

\* Whatever becomes of its timer and however often it is stopped and started, a
\* tagged instance is gone one period of the watchdog after its deadline, and one
\* more for every run that failed (guard.py:14-42, watchdog.tf:62-72).
THEOREM NoInstanceOutlivesTheGuards == Spec => []AgeBounded
<1>1. CInv => AgeBounded
  <2> SUFFICES ASSUME CInv, NEW i \in Tagged, Exists(i) PROVE age[i] <= MaxLife
    BY DEF AgeBounded
  <2>1. i \in Instance /\ Fine(i) /\ TypeOK
    BY Numbers DEF CInv
  <2>2. age[i] \in Nat /\ age[i] <= Oldest
    BY <2>1 DEF TypeOK, Fine
  <2>3. Oldest \in Nat /\ Oldest <= MaxLife /\ MaxLife \in Nat
    BY <2>1, OldestBounded
  <2>4. QED
    BY <2>2, <2>3
<1>2. QED
  BY <1>1, CInvHolds, PTL

\* The watchdog ends no instance whose own timer is still running, provided that
\* the grace time covers the boot (guard.py:14-17, variables.tf:82-86).
THEOREM WatchdogOnlyBacksUp == Spec => BackupOnly
<1>1. CInv /\ [Next]_vars => [BackedUp]_vars
  <2> SUFFICES ASSUME CInv, WatchdogTerminate,
                      NEW i \in Instance, state'[i] # state[i]
               PROVE  timer[i] = -1
    BY DEF BackedUp
  <2>1. Fine(i) /\ TypeOK
    BY DEF CInv
  <2>2. i \in watchdog.doomed
    BY <2>1 DEF WatchdogTerminate, terminate_instances, TypeOK
  <2>3. QED
    BY <2>1, <2>2 DEF Fine
<1>2. QED
  BY <1>1, CInvHolds, PTL DEF Spec, BackupOnly

\* Neither guard touches an instance without the tag (guard.py:28-32,
\* kill-bench.sh:7-10).
THEOREM OthersAreLeftAlone == Spec => OnlyTagged
<1>1. CInv /\ [Next]_vars => [LeavesOthers]_vars
  <2> SUFFICES ASSUME CInv, WatchdogTerminate \/ KillTerminate,
                      NEW i \in Instance \ Tagged
               PROVE  state'[i] = state[i]
    BY DEF LeavesOthers
  <2>1. TypeOK /\ watchdog.doomed \subseteq Tagged /\ kill.doomed \subseteq Tagged
    BY DEF CInv, Listings
  <2>2. QED
    BY <2>1 DEF WatchdogTerminate, KillTerminate, terminate_instances, TypeOK
<1>2. QED
  BY <1>1, CInvHolds, PTL DEF Spec, OnlyTagged

\* Once the kill switch has made its call, the tagged instances that are left were
\* launched while it ran (kill-bench.sh:7-18).
THEOREM KillSwitchEndsAll == Spec => KillEndsAll
<1>1. CInv /\ [Next]_vars => [Ends]_vars
  <2> SUFFICES ASSUME CInv, KillTerminate, NEW i \in Tagged, Exists(i)'
               PROVE  age[i] = 0
    BY DEF Ends
  <2>1. Fine(i) /\ TypeOK /\ i \in Instance
    BY Numbers DEF CInv
  <2>2. i \notin kill.doomed /\ state'[i] = state[i]
    BY <2>1 DEF KillTerminate, terminate_instances, Exists
  <2>3. QED
    BY <2>1, <2>2 DEF KillTerminate, Fine, Exists
<1>2. QED
  BY <1>1, CInvHolds, PTL DEF Spec, KillEndsAll
=============================================================================
