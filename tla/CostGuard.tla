----------------------------- MODULE CostGuard -----------------------------
(***************************************************************************)
(* What ends the benchmark's EC2 instances (infra/opentofu/aws-ec2,         *)
(* scripts/kill-bench.sh): a timer that cloud-init sets on the first boot   *)
(* of an instance, a watchdog Lambda every Period that lists the tagged     *)
(* instances and ends those past their deadline, and a kill switch. Timers  *)
(* are lost, watchdog runs fail, and instances are stopped and started at   *)
(* any time, also between a guard's listing and its call.                   *)
(*                                                                         *)
(* Time passes in Tick only; a run of a guard takes less than a tick, a     *)
(* boot at least one.                                                      *)
(***************************************************************************)
EXTENDS Integers

CONSTANTS Instance,
          Tagged,            \* instances with the tag Project
          Runtime,           \* max_runtime_minutes
          MaxAge,            \* max_runtime_minutes + guard_grace_minutes
          Period,            \* of the watchdog
          BootTime,          \* most ticks from LaunchTime to the user data (a bound)
          MaxMissed          \* watchdog runs that may fail in a row (a bound)

ASSUME CostAssumption == /\ Tagged \subseteq Instance
                         /\ {Runtime, Period, BootTime} \subseteq Nat \ {0}
                         /\ {MaxAge, MaxMissed} \subseteq Nat

\* guard_grace_minutes covers the boot.
ASSUME GraceAssumption == Runtime + BootTime <= MaxAge

\* The longest an instance can last after its last launch.
MaxLife == MaxAge + (MaxMissed + 1) * Period

VARIABLES state,             \* "none", "pending", "running", "stopped" or "terminated"
          age,               \* now - LaunchTime, up to MaxLife + 1
          booted,            \* instances whose user data has run
          timer,             \* ticks left of the pending shutdown, or -1
          due,               \* ticks until the next run of the watchdog
          missed,            \* watchdog runs failed in a row
          watchdog, kill     \* what each guard's listing gave, while it runs

guards == <<watchdog, kill>>
clock  == <<due, missed>>
vars == <<state, age, booted, timer, clock, guards>>

Idle == [on |-> FALSE, doomed |-> {}]
Listed(S) == [on |-> TRUE, doomed |-> S]

Exists(i) == state[i] \in {"pending", "running", "stopped"}

Init == /\ state = [i \in Instance |-> "none"]
        /\ age = [i \in Instance |-> 0]
        /\ booted = {}
        /\ timer = [i \in Instance |-> -1]
        /\ due = Period /\ missed = 0
        /\ watchdog = Idle /\ kill = Idle

-----------------------------------------------------------------------------
(* Instances. A start counts as a launch: it resets LaunchTime.            *)

Launch(i) == /\ state[i] \in {"none", "stopped"}
             /\ state' = [state EXCEPT ![i] = "pending"]
             /\ age' = [age EXCEPT ![i] = 0]
             /\ UNCHANGED <<booted, timer, clock, guards>>

\* cloud-init runs the user data once in the life of an instance; it may fail
\* before the shutdown is scheduled. Other instances have user data of their own.
Boot(i) == /\ state[i] = "pending" /\ age[i] > 0
           /\ state' = [state EXCEPT ![i] = "running"]
           /\ booted' = booted \cup {i}
           /\ \/ /\ i \in Tagged \ booted
                 /\ timer' = [timer EXCEPT ![i] = Runtime]
              \/ UNCHANGED timer
           /\ UNCHANGED <<age, clock, guards>>

\* instance_initiated_shutdown_behavior = "terminate"
TimerFires(i) == /\ state[i] = "running" /\ timer[i] = 0
                 /\ state' = [state EXCEPT ![i] = "terminated"]
                 /\ timer' = [timer EXCEPT ![i] = -1]
                 /\ UNCHANGED <<age, booted, clock, guards>>

\* A reboot, or shutdown -c.
TimerLost(i) == /\ timer[i] # -1
                /\ timer' = [timer EXCEPT ![i] = -1]
                /\ UNCHANGED <<state, age, booted, clock, guards>>

\* The pending shutdown does not survive a stop.
Stop(i) == /\ state[i] \in {"pending", "running"}
           /\ state' = [state EXCEPT ![i] = "stopped"]
           /\ timer' = [timer EXCEPT ![i] = -1]
           /\ UNCHANGED <<age, booted, clock, guards>>

\* tofu destroy, or the end of a one-time spot request.
End(i) == /\ Exists(i)
          /\ state' = [state EXCEPT ![i] = "terminated"]
          /\ timer' = [timer EXCEPT ![i] = -1]
          /\ UNCHANGED <<age, booted, clock, guards>>

-----------------------------------------------------------------------------
(* The guards. Each lists first and terminates what it listed, whatever has *)
(* become of it.                                                           *)

\* Fault: the grace time is left out.
expiredEarly(i) == age[i] > Runtime

expired(i) == age[i] > MaxAge

\* Fault: the listing is not limited to the tag.
DescribeEverything == {i \in Instance : Exists(i)}

\* Fault: only instances that run are listed.
DescribeRunning == {i \in Tagged : state[i] = "running"}

describe_instances == {i \in Tagged : Exists(i)}

\* The role may terminate tagged instances only, and a call that names another
\* fails as a whole.
Allowed(S) == S \subseteq Tagged

terminate_instances(S) ==
  /\ state' = [i \in Instance |-> IF i \in S THEN "terminated" ELSE state[i]]
  /\ timer' = [i \in Instance |-> IF i \in S THEN -1 ELSE timer[i]]

WatchdogList == /\ due = 0 /\ ~watchdog.on
                /\ watchdog' = Listed({i \in describe_instances : expired(i)})
                /\ due' = Period
                /\ UNCHANGED <<state, age, booted, timer, missed, kill>>

WatchdogTerminate == /\ watchdog.on
                     /\ IF Allowed(watchdog.doomed)
                        THEN terminate_instances(watchdog.doomed)
                        ELSE UNCHANGED <<state, timer>>
                     /\ watchdog' = Idle
                     /\ missed' = 0
                     /\ UNCHANGED <<age, booted, due, kill>>

\* EventBridge does not run it, or it fails before or after its listing.
WatchdogFails == /\ missed < MaxMissed
                 /\ \/ due = 0 /\ ~watchdog.on /\ due' = Period /\ UNCHANGED watchdog
                    \/ watchdog.on /\ watchdog' = Idle /\ UNCHANGED due
                 /\ missed' = missed + 1
                 /\ UNCHANGED <<state, age, booted, timer, kill>>

Watchdog == WatchdogList \/ WatchdogTerminate \/ WatchdogFails

\* kill-bench.sh, with the operator's own rights.
KillList == /\ ~kill.on
            /\ kill' = Listed(describe_instances)
            /\ UNCHANGED <<state, age, booted, timer, clock, watchdog>>

KillTerminate == /\ kill.on
                 /\ terminate_instances(kill.doomed)
                 /\ kill' = Idle
                 /\ UNCHANGED <<age, booted, clock, watchdog>>

\* The script is interrupted, or EC2 refuses the call.
KillFails == /\ kill.on /\ kill' = Idle
             /\ UNCHANGED <<state, age, booted, timer, clock, watchdog>>

-----------------------------------------------------------------------------
\* Nothing is overdue when time passes.
Punctual == /\ due > 0 /\ ~watchdog.on /\ ~kill.on
            /\ \A i \in Instance : /\ state[i] = "running" => timer[i] # 0
                                   /\ state[i] = "pending" => age[i] < BootTime

Tick == /\ Punctual
        /\ due' = due - 1
        /\ age' = [i \in Instance |->
                     IF Exists(i) /\ age[i] <= MaxLife THEN age[i] + 1 ELSE age[i]]
        /\ timer' = [i \in Instance |-> IF timer[i] > 0 THEN timer[i] - 1 ELSE timer[i]]
        /\ UNCHANGED <<state, booted, missed, guards>>

Next == \/ \E i \in Instance : \/ Launch(i) \/ Boot(i) \/ Stop(i) \/ End(i)
                               \/ TimerFires(i) \/ TimerLost(i)
        \/ Watchdog \/ KillList \/ KillTerminate \/ KillFails
        \/ Tick

Spec == Init /\ [][Next]_vars

-----------------------------------------------------------------------------
TypeOK == /\ state \in [Instance -> {"none", "pending", "running", "stopped", "terminated"}]
          /\ age \in [Instance -> 0 .. MaxLife + 1]
          /\ booted \subseteq Instance
          /\ timer \in [Instance -> -1 .. Runtime]
          /\ due \in 0 .. Period /\ missed \in 0 .. MaxMissed
          /\ \A g \in {watchdog, kill} : g.on \in BOOLEAN /\ g.doomed \subseteq Instance

\* "so one failing does not leave the fleet running" (aws-runbook.md:136): whatever
\* becomes of its timer, a tagged instance is gone one period after its deadline,
\* and one more for every run of the watchdog that failed (guard.py:14-42).
AgeBounded == \A i \in Tagged : Exists(i) => age[i] <= MaxLife

\* The watchdog "backs up the on-instance shutdown timer" (watchdog.tf:4): it ends
\* no instance whose own timer is still running.
BackedUp == WatchdogTerminate =>
              \A i \in Instance : (state'[i] # state[i]) => timer[i] = -1
BackupOnly == [][BackedUp]_vars

\* "Only instances tagged Project=<TAG_VALUE> are ever touched" (guard.py:5), by
\* either guard.
LeavesOthers == WatchdogTerminate \/ KillTerminate =>
                  \A i \in Instance \ Tagged : state'[i] = state[i]
OnlyTagged == [][LeavesOthers]_vars

\* "Emergency stop: terminate every millionws benchmark instance" (kill-bench.sh:2):
\* what is left was launched while it ran, and was not there to be listed.
Ends == KillTerminate => \A i \in Tagged : Exists(i)' => age[i] = 0
KillEndsAll == [][Ends]_vars
=============================================================================
