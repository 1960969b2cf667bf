---------------------------- MODULE MemoryLimit ----------------------------
(***************************************************************************)
(* The server's Go memory limit (memory.go manageMemoryLimit): once a       *)
(* second it reads what the container uses, then what the Go runtime holds, *)
(* and gives Go what the kernel's share leaves under a target that lies     *)
(* below the threshold of the memory guard. Changes of 1% or less are not   *)
(* applied. Memory goes on changing between the two readings and after them. *)
(*                                                                         *)
(* A reading that fails is skipped by the code. GOMEMLIMIT set, or a        *)
(* container without a limit, is a server that does none of this.          *)
(***************************************************************************)
EXTENDS Integers

CONSTANTS Max, High,     \* memory.max, and the guard's upper threshold
          Target,        \* goLimitShare of Max: 88%
          Floor,         \* a twentieth of Max
          Share,         \* 100: changes up to last/100 are skipped
          Growth,        \* what the kernel's share grows by from a reading until
                         \* the next limit is decided (a bound)
          Gap            \* what the Go runtime grows by between the two readings
                         \* of one second (a bound)

ASSUME LimitAssumption == /\ {Max, High, Target, Floor, Growth, Gap} \subseteq Nat
                          /\ Share \in Nat \ {0}
                          /\ 0 < Floor /\ Floor <= Target /\ High <= Max

\* The gap of 2% between the target and the threshold covers the 1% that is
\* skipped, and what happens during a second.
ASSUME GapAssumption == Target + Target \div Share + Growth + Gap <= High

VARIABLES kernel,        \* kernel memory and page cache of the container
          heap,          \* what the Go runtime holds: total minus released
          pc,            \* "sleep", or "metrics" between the two readings
          current,       \* the first reading
          other,         \* the kernel's share, as last computed
          last,          \* the limit in force, 0 before the first
          base,          \* the kernel's share when `other' was read
          readKernel, readHeap   \* both shares at the first reading

locals  == <<pc, current, other, last>>
history == <<base, readKernel, readHeap>>
vars == <<kernel, heap, locals, history>>

AtLeast(m, n) == IF n > m THEN n ELSE m

Init == /\ kernel \in 0 .. Max /\ heap \in 0 .. Max - kernel
        /\ pc = "sleep" /\ current = 0 /\ other = 0 /\ last = 0
        /\ base = 0 /\ readKernel = 0 /\ readHeap = 0

ReadCurrent == /\ pc = "sleep"
               /\ current' = kernel + heap
               /\ readKernel' = kernel /\ readHeap' = heap
               /\ pc' = "metrics"
               /\ UNCHANGED <<kernel, heap, other, last, base>>

limit(share) == AtLeast(Floor, Target - share)

\* Fault: only a limit that grows is applied.
SetLimitOnlyUp ==
  /\ pc = "metrics"
  /\ other' = AtLeast(0, current - heap)
  /\ last' = IF limit(other') - last > last \div Share THEN limit(other') ELSE last
  /\ base' = readKernel
  /\ pc' = "sleep" /\ current' = 0 /\ readKernel' = 0 /\ readHeap' = 0
  /\ UNCHANGED <<kernel, heap>>

\* The second reading, and the limit it gives.
SetLimit == /\ pc = "metrics"
            /\ other' = AtLeast(0, current - heap)
            /\ LET d == limit(other') - last
               IN  last' = IF d > last \div Share \/ -d > last \div Share
                           THEN limit(other') ELSE last
            /\ base' = readKernel
            /\ pc' = "sleep" /\ current' = 0 /\ readKernel' = 0 /\ readHeap' = 0
            /\ UNCHANGED <<kernel, heap>>

-----------------------------------------------------------------------------
(* Memory. The limit is soft: the runtime passes it when what it holds is   *)
(* live. It collects and releases when it likes.                           *)

KernelGrows == /\ kernel + heap < Max
               /\ last # 0 => kernel - base < Growth
               /\ pc = "metrics" => kernel - readKernel < Growth
               /\ kernel' = kernel + 1
               /\ UNCHANGED <<heap, locals, history>>

KernelShrinks == /\ kernel > 0
                 /\ kernel' = kernel - 1
                 /\ UNCHANGED <<heap, locals, history>>

HeapGrows == /\ kernel + heap < Max
             /\ pc = "metrics" => heap - readHeap < Gap
             /\ heap' = heap + 1
             /\ UNCHANGED <<kernel, locals, history>>

Collect == /\ heap > 0
           /\ heap' \in 0 .. heap - 1
           /\ UNCHANGED <<kernel, locals, history>>

Next == \/ ReadCurrent \/ SetLimit
        \/ KernelGrows \/ KernelShrinks \/ HeapGrows \/ Collect

Spec == Init /\ [][Next]_vars

-----------------------------------------------------------------------------
TypeOK == /\ kernel \in Nat /\ heap \in Nat /\ kernel + heap <= Max
          /\ pc \in {"sleep", "metrics"} /\ current \in 0 .. Max
          /\ other \in 0 .. Max /\ last \in 0 .. Target
          /\ base \in Nat /\ readKernel \in Nat /\ readHeap \in Nat

\* "garbage is collected before the admission guard starts turning clients away"
\* (memory.go:22-24): memory above the guard's threshold means that the runtime
\* is past its limit, so it holds what is live. The floor is the exception: with
\* more than 83% in the kernel the runtime is left 5%, whatever the guard does.
GarbageFirst ==
  (last # 0 /\ Target - other >= Floor /\ kernel + heap > High) => heap > last
=============================================================================
