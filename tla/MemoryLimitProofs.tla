------------------------- MODULE MemoryLimitProofs -------------------------
(***************************************************************************)
(* The Go memory limit stays low enough for the garbage collector to act   *)
(* before the memory guard does, for any sizes and shares under which the  *)
(* gap between the two thresholds covers what happens in one second.       *)
(***************************************************************************)
EXTENDS MemoryLimit, TLAPS

\* Integer division keeps the order.
LEMMA DivMonotone ==
  ASSUME NEW a \in Nat, NEW b \in Nat, NEW d \in Nat \ {0}, a <= b
  PROVE  a \div d \in Nat /\ a \div d <= b \div d
<1> DEFINE p == a \div d
           q == b \div d
<1>1. p \in Nat /\ q \in Nat /\ d * p <= a /\ b < d * q + d
  BY SMTT(30)
<1> HIDE DEF p, q
<1>2. CASE q + 1 <= p
  <2>1. d * (q + 1) <= d * p
    BY <1>1, <1>2, SMTT(30)
  <2>2. d * (q + 1) = d * q + d
    BY <1>1, SMTT(30)
  <2>3. QED
    BY <1>1, <2>1, <2>2
<1>3. p <= q
  BY <1>1, <1>2
<1>4. QED
  BY <1>1, <1>3 DEF p, q

\* What a limit in force rests on: the share it was computed from was read at most
\* Growth ago, was underestimated by at most Gap, and what was skipped since is
\* within the dead band.
InForce == /\ last <= limit(other) + last \div Share
           /\ base <= other + Gap
           /\ kernel <= base + Growth

\* Between the two readings of a second.
Reading == /\ current = readKernel + readHeap
           /\ heap <= readHeap + Gap
           /\ kernel <= readKernel + Growth

MInv == /\ TypeOK
        /\ last # 0 => InForce
        /\ pc = "metrics" => Reading

\* The assumptions, one fact each.
LEMMA Numbers ==
  /\ Max \in Nat /\ High \in Nat /\ Target \in Nat /\ Floor \in Nat
  /\ Growth \in Nat /\ Gap \in Nat /\ Share \in Nat \ {0}
  /\ 0 < Floor /\ Floor <= Target /\ High <= Max
  /\ Target \div Share \in Nat
  /\ Target + Target \div Share + Growth + Gap <= High
<1>1. Target \div Share \in Nat
  BY LimitAssumption, DivMonotone DEF LimitAssumption
<1>2. QED
  BY <1>1, LimitAssumption, GapAssumption DEF LimitAssumption, GapAssumption

\* A server that has set no limit yet satisfies the invariant.
LEMMA InitMInv == Init => MInv
BY Numbers DEF Init, MInv, TypeOK

\* The limit is positive and at most the target, whatever the kernel holds.
LEMMA LimitInRange ==
  ASSUME NEW share \in Nat
  PROVE  limit(share) \in 1 .. Target
<1>1. Target \in Nat /\ Floor \in Nat /\ 0 < Floor /\ Floor <= Target
  BY Numbers
<1>2. CASE Target - share > Floor
  BY ONLY <1>1, <1>2, share \in Nat DEF limit, AtLeast
<1>3. CASE ~(Target - share > Floor)
  <2>1. limit(share) = Floor
    BY <1>1, <1>3 DEF limit, AtLeast
  <2>2. QED
    BY ONLY <1>1, <2>1
<1>4. QED
  BY <1>2, <1>3

\* The second reading underestimates the kernel's share by at most Gap, and the limit
\* that follows is positive and at most the dead band away from what it should be.
LEMMA SetLimitKept ==
  ASSUME MInv, SetLimit
  PROVE  MInv'
<1> DEFINE l == limit(other')
<1>1. Target - other' \in Int /\ other' \in 0 .. Max
  BY Numbers DEF MInv, TypeOK, SetLimit, AtLeast, Reading
<1>2. l \in 1 .. Target
  BY <1>1, LimitInRange
<1>3. last \in 0 .. Target
  BY DEF MInv, TypeOK
<1>4. last \div Share \in Nat /\ l \div Share \in Nat
  BY <1>2, <1>3, Numbers, DivMonotone
<1>5. \/ last' = l
      \/ last' = last /\ l - last <= last \div Share /\ last - l <= last \div Share
  <2>1. last' = IF l - last > last \div Share \/ -(l - last) > last \div Share
                THEN l ELSE last
    BY DEF SetLimit
  <2> HIDE DEF l
  <2>2. QED
    BY <2>1, <1>2, <1>3, <1>4
<1>6. last' \in 0 .. Target
  BY <1>2, <1>3, <1>5
<1>7. TypeOK'
  BY <1>1, <1>6, Numbers DEF MInv, TypeOK, SetLimit
<1>8. last' <= l + last' \div Share
  <2> HIDE DEF l
  <2>1. QED
    BY <1>2, <1>3, <1>4, <1>5
<1>9. base' <= other' + Gap
  BY Numbers DEF MInv, TypeOK, SetLimit, AtLeast, Reading
<1>10. kernel' <= base' + Growth
  BY DEF MInv, TypeOK, SetLimit, Reading
<1>11. limit(other)' = l
  BY DEF limit, AtLeast
<1>12. InForce'
  <2> HIDE DEF l
  <2>1. QED
    BY <1>8, <1>9, <1>10, <1>11 DEF InForce
<1>13. QED
  BY <1>7, <1>12 DEF MInv, SetLimit

\* Less of one of two shares still fits.
LEMMA SmallerFits ==
  ASSUME NEW k \in Nat, NEW h \in Nat, NEW g \in Nat, NEW m \in Nat, g <= h, k + h <= m
  PROVE  k + g <= m
OBVIOUS

\* Every other step leaves the limit alone and moves memory within its bounds.
LEMMA NextMInv == MInv /\ [Next]_vars => MInv'
<1> SUFFICES ASSUME MInv, [Next]_vars PROVE MInv'
  OBVIOUS
<1>1. CASE ReadCurrent
  <2>1. TypeOK'
    BY <1>1 DEF MInv, TypeOK, ReadCurrent
  <2>2. Reading'
    BY <1>1, Numbers DEF MInv, TypeOK, ReadCurrent, Reading
  <2>3. last # 0 => InForce'
    BY <1>1 DEF MInv, ReadCurrent, InForce, limit, AtLeast
  <2>4. QED
    BY <1>1, <2>1, <2>2, <2>3 DEF MInv, ReadCurrent
<1>2. CASE SetLimit
  BY <1>2, SetLimitKept
<1>3. ASSUME UNCHANGED <<locals, history>>,
             kernel' \in Nat, heap' \in Nat, kernel' + heap' <= Max,
             last # 0 => kernel' <= base + Growth,
             pc = "metrics" => heap' <= readHeap + Gap /\ kernel' <= readKernel + Growth
      PROVE  MInv'
  <2>1. TypeOK'
    BY <1>3 DEF MInv, TypeOK, locals, history
  <2>2. last # 0 => InForce'
    BY <1>3 DEF MInv, InForce, limit, AtLeast, locals, history
  <2>3. pc = "metrics" => Reading'
    BY <1>3 DEF MInv, Reading, locals, history
  <2>4. QED
    BY <1>3, <2>1, <2>2, <2>3 DEF MInv, locals
<1>4. CASE KernelGrows
  BY <1>3, <1>4, Numbers DEF MInv, TypeOK, InForce, Reading, KernelGrows
<1>5. CASE KernelShrinks
  BY <1>3, <1>5, Numbers DEF MInv, TypeOK, InForce, Reading, KernelShrinks
<1>6. CASE HeapGrows
  BY <1>3, <1>6, Numbers DEF MInv, TypeOK, InForce, Reading, HeapGrows
<1>7. CASE Collect
  <2>1. UNCHANGED <<locals, history>>
    BY <1>7 DEF Collect
  <2>2. heap' \in Nat /\ heap' <= heap
    BY <1>7 DEF Collect, MInv, TypeOK
  <2>3. kernel' \in Nat /\ kernel' + heap' <= Max
    <3>1. kernel \in Nat /\ heap \in Nat /\ kernel + heap <= Max /\ Max \in Nat
      BY Numbers DEF MInv, TypeOK
    <3>2. kernel' = kernel
      BY <1>7 DEF Collect
    <3>3. QED
      BY <2>2, <3>1, <3>2, SmallerFits
  <2>4. last # 0 => kernel' <= base + Growth
    BY <1>7 DEF Collect, MInv, InForce
  <2>5. pc = "metrics" => heap' <= readHeap + Gap /\ kernel' <= readKernel + Growth
    BY <1>7, <2>2, Numbers DEF Collect, MInv, TypeOK, Reading
  <2>6. QED
    BY <1>3, <2>1, <2>2, <2>3, <2>4, <2>5
<1>8. CASE UNCHANGED vars
  BY <1>3, <1>8 DEF MInv, TypeOK, InForce, Reading, vars
<1>9. QED
  BY <1>1, <1>2, <1>4, <1>5, <1>6, <1>7, <1>8 DEF Next

\* The invariant holds in every state.
LEMMA MInvHolds == Spec => []MInv
BY InitMInv, NextMInv, PTL DEF Spec

\* Types, and the limit within its range.
THEOREM LimitTyped == Spec => []TypeOK
<1>1. MInv => TypeOK
  BY DEF MInv
<1>2. QED
  BY <1>1, MInvHolds, PTL

\* The runtime is past its limit, and has collected what it can, whenever memory is
\* above the threshold of the guard (memory.go:22-25, 70-77).
THEOREM GarbageIsCollectedFirst == Spec => []GarbageFirst
<1>1. MInv => GarbageFirst
  <2> SUFFICES ASSUME MInv, last # 0, Target - other >= Floor, kernel + heap > High
               PROVE  heap > last
    BY DEF GarbageFirst
  <2>1. /\ kernel \in Nat /\ heap \in Nat /\ last \in 0 .. Target /\ other \in 0 .. Max
        /\ base \in Nat
    BY DEF MInv, TypeOK
  <2>2. last \div Share \in Nat /\ last \div Share <= Target \div Share
    BY <2>1, Numbers, DivMonotone
  <2>3. limit(other) = Target - other
    BY <2>1, Numbers DEF limit, AtLeast
  <2>4. InForce
    BY DEF MInv
  <2>5. QED
    BY <2>1, <2>2, <2>3, <2>4, Numbers DEF InForce
<1>2. QED
  BY <1>1, MInvHolds, PTL
=============================================================================
