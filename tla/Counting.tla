------------------------------ MODULE Counting ------------------------------
(***************************************************************************)
(* How the number of processes at given places changes when one moves:     *)
(* the counters of the server and of the load generator (goroutines holding *)
(* a slot, connections counted as open) are such numbers. Then: what the    *)
(* loops over a sequence keep (load, parsePorts, listenAddrs), and that      *)
(* numbers can be sorted.                                                  *)
(***************************************************************************)
EXTENDS Integers, FiniteSets, FiniteSetTheorems, WellFoundedInduction, TLAPS

Ind(b) == IF b THEN 1 ELSE 0
Count(D, f, S) == Cardinality({x \in D : f[x] \in S})

\* One element of D changes its value from f[d] to g[d]; the number of
\* elements whose value is in S changes by what d leaves and enters.
LEMMA MoveOne ==
  ASSUME NEW D, IsFiniteSet(D), NEW f, NEW g, NEW S, NEW d \in D,
         \A x \in D \ {d} : g[x] = f[x]
  PROVE  Count(D, g, S) = Count(D, f, S) + Ind(g[d] \in S) - Ind(f[d] \in S)
<1> DEFINE A == {x \in D : f[x] \in S}
           B == {x \in D : g[x] \in S}
<1>1. IsFiniteSet(A)
  BY FS_Subset
<1>2. Cardinality(A) \in Nat
  BY <1>1, FS_CardinalityType
<1>3. /\ Cardinality(A \cup {d}) = IF d \in A THEN Cardinality(A) ELSE Cardinality(A) + 1
      /\ Cardinality(A \ {d}) = IF d \in A THEN Cardinality(A) - 1 ELSE Cardinality(A)
  BY <1>1, FS_AddElement, FS_RemoveElement
<1>4. B = IF g[d] \in S THEN A \cup {d} ELSE A \ {d}
  OBVIOUS
<1>5. d \in A <=> f[d] \in S
  OBVIOUS
<1> HIDE DEF A, B
<1>6. Cardinality(B) = Cardinality(A) + Ind(g[d] \in S) - Ind(f[d] \in S)
  BY <1>2, <1>3, <1>4, <1>5 DEF Ind
<1>7. QED
  BY <1>6 DEF A, B, Count

\* A count is a natural number.
LEMMA CountIsNat ==
  ASSUME NEW D, IsFiniteSet(D), NEW f, NEW S
  PROVE  Count(D, f, S) \in Nat
BY FS_Subset, FS_CardinalityType DEF Count

\* A set of numbers that is not empty has a least one: the first free name of a
\* directory, for instance.
LEMMA LeastExists ==
  ASSUME NEW S \in SUBSET Nat, S # {}
  PROVE  \E m \in S : \A x \in S : m <= x
<1>1. PICK m \in S : \A x \in S : ~ (<<x, m>> \in OpToRel(<, Nat))
  <2>1. IsWellFoundedOn(OpToRel(<, Nat), Nat)
    BY NatLessThanWellFounded
  <2>2. QED
    BY <2>1, WFMin
<1>2. ASSUME NEW x \in S PROVE m <= x
  <2>1. ~ (<<x, m>> \in OpToRel(<, Nat))
    BY <1>1
  <2>2. ~ (x < m)
    BY <2>1, Zenon DEF OpToRel
  <2>3. QED
    BY <2>2
<1>3. QED
  BY <1>2

\* A bounded set of numbers that is not empty has a greatest one: the peak of a run.
LEMMA GreatestExists ==
  ASSUME NEW S \in SUBSET Nat, S # {}, NEW b \in Nat, \A x \in S : x <= b
  PROVE  \E m \in S : \A x \in S : m >= x
<1> DEFINE below == {b - x : x \in S}
<1>1. below \in SUBSET Nat
  <2>1. ASSUME NEW x \in S PROVE b - x \in Nat
    OBVIOUS
  <2>2. QED
    BY <2>1
<1>2. below # {}
  OBVIOUS
<1> HIDE DEF below
<1>3. PICK d \in below : \A e \in below : d <= e
  BY <1>1, <1>2, LeastExists
<1>4. PICK m \in S : d = b - m
  BY DEF below
<1>5. ASSUME NEW x \in S PROVE m >= x
  <2>1. b - x \in below
    BY DEF below
  <2>2. QED
    BY <1>3, <1>4, <2>1
<1>6. QED
  BY <1>5

-----------------------------------------------------------------------------
(* Loops. The library's induction theorems take a predicate as a parameter; *)
(* here a set of numbers stands for it, and a function for a loop's body.    *)

\* A set that holds 0 and, with a number, the next one holds all numbers.
LEMMA Induction ==
  ASSUME NEW S \in SUBSET Nat, 0 \in S, \A n \in S : n + 1 \in S
  PROVE  S = Nat
<1> SUFFICES ASSUME Nat \ S # {} PROVE FALSE
  OBVIOUS
<1>1. PICK m \in Nat \ S : \A x \in Nat \ S : m <= x
  BY LeastExists
<1>2. m - 1 \in Nat /\ m - 1 < m
  BY <1>1
<1>3. m - 1 \in S
  BY <1>1, <1>2
<1>4. m \in S
  BY <1>2, <1>3
<1>5. QED
  BY <1>1, <1>4

\* The history of a loop of n turns: what its variable is at first and after each turn.
IsRun(f, n, a, body) == f[0] = a /\ \A j \in 1 .. n : f[j] = body[<<j, f[j - 1]>>]

\* An invariant of the loop, as the set of values that it allows after each turn.
Keeps(inv, n, body) == \A j \in 1 .. n : \A x \in inv[j - 1] : body[<<j, x>>] \in inv[j]
Steps(f, n, inv) == \A j \in 1 .. n : f[j - 1] \in inv[j - 1] => f[j] \in inv[j]
Within(f, n, inv) == \A j \in 0 .. n : f[j] \in inv[j]

\* A loop whose body is a function has a history.
LEMMA TypedLoopRuns ==
  ASSUME NEW A, NEW a \in A, NEW n \in Nat, NEW body \in [(1 .. n) \X A -> A]
  PROVE  \E f \in [0 .. n -> A] : IsRun(f, n, a, body)
<1> DEFINE S == {m \in Nat : m <= n => \E f \in [0 .. m -> A] : IsRun(f, m, a, body)}
<1>1. 0 \in S
  <2> DEFINE f == [j \in 0 .. 0 |-> a]
  <2>1. f \in [0 .. 0 -> A] /\ IsRun(f, 0, a, body)
    BY DEF IsRun
  <2>2. QED
    BY <2>1
<1>2. ASSUME NEW m \in S PROVE m + 1 \in S
  <2> SUFFICES ASSUME m + 1 <= n PROVE \E f \in [0 .. m + 1 -> A] : IsRun(f, m + 1, a, body)
    OBVIOUS
  <2>1. PICK f \in [0 .. m -> A] : IsRun(f, m, a, body)
    OBVIOUS
  <2> DEFINE g == [j \in 0 .. m + 1 |-> IF j = m + 1 THEN body[<<m + 1, f[m]>>] ELSE f[j]]
  <2>2. <<m + 1, f[m]>> \in (1 .. n) \X A
    OBVIOUS
  <2>3. g \in [0 .. m + 1 -> A]
    BY <2>2
  <2>4. g[0] = a /\ g[m + 1] = body[<<m + 1, g[m]>>]
    <3>1. 0 # m + 1 /\ m # m + 1 /\ {0, m, m + 1} \subseteq 0 .. m + 1
      OBVIOUS
    <3>2. g[0] = f[0] /\ g[m] = f[m] /\ g[m + 1] = body[<<m + 1, f[m]>>]
      BY <3>1
    <3>3. QED
      BY <2>1, <3>2 DEF IsRun
  <2>5. ASSUME NEW j \in 1 .. m PROVE g[j] = body[<<j, g[j - 1]>>]
    <3>1. g[j] = f[j] /\ g[j - 1] = f[j - 1]
      OBVIOUS
    <3>2. QED
      BY <2>1, <3>1 DEF IsRun
  <2>6. IsRun(g, m + 1, a, body)
    <3> HIDE DEF g
    <3>1. \A j \in 1 .. m + 1 : j \in 1 .. m \/ j = m + 1
      OBVIOUS
    <3>2. (m + 1) - 1 = m
      OBVIOUS
    <3>3. QED
      BY <2>4, <2>5, <3>1, <3>2 DEF IsRun
  <2>7. QED
    BY <2>3, <2>6
<1> HIDE DEF S
<1>3. S = Nat
  <2>1. S \in SUBSET Nat
    BY DEF S
  <2>2. QED
    BY <1>1, <1>2, <2>1, Induction
<1>4. QED
  BY <1>3 DEF S

\* What holds at first, and after a turn if it did before, holds throughout.
LEMMA LoopKeeps ==
  ASSUME NEW n \in Nat, NEW inv, NEW f, f[0] \in inv[0], Steps(f, n, inv)
  PROVE  Within(f, n, inv)
<1> DEFINE S == {m \in Nat : m <= n => f[m] \in inv[m]}
<1>1. 0 \in S
  OBVIOUS
<1>2. ASSUME NEW m \in S PROVE m + 1 \in S
  <2> SUFFICES ASSUME m + 1 <= n PROVE f[m + 1] \in inv[m + 1]
    OBVIOUS
  <2>1. m + 1 \in 1 .. n /\ (m + 1) - 1 = m /\ f[m] \in inv[m]
    OBVIOUS
  <2>2. QED
    BY <2>1 DEF Steps
<1> HIDE DEF S
<1>3. S \in SUBSET Nat
  BY DEF S
<1>4. S = Nat
  BY <1>1, <1>2, <1>3, Induction
<1>5. QED
  BY <1>4 DEF S, Within

\* A run stays within what the body keeps.
LEMMA RunWithin ==
  ASSUME NEW n \in Nat, NEW inv, NEW a \in inv[0], NEW body, Keeps(inv, n, body),
         NEW f, IsRun(f, n, a, body)
  PROVE  Within(f, n, inv)
<1>1. f[0] \in inv[0]
  BY DEF IsRun
<1>2. Steps(f, n, inv)
  BY DEF IsRun, Keeps, Steps
<1>3. QED
  BY <1>1, <1>2, LoopKeeps

\* A loop whose body keeps an invariant has a history, within the invariant.
LEMMA LoopRuns ==
  ASSUME NEW n \in Nat, NEW inv, NEW a \in inv[0], NEW body, Keeps(inv, n, body)
  PROVE  \E f : /\ f = [j \in 0 .. n |-> f[j]]
                /\ IsRun(f, n, a, body) /\ Within(f, n, inv)
<1> DEFINE A == UNION {inv[j] : j \in 0 .. n}
           h == [x \in (1 .. n) \X A |-> IF body[x] \in A THEN body[x] ELSE a]
<1>1. a \in A /\ h \in [(1 .. n) \X A -> A]
  OBVIOUS
<1>2. \A j \in 1 .. n : \A x \in inv[j - 1] : h[<<j, x>>] = body[<<j, x>>]
  <2> SUFFICES ASSUME NEW j \in 1 .. n, NEW x \in inv[j - 1]
               PROVE  h[<<j, x>>] = body[<<j, x>>]
    OBVIOUS
  <2>1. body[<<j, x>>] \in A /\ x \in A
    <3>1. j \in 0 .. n /\ j - 1 \in 0 .. n /\ body[<<j, x>>] \in inv[j]
      BY DEF Keeps
    <3>2. QED
      BY <3>1
  <2>2. QED
    BY <2>1
<1> HIDE DEF h, A
<1>3. PICK f \in [0 .. n -> A] : IsRun(f, n, a, h)
  BY <1>1, TypedLoopRuns
<1>4. Keeps(inv, n, h)
  BY <1>2 DEF Keeps
<1>5. Within(f, n, inv)
  BY <1>3, <1>4, RunWithin
<1>6. \A j \in 1 .. n : f[j] = body[<<j, f[j - 1]>>]
  <2>1. \A j \in 1 .. n : j - 1 \in 0 .. n
    OBVIOUS
  <2>2. \A j \in 1 .. n : f[j - 1] \in inv[j - 1]
    BY <1>5, <2>1 DEF Within
  <2>3. QED
    BY <1>2, <1>3, <2>2 DEF IsRun
<1>7. IsRun(f, n, a, body)
  BY <1>3, <1>6 DEF IsRun
<1>8. f = [j \in 0 .. n |-> f[j]]
  OBVIOUS
<1>9. QED
  BY <1>5, <1>7, <1>8

-----------------------------------------------------------------------------
(* Sorting: the elements of a finite set in the order of their values.     *)

InOrder(p, n, v) == \A i, j \in 1 .. n : i < j => v[p[i]] <= v[p[j]]

\* One more element has a place in the order: before the first whose value is not less.
LEMMA Insert ==
  ASSUME NEW K, NEW x, x \notin K, NEW v \in [K \cup {x} -> Int], NEW m \in Nat,
         NEW p \in Bijection(1 .. m, K), InOrder(p, m, v)
  PROVE  \E g \in Bijection(1 .. m + 1, K \cup {x}) : InOrder(g, m + 1, v)
<1> DEFINE T == {q \in 1 .. m + 1 : \A i \in q .. m : v[x] <= v[p[i]]}
<1>1. /\ p \in [1 .. m -> K]
      /\ \A i, j \in 1 .. m : p[i] = p[j] => i = j
      /\ \A y \in K : \E i \in 1 .. m : p[i] = y
  BY DEF Bijection, Injection, Surjection, IsInjective
<1>2. m + 1 \in T
  OBVIOUS
<1>3. T \in SUBSET Nat
  OBVIOUS
<1>4. PICK q \in T : \A t \in T : q <= t
  <2> HIDE DEF T
  <2>1. QED
    BY <1>2, <1>3, LeastExists
<1>5. q \in 1 .. m + 1 /\ \A i \in q .. m : v[x] <= v[p[i]]
  OBVIOUS
<1>6. ASSUME NEW i \in 1 .. m, i < q PROVE v[p[i]] <= v[x]
  <2>1. q - 1 \in 1 .. m /\ q - 1 \notin T
    <3> HIDE DEF T
    <3>1. q - 1 \in 1 .. m /\ ~(q <= q - 1)
      BY <1>5, <1>6
    <3>2. QED
      BY <1>4, <3>1
  <2>2. PICK l \in (q - 1) .. m : ~(v[x] <= v[p[l]])
    BY <2>1
  <2>3. l = q - 1
    BY <1>5, <2>1, <2>2
  <2>4. v[p[i]] <= v[p[l]]
    <3>1. i = l \/ i < l
      BY <1>5, <1>6, <2>3
    <3>2. l \in 1 .. m /\ v[p[l]] \in Int /\ v[p[i]] \in Int
      BY <1>1, <2>1, <2>3
    <3>3. QED
      BY <3>1, <3>2 DEF InOrder
  <2>5. v[x] \in Int /\ v[p[l]] \in Int /\ v[p[i]] \in Int
    BY <1>1, <2>1, <2>3
  <2>6. QED
    BY <2>2, <2>4, <2>5
<1> DEFINE g == [i \in 1 .. m + 1 |-> IF i < q THEN p[i] ELSE IF i = q THEN x ELSE p[i - 1]]
<1>7. /\ \A i \in 1 .. m : i < q => g[i] = p[i]
      /\ g[q] = x
      /\ \A i \in 1 .. m + 1 : i > q => i - 1 \in q .. m /\ g[i] = p[i - 1]
      /\ \A i \in 1 .. m + 1 : (i < q => i \in 1 .. m) /\ (i < q \/ i = q \/ i > q)
  BY <1>5
<1>8. g \in [1 .. m + 1 -> K \cup {x}]
  BY <1>1, <1>5
<1> HIDE DEF g, T
<1>9. ASSUME NEW i \in 1 .. m + 1, NEW j \in 1 .. m + 1, g[i] = g[j] PROVE i = j
  <2>1. CASE i = q
    BY <1>1, <1>5, <1>7, <1>9, <2>1
  <2>2. CASE j = q
    BY <1>1, <1>5, <1>7, <1>9, <2>2
  <2>3. CASE i < q /\ j < q
    BY <1>1, <1>5, <1>7, <1>9, <2>3
  <2>4. CASE i > q /\ j > q
    BY <1>1, <1>5, <1>7, <1>9, <2>4
  <2>5. CASE i < q /\ j > q
    BY <1>1, <1>5, <1>7, <1>9, <2>5
  <2>6. CASE i > q /\ j < q
    BY <1>1, <1>5, <1>7, <1>9, <2>6
  <2>7. QED
    BY <1>7, <2>1, <2>2, <2>3, <2>4, <2>5, <2>6
<1>10. ASSUME NEW y \in K \cup {x} PROVE \E i \in 1 .. m + 1 : g[i] = y
  <2>1. CASE y = x
    BY <1>5, <1>7, <2>1
  <2>2. CASE y \in K
    <3>1. PICK i \in 1 .. m : p[i] = y
      BY <1>1, <2>2
    <3>2. CASE i < q
      BY <1>7, <3>1, <3>2
    <3>3. CASE ~(i < q)
      <4>1. i + 1 \in 1 .. m + 1 /\ i + 1 > q /\ (i + 1) - 1 = i
        BY <1>5, <3>3
      <4>2. g[i + 1] = p[i]
        BY <1>7, <4>1
      <4>3. QED
        BY <3>1, <4>1, <4>2
    <3>4. QED
      BY <3>2, <3>3
  <2>3. QED
    BY <2>1, <2>2
<1>11. ASSUME NEW i \in 1 .. m + 1, NEW j \in 1 .. m + 1, i < j PROVE v[g[i]] <= v[g[j]]
  <2>1. \A l \in 1 .. m : v[p[l]] \in Int
    BY <1>1
  <2>2. v[x] \in Int
    OBVIOUS
  <2>3. CASE j < q
    <3>1. i \in 1 .. m /\ j \in 1 .. m /\ g[i] = p[i] /\ g[j] = p[j]
      BY <1>5, <1>7, <1>11, <2>3
    <3>2. QED
      BY <1>11, <3>1 DEF InOrder
  <2>4. CASE j = q
    <3>1. i \in 1 .. m /\ i < q /\ g[i] = p[i] /\ g[j] = x
      BY <1>5, <1>7, <1>11, <2>4
    <3>2. QED
      BY <1>6, <3>1
  <2>5. CASE i = q
    <3>1. j - 1 \in q .. m /\ g[i] = x /\ g[j] = p[j - 1]
      BY <1>5, <1>7, <1>11, <2>5
    <3>2. QED
      BY <1>5, <3>1
  <2>6. CASE i < q /\ j > q
    <3>1. i \in 1 .. m /\ g[i] = p[i] /\ j - 1 \in q .. m /\ j - 1 \in 1 .. m /\ g[j] = p[j - 1]
      BY <1>5, <1>7, <2>6
    <3>2. v[p[i]] <= v[x] /\ v[x] <= v[p[j - 1]]
      BY <1>5, <1>6, <2>6, <3>1
    <3>3. v[p[i]] \in Int /\ v[p[j - 1]] \in Int
      BY <2>1, <3>1
    <3>4. QED
      BY <2>2, <3>1, <3>2, <3>3
  <2>7. CASE i > q
    <3>1. i - 1 \in 1 .. m /\ j - 1 \in 1 .. m /\ i - 1 < j - 1
          /\ g[i] = p[i - 1] /\ g[j] = p[j - 1]
      BY <1>5, <1>7, <1>11, <2>7
    <3>2. QED
      BY <3>1 DEF InOrder
  <2>8. QED
    BY <1>5, <1>7, <1>11, <2>3, <2>4, <2>5, <2>6, <2>7
<1>12. g \in Bijection(1 .. m + 1, K \cup {x})
  BY <1>8, <1>9, <1>10 DEF Bijection, Injection, Surjection, IsInjective
<1>13. QED
  BY <1>11, <1>12 DEF InOrder

\* A finite set can be put in the order of its values.
LEMMA OrderExists ==
  ASSUME NEW I, IsFiniteSet(I), NEW v \in [I -> Int]
  PROVE  \E p \in Bijection(1 .. Cardinality(I), I) : InOrder(p, Cardinality(I), v)
<1> DEFINE S == {m \in Nat : \A J \in SUBSET I : IsFiniteSet(J) /\ Cardinality(J) = m =>
                               \E p \in Bijection(1 .. m, J) : InOrder(p, m, v)}
<1>1. 0 \in S
  <2> SUFFICES ASSUME NEW J \in SUBSET I, IsFiniteSet(J), Cardinality(J) = 0
               PROVE  \E p \in Bijection(1 .. 0, J) : InOrder(p, 0, v)
    OBVIOUS
  <2>1. J = {}
    BY FS_EmptySet
  <2>2. << >> \in Bijection(1 .. 0, J)
    BY <2>1 DEF Bijection, Injection, Surjection, IsInjective
  <2>3. InOrder(<< >>, 0, v)
    BY DEF InOrder
  <2>4. QED
    BY <2>2, <2>3
<1>2. ASSUME NEW m \in S PROVE m + 1 \in S
  <2> SUFFICES ASSUME NEW J \in SUBSET I, IsFiniteSet(J), Cardinality(J) = m + 1
               PROVE  \E p \in Bijection(1 .. m + 1, J) : InOrder(p, m + 1, v)
    OBVIOUS
  <2>1. m \in Nat
    OBVIOUS
  <2>2. PICK x \in J : TRUE
    BY <2>1, FS_EmptySet
  <2> DEFINE K == J \ {x}
  <2>3. IsFiniteSet(K) /\ Cardinality(K) = m
    BY <2>1, <2>2, FS_RemoveElement
  <2>4. PICK p \in Bijection(1 .. m, K) : InOrder(p, m, v)
    BY <2>3
  <2>5. J = K \cup {x} /\ x \notin K
    BY <2>2
  <2> DEFINE w == [y \in K \cup {x} |-> v[y]]
  <2>6. w \in [K \cup {x} -> Int]
    BY <2>5
  <2>7. \A y \in K \cup {x} : w[y] = v[y]
    OBVIOUS
  <2>8. \A n, f : f \in [1 .. n -> K \cup {x}] => (InOrder(f, n, w) <=> InOrder(f, n, v))
    <3> HIDE DEF w
    <3>1. QED
      BY <2>7 DEF InOrder
  <2>9. p \in [1 .. m -> K \cup {x}]
    BY DEF Bijection, Injection
  <2>10. InOrder(p, m, w)
    BY <2>4, <2>8, <2>9
  <2>11. PICK g \in Bijection(1 .. m + 1, K \cup {x}) : InOrder(g, m + 1, w)
    <3> HIDE DEF w, K
    <3>1. QED
      BY <2>1, <2>4, <2>5, <2>6, <2>10, Insert
  <2>12. g \in [1 .. m + 1 -> K \cup {x}]
    BY <2>11 DEF Bijection, Injection
  <2>13. InOrder(g, m + 1, v)
    BY <2>8, <2>11, <2>12
  <2>14. QED
    BY <2>5, <2>11, <2>13
<1>3. S = Nat
  <2> HIDE DEF S
  <2>1. S \in SUBSET Nat
    BY DEF S
  <2>2. QED
    BY <1>1, <1>2, <2>1, Induction
<1>4. Cardinality(I) \in S
  BY <1>3, FS_CardinalityType
<1>5. QED
  BY <1>4
=============================================================================
