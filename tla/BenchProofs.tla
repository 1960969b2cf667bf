----------------------------- MODULE BenchProofs -----------------------------
(***************************************************************************)
(* Whatever fails and whatever is left running, and for any variants,       *)
(* outcomes and numbers of runs, the server is measured at rest, no run      *)
(* touches the results of another, and the table counts each of them once    *)
(* and gives the median of their figures.                                  *)
(***************************************************************************)
EXTENDS Bench, Counting

\* The numbers, one fact each.
LEMMA Bounds ==
  /\ Variants \in Seq(Seq(Words \cup Nat)) /\ Len(Variants) \in Nat \ {0}
  /\ Repeats \in Nat \ {0} /\ MaxMatrices \in Nat \ {0} /\ MaxDirs \in Nat
BY BenchAssumption DEF BenchAssumption

\* A run is of one of the variants.
LEMMA VariantIsOne ==
  ASSUME k \in Nat
  PROVE  Variant \in ToSet(Variants) /\ Variant \in Seq(Words \cup Nat)
<1> DEFINE n == Len(Variants)
           i == (k % n) + 1
<1>1. n \in Nat \ {0}
  BY Bounds
<1> HIDE DEF n
<1>2. i \in 1 .. n
  BY <1>1, SMTT(30)
<1>3. Variants[i] \in ToSet(Variants) /\ Variants[i] \in Seq(Words \cup Nat)
  BY <1>2, Bounds DEF ToSet, n
<1>4. QED
  BY <1>3 DEF Variant, n

\* Names with different numbers are different.
LEMMA PathIsInjective ==
  ASSUME NEW v \in Seq(Words \cup Nat), NEW m \in Nat, NEW n \in Nat, m # n
  PROVE  Path(v, m) # Path(v, n)
<1>1. ASSUME NEW j \in Nat
      PROVE  /\ Append(v, j) \in Seq(Words \cup Nat)
             /\ Len(Append(v, j)) = Len(v) + 1 /\ Append(v, j)[Len(v) + 1] = j
             /\ Len(v) \in Nat
  OBVIOUS
<1>2. \A j \in Nat : Append(v, j) # v
  BY <1>1
<1>3. Append(v, m) # Append(v, n)
  BY <1>1
<1>4. QED
  BY <1>2, <1>3 DEF Path

\* Among one more names than there are directories, one is free: the search ends, and
\* at a name that does not exist (run.sh:34-36).
LEMMA FreshIsNew ==
  ASSUME NEW v \in Seq(Words \cup Nat), IsFiniteSet(DOMAIN disk)
  PROVE  Fresh(v) \notin DOMAIN disk
<1> DEFINE D == DOMAIN disk
           c == Cardinality(D)
           free == {n \in 1 .. c + 1 : Path(v, n) \notin D}
<1>1. c \in Nat
  BY FS_CardinalityType
<1> HIDE DEF c
<1>2. free # {}
  <2> SUFFICES ASSUME \A n \in 1 .. c + 1 : Path(v, n) \in D
               PROVE  FALSE
    OBVIOUS
  <2> DEFINE f == [n \in 1 .. c + 1 |-> Path(v, n)]
  <2>1. f \in [1 .. c + 1 -> D]
    OBVIOUS
  <2>2. IsFiniteSet(1 .. c + 1) /\ Cardinality(1 .. c + 1) = c + 1
    <3>1. 1 \in Int /\ c + 1 \in Int /\ ~(1 > c + 1) /\ c + 1 - 1 + 1 = c + 1
      BY <1>1
    <3>2. QED
      BY ONLY <3>1, FS_Interval
  <2>3. c < c + 1
    BY <1>1
  <2>4. \E x, y \in 1 .. c + 1 : x # y /\ f[x] = f[y]
    <3> HIDE DEF f
    <3>1. Cardinality(D) < Cardinality(1 .. c + 1)
      BY <2>2, <2>3 DEF c
    <3>2. QED
      BY <2>1, <2>2, <3>1, FS_PigeonHole
  <2>5. PICK x \in 1 .. c + 1, y \in 1 .. c + 1 : x # y /\ f[x] = f[y]
    BY <2>4
  <2>6. Path(v, x) = Path(v, y)
    BY <2>5
  <2>7. x \in Nat /\ y \in Nat
    BY <1>1
  <2>8. QED
    BY <2>5, <2>6, <2>7, PathIsInjective
<1>3. free \in SUBSET Nat
  BY <1>1
<1>4. PICK m \in free : \A x \in free : m <= x
  BY <1>2, <1>3, LeastExists
<1>5. Min(free) \in free
  BY <1>4, Zenon DEF Min
<1>6. Fresh(v) = Path(v, Min(free))
  BY DEF Fresh, c
<1>7. QED
  BY <1>5, <1>6

-----------------------------------------------------------------------------
(* Summaries and cells.                                                    *)

\* What a cell may be is never taken for one that is missing.
LEMMA NoneIsApart ==
  None \notin Int /\ None \notin Int \X Int /\ None \notin Cells /\ None \notin Summaries
BY BenchAssumption DEF BenchAssumption

-----------------------------------------------------------------------------
(* compare.py: the groups.                                                 *)

Groups == Seq([variant : ToSet(Variants), runs : Seq(Summaries)])

\* The groups of a set of summaries: one for each variant among them, with each summary
\* of the variant once.
GroupsOf(g, F) ==
  /\ g \in Groups
  /\ \A i, l \in 1 .. Len(g) : g[i].variant = g[l].variant => i = l
  /\ \A i \in 1 .. Len(g) :
       /\ Len(g[i].runs) > 0
       /\ \A s : s \in ToSet(g[i].runs) <=> s \in F /\ s.variant = g[i].variant
       /\ \A x, y \in 1 .. Len(g[i].runs) : g[i].runs[x] = g[i].runs[y] => x = y
  /\ \A s \in F : \E i \in 1 .. Len(g) : g[i].variant = s.variant

\* One more at the end of a sequence that does not hold it.
LEMMA AppendNew ==
  ASSUME NEW S, NEW q \in Seq(S), NEW e \in S, e \notin ToSet(q),
         \A x, y \in 1 .. Len(q) : q[x] = q[y] => x = y
  PROVE  /\ Append(q, e) \in Seq(S) /\ Len(Append(q, e)) = Len(q) + 1
         /\ ToSet(Append(q, e)) = ToSet(q) \cup {e}
         /\ \A x, y \in 1 .. Len(Append(q, e)) : Append(q, e)[x] = Append(q, e)[y] => x = y
<1> DEFINE a == Append(q, e)
<1>1. /\ a \in Seq(S) /\ Len(a) = Len(q) + 1 /\ Len(q) \in Nat
      /\ \A x \in 1 .. Len(q) : a[x] = q[x]
      /\ a[Len(q) + 1] = e
  OBVIOUS
<1> HIDE DEF a
<1>2. ToSet(q) = {q[x] : x \in 1 .. Len(q)} /\ ToSet(a) = {a[x] : x \in 1 .. Len(a)}
  BY <1>1 DEF ToSet
<1>3. \A x \in 1 .. Len(q) : a[x] # e
  BY <1>1, <1>2
<1>4. ToSet(a) = ToSet(q) \cup {e}
  BY <1>1, <1>2
<1>5. ASSUME NEW x \in 1 .. Len(a), NEW y \in 1 .. Len(a), a[x] = a[y] PROVE x = y
  <2>1. (x \in 1 .. Len(q) \/ x = Len(q) + 1) /\ (y \in 1 .. Len(q) \/ y = Len(q) + 1)
    BY <1>1
  <2>2. QED
    BY <1>1, <1>3, <1>5, <2>1
<1>6. QED
  BY <1>1, <1>4, <1>5 DEF a

\* No summary, no group.
LEMMA NoGroups == GroupsOf(<< >>, {})
BY DEF GroupsOf, Groups

\* A new summary goes to the group of its variant, or to a new one.
LEMMA AddToGroups ==
  ASSUME NEW g, NEW F \in SUBSET Summaries, GroupsOf(g, F), NEW s \in Summaries, s \notin F
  PROVE  GroupsOf(AddTo(g, s), F \cup {s})
<1> DEFINE at == {i \in DOMAIN g : g[i].variant = s.variant}
           n == Len(g)
<1>1. g \in Groups /\ n \in Nat /\ DOMAIN g = 1 .. n
  BY DEF GroupsOf, Groups
<1>2. s.variant \in ToSet(Variants)
  BY DEF Summaries
<1>3. ASSUME NEW i \in 1 .. n
      PROVE  g[i] \in [variant : ToSet(Variants), runs : Seq(Summaries)]
  <2> DEFINE R == [variant : ToSet(Variants), runs : Seq(Summaries)]
  <2>1. g \in Seq(R)
    BY <1>1 DEF Groups
  <2> HIDE DEF R
  <2>2. g[i] \in R
    BY <2>1
  <2>3. QED
    BY <2>2 DEF R
<1>4. CASE at = {}
  <2> DEFINE e == [variant |-> s.variant, runs |-> <<s>>]
             a == Append(g, e)
  <2>1. AddTo(g, s) = a
    BY <1>4 DEF AddTo
  <2>2. e \in [variant : ToSet(Variants), runs : Seq(Summaries)]
    BY <1>2
  <2>3. /\ a \in Groups /\ Len(a) = n + 1
        /\ \A i \in 1 .. n : a[i] = g[i]
        /\ a[n + 1] = e
    BY <1>1, <2>2 DEF Groups
  <2>4. \A i \in 1 .. n : g[i].variant # s.variant
    BY <1>1, <1>4
  <2>5. e.variant = s.variant /\ Len(e.runs) = 1 /\ e.runs[1] = s /\ ToSet(e.runs) = {s}
    BY DEF ToSet
  <2> HIDE DEF a, e, at
  <2>6. \A i \in 1 .. Len(a) : i \in 1 .. n \/ i = n + 1
    BY <1>1, <2>3
  <2>7. ASSUME NEW i \in 1 .. Len(a), NEW l \in 1 .. Len(a), a[i].variant = a[l].variant
        PROVE  i = l
    BY <2>3, <2>4, <2>5, <2>6, <2>7 DEF GroupsOf
  <2>8. ASSUME NEW i \in 1 .. Len(a)
        PROVE  /\ Len(a[i].runs) > 0
               /\ \A r : r \in ToSet(a[i].runs) <=> r \in F \cup {s} /\ r.variant = a[i].variant
               /\ \A x, y \in 1 .. Len(a[i].runs) : a[i].runs[x] = a[i].runs[y] => x = y
    <3>1. CASE i \in 1 .. n
      BY <2>3, <2>4, <3>1 DEF GroupsOf
    <3>2. CASE i = n + 1
      <4>1. \A r \in F : r.variant # s.variant
        BY <2>4 DEF GroupsOf
      <4>2. QED
        BY <2>3, <2>5, <3>2, <4>1
    <3>3. QED
      BY <2>6, <3>1, <3>2
  <2>9. ASSUME NEW r \in F \cup {s} PROVE \E i \in 1 .. Len(a) : a[i].variant = r.variant
    <3>1. CASE r = s
      <4>1. n + 1 \in 1 .. Len(a)
        BY <1>1, <2>3
      <4>2. QED
        BY <2>3, <2>5, <3>1, <4>1
    <3>2. CASE r \in F
      <4>1. PICK i \in 1 .. n : g[i].variant = r.variant
        BY <3>2 DEF GroupsOf
      <4>2. i \in 1 .. Len(a)
        BY <1>1, <2>3
      <4>3. QED
        BY <2>3, <4>1, <4>2
    <3>3. QED
      BY <3>1, <3>2
  <2>10. QED
    BY <2>1, <2>3, <2>7, <2>8, <2>9 DEF GroupsOf
<1>5. CASE at # {}
  <2>1. PICK m \in 1 .. n : g[m].variant = s.variant
    BY <1>1, <1>5
  <2>2. at = {m}
    BY <1>1, <2>1 DEF GroupsOf
  <2>3. Max(at) = m
    <3>1. \A x \in {m} : (\A y \in {m} : x >= y) => x = m
      OBVIOUS
    <3>2. m \in {m} /\ \A y \in {m} : m >= y
      BY <1>1
    <3>3. (CHOOSE x \in {m} : \A y \in {m} : x >= y) = m
      BY <3>1, <3>2
    <3>4. QED
      BY <2>2, <3>3, Zenon DEF Max
  <2> DEFINE q == Append(g[m].runs, s)
             a == [g EXCEPT ![m].runs = q]
  <2>4. AddTo(g, s) = a
    BY <1>5, <2>3 DEF AddTo
  <2>5. s \notin ToSet(g[m].runs)
    BY DEF GroupsOf
  <2>6. /\ q \in Seq(Summaries) /\ Len(q) = Len(g[m].runs) + 1
        /\ ToSet(q) = ToSet(g[m].runs) \cup {s}
        /\ \A x, y \in 1 .. Len(q) : q[x] = q[y] => x = y
    <3>1. g[m].runs \in Seq(Summaries)
      BY <1>3
    <3>2. \A x, y \in 1 .. Len(g[m].runs) : g[m].runs[x] = g[m].runs[y] => x = y
      BY DEF GroupsOf
    <3>3. QED
      BY <2>5, <3>1, <3>2, AppendNew
  <2>7. Len(q) > 0
    <3>1. g[m].runs \in Seq(Summaries)
      BY <1>3
    <3>2. QED
      BY <2>6, <3>1
  <2> HIDE DEF q
  <2>8. /\ a \in Groups /\ Len(a) = n
        /\ \A i \in 1 .. n : i # m => a[i] = g[i]
        /\ a[m].variant = g[m].variant /\ a[m].runs = q
    <3>1. a = [g EXCEPT ![m] = [g[m] EXCEPT !.runs = q]]
      OBVIOUS
    <3>2. [g[m] EXCEPT !.runs = q] = [variant |-> g[m].variant, runs |-> q]
      BY <1>3
    <3>3. [variant |-> g[m].variant, runs |-> q] \in [variant : ToSet(Variants), runs : Seq(Summaries)]
      BY <1>3, <2>6
    <3>4. QED
      BY <1>1, <3>1, <3>2, <3>3 DEF Groups
  <2> HIDE DEF a, at
  <2>9. \A i \in 1 .. n : a[i].variant = g[i].variant
    BY <2>8
  <2>10. ASSUME NEW i \in 1 .. n, NEW l \in 1 .. n, a[i].variant = a[l].variant
         PROVE  i = l
    BY <2>9, <2>10 DEF GroupsOf
  <2>11. ASSUME NEW i \in 1 .. n
         PROVE  /\ Len(a[i].runs) > 0
                /\ \A r : r \in ToSet(a[i].runs) <=> r \in F \cup {s} /\ r.variant = a[i].variant
                /\ \A x, y \in 1 .. Len(a[i].runs) : a[i].runs[x] = a[i].runs[y] => x = y
    <3>1. CASE i = m
      <4>1. \A r : r \in ToSet(g[m].runs) <=> r \in F /\ r.variant = g[m].variant
        BY DEF GroupsOf
      <4>2. QED
        BY <2>1, <2>6, <2>7, <2>8, <3>1, <4>1
    <3>2. CASE i # m
      <4>1. g[i].variant # s.variant
        BY <2>1, <3>2 DEF GroupsOf
      <4>2. QED
        BY <2>8, <3>2, <4>1 DEF GroupsOf
    <3>3. QED
      BY <3>1, <3>2
  <2>12. ASSUME NEW r \in F \cup {s} PROVE \E i \in 1 .. n : a[i].variant = r.variant
    BY <2>1, <2>9 DEF GroupsOf
  <2>13. QED
    BY <2>4, <2>8, <2>10, <2>11, <2>12 DEF GroupsOf
<1>6. QED
  BY <1>4, <1>5

\* The loop of `load` over directories whose summaries are different gives the groups of
\* the summaries that are there.
LEMMA LoadGroups ==
  ASSUME NEW disc, NEW d, NEW n \in Nat, Len(d) = n,
         \A j \in 1 .. n : disc[d[j]] \in Summaries \cup {None},
         \A i, j \in 1 .. n : disc[d[i]] = disc[d[j]] /\ disc[d[i]] # None => i = j
  PROVE  GroupsOf(load(d, disc), {disc[d[j]] : j \in 1 .. n} \ {None})
<1> DEFINE F(m) == {disc[d[j]] : j \in 1 .. m} \ {None}
           step(gs, j) == IF disc[d[j]] = None THEN gs ELSE AddTo(gs, disc[d[j]])
           Loop(f) == f = [j \in 0 .. n |-> IF j = 0 THEN << >> ELSE step(f[j - 1], j)]
           history == CHOOSE f : Loop(f)
           inv == [m \in 0 .. n |-> {gs \in Groups : GroupsOf(gs, F(m))}]
           body == [x \in (1 .. n) \X Groups |-> step(x[2], x[1])]
<1>1. load(d, disc) = history[n]
  BY DEF load
<1>2. ASSUME NEW j \in 1 .. n, NEW gs \in Groups, GroupsOf(gs, F(j - 1))
      PROVE  GroupsOf(step(gs, j), F(j))
  <2>1. F(j) = F(j - 1) \cup ({disc[d[j]]} \ {None})
    <3>1. \A i \in 1 .. j : i \in 1 .. j - 1 \/ i = j
      OBVIOUS
    <3>2. j \in 1 .. j /\ \A i \in 1 .. j - 1 : i \in 1 .. j
      OBVIOUS
    <3>3. QED
      BY <3>1, <3>2
  <2>2. CASE disc[d[j]] = None
    BY <1>2, <2>1, <2>2
  <2>3. CASE disc[d[j]] # None
    <3>1. disc[d[j]] \notin F(j - 1)
      <4>1. \A i \in 1 .. j - 1 : i \in 1 .. n /\ i # j
        OBVIOUS
      <4>2. QED
        BY <2>3, <4>1
    <3>2. F(j - 1) \in SUBSET Summaries /\ disc[d[j]] \in Summaries
      <4>1. \A i \in 1 .. j - 1 : i \in 1 .. n
        OBVIOUS
      <4>2. QED
        BY <2>3, <4>1
    <3>3. step(gs, j) = AddTo(gs, disc[d[j]]) /\ F(j) = F(j - 1) \cup {disc[d[j]]}
      BY <2>1, <2>3
    <3> HIDE DEF F, step
    <3>4. QED
      BY <1>2, <3>1, <3>2, <3>3, AddToGroups
  <2>4. QED
    BY <2>2, <2>3
<1>3. F(0) = {}
  OBVIOUS
<1> HIDE DEF F, step
<1>4. << >> \in inv[0]
  <2>1. GroupsOf(<< >>, F(0))
    BY <1>3, NoGroups
  <2>2. << >> \in Groups /\ 0 \in 0 .. n
    BY <2>1 DEF GroupsOf
  <2>3. QED
    BY <2>1, <2>2
<1>5. ASSUME NEW j \in 1 .. n, NEW gs \in inv[j - 1]
      PROVE  gs \in Groups /\ step(gs, j) \in inv[j]
  <2>1. j \in 0 .. n /\ j - 1 \in 0 .. n
    OBVIOUS
  <2>2. gs \in Groups /\ GroupsOf(gs, F(j - 1))
    BY <2>1
  <2>3. GroupsOf(step(gs, j), F(j))
    BY <1>2, <2>2
  <2>4. step(gs, j) \in Groups
    BY <2>3 DEF GroupsOf
  <2>5. QED
    BY <2>1, <2>2, <2>3, <2>4
<1>6. \A j \in 1 .. n : \A gs \in inv[j - 1] : body[<<j, gs>>] = step(gs, j)
  BY <1>5
<1>7. \A m \in 0 .. n : inv[m] = {gs \in Groups : GroupsOf(gs, F(m))}
  OBVIOUS
<1> HIDE DEF inv, body
<1>8. Keeps(inv, n, body)
  BY <1>5, <1>6 DEF Keeps
<1>9. PICK f : f = [j \in 0 .. n |-> f[j]] /\ IsRun(f, n, << >>, body) /\ Within(f, n, inv)
  BY <1>4, <1>8, LoopRuns
<1>10. Loop(f)
  <2>1. \A j \in 0 .. n : j = 0 \/ (j \in 1 .. n /\ j - 1 \in 0 .. n)
    OBVIOUS
  <2>2. \A j \in 0 .. n : f[j] = IF j = 0 THEN << >> ELSE step(f[j - 1], j)
    BY <1>6, <1>9, <2>1 DEF IsRun, Within
  <2>3. QED
    BY <1>9, <2>2
<1>11. Loop(history)
  <2> HIDE DEF Loop
  <2>1. QED
    BY <1>10
<1>12. history[0] = << >> /\ \A j \in 1 .. n : history[j] = step(history[j - 1], j)
  <2> HIDE DEF history
  <2>1. 0 \in 0 .. n /\ \A j \in 1 .. n : j \in 0 .. n /\ j # 0
    OBVIOUS
  <2>2. QED
    BY <1>11, <2>1, Zenon
<1> HIDE DEF history, Loop
<1>13. Steps(history, n, inv)
  BY <1>5, <1>12 DEF Steps
<1>14. history[n] \in inv[n]
  BY <1>4, <1>12, <1>13, LoopKeeps DEF Within
<1>15. GroupsOf(history[n], F(n))
  BY <1>7, <1>14
<1>16. QED
  BY <1>1, <1>15 DEF F

-----------------------------------------------------------------------------
(* compare.py: the median and the range.                                   *)

\* s lists the figures of the summaries of M, each once, in increasing order.
Lists(s, M, c, b) ==
  /\ c \in Nat /\ Len(s) = c
  /\ b \in [1 .. c -> M]
  /\ \A i, j \in 1 .. c : b[i] = b[j] => i = j
  /\ \A r \in M : \E i \in 1 .. c : b[i] = r
  /\ \A i \in 1 .. c : s[i] = b[i].figure /\ s[i] \in Int
  /\ \A i, j \in 1 .. c : i < j => s[i] <= s[j]

\* sorted keeps each figure, in order.
LEMMA SortedOrders ==
  ASSUME NEW n \in Nat, NEW values \in [1 .. n -> Int \cup {None}],
         NEW kept, kept = {i \in 1 .. n : values[i] # None}
  PROVE  /\ Cardinality(kept) \in Nat /\ Len(sorted(values)) = Cardinality(kept)
         /\ \E p \in Bijection(1 .. Cardinality(kept), kept) :
              /\ \A i \in 1 .. Cardinality(kept) : sorted(values)[i] = values[p[i]]
              /\ InOrder(p, Cardinality(kept), values)
<1> DEFINE c == Cardinality(kept)
           Good(p) == \A i, j \in 1 .. c : i < j => values[p[i]] <= values[p[j]]
           pick == CHOOSE p \in Bijection(1 .. c, kept) : Good(p)
<1>1. IsFiniteSet(kept)
  <2>1. kept \in SUBSET (1 .. n) /\ IsFiniteSet(1 .. n)
    BY FS_Interval
  <2>2. QED
    BY <2>1, FS_Subset
<1>2. c \in Nat
  BY <1>1, FS_CardinalityType
<1> DEFINE v == [i \in kept |-> values[i]]
<1>3. v \in [kept -> Int]
  OBVIOUS
<1>4. \A i \in kept : v[i] = values[i]
  OBVIOUS
<1> HIDE DEF c, v
<1>5. PICK q \in Bijection(1 .. c, kept) : InOrder(q, c, v)
  BY <1>1, <1>3, OrderExists DEF c
<1>6. Good(q)
  <2>1. q \in [1 .. c -> kept]
    BY DEF Bijection, Injection
  <2>2. QED
    BY <1>4, <1>5, <2>1 DEF InOrder
<1>7. pick \in Bijection(1 .. c, kept) /\ Good(pick)
  <2> HIDE DEF Good
  <2>1. QED
    BY <1>6
<1>8. DOMAIN values = 1 .. n
  OBVIOUS
<1>9. sorted(values) = [i \in 1 .. c |-> values[pick[i]]]
  BY <1>8 DEF sorted, c
<1> HIDE DEF pick
<1>10. Len(sorted(values)) = c
  BY <1>2, <1>9
<1>11. \A i \in 1 .. c : sorted(values)[i] = values[pick[i]]
  BY <1>9
<1>12. InOrder(pick, c, values)
  BY <1>7 DEF InOrder
<1>13. QED
  BY <1>2, <1>7, <1>10, <1>11, <1>12 DEF c

\* The figures of a row, each of one summary.
LEMMA RowFigures ==
  ASSUME NEW q \in Seq(Summaries), \A x, y \in 1 .. Len(q) : q[x] = q[y] => x = y
  PROVE  \E c, b : Lists(sorted([i \in DOMAIN q |-> q[i].figure]),
                         {r \in ToSet(q) : r.figure # None}, c, b)
<1> DEFINE n == Len(q)
           values == [i \in DOMAIN q |-> q[i].figure]
           kept == {i \in 1 .. n : values[i] # None}
           c == Cardinality(kept)
           s == sorted(values)
           M == {r \in ToSet(q) : r.figure # None}
<1>1. n \in Nat /\ DOMAIN q = 1 .. n /\ \A i \in 1 .. n : q[i] \in Summaries
  OBVIOUS
<1>2. \A i \in 1 .. n : values[i] = q[i].figure /\ q[i].figure \in Int \cup {None}
  BY <1>1 DEF Summaries
<1>3. values \in [1 .. n -> Int \cup {None}]
  BY <1>1, <1>2
<1>4. \A r : r \in M <=> \E i \in kept : q[i] = r
  BY <1>1, <1>2 DEF ToSet
<1>5. /\ c \in Nat /\ Len(s) = c
      /\ \E p \in Bijection(1 .. c, kept) : /\ \A i \in 1 .. c : s[i] = values[p[i]]
                                            /\ InOrder(p, c, values)
  <2> HIDE DEF values
  <2>1. QED
    BY <1>1, <1>3, SortedOrders
<1>6. PICK p \in Bijection(1 .. c, kept) : /\ \A i \in 1 .. c : s[i] = values[p[i]]
                                          /\ InOrder(p, c, values)
  BY <1>5
<1>7. \A i \in kept : i \in 1 .. n /\ values[i] # None
  OBVIOUS
<1> HIDE DEF c, s, M, kept, values, n
<1>8. /\ p \in [1 .. c -> kept]
      /\ \A i, j \in 1 .. c : p[i] = p[j] => i = j
      /\ \A y \in kept : \E i \in 1 .. c : p[i] = y
  BY DEF Bijection, Injection, Surjection, IsInjective
<1> DEFINE b == [i \in 1 .. c |-> q[p[i]]]
<1>9. \A i \in 1 .. c : b[i] = q[p[i]] /\ p[i] \in kept
  BY <1>8
<1>10. b \in [1 .. c -> M]
  BY <1>4, <1>8
<1> HIDE DEF b
<1>11. \A i, j \in 1 .. c : b[i] = b[j] => i = j
  BY <1>7, <1>8, <1>9 DEF n
<1>12. \A r \in M : \E i \in 1 .. c : b[i] = r
  BY <1>4, <1>8, <1>9
<1>13. \A i \in 1 .. c : s[i] = b[i].figure /\ s[i] \in Int
  BY <1>2, <1>6, <1>7, <1>9
<1>14. \A i, j \in 1 .. c : i < j => s[i] <= s[j]
  BY <1>6 DEF InOrder
<1>15. Lists(s, M, c, b)
  BY <1>5, <1>10, <1>11, <1>12, <1>13, <1>14 DEF Lists
<1>16. QED
  BY <1>15 DEF s, M, values

\* The middle of c numbers, for odd and even c.
LEMMA Middle ==
  ASSUME NEW c \in Nat, 0 < c
  PROVE  LET h == (c + 1) \div 2
             l == (c \div 2) + 1
         IN  /\ h \in 1 .. c /\ l \in 1 .. c /\ h <= l
             /\ 2 * h >= c /\ 2 * (c - l + 1) >= c
OBVIOUS

\* No less than half of the c figures of M are at most m / 2, and no less than half at
\* least; all are from lo to hi.
Halves(M, c, m, lo, hi) ==
  /\ Cardinality(M) = c
  /\ m \in Int
  /\ 2 * Cardinality({r \in M : 2 * r.figure <= m}) >= c
  /\ 2 * Cardinality({r \in M : 2 * r.figure >= m}) >= c
  /\ \A r \in M : r.figure \in lo .. hi
  /\ lo = hi => \A r \in M : 2 * r.figure = m

\* The median halves the figures.
LEMMA MedianSplits ==
  ASSUME NEW s, NEW M, NEW c, NEW b, Lists(s, M, c, b), 0 < c
  PROVE  Halves(M, c, Median2(s), s[1], s[c])
<1> DEFINE h == (c + 1) \div 2
           l == (c \div 2) + 1
           m == Median2(s)
           Lower == {r \in M : 2 * r.figure <= m}
           Upper == {r \in M : 2 * r.figure >= m}
<1>1. /\ c \in Nat /\ Len(s) = c
      /\ b \in [1 .. c -> M]
      /\ \A i, j \in 1 .. c : b[i] = b[j] => i = j
      /\ \A r \in M : \E i \in 1 .. c : b[i] = r
      /\ \A i \in 1 .. c : s[i] = b[i].figure /\ s[i] \in Int
      /\ \A i, j \in 1 .. c : i < j => s[i] <= s[j]
  BY DEF Lists
<1>2. h \in 1 .. c /\ l \in 1 .. c /\ h <= l /\ 2 * h >= c /\ 2 * (c - l + 1) >= c
  BY <1>1, Middle
<1>3. m = s[h] + s[l]
  BY <1>1 DEF Median2
<1> HIDE DEF h, l, m
<1>4. IsFiniteSet(M) /\ Cardinality(M) = c
  <2>1. IsFiniteSet(1 .. c) /\ Cardinality(1 .. c) = c
    <3>1. 1 \in Int /\ c \in Int /\ ~(1 > c) /\ c - 1 + 1 = c
      BY <1>1
    <3>2. QED
      BY ONLY <3>1, FS_Interval
  <2>2. b \in Bijection(1 .. c, M)
    BY <1>1 DEF Bijection, Injection, Surjection, IsInjective
  <2>3. ExistsBijection(1 .. c, M)
    BY <2>2 DEF ExistsBijection
  <2>4. QED
    BY <2>1, <2>3, FS_Bijection
<1>5. s[h] \in Int /\ s[l] \in Int /\ s[h] <= s[l] /\ m \in Int
  <2>1. s[h] \in Int /\ s[l] \in Int
    BY <1>1, <1>2
  <2>2. h = l \/ h < l
    BY <1>2
  <2>3. QED
    BY <1>1, <1>2, <1>3, <2>1, <2>2
<1>6. \A i \in 1 .. h : i \in 1 .. c /\ b[i] \in Lower
  <2> SUFFICES ASSUME NEW i \in 1 .. h PROVE i \in 1 .. c /\ b[i] \in Lower
    OBVIOUS
  <2>1. i \in 1 .. c /\ (i = h \/ i < h)
    BY <1>1, <1>2
  <2>2. s[i] \in Int /\ s[i] <= s[h]
    BY <1>1, <1>2, <1>5, <2>1
  <2>3. 2 * s[i] <= m
    BY <1>3, <1>5, <2>2
  <2>4. QED
    BY <1>1, <2>1, <2>3
<1>7. \A i \in l .. c : i \in 1 .. c /\ b[i] \in Upper
  <2> SUFFICES ASSUME NEW i \in l .. c PROVE i \in 1 .. c /\ b[i] \in Upper
    OBVIOUS
  <2>1. i \in 1 .. c /\ (i = l \/ l < i)
    BY <1>1, <1>2
  <2>2. s[i] \in Int /\ s[l] <= s[i]
    BY <1>1, <1>2, <1>5, <2>1
  <2>3. 2 * s[i] >= m
    BY <1>3, <1>5, <2>2
  <2>4. QED
    BY <1>1, <2>1, <2>3
<1>8. Lower \in SUBSET M /\ Upper \in SUBSET M
  OBVIOUS
<1> HIDE DEF Lower, Upper
<1>9. IsFiniteSet(Lower) /\ IsFiniteSet(Upper)
  BY <1>4, <1>8, FS_Subset
<1>10. h <= Cardinality(Lower)
  <2>1. Cardinality(1 .. h) = h
    <3>1. 1 \in Int /\ h \in Int /\ ~(1 > h) /\ h - 1 + 1 = h
      BY <1>2
    <3>2. QED
      BY ONLY <3>1, FS_Interval
  <2> DEFINE f == [i \in 1 .. h |-> b[i]]
  <2>2. f \in Injection(1 .. h, Lower)
    BY <1>1, <1>6 DEF Injection, IsInjective
  <2> HIDE DEF f
  <2>3. QED
    BY <1>9, <2>1, <2>2, FS_Injection
<1>11. c - l + 1 <= Cardinality(Upper)
  <2>1. Cardinality(l .. c) = c - l + 1
    <3>1. l \in Int /\ c \in Int /\ ~(l > c)
      BY <1>1, <1>2
    <3>2. QED
      BY ONLY <3>1, FS_Interval
  <2> DEFINE f == [i \in l .. c |-> b[i]]
  <2>2. f \in Injection(l .. c, Upper)
    BY <1>1, <1>7 DEF Injection, IsInjective
  <2> HIDE DEF f
  <2>3. QED
    BY <1>9, <2>1, <2>2, FS_Injection
<1>12. Cardinality(Lower) \in Nat /\ Cardinality(Upper) \in Nat
  BY <1>9, FS_CardinalityType
<1>13. 2 * Cardinality(Lower) >= c /\ 2 * Cardinality(Upper) >= c
  BY <1>1, <1>2, <1>10, <1>11, <1>12
<1>14. ASSUME NEW r \in M PROVE r.figure \in s[1] .. s[c]
  <2>1. PICK i \in 1 .. c : b[i] = r
    BY <1>1
  <2>2. 1 \in 1 .. c /\ c \in 1 .. c /\ (i = 1 \/ 1 < i) /\ (i = c \/ i < c)
    BY <1>1
  <2>3. s[i] \in Int /\ s[1] \in Int /\ s[c] \in Int /\ s[1] <= s[i] /\ s[i] <= s[c]
    BY <1>1, <2>2
  <2>4. QED
    BY <1>1, <2>1, <2>3
<1>15. ASSUME s[1] = s[c], NEW r \in M PROVE 2 * r.figure = m
  <2>1. ASSUME NEW i \in 1 .. c PROVE s[i] = s[1]
    <3>1. 1 \in 1 .. c /\ c \in 1 .. c /\ (i = 1 \/ 1 < i) /\ (i = c \/ i < c)
      BY <1>1
    <3>2. s[i] \in Int /\ s[1] \in Int /\ s[1] <= s[i] /\ s[i] <= s[1]
      BY <1>1, <1>15, <3>1
    <3>3. QED
      BY <3>2
  <2>2. s[h] = s[1] /\ s[l] = s[1] /\ s[1] \in Int
    BY <1>1, <1>2, <2>1
  <2>3. PICK i \in 1 .. c : b[i] = r
    BY <1>1
  <2>4. r.figure = s[1]
    BY <1>1, <2>1, <2>3
  <2>5. QED
    BY <1>3, <2>2, <2>4
<1>16. QED
  BY <1>4, <1>5, <1>13, <1>14, <1>15 DEF m, Lower, Upper, Halves

-----------------------------------------------------------------------------
(* compare.py: the rows of the table.                                      *)

\* The properties of the table, of a row each.
CountsExactly(row, mine) ==
  /\ row.runs = Cardinality(mine)
  /\ "OOM kill" \in row.stops <=> \E s \in mine : s.oom_killed
  /\ "still up" \in row.stops <=> \E s \in mine : s.stop_reason = "plateau" /\ ~s.oom_killed

Central(cell, mine) ==
  /\ cell = None <=> mine = {}
  /\ cell # None =>
       /\ 2 * Cardinality({s \in mine : 2 * s.figure <= cell.mid}) >= Cardinality(mine)
       /\ 2 * Cardinality({s \in mine : 2 * s.figure >= cell.mid}) >= Cardinality(mine)
       /\ \A s \in mine : IF cell.range = None THEN 2 * s.figure = cell.mid
                          ELSE s.figure \in cell.range[1] .. cell.range[2]

\* The labels of a run.
LEMMA Labels ==
  ASSUME NEW r \in Summaries
  PROVE  /\ stop_label(r) = "OOM kill" <=> r.oom_killed
         /\ stop_label(r) = "still up" <=> r.stop_reason = "plateau" /\ ~r.oom_killed
<1>1. r.oom_killed \in BOOLEAN /\ r.stop_reason \in Reasons
  BY DEF Summaries
<1>2. QED
  BY <1>1 DEF stop_label, Reasons

\* A row has as many runs as there are summaries, and the labels of those.
LEMMA RowCounts ==
  ASSUME NEW grp, NEW mine, grp.runs \in Seq(Summaries), ToSet(grp.runs) = mine,
         \A x, y \in 1 .. Len(grp.runs) : grp.runs[x] = grp.runs[y] => x = y
  PROVE  CountsExactly(Row(grp), mine)
<1> DEFINE q == grp.runs
           n == Len(q)
           row == Row(grp)
<1>1. row.runs = n /\ row.stops = {stop_label(r) : r \in mine}
  BY DEF Row
<1>2. n \in Nat /\ DOMAIN q = 1 .. n /\ \A i \in 1 .. n : q[i] \in Summaries
  OBVIOUS
<1> HIDE DEF row
<1>3. mine = {q[i] : i \in 1 .. n}
  BY <1>2 DEF ToSet
<1>4. n = Cardinality(mine)
  <2>1. IsFiniteSet(1 .. n) /\ Cardinality(1 .. n) = n
    <3>1. 1 \in Int /\ n \in Int /\ (1 > n => n = 0) /\ n - 1 + 1 = n
      BY <1>2
    <3>2. IsFiniteSet(1 .. n) /\ Cardinality(1 .. n) = IF 1 > n THEN 0 ELSE n - 1 + 1
      BY ONLY <3>1, FS_Interval
    <3>3. QED
      BY <3>1, <3>2
  <2> DEFINE f == [i \in 1 .. n |-> q[i]]
  <2>2. f \in Bijection(1 .. n, mine)
    BY <1>3 DEF Bijection, Injection, Surjection, IsInjective
  <2>3. ExistsBijection(1 .. n, mine)
    BY <2>2 DEF ExistsBijection
  <2>4. QED
    BY <2>1, <2>3, FS_Bijection
<1>5. \A r \in mine : r \in Summaries
  BY <1>2, <1>3
<1>6. "OOM kill" \in row.stops <=> \E s \in mine : s.oom_killed
  BY <1>1, <1>5, Labels
<1>7. "still up" \in row.stops <=> \E s \in mine : s.stop_reason = "plateau" /\ ~s.oom_killed
  BY <1>1, <1>5, Labels
<1>8. QED
  BY <1>1, <1>4, <1>6, <1>7 DEF CountsExactly, row

\* The cell of a row is in the middle of its figures.
LEMMA RowIsCentral ==
  ASSUME NEW grp, NEW mine, grp.runs \in Seq(Summaries),
         mine = {r \in ToSet(grp.runs) : r.figure # None},
         \A x, y \in 1 .. Len(grp.runs) : grp.runs[x] = grp.runs[y] => x = y
  PROVE  Central(Row(grp).figure, mine)
<1> DEFINE values == [i \in DOMAIN grp.runs |-> grp.runs[i].figure]
           s == sorted(values)
           cell == Row(grp).figure
<1>1. cell = stat(values)
  BY DEF Row
<1>2. PICK c, b : Lists(s, mine, c, b)
  BY RowFigures
<1> HIDE DEF cell, values
<1>3. cell = IF c = 0 THEN None
             ELSE [mid |-> Median2(s), range |-> IF s[1] = s[c] THEN None ELSE <<s[1], s[c]>>]
  BY <1>1, <1>2 DEF stat, Lists
<1> HIDE DEF s
<1>4. c \in Nat /\ b \in [1 .. c -> mine] /\ \A r \in mine : \E i \in 1 .. c : b[i] = r
  BY <1>2 DEF Lists
<1>5. CASE c = 0
  <2>1. cell = None /\ mine = {}
    BY <1>3, <1>4, <1>5
  <2>2. QED
    BY <2>1 DEF Central, cell
<1>6. CASE c # 0
  <2>0. 0 < c
    BY <1>4, <1>6
  <2>1. Halves(mine, c, Median2(s), s[1], s[c])
    BY <1>2, <2>0, MedianSplits
  <2>2. s[1] \in Int /\ s[c] \in Int
    BY <1>2, <1>4, <1>6 DEF Lists
  <2> DEFINE range == IF s[1] = s[c] THEN None ELSE <<s[1], s[c]>>
  <2>3. cell = [mid |-> Median2(s), range |-> range]
    BY <1>3, <1>6
  <2>4. range \in (Int \X Int) \cup {None}
    BY <2>2
  <2>5. s[1] # s[c] => range # None /\ range[1] = s[1] /\ range[2] = s[c]
    BY <2>2, NoneIsApart
  <2>6. s[1] = s[c] => range = None
    OBVIOUS
  <2> HIDE DEF range
  <2>7. cell \in Cells /\ cell.mid = Median2(s) /\ cell.range = range
    BY <2>1, <2>3, <2>4 DEF Cells, Halves
  <2>8. cell # None
    BY <2>7, NoneIsApart
  <2>9. mine # {}
    BY <1>4, <1>6
  <2>10. \A r \in mine : IF cell.range = None THEN 2 * r.figure = cell.mid
                         ELSE r.figure \in cell.range[1] .. cell.range[2]
    BY <2>1, <2>5, <2>6, <2>7 DEF Halves
  <2>11. QED
    BY <2>1, <2>7, <2>8, <2>9, <2>10 DEF Central, Halves, cell
<1>7. QED
  BY <1>5, <1>6

\* A table of the summaries in F: a row for each variant, with its counts and figures.
IsTableOf(rows, F) ==
  /\ {rows[i].variant : i \in DOMAIN rows} = {s.variant : s \in F}
  /\ \A i \in DOMAIN rows :
       /\ CountsExactly(rows[i], {s \in F : s.variant = rows[i].variant})
       /\ Central(rows[i].figure, {s \in F : s.variant = rows[i].variant /\ s.figure # None})

\* The table of directories whose summaries are different has a row for each variant.
LEMMA TableIsRight ==
  ASSUME NEW disc, NEW d, NEW n \in Nat, Len(d) = n,
         \A j \in 1 .. n : disc[d[j]] \in Summaries \cup {None},
         \A i, j \in 1 .. n : disc[d[i]] = disc[d[j]] /\ disc[d[i]] # None => i = j,
         NEW F, F = {disc[d[j]] : j \in 1 .. n} \ {None},
         NEW rows, rows = main(d, disc)
  PROVE  IsTableOf(rows, F)
<1> DEFINE g == load(d, disc)
<1>1. GroupsOf(g, F)
  BY LoadGroups
<1>2. rows = [i \in DOMAIN g |-> Row(g[i])]
  BY DEF main
<1> HIDE DEF g
<1>3. DOMAIN g = 1 .. Len(g) /\ \A i \in 1 .. Len(g) : g[i].runs \in Seq(Summaries)
  <2> DEFINE R == [variant : ToSet(Variants), runs : Seq(Summaries)]
  <2>1. g \in Seq(R)
    BY <1>1 DEF GroupsOf, Groups
  <2>2. \A e \in R : e.runs \in Seq(Summaries)
    OBVIOUS
  <2> HIDE DEF R
  <2>3. \A i \in 1 .. Len(g) : g[i] \in R
    BY <2>1
  <2>4. QED
    BY <2>1, <2>2, <2>3
<1>4. DOMAIN rows = 1 .. Len(g) /\ \A i \in 1 .. Len(g) : rows[i] = Row(g[i])
  BY <1>2, <1>3
<1>5. \A i \in 1 .. Len(g) : rows[i].variant = g[i].variant
  <2>1. ASSUME NEW i \in 1 .. Len(g) PROVE Row(g[i]).variant = g[i].variant
    BY DEF Row
  <2>2. QED
    BY <1>4, <2>1, Zenon
<1>6. {rows[i].variant : i \in DOMAIN rows} = {s.variant : s \in F}
  <2>1. ASSUME NEW i \in 1 .. Len(g) PROVE \E s \in F : s.variant = g[i].variant
    <3>1. g[i].runs \in Seq(Summaries) /\ Len(g[i].runs) > 0
      BY <1>1, <1>3 DEF GroupsOf
    <3>2. g[i].runs[1] \in ToSet(g[i].runs)
      BY <3>1 DEF ToSet
    <3>3. \A s : s \in ToSet(g[i].runs) => s \in F /\ s.variant = g[i].variant
      BY <1>1 DEF GroupsOf
    <3>4. QED
      BY <3>2, <3>3
  <2>2. \A s \in F : \E i \in 1 .. Len(g) : g[i].variant = s.variant
    BY <1>1 DEF GroupsOf
  <2>3. ASSUME NEW i \in DOMAIN rows PROVE rows[i].variant \in {s.variant : s \in F}
    BY <1>4, <1>5, <2>1
  <2>4. ASSUME NEW s \in F PROVE s.variant \in {rows[i].variant : i \in DOMAIN rows}
    BY <1>4, <1>5, <2>2
  <2>5. QED
    BY <2>3, <2>4
<1>7. ASSUME NEW i \in 1 .. Len(g)
      PROVE  /\ CountsExactly(rows[i], {s \in F : s.variant = rows[i].variant})
             /\ Central(rows[i].figure,
                        {s \in F : s.variant = rows[i].variant /\ s.figure # None})
  <2> DEFINE q == g[i].runs
             mine == {s \in F : s.variant = rows[i].variant}
  <2>1. /\ q \in Seq(Summaries)
        /\ \A x, y \in 1 .. Len(q) : q[x] = q[y] => x = y
        /\ \A s : s \in ToSet(q) <=> s \in F /\ s.variant = g[i].variant
    BY <1>1, <1>3 DEF GroupsOf
  <2>2. ToSet(q) = mine
    BY <1>5, <2>1
  <2>3. {s \in F : s.variant = rows[i].variant /\ s.figure # None}
          = {r \in ToSet(q) : r.figure # None}
    BY <2>2
  <2>4. rows[i] = Row(g[i])
    BY <1>4
  <2>5. CountsExactly(Row(g[i]), ToSet(q))
    BY <2>1, RowCounts
  <2>6. Central(Row(g[i]).figure, {r \in ToSet(q) : r.figure # None})
    BY <2>1, RowIsCentral
  <2>7. QED
    BY <2>2, <2>3, <2>4, <2>5, <2>6
<1>8. QED
  BY <1>4, <1>6, <1>7 DEF IsTableOf

-----------------------------------------------------------------------------
(* The invariant.                                                          *)

Total == Repeats * Len(Variants)
Running == {"mkdir", "sweep", "up", "idle", "load", "record", "down"}

\* The scripts: a run that is not over is one of those of the matrix, and the directories
\* noted so far exist.
Counted == /\ pc \in Running \cup {"table", "done", "aborted"}
           /\ k \in Nat /\ k <= Total /\ (pc \in Running => k < Total)
           /\ matrices \in 1 .. MaxMatrices
           /\ dirs \in Seq(DOMAIN disk) /\ Len(dirs) = k
           /\ out = None \/ out \in DOMAIN disk

\* A run owns its directory from the time it makes it until its summary is written.
Owns == /\ IsFiniteSet(DOMAIN disk)
        /\ \A p \in DOMAIN disk : disk[p] \in Summaries \cup {None}
        /\ pc \in {"sweep", "up", "idle", "load", "record", "down"} => out \in DOMAIN disk
        /\ pc \in {"sweep", "up", "idle", "load", "record"} => disk[out] = None

\* One of the two `down`s before a run has worked.
Clean == swept \/ (k > 0 /\ ~keep)

\* The containers: none between two runs without KEEP=1, and from a `down` that worked to
\* the `up` after it; then the server only.
Stacked == /\ stack \in Stacks /\ keep \in BOOLEAN /\ swept \in BOOLEAN
           /\ pc \in {"mkdir", "sweep"} /\ k > 0 /\ ~keep => stack = NoStack
           /\ pc = "up" /\ Clean => stack = NoStack
           /\ pc = "idle" /\ Clean => stack = [server |-> Variant, loaded |-> FALSE]

\* The run and its surroundings.
Ran == Counted /\ Owns /\ Stacked

\* The summaries of this matrix are in the directories that it has noted and in that of
\* the run that is about to end; each has the number of its run.
Collected == ({disk[dirs[i]] : i \in 1 .. k} \cup (IF pc = "down" THEN {disk[out]} ELSE {})) \ {None}

Tabled == /\ pc \in {"sweep", "up", "idle", "load", "record"} => \A i \in 1 .. k : dirs[i] # out
          /\ \A i \in 1 .. k : disk[dirs[i]] = None \/ disk[dirs[i]].run = <<matrices, i - 1>>
          /\ pc = "down" => disk[out] = None \/ disk[out].run = <<matrices, k>>
          /\ pc # "aborted" => finished = Collected
          /\ pc = "done" => table = main(dirs, disk)

BInv == Ran /\ Tabled

\* There is at least one run.
LEMMA TotalIsPositive == Total \in Nat /\ 0 < Total
<1>1. ASSUME NEW a \in Nat \ {0}, NEW b \in Nat \ {0} PROVE a * b \in Nat /\ 0 < a * b
  OBVIOUS
<1>2. QED
  BY <1>1, Bounds DEF Total

\* A sequence of directories stays one when there are more of them.
LEMMA StillDirs ==
  ASSUME NEW D, NEW E, D \subseteq E, NEW s \in Seq(D)
  PROVE  s \in Seq(E)
OBVIOUS

\* A new directory, and all others as they were.
LEMMA NewDir ==
  ASSUME Ran, MakeDir
  PROVE  /\ out' \notin DOMAIN disk /\ DOMAIN disk' = DOMAIN disk \cup {out'}
         /\ disk'[out'] = None /\ \A p \in DOMAIN disk : disk'[p] = disk[p]
         /\ IsFiniteSet(DOMAIN disk')
<1>1. /\ out' = Fresh(Variant)
      /\ disk' = [p \in DOMAIN disk \cup {out'} |-> IF p = out' THEN None ELSE disk[p]]
  BY DEF MakeDir
<1>2. Variant \in Seq(Words \cup Nat)
  BY VariantIsOne DEF Ran, Counted
<1>3. out' \notin DOMAIN disk
  BY <1>1, <1>2, FreshIsNew DEF Ran, Owns
<1>4. DOMAIN disk' = DOMAIN disk \cup {out'}
  BY <1>1
<1>5. disk'[out'] = None /\ \A p \in DOMAIN disk : disk'[p] = disk[p]
  BY <1>1, <1>3
<1>6. IsFiniteSet(DOMAIN disk')
  BY <1>4, FS_AddElement DEF Ran, Owns
<1>7. QED
  BY <1>3, <1>4, <1>5, <1>6

\* An empty machine satisfies the invariant.
LEMMA InitRan == Init => Ran
<1> SUFFICES ASSUME Init PROVE Ran
  OBVIOUS
<1>1. DOMAIN disk = {} /\ dirs = << >>
  BY DEF Init
<1>2. dirs \in Seq(DOMAIN disk) /\ Len(dirs) = 0
  BY <1>1
<1>3. Counted
  BY <1>2, TotalIsPositive, Bounds DEF Init, Counted, Running
<1>4. Owns
  BY <1>1, FS_EmptySet DEF Init, Owns
<1>5. Stacked
  BY DEF Init, Stacked, Stacks, NoStack
<1>6. QED
  BY <1>3, <1>4, <1>5 DEF Ran

\* What a run records is a summary.
LEMMA SummaryIsOne ==
  ASSUME Counted, NEW o \in Outcomes
  PROVE  Summary(o) \in Summaries /\ Summary(o).run = <<matrices, k>> /\ Summary(o) # None
<1>1. o \in [stop_reason : Reasons, oom_killed : BOOLEAN, figure : Int \cup {None}]
  BY BenchAssumption DEF BenchAssumption
<1>2. Variant \in ToSet(Variants) /\ k \in Nat /\ matrices \in Nat
  BY VariantIsOne DEF Counted
<1>3. Summary(o) \in Summaries /\ Summary(o).run = <<matrices, k>>
  BY <1>1, <1>2 DEF Summary, Summaries
<1>4. QED
  BY <1>3, NoneIsApart

\* The steps of a run keep it.
LEMMA RunKeeps ==
  ASSUME Ran, run
  PROVE  Ran'
<1> USE DEF Ran
<1>1. CASE MakeDir
  <2>1. UNCHANGED <<stack, keep, k, dirs, matrices, swept>> /\ pc = "mkdir" /\ pc' = "sweep"
    BY <1>1 DEF MakeDir
  <2>2. dirs \in Seq(DOMAIN disk')
    BY <1>1, NewDir, StillDirs DEF Counted
  <2>3. Counted'
    BY <1>1, <2>1, <2>2, NewDir DEF Counted, Running
  <2>4. Owns'
    BY <1>1, <2>1, NewDir DEF Owns
  <2>5. Stacked'
    BY <2>1 DEF Stacked, Stacks
  <2>6. QED
    BY <2>3, <2>4, <2>5
<1>2. CASE Sweep
  <2>1. /\ UNCHANGED <<disk, keep, k, out, dirs, matrices>> /\ pc = "sweep" /\ pc' = "up"
        /\ \/ stack' = NoStack /\ swept' = TRUE
           \/ stack' \in Remains /\ swept' = FALSE
    BY <1>2 DEF Sweep
  <2>2. Counted' /\ Owns'
    BY <2>1 DEF Counted, Running, Owns
  <2>3. ASSUME NEW s \in Remains PROVE s \in Stacks /\ (stack = NoStack => s = NoStack)
    BY <2>3 DEF Remains, Stacks, NoStack
  <2>4. NoStack \in Stacks
    BY DEF NoStack, Stacks
  <2>5. Stacked'
    BY <2>1, <2>3, <2>4 DEF Stacked, Clean
  <2>6. QED
    BY <2>2, <2>5
<1>3. CASE Up
  <2>1. UNCHANGED <<disk, keep, k, out, dirs, matrices, swept>> /\ pc = "up" /\ pc' = "idle"
        /\ stack' = [stack EXCEPT !.server = Variant]
    BY <1>3 DEF Up
  <2>2. Variant \in ToSet(Variants) /\ Variant' = Variant
    BY <2>1, VariantIsOne DEF Counted, Variant
  <2>3. Counted' /\ Owns'
    BY <2>1 DEF Counted, Running, Owns
  <2>4. stack' \in Stacks
    BY <2>1, <2>2 DEF Stacked, Stacks
  <2>5. stack = NoStack => stack' = [server |-> Variant, loaded |-> FALSE]
    <3> SUFFICES ASSUME stack = NoStack PROVE stack' = [server |-> Variant, loaded |-> FALSE]
      OBVIOUS
    <3>1. stack'.server = Variant /\ stack'.loaded = stack.loaded /\ stack.loaded = FALSE
      BY <2>1 DEF Stacked, Stacks, NoStack
    <3>2. QED
      BY <2>4, <3>1 DEF Stacks
  <2>6. Stacked'
    BY <2>1, <2>2, <2>4, <2>5 DEF Stacked, Clean
  <2>7. QED
    BY <2>3, <2>6
<1>4. CASE MeasureIdle \/ StartLoad
  <2>1. /\ UNCHANGED <<disk, keep, k, out, dirs, matrices, swept>>
        /\ pc \in {"idle", "load"} /\ pc' \in {"load", "record"}
        /\ stack' \in {stack, [stack EXCEPT !.loaded = TRUE]}
    BY <1>4 DEF MeasureIdle, StartLoad
  <2>2. Counted' /\ Owns'
    BY <2>1 DEF Counted, Running, Owns
  <2>3. stack' \in Stacks
    BY <2>1 DEF Stacked, Stacks
  <2>4. Stacked'
    BY <2>1, <2>3 DEF Stacked
  <2>5. QED
    BY <2>2, <2>4
<1>5. CASE Record
  <2>1. UNCHANGED <<stack, keep, k, out, dirs, matrices, swept>> /\ pc = "record" /\ pc' = "down"
    BY <1>5 DEF Record
  <2>2. \/ UNCHANGED disk
        \/ \E o \in Outcomes : disk' = [disk EXCEPT ![out] = Summary(o)]
    BY <1>5 DEF Record
  <2>3. DOMAIN disk' = DOMAIN disk
    BY <2>2
  <2>4. \A o \in Outcomes : Summary(o) \in Summaries
    BY SummaryIsOne
  <2>5. \A p \in DOMAIN disk : disk'[p] = disk[p] \/ disk'[p] \in Summaries
    BY <2>2, <2>4
  <2>6. Counted'
    BY <2>1, <2>3 DEF Counted, Running
  <2>7. Owns'
    <3>1. \A p \in DOMAIN disk' : disk'[p] \in Summaries \cup {None}
      BY <2>3, <2>5 DEF Owns
    <3>2. QED
      BY <2>1, <2>3, <3>1 DEF Owns
  <2>8. Stacked'
    BY <2>1 DEF Stacked, Stacks
  <2>9. QED
    BY <2>6, <2>7, <2>8
<1>6. CASE Down
  <2>1. /\ UNCHANGED <<disk, keep, out, matrices, swept>> /\ pc = "down" /\ k' = k + 1
        /\ dirs' = Append(dirs, out)
        /\ stack' = IF keep THEN stack ELSE NoStack
        /\ pc' = IF k' = Total THEN "table" ELSE "mkdir"
    BY <1>6 DEF Down, Total
  <2>2. out \in DOMAIN disk /\ dirs \in Seq(DOMAIN disk) /\ Len(dirs) = k /\ k \in Nat
        /\ k < Total /\ Total \in Nat
    BY <2>1, TotalIsPositive DEF Counted, Owns, Running
  <2>3. dirs' \in Seq(DOMAIN disk') /\ Len(dirs') = k'
    BY <2>1, <2>2
  <2>4. k' \in Nat /\ k' <= Total /\ (pc' \in Running => k' < Total)
    BY <2>1, <2>2 DEF Running
  <2>5. Counted'
    BY <2>1, <2>3, <2>4 DEF Counted, Running, Total
  <2>6. Owns'
    BY <2>1 DEF Owns
  <2>7. Stacked'
    <3>1. stack' \in Stacks /\ (~keep => stack' = NoStack)
      BY <2>1 DEF Stacked, Stacks, NoStack
    <3>2. QED
      BY <2>1, <3>1 DEF Stacked
  <2>8. QED
    BY <2>5, <2>6, <2>7
<1>7. QED
  BY <1>1, <1>2, <1>3, <1>4, <1>5, <1>6 DEF run

\* The table, a failed command and a new matrix touch neither results nor a run.
LEMMA MatrixKeeps ==
  ASSUME Ran, MakeTable \/ Fail \/ Restart
  PROVE  Ran'
<1> USE DEF Ran
<1>1. CASE MakeTable
  <2>1. UNCHANGED <<disk, stack, keep, k, out, dirs, matrices, swept>> /\ pc' = "done"
    BY <1>1 DEF MakeTable
  <2>2. QED
    BY <2>1 DEF Counted, Running, Owns, Stacked
<1>2. CASE Fail
  <2>1. UNCHANGED <<disk, keep, k, out, dirs, matrices, swept>> /\ pc' = "aborted"
        /\ pc \notin {"done", "aborted"} /\ stack' \in HalfDone
    BY <1>2 DEF Fail
  <2>2. stack' \in Stacks
    <3>1. pc = "up" => Variant \in ToSet(Variants)
      BY VariantIsOne DEF Counted, Running
    <3>2. stack \in Stacks
      BY DEF Stacked
    <3>3. CASE pc = "up"
      BY <2>1, <3>1, <3>2, <3>3 DEF HalfDone, Stacks
    <3>4. CASE pc # "up"
      BY <2>1, <3>2, <3>4 DEF HalfDone, Remains, Stacks
    <3>5. QED
      BY <3>3, <3>4
  <2>3. QED
    BY <2>1, <2>2 DEF Counted, Running, Owns, Stacked
<1>3. CASE Restart
  <2>1. UNCHANGED <<disk, stack, swept>> /\ keep' \in BOOLEAN /\ pc' = "mkdir" /\ k' = 0 /\ out' = None /\ dirs' = << >>
        /\ matrices' = matrices + 1 /\ matrices < MaxMatrices
    BY <1>3 DEF Restart
  <2>2. matrices' \in 1 .. MaxMatrices
    BY <2>1, Bounds DEF Counted
  <2>3. dirs' \in Seq(DOMAIN disk') /\ Len(dirs') = 0
    BY <2>1
  <2>4. Counted'
    BY <2>1, <2>2, <2>3, TotalIsPositive DEF Counted, Running, Total
  <2>5. Owns' /\ Stacked'
    BY <2>1 DEF Owns, Stacked
  <2>6. QED
    BY <2>4, <2>5
<1>4. QED
  BY <1>1, <1>2, <1>3

\* Every step keeps it.
LEMMA NextRan ==
  ASSUME Ran, [Next]_vars
  PROVE  Ran'
<1>1. CASE UNCHANGED vars
  BY <1>1 DEF Ran, Counted, Owns, Stacked, Clean, Variant, vars, scripts
<1>2. QED
  BY <1>1, RunKeeps, MatrixKeeps DEF Next

-----------------------------------------------------------------------------
(* What the table is made of.                                              *)

\* The directories that were noted.
LEMMA Noted ==
  ASSUME Ran
  PROVE  \A i \in 1 .. k : dirs[i] \in DOMAIN disk
BY DEF Ran, Counted

\* An empty machine has written nothing.
LEMMA InitTabled == Init => Tabled
BY DEF Init, Tabled, Collected

\* The steps of a run keep count of the summaries.
LEMMA RunTabled ==
  ASSUME Ran, Tabled, run
  PROVE  Tabled'
<1>1. CASE MakeDir
  <2>1. pc = "mkdir" /\ pc' = "sweep" /\ UNCHANGED <<k, dirs, matrices, finished>>
    BY <1>1 DEF MakeDir
  <2>2. out' \notin DOMAIN disk /\ \A i \in 1 .. k : disk'[dirs[i]] = disk[dirs[i]]
    BY <1>1, NewDir, Noted
  <2>3. Collected' = Collected
    BY <2>1, <2>2 DEF Collected
  <2>4. QED
    BY <2>1, <2>2, <2>3, Noted DEF Tabled
<1>2. CASE Sweep \/ Up \/ MeasureIdle \/ StartLoad
  <2>1. /\ UNCHANGED <<disk, k, out, dirs, matrices, finished>>
        /\ pc \in {"sweep", "up", "idle", "load"} /\ pc' \in {"up", "idle", "load", "record"}
    BY <1>2 DEF Sweep, Up, MeasureIdle, StartLoad
  <2>2. QED
    BY <2>1 DEF Tabled, Collected
<1>3. CASE Record
  <2>1. pc = "record" /\ pc' = "down" /\ UNCHANGED <<k, out, dirs, matrices>>
    BY <1>3 DEF Record
  <2>2. out \in DOMAIN disk /\ disk[out] = None /\ \A i \in 1 .. k : dirs[i] # out
    BY <2>1 DEF Ran, Owns, Tabled
  <2>3. CASE UNCHANGED <<disk, finished>>
    BY <2>1, <2>2, <2>3 DEF Tabled, Collected
  <2>4. ASSUME NEW o \in Outcomes, disk' = [disk EXCEPT ![out] = Summary(o)],
               finished' = finished \cup {Summary(o)}
        PROVE  Tabled'
    <3>1. Summary(o).run = <<matrices, k>> /\ Summary(o) # None
      BY SummaryIsOne DEF Ran
    <3>2. disk'[out] = Summary(o) /\ \A i \in 1 .. k : disk'[dirs[i]] = disk[dirs[i]]
      BY <2>2, <2>4
    <3>3. Collected' = Collected \cup {Summary(o)}
      BY <2>1, <3>1, <3>2 DEF Collected
    <3>4. QED
      BY <2>1, <2>4, <3>1, <3>2, <3>3 DEF Tabled
  <2>5. QED
    BY <1>3, <2>3, <2>4 DEF Record
<1>4. CASE Down
  <2>1. /\ pc = "down" /\ pc' \in {"table", "mkdir"} /\ k' = k + 1 /\ dirs' = Append(dirs, out)
        /\ UNCHANGED <<disk, out, matrices, finished>>
    BY <1>4 DEF Down
  <2>2. k \in Nat /\ dirs \in Seq(DOMAIN disk) /\ Len(dirs) = k /\ out \in DOMAIN disk
    BY <2>1 DEF Ran, Counted, Owns
  <2>3. /\ \A i \in 1 .. k' : i \in 1 .. k \/ i = k'
        /\ \A i \in 1 .. k : i \in 1 .. k' /\ dirs'[i] = dirs[i]
        /\ k' \in 1 .. k' /\ dirs'[k'] = out /\ k' - 1 = k
    BY <2>1, <2>2
  <2>4. Collected' = Collected
    <3> DEFINE S == {disk[dirs[i]] : i \in 1 .. k} \cup {disk[out]}
               T == {disk'[dirs'[i]] : i \in 1 .. k'}
    <3>1. ASSUME NEW i \in 1 .. k' PROVE disk'[dirs'[i]] \in S
      <4>1. CASE i \in 1 .. k
        BY <2>1, <2>3, <4>1
      <4>2. CASE i = k'
        BY <2>1, <2>3, <4>2
      <4>3. QED
        BY <2>3, <4>1, <4>2
    <3>2. ASSUME NEW i \in 1 .. k PROVE disk[dirs[i]] \in T
      BY <2>1, <2>3
    <3>3. disk[out] \in T
      BY <2>1, <2>3
    <3>4. S = T
      BY ONLY <3>1, <3>2, <3>3
    <3>5. QED
      BY <2>1, <3>4 DEF Collected
  <2>5. \A i \in 1 .. k' : disk'[dirs'[i]] = None \/ disk'[dirs'[i]].run = <<matrices', i - 1>>
    BY <2>1, <2>3 DEF Tabled
  <2>6. QED
    BY <2>1, <2>4, <2>5 DEF Tabled
<1>5. QED
  BY <1>1, <1>2, <1>3, <1>4 DEF run

\* So do the steps of the matrix.
LEMMA MatrixTabled ==
  ASSUME Ran, Tabled, MakeTable \/ Fail \/ Restart
  PROVE  Tabled'
<1>1. CASE MakeTable
  <2>1. /\ pc = "table" /\ pc' = "done" /\ table' = main(dirs, disk)
        /\ UNCHANGED <<disk, k, out, dirs, matrices, finished>>
    BY <1>1 DEF MakeTable
  <2>2. QED
    BY <2>1 DEF Tabled, Collected
<1>2. CASE Fail
  <2>1. pc' = "aborted" /\ UNCHANGED <<disk, k, out, dirs, matrices, finished>>
    BY <1>2 DEF Fail
  <2>2. QED
    BY <2>1 DEF Tabled
<1>3. CASE Restart
  <2>1. pc' = "mkdir" /\ k' = 0 /\ finished' = {}
    BY <1>3 DEF Restart
  <2>2. QED
    BY <2>1 DEF Tabled, Collected
<1>4. QED
  BY <1>1, <1>2, <1>3

\* The invariant holds at first.
LEMMA InitBInv == Init => BInv
BY InitRan, InitTabled DEF BInv

\* The invariant stays.
LEMMA NextBInv ==
  ASSUME BInv, [Next]_vars
  PROVE  BInv'
<1>1. Ran'
  BY NextRan DEF BInv
<1>2. CASE UNCHANGED vars
  BY <1>1, <1>2 DEF BInv, Tabled, Collected, vars, scripts
<1>3. QED
  BY <1>1, <1>2, RunTabled, MatrixTabled DEF BInv, Next

\* At the end, the table is that of the summaries of the matrix.
LEMMA DoneIsRight ==
  ASSUME BInv, pc = "done"
  PROVE  IsTableOf(table, finished)
<1>1. k \in Nat /\ Len(dirs) = k /\ matrices \in Nat
  BY DEF BInv, Ran, Counted
<1>2. \A j \in 1 .. k : disk[dirs[j]] \in Summaries \cup {None}
  BY Noted DEF BInv, Ran, Owns
<1>3. ASSUME NEW i \in 1 .. k, NEW l \in 1 .. k,
             disk[dirs[i]] = disk[dirs[l]], disk[dirs[i]] # None
      PROVE  i = l
  <2>1. <<matrices, i - 1>> = <<matrices, l - 1>>
    BY <1>3 DEF BInv, Tabled
  <2>2. QED
    BY <2>1
<1>4. finished = {disk[dirs[j]] : j \in 1 .. k} \ {None} /\ table = main(dirs, disk)
  BY DEF BInv, Tabled, Collected
<1>5. \A i, l \in 1 .. k : disk[dirs[i]] = disk[dirs[l]] /\ disk[dirs[i]] # None => i = l
  BY <1>3
<1>6. QED
  BY ONLY <1>1, <1>2, <1>4, <1>5, TableIsRight

\* A directory is made and noted, and none is noted that does not exist, at whatever
\* command a matrix fails and is started again (matrix.sh:20-27).
THEOREM BenchTypes == Spec => []TypeOK
<1>1. BInv => TypeOK
  <2> SUFFICES ASSUME BInv PROVE TypeOK
    OBVIOUS
  <2>1. ToSet(dirs) \subseteq DOMAIN disk
    BY DEF BInv, Ran, Counted, ToSet
  <2>2. k \in 0 .. Repeats * Len(Variants)
    <3>1. k \in 0 .. Total
      BY TotalIsPositive DEF BInv, Ran, Counted
    <3>2. QED
      BY <3>1 DEF Total
  <2>3. QED
    BY <2>1, <2>2 DEF BInv, Ran, Counted, Owns, Stacked, Running, TypeOK
<1>2. QED
  BY <1>1, InitBInv, NextBInv, PTL DEF Spec

\* The server that is measured as idle is the variant of this run and has no load: a
\* failing `down` before the run, which is ignored, is made good by that of the run before
\* in the matrix, and what KEEP=1 or another matrix has left by a `down` that works
\* (run.sh:70-81, 92-96).
THEOREM IdleServersAreIdle == Spec => []IdleIsIdle
<1>1. BInv => IdleIsIdle
  BY DEF BInv, Ran, Stacked, Clean, IdleIsIdle
<1>2. QED
  BY <1>1, InitBInv, NextBInv, PTL DEF Spec

\* A summary stays what it was when it was written: the search for a name ends at one
\* that no run has used, also when names of variants end in numbers (run.sh:34-37).
THEOREM ResultsAreKept == Spec => OldResultsKept
<1>1. ASSUME BInv, [Next]_vars PROVE [ResultsStay]_vars
  <2>1. CASE MakeDir
    BY <1>1, <2>1, NewDir DEF BInv, ResultsStay
  <2>2. CASE Record
    <3>1. pc = "record" /\ (disk' = disk \/ \E o \in Outcomes : disk' = [disk EXCEPT ![out] = Summary(o)])
      BY <2>2 DEF Record
    <3>2. disk[out] = None
      BY <1>1, <3>1 DEF BInv, Ran, Owns
    <3>3. QED
      BY <3>1, <3>2 DEF ResultsStay
  <2>3. CASE UNCHANGED disk
    BY <2>3 DEF ResultsStay
  <2>4. CASE UNCHANGED vars
    BY <2>4
  <2>5. Sweep \/ Up \/ MeasureIdle \/ StartLoad \/ Down \/ MakeTable \/ Fail \/ Restart
          => UNCHANGED disk
    BY DEF Sweep, Up, MeasureIdle, StartLoad, Down, MakeTable, Fail, Restart
  <2>6. QED
    BY <1>1, <2>1, <2>2, <2>3, <2>4, <2>5 DEF Next, run
<1>2. QED
  BY <1>1, InitBInv, NextBInv, PTL DEF Spec, OldResultsKept

\* Whatever runs fail and whatever an earlier matrix has left, a table counts each
\* summary of its own matrix once, in the row of its variant, and shows every OOM kill
\* (compare.py:17-26, 39-45, 56-68).
THEOREM TablesAreExact == Spec => []TableIsExact
<1>1. BInv => TableIsExact
  BY DoneIsRight DEF TableIsExact, IsTableOf, CountsExactly
<1>2. QED
  BY <1>1, InitBInv, NextBInv, PTL DEF Spec

\* For any number of runs, odd or even, and any figures, the median of a row halves
\* them, and its range holds them all (compare.py:29-36).
THEOREM MediansAreCentral == Spec => []MedianIsCentral
<1>1. BInv => MedianIsCentral
  BY DoneIsRight DEF MedianIsCentral, IsTableOf, Central
<1>2. QED
  BY <1>1, InitBInv, NextBInv, PTL DEF Spec

=============================================================================
