--------------------------- MODULE RegistryProofs ---------------------------
(***************************************************************************)
(* The registry's index is exact, and the registry is the set of           *)
(* connections it promises to be, for any set of connections and any order *)
(* of calls. The send loop that walks it, whatever changes it in between,  *)
(* is even and on time.                                                    *)
(***************************************************************************)
EXTENDS SendLoop, FiniteSetTheorems, TLAPS

\* What every call preserves. The index matching the array needs all three
\* parts: a removal reads the array at an index that must be in range.
RegInv == TypeOK /\ SlotsMatch /\ ClosedNotStored

\* Appending: the new connection is at the end, the others where they were.
LEMMA AddNewPreserves ==
  ASSUME RegInv, NEW c \in Conn, AddNew(c)
  PROVE  RegInv' /\ stored' = stored \cup {c}
<1> USE DEF stored
<1>1. stored' = stored \cup {c} /\ closed' = closed
  BY DEF AddNew
<1>2. /\ conns \in Seq(Conn)
      /\ Len(conns) \in Nat
      /\ slot \in [stored -> Nat]
  BY DEF RegInv, TypeOK
<1>3. /\ conns' \in Seq(Conn)
      /\ Len(conns') = Len(conns) + 1
      /\ conns'[Len(conns) + 1] = c
      /\ \A i \in 1 .. Len(conns) : conns'[i] = conns[i]
  BY <1>2 DEF AddNew
<1>4. /\ slot' \in [stored' -> Nat]
      /\ slot'[c] = Len(conns)
      /\ \A k \in stored : slot'[k] = slot[k]
  BY <1>1, <1>2 DEF AddNew
<1>5. TypeOK'
  BY <1>1, <1>3, <1>4 DEF RegInv, TypeOK, AddNew
<1>6. SlotsMatch'
  <2>1. ASSUME NEW k \in stored'
        PROVE  slot'[k] + 1 \in 1 .. Len(conns') /\ conns'[slot'[k] + 1] = k
    BY <1>1, <1>2, <1>3, <1>4, <2>1 DEF RegInv, SlotsMatch
  <2>2. ASSUME NEW i \in 1 .. Len(conns')
        PROVE  conns'[i] \in stored' /\ slot'[conns'[i]] = i - 1
    BY <1>1, <1>2, <1>3, <1>4, <2>2 DEF RegInv, SlotsMatch
  <2>3. QED
    BY <2>1, <2>2 DEF SlotsMatch
<1>7. ClosedNotStored'
  BY <1>1 DEF RegInv, ClosedNotStored, AddNew
<1>8. QED
  BY <1>1, <1>5, <1>6, <1>7 DEF RegInv

\* Removing: the last connection takes the freed slot, the others stay.
LEMMA RemoveStoredPreserves ==
  ASSUME RegInv, NEW c \in Conn, RemoveStored(c)
  PROVE  RegInv' /\ stored' = stored \ {c}
<1> USE DEF stored
<1> DEFINE last  == Len(conns)
           moved == conns[last]
<1>1. c \in stored /\ closed' = closed /\ reply' = TRUE
  BY DEF RemoveStored
<1>2. /\ conns \in Seq(Conn)
      /\ last \in Nat
      /\ slot \in [stored -> Nat]
      /\ slot[c] + 1 \in 1 .. last
      /\ conns[slot[c] + 1] = c
  BY <1>1 DEF RegInv, TypeOK, SlotsMatch
<1>3. /\ last \in 1 .. last
      /\ moved \in stored
      /\ slot[moved] = last - 1
      /\ moved \in Conn
  BY <1>2 DEF RegInv, TypeOK, SlotsMatch
<1>4. /\ conns' \in Seq(Conn)
      /\ Len(conns') = last - 1
      /\ \A i \in 1 .. last - 1 :
           conns'[i] = IF i = slot[c] + 1 THEN moved ELSE conns[i]
  <2> DEFINE filled == [conns EXCEPT ![slot[c] + 1] = moved]
  <2>1. filled \in Seq(Conn) /\ Len(filled) = last
    BY <1>2, <1>3
  <2>2. conns' = SubSeq(filled, 1, last - 1)
    BY DEF RemoveStored
  <2>3. \A i \in 1 .. last : filled[i] = IF i = slot[c] + 1 THEN moved ELSE conns[i]
    BY <1>2
  <2> HIDE DEF filled, moved
  <2>4. QED
    BY <1>2, <1>3, <2>1, <2>2, <2>3
<1>5. /\ stored' = stored \ {c}
      /\ \A k \in stored' : slot'[k] = IF k = moved THEN slot[c] ELSE slot[k]
  BY DEF RemoveStored
<1>6. slot' \in [stored' -> Nat]
  BY <1>2, <1>5 DEF RemoveStored
<1>7. TypeOK'
  BY <1>1, <1>4, <1>5, <1>6 DEF RegInv, TypeOK
<1>8. SlotsMatch'
  <2> HIDE DEF moved
  <2>1. ASSUME NEW k \in stored'
        PROVE  slot'[k] + 1 \in 1 .. Len(conns') /\ conns'[slot'[k] + 1] = k
    <3>1. k \in stored /\ k # c /\ slot[k] \in Nat
      BY <1>2, <1>5, <2>1
    <3>2. slot[k] + 1 \in 1 .. last /\ conns[slot[k] + 1] = k
      BY <3>1 DEF RegInv, SlotsMatch
    <3>3. slot[k] # slot[c]
      BY <1>2, <3>1, <3>2
    <3>4. CASE k = moved
      <4>1. slot'[k] = slot[c] /\ slot[c] \in Nat
        BY <1>1, <1>2, <1>5, <2>1, <3>4
      <4>2. slot[c] # last - 1
        BY <1>3, <3>3, <3>4
      <4>3. slot[c] + 1 \in 1 .. last - 1
        BY <1>2, <4>1, <4>2
      <4>4. conns'[slot[c] + 1] = k
        BY <1>4, <3>4, <4>3
      <4>5. QED
        BY <1>4, <4>1, <4>3, <4>4
    <3>5. CASE k # moved
      <4>1. slot[k] + 1 # last
        BY <3>2, <3>5 DEF moved
      <4>2. QED
        BY <1>2, <1>4, <1>5, <3>1, <3>2, <3>3, <3>5, <4>1
    <3>6. QED
      BY <3>4, <3>5
  <2>2. ASSUME NEW i \in 1 .. Len(conns')
        PROVE  conns'[i] \in stored' /\ slot'[conns'[i]] = i - 1
    <3>1. i \in 1 .. last - 1 /\ i \in 1 .. last
      BY <1>2, <1>4, <2>2
    <3>2. conns[i] \in stored /\ slot[conns[i]] = i - 1
      BY <3>1 DEF RegInv, SlotsMatch
    <3>3. CASE i = slot[c] + 1
      <4>1. conns'[i] = moved
        BY <1>4, <3>1, <3>3
      <4>2. moved # c
        BY <1>2, <1>3, <3>1, <3>3
      <4>3. moved \in stored' /\ slot'[moved] = slot[c]
        BY <1>3, <1>5, <4>2
      <4>4. slot[c] \in Nat
        BY <1>1, <1>2
      <4>5. QED
        BY <3>3, <4>1, <4>3, <4>4
    <3>4. CASE i # slot[c] + 1
      <4>1. conns'[i] = conns[i]
        BY <1>4, <3>1, <3>4
      <4>2. conns[i] # c
        BY <1>2, <3>2, <3>1, <3>4
      <4>3. conns[i] # moved
        BY <1>2, <1>3, <3>1, <3>2
      <4>4. QED
        BY <1>5, <3>2, <4>1, <4>2, <4>3
    <3>5. QED
      BY <3>3, <3>4
  <2>3. QED
    BY <2>1, <2>2 DEF SlotsMatch
<1>9. ClosedNotStored'
  BY <1>1, <1>5 DEF RegInv, ClosedNotStored
<1>10. QED
  BY <1>5, <1>7, <1>8, <1>9 DEF RegInv

-----------------------------------------------------------------------------

\* A call that leaves array and index alone keeps the invariant if it remembers no
\* stored connection as closed.
LEMMA SameArrayPreserves ==
  ASSUME RegInv, UNCHANGED <<conns, slot>>,
         closed' \subseteq Conn, closed' \cap stored = {}, reply' \in BOOLEAN
  PROVE  RegInv' /\ stored' = stored
<1>1. conns' = conns /\ slot' = slot /\ stored' = stored
  BY DEF stored
<1>2. TypeOK'
  BY <1>1 DEF RegInv, TypeOK
<1>3. SlotsMatch'
  BY <1>1 DEF RegInv, SlotsMatch
<1>4. ClosedNotStored'
  BY <1>1 DEF ClosedNotStored
<1>5. QED
  BY <1>1, <1>2, <1>3, <1>4 DEF RegInv

\* Every call preserves the invariant, and is the same call of the promised set.
LEMMA CallPreserves ==
  ASSUME RegInv, NEW c \in Conn
  PROVE  /\ Add(c) => RegInv' /\ Promise!Add(c)
         /\ Remove(c) => RegInv' /\ Promise!Remove(c)
<1>1. ASSUME AddClosed(c)
      PROVE  RegInv' /\ Promise!Add(c)
  <2>1. /\ c \in closed
        /\ closed' = closed \ {c}
        /\ reply' = FALSE
        /\ UNCHANGED <<conns, slot>>
    BY <1>1 DEF AddClosed
  <2>2. closed \subseteq Conn /\ closed \cap stored = {}
    BY DEF RegInv, TypeOK, ClosedNotStored
  <2>3. RegInv' /\ stored' = stored
    BY <2>1, <2>2, SameArrayPreserves
  <2>4. QED
    BY <2>1, <2>3 DEF Promise!Add
<1>2. ASSUME AddDuplicate(c)
      PROVE  RegInv' /\ Promise!Add(c)
  <2>1. /\ c \notin closed
        /\ c \in stored
        /\ closed' = closed
        /\ reply' = FALSE
        /\ UNCHANGED <<conns, slot>>
    BY <1>2 DEF AddDuplicate
  <2>2. closed \subseteq Conn /\ closed \cap stored = {}
    BY DEF RegInv, TypeOK, ClosedNotStored
  <2>3. RegInv' /\ stored' = stored
    BY <2>1, <2>2, SameArrayPreserves
  <2>4. closed' = closed \ {c}
    BY <2>1
  <2>5. QED
    BY <2>1, <2>3, <2>4 DEF Promise!Add
<1>3. ASSUME AddNew(c)
      PROVE  RegInv' /\ Promise!Add(c)
  BY <1>3, AddNewPreserves DEF AddNew, Promise!Add
<1>4. ASSUME RemoveUnknown(c)
      PROVE  RegInv' /\ Promise!Remove(c)
  <2>1. /\ c \notin stored
        /\ closed' = closed \cup {c}
        /\ reply' = FALSE
        /\ UNCHANGED <<conns, slot>>
    BY <1>4 DEF RemoveUnknown
  <2>2. closed \subseteq Conn /\ closed \cap stored = {}
    BY DEF RegInv, TypeOK, ClosedNotStored
  <2>3. RegInv' /\ stored' = stored
    BY <2>1, <2>2, SameArrayPreserves
  <2>4. stored' = stored \ {c}
    BY <2>1, <2>3
  <2>5. reply' = (c \in stored)
    <3>1. c \notin stored => (c \in stored) = FALSE
      BY SMT
    <3>2. QED
      BY <2>1, <3>1
  <2>6. QED
    BY <2>1, <2>4, <2>3, <2>5 DEF Promise!Remove
<1>5. ASSUME RemoveStored(c)
      PROVE  RegInv' /\ Promise!Remove(c)
  BY <1>5, RemoveStoredPreserves DEF RemoveStored, Promise!Remove
<1>6. QED
  BY <1>1, <1>2, <1>3, <1>4, <1>5 DEF Add, Remove

\* So does every step of the registry.
LEMMA CallsPreserve ==
  ASSUME RegInv, [Next]_regVars
  PROVE  RegInv' /\ [Promise!Next]_(Promise!setVars)
<1>1. CASE UNCHANGED regVars
  BY <1>1 DEF regVars, RegInv, TypeOK, SlotsMatch, ClosedNotStored, stored,
              Promise!setVars
<1>2. QED
  BY <1>1, CallPreserves DEF Next, Promise!Next

\* The registry starts empty, and so does the promised set.
LEMMA InitEstablishes == Init => RegInv /\ Promise!Init
<1>1. SUFFICES ASSUME Init
               PROVE  RegInv /\ Promise!Init
  OBVIOUS
<1>2. stored = {}
  BY <1>1 DEF Init, stored
<1>3. TypeOK
  <2>1. conns \in Seq(Conn)
    BY <1>1 DEF Init
  <2>2. slot \in [stored -> Nat]
    BY <1>1 DEF Init, stored
  <2>3. QED
    BY <1>1, <1>2, <2>1, <2>2 DEF Init, TypeOK
<1>4. SlotsMatch /\ ClosedNotStored
  BY <1>1, <1>2 DEF Init, SlotsMatch, ClosedNotStored
<1>5. QED
  BY <1>1, <1>2, <1>3, <1>4 DEF RegInv, Init, Promise!Init

\* The array and the index stay inverses of each other, so remove always
\* overwrites the position of the connection it was given (registry.go:46-65).
THEOREM RegistryIndexExact == Spec => []SlotsMatch
<1>1. RegInv => SlotsMatch
  BY DEF RegInv
<1>2. QED
  BY <1>1, InitEstablishes, CallsPreserve, PTL DEF Spec

\* A connection whose close came first is not stored when its add comes, and is
\* forgotten then (registry.go:31-37, 48-55).
THEOREM ClosedStayOut == Spec => []ClosedNotStored
<1>1. RegInv => ClosedNotStored
  BY DEF RegInv
<1>2. QED
  BY <1>1, InitEstablishes, CallsPreserve, PTL DEF Spec

\* add and remove behave, answers included, as on a set of stored and a set of
\* early-closed connections; the array and its index never show (registry.go:31,48).
THEOREM RegistryImplementsConnSet == Spec => ImplementsConnSet
BY InitEstablishes, CallsPreserve, PTL DEF Spec, ImplementsConnSet, Promise!Spec

\* Each single call does, and answers, what the same call of the promised set
\* does, so that the load generator may be modelled over the set.
THEOREM RegistryCallsAgree == Spec => CallsAgree
<1>1. ASSUME RegInv, [Next]_regVars
      PROVE  [CallAgrees]_regVars
  BY <1>1, CallPreserves DEF CallAgrees
<1>2. QED
  BY <1>1, InitEstablishes, CallsPreserve, PTL DEF Spec, CallsAgree

\* A removal moves no connection but the one that was last (registry.go:57-60).
THEOREM RegistryMovesOnlyLast == Spec => OthersStayPut
<1>1. ASSUME RegInv, [Next]_regVars
      PROVE  [\A c \in stored \cap stored' :
                 slot'[c] = slot[c] \/ c = conns[Len(conns)]]_regVars
  <2>1. ASSUME NEW k \in Conn, Add(k), NEW c \in stored, c \in stored'
        PROVE  slot'[c] = slot[c]
    BY <2>1 DEF Add, AddClosed, AddDuplicate, AddNew, stored
  <2>2. ASSUME NEW k \in Conn, Remove(k), NEW c \in stored, c \in stored'
        PROVE  slot'[c] = slot[c] \/ c = conns[Len(conns)]
    BY <2>2 DEF Remove, RemoveUnknown, RemoveStored, stored
  <2>3. QED
    BY <1>1, <2>1, <2>2 DEF Next
<1>2. QED
  BY <1>1, InitEstablishes, CallsPreserve, PTL DEF Spec, OthersStayPut

-----------------------------------------------------------------------------
(* The send loop over the registry.                                        *)

\* Division with a remainder is unique.
LEMMA Divided ==
  ASSUME NEW n \in Nat \ {0}, NEW k \in Nat, NEW r \in Nat, r < n
  PROVE  /\ (k * n + r) % n = r
         /\ (k * n + r) \div n = k
<1> DEFINE x == k * n + r
           q == x \div n
           p == x % n
<1>1. x \in Nat /\ q \in Nat /\ p \in Nat /\ p < n /\ x = q * n + p
  BY SMTT(30)
<1>2. (q + 1) * n = q * n + n /\ (k + 1) * n = k * n + n /\ q * n \in Nat /\ k * n \in Nat
  BY <1>1, SMTT(30)
<1>3. x = k * n + r
  OBVIOUS
<1> HIDE DEF x, q, p
<1>4. ~ (q + 1 <= k)
  <2>1. q + 1 <= k => (q + 1) * n <= k * n
    BY <1>1, SMTT(30)
  <2>2. QED
    BY <1>1, <1>2, <1>3, <2>1
<1>5. ~ (k + 1 <= q)
  <2>1. k + 1 <= q => (k + 1) * n <= q * n
    BY <1>1, SMTT(30)
  <2>2. QED
    BY <1>1, <1>2, <1>3, <2>1
<1>6. q = k
  BY <1>1, <1>4, <1>5
<1>7. p = r
  BY <1>1, <1>2, <1>3, <1>6
<1>8. QED
  BY <1>6, <1>7 DEF x, q, p

\* A position in a list of n, b places further on: it wraps at most once.
Wrap(n, a) == IF a < n THEN a ELSE a - n

\* The place of a cursor that may lie past the end of the list, some places further on.
LEMMA Wrapped ==
  ASSUME NEW a \in Nat, NEW n \in Nat \ {0}, NEW b \in 0 .. n
  PROVE  /\ a % n \in 0 .. n - 1
         /\ (a + b) % n = Wrap(n, (a % n) + b)
<1> DEFINE q == a \div n
           p == a % n
<1>1. q \in Nat /\ p \in 0 .. n - 1 /\ a = q * n + p
  BY SMTT(30)
<1>2. (q + 1) * n = q * n + n /\ q * n \in Nat
  BY <1>1, SMTT(30)
<1> HIDE DEF q, p
<1>3. CASE p + b < n
  <2>1. (q * n + (p + b)) % n = p + b
    BY <1>1, <1>3, Divided
  <2>2. a + b = q * n + (p + b)
    BY <1>1, <1>2
  <2>3. QED
    BY <1>1, <1>3, <2>1, <2>2 DEF p, Wrap
<1>4. CASE ~ (p + b < n)
  <2> DEFINE r == p + b - n
  <2>1. r \in Nat /\ r < n /\ q + 1 \in Nat
    BY <1>1, <1>4
  <2>2. a + b = (q + 1) * n + r
    BY <1>1, <1>2
  <2>3. r = Wrap(n, p + b)
    BY <1>1, <1>4 DEF Wrap
  <2> HIDE DEF r
  <2>4. ((q + 1) * n + r) % n = r
    BY <2>1, Divided
  <2>5. QED
    BY <1>1, <2>2, <2>3, <2>4 DEF p
<1>5. QED
  BY <1>3, <1>4

\* Position i of a list of n is one of the m that follow s, round the end.
InArc(n, s, m, i) == (s < i /\ i <= s + m) \/ i <= s + m - n

Ind(b) == IF b THEN 1 ELSE 0

\* Two arcs, the second where the first ends: together they are one, or one whole lap
\* and an arc.
LEMMA ArcsMeet ==
  ASSUME NEW n \in Nat \ {0}, NEW s \in 0 .. n - 1, NEW m \in 0 .. n - 1, NEW k \in 0 .. n,
         NEW i \in 1 .. n
  PROVE  LET r == Wrap(n, s + m)
         IN  /\ r \in 0 .. n - 1
             /\ m + k < n =>
                  /\ Ind(InArc(n, s, m, i)) + Ind(InArc(n, r, k, i)) = Ind(InArc(n, s, m + k, i))
                  /\ Wrap(n, r + k) = Wrap(n, s + (m + k))
             /\ m + k >= n =>
                  /\ Ind(InArc(n, s, m, i)) + Ind(InArc(n, r, k, i))
                       = 1 + Ind(InArc(n, s, m + k - n, i))
                  /\ Wrap(n, r + k) = Wrap(n, s + (m + k - n))
BY DEF Wrap, InArc, Ind

\* Where the walk is in the list as it is: q whole laps and m connections since the
\* list last changed, when the cursor was s.
Lap(q, s, m) ==
  /\ \A i \in 1 .. Len(conns) : turns[conns[i]] = q + Ind(InArc(Len(conns), s, m, i))
  /\ cursor % Len(conns) = Wrap(Len(conns), s + m)

\* Connections of the batch that is due and not yet taken.
Pending == IF pc = "take" THEN Clamp(due) ELSE 0

\* A step's share, with what is rounded on it, is no more than one message to each.
Fits == Step + Rounding <= Interval

\* What was sent, is due and is carried, against the steps' shares: what the steps have
\* rounded, a carry and a batch of before the change are on top at most, and when each
\* step's share fits no more than the rounding is lost.
Balance(q, m) ==
  LET total == (q * Len(conns) + m + Pending) * Interval + carry
      shares == ticks * (Len(conns) * Step)
      rounded == ticks * Rounding
  IN  /\ total < shares + rounded + (Len(conns) + 1) * Interval
      /\ Fits => shares <= total + rounded

Walked == Len(conns) > 0 =>
            \E q \in Nat, s, m \in 0 .. Len(conns) - 1 : Lap(q, s, m) /\ Balance(q, m)

SendInv == RegInv /\ SendTypeOK /\ Walked

\* The assumptions on the constants, one fact each, and the length of the list.
LEMMA SendNumbers ==
  /\ Step \in Nat /\ 0 < Step /\ Interval \in Nat /\ 0 < Interval
  /\ MaxTicks \in Nat /\ MaxChanges \in Nat /\ Rounding \in Nat
BY SendAssumption

\* The list names no connection twice, so it is not longer than there are connections.
LEMMA ListIsShort ==
  ASSUME RegInv
  PROVE  /\ Len(conns) \in Nat /\ Len(conns) <= Cardinality(Conn)
         /\ Cardinality(Conn) \in Nat
         /\ \A i \in 1 .. Len(conns) : conns[i] \in stored
         /\ \A i, j \in 1 .. Len(conns) : conns[i] = conns[j] => i = j
         /\ \A c \in stored : \E i \in 1 .. Len(conns) : c = conns[i]
<1>1. conns \in Seq(Conn) /\ stored \subseteq Conn /\ slot \in [stored -> Nat]
  BY DEF RegInv, TypeOK
<1>2. Len(conns) \in Nat /\ conns \in [1 .. Len(conns) -> Conn]
  BY <1>1
<1>3. \A i \in 1 .. Len(conns) : conns[i] \in stored /\ slot[conns[i]] = i - 1
  BY DEF RegInv, SlotsMatch
<1>4. \A i, j \in 1 .. Len(conns) : conns[i] = conns[j] => i = j
  BY <1>2, <1>3
<1>5. \A c \in stored : \E i \in 1 .. Len(conns) : c = conns[i]
  BY DEF RegInv, SlotsMatch
<1>6. IsFiniteSet(1 .. Len(conns)) /\ Cardinality(1 .. Len(conns)) = Len(conns)
  BY <1>2, FS_Interval
<1>7. IsFiniteSet(Conn) /\ Cardinality(Conn) \in Nat
  BY SendAssumption, FS_CardinalityType
<1>8. ~ (Cardinality(Conn) < Len(conns))
  BY <1>2, <1>4, <1>6, <1>7, FS_PigeonHole
<1>9. QED
  BY <1>2, <1>3, <1>4, <1>5, <1>7, <1>8

\* What a batch adds to the tally of the connection at i.
LEMMA BatchTurns ==
  ASSUME RegInv, cursor \in Nat, NEW n \in Nat, NEW i \in 1 .. Len(conns)
  PROVE  LET batch == Batch(cursor, n)
         IN  Cardinality({k \in DOMAIN batch : batch[k] = conns[i]})
               = Ind(InArc(Len(conns), cursor % Len(conns), Clamp(n), i))
<1> DEFINE len == Len(conns)
           r == cursor % len
           size == Clamp(n)
           batch == Batch(cursor, n)
           hits == {k \in DOMAIN batch : batch[k] = conns[i]}
<1>1. len \in Nat \ {0} /\ size \in 0 .. len /\ i \in 1 .. len
  BY ListIsShort DEF Clamp
<1>2. DOMAIN batch = 1 .. size /\ \A k \in 1 .. size : batch[k] = conns[((cursor + k - 1) % len) + 1]
  BY DEF Batch
<1> HIDE DEF batch, size
<1>3. r \in 0 .. len - 1 /\ \A k \in 1 .. size : (cursor + k - 1) % len = Wrap(len, r + k - 1)
  <2>1. r \in 0 .. len - 1
    BY <1>1, Wrapped
  <2>2. ASSUME NEW k \in 1 .. size
        PROVE  (cursor + k - 1) % len = Wrap(len, r + k - 1)
    <3>1. k - 1 \in 0 .. len
      BY <1>1
    <3> HIDE DEF len
    <3>2. (cursor + (k - 1)) % len = Wrap(len, r + (k - 1))
      BY <1>1, <3>1, Wrapped
    <3>3. cursor + (k - 1) = cursor + k - 1 /\ r + (k - 1) = r + k - 1
      BY <1>1, <2>1
    <3>4. QED
      BY <3>2, <3>3
  <2>3. QED
    BY <2>1, <2>2
<1> HIDE DEF r
<1>4. \A k \in 1 .. size : k \in hits <=> Wrap(len, r + k - 1) + 1 = i
  <2>1. ASSUME NEW k \in 1 .. size
        PROVE  /\ Wrap(len, r + k - 1) + 1 \in 1 .. len
               /\ batch[k] = conns[Wrap(len, r + k - 1) + 1]
    BY <1>1, <1>2, <1>3 DEF Wrap
  <2>2. ASSUME NEW k \in 1 .. size
        PROVE  k \in hits <=> Wrap(len, r + k - 1) + 1 = i
    <3>1. k \in hits <=> conns[Wrap(len, r + k - 1) + 1] = conns[i]
      BY <1>2, <2>1
    <3>2. conns[Wrap(len, r + k - 1) + 1] = conns[i] => Wrap(len, r + k - 1) + 1 = i
      BY <2>1, <1>1, ListIsShort
    <3>3. QED
      BY <3>1, <3>2
  <2>3. QED
    BY <2>2
<1>5. hits \subseteq 1 .. size
  BY <1>2
<1> HIDE DEF hits, len
<1> DEFINE at == IF r < i THEN i - r ELSE i - r + len
<1>6. hits = IF InArc(len, r, size, i) THEN {at} ELSE {}
  <2>1. \A k \in 1 .. size : Wrap(len, r + k - 1) + 1 = i <=> k = at
    BY <1>1, <1>3 DEF Wrap
  <2>2. at \in 1 .. size <=> InArc(len, r, size, i)
    BY <1>1, <1>3 DEF InArc
  <2> HIDE DEF at
  <2>3. QED
    BY <1>4, <1>5, <2>1, <2>2, Zenon
<1>7. Cardinality(hits) = Ind(InArc(len, r, size, i))
  BY <1>6, FS_Singleton, FS_EmptySet DEF Ind
<1>8. QED
  BY <1>7 DEF hits, len, r, size, batch

\* What is owed is due or carried.
LEMMA Owed ==
  ASSUME NEW a \in Nat, NEW n \in Nat \ {0}, NEW owed \in Nat, NEW d \in Nat, d <= owed \div n
  PROVE  /\ owed \div n \in Nat /\ owed % n \in 0 .. n - 1
         /\ (a + d) * n + (owed % n) <= (a + 0) * n + owed
         /\ d = owed \div n => (a + d) * n + (owed % n) = (a + 0) * n + owed
<1> DEFINE q == owed \div n
           r == owed % n
<1>1. q \in Nat /\ r \in 0 .. n - 1 /\ owed = q * n + r
  BY SMTT(30)
<1>2. (a + d) * n = a * n + d * n /\ (a + 0) * n = a * n /\ a * n \in Nat /\ d * n \in Nat
  BY SMTT(30)
<1>3. q * n \in Nat /\ (d <= q => d * n <= q * n)
  BY <1>1, SMTT(30)
<1>4. d <= q
  OBVIOUS
<1> HIDE DEF q, r
<1>5. /\ (a + d) * n + r <= (a + 0) * n + owed
      /\ d = q => (a + d) * n + r = (a + 0) * n + owed
  BY <1>1, <1>2, <1>3, <1>4
<1>6. QED
  BY <1>1, <1>5 DEF q, r

\* Less than that and a carry never owes more than one message to each.
LEMMA DueFits ==
  ASSUME NEW n \in Nat \ {0}, NEW len \in Nat, NEW owed \in Nat, owed < len * n + n
  PROVE  owed \div n <= len
<1> DEFINE q == owed \div n
<1>1. q \in Nat /\ q * n <= owed
  BY SMTT(30)
<1> HIDE DEF q
<1>2. ~ (len + 1 <= q)
  <2>1. len + 1 <= q => (len + 1) * n <= q * n
    BY <1>1, SMTT(30)
  <2>2. (len + 1) * n = len * n + n /\ q * n \in Nat /\ len * n \in Nat
    BY <1>1, SMTT(30)
  <2>3. QED
    BY <1>1, <2>1, <2>2
<1>3. QED
  BY <1>1, <1>2 DEF q

\* Products of the walk are natural numbers.
LEMMA SendProduct == ASSUME NEW a \in Nat, NEW b \in Nat PROVE a * b \in Nat
BY SMTT(30)

\* What all steps round off together is less than one connection's share of a step.
LEMMA RoundingIsSmall ==
  ASSUME NEW t \in 0 .. MaxTicks
  PROVE  /\ t * Rounding \in Nat /\ t * Rounding <= Step
         /\ \A len \in Nat \ {0} : t * Rounding <= len * Step
         /\ t + 1 <= MaxTicks => Rounding <= Step
<1>1. \A a, b \in Nat : a <= b => a * Rounding <= b * Rounding /\ a * Rounding \in Nat
  BY SendNumbers, SMTT(30)
<1>2. MaxTicks * Rounding <= Step /\ 1 * Rounding = Rounding
  BY RoundingAssumption, SendNumbers DEF RoundingAssumption
<1>3. t \in Nat /\ t <= MaxTicks /\ MaxTicks * Rounding \in Nat
  BY <1>1, SendNumbers
<1>4. t * Rounding \in Nat /\ t * Rounding <= Step
  BY <1>1, <1>2, <1>3, SendNumbers
<1>5. \A len \in Nat \ {0} : Step <= len * Step /\ len * Step \in Nat
  BY SendNumbers, SMTT(30)
<1>6. t + 1 <= MaxTicks => Rounding <= Step
  <2>1. 1 <= MaxTicks => 1 * Rounding <= MaxTicks * Rounding
    BY <1>1, SendNumbers
  <2>2. QED
    BY <1>2, <1>3, <2>1, SendNumbers
<1>7. QED
  BY <1>4, <1>5, <1>6, SendNumbers

\* The sum that a step truncates is the exact one but for its rounding.
LEMMA SumIsNear ==
  ASSUME SendInv, ticks < MaxTicks, NEW owed \in RoundedSums
  PROVE  /\ owed \in Nat
         /\ owed <= carry + Len(conns) * Step + Rounding
         /\ carry + Len(conns) * Step <= owed + Rounding
         /\ Fits => owed < Len(conns) * Interval + Interval
<1> DEFINE len == Len(conns)
<1>1. len \in Nat /\ carry \in Nat /\ carry < Interval /\ ticks \in 0 .. MaxTicks
  BY ListIsShort, SendNumbers DEF SendInv, SendTypeOK
<1>2. len * Step \in Nat /\ len * Interval \in Nat
  BY <1>1, SendNumbers, SendProduct
<1>3. CASE conns = << >>
  <2>1. owed = carry + len * Step /\ len = 0
    BY <1>3 DEF RoundedSums
  <2>2. owed = carry /\ len * Interval = 0 /\ len * Step = 0
    BY <1>1, <2>1, SendNumbers
  <2>3. QED
    BY <1>1, <1>2, <2>1, <2>2, SendNumbers
<1>4. CASE conns # << >>
  <2>1. len > 0
    BY <1>1, <1>4 DEF SendInv, RegInv, TypeOK
  <2> DEFINE exact == carry + Len(conns) * Step
  <2>2. owed \in exact - Rounding .. exact + Rounding
    <3>1. RoundedSums = IF conns = << >> THEN {exact} ELSE exact - Rounding .. exact + Rounding
      BY DEF RoundedSums
    <3> HIDE DEF exact
    <3>2. QED
      BY <1>4, <3>1
  <2>e. exact = carry + len * Step
    OBVIOUS
  <2> HIDE DEF len, exact
  <2>3. Rounding <= Step
    BY <1>1, SendNumbers, RoundingIsSmall
  <2>4. Step <= len * Step
    BY <1>1, <2>1, SendNumbers, SMTT(30)
  <2>5. Fits => len * Step + Rounding <= len * Interval
    <3>1. Fits => len * (Step + Rounding) <= len * Interval
      <4>1. \A a, b \in Nat : a <= b => len * a <= len * b
        BY <1>1, SMTT(30)
      <4>2. Step + Rounding \in Nat /\ Interval \in Nat
        BY SendNumbers
      <4>3. QED
        BY <4>1, <4>2 DEF Fits
    <3>2. len * (Step + Rounding) = len * Step + len * Rounding
      BY <1>1, SendNumbers, SMTT(30)
    <3>3. Rounding <= len * Rounding /\ len * Rounding \in Nat
      BY <1>1, <2>1, SendNumbers, SMTT(30)
    <3>4. QED
      BY <1>2, <3>1, <3>2, <3>3, SendNumbers
  <2>6. QED
    BY <1>1, <1>2, <2>2, <2>e, <2>3, <2>4, <2>5, SendNumbers DEF len
<1>5. QED
  BY <1>3, <1>4

\* The loop starts with nothing sent, due or carried.
LEMMA InitSendInv == SendInit => SendInv
<1>1. SUFFICES ASSUME SendInit
               PROVE  SendInv
  OBVIOUS
<1>2. Init
  BY <1>1 DEF SendInit
<1>3. RegInv /\ Len(conns) = 0
  <2>1. RegInv
    BY <1>2, InitEstablishes
  <2>2. conns = << >>
    BY <1>2 DEF Init
  <2>3. QED
    BY <2>1, <2>2
<1>4. SendTypeOK
  <2>1. Cardinality(Conn) \in Nat
    BY SendAssumption, FS_CardinalityType
  <2>2. /\ pc = "wait" /\ due = 0 /\ cursor = 0 /\ carry = 0 /\ ticks = 0 /\ changes = 0
        /\ turns \in [stored -> Nat]
    BY <1>1 DEF SendInit
  <2>3. QED
    BY <1>3, <2>1, <2>2, SendNumbers DEF SendTypeOK, RegInv
<1>5. Walked
  BY <1>3 DEF Walked
<1>6. QED
  BY <1>3, <1>4, <1>5 DEF SendInv

\* The share of a step is due or carried.
LEMMA CountKeeps ==
  ASSUME SendInv, Count, RegInv'
  PROVE  SendInv'
<1> DEFINE len == Len(conns)
<1>0. PICK owed \in RoundedSums : due' = owed \div Interval /\ carry' = owed % Interval
  BY DEF Count
<1>1. /\ pc = "wait" /\ pc' = "take" /\ due' = owed \div Interval /\ carry' = owed % Interval
      /\ ticks < MaxTicks /\ ticks' = ticks + 1
      /\ cursor' = cursor /\ turns' = turns /\ changes' = changes
      /\ conns' = conns /\ slot' = slot /\ closed' = closed /\ reply' = reply
  BY <1>0 DEF Count, regVars
<1>2. len \in Nat /\ carry \in Nat /\ carry < Interval /\ ticks \in Nat
  BY ListIsShort, SendNumbers DEF SendInv, SendTypeOK
<1>3. /\ owed \in Nat /\ len * Step \in Nat
      /\ owed <= carry + len * Step + Rounding /\ carry + len * Step <= owed + Rounding
      /\ Fits => owed < len * Interval + Interval
  BY <1>0, <1>1, <1>2, SendNumbers, SendProduct, SumIsNear
<1>4. due' \in Nat /\ carry' \in 0 .. Interval - 1
  BY <1>1, <1>3, SendNumbers, Owed
<1>5. SendTypeOK'
  <2>1. TypeOK' /\ stored' = stored
    BY <1>1 DEF RegInv, stored
  <2>2. ticks' \in 0 .. MaxTicks
    BY <1>1, <1>2, SendNumbers
  <2>3. QED
    BY <1>1, <1>4, <2>1, <2>2 DEF SendInv, SendTypeOK
<1>6. ASSUME NEW q \in Nat, NEW m \in 0 .. len - 1, Balance(q, m)
      PROVE  Balance(q, m)'
  <2> DEFINE a == q * len + m
             d == Pending'
             total == (a + d) * Interval + carry'
             before == (a + 0) * Interval + carry
             shares == ticks * (len * Step)
           rounded == ticks * Rounding
  <2>1. a \in Nat /\ before \in Nat /\ shares \in Nat /\ rounded \in Nat
    BY <1>2, <1>3, SendNumbers, SendProduct
  <2>2. d \in Nat /\ d <= due' /\ (due' <= len => d = due')
    BY <1>1, <1>2, <1>4 DEF Pending, Clamp
  <2>3. Fits => d = due'
    <3> SUFFICES ASSUME Fits PROVE due' <= len
      BY <2>2
    <3>1. owed \in Nat /\ owed < len * Interval + Interval /\ Interval \in Nat \ {0}
      BY <1>3, SendNumbers
    <3> HIDE DEF len
    <3>2. owed \div Interval <= len
      BY <1>2, <3>1, DueFits
    <3>3. QED
      BY <1>1, <3>2
  <2>4. /\ total \in Nat
        /\ total <= before + len * Step + Rounding
        /\ Fits => before + len * Step <= total + Rounding
    <3> HIDE DEF a, d
    <3>1. (a + 0) * Interval \in Nat /\ (a + d) * Interval \in Nat
      BY <2>1, <2>2, SendNumbers, SendProduct
    <3>2. /\ (a + d) * Interval + (owed % Interval) <= (a + 0) * Interval + owed
          /\ d = owed \div Interval => (a + d) * Interval + (owed % Interval) = (a + 0) * Interval + owed
      BY <1>1, <1>3, <2>1, <2>2, SendNumbers, Owed
    <3> HIDE DEF len
    <3>3. QED
      BY <1>1, <1>2, <1>3, <1>4, <2>3, <3>1, <3>2, SendNumbers
  <2>5. ticks' * (len * Step) = shares + len * Step /\ ticks' * Rounding = rounded + Rounding
    <3>1. \A x \in Nat : (ticks + 1) * x = ticks * x + x
      BY <1>2, SMTT(30)
    <3>2. QED
      BY <1>1, <1>3, <3>1, SendNumbers
  <2>6. /\ before < shares + rounded + (len + 1) * Interval
        /\ Fits => shares <= before + rounded
    BY <1>1, <1>6 DEF Balance, Pending
  <2>7. (len + 1) * Interval \in Nat
    BY <1>2, SendNumbers, SendProduct
  <2> HIDE DEF total, before, shares, rounded
  <2>8. /\ total < ticks' * (len * Step) + ticks' * Rounding + (len + 1) * Interval
        /\ Fits => ticks' * (len * Step) <= total + ticks' * Rounding
    <3> HIDE DEF len
    <3>1. QED
      BY <1>3, <2>1, <2>4, <2>5, <2>6, <2>7, SendNumbers
  <2>9. QED
    BY <1>1, <2>8 DEF Balance, total, Fits
<1>7. Walked'
  <2>1. ASSUME NEW q \in Nat, NEW s \in 0 .. len - 1, NEW m \in 0 .. len - 1, Lap(q, s, m)
        PROVE  Lap(q, s, m)'
    BY <1>1, <2>1 DEF Lap
  <2>2. Walked
    BY DEF SendInv
  <2>3. QED
    BY <1>1, <1>6, <2>1, <2>2 DEF Walked
<1>8. QED
  BY <1>5, <1>7 DEF SendInv

\* The batch goes on where the one before ended.
LEMMA TakeKeeps ==
  ASSUME SendInv, Take, RegInv'
  PROVE  SendInv'
<1> DEFINE len == Len(conns)
           n == Clamp(due)
           batch == Batch(cursor, due)
           gets(c) == Cardinality({k \in DOMAIN batch : batch[k] = c})
<1>1. /\ pc = "take" /\ pc' = "wait" /\ due' = 0 /\ cursor' = NextCursor(cursor, due)
      /\ turns' = [c \in stored |-> turns[c] + gets(c)]
      /\ ticks' = ticks /\ carry' = carry /\ changes' = changes
      /\ conns' = conns /\ slot' = slot /\ closed' = closed /\ reply' = reply
  BY DEF Take, regVars
<1>2. /\ len \in Nat /\ len <= Cardinality(Conn) /\ Cardinality(Conn) \in Nat
      /\ due \in Nat /\ n \in 0 .. len /\ cursor \in Nat
      /\ turns \in [stored -> Nat]
  BY ListIsShort DEF SendInv, SendTypeOK, Clamp
<1>3. \A i \in 1 .. len : gets(conns[i]) = Ind(InArc(len, cursor % len, n, i))
  BY <1>2, BatchTurns DEF SendInv
<1>4. \A i \in 1 .. len : conns[i] \in stored
  BY ListIsShort DEF SendInv
<1>5. len > 0 => cursor' = Wrap(len, (cursor % len) + n) /\ cursor % len \in 0 .. len - 1
  <2>1. SUFFICES ASSUME len > 0 
                 PROVE  cursor' = Wrap(len, (cursor % len) + n) /\ cursor % len \in 0 .. len - 1
    OBVIOUS
  <2>2. conns # << >>
    BY <2>1
  <2>3. cursor' = (cursor + n) % len
    BY <1>1, <2>2 DEF NextCursor
  <2> HIDE DEF len, n
  <2>4. len \in Nat \ {0}
    BY <1>2, <2>1
  <2>5. (cursor + n) % len = Wrap(len, (cursor % len) + n) /\ cursor % len \in 0 .. len - 1
    BY <1>2, <2>4, Wrapped
  <2>6. QED
    BY <2>3, <2>5
<1>6. SendTypeOK'
  <2>1. TypeOK' /\ stored' = stored
    BY <1>1 DEF RegInv, stored
  <2>2. cursor' \in 0 .. Cardinality(Conn)
    <3>1. CASE len > 0
      <4> HIDE DEF len, n
      <4>1. QED
        BY <1>2, <1>5, <3>1 DEF Wrap
    <3>2. CASE len = 0
      <4>1. conns = << >>
        BY <3>2 DEF SendInv, RegInv, TypeOK
      <4>2. QED
        BY <1>1, <1>2, <4>1 DEF NextCursor
    <3>3. QED
      BY <1>2, <3>1, <3>2
  <2>3. \A c \in stored : gets(c) \in Nat
    <3> HIDE DEF gets, len, n
    <3>1. \A c \in stored : \E i \in 1 .. len : c = conns[i]
      BY ListIsShort DEF SendInv, len
    <3>2. QED
      BY <1>3, <3>1 DEF Ind
  <2> HIDE DEF gets
  <2>4. turns' \in [stored -> Nat]
    BY <1>1, <1>2, <2>3
  <2>5. QED
    BY <1>1, <2>1, <2>2, <2>4 DEF SendInv, SendTypeOK
<1>7. Walked'
  <2>1. SUFFICES ASSUME len > 0
                 PROVE  \E q \in Nat, s, m \in 0 .. len - 1 : Lap(q, s, m)' /\ Balance(q, m)'
    BY <1>1 DEF Walked
  <2>2. PICK q \in Nat, s \in 0 .. len - 1, m \in 0 .. len - 1 : Lap(q, s, m) /\ Balance(q, m)
    BY <2>1 DEF SendInv, Walked
  <2> DEFINE r == Wrap(len, s + m)
  <2>3. len \in Nat \ {0} /\ cursor % len = r
    BY <1>2, <2>1, <2>2 DEF Lap
  <2>4. PICK p \in Nat, l \in 0 .. len - 1 :
          \/ m + n < len /\ p = q /\ l = m + n
          \/ m + n >= len /\ p = q + 1 /\ l = m + n - len
    <3> HIDE DEF len, n
    <3>1. CASE m + n < len
      BY <1>2, <2>2, <2>3, <3>1
    <3>2. CASE m + n >= len
      BY <1>2, <2>2, <2>3, <3>2
    <3>3. QED
      BY <1>2, <2>2, <2>3, <3>1, <3>2
  <2>5. /\ r \in 0 .. len - 1
        /\ Wrap(len, r + n) = Wrap(len, s + l)
        /\ \A i \in 1 .. len : q + Ind(InArc(len, s, m, i)) + Ind(InArc(len, r, n, i))
                               = p + Ind(InArc(len, s, l, i))
    <3> HIDE DEF len, n
    <3>1. ASSUME NEW i \in 1 .. len
          PROVE  /\ r \in 0 .. len - 1
                 /\ Wrap(len, r + n) = Wrap(len, s + l)
                 /\ q + Ind(InArc(len, s, m, i)) + Ind(InArc(len, r, n, i))
                      = p + Ind(InArc(len, s, l, i))
      <4>1. /\ r \in 0 .. len - 1
            /\ m + n < len =>
                 /\ Ind(InArc(len, s, m, i)) + Ind(InArc(len, r, n, i)) = Ind(InArc(len, s, m + n, i))
                 /\ Wrap(len, r + n) = Wrap(len, s + (m + n))
            /\ m + n >= len =>
                 /\ Ind(InArc(len, s, m, i)) + Ind(InArc(len, r, n, i))
                      = 1 + Ind(InArc(len, s, m + n - len, i))
                 /\ Wrap(len, r + n) = Wrap(len, s + (m + n - len))
        <5>1. /\ len \in Nat \ {0} /\ s \in 0 .. len - 1 /\ m \in 0 .. len - 1
              /\ n \in 0 .. len /\ i \in 1 .. len
          BY <1>2, <2>3
        <5>2. QED
          BY ONLY <5>1, ArcsMeet
      <4>2. \A a \in Int : Ind(InArc(len, s, a, i)) \in Nat
        BY DEF Ind
      <4>3. Ind(InArc(len, r, n, i)) \in Nat
        BY DEF Ind
      <4> HIDE DEF r
      <4>4. CASE m + n < len /\ p = q /\ l = m + n
        BY <1>2, <4>1, <4>2, <4>3, <4>4
      <4>5. CASE m + n >= len /\ p = q + 1 /\ l = m + n - len
        BY <1>2, <4>1, <4>2, <4>3, <4>5
      <4>6. QED
        BY <2>4, <4>4, <4>5
    <3>2. 1 \in 1 .. len
      BY <2>3
    <3> HIDE DEF r
    <3>3. QED
      BY <3>1, <3>2
  <2>6. Lap(p, s, l)'
    <3>1. ASSUME NEW i \in 1 .. len
          PROVE  turns'[conns[i]] = p + Ind(InArc(len, s, l, i))
      <4>1. turns'[conns[i]] = turns[conns[i]] + gets(conns[i])
        BY <1>1, <1>4
      <4>2. turns[conns[i]] = q + Ind(InArc(len, s, m, i))
        BY <2>2 DEF Lap
      <4>3. gets(conns[i]) = Ind(InArc(len, r, n, i))
        BY <1>3, <2>3
      <4> HIDE DEF gets, len, n, r
      <4>4. QED
        BY <2>5, <4>1, <4>2, <4>3
    <3>2. cursor' % len = Wrap(len, s + l)
      <4> HIDE DEF len, n, r
      <4>1. cursor' = Wrap(len, s + l)
        BY <1>5, <2>1, <2>3, <2>5
      <4>2. Wrap(len, s + l) \in 0 .. len - 1
        BY <2>2, <2>3 DEF Wrap
      <4>3. \A x \in 0 .. len - 1 : x % len = x
        BY <2>3, SMTT(30)
      <4>4. QED
        BY <4>1, <4>2, <4>3
    <3>3. QED
      BY <1>1, <3>1, <3>2 DEF Lap
  <2>7. Balance(p, l)'
    <3>1. p * len + l + 0 = q * len + m + n
      <4> HIDE DEF len, n
      <4>1. q * len \in Nat /\ (q + 1) * len = q * len + len
        BY <2>2, <2>3, SMTT(30)
      <4>2. QED
        BY <1>2, <2>2, <2>3, <2>4, <4>1
    <3>2. Pending = n /\ Pending' = 0
      BY <1>1 DEF Pending
    <3>3. p * len + l + Pending' = q * len + m + Pending
      BY <3>1, <3>2
    <3>4. QED
      BY <1>1, <2>2, <3>3 DEF Balance
  <2>8. QED
    BY <2>6, <2>7
<1>8. QED
  BY <1>6, <1>7 DEF SendInv

\* A list that is another one starts the tallies over; one that is the same keeps them.
LEMMA ChangeKeeps ==
  ASSUME SendInv, Change, RegInv'
  PROVE  SendInv'
<1> DEFINE len == Len(conns)'
<1>1. /\ changes < MaxChanges /\ changes' = changes + 1
      /\ pc' = pc /\ due' = due /\ cursor' = cursor /\ carry' = carry
      /\ IF conns' = conns THEN ticks' = ticks /\ turns' = turns
                           ELSE ticks' = 0 /\ turns' = [c \in stored' |-> 0]
  BY DEF Change, loopVars
<1>2. len \in Nat /\ \A i \in 1 .. len : conns'[i] \in stored'
  <2>1. conns' \in Seq(Conn)
    BY DEF RegInv, TypeOK
  <2>2. \A i \in 1 .. len : conns'[i] \in stored'
    BY DEF RegInv, SlotsMatch
  <2>3. QED
    BY <2>1, <2>2
<1>3. /\ pc \in {"wait", "take"} /\ due \in Nat /\ cursor \in Nat
      /\ carry \in 0 .. Interval - 1 /\ changes \in Nat
  BY ListIsShort DEF SendInv, SendTypeOK
<1>4. conns' = conns => stored' = stored
  <2>1. ASSUME conns' = conns PROVE stored' = stored
    <3>1. /\ \A i \in 1 .. len : conns[i] \in stored'
          /\ \A c \in stored' : \E i \in 1 .. len : c = conns[i]
      BY <2>1 DEF RegInv, SlotsMatch
    <3>2. /\ \A i \in 1 .. len : conns[i] \in stored
          /\ \A c \in stored : \E i \in 1 .. len : c = conns[i]
      BY <2>1, ListIsShort DEF SendInv
    <3> HIDE DEF len
    <3>3. stored' \subseteq stored /\ stored \subseteq stored'
      BY <3>1, <3>2
    <3>4. QED
      BY <3>3
  <2>2. QED
    BY <2>1
<1>5. SendTypeOK'
  <2>1. ticks' \in 0 .. MaxTicks /\ changes' \in 0 .. MaxChanges
    BY <1>1, <1>3, SendNumbers DEF SendInv, SendTypeOK
  <2>2. turns' \in [stored' -> Nat]
    BY <1>1, <1>4 DEF SendInv, SendTypeOK
  <2>3. TypeOK'
    BY DEF RegInv
  <2>4. QED
    BY <1>1, <2>1, <2>2, <2>3 DEF SendInv, SendTypeOK
<1>6. Walked'
  <2>1. CASE conns' = conns
    <3>1. Pending' = Pending
      BY <1>1, <2>1 DEF Pending, Clamp
    <3>2. ASSUME NEW q \in Nat, NEW s \in 0 .. len - 1, NEW m \in 0 .. len - 1,
                 Lap(q, s, m), Balance(q, m)
          PROVE  Lap(q, s, m)' /\ Balance(q, m)'
      BY <1>1, <2>1, <3>1, <3>2 DEF Lap, Balance
    <3>3. QED
      BY <2>1, <3>2 DEF SendInv, Walked
  <2>2. CASE conns' # conns
    <3>1. SUFFICES ASSUME len > 0
                   PROVE  \E q \in Nat, s, m \in 0 .. len - 1 : Lap(q, s, m)' /\ Balance(q, m)'
      BY DEF Walked
    <3>2. PICK s \in 0 .. len - 1 : s = cursor' % len
      <4> HIDE DEF len
      <4>1. cursor' % len \in 0 .. len - 1
        BY <1>1, <1>2, <1>3, <3>1, Wrapped
      <4>2. QED
        BY <4>1
    <3>3. Lap(0, s, 0)'
      <4>1. \A i \in 1 .. len : turns'[conns'[i]] = 0
        BY <1>1, <1>2, <2>2
      <4>2. \A i \in 1 .. len : Ind(InArc(len, s, 0, i)) = 0
        <5> HIDE DEF len
        <5>1. QED
          BY <1>2, <3>2 DEF Ind, InArc
      <4>3. Wrap(len, s + 0) = s
        <5> HIDE DEF len
        <5>1. QED
          BY <1>2, <3>2 DEF Wrap
      <4>4. QED
        BY <3>2, <4>1, <4>2, <4>3 DEF Lap
    <3>4. Balance(0, 0)'
      <4>1. Pending' \in 0 .. len
        BY <1>1, <1>2, <1>3 DEF Pending, Clamp
      <4>2. /\ len * Step \in Nat /\ 0 * (len * Step) = 0 /\ 0 * Rounding = 0
            /\ (0 * len + 0 + Pending') = Pending'
        BY <1>2, <4>1, SendNumbers, SMTT(30)
      <4>3. (Pending' + 1) * Interval <= (len + 1) * Interval /\ (len + 1) * Interval \in Nat
        BY <1>2, <4>1, SendNumbers, SMTT(30)
      <4>4. (Pending' + 1) * Interval = Pending' * Interval + Interval /\ Pending' * Interval \in Nat
        <5>1. Pending' \in Nat
          BY <1>2, <4>1
        <5>2. \A a \in Nat : (a + 1) * Interval = a * Interval + Interval /\ a * Interval \in Nat
          BY SendNumbers, SMTT(30)
        <5>3. QED
          BY <5>1, <5>2
      <4>5. /\ Pending' * Interval + carry' < 0 + 0 + (len + 1) * Interval
            /\ 0 <= Pending' * Interval + carry' + 0
        BY <1>1, <1>3, <4>3, <4>4, SendNumbers
      <4>6. ticks' = 0
        BY <1>1, <2>2
      <4>7. QED
        BY <4>2, <4>5, <4>6 DEF Balance
    <3>5. QED
      BY <3>1, <3>2, <3>3, <3>4
  <2>3. QED
    BY <2>1, <2>2
<1>7. QED
  BY <1>5, <1>6 DEF SendInv

\* Every step of the loop and of the registry keeps the invariant.
LEMMA SendStep ==
  ASSUME SendInv, [SendNext]_sendVars
  PROVE  SendInv'
<1>1. RegInv'
  <2>1. [Next]_regVars
    BY DEF SendNext, Count, Take, Change, sendVars
  <2>2. QED
    BY <2>1, CallsPreserve DEF SendInv
<1>2. CASE Count
  BY <1>1, <1>2, CountKeeps
<1>3. CASE Take
  BY <1>1, <1>3, TakeKeeps
<1>4. CASE Change
  BY <1>1, <1>4, ChangeKeeps
<1>5. CASE UNCHANGED sendVars
  <2>1. SendTypeOK'
    BY <1>5 DEF SendInv, SendTypeOK, TypeOK, stored, sendVars, regVars, loopVars
  <2>2. Walked'
    BY <1>5 DEF SendInv, Walked, Lap, Balance, Pending, Clamp, sendVars, regVars, loopVars
  <2>3. QED
    BY <1>1, <2>1, <2>2 DEF SendInv
<1>6. QED
  BY <1>2, <1>3, <1>4, <1>5 DEF SendNext

\* The invariant holds in every state.
LEMMA SendInvHolds == SendSpec => []SendInv
BY InitSendInv, SendStep, PTL DEF SendSpec

\* The cursor never lies past the longest list, what is carried is less than a message,
\* and a tally is kept for exactly the stored connections (main.go:211-231).
THEOREM SendLoopTypes == SendSpec => []SendTypeOK
<1>1. SendInv => SendTypeOK
  BY DEF SendInv
<1>2. QED
  BY <1>1, SendInvHolds, PTL

\* What a stored connection has been sent: the whole laps, and one more on the way.
LEMMA TurnsOfLap ==
  ASSUME SendInv, NEW c \in stored
  PROVE  /\ Len(conns) \in Nat \ {0}
         /\ \E q \in Nat, s, m \in 0 .. Len(conns) - 1 :
              /\ Lap(q, s, m) /\ Balance(q, m)
              /\ turns[c] = q \/ (turns[c] = q + 1 /\ m > 0)
<1>1. PICK i \in 1 .. Len(conns) : c = conns[i]
  BY ListIsShort DEF SendInv
<1>2. Len(conns) \in Nat \ {0}
  BY <1>1, ListIsShort DEF SendInv
<1>3. PICK q \in Nat, s \in 0 .. Len(conns) - 1, m \in 0 .. Len(conns) - 1 :
        Lap(q, s, m) /\ Balance(q, m)
  BY <1>2 DEF SendInv, Walked
<1>4. turns[c] = q + Ind(InArc(Len(conns), s, m, i))
  BY <1>1, <1>3 DEF Lap
<1>5. m = 0 => ~ InArc(Len(conns), s, m, i)
  BY <1>1, <1>2, <1>3 DEF InArc
<1>6. turns[c] = q \/ (turns[c] = q + 1 /\ m > 0)
  BY <1>3, <1>4, <1>5 DEF Ind
<1>7. QED
  BY <1>2, <1>3, <1>6

\* While the registry stays as it is no connection is two messages ahead of another,
\* for any list, step and interval, wherever the cursor was left (main.go:203,
\* registry.go:75-90).
THEOREM MessagesAreEven == SendSpec => []Even
<1>1. SendInv => Even
  <2>1. SUFFICES ASSUME SendInv, NEW c \in stored, NEW d \in stored
                 PROVE  turns[c] <= turns[d] + 1
    BY DEF Even
  <2>2. PICK i \in 1 .. Len(conns), j \in 1 .. Len(conns) : c = conns[i] /\ d = conns[j]
    BY <2>1, ListIsShort DEF SendInv
  <2>3. Len(conns) > 0
    BY <2>1, TurnsOfLap
  <2>4. PICK q \in Nat, s \in 0 .. Len(conns) - 1, m \in 0 .. Len(conns) - 1 : Lap(q, s, m)
    BY <2>1, <2>3 DEF SendInv, Walked
  <2>5. turns[c] \in {q, q + 1} /\ turns[d] \in {q, q + 1}
    BY <2>2, <2>4 DEF Lap, Ind
  <2>6. QED
    BY <2>4, <2>5
<1>2. QED
  BY <1>1, SendInvHolds, PTL

\* Shares and turns, per connection: with t whole intervals behind, as many laps are
\* done up to what is carried, and at most two more.
LEMMA TurnsInTime ==
  ASSUME NEW n \in Nat \ {0}, NEW len \in Nat \ {0}, NEW q \in Nat, NEW m \in 0 .. len - 1,
         NEW w \in Nat
  PROVE  /\ w \div n \in Nat
         /\ (w * len < (q * len + m + 1) * n) => w \div n <= q
         /\ ((q * len + m) * n < w * len + (len + 1) * n) =>
               q + 1 <= w \div n + 2 \/ (q = w \div n + 2 /\ m = 0)
<1> DEFINE t == w \div n
<1>1. t \in Nat /\ t * n <= w /\ w + 1 <= (t + 1) * n /\ t * n \in Nat /\ (t + 1) * n \in Nat
  BY SMTT(30)
<1> HIDE DEF t
<1>2. \A a, b \in Nat : a <= b => a * len <= b * len /\ a * n <= b * n
  BY SMTT(30)
<1>3. \A a, b \in Nat : /\ a * len \in Nat /\ a * n \in Nat
                        /\ (a + b) * len = a * len + b * len
                        /\ (a + b) * n = a * n + b * n
                        /\ (a * n) * len = (a * len) * n
  BY SMTT(30)
<1>4. 1 * len = len /\ 1 * n = n /\ 2 * len = len + len
  OBVIOUS
<1>5. ASSUME w * len < (q * len + m + 1) * n, q + 1 <= t
      PROVE  FALSE
  <2>1. (t * n) * len <= w * len
    BY <1>1, <1>2
  <2>2. (q * len + len) * n <= (t * len) * n
    <3>1. (q + 1) * len <= t * len
      BY <1>1, <1>2, <1>5
    <3>2. QED
      BY <1>1, <1>2, <1>3, <1>4, <3>1
  <2>3. (q * len + m + 1) * n <= (q * len + len) * n
    BY <1>2, <1>3
  <2>4. (t * n) * len = (t * len) * n
    BY <1>1, <1>3
  <2>5. /\ w * len \in Nat /\ (t * len) * n \in Nat /\ (q * len + len) * n \in Nat
        /\ (q * len + m + 1) * n \in Nat
    BY <1>1, <1>3
  <2>6. QED
    BY <1>5, <2>1, <2>2, <2>3, <2>4, <2>5
<1>6. ASSUME (q * len + m) * n < w * len + (len + 1) * n,
             q >= t + 2, q > t + 2 \/ m > 0
      PROVE  FALSE
  <2>1. (w + 1) * len <= ((t + 1) * n) * len
    BY <1>1, <1>2
  <2>2. ((t + 1) * n) * len = ((t + 1) * len) * n
    BY <1>1, <1>3
  <2>3. (t + 1) * len + len + 1 <= q * len + m
    <3>1. (t + 1) * len + len = (t + 2) * len
      BY <1>1, <1>3, <1>4
    <3>2. (t + 2) * len <= q * len
      BY <1>1, <1>2, <1>6
    <3>3. q > t + 2 => (t + 2) * len + len <= q * len
      <4>1. q > t + 2 => (t + 3) * len <= q * len
        BY <1>1, <1>2
      <4>2. (t + 3) * len = (t + 2) * len + len
        BY <1>1, <1>3, <1>4
      <4>3. QED
        BY <4>1, <4>2
    <3>4. (t + 2) * len \in Nat /\ q * len \in Nat
      BY <1>1, <1>3
    <3>5. QED
      BY <1>6, <3>1, <3>2, <3>3, <3>4
  <2>4. ((t + 1) * len) * n + (len + 1) * n <= (q * len + m) * n
    <3>1. (t + 1) * len \in Nat /\ q * len \in Nat
      BY <1>1, <1>3
    <3>2. ((t + 1) * len + (len + 1)) * n <= (q * len + m) * n
      BY <1>2, <2>3, <3>1
    <3>3. ((t + 1) * len + (len + 1)) * n = ((t + 1) * len) * n + (len + 1) * n
      BY <1>3, <3>1
    <3>4. QED
      BY <3>2, <3>3
  <2>5. (w + 1) * len = w * len + len
    BY <1>3, <1>4
  <2>6. /\ w * len \in Nat /\ ((t + 1) * len) * n \in Nat /\ (len + 1) * n \in Nat
        /\ (q * len + m) * n \in Nat
    BY <1>1, <1>3
  <2>7. QED
    BY <1>6, <2>1, <2>2, <2>4, <2>5, <2>6
<1>7. QED
  BY <1>1, <1>5, <1>6 DEF t

\* The balance in the terms of that lemma: what was rounded is less than one step more.
LEMMA BalanceOfTurns ==
  ASSUME SendInv, NEW q \in Nat, NEW m \in 0 .. Len(conns) - 1, Balance(q, m),
         Len(conns) \in Nat \ {0}
  PROVE  LET len == Len(conns)
             more == (ticks + 1) * Step
             less == (ticks - 1) * Step
         IN  /\ more \in Nat
             /\ (q * len + m) * Interval < more * len + (len + 1) * Interval
             /\ ticks > 0 => less \in Nat
             /\ (pc = "wait" /\ ticks > 0 /\ Fits) => less * len < (q * len + m + 1) * Interval
<1> DEFINE len == Len(conns)
           a == q * len + m
           w == ticks * (len * Step)
           one == len * Step
           rounded == ticks * Rounding
           more == (ticks + 1) * Step
           less == (ticks - 1) * Step
<1>1. /\ carry \in Nat /\ carry < Interval /\ ticks \in 0 .. MaxTicks /\ ticks \in Nat
      /\ Pending \in Nat /\ (pc = "wait" => Pending = 0)
  BY SendNumbers DEF SendInv, SendTypeOK, Pending, Clamp
<1>2. one \in Nat /\ w \in Nat /\ q * len \in Nat /\ more \in Nat /\ (ticks > 0 => less \in Nat)
  <2>1. ticks > 0 => ticks - 1 \in Nat
    BY <1>1
  <2>2. ticks + 1 \in Nat /\ Step \in Nat
    BY <1>1, SendNumbers
  <2>3. QED
    BY <1>1, <2>1, <2>2, SendProduct
<1>3. a \in Nat
  BY <1>2
<1>4. /\ (a + Pending) * Interval + carry < w + rounded + (len + 1) * Interval
      /\ Fits => w <= (a + Pending) * Interval + carry + rounded
  BY DEF Balance
<1>5. rounded \in Nat /\ rounded <= one
  BY <1>1, RoundingIsSmall
<1>6. \A x, y \in Nat : /\ x * Interval \in Nat
                        /\ (x + y) * Interval = x * Interval + y * Interval
  BY SendNumbers, SMTT(30)
<1>7. 1 * Interval = Interval /\ a + 0 = a /\ (len + 1) * Interval \in Nat
  BY <1>3, <1>6, SendNumbers
<1>8. more * len = w + one /\ (ticks > 0 => less * len = w - one)
  <2>0. len \in Nat /\ ticks + 1 \in Nat
    BY <1>1
  <2> HIDE DEF len
  <2>1. \A t, l \in Nat : (t * Step) * l = t * (l * Step) /\ l * Step \in Nat
    BY SendNumbers, SMTT(30)
  <2>2. \A x, y \in Nat : (x + 1) * y = x * y + y
    BY SMTT(30)
  <2>3. more * len = (ticks + 1) * one
    BY <2>0, <2>1
  <2>4. (ticks + 1) * one = w + one
    BY <1>1, <1>2, <2>2
  <2>5. ASSUME ticks > 0 PROVE less * len = w - one
    <3> DEFINE t == ticks - 1
    <3>1. t \in Nat /\ t + 1 = ticks
      BY <1>1, <2>5
    <3> HIDE DEF t
    <3>2. (t * Step) * len = t * one
      BY <2>0, <2>1, <3>1
    <3>3. (t + 1) * one = t * one + one
      BY <1>2, <2>2, <3>1
    <3>4. t * one \in Nat
      BY <1>2, <3>1, SendProduct
    <3>5. w = (t + 1) * one /\ less = t * Step
      BY <3>1 DEF t
    <3> HIDE DEF w, one, less
    <3>6. QED
      BY <1>2, <3>2, <3>3, <3>4, <3>5
  <2>6. QED
    BY <2>3, <2>4, <2>5
<1> HIDE DEF a, w, one, rounded, more, less, len
<1>9. a * Interval < more * len + (len + 1) * Interval
  <2>1. (a + Pending) * Interval = a * Interval + Pending * Interval
    BY <1>1, <1>3, <1>6
  <2>2. a * Interval \in Nat /\ Pending * Interval \in Nat
    BY <1>1, <1>3, <1>6
  <2> DEFINE x == a * Interval
             p == Pending * Interval
             k == (len + 1) * Interval
             l == more * len
  <2>3. /\ x \in Nat /\ p \in Nat /\ k \in Nat /\ w \in Nat /\ one \in Nat
        /\ carry \in Nat /\ rounded \in Nat
        /\ x + p + carry < w + rounded + k /\ rounded <= one /\ l = w + one
    BY <1>1, <1>2, <1>4, <1>5, <1>7, <1>8, <2>1, <2>2
  <2> HIDE DEF x, p, k, l
  <2>4. x < l + k
    BY ONLY <2>3
  <2>5. QED
    BY <2>4 DEF x, k, l
<1>10. (pc = "wait" /\ ticks > 0 /\ Fits) => less * len < (a + 1) * Interval
  <2>1. (a + 1) * Interval = a * Interval + Interval /\ a * Interval \in Nat
    <3>1. (a + 1) * Interval = a * Interval + 1 * Interval /\ a * Interval \in Nat
      BY <1>3, <1>6
    <3>2. QED
      BY <1>7, <3>1
  <2>2. pc = "wait" => a + Pending = a
    BY <1>1, <1>3
  <2>3. SUFFICES ASSUME pc = "wait", ticks > 0, Fits
                 PROVE  less * len < (a + 1) * Interval
    OBVIOUS
  <2> DEFINE x == a * Interval
             l == less * len
  <2>4. /\ x \in Nat /\ w \in Nat /\ one \in Nat /\ Interval \in Nat
        /\ carry \in Nat /\ carry < Interval /\ rounded \in Nat
        /\ w <= x + carry + rounded /\ rounded <= one /\ l = w - one
    BY <1>1, <1>2, <1>4, <1>5, <1>8, <2>1, <2>2, <2>3, SendNumbers
  <2> HIDE DEF x, l
  <2>5. l < x + Interval
    BY ONLY <2>4
  <2>6. QED
    BY <2>1, <2>5 DEF x, l
<1>11. QED
  BY <1>2, <1>9, <1>10 DEF a, len, more, less

\* No connection is sent more than the messages of the time and of one step, and two more,
\* one for the turn it may have been about to have and one for what was due when the
\* registry changed, for any list, step and interval (main.go:215-231).
THEOREM NoMessageIsEarly == SendSpec => []NotEarly
<1>1. SendInv => NotEarly
  <2>1. SUFFICES ASSUME SendInv, NEW c \in stored
                 PROVE  turns[c] <= ((ticks + 1) * Step) \div Interval + 2
    BY DEF NotEarly
  <2>2. PICK q \in Nat, m \in 0 .. Len(conns) - 1 :
          Balance(q, m) /\ (turns[c] = q \/ (turns[c] = q + 1 /\ m > 0))
    BY <2>1, TurnsOfLap
  <2>3. Len(conns) \in Nat \ {0} /\ Interval \in Nat \ {0}
    BY <2>1, TurnsOfLap, SendNumbers
  <2> DEFINE w == (ticks + 1) * Step
             t == w \div Interval
  <2>4. w \in Nat /\ (q * Len(conns) + m) * Interval < w * Len(conns) + (Len(conns) + 1) * Interval
    BY <2>1, <2>2, <2>3, BalanceOfTurns
  <2> HIDE DEF w
  <2>5. t \in Nat /\ (q + 1 <= t + 2 \/ (q = t + 2 /\ m = 0))
    BY <2>2, <2>3, <2>4, TurnsInTime
  <2> HIDE DEF t
  <2>6. turns[c] <= t + 2
    BY <2>2, <2>3, <2>5
  <2>7. QED
    BY <2>6 DEF t, w
<1>2. QED
  BY <1>1, SendInvHolds, PTL

\* With an interval longer than a step, after some steps with the registry as it is every
\* connection has had the messages of that time or of one step less, however carry was
\* rounded (main.go:203-204, 220-223).
THEOREM NoMessageIsLate ==
  ASSUME Step + Rounding <= Interval
  PROVE  SendSpec => []NotLate
<1>1. SendInv => NotLate
  <2>1. SUFFICES ASSUME SendInv, pc = "wait", ticks > 0, NEW c \in stored
                 PROVE  turns[c] >= ((ticks - 1) * Step) \div Interval
    BY DEF NotLate
  <2>2. PICK q \in Nat, m \in 0 .. Len(conns) - 1 :
          Balance(q, m) /\ (turns[c] = q \/ (turns[c] = q + 1 /\ m > 0))
    BY <2>1, TurnsOfLap
  <2>3. Len(conns) \in Nat \ {0} /\ Interval \in Nat \ {0}
    BY <2>1, TurnsOfLap, SendNumbers
  <2> DEFINE w == (ticks - 1) * Step
             t == w \div Interval
  <2>4. w \in Nat /\ w * Len(conns) < (q * Len(conns) + m + 1) * Interval
    BY <2>1, <2>2, <2>3, BalanceOfTurns DEF Fits
  <2> HIDE DEF w
  <2>5. t \in Nat /\ t <= q
    BY <2>2, <2>3, <2>4, TurnsInTime
  <2> HIDE DEF t
  <2>6. turns[c] >= t
    BY <2>2, <2>5
  <2>7. QED
    BY <2>6 DEF t, w
<1>2. QED
  BY <1>1, SendInvHolds, PTL
=============================================================================
