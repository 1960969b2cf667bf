--------------------------- MODULE LoadGenProofs ---------------------------
(***************************************************************************)
(* The counters of the load generator account for every connection and     *)
(* every dial, and the dial loop passes its target by at most -inflight,   *)
(* for any number of connections, goroutines and dials per tick.           *)
(***************************************************************************)
EXTENDS LoadGen, Counting

-----------------------------------------------------------------------------
\* The goroutines at the places the invariant counts.
nSlot  == Cardinality(DialsAt({"dial", "add", "count", "gauge", "release"}))
nAlive == Cardinality(DialsAt(DialPC \ {"idle"}))
nCount == Cardinality(DialsAt({"count"}))
nGauge == Cardinality(DialsAt({"count", "gauge"}))
nDial  == Cardinality(DialsAt({"dial", "add", "count"}))
\* The connections, likewise.
nStored  == Cardinality(stored)
nUncount == Cardinality(LinksAt({"uncount"}))
nUngauge == Cardinality(LinksAt({"uncount", "ungauge"}))

Slot  == {"dial", "add", "count", "gauge", "release"}
Alive == DialPC \ {"idle"}

\* One goroutine moves from p to q.
MoveDial(d, p, q) == /\ dpc[d] = p /\ dpc'[d] = q
                     /\ \A x \in Dial \ {d} : dpc'[x] = dpc[x]

\* Every count of goroutines follows from where the one that moves leaves and arrives.
LEMMA DialMoves ==
  ASSUME NEW d \in Dial, NEW p, NEW q, MoveDial(d, p, q)
  PROVE  /\ nSlot' = nSlot + Ind(q \in Slot) - Ind(p \in Slot)
         /\ nAlive' = nAlive + Ind(q \in Alive) - Ind(p \in Alive)
         /\ nCount' = nCount + Ind(q \in {"count"}) - Ind(p \in {"count"})
         /\ nGauge' = nGauge + Ind(q \in {"count", "gauge"}) - Ind(p \in {"count", "gauge"})
         /\ nDial' = nDial + Ind(q \in {"dial", "add", "count"})
                           - Ind(p \in {"dial", "add", "count"})
         /\ nSlot' \in Nat /\ nAlive' \in Nat
<1>1. \A S : Count(Dial, dpc', S) = Count(Dial, dpc, S) + Ind(q \in S) - Ind(p \in S)
  BY ConstAssumption, MoveOne DEF MoveDial
<1>2. nSlot' = nSlot + Ind(q \in Slot) - Ind(p \in Slot)
  BY <1>1 DEF nSlot, DialsAt, Count, Slot
<1>3. nAlive' = nAlive + Ind(q \in Alive) - Ind(p \in Alive)
  BY <1>1 DEF nAlive, DialsAt, Count, Alive
<1>4. nCount' = nCount + Ind(q \in {"count"}) - Ind(p \in {"count"})
  BY <1>1 DEF nCount, DialsAt, Count
<1>5. nGauge' = nGauge + Ind(q \in {"count", "gauge"}) - Ind(p \in {"count", "gauge"})
  BY <1>1 DEF nGauge, DialsAt, Count
<1>6. nDial' = nDial + Ind(q \in {"dial", "add", "count"})
                     - Ind(p \in {"dial", "add", "count"})
  BY <1>1 DEF nDial, DialsAt, Count
<1>7. nSlot' \in Nat /\ nAlive' \in Nat
  <2>1. \A S : Count(Dial, dpc', S) \in Nat
    BY ConstAssumption, CountIsNat
  <2>2. QED
    BY <2>1 DEF nSlot, nAlive, DialsAt, Count
<1>8. QED
  BY <1>2, <1>3, <1>4, <1>5, <1>6, <1>7

\* One connection moves from p to q.
MoveLink(c, p, q) == /\ link[c] = p /\ link'[c] = q
                     /\ \A x \in Conn \ {c} : link'[x] = link[x]

\* The same for callbacks.
LEMMA LinkMoves ==
  ASSUME NEW c \in Conn, NEW p, NEW q, MoveLink(c, p, q)
  PROVE  /\ nUncount' = nUncount + Ind(q \in {"uncount"}) - Ind(p \in {"uncount"})
         /\ nUngauge' = nUngauge + Ind(q \in {"uncount", "ungauge"})
                                 - Ind(p \in {"uncount", "ungauge"})
<1>1. \A S : Count(Conn, link', S) = Count(Conn, link, S) + Ind(q \in S) - Ind(p \in S)
  BY ConstAssumption, MoveOne DEF MoveLink
<1>2. nUncount' = nUncount + Ind(q \in {"uncount"}) - Ind(p \in {"uncount"})
  BY <1>1 DEF nUncount, LinksAt, Count
<1>3. nUngauge' = nUngauge + Ind(q \in {"uncount", "ungauge"})
                           - Ind(p \in {"uncount", "ungauge"})
  BY <1>1 DEF nUngauge, LinksAt, Count
<1>4. QED
  BY <1>2, <1>3

\* The counts are natural numbers.
LEMMA CountsAreNat ==
  /\ nSlot \in Nat /\ nAlive \in Nat /\ nCount \in Nat /\ nGauge \in Nat /\ nDial \in Nat
  /\ nUncount \in Nat /\ nUngauge \in Nat
  /\ nDial <= nSlot
<1>1. \A S : Count(Dial, dpc, S) \in Nat /\ Count(Conn, link, S) \in Nat
  BY ConstAssumption, CountIsNat
<1>2. /\ nSlot \in Nat /\ nAlive \in Nat /\ nCount \in Nat /\ nGauge \in Nat /\ nDial \in Nat
      /\ nUncount \in Nat /\ nUngauge \in Nat
  BY <1>1 DEF nSlot, nAlive, nCount, nGauge, nDial, nUncount, nUngauge,
              DialsAt, LinksAt, Count
<1>3. /\ DialsAt({"dial", "add", "count"})
            \subseteq DialsAt({"dial", "add", "count", "gauge", "release"})
      /\ DialsAt({"dial", "add", "count", "gauge", "release"}) \subseteq Dial
  BY DEF DialsAt
<1>4. nDial <= nSlot
  BY <1>3, ConstAssumption, FS_Subset DEF nDial, nSlot
<1>5. QED
  BY <1>2, <1>4

\* A finite set of connections gains or loses one.
LEMMA StoredCount ==
  ASSUME stored \subseteq Conn, NEW c
  PROVE  /\ nStored \in Nat
         /\ stored' = stored => nStored' = nStored
         /\ stored' = stored \cup {c} /\ c \notin stored => nStored' = nStored + 1
         /\ stored' = stored \ {c} /\ c \in stored => nStored' = nStored - 1
<1>1. IsFiniteSet(stored)
  BY ConstAssumption, FS_Subset
<1>2. nStored \in Nat
  BY <1>1, FS_CardinalityType DEF nStored
<1>3. /\ Cardinality(stored \cup {c}) = IF c \in stored THEN nStored ELSE nStored + 1
      /\ Cardinality(stored \ {c}) = IF c \in stored THEN nStored - 1 ELSE nStored
  BY <1>1, FS_AddElement, FS_RemoveElement DEF nStored
<1>4. QED
  BY <1>2, <1>3 DEF nStored

\* Counts of what does not change do not change.
LEMMA SameCounts ==
  /\ UNCHANGED dpc => UNCHANGED <<nSlot, nAlive, nCount, nGauge, nDial>>
  /\ UNCHANGED link => UNCHANGED <<nUncount, nUngauge>>
  /\ UNCHANGED stored => UNCHANGED nStored
BY DEF nSlot, nAlive, nCount, nGauge, nDial, nUncount, nUngauge, nStored,
       DialsAt, LinksAt

-----------------------------------------------------------------------------
(* The inductive invariant.                                                *)

\* The loop tries fewer dials than it may per tick.
TriesLeft == loop \in {"active", "pending", "acquire"} => i < PerTick

Counted == /\ sem = nSlot /\ pending = nAlive
           /\ active + nCount = nStored + nUncount
           /\ connsActive + nGauge = nStored + nUngauge

\* active plus the dials that may still raise it only grows when a dial is
\* started, and between the two loads it stays within what was seen plus the
\* dials that were in progress at the first load.
Headroom == /\ active + nDial <= Target + Inflight
            /\ loop = "pending" => active + nDial <= seen + Inflight
            /\ loop = "acquire" => active + nDial < Target + Inflight

\* Which connections the goroutines, the registry and the sockets know.
Known == /\ \A d \in Dial : dpc[d] = "add" <=> dconn[d] \in Conn
         /\ \A d \in Dial : dpc[d] = "add" =>
              /\ dconn[d] \notin stored
              /\ dconn[d] \in closed \/ link[dconn[d]] = "up"
         /\ \A d, e \in Dial : dpc[d] = "add" /\ dconn[d] = dconn[e] => d = e
         /\ StoredAreOpen
         /\ \A c \in closed : link[c] = "none"
         /\ NoTombstoneLeak
         /\ \A c \in Conn : link[c] = "up" =>
              c \in stored \/ \E d \in Dial : dpc[d] = "add" /\ dconn[d] = c

LInv == TypeOK /\ TriesLeft /\ Counted /\ Headroom /\ Known

\* A load generator that has just started satisfies the invariant.
LEMMA InitLInv == Init => LInv
<1> SUFFICES ASSUME Init PROVE LInv
  OBVIOUS
<1>1. stored = {} /\ closed = {} /\ reply = FALSE
  BY DEF Init, Reg!Init
<1>2. TypeOK /\ TriesLeft
  <2>1. /\ dpc \in [Dial -> DialPC]
        /\ dconn \in [Dial -> Conn \cup {NoConn}]
        /\ link \in [Conn -> LinkPC]
    BY DEF Init, DialPC, LinkPC
  <2>2. /\ loop \in LoopPC /\ i \in 0 .. PerTick /\ seen \in Int
        /\ sem \in 0 .. Inflight /\ pending \in Nat
        /\ active \in Int /\ connsActive \in Int
        /\ stopped \in BOOLEAN /\ faults \in 0 .. MaxFaults
    <3>1. /\ loop = "wait" /\ i = 0 /\ seen = 0 /\ sem = 0 /\ pending = 0
          /\ active = 0 /\ connsActive = 0 /\ stopped = FALSE /\ faults = 0
      BY DEF Init
    <3>2. loop \in LoopPC /\ stopped \in BOOLEAN
      BY <3>1 DEF LoopPC
    <3>3. QED
      BY ONLY <3>1, <3>2, ConstAssumption DEF ConstAssumption
  <2>3. QED
    BY <1>1, <2>1, <2>2 DEF TypeOK, TriesLeft, Init
<1>3. Known
  BY <1>1, ConstAssumption DEF Init, Known, StoredAreOpen, NoTombstoneLeak
<1>4. /\ DialsAt({"dial", "add", "count", "gauge", "release"}) = {}
      /\ DialsAt(DialPC \ {"idle"}) = {}
      /\ DialsAt({"count"}) = {}
      /\ DialsAt({"count", "gauge"}) = {}
      /\ DialsAt({"dial", "add", "count"}) = {}
      /\ LinksAt({"uncount"}) = {}
      /\ LinksAt({"uncount", "ungauge"}) = {}
  BY DEF Init, DialsAt, LinksAt
<1>5. /\ nSlot = 0 /\ nAlive = 0 /\ nCount = 0 /\ nGauge = 0 /\ nDial = 0
      /\ nUncount = 0 /\ nUngauge = 0 /\ nStored = 0
  BY <1>1, <1>4, FS_EmptySet
  DEF nSlot, nAlive, nCount, nGauge, nDial, nUncount, nUngauge, nStored
<1>6. Counted /\ Headroom
  BY <1>5, ConstAssumption DEF Init, Counted, Headroom
<1>7. QED
  BY <1>2, <1>3, <1>6 DEF LInv

-----------------------------------------------------------------------------
(* How each step of a goroutine or a callback moves it.                    *)

\* Every step of a goroutine or a callback moves it along its program, and no other.
LEMMA Moves ==
  ASSUME TypeOK
  PROVE  /\ \A d \in Dial : StartDial(d)   => MoveDial(d, "idle", "dial")
         /\ \A d \in Dial, c \in Conn :
                            DialOpens(d, c) => /\ MoveDial(d, "dial", "add")
                                               /\ MoveLink(c, "none", "up")
         /\ \A d \in Dial : DialFails(d)   => MoveDial(d, "dial", "release")
         /\ \A d \in Dial : CountActive(d) => MoveDial(d, "count", "gauge")
         /\ \A d \in Dial : IncGauge(d)    => MoveDial(d, "gauge", "release")
         /\ \A d \in Dial : Release(d)     => MoveDial(d, "release", "leave")
         /\ \A d \in Dial : Leave(d)       => MoveDial(d, "leave", "idle")
         /\ \A c \in Conn : UncountActive(c) => MoveLink(c, "uncount", "ungauge")
         /\ \A c \in Conn : DecGauge(c)    => MoveLink(c, "ungauge", "none")
<1>1. ASSUME NEW d \in Dial, NEW q, dpc' = [dpc EXCEPT ![d] = q]
      PROVE  MoveDial(d, dpc[d], q)
  BY <1>1 DEF TypeOK, MoveDial
<1>2. ASSUME NEW c \in Conn, NEW q, link' = [link EXCEPT ![c] = q]
      PROVE  MoveLink(c, link[c], q)
  BY <1>2 DEF TypeOK, MoveLink
<1>3. ASSUME NEW d \in Dial
      PROVE  /\ StartDial(d)   => MoveDial(d, "idle", "dial")
             /\ DialFails(d)   => MoveDial(d, "dial", "release")
             /\ CountActive(d) => MoveDial(d, "count", "gauge")
             /\ IncGauge(d)    => MoveDial(d, "gauge", "release")
             /\ Release(d)     => MoveDial(d, "release", "leave")
             /\ Leave(d)       => MoveDial(d, "leave", "idle")
  BY <1>1 DEF StartDial, DialFails, CountActive, IncGauge, Release, Leave
<1>4. ASSUME NEW d \in Dial, NEW c \in Conn, DialOpens(d, c)
      PROVE  MoveDial(d, "dial", "add") /\ MoveLink(c, "none", "up")
  BY <1>1, <1>2, <1>4 DEF DialOpens, Fresh
<1>5. ASSUME NEW c \in Conn
      PROVE  /\ UncountActive(c) => MoveLink(c, "uncount", "ungauge")
             /\ DecGauge(c)      => MoveLink(c, "ungauge", "none")
  BY <1>2 DEF UncountActive, DecGauge
<1>6. QED
  BY <1>3, <1>4, <1>5

\* add takes the goroutine to one of two places, by what the registry holds.
LEMMA AddConnMoves ==
  ASSUME LInv, NEW d \in Dial, AddConn(d)
  PROVE  /\ dconn[d] \in Conn
         /\ \/ /\ dconn[d] \notin closed /\ dconn[d] \notin stored
               /\ stored' = stored \cup {dconn[d]}
               /\ MoveDial(d, "add", "count")
            \/ /\ dconn[d] \in closed
               /\ stored' = stored
               /\ MoveDial(d, "add", "release")
         /\ closed' = closed \ {dconn[d]}
<1>1. dpc[d] = "add" /\ dconn[d] \in Conn /\ dconn[d] \notin stored
  BY DEF AddConn, LInv, Known
<1>2. ASSUME NEW q, dpc' = [dpc EXCEPT ![d] = q]
      PROVE  MoveDial(d, dpc[d], q)
  BY <1>2 DEF LInv, TypeOK, MoveDial
<1>3. CASE dconn[d] \in closed
  <2>1. ~reply' /\ stored' = stored /\ closed' = closed \ {dconn[d]}
    BY <1>3 DEF AddConn, Reg!Add
  <2>2. QED
    BY <1>1, <1>2, <1>3, <2>1 DEF AddConn
<1>4. CASE dconn[d] \notin closed
  <2>1. reply' /\ stored' = stored \cup {dconn[d]} /\ closed' = closed \ {dconn[d]}
    BY <1>1, <1>4 DEF AddConn, Reg!Add
  <2>2. QED
    BY <1>1, <1>2, <1>4, <2>1 DEF AddConn
<1>5. QED
  BY <1>3, <1>4

\* OnClose, likewise.
LEMMA CloseMoves ==
  ASSUME LInv, NEW c \in Conn, Close(c)
  PROVE  \/ /\ c \in stored
            /\ stored' = stored \ {c} /\ closed' = closed
            /\ MoveLink(c, "up", "uncount")
         \/ /\ c \notin stored
            /\ stored' = stored /\ closed' = closed \cup {c}
            /\ MoveLink(c, "up", "none")
<1>1. ASSUME NEW q, link' = [link EXCEPT ![c] = q]
      PROVE  MoveLink(c, link[c], q)
  BY <1>1 DEF LInv, TypeOK, MoveLink
<1>2. CASE c \in stored
  <2>1. reply' /\ stored' = stored \ {c} /\ closed' = closed
    BY <1>2 DEF Close, Reg!Remove
  <2>2. QED
    BY <1>1, <1>2, <2>1 DEF Close
<1>3. CASE c \notin stored
  <2>1. ~reply' /\ stored' = stored /\ closed' = closed \cup {c}
    BY <1>3 DEF Close, Reg!Remove
  <2>2. QED
    BY <1>1, <1>3, <2>1 DEF Close
<1>4. QED
  BY <1>2, <1>3

-----------------------------------------------------------------------------
(* Each part of the invariant is preserved.                                *)

\* The steps of the loop and of the environment that move no process.
Quiet == Tick \/ Return \/ ReadActive \/ ReadPending \/ AllSlotsBusy \/ Interrupt

\* Every step keeps the counting equations, and the bound between the two loads.
LEMMA CountStep ==
  ASSUME LInv, Next
  PROVE  Counted' /\ Headroom'
<1> USE DEF Counted, Headroom, Ind
<1>1. /\ sem \in Int /\ pending \in Int /\ active \in Int /\ connsActive \in Int
      /\ seen \in Int /\ Target \in Nat /\ Inflight \in Nat /\ sem <= Inflight
      /\ loop \in LoopPC
  BY ConstAssumption DEF LInv, TypeOK
<1>2. /\ nSlot \in Nat /\ nAlive \in Nat /\ nCount \in Nat /\ nGauge \in Nat
      /\ nDial \in Nat /\ nUncount \in Nat /\ nUngauge \in Nat /\ nDial <= nSlot
  BY CountsAreNat
<1>3. nStored \in Nat
  BY StoredCount DEF LInv, TypeOK
<1>4. Counted /\ Headroom /\ TypeOK
  BY DEF LInv
<1>5. CASE Quiet
  <2>1. UNCHANGED <<dpc, link, stored, sem, active, pending, connsActive>>
    BY <1>5 DEF Quiet, Tick, Return, ReadActive, ReadPending, AllSlotsBusy,
                Interrupt, cntVars, regVars
  <2>2. UNCHANGED <<nSlot, nAlive, nCount, nGauge, nDial, nUncount, nUngauge, nStored>>
    BY <2>1, SameCounts
  <2>3. CASE ReadActive
    BY <1>1, <1>2, <1>4, <2>1, <2>2, <2>3 DEF ReadActive
  <2>4. CASE ReadPending
    BY <1>1, <1>2, <1>4, <2>1, <2>2, <2>4 DEF ReadPending
  <2>5. CASE Tick \/ Return \/ AllSlotsBusy
    BY <1>1, <1>2, <1>4, <2>1, <2>2, <2>5 DEF Tick, Return, AllSlotsBusy
  <2>6. CASE Interrupt
    BY <1>1, <1>2, <1>4, <2>1, <2>2, <2>6 DEF Interrupt, loopVars
  <2>7. QED
    BY <1>5, <2>3, <2>4, <2>5, <2>6 DEF Quiet
<1>6. ASSUME NEW d \in Dial, StartDial(d)
      PROVE  Counted' /\ Headroom'
  <2>1. UNCHANGED <<nUncount, nUngauge, nStored, active, connsActive>>
    BY <1>6, SameCounts DEF StartDial, regVars
  <2>2. /\ loop = "acquire" /\ sem' = sem + 1 /\ pending' = pending + 1
        /\ loop' \notin {"pending", "acquire"}
    BY <1>6 DEF StartDial
  <2>3. MoveDial(d, "idle", "dial")
    BY <1>4, <1>6, Moves
  <2>4. /\ nSlot' = nSlot + 1 /\ nAlive' = nAlive + 1 /\ nDial' = nDial + 1
        /\ nCount' = nCount /\ nGauge' = nGauge
    BY <1>2, <2>3, DialMoves DEF Slot, Alive, DialPC
  <2>5. QED
    BY <1>1, <1>2, <1>3, <1>4, <2>1, <2>2, <2>4
<1>7. ASSUME NEW d \in Dial, NEW c \in Conn, DialOpens(d, c)
      PROVE  Counted' /\ Headroom'
  <2>1. UNCHANGED <<nStored, loop, seen, sem, pending, active, connsActive>>
    BY <1>7, SameCounts DEF DialOpens, loopVars, cntVars, regVars
  <2>2. MoveDial(d, "dial", "add") /\ MoveLink(c, "none", "up")
    BY <1>4, <1>7, Moves
  <2>3. UNCHANGED <<nSlot, nAlive, nDial, nCount, nGauge>>
    BY <1>2, <2>2, DialMoves DEF Slot, Alive, DialPC
  <2>4. UNCHANGED <<nUncount, nUngauge>>
    BY <1>2, <2>2, LinkMoves
  <2>5. QED
    BY <1>1, <1>2, <1>3, <1>4, <2>1, <2>3, <2>4
<1>8. ASSUME NEW d \in Dial, DialFails(d)
      PROVE  Counted' /\ Headroom'
  <2>1. UNCHANGED <<nStored, nUncount, nUngauge, loop, seen, sem, pending, active, connsActive>>
    BY <1>8, SameCounts DEF DialFails, loopVars, cntVars, regVars
  <2>2. MoveDial(d, "dial", "release")
    BY <1>4, <1>8, Moves
  <2>3. nDial' = nDial - 1 /\ UNCHANGED <<nSlot, nAlive, nCount, nGauge>>
    BY <1>2, <2>2, DialMoves DEF Slot, Alive, DialPC
  <2>4. QED
    BY <1>1, <1>2, <1>3, <1>4, <2>1, <2>3
<1>9. ASSUME NEW d \in Dial, AddConn(d)
      PROVE  Counted' /\ Headroom'
  <2>1. UNCHANGED <<nUncount, nUngauge, loop, seen, sem, pending, active, connsActive>>
    BY <1>9, SameCounts DEF AddConn, loopVars, cntVars
  <2>2. stored \subseteq Conn
    BY <1>4 DEF TypeOK
  <2>3. CASE /\ dconn[d] \notin stored /\ stored' = stored \cup {dconn[d]}
             /\ MoveDial(d, "add", "count")
    <3>1. nStored' = nStored + 1
      BY <2>2, <2>3, StoredCount
    <3>2. /\ nCount' = nCount + 1 /\ nGauge' = nGauge + 1
          /\ UNCHANGED <<nSlot, nAlive, nDial>>
      BY <1>2, <2>3, DialMoves DEF Slot, Alive, DialPC
    <3>3. QED
      BY <1>1, <1>2, <1>3, <1>4, <2>1, <3>1, <3>2
  <2>4. CASE stored' = stored /\ MoveDial(d, "add", "release")
    <3>1. nStored' = nStored
      BY <2>4, SameCounts
    <3>2. nDial' = nDial - 1 /\ UNCHANGED <<nSlot, nAlive, nCount, nGauge>>
      BY <1>2, <2>4, DialMoves DEF Slot, Alive, DialPC
    <3>3. QED
      BY <1>1, <1>2, <1>3, <1>4, <2>1, <3>1, <3>2
  <2>5. QED
    BY <1>9, <2>3, <2>4, AddConnMoves
<1>10. ASSUME NEW d \in Dial, CountActive(d)
       PROVE  Counted' /\ Headroom'
  <2>1. /\ UNCHANGED <<nStored, nUncount, nUngauge, loop, seen, sem, pending, connsActive>>
        /\ active' = active + 1
    BY <1>10, SameCounts DEF CountActive, loopVars, regVars
  <2>2. MoveDial(d, "count", "gauge")
    BY <1>4, <1>10, Moves
  <2>3. /\ nCount' = nCount - 1 /\ nDial' = nDial - 1
        /\ UNCHANGED <<nSlot, nAlive, nGauge>>
    BY <1>2, <2>2, DialMoves DEF Slot, Alive, DialPC
  <2>4. QED
    BY <1>1, <1>2, <1>3, <1>4, <2>1, <2>3
<1>11. ASSUME NEW d \in Dial, IncGauge(d)
       PROVE  Counted' /\ Headroom'
  <2>1. /\ UNCHANGED <<nStored, nUncount, nUngauge, loop, seen, sem, pending, active>>
        /\ connsActive' = connsActive + 1
    BY <1>11, SameCounts DEF IncGauge, loopVars, regVars
  <2>2. MoveDial(d, "gauge", "release")
    BY <1>4, <1>11, Moves
  <2>3. nGauge' = nGauge - 1 /\ UNCHANGED <<nSlot, nAlive, nDial, nCount>>
    BY <1>2, <2>2, DialMoves DEF Slot, Alive, DialPC
  <2>4. QED
    BY <1>1, <1>2, <1>3, <1>4, <2>1, <2>3
<1>12. ASSUME NEW d \in Dial, Release(d)
       PROVE  Counted' /\ Headroom'
  <2>1. /\ UNCHANGED <<nStored, nUncount, nUngauge, loop, seen, pending, active, connsActive>>
        /\ sem' = sem - 1
    BY <1>12, SameCounts DEF Release, loopVars, regVars
  <2>2. MoveDial(d, "release", "leave")
    BY <1>4, <1>12, Moves
  <2>3. nSlot' = nSlot - 1 /\ UNCHANGED <<nAlive, nDial, nCount, nGauge>>
    BY <1>2, <2>2, DialMoves DEF Slot, Alive, DialPC
  <2>4. QED
    BY <1>1, <1>2, <1>3, <1>4, <2>1, <2>3
<1>13. ASSUME NEW d \in Dial, Leave(d)
       PROVE  Counted' /\ Headroom'
  <2>1. /\ UNCHANGED <<nStored, nUncount, nUngauge, loop, seen, sem, active, connsActive>>
        /\ pending' = pending - 1
    BY <1>13, SameCounts DEF Leave, loopVars, regVars
  <2>2. MoveDial(d, "leave", "idle")
    BY <1>4, <1>13, Moves
  <2>3. nAlive' = nAlive - 1 /\ UNCHANGED <<nSlot, nDial, nCount, nGauge>>
    BY <1>2, <2>2, DialMoves DEF Slot, Alive, DialPC
  <2>4. QED
    BY <1>1, <1>2, <1>3, <1>4, <2>1, <2>3
<1>14. ASSUME NEW c \in Conn, Close(c)
       PROVE  Counted' /\ Headroom'
  <2>1. /\ UNCHANGED <<nSlot, nAlive, nDial, nCount, nGauge>>
        /\ UNCHANGED <<loop, seen, sem, pending, active, connsActive>>
    BY <1>14, SameCounts DEF Close, loopVars, cntVars
  <2>2. stored \subseteq Conn
    BY <1>4 DEF TypeOK
  <2>3. CASE c \in stored /\ stored' = stored \ {c} /\ MoveLink(c, "up", "uncount")
    <3>1. nStored' = nStored - 1
      BY <2>2, <2>3, StoredCount
    <3>2. nUncount' = nUncount + 1 /\ nUngauge' = nUngauge + 1
      BY <1>2, <2>3, LinkMoves
    <3>3. QED
      BY <1>1, <1>2, <1>3, <1>4, <2>1, <3>1, <3>2
  <2>4. CASE stored' = stored /\ MoveLink(c, "up", "none")
    <3>1. UNCHANGED <<nStored, nUncount, nUngauge>>
      BY <1>2, <2>4, SameCounts, LinkMoves
    <3>2. QED
      BY <1>1, <1>2, <1>3, <1>4, <2>1, <3>1
  <2>5. QED
    BY <1>14, <2>3, <2>4, CloseMoves
<1>15. ASSUME NEW c \in Conn, UncountActive(c)
       PROVE  Counted' /\ Headroom'
  <2>1. /\ UNCHANGED <<nSlot, nAlive, nDial, nCount, nGauge, nStored>>
        /\ UNCHANGED <<loop, seen, sem, pending, connsActive>>
        /\ active' = active - 1
    BY <1>15, SameCounts DEF UncountActive, loopVars, regVars
  <2>2. nUncount' = nUncount - 1 /\ nUngauge' = nUngauge
    BY <1>2, <1>4, <1>15, Moves, LinkMoves
  <2>3. QED
    BY <1>1, <1>2, <1>3, <1>4, <2>1, <2>2
<1>16. ASSUME NEW c \in Conn, DecGauge(c)
       PROVE  Counted' /\ Headroom'
  <2>1. /\ UNCHANGED <<nSlot, nAlive, nDial, nCount, nGauge, nStored>>
        /\ UNCHANGED <<loop, seen, sem, pending, active>>
        /\ connsActive' = connsActive - 1
    BY <1>16, SameCounts DEF DecGauge, loopVars, regVars
  <2>2. nUncount' = nUncount /\ nUngauge' = nUngauge - 1
    BY <1>2, <1>4, <1>16, Moves, LinkMoves
  <2>3. QED
    BY <1>1, <1>2, <1>3, <1>4, <2>1, <2>2
<1>17. QED
  BY <1>5, <1>6, <1>7, <1>8, <1>9, <1>10, <1>11, <1>12, <1>13, <1>14, <1>15, <1>16
  DEF Next, LoopStep, Goroutine, OnClose, Quiet

\* Every step keeps the types and the bound on failures.
LEMMA TypeStep ==
  ASSUME LInv, Next
  PROVE  TypeOK' /\ TriesLeft'
<1>1. TypeOK /\ TriesLeft /\ sem = nSlot /\ pending = nAlive
  BY DEF LInv, Counted
<1>2. PerTick \in Nat \ {0} /\ Inflight \in Nat /\ MaxFaults \in Nat
  BY ConstAssumption
<1> USE DEF TypeOK, TriesLeft, LoopPC
<1>3. CASE Quiet
  <2>1. UNCHANGED <<cntVars, dpc, dconn, link, regVars, faults>>
    BY <1>3 DEF Quiet, Tick, Return, ReadActive, ReadPending, AllSlotsBusy, Interrupt
  <2>2. loop' \in LoopPC /\ i' \in 0 .. PerTick /\ seen' \in Int /\ TriesLeft'
    BY <1>1, <1>2, <1>3
    DEF Quiet, Tick, Return, ReadActive, ReadPending, AllSlotsBusy, Interrupt, loopVars
  <2>3. stopped' \in BOOLEAN
    BY <1>1, <1>3
    DEF Quiet, Tick, Return, ReadActive, ReadPending, AllSlotsBusy, Interrupt
  <2>4. QED
    BY <1>1, <2>1, <2>2, <2>3 DEF cntVars, regVars
<1>4. ASSUME NEW d \in Dial, StartDial(d)
      PROVE  TypeOK' /\ TriesLeft'
  BY <1>1, <1>2, <1>4 DEF StartDial, DialPC, regVars
<1>5. ASSUME NEW d \in Dial, NEW c \in Conn, DialOpens(d, c)
      PROVE  TypeOK' /\ TriesLeft'
  BY <1>1, <1>5 DEF DialOpens, DialPC, LinkPC, loopVars, cntVars, regVars
<1>6. ASSUME NEW d \in Dial, DialFails(d)
      PROVE  TypeOK' /\ TriesLeft'
  BY <1>1, <1>2, <1>6 DEF DialFails, DialPC, loopVars, cntVars, regVars
<1>7. ASSUME NEW d \in Dial, AddConn(d)
      PROVE  TypeOK' /\ TriesLeft'
  <2>1. dconn[d] \in Conn /\ stored' \subseteq Conn /\ closed' \subseteq Conn
    BY <1>1, <1>7, AddConnMoves
  <2>2. reply' \in BOOLEAN
    BY <1>7 DEF AddConn, Reg!Add
  <2>3. dpc' \in [Dial -> DialPC] /\ dconn' \in [Dial -> Conn \cup {NoConn}]
    BY <1>1, <1>7 DEF AddConn, DialPC
  <2>4. UNCHANGED <<loopVars, cntVars, link, stopped, faults>>
    BY <1>7 DEF AddConn
  <2>5. QED
    BY <1>1, <2>1, <2>2, <2>3, <2>4 DEF loopVars, cntVars
<1>8. ASSUME NEW d \in Dial, CountActive(d) \/ IncGauge(d)
      PROVE  TypeOK' /\ TriesLeft'
  BY <1>1, <1>8 DEF CountActive, IncGauge, DialPC, loopVars, regVars
<1>9. ASSUME NEW d \in Dial, Release(d)
      PROVE  TypeOK' /\ TriesLeft'
  <2>1. nSlot \in Nat /\ nSlot' \in Nat /\ nSlot' = nSlot - 1
    <3>1. MoveDial(d, "release", "leave")
      BY <1>1, <1>9, Moves
    <3>2. QED
      BY <3>1, CountsAreNat, DialMoves DEF Slot, Ind
  <2>2. sem' \in 0 .. Inflight
    BY <1>1, <1>2, <1>9, <2>1 DEF Release
  <2>3. QED
    BY <1>1, <1>9, <2>2 DEF Release, DialPC, loopVars, regVars
<1>10. ASSUME NEW d \in Dial, Leave(d)
       PROVE  TypeOK' /\ TriesLeft'
  <2>1. nAlive \in Nat /\ nAlive' \in Nat /\ nAlive' = nAlive - 1
    <3>1. MoveDial(d, "leave", "idle")
      BY <1>1, <1>10, Moves
    <3>2. QED
      BY <3>1, CountsAreNat, DialMoves DEF Alive, DialPC, Ind
  <2>2. pending' \in Nat
    BY <1>1, <1>10, <2>1 DEF Leave
  <2>3. QED
    BY <1>1, <1>10, <2>2 DEF Leave, DialPC, loopVars, regVars
<1>11. ASSUME NEW c \in Conn, Close(c)
       PROVE  TypeOK' /\ TriesLeft'
  <2>1. stored' \subseteq Conn /\ closed' \subseteq Conn
    BY <1>1, <1>11, CloseMoves
  <2>2. reply' \in BOOLEAN
    BY <1>11 DEF Close, Reg!Remove
  <2>3. link' \in [Conn -> LinkPC]
    BY <1>1, <1>11 DEF Close, LinkPC
  <2>4. faults' \in 0 .. MaxFaults
    BY <1>1, <1>2, <1>11 DEF Close
  <2>5. UNCHANGED <<loopVars, cntVars, dpc, dconn, stopped>>
    BY <1>11 DEF Close
  <2>6. QED
    BY <1>1, <2>1, <2>2, <2>3, <2>4, <2>5 DEF loopVars, cntVars
<1>12. ASSUME NEW c \in Conn, OnClose(c)
       PROVE  TypeOK' /\ TriesLeft'
  BY <1>1, <1>12 DEF OnClose, UncountActive, DecGauge, LinkPC, loopVars, regVars
<1>13. QED
  BY <1>3, <1>4, <1>5, <1>6, <1>7, <1>8, <1>9, <1>10, <1>11, <1>12
  DEF Next, LoopStep, Goroutine, Quiet

\* Every step keeps the account of who refers to which connection.
LEMMA KnownStep ==
  ASSUME LInv, Next
  PROVE  Known'
<1>1. TypeOK /\ Known /\ NoConn \notin Conn
  BY ConstAssumption DEF LInv
<1> USE DEF Known, StoredAreOpen, NoTombstoneLeak
<1>2. CASE UNCHANGED <<dpc, dconn, link, stored, closed>>
  BY <1>1, <1>2
<1>3. ASSUME NEW d \in Dial, dpc[d] # "add", NEW q, q # "add",
             dpc' = [dpc EXCEPT ![d] = q], UNCHANGED <<dconn, link, stored, closed>>
      PROVE  Known'
  BY <1>1, <1>3 DEF TypeOK
<1>4. ASSUME NEW d \in Dial, NEW c \in Conn, DialOpens(d, c)
      PROVE  Known'
  <2>1. /\ dpc[d] = "dial" /\ link[c] = "none"
        /\ c \notin stored /\ c \notin closed
        /\ \A e \in Dial : dconn[e] # c
    BY <1>4 DEF DialOpens, Fresh
  <2>2. /\ dpc'[d] = "add" /\ \A e \in Dial \ {d} : dpc'[e] = dpc[e]
        /\ dconn'[d] = c /\ \A e \in Dial \ {d} : dconn'[e] = dconn[e]
        /\ link'[c] = "up" /\ \A x \in Conn \ {c} : link'[x] = link[x]
        /\ stored' = stored /\ closed' = closed
    BY <1>1, <1>4 DEF DialOpens, TypeOK, regVars
  <2>3. stored \subseteq Conn /\ closed \subseteq Conn
    BY <1>1 DEF TypeOK
  <2>4. QED
    BY <1>1, <2>1, <2>2, <2>3
<1>5. ASSUME NEW d \in Dial, AddConn(d)
      PROVE  Known'
  <2>1. dpc[d] = "add" /\ dconn[d] \in Conn
    BY <1>1, <1>5 DEF AddConn
  <2>2. /\ dpc'[d] # "add" /\ \A e \in Dial \ {d} : dpc'[e] = dpc[e]
        /\ dconn'[d] = NoConn /\ \A e \in Dial \ {d} : dconn'[e] = dconn[e]
        /\ link' = link
    BY <1>1, <1>5 DEF AddConn, TypeOK
  <2>3. stored \subseteq Conn /\ closed \subseteq Conn
    BY <1>1 DEF TypeOK
  <2>4. \/ dconn[d] \notin closed /\ stored' = stored \cup {dconn[d]} /\ closed' = closed
        \/ dconn[d] \in closed /\ stored' = stored /\ closed' = closed \ {dconn[d]}
    BY <1>5, AddConnMoves
  <2>5. QED
    BY <1>1, <2>1, <2>2, <2>3, <2>4
<1>6. ASSUME NEW c \in Conn, Close(c)
      PROVE  Known'
  <2>1. dpc' = dpc /\ dconn' = dconn /\ link[c] = "up"
    BY <1>6 DEF Close
  <2>2. stored \subseteq Conn /\ closed \subseteq Conn
    BY <1>1 DEF TypeOK
  <2>3. \/ /\ c \in stored /\ stored' = stored \ {c} /\ closed' = closed
           /\ link'[c] = "uncount"
        \/ /\ c \notin stored /\ stored' = stored /\ closed' = closed \cup {c}
           /\ link'[c] = "none"
    BY <1>6, CloseMoves DEF MoveLink
  <2>4. \A x \in Conn \ {c} : link'[x] = link[x]
    BY <1>6, CloseMoves DEF MoveLink
  <2>5. QED
    BY <1>1, <2>1, <2>2, <2>3, <2>4
<1>7. ASSUME NEW c \in Conn, OnClose(c)
      PROVE  Known'
  <2>1. /\ link[c] \in {"uncount", "ungauge"} /\ link'[c] \in {"ungauge", "none"}
        /\ \A x \in Conn \ {c} : link'[x] = link[x]
        /\ UNCHANGED <<dpc, dconn, stored, closed>>
    BY <1>1, <1>7 DEF OnClose, UncountActive, DecGauge, TypeOK, regVars
  <2>2. stored \subseteq Conn /\ closed \subseteq Conn /\ c \notin stored /\ c \notin closed
    BY <1>1, <2>1 DEF TypeOK
  <2>3. QED
    BY <1>1, <2>1, <2>2
<1>8. CASE Quiet
  BY <1>2, <1>8
  DEF Quiet, Tick, Return, ReadActive, ReadPending, AllSlotsBusy, Interrupt, regVars
<1>9. ASSUME NEW d \in Dial,
             \/ StartDial(d) \/ DialFails(d) \/ CountActive(d)
             \/ IncGauge(d) \/ Release(d) \/ Leave(d)
      PROVE  Known'
  BY <1>3, <1>9
  DEF StartDial, DialFails, CountActive, IncGauge, Release, Leave, regVars
<1>10. QED
  BY <1>4, <1>5, <1>6, <1>7, <1>8, <1>9 DEF Next, LoopStep, Goroutine, Quiet

\* Every step keeps the invariant.
LEMMA StepLInv == LInv /\ [Next]_vars => LInv'
<1>1. ASSUME LInv, Next
      PROVE  LInv'
  BY <1>1, CountStep, TypeStep, KnownStep DEF LInv
<1>2. ASSUME LInv, UNCHANGED vars
      PROVE  LInv'
  BY <1>2
  DEF vars, loopVars, cntVars, regVars, LInv, TypeOK, TriesLeft, Counted, Headroom,
      Known, StoredAreOpen, NoTombstoneLeak, nSlot, nAlive, nCount, nGauge, nDial,
      nUncount, nUngauge, nStored, DialsAt, LinksAt
<1>3. QED
  BY <1>1, <1>2

-----------------------------------------------------------------------------
(* The theorems.                                                           *)

\* The invariant holds in every state.
LEMMA LInvAlways == Spec => []LInv
BY InitLInv, StepLInv, PTL DEF Spec

\* Every counter and program counter of the load generator keeps its kind, and the
\* semaphore its size (main.go:147-174).
THEOREM LoadGenTypes == Spec => []TypeOK
<1>1. LInv => TypeOK
  BY DEF LInv
<1>2. QED
  BY <1>1, LInvAlways, PTL

\* Every path of a dial gives its slot and its pending count back, so the loop never
\* slows down (main.go:165-190).
THEOREM SlotsAreReturned == Spec => []SlotsAccounted
<1>1. LInv => SlotsAccounted
  BY DEF LInv, Counted, SlotsAccounted, nSlot, nAlive
<1>2. QED
  BY <1>1, LInvAlways, PTL

\* active and the gauge count exactly the connections they stand for, up to the
\* goroutines and callbacks under way (main.go:110-116, 191-197).
THEOREM CountersAccount == Spec => []ActiveAccounted
<1>1. LInv => ActiveAccounted
  BY DEF LInv, Counted, ActiveAccounted, nCount, nGauge, nUncount, nUngauge, nStored
<1>2. QED
  BY <1>1, LInvAlways, PTL

\* No connection that closed is ever counted as open (registry.go:10-13, 31-57).
THEOREM RegistryIsCurrent == Spec => []StoredAreOpen
<1>1. LInv => StoredAreOpen
  BY DEF LInv, Known
<1>2. QED
  BY <1>1, LInvAlways, PTL

\* Every close that is remembered is on its way out of the set: the add that consumes
\* it is still to come (registry.go:12-13, 31-37).
THEOREM EarlyClosesAreConsumed == Spec => []NoTombstoneLeak
<1>1. LInv => NoTombstoneLeak
  BY DEF LInv, Known
<1>2. QED
  BY <1>1, LInvAlways, PTL

\* Whatever the number of dials per tick and however the two loads of main.go:161
\* interleave with finishing dials, open connections plus dials in progress
\* exceed the target by at most the dials in progress it allows.
THEOREM OvershootIsBounded == Spec => []OvershootBounded
<1>1. LInv => OvershootBounded
  <2> SUFFICES ASSUME LInv PROVE OvershootBounded
    OBVIOUS
  <2> DEFINE atDial == DialsAt({"dial", "add"})
             counting == DialsAt({"count"})
  <2>1. /\ atDial \cup counting = DialsAt({"dial", "add", "count"})
        /\ atDial \cap counting = {}
        /\ atDial \subseteq Dial /\ counting \subseteq Dial
    BY DEF DialsAt
  <2>2. IsFiniteSet(atDial) /\ IsFiniteSet(counting)
    BY <2>1, ConstAssumption, FS_Subset
  <2>3. Cardinality(atDial) \in Nat /\ Cardinality(counting) \in Nat
    BY <2>2, FS_CardinalityType
  <2>4. Cardinality(atDial \cup counting)
          = Cardinality(atDial) + Cardinality(counting) - Cardinality(atDial \cap counting)
    BY <2>2, FS_Union
  <2>5. nDial = Cardinality(atDial) + nCount
    <3>1. Cardinality(atDial \cap counting) = 0
      BY <2>1, FS_EmptySet
    <3>2. nDial = Cardinality(atDial \cup counting) /\ nCount = Cardinality(counting)
      BY <2>1 DEF nDial, nCount
    <3> HIDE DEF atDial, counting
    <3>3. QED
      BY <2>3, <2>4, <3>1, <3>2
  <2>6. /\ active + nDial <= Target + Inflight
        /\ active + nCount = nStored + nUncount
        /\ active \in Int /\ nStored \in Nat /\ nUncount \in Nat /\ nCount \in Nat
    BY CountsAreNat, StoredCount DEF LInv, Headroom, Counted, TypeOK
  <2>7. Open = nStored + Cardinality(atDial)
    BY DEF Open, nStored
  <2> HIDE DEF atDial, counting
  <2>8. QED
    BY <2>3, <2>5, <2>6, <2>7, ConstAssumption DEF OvershootBounded
<1>2. QED
  BY <1>1, LInvAlways, PTL

\* With nothing under way, `active' and the gauge are the number of open
\* sockets: no interleaving of dials and closes makes them drift.
THEOREM CountsExactAtRest == Spec => []ExactAtRest
<1>1. LInv => ExactAtRest
  <2> SUFFICES ASSUME LInv, DialsAt({"idle"}) = Dial, LinksAt({"none", "up"}) = Conn
               PROVE  /\ active = Cardinality(LinksAt({"up"}))
                      /\ connsActive = active
    BY DEF ExactAtRest
  <2>1. /\ DialsAt({"count"}) = {} /\ DialsAt({"count", "gauge"}) = {}
        /\ LinksAt({"uncount"}) = {} /\ LinksAt({"uncount", "ungauge"}) = {}
    BY DEF DialsAt, LinksAt
  <2>2. nCount = 0 /\ nGauge = 0 /\ nUncount = 0 /\ nUngauge = 0
    BY <2>1, FS_EmptySet DEF nCount, nGauge, nUncount, nUngauge
  <2>3. stored = LinksAt({"up"})
    BY DEF LInv, Known, StoredAreOpen, TypeOK, DialsAt, LinksAt
  <2>4. /\ active + nCount = nStored + nUncount
        /\ connsActive + nGauge = nStored + nUngauge
        /\ active \in Int /\ connsActive \in Int /\ nStored \in Nat
    BY StoredCount DEF LInv, Counted, TypeOK
  <2>5. QED
    BY <2>2, <2>3, <2>4 DEF nStored
<1>2. QED
  BY <1>1, LInvAlways, PTL
=============================================================================
