---------------------------- MODULE ServerProofs ----------------------------
(***************************************************************************)
(* The metrics of the server account for its connections; admission keeps  *)
(* memory under a ceiling although its check and its reading are stale; and *)
(* with enough room above that ceiling no connection is lost to the OOM     *)
(* killer. For any number of connections and any costs and thresholds.     *)
(* Before it accepts any, it opens all the ports of its flags or none.      *)
(***************************************************************************)
EXTENDS Server, Startup, Counting

-----------------------------------------------------------------------------
\* How many connections are where; Admitted are those that passed the check.
Admitted == {"checked"} \cup Upgraded

nAll    == Cardinality(ConnsAt(ConnPC \ {"none"}))
nPre    == Cardinality(ConnsAt(PreUpgrade))
nUp     == Cardinality(ConnsAt(Upgraded))
nAdmit  == Cardinality(ConnsAt(Admitted))
nActive == Cardinality(ConnsAt({"total", "ws"}))
nNet    == Cardinality(ConnsAt({"ws", "leaving"}))
nWs     == Cardinality(ConnsAt({"ws"}))

MoveConn(c, p, q) == /\ conn[c] = p /\ conn'[c] = q
                     /\ \A x \in Conn \ {c} : conn'[x] = conn[x]

\* When one connection moves from p to q, each number changes by what it
\* leaves and what it enters.
LEMMA ConnMoves ==
  ASSUME NEW c \in Conn, NEW p, NEW q, MoveConn(c, p, q)
  PROVE  /\ nAll' = nAll + Ind(q \in ConnPC \ {"none"}) - Ind(p \in ConnPC \ {"none"})
         /\ nPre' = nPre + Ind(q \in PreUpgrade) - Ind(p \in PreUpgrade)
         /\ nAdmit' = nAdmit + Ind(q \in Admitted) - Ind(p \in Admitted)
         /\ nActive' = nActive + Ind(q \in {"total", "ws"}) - Ind(p \in {"total", "ws"})
         /\ nNet' = nNet + Ind(q \in {"ws", "leaving"}) - Ind(p \in {"ws", "leaving"})
<1>1. \A S : Count(Conn, conn', S) = Count(Conn, conn, S) + Ind(q \in S) - Ind(p \in S)
  BY ConstAssumption, MoveOne DEF MoveConn, ConstAssumption
<1>2. nAll' = nAll + Ind(q \in ConnPC \ {"none"}) - Ind(p \in ConnPC \ {"none"})
  BY <1>1 DEF nAll, ConnsAt, Count, ConnPC
<1>3. nPre' = nPre + Ind(q \in PreUpgrade) - Ind(p \in PreUpgrade)
  BY <1>1 DEF nPre, ConnsAt, Count, PreUpgrade
<1>4. nAdmit' = nAdmit + Ind(q \in Admitted) - Ind(p \in Admitted)
  BY <1>1 DEF nAdmit, ConnsAt, Count, Admitted, Upgraded
<1>5. nActive' = nActive + Ind(q \in {"total", "ws"}) - Ind(p \in {"total", "ws"})
  BY <1>1 DEF nActive, ConnsAt, Count
<1>6. nNet' = nNet + Ind(q \in {"ws", "leaving"}) - Ind(p \in {"ws", "leaving"})
  BY <1>1 DEF nNet, ConnsAt, Count
<1>7. QED
  BY <1>2, <1>3, <1>4, <1>5, <1>6

\* Each number is one, and the places partition as their names say.
LEMMA CountsAreNat ==
  /\ nAll \in Nat /\ nPre \in Nat /\ nUp \in Nat /\ nAdmit \in Nat
  /\ nActive \in Nat /\ nNet \in Nat /\ nWs \in Nat
  /\ nWs <= nAll
  /\ nUp <= nAdmit
  /\ nAdmit <= nUp + nPre
<1>1. \A S : Count(Conn, conn, S) \in Nat
  BY ConstAssumption, CountIsNat DEF ConstAssumption
<1>2. /\ nAll \in Nat /\ nPre \in Nat /\ nUp \in Nat /\ nAdmit \in Nat
      /\ nActive \in Nat /\ nNet \in Nat /\ nWs \in Nat
  BY <1>1 DEF nAll, nPre, nUp, nAdmit, nActive, nNet, nWs, ConnsAt, Count
<1>3. \A S : IsFiniteSet(ConnsAt(S))
  BY ConstAssumption, FS_Subset DEF ConstAssumption, ConnsAt
<1>4. /\ ConnsAt({"ws"}) \subseteq ConnsAt(ConnPC \ {"none"})
      /\ ConnsAt(Upgraded) \subseteq ConnsAt(Admitted)
      /\ ConnsAt(Admitted) \subseteq ConnsAt(Upgraded) \cup ConnsAt(PreUpgrade)
  BY DEF ConnsAt, ConnPC, Admitted, Upgraded, PreUpgrade
<1>5. nWs <= nAll /\ nUp <= nAdmit
  BY <1>3, <1>4, FS_Subset DEF nWs, nAll, nUp, nAdmit
<1>6. nAdmit <= nUp + nPre
  <2> DEFINE U == ConnsAt(Upgraded)
             P == ConnsAt(PreUpgrade)
             A == ConnsAt(Admitted)
  <2>1. IsFiniteSet(U) /\ IsFiniteSet(P) /\ A \subseteq U \cup P
    BY <1>3, <1>4
  <2>2. /\ nUp = Cardinality(U) /\ nPre = Cardinality(P) /\ nAdmit = Cardinality(A)
    BY DEF nUp, nPre, nAdmit
  <2> HIDE DEF U, P, A
  <2>3. IsFiniteSet(U \cup P) /\ IsFiniteSet(U \cap P)
    BY <2>1, FS_Union, FS_Intersection
  <2>4. Cardinality(U \cup P) = Cardinality(U) + Cardinality(P) - Cardinality(U \cap P)
    BY <2>1, FS_Union
  <2>5. Cardinality(U \cap P) \in Nat
    BY <2>3, FS_CardinalityType
  <2>6. Cardinality(A) <= Cardinality(U \cup P)
    BY <2>1, <2>3, FS_Subset
  <2>7. Cardinality(U) \in Nat /\ Cardinality(P) \in Nat /\ Cardinality(A) \in Nat
    BY <1>2, <2>2
  <2>8. QED
    BY ONLY <2>2, <2>4, <2>5, <2>6, <2>7, Cardinality(U \cup P) \in Int
<1>7. QED
  BY <1>2, <1>5, <1>6

\* Multiplying by a cost keeps the order.
LEMMA Scale ==
  ASSUME NEW k \in Nat, NEW m \in Int, NEW n \in Int
  PROVE  /\ k * m \in Int /\ k * n \in Int
         /\ m <= n => k * m <= k * n
         /\ k * (m + 1) = k * m + k
         /\ k * (m + n) = k * m + k * n
         /\ k * 0 = 0
         /\ 0 <= m => 0 <= k * m
OBVIOUS

-----------------------------------------------------------------------------
(* The inductive invariant.                                                *)

Limits == /\ nPre <= Clients /\ nAll <= MaxLoad
          /\ unread <= MaxLoad
          /\ freezes = 0 => ~frozen /\ unread = 0

\* What the connections that passed the check cost once they are websockets.
Weight == WsCost * nAdmit

\* What a reading at the threshold leaves room for: memory at the threshold, and
\* every handshake of that moment grown into a websocket.
Budget == High + (WsCost - HttpCost) * Clients

\* While the flag is down, the last reading was below the threshold, so what has
\* been admitted is at most the budget and what came since; between a reading and
\* the decision the reading may already be bad, one period of admissions old.
Headroom ==
  /\ guard = "sleep" /\ ~overloaded => Weight <= Budget + WsCost * admitted
  /\ guard = "decide" /\ sample <= High => Weight <= Budget + WsCost * admitted
  /\ guard = "decide" /\ ~overloaded =>
       Weight <= Budget + WsCost * PerPeriod + WsCost * admitted
  /\ Weight <= Budget + WsCost * PerPeriod + WsCost * PerPeriod

SInv == TypeOK /\ MetricsAccount /\ Limits /\ Headroom

\* The arithmetic facts the steps use, with every product a number.
LEMMA Products ==
  ASSUME TypeOK
  PROVE  /\ Weight \in Nat /\ Budget \in Nat
         /\ WsCost * admitted \in Nat /\ WsCost * PerPeriod \in Nat
         /\ WsCost * admitted <= WsCost * PerPeriod
         /\ WsCost \in Nat
<1>1. nAdmit \in Nat
  BY CountsAreNat
<1>2. /\ WsCost \in Nat /\ HttpCost \in Nat /\ HttpCost <= WsCost
      /\ Clients \in Nat /\ High \in Nat /\ PerPeriod \in Nat
  BY ConstAssumption DEF ConstAssumption
<1>3. admitted \in Nat /\ admitted <= PerPeriod
  BY <1>2 DEF TypeOK
<1>4. Weight \in Nat
  BY <1>1, <1>2, Scale DEF Weight
<1>5. Budget \in Nat
  <2>1. (WsCost - HttpCost) \in Nat
    BY <1>2
  <2>2. (WsCost - HttpCost) * Clients \in Nat
    BY <1>2, <2>1, Scale
  <2>3. QED
    BY <1>2, <2>2 DEF Budget
<1>6. QED
  BY <1>2, <1>3, <1>4, <1>5, Scale

\* A step that admits nobody and leaves the guard alone keeps the headroom.
LEMMA HeadroomKept ==
  ASSUME TypeOK, Headroom, nAdmit' <= nAdmit, nAdmit' \in Nat,
         UNCHANGED <<guardVars, admitted>>
  PROVE  Headroom'
<1>1. nAdmit \in Nat /\ WsCost \in Nat
  BY CountsAreNat, ConstAssumption DEF ConstAssumption
<1>2. Weight' <= Weight /\ Weight' \in Int
  <2> DEFINE m == nAdmit'
             n == nAdmit
  <2>1. m \in Int /\ n \in Int /\ m <= n
    BY <1>1
  <2>2. Weight' = WsCost * m /\ Weight = WsCost * n
    BY DEF Weight
  <2> HIDE DEF m, n
  <2>3. QED
    BY <1>1, <2>1, <2>2, Scale
<1>3. Budget' = Budget
  BY DEF Budget
<1>4. /\ Weight \in Nat /\ Budget \in Nat
      /\ WsCost * admitted \in Nat /\ WsCost * PerPeriod \in Nat
  BY Products
<1>5. /\ guard' = guard /\ sample' = sample /\ overloaded' = overloaded
      /\ admitted' = admitted
  BY DEF guardVars
<1> DEFINE A == WsCost * admitted
           P == WsCost * PerPeriod
<1>6. /\ guard = "sleep" /\ ~overloaded => Weight <= Budget + A
      /\ guard = "decide" /\ sample <= High => Weight <= Budget + A
      /\ guard = "decide" /\ ~overloaded => Weight <= Budget + P + A
      /\ Weight <= Budget + P + P
  BY DEF Headroom
<1>7. A \in Nat /\ P \in Nat /\ WsCost * admitted' = A
  BY <1>4, <1>5
<1> HIDE DEF A
<1>8. /\ guard = "sleep" /\ ~overloaded => Weight' <= Budget + A
      /\ guard = "decide" /\ sample <= High => Weight' <= Budget + A
      /\ guard = "decide" /\ ~overloaded => Weight' <= Budget + P + A
      /\ Weight' <= Budget + P + P
  <2> HIDE DEF P
  <2>1. QED
    BY <1>2, <1>4, <1>6, <1>7
<1>9. QED
  BY <1>3, <1>5, <1>7, <1>8 DEF Headroom

-----------------------------------------------------------------------------
(* The steps. A handler's step moves one connection.                       *)

\* Every step of a handler or a callback moves its connection along its life.
LEMMA Moves ==
  ASSUME TypeOK, NEW c \in Conn
  PROVE  /\ Accept(c)       => MoveConn(c, "none", "http")
         /\ Reject(c)       => MoveConn(c, "http", "refused")
         /\ PassCheck(c)    => MoveConn(c, "http", "checked")
         /\ Upgrade(c)      => MoveConn(c, "checked", "opened")
         /\ UpgradeFails(c) => MoveConn(c, "checked", "refused")
         /\ OnOpenActive(c) => MoveConn(c, "opened", "total")
         /\ OnOpenTotal(c)  => MoveConn(c, "total", "ws")
         /\ HangUp(c)       => MoveConn(c, "http", "none") \/ MoveConn(c, "refused", "none")
         /\ OnCloseActive(c) => MoveConn(c, "ws", "leaving")
         /\ OnCloseTotal(c) => MoveConn(c, "leaving", "none")
<1>1. ASSUME NEW p, NEW q, Move(c, p, q)
      PROVE  MoveConn(c, p, q)
  BY <1>1 DEF Move, MoveConn, TypeOK
<1>2. QED
  BY <1>1 DEF Accept, Reject, PassCheck, Upgrade, UpgradeFails, OnOpenActive,
              OnOpenTotal, HangUp, OnCloseActive, OnCloseTotal

\* What each move does to the numbers.
LEMMA Sizes ==
  ASSUME NEW c \in Conn
  PROVE  /\ MoveConn(c, "none", "http") =>
              /\ nAll' = nAll + 1 /\ nPre' = nPre + 1
              /\ UNCHANGED <<nAdmit, nActive, nNet>>
         /\ MoveConn(c, "http", "refused") =>
              UNCHANGED <<nAll, nPre, nAdmit, nActive, nNet>>
         /\ MoveConn(c, "http", "checked") =>
              /\ nAdmit' = nAdmit + 1
              /\ UNCHANGED <<nAll, nPre, nActive, nNet>>
         /\ MoveConn(c, "checked", "opened") =>
              /\ nPre' = nPre - 1
              /\ UNCHANGED <<nAll, nAdmit, nActive, nNet>>
         /\ MoveConn(c, "checked", "refused") =>
              /\ nAdmit' = nAdmit - 1
              /\ UNCHANGED <<nAll, nPre, nActive, nNet>>
         /\ MoveConn(c, "opened", "total") =>
              /\ nActive' = nActive + 1
              /\ UNCHANGED <<nAll, nPre, nAdmit, nNet>>
         /\ MoveConn(c, "total", "ws") =>
              /\ nNet' = nNet + 1
              /\ UNCHANGED <<nAll, nPre, nAdmit, nActive>>
         /\ MoveConn(c, "http", "none") \/ MoveConn(c, "refused", "none") =>
              /\ nAll' = nAll - 1 /\ nPre' = nPre - 1
              /\ UNCHANGED <<nAdmit, nActive, nNet>>
         /\ MoveConn(c, "ws", "leaving") =>
              /\ nActive' = nActive - 1
              /\ UNCHANGED <<nAll, nPre, nAdmit, nNet>>
         /\ MoveConn(c, "leaving", "none") =>
              /\ nAll' = nAll - 1 /\ nAdmit' = nAdmit - 1 /\ nNet' = nNet - 1
              /\ UNCHANGED <<nPre, nActive>>
<1> USE DEF Ind, ConnPC, PreUpgrade, Admitted, Upgraded
<1>1. nAll \in Nat /\ nPre \in Nat /\ nAdmit \in Nat /\ nActive \in Nat /\ nNet \in Nat
  BY CountsAreNat
<1>2. MoveConn(c, "none", "http") =>
              /\ nAll' = nAll + 1 /\ nPre' = nPre + 1
              /\ UNCHANGED <<nAdmit, nActive, nNet>>
  BY <1>1, ConnMoves
<1>3. MoveConn(c, "http", "refused") =>
              UNCHANGED <<nAll, nPre, nAdmit, nActive, nNet>>
  BY <1>1, ConnMoves
<1>4. MoveConn(c, "http", "checked") =>
              /\ nAdmit' = nAdmit + 1
              /\ UNCHANGED <<nAll, nPre, nActive, nNet>>
  BY <1>1, ConnMoves
<1>5. MoveConn(c, "checked", "opened") =>
              /\ nPre' = nPre - 1
              /\ UNCHANGED <<nAll, nAdmit, nActive, nNet>>
  BY <1>1, ConnMoves
<1>6. MoveConn(c, "checked", "refused") =>
              /\ nAdmit' = nAdmit - 1
              /\ UNCHANGED <<nAll, nPre, nActive, nNet>>
  BY <1>1, ConnMoves
<1>7. MoveConn(c, "opened", "total") =>
              /\ nActive' = nActive + 1
              /\ UNCHANGED <<nAll, nPre, nAdmit, nNet>>
  BY <1>1, ConnMoves
<1>8. MoveConn(c, "total", "ws") =>
              /\ nNet' = nNet + 1
              /\ UNCHANGED <<nAll, nPre, nAdmit, nActive>>
  BY <1>1, ConnMoves
<1>9. MoveConn(c, "http", "none") \/ MoveConn(c, "refused", "none") =>
              /\ nAll' = nAll - 1 /\ nPre' = nPre - 1
              /\ UNCHANGED <<nAdmit, nActive, nNet>>
  BY <1>1, ConnMoves
<1>10. MoveConn(c, "ws", "leaving") =>
              /\ nActive' = nActive - 1
              /\ UNCHANGED <<nAll, nPre, nAdmit, nNet>>
  BY <1>1, ConnMoves
<1>11. MoveConn(c, "leaving", "none") =>
              /\ nAll' = nAll - 1 /\ nAdmit' = nAdmit - 1 /\ nNet' = nNet - 1
              /\ UNCHANGED <<nPre, nActive>>
  BY <1>1, ConnMoves
<1>12. QED
  BY <1>2, <1>3, <1>4, <1>5, <1>6, <1>7, <1>8, <1>9, <1>10, <1>11

-----------------------------------------------------------------------------
(* The invariant holds and is kept.                                        *)

\* Nothing open: every number is 0, and admission has its whole budget.
LEMMA NothingOpen ==
  ASSUME conn = [c \in Conn |-> "none"]
  PROVE  nAll = 0 /\ nPre = 0 /\ nAdmit = 0 /\ nActive = 0 /\ nNet = 0
<1>1. /\ ConnsAt(ConnPC \ {"none"}) = {} /\ ConnsAt(PreUpgrade) = {}
      /\ ConnsAt(Admitted) = {} /\ ConnsAt({"total", "ws"}) = {}
      /\ ConnsAt({"ws", "leaving"}) = {}
  BY DEF ConnsAt, ConnPC, PreUpgrade, Admitted, Upgraded
<1>2. QED
  BY <1>1, FS_EmptySet DEF nAll, nPre, nAdmit, nActive, nNet

\* The assumptions, one fact each.
LEMMA Constants ==
  /\ Low \in Nat /\ High \in Nat /\ Clients \in Nat /\ MaxLoad \in Nat
  /\ WsCost \in Nat /\ HttpCost \in Nat /\ PageCost \in Nat /\ Max \in Nat
  /\ PerPeriod \in Nat /\ MaxFreezes \in Nat /\ MaxKills \in Nat
  /\ Low <= High /\ HttpCost <= WsCost
BY ConstAssumption DEF ConstAssumption

\* A process that has just started satisfies the invariant.
LEMMA InitSInv == Init => SInv
<1> SUFFICES ASSUME Init PROVE SInv
  OBVIOUS
<1>1. nAll = 0 /\ nPre = 0 /\ nAdmit = 0 /\ nActive = 0 /\ nNet = 0
  BY NothingOpen DEF Init
<1>2. TypeOK
  <2>1. conn \in [Conn -> ConnPC]
    BY DEF Init, ConnPC
  <2>2. /\ active = 0 /\ net = 0 /\ overloaded = FALSE /\ guard = "sleep" /\ sample = 0
        /\ admitted = 0 /\ unread = 0 /\ frozen = FALSE /\ freezes = 0 /\ kills = 0
    BY DEF Init
  <2>3. overloaded \in BOOLEAN /\ frozen \in BOOLEAN
    BY <2>2
  <2>4. /\ active \in Int /\ net \in Int /\ sample \in Nat /\ unread \in Nat
        /\ admitted \in 0 .. PerPeriod /\ freezes \in 0 .. MaxFreezes /\ kills \in 0 .. MaxKills
    BY <2>2, Constants
  <2>5. guard \in {"sleep", "decide"}
    BY <2>2
  <2>6. QED
    BY <2>1, <2>3, <2>4, <2>5 DEF TypeOK
<1>3. MetricsAccount
  BY <1>1 DEF Init, MetricsAccount, nActive, nNet
<1>4. Limits
  BY <1>1, Constants DEF Init, Limits
<1>5. Headroom
  <2>1. Weight = 0
    BY <1>1, Constants, Scale DEF Weight
  <2>2. /\ Budget \in Nat /\ WsCost * admitted \in Nat /\ WsCost * PerPeriod \in Nat
    BY <1>2, Products
  <2>3. QED
    BY <2>1, <2>2 DEF Init, Headroom
<1>6. QED
  BY <1>2, <1>3, <1>4, <1>5 DEF SInv

\* Types and limits, from what a step does to the numbers.
LEMMA TypeKept == TypeOK /\ Limits /\ [Next]_vars => TypeOK'
<1> SUFFICES ASSUME TypeOK, Limits, [Next]_vars PROVE TypeOK'
  OBVIOUS
<1>1. ASSUME NEW c \in Conn,
             Accept(c) \/ Handler(c) \/ HangUp(c) \/ OnCloseActive(c)
      PROVE  TypeOK'
  <2>1. ASSUME NEW p, NEW q \in ConnPC, Move(c, p, q)
        PROVE  conn' \in [Conn -> ConnPC]
    BY <2>1 DEF Move, TypeOK
  <2>2. conn' \in [Conn -> ConnPC]
    BY <1>1, <2>1 DEF ConnPC, Accept, Handler, Reject, PassCheck, Upgrade, UpgradeFails,
          OnOpenActive, OnOpenTotal, HangUp, OnCloseActive, OnCloseTotal
  <2>3. active' \in Int /\ net' \in Int /\ admitted' \in 0 .. PerPeriod
    BY <1>1, Constants DEF TypeOK, metrics, Accept, Handler, Reject, PassCheck,
          Upgrade, UpgradeFails, OnOpenActive, OnOpenTotal, HangUp, OnCloseActive, OnCloseTotal
  <2>4. UNCHANGED <<guardVars, outside>>
    BY <1>1 DEF Accept, Handler, Reject, PassCheck, Upgrade, UpgradeFails,
          OnOpenActive, OnOpenTotal, HangUp, OnCloseActive, OnCloseTotal
  <2>5. QED
    BY <2>2, <2>3, <2>4 DEF TypeOK, guardVars, outside
<1>2. CASE GuardRead
  <2>1. Memory \in Nat
    <3>1. nPre \in Nat /\ nUp \in Nat /\ unread \in Nat
      BY CountsAreNat DEF TypeOK
    <3>2. HttpCost * nPre \in Nat /\ WsCost * nUp \in Nat /\ PageCost * unread \in Nat
      BY <3>1, Constants, Scale
    <3>3. QED
      BY <3>2 DEF Memory, nPre, nUp
  <2>2. QED
    BY <1>2, <2>1, Constants DEF GuardRead, TypeOK, metrics, outside
<1>3. CASE GuardDecide
  BY <1>3 DEF GuardDecide, TypeOK, metrics, outside
<1>4. CASE Freeze
  BY <1>4, Constants DEF Freeze, TypeOK, metrics, guardVars
<1>5. CASE MessageArrives
  BY <1>5 DEF MessageArrives, TypeOK, metrics, guardVars
<1>6. CASE Resume
  BY <1>6 DEF Resume, TypeOK, metrics, guardVars
<1>7. CASE Drain
  BY <1>7 DEF Drain, TypeOK, metrics, guardVars
<1>8. CASE OOMKill
  <2>1. conn' \in [Conn -> ConnPC]
    BY <1>8 DEF OOMKill, ConnPC
  <2>2. /\ active' = 0 /\ net' = 0 /\ overloaded' = FALSE /\ guard' = "sleep"
        /\ sample' = 0 /\ admitted' = 0 /\ unread' = 0 /\ kills' = kills + 1
        /\ frozen' = frozen /\ freezes' = freezes /\ kills < MaxKills
    BY <1>8 DEF OOMKill
  <2>3. frozen \in BOOLEAN /\ freezes \in 0 .. MaxFreezes /\ kills \in 0 .. MaxKills
    BY DEF TypeOK
  <2>4. overloaded' \in BOOLEAN /\ frozen' \in BOOLEAN
    BY <2>2, <2>3
  <2>5. /\ active' \in Int /\ net' \in Int /\ sample' \in Nat /\ unread' \in Nat
        /\ admitted' \in 0 .. PerPeriod
        /\ freezes' \in 0 .. MaxFreezes /\ kills' \in 0 .. MaxKills
    BY <2>2, <2>3, Constants
  <2>6. guard' \in {"sleep", "decide"}
    BY <2>2
  <2>7. QED
    BY <2>1, <2>4, <2>5, <2>6 DEF TypeOK
<1>9. CASE UNCHANGED vars
  BY <1>9 DEF vars, metrics, guardVars, outside, TypeOK
<1>10. QED
  BY <1>1, <1>2, <1>3, <1>4, <1>5, <1>6, <1>7, <1>8, <1>9 DEF Next, Guard, World

\* One move of a connection keeps the metrics, the limits and the headroom.
LEMMA ConnStepKept ==
  ASSUME SInv, NEW c \in Conn,
         Accept(c) \/ Handler(c) \/ HangUp(c) \/ OnCloseActive(c)
  PROVE  MetricsAccount' /\ Limits' /\ Headroom'
<1>1. TypeOK /\ Headroom /\ active = nActive /\ net = nNet
  BY DEF SInv, MetricsAccount, nActive, nNet
<1>2. /\ nAll \in Nat /\ nPre \in Nat /\ nAdmit \in Nat /\ nActive \in Nat /\ nNet \in Nat
  BY CountsAreNat
<1>3. nAll' \in Nat /\ nPre' \in Nat /\ nAdmit' \in Nat
  <2>1. \A S : Count(Conn, conn', S) \in Nat
    BY ConstAssumption, CountIsNat DEF ConstAssumption
  <2>2. QED
    BY <2>1 DEF nAll, nPre, nAdmit, ConnsAt, Count
<1>4. nPre <= Clients /\ nAll <= MaxLoad /\ unread <= MaxLoad
  BY DEF SInv, Limits
\* What is left to show, in numbers.
<1>5. ASSUME nPre' <= Clients, nAll' <= MaxLoad, active' = nActive', net' = nNet',
             UNCHANGED outside, Headroom'
      PROVE  MetricsAccount' /\ Limits' /\ Headroom'
  BY <1>5 DEF SInv, MetricsAccount, Limits, nActive, nNet, outside
<1>6. CASE Accept(c)
  <2>1. /\ nAll' = nAll + 1 /\ nPre' = nPre + 1 /\ nAdmit' = nAdmit
        /\ nActive' = nActive /\ nNet' = nNet
    BY <1>1, <1>6, Moves, Sizes
  <2>2. nAll < MaxLoad /\ nPre < Clients
    BY <1>6 DEF Accept, nAll, nPre
  <2>3. UNCHANGED <<metrics, guardVars, admitted, outside>>
    BY <1>6 DEF Accept
  <2>4. Headroom'
    BY <1>1, <1>2, <2>1, <2>3, HeadroomKept
  <2>5. QED
    BY <1>1, <1>2, <1>5, <2>1, <2>2, <2>3, <2>4, Constants DEF metrics
<1>7. CASE PassCheck(c)
  <2>1. /\ nAdmit' = nAdmit + 1 /\ nAll' = nAll /\ nPre' = nPre
        /\ nActive' = nActive /\ nNet' = nNet
    BY <1>1, <1>7, Moves, Sizes
  <2>2. /\ admitted' = admitted + 1 /\ ~overloaded /\ UNCHANGED <<metrics, guardVars, outside>>
    BY <1>7 DEF PassCheck
  <2>3. Headroom'
    <3> DEFINE A == WsCost * admitted
               P == WsCost * PerPeriod
    <3>1. /\ Weight \in Nat /\ Budget \in Nat /\ A \in Nat /\ P \in Nat
          /\ WsCost \in Nat /\ A <= P
      BY <1>1, Products
    <3>2. /\ Weight' = Weight + WsCost /\ WsCost * admitted' = A + WsCost
      BY <1>1, <1>2, <2>1, <2>2, Scale, Constants DEF Weight, TypeOK
    <3>3. A + WsCost <= P
      <4>1. admitted + 1 <= PerPeriod /\ admitted \in Int
        BY <1>1, <1>7, Constants DEF PassCheck, TypeOK
      <4>2. WsCost * (admitted + 1) <= WsCost * PerPeriod
        BY <4>1, Scale, Constants
      <4>3. QED
        BY <4>1, <4>2, Scale, Constants
    <3>4. /\ guard = "sleep" /\ ~overloaded => Weight <= Budget + A
          /\ guard = "decide" /\ sample <= High => Weight <= Budget + A
          /\ guard = "decide" /\ ~overloaded => Weight <= Budget + P + A
          /\ Weight <= Budget + P + P
      BY <1>1 DEF Headroom
    <3>5. guard = "sleep" \/ guard = "decide"
      BY <1>1 DEF TypeOK
    <3> HIDE DEF A, P
    <3>6. /\ guard = "sleep" /\ ~overloaded => Weight' <= Budget + (A + WsCost)
          /\ guard = "decide" /\ sample <= High => Weight' <= Budget + (A + WsCost)
          /\ guard = "decide" /\ ~overloaded => Weight' <= Budget + P + (A + WsCost)
          /\ Weight' <= Budget + P + P
      BY ONLY <2>2, <3>1, <3>2, <3>3, <3>4, <3>5
    <3>7. Budget' = Budget /\ UNCHANGED <<guard, sample, overloaded>>
      BY <2>2 DEF Budget, guardVars
    <3>8. QED
      BY <3>2, <3>6, <3>7 DEF Headroom, P
  <2>4. QED
    BY <1>1, <1>2, <1>4, <1>5, <2>1, <2>2, <2>3, Constants DEF metrics
<1>8. CASE HangUp(c) \/ OnCloseActive(c) \/ OnCloseTotal(c) \/ Reject(c)
           \/ Upgrade(c) \/ UpgradeFails(c) \/ OnOpenActive(c) \/ OnOpenTotal(c)
  <2>1. nPre' <= nPre /\ nAll' <= nAll /\ nAdmit' <= nAdmit
    BY <1>1, <1>2, <1>8, Moves, Sizes
  <2>2. active' - active = nActive' - nActive /\ net' - net = nNet' - nNet
    BY <1>1, <1>2, <1>8, Moves, Sizes DEF metrics, HangUp, OnCloseActive, OnCloseTotal,
          Reject, Upgrade, UpgradeFails, OnOpenActive, OnOpenTotal
  <2>3. UNCHANGED <<guardVars, admitted, outside>>
    BY <1>8 DEF HangUp, OnCloseActive, OnCloseTotal,
          Reject, Upgrade, UpgradeFails, OnOpenActive, OnOpenTotal
  <2>4. Headroom'
    BY <1>1, <1>3, <2>1, <2>3, HeadroomKept
  <2>5. active' = nActive' /\ net' = nNet'
    <3>1. active' \in Int /\ net' \in Int /\ nActive' \in Int /\ nNet' \in Int
      BY <1>1, <1>2, <1>8, Moves, Sizes DEF metrics, HangUp, OnCloseActive, OnCloseTotal,
          Reject, Upgrade, UpgradeFails, OnOpenActive, OnOpenTotal
    <3>2. QED
      BY <1>1, <1>2, <2>2, <3>1
  <2>6. QED
    BY <1>2, <1>3, <1>4, <1>5, <2>1, <2>3, <2>4, <2>5, Constants
<1>9. QED
  BY <1>6, <1>7, <1>8 DEF Handler

\* What passed the check weighs at most a reading plus the handshakes of that
\* moment grown into websockets.
LEMMA WeightAtReading ==
  ASSUME SInv
  PROVE  Weight <= Memory + (WsCost - HttpCost) * Clients
<1>1. /\ nAdmit \in Nat /\ nUp \in Nat /\ nPre \in Nat /\ unread \in Nat
      /\ nAdmit <= nUp + nPre /\ nPre <= Clients
  BY CountsAreNat DEF SInv, TypeOK, Limits
<1> DEFINE d == WsCost - HttpCost
<1>2. d \in Nat /\ WsCost = HttpCost + d
  BY Constants
<1>3. WsCost * nAdmit <= WsCost * nUp + WsCost * nPre
  <2>1. WsCost * nAdmit <= WsCost * (nUp + nPre)
    BY <1>1, Scale, Constants
  <2>2. QED
    BY <1>1, <2>1, Scale, Constants
<1>4. WsCost * nPre = HttpCost * nPre + d * nPre
  BY <1>1, <1>2, Constants
<1>5. d * nPre <= d * Clients
  <2> HIDE DEF d
  <2>1. QED
    BY <1>1, <1>2, Scale, Constants
<1>6. Memory = HttpCost * nPre + WsCost * nUp + PageCost * unread
  BY DEF Memory, nPre, nUp
<1>7. /\ WsCost * nAdmit \in Int /\ WsCost * nUp \in Int /\ WsCost * nPre \in Int
      /\ HttpCost * nPre \in Int /\ d * nPre \in Int /\ d * Clients \in Int
      /\ PageCost * unread \in Nat
  BY <1>1, <1>2, Scale, Constants
<1>8. Weight = WsCost * nAdmit
  BY DEF Weight
<1>9. Weight <= Memory + d * Clients
  BY ONLY <1>3, <1>4, <1>5, <1>6, <1>7, <1>8
<1>10. QED
  BY <1>9

\* The guard's two steps.
LEMMA GuardKept ==
  ASSUME SInv, Guard
  PROVE  Headroom'
<1>1. /\ Weight \in Nat /\ Budget \in Nat
      /\ WsCost * admitted \in Nat /\ WsCost * PerPeriod \in Nat
      /\ WsCost * admitted <= WsCost * PerPeriod
  BY Products DEF SInv
<1> DEFINE A == WsCost * admitted
           P == WsCost * PerPeriod
<1>2. /\ guard = "sleep" /\ ~overloaded => Weight <= Budget + A
      /\ guard = "decide" /\ sample <= High => Weight <= Budget + A
      /\ Weight <= Budget + P + P
  BY DEF SInv, Headroom
<1>3. Weight' = Weight /\ Budget' = Budget
  BY DEF Guard, GuardRead, GuardDecide, Weight, Budget, nAdmit, ConnsAt
<1>4. CASE GuardRead
  <2>1. /\ guard = "sleep" /\ guard' = "decide" /\ sample' = Memory
        /\ admitted' = 0 /\ overloaded' = overloaded
    BY <1>4 DEF GuardRead
  <2>2. WsCost * admitted' = 0
    BY <2>1, Scale, Constants
  <2>3. Memory \in Int /\ (WsCost - HttpCost) * Clients \in Int
    <3>1. nPre \in Nat /\ nUp \in Nat /\ unread \in Nat /\ (WsCost - HttpCost) \in Nat
      BY CountsAreNat, Constants DEF SInv, TypeOK
    <3>2. /\ HttpCost * nPre \in Nat /\ WsCost * nUp \in Nat /\ PageCost * unread \in Nat
          /\ (WsCost - HttpCost) * Clients \in Nat
      BY <3>1, Constants, Scale
    <3>3. QED
      BY <3>2 DEF Memory, nPre, nUp
  <2>4. sample' <= High => Weight <= Budget
    <3> DEFINE e == (WsCost - HttpCost) * Clients
    <3>1. Weight <= Memory + e /\ Budget = High + e /\ e \in Int
      BY <2>3, WeightAtReading DEF Budget
    <3> HIDE DEF e
    <3>2. QED
      BY ONLY <1>1, <2>1, <2>3, <3>1, Constants
  <2> HIDE DEF A, P
  <2>5. ~overloaded => Weight <= Budget + P + 0
    BY ONLY <1>1, <1>2, <2>1 DEF A, P
  <2>6. QED
    BY <1>1, <1>2, <1>3, <2>1, <2>2, <2>4, <2>5 DEF Headroom, P
<1>5. CASE GuardDecide
  <2>1. /\ guard = "decide" /\ guard' = "sleep" /\ admitted' = admitted
        /\ ~overloaded' => sample <= High
    BY <1>5, Constants DEF GuardDecide, SInv, TypeOK
  <2>2. QED
    BY <1>1, <1>2, <1>3, <2>1 DEF Headroom
<1>6. QED
  BY <1>4, <1>5 DEF Guard

\* The world outside moves no connection, or takes all of them.
LEMMA WorldKept ==
  ASSUME SInv, World
  PROVE  MetricsAccount' /\ Limits' /\ Headroom'
<1>1. TypeOK /\ MetricsAccount /\ Limits /\ Headroom
  BY DEF SInv
<1>2. CASE conn' = conn /\ UNCHANGED <<metrics, guardVars, admitted>>
  <2>1. UNCHANGED <<nAll, nPre, nAdmit, nActive, nNet, nWs>>
    BY <1>2 DEF nAll, nPre, nAdmit, nActive, nNet, nWs, ConnsAt
  <2>2. MetricsAccount'
    BY <1>1, <1>2, <2>1 DEF MetricsAccount, metrics, nActive, nNet
  <2>3. Headroom'
    <3>1. nAdmit \in Nat
      BY CountsAreNat
    <3>2. QED
      BY <1>1, <1>2, <2>1, <3>1, HeadroomKept
  <2>4. Limits'
    <3>1. /\ freezes' = 0 => ~frozen' /\ unread' = 0
          /\ unread' <= MaxLoad
      <4>1. /\ nWs \in Nat /\ nAll \in Nat /\ nWs <= nAll /\ nAll <= MaxLoad
            /\ unread \in Nat /\ unread <= MaxLoad /\ freezes \in Nat
            /\ freezes = 0 => ~frozen /\ unread = 0
        BY <1>1, CountsAreNat, Constants DEF TypeOK, Limits
      <4>2. CASE Freeze
        BY <4>1, <4>2 DEF Freeze
      <4>3. CASE MessageArrives
        BY <4>1, <4>3, Constants DEF MessageArrives, nWs
      <4>4. CASE Resume \/ Drain
        BY <4>1, <4>4, Constants DEF Resume, Drain
      <4>5. CASE OOMKill
        BY <4>1, <4>5, Constants DEF OOMKill
      <4>6. QED
        BY <4>2, <4>3, <4>4, <4>5 DEF World
    <3>2. QED
      BY <1>1, <2>1, <3>1 DEF Limits
  <2>5. QED
    BY <2>2, <2>3, <2>4
<1>3. CASE OOMKill
  <2>1. /\ conn' = [c \in Conn |-> "none"]
        /\ active' = 0 /\ net' = 0 /\ guard' = "sleep" /\ admitted' = 0 /\ unread' = 0
        /\ ~frozen /\ frozen' = frozen
    BY <1>3 DEF OOMKill
  <2>2. nAll' = 0 /\ nPre' = 0 /\ nAdmit' = 0 /\ nActive' = 0 /\ nNet' = 0
    <3>1. /\ ConnsAt(ConnPC \ {"none"})' = {} /\ ConnsAt(PreUpgrade)' = {}
          /\ ConnsAt(Admitted)' = {} /\ ConnsAt({"total", "ws"})' = {}
          /\ ConnsAt({"ws", "leaving"})' = {}
      BY <2>1 DEF ConnsAt, ConnPC, PreUpgrade, Admitted, Upgraded
    <3>2. QED
      BY <3>1, FS_EmptySet DEF nAll, nPre, nAdmit, nActive, nNet
  <2>3. MetricsAccount'
    BY <2>1, <2>2 DEF MetricsAccount, nActive, nNet
  <2>4. Limits'
    BY <2>1, <2>2, Constants DEF Limits
  <2>5. Headroom'
    <3>1. Weight' = 0 /\ Budget' = Budget /\ WsCost * admitted' = 0
      BY <2>1, <2>2, Scale, Constants DEF Weight, Budget
    <3>2. Budget \in Nat /\ WsCost * PerPeriod \in Nat
      BY <1>1, Products
    <3>3. QED
      BY <2>1, <3>1, <3>2 DEF Headroom
  <2>6. QED
    BY <2>3, <2>4, <2>5
<1>4. QED
  BY <1>2, <1>3 DEF World, Freeze, MessageArrives, Resume, Drain

\* Every step keeps the invariant.
LEMMA NextSInv == SInv /\ [Next]_vars => SInv'
<1> SUFFICES ASSUME SInv, [Next]_vars PROVE SInv'
  OBVIOUS
<1>1. TypeOK'
  BY TypeKept DEF SInv
<1>2. MetricsAccount' /\ Limits' /\ Headroom'
  <2>1. ASSUME NEW c \in Conn,
               Accept(c) \/ Handler(c) \/ HangUp(c) \/ OnCloseActive(c)
        PROVE  MetricsAccount' /\ Limits' /\ Headroom'
    BY <2>1, ConnStepKept
  <2>2. CASE Guard
    <3>1. UNCHANGED <<conn, active, net, unread, frozen, freezes>>
      BY <2>2 DEF Guard, GuardRead, GuardDecide, metrics, outside
    <3>2. UNCHANGED <<nPre, nAll>>
      BY <3>1 DEF nPre, nAll, ConnsAt
    <3>3. MetricsAccount' /\ Limits'
      BY <3>1, <3>2 DEF SInv, MetricsAccount, Limits, ConnsAt
    <3>4. QED
      BY <2>2, <3>3, GuardKept
  <2>3. CASE World
    BY <2>3, WorldKept
  <2>4. CASE UNCHANGED vars
    <3>1. /\ UNCHANGED <<conn, active, net, guardVars, admitted>>
          /\ UNCHANGED <<unread, frozen, freezes, kills, nAll, nPre, nAdmit>>
      BY <2>4 DEF vars, metrics, outside, nAll, nPre, nAdmit, ConnsAt
    <3>2. MetricsAccount' /\ Limits'
      BY <3>1 DEF SInv, MetricsAccount, Limits, ConnsAt
    <3>3. Headroom'
      BY <3>1, CountsAreNat, HeadroomKept DEF SInv
    <3>4. QED
      BY <3>2, <3>3
  <2>5. QED
    BY <2>1, <2>2, <2>3, <2>4 DEF Next
<1>3. QED
  BY <1>1, <1>2 DEF SInv

\* The invariant holds in every state.
LEMMA SInvHolds == Spec => []SInv
BY InitSInv, NextSInv, PTL DEF Spec

-----------------------------------------------------------------------------
\* Every part of the server keeps its kind, and between two readings of the guard no
\* more requests than PerPeriod are counted as admitted (main.go:163-186, memory.go:102-121).
THEOREM ServerTypes == Spec => []TypeOK
<1>1. SInv => TypeOK
  BY DEF SInv
<1>2. QED
  BY <1>1, SInvHolds, PTL

\* The gauge of active connections and the difference of the two counters are
\* exact but for callbacks under way, through refusals, failed upgrades and
\* restarts, for any number of connections (main.go:69-80).
THEOREM MetricsAreExact == Spec => []MetricsAccount
<1>1. SInv => MetricsAccount
  BY DEF SInv
<1>2. QED
  BY <1>1, SInvHolds, PTL

\* What connections cost, messages apart, in the terms of the proof.
LEMMA SInvBounds ==
  ASSUME SInv
  PROVE  AdmissionBounded /\ Memory \in Int /\ Ceiling \in Int /\ PageCost * unread \in Int
<1>1. /\ nAdmit \in Nat /\ nUp \in Nat /\ nPre \in Nat /\ unread \in Nat
      /\ nUp <= nAdmit /\ nPre <= Clients
  BY CountsAreNat DEF SInv, TypeOK, Limits
<1> DEFINE d == WsCost - HttpCost
           P == WsCost * PerPeriod
           X == WsCost * Clients
<1>2. d \in Nat
  BY Constants
<1>3. HttpCost * nPre <= HttpCost * Clients /\ WsCost * nUp <= WsCost * nAdmit
  BY <1>1, Scale, Constants
<1>4. X = HttpCost * Clients + d * Clients
  BY Constants
<1>5. /\ HttpCost * nPre \in Int /\ WsCost * nUp \in Int /\ PageCost * unread \in Int
      /\ HttpCost * Clients \in Int /\ d * Clients \in Int /\ X \in Int /\ P \in Int
      /\ Weight \in Int
  BY <1>1, <1>2, Scale, Constants DEF Weight
<1>6. Weight <= High + d * Clients + P + P
  BY DEF SInv, Headroom, Budget
<1>7. Memory = HttpCost * nPre + WsCost * nUp + PageCost * unread
  BY DEF Memory, nPre, nUp
<1>8. Ceiling = High + X + P + P
  <2>1. WsCost * (2 * PerPeriod) = P + P
    BY Constants
  <2>2. WsCost * (Clients + 2 * PerPeriod) = X + WsCost * (2 * PerPeriod)
    BY Constants, Scale
  <2> HIDE DEF X, P
  <2>3. QED
    BY <1>5, <2>1, <2>2, Constants DEF Ceiling
<1>9. Weight = WsCost * nAdmit
  BY DEF Weight
<1>10. Memory - PageCost * unread <= Ceiling /\ Memory \in Int /\ Ceiling \in Int
  <2> HIDE DEF d, X, P
  <2>1. QED
    BY ONLY <1>3, <1>4, <1>5, <1>6, <1>7, <1>8, <1>9, Constants
<1>11. QED
  BY <1>5, <1>10 DEF AdmissionBounded

\* Whatever the costs and the thresholds, admission alone takes memory at most
\* two guard periods of requests and one load of handshakes over the upper
\* threshold (memory.go:102-123, main.go:165-175).
THEOREM AdmissionIsBounded == Spec => []AdmissionBounded
<1>1. SInv => AdmissionBounded
  BY SInvBounds
<1>2. QED
  BY <1>1, SInvHolds, PTL

\* Enough memory above the ceiling: either the process never stops reading its
\* sockets, or every connection may have a message waiting.
AmpleMemory == \/ MaxFreezes = 0 /\ Ceiling <= Max
               \/ Ceiling + PageCost * MaxLoad <= Max

\* With that, the OOM killer never runs and every connection stays up, which is
\* what memory.go:97-101 promises of the guard.
THEOREM AmpleMemoryKeepsConnections ==
  ASSUME AmpleMemory
  PROVE  Spec => []ExistingStayUp
<1>1. SInv => Memory <= Max
  <2> SUFFICES ASSUME SInv PROVE Memory <= Max
    OBVIOUS
  <2>1. /\ Memory - PageCost * unread <= Ceiling /\ Memory \in Int /\ Ceiling \in Int
        /\ PageCost * unread \in Int
    BY SInvBounds DEF AdmissionBounded
  <2>2. CASE MaxFreezes = 0 /\ Ceiling <= Max
    <3>1. unread = 0
      BY <2>2 DEF SInv, TypeOK, Limits
    <3>2. PageCost * unread = 0
      BY <3>1, Scale, Constants
    <3>3. QED
      BY ONLY <2>1, <2>2, <3>2, Constants
  <2>3. CASE Ceiling + PageCost * MaxLoad <= Max
    <3>1. unread \in Nat /\ unread <= MaxLoad
      BY DEF SInv, TypeOK, Limits
    <3>2. PageCost * unread <= PageCost * MaxLoad /\ PageCost * MaxLoad \in Int
      BY <3>1, Scale, Constants
    <3>3. QED
      BY ONLY <2>1, <2>3, <3>2, Constants
  <2>4. QED
    BY <2>2, <2>3, AmpleMemory DEF AmpleMemory
<1>2. Init => ExistingStayUp
  BY DEF Init, ExistingStayUp
<1>3. SInv /\ ExistingStayUp /\ [Next]_vars => ExistingStayUp'
  <2> SUFFICES ASSUME SInv, ExistingStayUp, [Next]_vars PROVE ExistingStayUp'
    OBVIOUS
  <2>1. ~OOMKill
    <3>1. Memory <= Max /\ Memory \in Int
      BY <1>1, SInvBounds
    <3>2. QED
      BY <3>1, Constants DEF OOMKill
  <2>2. kills' = kills
    BY <2>1 DEF Next, Handler, Guard, World, vars, outside, Accept, Reject, PassCheck,
          Upgrade, UpgradeFails, OnOpenActive, OnOpenTotal, HangUp, OnCloseActive,
          OnCloseTotal, GuardRead, GuardDecide, Freeze, MessageArrives, Resume, Drain
  <2>3. QED
    BY <2>2 DEF ExistingStayUp
<1>4. QED
  BY <1>2, <1>3, SInvHolds, PTL DEF Spec

-----------------------------------------------------------------------------
(* Startup: the ports.                                                     *)

\* The ranges of the flags.
Ranges(list) == UNION {list[i].lo .. list[i].hi : i \in {j \in DOMAIN list : list[j].text = "range"}}

NoRepeats(q) == \A x, y \in 1 .. Len(q) : q[x] = q[y] => x = y

\* What is in two sequences, one after the other.
LEMMA JoinedSeq ==
  ASSUME NEW S, NEW q \in Seq(S), NEW r \in Seq(S)
  PROVE  q \o r \in Seq(S) /\ Range(q \o r) = Range(q) \cup Range(r)
<1> DEFINE a == q \o r
           m == Len(q)
           n == Len(r)
<1>1. /\ a \in Seq(S) /\ m \in Nat /\ n \in Nat /\ Len(a) = m + n
      /\ \A x \in 1 .. m : a[x] = q[x]
      /\ \A x \in 1 .. n : a[m + x] = r[x]
  OBVIOUS
<1>2. /\ Range(q) = {q[x] : x \in 1 .. m} /\ Range(r) = {r[x] : x \in 1 .. n}
      /\ Range(a) = {a[x] : x \in 1 .. m + n}
  BY <1>1 DEF Range
<1> HIDE DEF a, m, n
<1>3. \A x \in 1 .. m + n : x \in 1 .. m \/ (x - m \in 1 .. n /\ m + (x - m) = x)
  BY <1>1
<1>4. (\A x \in 1 .. m : x \in 1 .. m + n) /\ \A x \in 1 .. n : m + x \in 1 .. m + n
  BY <1>1
<1>5. ASSUME NEW x \in 1 .. m + n PROVE a[x] \in Range(q) \cup Range(r)
  BY <1>1, <1>2, <1>3
<1>6. ASSUME NEW x \in 1 .. m PROVE q[x] \in Range(a)
  BY <1>1, <1>2, <1>4
<1>7. ASSUME NEW x \in 1 .. n PROVE r[x] \in Range(a)
  BY <1>1, <1>2, <1>4
<1>8. Range(a) = Range(q) \cup Range(r)
  <2>1. Range(a) \subseteq Range(q) \cup Range(r)
    BY <1>2, <1>5
  <2>2. Range(q) \subseteq Range(a) /\ Range(r) \subseteq Range(a)
    BY <1>2, <1>6, <1>7
  <2>3. QED
    BY <2>1, <2>2
<1>9. a \in Seq(S)
  BY <1>1
<1>10. QED
  BY <1>8, <1>9, Zenon DEF a

\* A sequence of the members of a set is one of the members of a larger set.
LEMMA WiderSeq ==
  ASSUME NEW S, NEW T, S \subseteq T, NEW q \in Seq(S)
  PROVE  q \in Seq(T)
OBVIOUS

\* A function on the first n numbers is a sequence.
LEMMA FunctionIsSeq ==
  ASSUME NEW S, NEW n \in Nat, NEW e \in [1 .. n -> S]
  PROVE  e \in Seq(S)
OBVIOUS

\* An item that is not bad gives the ports of its range.
LEMMA ItemExpands ==
  ASSUME NEW item \in Item, ~Bad(item)
  PROVE  /\ Expand(item) \in Seq(1 .. MaxPort)
         /\ Range(Expand(item)) = IF item.text = "range" THEN item.lo .. item.hi ELSE {}
<1>1. CASE item.text # "range"
  BY <1>1 DEF Expand, Range
<1>2. CASE item.text = "range"
  <2> DEFINE lo == item.lo
             hi == item.hi
             e == [i \in 1 .. hi - lo + 1 |-> lo + i - 1]
  <2>1. lo \in Int /\ hi \in Int /\ 1 <= lo /\ hi <= MaxPort /\ lo <= hi /\ MaxPort \in Int
    <3>1. item \in [text : {"range"}, lo : Numbers, hi : Numbers]
      BY <1>2 DEF Item
    <3>2. lo \in Int /\ hi \in Int /\ MaxPort \in Int
      <4>1. Numbers \subseteq Int /\ MaxPort \in Int
        BY PortAssumption DEF PortAssumption
      <4>2. lo \in Numbers /\ hi \in Numbers
        BY <3>1
      <4>3. QED
        BY <4>1, <4>2
    <3>3. 1 <= lo /\ hi <= MaxPort /\ lo <= hi
      BY <1>2, <3>2 DEF Bad
    <3>4. QED
      BY <3>2, <3>3
  <2>2. Expand(item) = e
    BY <1>2 DEF Expand
  <2> HIDE DEF lo, hi
  <2>3. e \in Seq(1 .. MaxPort)
    <3>1. hi - lo + 1 \in Nat
      BY <2>1
    <3>2. \A i \in 1 .. hi - lo + 1 : lo + i - 1 \in 1 .. MaxPort
      BY <2>1
    <3> DEFINE n == hi - lo + 1
    <3>3. e \in [1 .. n -> 1 .. MaxPort]
      BY <3>2
    <3> HIDE DEF n, e
    <3>4. n \in Nat
      BY <3>1 DEF n
    <3>5. QED
      BY <3>3, <3>4, FunctionIsSeq
  <2>4. ASSUME NEW p \in lo .. hi PROVE p - lo + 1 \in DOMAIN e /\ e[p - lo + 1] = p
    BY <2>1
  <2>5. \A i \in DOMAIN e : e[i] \in lo .. hi
    BY <2>1
  <2>6. Range(e) = lo .. hi
    <3> HIDE DEF e
    <3>1. QED
      BY <2>4, <2>5 DEF Range
  <2>7. QED
    BY <1>2, <2>2, <2>3, <2>6 DEF lo, hi
<1>3. QED
  BY <1>1, <1>2

\* A number of turns later, the loop of parsePorts has the ports of as many items.
LEMMA PortsParsed ==
  ASSUME NEW list \in Seq(Item), \A i \in DOMAIN list : ~Bad(list[i])
  PROVE  parsePorts(list) \in Seq(1 .. MaxPort) /\ Range(parsePorts(list)) = Ranges(list)
<1> DEFINE Ports == 1 .. MaxPort
           n == Len(list)
           P == Seq(Ports)
           Got(m) == UNION {list[i].lo .. list[i].hi : i \in {j \in 1 .. m : list[j].text = "range"}}
           step(out, j) == out \o Expand(list[j])
           Loop(f) == f = [j \in 0 .. n |-> IF j = 0 THEN << >> ELSE step(f[j - 1], j)]
           history == CHOOSE f : Loop(f)
           inv == [m \in 0 .. n |-> {out \in P : Range(out) = Got(m)}]
           body == [x \in (1 .. n) \X P |-> step(x[2], x[1])]
<1>1. parsePorts(list) = history[n]
  BY DEF parsePorts
<1>2. n \in Nat /\ DOMAIN list = 1 .. n /\ \A i \in 1 .. n : list[i] \in Item
  OBVIOUS
<1>3. ASSUME NEW j \in 1 .. n, NEW out \in P, Range(out) = Got(j - 1)
      PROVE  step(out, j) \in P /\ Range(step(out, j)) = Got(j)
  <2>1. Got(j) = Got(j - 1) \cup (IF list[j].text = "range" THEN list[j].lo .. list[j].hi ELSE {})
    <3>1. \A i \in 1 .. j : i \in 1 .. j - 1 \/ i = j
      BY <1>2
    <3>2. j \in 1 .. j /\ \A i \in 1 .. j - 1 : i \in 1 .. j
      BY <1>2
    <3>3. QED
      BY <3>1, <3>2
  <2>2. list[j] \in Item /\ ~Bad(list[j])
    BY <1>2
  <2> HIDE DEF Got
  <2> DEFINE e == Expand(list[j])
  <2>3. /\ e \in P
        /\ Range(e) = IF list[j].text = "range" THEN list[j].lo .. list[j].hi ELSE {}
    BY <2>2, ItemExpands
  <2>4. step(out, j) = out \o e
    OBVIOUS
  <2> HIDE DEF step, e, Ports
  <2>5. out \o e \in P /\ Range(out \o e) = Range(out) \cup Range(e)
    <3>1. out \in Seq(Ports) /\ e \in Seq(Ports)
      BY <2>3
    <3>2. out \o e \in Seq(Ports) /\ Range(out \o e) = Range(out) \cup Range(e)
      BY ONLY <3>1, JoinedSeq
    <3>3. QED
      BY <3>2
  <2>6. QED
    BY <1>3, <2>1, <2>3, <2>4, <2>5
<1>4. Got(0) = {}
  OBVIOUS
<1>5. Got(n) = Ranges(list)
  BY <1>2 DEF Ranges
<1> HIDE DEF Got, step, P, Ports
<1>6. << >> \in P /\ Range(<< >>) = {}
  BY DEF P, Range
<1>7. << >> \in inv[0]
  <2>1. 0 \in 0 .. n
    BY <1>2
  <2>2. QED
    BY <1>4, <1>6, <2>1
<1>8. ASSUME NEW j \in 1 .. n, NEW out \in inv[j - 1]
      PROVE  out \in P /\ step(out, j) \in inv[j]
  <2>1. j \in 0 .. n /\ j - 1 \in 0 .. n
    BY <1>2
  <2>2. out \in P /\ Range(out) = Got(j - 1)
    BY <2>1
  <2>3. QED
    BY <1>3, <2>1, <2>2
<1>9. \A j \in 1 .. n : \A out \in inv[j - 1] : body[<<j, out>>] = step(out, j)
  BY <1>8
<1>10. \A m \in 0 .. n : inv[m] = {out \in P : Range(out) = Got(m)}
  OBVIOUS
<1> HIDE DEF inv, body
<1>11. Keeps(inv, n, body)
  BY <1>8, <1>9 DEF Keeps
<1> HIDE DEF n
<1>12. PICK f : f = [j \in 0 .. n |-> f[j]] /\ IsRun(f, n, << >>, body) /\ Within(f, n, inv)
  BY <1>2, <1>7, <1>11, LoopRuns
<1>13. Loop(f)
  <2>1. \A j \in 0 .. n : j = 0 \/ (j \in 1 .. n /\ j - 1 \in 0 .. n)
    BY <1>2
  <2>2. \A j \in 0 .. n : f[j] = IF j = 0 THEN << >> ELSE step(f[j - 1], j)
    BY <1>9, <1>12, <2>1 DEF IsRun, Within
  <2>3. QED
    BY <1>12, <2>2
<1>14. Loop(history)
  <2> HIDE DEF Loop
  <2>1. QED
    BY <1>13
<1>15. history[0] = << >> /\ \A j \in 1 .. n : history[j] = step(history[j - 1], j)
  <2> HIDE DEF history
  <2>1. 0 \in 0 .. n /\ \A j \in 1 .. n : j \in 0 .. n /\ j # 0
    BY <1>2
  <2>2. QED
    BY <1>14, <2>1, Zenon
<1> HIDE DEF history, Loop
<1>16. Steps(history, n, inv)
  BY <1>8, <1>15 DEF Steps
<1>17. history[n] \in inv[n]
  BY <1>2, <1>7, <1>15, <1>16, LoopKeeps DEF Within
<1>18. n \in 0 .. n
  BY <1>2
<1>19. QED
  BY <1>1, <1>5, <1>10, <1>17, <1>18 DEF P, Ports

\* A port that was seen is not added again.
LEMMA UnseenAdded ==
  ASSUME NEW S, NEW out \in Seq(S), NoRepeats(out), NEW p \in S
  PROVE  /\ AddUnseen(out, p) \in Seq(S) /\ NoRepeats(AddUnseen(out, p))
         /\ Range(AddUnseen(out, p)) = Range(out) \cup {p}
<1>1. CASE p \in Range(out)
  BY <1>1 DEF AddUnseen
<1>2. CASE p \notin Range(out)
  <2> DEFINE a == Append(out, p)
             n == Len(out)
  <2>1. /\ a \in Seq(S) /\ Len(a) = n + 1 /\ n \in Nat
        /\ \A x \in 1 .. n : a[x] = out[x]
        /\ a[n + 1] = p
    OBVIOUS
  <2>2. /\ Range(out) = {out[x] : x \in 1 .. n}
        /\ Range(a) = {a[x] : x \in 1 .. n + 1}
    BY <2>1 DEF Range
  <2>3. AddUnseen(out, p) = a
    BY <1>2 DEF AddUnseen
  <2> HIDE DEF a, n
  <2>4. \A x \in 1 .. n + 1 : x \in 1 .. n \/ x = n + 1
    BY <2>1
  <2>5. (\A x \in 1 .. n : x \in 1 .. n + 1) /\ n + 1 \in 1 .. n + 1
    BY <2>1
  <2>6. Range(a) = Range(out) \cup {p}
    BY <2>1, <2>2, <2>4, <2>5
  <2>7. NoRepeats(a)
    <3>1. ASSUME NEW x \in 1 .. n + 1, NEW y \in 1 .. n + 1, a[x] = a[y] PROVE x = y
      <4>1. \A z \in 1 .. n : a[z] # p
        BY <1>2, <2>1, <2>2
      <4>2. ASSUME x \in 1 .. n, y \in 1 .. n PROVE x = y
        BY <2>1, <3>1, <4>2 DEF NoRepeats, n
      <4>3. QED
        BY <2>1, <2>4, <3>1, <4>1, <4>2
    <3>2. QED
      BY <2>1, <3>1 DEF NoRepeats
  <2>8. QED
    BY <2>1, <2>3, <2>6, <2>7
<1>3. QED
  BY <1>1, <1>2

\* The addresses are the main port and those of the ranges, each of them once.
LEMMA AddressesListed ==
  ASSUME NEW p, NEW list \in Seq(Item), \A i \in DOMAIN list : ~Bad(list[i])
  PROVE  /\ listenAddrs(p, list) \in Seq({p} \cup 1 .. MaxPort) /\ NoRepeats(listenAddrs(p, list))
         /\ Range(listenAddrs(p, list)) = {p} \cup Ranges(list)
<1> DEFINE Ports == {p} \cup 1 .. MaxPort
           all == <<p>> \o parsePorts(list)
           n == Len(all)
           P == Seq(Ports)
           Got(m) == {all[x] : x \in 1 .. m}
           Good(out, m) == out \in P /\ NoRepeats(out) /\ Range(out) = Got(m)
           step(out, j) == AddUnseen(out, all[j])
           Loop(f) == f = [j \in 0 .. n |-> IF j = 0 THEN << >> ELSE step(f[j - 1], j)]
           history == CHOOSE f : Loop(f)
           inv == [m \in 0 .. n |-> {out \in P : Good(out, m)}]
           body == [x \in (1 .. n) \X P |-> step(x[2], x[1])]
<1>1. listenAddrs(p, list) = history[n]
  BY DEF listenAddrs
<1>2. all \in P /\ Range(all) = {p} \cup Ranges(list)
  <2>1. parsePorts(list) \in Seq(Ports) /\ Range(parsePorts(list)) = Ranges(list)
    <3> DEFINE Valid == 1 .. MaxPort
    <3>1. parsePorts(list) \in Seq(Valid) /\ Range(parsePorts(list)) = Ranges(list)
      BY PortsParsed
    <3>2. Valid \subseteq Ports
      OBVIOUS
    <3> HIDE DEF Valid, Ports
    <3>3. parsePorts(list) \in Seq(Ports)
      BY <3>1, <3>2, WiderSeq
    <3>4. QED
      BY <3>1, <3>3
  <2>2. p \in Ports
    OBVIOUS
  <2> HIDE DEF Ports
  <2>3. <<p>> \in Seq(Ports) /\ Range(<<p>>) = {p}
    BY <2>2 DEF Range
  <2> DEFINE first == <<p>>
             rest == parsePorts(list)
  <2>4. all = first \o rest /\ P = Seq(Ports)
    OBVIOUS
  <2> HIDE DEF first, rest, all, P
  <2>5. first \in Seq(Ports) /\ rest \in Seq(Ports)
    BY <2>1, <2>3 DEF first, rest
  <2>6. first \o rest \in Seq(Ports) /\ Range(first \o rest) = Range(first) \cup Range(rest)
    BY ONLY <2>5, JoinedSeq
  <2>7. Range(first) = {p} /\ Range(rest) = Ranges(list)
    BY <2>1, <2>3 DEF first, rest
  <2>8. QED
    BY <2>4, <2>6, <2>7
<1> HIDE DEF all, Ports
<1>3. n \in Nat /\ DOMAIN all = 1 .. n /\ \A x \in 1 .. n : all[x] \in Ports
  BY <1>2
<1>4. ASSUME NEW j \in 1 .. n, NEW out, Good(out, j - 1)
      PROVE  Good(step(out, j), j)
  <2>1. Got(j) = Got(j - 1) \cup {all[j]}
    <3>1. \A i \in 1 .. j : i \in 1 .. j - 1 \/ i = j
      BY <1>3
    <3>2. j \in 1 .. j /\ \A i \in 1 .. j - 1 : i \in 1 .. j
      BY <1>3
    <3>3. QED
      BY <3>1, <3>2
  <2> HIDE DEF Got
  <2>2. all[j] \in Ports
    BY <1>3
  <2>3. /\ step(out, j) \in P /\ NoRepeats(step(out, j))
        /\ Range(step(out, j)) = Range(out) \cup {all[j]}
    BY <1>4, <2>2, UnseenAdded
  <2> HIDE DEF step, P
  <2>4. QED
    BY <1>4, <2>1, <2>3
<1>5. Got(0) = {}
  OBVIOUS
<1>6. Got(n) = Range(all)
  BY <1>3 DEF Range
<1>7. << >> \in P /\ NoRepeats(<< >>) /\ Range(<< >>) = {}
  BY DEF NoRepeats, Range
<1>8. Good(<< >>, 0)
  BY <1>5, <1>7
<1>9. \A out, m : Good(out, m) => out \in P /\ NoRepeats(out) /\ Range(out) = Got(m)
  OBVIOUS
<1> HIDE DEF Got, Good, step, P
<1>10. << >> \in inv[0]
  <2>1. 0 \in 0 .. n
    BY <1>3
  <2>2. QED
    BY <1>7, <1>8, <2>1
<1>11. ASSUME NEW j \in 1 .. n, NEW out \in inv[j - 1]
       PROVE  out \in P /\ step(out, j) \in inv[j]
  <2>1. j \in 0 .. n /\ j - 1 \in 0 .. n
    BY <1>3
  <2>2. out \in P /\ Good(out, j - 1)
    BY <2>1
  <2>3. Good(step(out, j), j)
    BY <1>4, <2>2
  <2>4. QED
    BY <1>9, <2>1, <2>2, <2>3
<1>12. \A j \in 1 .. n : \A out \in inv[j - 1] : body[<<j, out>>] = step(out, j)
  BY <1>11
<1>13. \A m \in 0 .. n : inv[m] = {out \in P : Good(out, m)}
  OBVIOUS
<1> HIDE DEF inv, body
<1>14. Keeps(inv, n, body)
  BY <1>11, <1>12 DEF Keeps
<1> HIDE DEF n
<1>15. PICK f : f = [j \in 0 .. n |-> f[j]] /\ IsRun(f, n, << >>, body) /\ Within(f, n, inv)
  BY <1>3, <1>10, <1>14, LoopRuns
<1>16. Loop(f)
  <2>1. \A j \in 0 .. n : j = 0 \/ (j \in 1 .. n /\ j - 1 \in 0 .. n)
    BY <1>3
  <2>2. \A j \in 0 .. n : f[j] = IF j = 0 THEN << >> ELSE step(f[j - 1], j)
    BY <1>12, <1>15, <2>1 DEF IsRun, Within
  <2>3. QED
    BY <1>15, <2>2
<1>17. Loop(history)
  <2> HIDE DEF Loop
  <2>1. QED
    BY <1>16
<1>18. history[0] = << >> /\ \A j \in 1 .. n : history[j] = step(history[j - 1], j)
  <2> HIDE DEF history
  <2>1. 0 \in 0 .. n /\ \A j \in 1 .. n : j \in 0 .. n /\ j # 0
    BY <1>3
  <2>2. QED
    BY <1>17, <2>1, Zenon
<1> HIDE DEF history, Loop
<1>19. Steps(history, n, inv)
  BY <1>11, <1>18 DEF Steps
<1>20. Within(history, n, inv)
  <2>1. n \in Nat /\ history[0] \in inv[0] /\ Steps(history, n, inv)
    BY <1>3, <1>10, <1>18, <1>19
  <2>2. QED
    BY ONLY <2>1, LoopKeeps
<1>21. n \in 0 .. n /\ history[n] \in inv[n]
  BY <1>3, <1>20 DEF Within
<1>22. Good(history[n], n)
  BY <1>13, <1>20, <1>21
<1>23. QED
  BY <1>1, <1>2, <1>6, <1>9, <1>22 DEF P, Ports

\* Before the flags are parsed nothing has happened; after that, the addresses are the
\* ports that the flags ask for, each of them once.
Addressed ==
  /\ phase = "parse" => addrs = << >> /\ done = 0 /\ mine = {} /\ answeredBy = << >>
  /\ phase \in {"bind", "check", "serving"} =>
       /\ \A i \in DOMAIN items : ~Bad(items[i])
       /\ NoRepeats(addrs) /\ Range(addrs) = Planned

\* A reason for a bind to fail, and for the server to give up.
Cause == port \notin 1 .. MaxPort \/ Planned \cap (taken \cup denied) # {}

\* The ports that are open: one more for each address that is bound, and then all of
\* them, or none for a cause, and whoever answers a dial then has the port. Only for a
\* main port of 0 is a port open that was not planned.
Opened ==
  /\ phase = "bind" => /\ port = 0 \/ mine = {addrs[i] : i \in 1 .. done}
                       /\ answeredBy = << >>
  /\ phase \in {"check", "serving"} =>
       /\ Len(answeredBy) = done
       /\ port = 0 \/ mine = Planned \/ (mine = {} /\ Cause)
       /\ \A i \in 1 .. done : /\ addrs[i] \in 1 .. MaxPort
                               /\ mine = {} => (answeredBy[i] = "other" /\ addrs[i] \in taken)
  /\ phase = "serving" => done = Len(addrs)

StartupInv == StartupTypeOK /\ Addressed /\ Opened /\ FatalForCause

\* A server that has not parsed its flags satisfies the invariant.
LEMMA InitStartup == StartupInit => StartupInv
<1> SUFFICES ASSUME StartupInit PROVE StartupInv
  OBVIOUS
<1>1. items \in Seq(Item)
  <2>1. PICK n \in 0 .. MaxItems : items \in [1 .. n -> Item]
    BY DEF StartupInit
  <2>2. QED
    BY <2>1, FunctionIsSeq
<1>2. << >> \in Seq({port} \cup 1 .. MaxPort) /\ << >> \in Seq({"us", "other", "late"}) /\ Len(<< >>) = 0
  OBVIOUS
<1>3. StartupTypeOK
  BY <1>1, <1>2 DEF StartupInit, StartupTypeOK
<1>4. Addressed /\ Opened /\ FatalForCause
  BY DEF StartupInit, Addressed, Opened, FatalForCause
<1>5. QED
  BY <1>3, <1>4 DEF StartupInv

\* A bad item is a cause to give up; without one, the addresses are the planned ports.
LEMMA ParseKeeps ==
  ASSUME StartupInv, Refuse \/ Parse
  PROVE  StartupInv'
<1> USE DEF StartupInv
<1>1. CASE Refuse
  <2>1. /\ UNCHANGED <<port, items, loadOK, denied, addrs, done, mine, foreign, taken, answeredBy>>
        /\ phase' = "fatal" /\ (~loadOK \/ \E i \in DOMAIN items : Bad(items[i]))
    BY <1>1 DEF Refuse, foreigners, flags
  <2>2. StartupTypeOK'
    BY <2>1 DEF StartupTypeOK
  <2>3. FatalForCause'
    BY <2>1 DEF FatalForCause
  <2>4. QED
    BY <2>1, <2>2, <2>3 DEF Addressed, Opened
<1>2. CASE Parse
  <2>1. /\ UNCHANGED <<port, items, loadOK, denied, done, mine, foreign, taken, answeredBy>>
        /\ phase = "parse" /\ phase' = "bind" /\ addrs' = listenAddrs(port, items)
        /\ \A i \in DOMAIN items : ~Bad(items[i])
    BY <1>2 DEF Parse, foreigners, flags
  <2>2. /\ addrs' \in Seq({port} \cup 1 .. MaxPort) /\ NoRepeats(addrs')
        /\ Range(addrs') = {port} \cup Ranges(items)
    BY <2>1, AddressesListed DEF StartupTypeOK
  <2>3. Range(addrs') = Planned'
    BY <2>1, <2>2 DEF Planned, Ranges
  <2>4. done' = 0 /\ mine' = {} /\ answeredBy' = << >>
    BY <2>1 DEF Addressed
  <2>5. Len(addrs') \in Nat
    BY <2>2
  <2>6. StartupTypeOK'
    BY <2>1, <2>2, <2>4, <2>5 DEF StartupTypeOK
  <2>7. Addressed'
    BY <2>1, <2>2, <2>3 DEF Addressed
  <2>8. Opened'
    BY <2>1, <2>4 DEF Opened
  <2>9. QED
    BY <2>1, <2>6, <2>7, <2>8 DEF FatalForCause
<1>3. QED
  BY <1>1, <1>2

\* The address that is bound or dialled next is a planned port; all of them are valid when
\* the main port is.
LEMMA NextAddress ==
  ASSUME StartupTypeOK, Addressed, phase \in {"bind", "check"}, done < Len(addrs)
  PROVE  /\ Len(addrs) \in Nat /\ done \in Nat /\ done + 1 \in 1 .. Len(addrs)
         /\ addrs[done + 1] \in Planned /\ addrs[done + 1] \in {port} \cup 1 .. MaxPort
         /\ \A i \in 1 .. done : addrs[i] # addrs[done + 1]
<1>1. Len(addrs) \in Nat /\ done \in Nat /\ DOMAIN addrs = 1 .. Len(addrs)
  BY DEF StartupTypeOK
<1>2. done + 1 \in 1 .. Len(addrs)
  BY <1>1
<1>3. addrs[done + 1] \in Planned
  BY <1>1, <1>2 DEF Addressed, Range
<1>4. addrs[done + 1] \in {port} \cup 1 .. MaxPort
  <2> DEFINE Ports == {port} \cup 1 .. MaxPort
  <2>1. addrs \in Seq(Ports)
    BY DEF StartupTypeOK
  <2> HIDE DEF Ports
  <2>2. addrs[done + 1] \in Ports
    BY <1>2, <2>1
  <2>3. QED
    BY <2>2 DEF Ports
<1>5. ASSUME NEW i \in 1 .. done PROVE addrs[i] # addrs[done + 1]
  <2>1. i \in 1 .. Len(addrs) /\ i # done + 1
    BY <1>1, <1>2
  <2>2. QED
    BY <1>2, <2>1 DEF Addressed, NoRepeats
<1>6. QED
  BY <1>1, <1>2, <1>3, <1>4, <1>5

\* What a bind opens is a port, and the planned one unless the main port is 0; a bind that
\* finds nothing to open has a cause, since no address is there twice.
LEMMA NextPort ==
  ASSUME StartupTypeOK, Addressed, Opened, phase = "bind", done < Len(addrs)
  PROVE  /\ \A q \in Free(addrs[done + 1]) : q \in 1 .. MaxPort /\ (port # 0 => q = addrs[done + 1])
         /\ Free(addrs[done + 1]) = {} => Cause
<1> DEFINE p == addrs[done + 1]
<1>1. /\ p \in Planned /\ p \in {port} \cup 1 .. MaxPort
      /\ \A i \in 1 .. done : addrs[i] # p
  BY NextAddress
<1>2. port # 0 => p # 0
  BY <1>1
<1>3. port # 0 => p \notin mine
  BY <1>1 DEF Opened
<1>4. foreign \subseteq taken
  BY DEF StartupTypeOK
<1> HIDE DEF p
<1>5. ASSUME NEW q \in Free(p) PROVE q \in 1 .. MaxPort /\ (port # 0 => q = p)
  BY <1>2, <1>5 DEF Free
<1>6. ASSUME Free(p) = {}, port \in 1 .. MaxPort PROVE p \in taken \cup denied
  <2>1. port # 0 /\ p \in 1 .. MaxPort
    BY <1>1, <1>6
  <2>2. p \in mine \cup foreign \cup denied
    BY <1>2, <1>6, <2>1 DEF Free
  <2>3. QED
    BY <1>3, <1>4, <2>1, <2>2
<1>7. QED
  BY <1>1, <1>5, <1>6 DEF Cause, p

\* A bind fails for a cause only; when none fails, all planned ports are open.
LEMMA BindKeeps ==
  ASSUME StartupInv, Bind \/ BindFails \/ Started
  PROVE  StartupInv'
<1> USE DEF StartupInv
<1>1. CASE Bind
  <2> DEFINE p == addrs[done + 1]
  <2>1. /\ UNCHANGED <<port, items, loadOK, denied, phase, addrs, foreign, taken, answeredBy>>
        /\ phase = "bind" /\ done < Len(addrs)
        /\ \E q \in Free(p) : mine' = mine \cup {q}
        /\ done' = done + 1
    BY <1>1 DEF Bind, foreigners, flags
  <2>2. Len(addrs) \in Nat /\ done \in Nat /\ done + 1 \in 1 .. Len(addrs)
    BY <2>1, NextAddress
  <2>3. PICK q \in Free(p) : mine' = mine \cup {q}
    BY <2>1
  <2>4. q \in 1 .. MaxPort /\ (port # 0 => q = p)
    BY <2>1, NextPort
  <2>5. StartupTypeOK'
    <3>1. done' \in 0 .. Len(addrs')
      BY <2>1, <2>2
    <3>2. mine' \subseteq 1 .. MaxPort
      BY <2>3, <2>4 DEF StartupTypeOK
    <3>3. QED
      BY <2>1, <3>1, <3>2 DEF StartupTypeOK
  <2>6. Addressed'
    BY <2>1 DEF Addressed, Planned
  <2>7. port # 0 => mine' = {addrs[i] : i \in 1 .. done + 1}
    <3>1. port # 0 => mine = {addrs[i] : i \in 1 .. done}
      BY <2>1 DEF Opened
    <3>2. /\ \A i \in 1 .. done + 1 : i \in 1 .. done \/ i = done + 1
          /\ \A i \in 1 .. done : i \in 1 .. done + 1
          /\ done + 1 \in 1 .. done + 1
      BY <2>2
    <3>3. QED
      BY <2>3, <2>4, <3>1, <3>2
  <2>8. Opened'
    BY <2>1, <2>7 DEF Opened
  <2>9. QED
    BY <2>1, <2>5, <2>6, <2>8 DEF FatalForCause
<1>2. CASE BindFails
  <2>1. /\ UNCHANGED <<port, items, loadOK, denied, addrs, foreign, taken, answeredBy>>
        /\ phase = "bind" /\ phase' = "check" /\ done < Len(addrs)
        /\ Free(addrs[done + 1]) = {} /\ mine' = {} /\ done' = 0
    BY <1>2 DEF BindFails, foreigners, flags
  <2>2. Len(addrs) \in Nat /\ Cause
    BY <2>1, NextAddress, NextPort
  <2>3. StartupTypeOK'
    <3>1. 0 \in 0 .. Len(addrs)
      BY <2>2
    <3>2. done' \in 0 .. Len(addrs') /\ mine' \subseteq 1 .. MaxPort
      BY <2>1, <3>1
    <3>3. QED
      BY <2>1, <3>2 DEF StartupTypeOK
  <2>4. Addressed' /\ Planned' = Planned
    BY <2>1 DEF Addressed, Planned
  <2>5. Cause'
    BY <2>1, <2>2, <2>4 DEF Cause
  <2>6. Opened'
    BY <2>1, <2>5 DEF Opened
  <2>7. QED
    BY <2>1, <2>3, <2>4, <2>6 DEF FatalForCause
<1>3. CASE Started
  <2>1. /\ UNCHANGED <<port, items, loadOK, denied, addrs, mine, foreign, taken, answeredBy>>
        /\ phase = "bind" /\ phase' = "check" /\ done = Len(addrs) /\ done' = 0
    BY <1>3 DEF Started, foreigners, flags
  <2>2. Len(addrs) \in Nat /\ DOMAIN addrs = 1 .. Len(addrs)
    BY DEF StartupTypeOK
  <2>3. port = 0 \/ mine = Planned
    BY <2>1, <2>2 DEF Opened, Addressed, Range
  <2>4. StartupTypeOK'
    BY <2>1, <2>2 DEF StartupTypeOK
  <2>5. Addressed' /\ Planned' = Planned
    BY <2>1 DEF Addressed, Planned
  <2>6. Len(answeredBy) = 0
    BY <2>1 DEF Opened
  <2>7. Opened'
    BY <2>1, <2>3, <2>5, <2>6 DEF Opened
  <2>8. QED
    BY <2>1, <2>4, <2>5, <2>7 DEF FatalForCause
<1>4. QED
  BY <1>1, <1>2, <1>3

\* A dial that is answered is of a port, which is another's when this server has none; one
\* that is not has a cause, or was late.
LEMMA CheckKeeps ==
  ASSUME StartupInv, checkListening \/ Serve
  PROVE  StartupInv'
<1> USE DEF StartupInv
<1> DEFINE Who == {"us", "other", "late"}
<1>1. CASE CheckAnswers
  <2> DEFINE p == addrs[done + 1]
             who == IF p \in mine THEN "us" ELSE "other"
  <2>1. /\ UNCHANGED <<port, items, loadOK, denied, phase, addrs, mine, foreign, taken>>
        /\ phase = "check" /\ done < Len(addrs) /\ p \in mine \cup foreign
        /\ answeredBy' = Append(answeredBy, who) /\ done' = done + 1
    BY <1>1 DEF CheckAnswers, foreigners, flags
  <2>2. Len(addrs) \in Nat /\ done \in Nat /\ done + 1 \in 1 .. Len(addrs)
    BY <2>1, NextAddress
  <2>3. answeredBy \in Seq(Who) /\ Len(answeredBy) = done
    BY <2>1 DEF StartupTypeOK, Opened
  <2>4. p \in 1 .. MaxPort /\ (mine = {} => p \in taken)
    <3>1. mine \subseteq 1 .. MaxPort /\ foreign \subseteq taken /\ taken \subseteq 1 .. MaxPort
      BY PortAssumption DEF StartupTypeOK, PortAssumption
    <3>2. QED
      BY <2>1, <3>1
  <2>5. who \in Who /\ (mine = {} => who = "other")
    OBVIOUS
  <2> HIDE DEF who, Who
  <2>6. /\ answeredBy' \in Seq(Who) /\ Len(answeredBy') = done + 1
        /\ \A i \in 1 .. done : answeredBy'[i] = answeredBy[i]
        /\ answeredBy'[done + 1] = who
    BY <2>1, <2>3, <2>5
  <2>7. StartupTypeOK'
    <3>1. done' \in 0 .. Len(addrs')
      BY <2>1, <2>2
    <3>2. QED
      BY <2>1, <2>6, <3>1 DEF StartupTypeOK, Who
  <2>8. Addressed' /\ Planned' = Planned
    BY <2>1 DEF Addressed, Planned
  <2>9. \A i \in 1 .. done + 1 : i \in 1 .. done \/ i = done + 1
    BY <2>2
  <2>10. Cause' = Cause
    BY <2>1, <2>8 DEF Cause
  <2>11. port = 0 \/ mine = Planned \/ (mine = {} /\ Cause)
    BY <2>1 DEF Opened
  <2>12. ASSUME NEW i \in 1 .. done + 1
         PROVE  /\ addrs[i] \in 1 .. MaxPort
                /\ mine = {} => (answeredBy'[i] = "other" /\ addrs[i] \in taken)
    <3>1. CASE i \in 1 .. done
      BY <2>1, <2>6, <3>1 DEF Opened
    <3>2. CASE i = done + 1
      BY <2>4, <2>5, <2>6, <3>2
    <3>3. QED
      BY <2>9, <3>1, <3>2
  <2>13. Opened'
    BY <2>1, <2>6, <2>8, <2>10, <2>11, <2>12 DEF Opened
  <2>14. QED
    BY <2>1, <2>7, <2>8, <2>13 DEF FatalForCause
<1>2. CASE CheckFails
  <2>1. /\ UNCHANGED <<port, items, loadOK, denied, addrs, done, foreign, taken, answeredBy>>
        /\ phase = "check" /\ phase' = "fatal" /\ done < Len(addrs)
        /\ addrs[done + 1] \notin mine /\ mine' = {}
    BY <1>2 DEF CheckFails, foreigners, flags
  <2>2. addrs[done + 1] \in Planned
    BY <2>1, NextAddress
  <2>3. Cause /\ Planned' = Planned
    BY <2>1, <2>2 DEF Opened, Planned, Cause
  <2>4. StartupTypeOK'
    BY <2>1 DEF StartupTypeOK
  <2>5. FatalForCause'
    BY <2>1, <2>3 DEF FatalForCause, Cause
  <2>6. QED
    BY <2>1, <2>4, <2>5 DEF Addressed, Opened
<1>3. CASE CheckTimesOut
  <2>1. /\ UNCHANGED <<port, items, loadOK, denied, addrs, done, foreign, taken>>
        /\ phase' = "fatal" /\ mine' = {} /\ answeredBy' = Append(answeredBy, "late")
    BY <1>3 DEF CheckTimesOut, foreigners, flags
  <2>2. answeredBy \in Seq(Who)
    BY DEF StartupTypeOK
  <2>3. "late" \in Who
    OBVIOUS
  <2> HIDE DEF Who
  <2>4. /\ answeredBy' \in Seq(Who) /\ Len(answeredBy) + 1 \in DOMAIN answeredBy'
        /\ answeredBy'[Len(answeredBy) + 1] = "late"
    BY <2>1, <2>2, <2>3
  <2>5. StartupTypeOK'
    BY <2>1, <2>4 DEF StartupTypeOK, Who
  <2>6. FatalForCause'
    BY <2>4 DEF FatalForCause
  <2>7. QED
    BY <2>1, <2>5, <2>6 DEF Addressed, Opened
<1>4. CASE Serve
  <2>1. /\ UNCHANGED <<port, items, loadOK, denied, addrs, done, mine, foreign, taken, answeredBy>>
        /\ phase = "check" /\ phase' = "serving" /\ done = Len(addrs)
    BY <1>4 DEF Serve, foreigners, flags
  <2>2. StartupTypeOK'
    BY <2>1 DEF StartupTypeOK
  <2>3. Addressed' /\ Planned' = Planned
    BY <2>1 DEF Addressed, Planned
  <2>4. Cause' = Cause
    BY <2>1, <2>3 DEF Cause
  <2>5. Opened'
    BY <2>1, <2>3, <2>4 DEF Opened
  <2>6. QED
    BY <2>1, <2>2, <2>3, <2>5 DEF FatalForCause
<1>5. QED
  BY <1>1, <1>2, <1>3, <1>4 DEF checkListening

\* Another process can make the server fail, and then has had a port.
LEMMA OthersKeep ==
  ASSUME StartupInv, Others
  PROVE  StartupInv'
<1> USE DEF StartupInv
<1>1. /\ UNCHANGED <<port, items, loadOK, denied, phase, addrs, done, mine, answeredBy>>
      /\ foreign' \subseteq taken' /\ taken \subseteq taken' /\ taken' \subseteq ForeignPorts
  BY DEF Others, StartupTypeOK, flags
<1>2. Planned' = Planned
  BY <1>1 DEF Planned
<1>3. StartupTypeOK' /\ Addressed'
  BY <1>1, <1>2 DEF StartupTypeOK, Addressed
<1>4. Opened'
  <2>1. Cause => Cause'
    BY <1>1, <1>2 DEF Cause
  <2>2. QED
    BY <1>1, <1>2, <2>1 DEF Opened
<1>5. FatalForCause'
  BY <1>1, <1>2 DEF FatalForCause
<1>6. QED
  BY <1>3, <1>4, <1>5

\* Every step keeps the invariant.
LEMMA NextStartup ==
  ASSUME StartupInv, [StartupNext]_startupVars
  PROVE  StartupInv'
<1>1. CASE UNCHANGED startupVars
  BY <1>1 DEF StartupInv, StartupTypeOK, Addressed, Opened, FatalForCause, Planned,
              startupVars, foreigners, flags, Cause
<1>2. QED
  BY <1>1, ParseKeeps, BindKeeps, CheckKeeps, OthersKeep DEF StartupNext

\* For any flags, an address that is not the unchecked main port is a port, and each phase
\* deals with no more addresses than there are (main.go:88-139, 224-248).
THEOREM StartupTypes == StartupSpec => []StartupTypeOK
<1>1. StartupInv => StartupTypeOK
  BY DEF StartupInv
<1>2. QED
  BY <1>1, InitStartup, NextStartup, PTL DEF StartupSpec

\* A port that the flags name twice, in any two ranges, does not stop the server
\* (main.go:120-123): there is another cause whenever it gives up.
THEOREM FatalIsForCause == StartupSpec => []FatalForCause
<1>1. StartupInv => FatalForCause
  BY DEF StartupInv
<1>2. QED
  BY <1>1, InitStartup, NextStartup, PTL DEF StartupSpec

\* In a server that serves, every address was answered, so it is a port; the port is open,
\* or another process answered there.
LEMMA ServingDialled ==
  ASSUME StartupInv, phase = "serving"
  PROVE  /\ DOMAIN addrs = 1 .. Len(addrs) /\ DOMAIN answeredBy = DOMAIN addrs
         /\ \/ mine = Planned
            \/ /\ mine = {}
               /\ \A i \in DOMAIN addrs : answeredBy[i] = "other" /\ addrs[i] \in taken
<1>1. DOMAIN addrs = 1 .. Len(addrs) /\ DOMAIN answeredBy = 1 .. Len(answeredBy)
  BY DEF StartupInv, StartupTypeOK
<1>2. /\ Len(answeredBy) = Len(addrs)
      /\ port = 0 \/ mine = Planned \/ mine = {}
      /\ \A i \in 1 .. Len(addrs) : /\ addrs[i] \in 1 .. MaxPort
                                    /\ mine = {} => (answeredBy[i] = "other" /\ addrs[i] \in taken)
  BY DEF StartupInv, Opened
<1>3. PICK i \in DOMAIN addrs : addrs[i] = port
  BY DEF StartupInv, Addressed, Planned, Range
<1>4. port # 0
  BY <1>1, <1>2, <1>3
<1>5. QED
  BY <1>1, <1>2, <1>4

\* A server never serves on some of the planned ports only (main.go:85-87, 141-143).
THEOREM FewerPortsNever == StartupSpec => []NeverFewer
<1>1. StartupInv => NeverFewer
  BY ServingDialled DEF NeverFewer
<1>2. QED
  BY <1>1, InitStartup, NextStartup, PTL DEF StartupSpec

\* A server that serves was given no bad item, and has its ports open unless another
\* process has had one of them while it started (main.go:84-87, 141-143): a port that is
\* not valid, or that the kernel refuses, does not get that far.
ListensUnlessTaken ==
  phase = "serving" => /\ \A i \in DOMAIN items : ~Bad(items[i])
                       /\ Planned \cap taken = {} => mine = Planned

\* What checkListening is for fails in one case only: its dial was answered by the process
\* that has the port.
THEOREM ServersListenUnlessTaken == StartupSpec => []ListensUnlessTaken
<1>1. StartupInv => ListensUnlessTaken
  <2> SUFFICES ASSUME StartupInv, phase = "serving", mine # Planned
               PROVE  Planned \cap taken # {}
    BY DEF ListensUnlessTaken, StartupInv, Addressed
  <2>1. PICK i \in DOMAIN addrs : addrs[i] = port
    BY DEF StartupInv, Addressed, Planned, Range
  <2>2. addrs[i] \in taken
    BY <2>1, ServingDialled
  <2>3. QED
    BY <2>1, <2>2 DEF Planned
<1>2. QED
  BY <1>1, InitStartup, NextStartup, PTL DEF StartupSpec
=============================================================================
