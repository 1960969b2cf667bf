------------------------------- MODULE Server -------------------------------
(***************************************************************************)
(* The echo server under load: the connections nbio's engine accepts        *)
(* (main.go), the /ws handler with its admission check, the OnOpen and      *)
(* OnClose callbacks with the metrics they keep, the memory guard           *)
(* (memory.go guardMemory), and the kernel's OOM killer.                    *)
(*                                                                         *)
(* Memory is counted in units: HttpCost for a connection that has not been *)
(* upgraded, WsCost for one that has, PageCost for each unread message. Low, *)
(* High and Max are the guard's two thresholds and memory.max on that scale. *)
(* An echo changes nothing here; a failed one is a reason for a close.      *)
(***************************************************************************)
EXTENDS Integers, FiniteSets

CONSTANTS Conn,        \* connections the engine can hold at once (a bound)
          MaxLoad,     \* -maxload
          Clients,     \* connections the clients have in their handshake at once:
                       \* what the load generators' -inflight adds up to
          PerPeriod,   \* requests that pass the check between two readings (a bound)
          WsCost, HttpCost, PageCost,
          Low, High, Max,
          MaxFreezes,  \* times the process stops running (a bound)
          MaxKills     \* OOM kills followed (a bound)

ASSUME ConstAssumption ==
  /\ IsFiniteSet(Conn)
  /\ {MaxLoad, Clients, PerPeriod, WsCost, HttpCost, PageCost,
      Low, High, Max, MaxFreezes, MaxKills} \subseteq Nat
  /\ Low <= High
  /\ HttpCost <= WsCost      \* a websocket keeps its socket

VARIABLES conn,        \* per connection: where it is in the engine
          active,      \* millionws_connections_active
          net,         \* millionws_connections_total minus millionws_disconnections_total
          overloaded,  \* the flag the guard writes and the /ws handler loads
          guard,       \* where guardMemory is: "sleep" or "decide"
          sample,      \* its local `current'
          admitted,    \* requests that passed the check since the last reading
          unread,      \* connections with a message the frozen process has not read
          frozen, freezes, kills

metrics  == <<active, net>>
guardVars == <<overloaded, guard, sample>>
outside  == <<unread, frozen, freezes, kills>>
vars == <<conn, metrics, guardVars, admitted, outside>>

ConnPC == {"none", "http", "refused", "checked", "opened", "total", "ws", "leaving"}

ConnsAt(pcs) == {c \in Conn : conn[c] \in pcs}

PreUpgrade == {"http", "refused", "checked"}
Upgraded   == {"opened", "total", "ws", "leaving"}

\* memory.current.
Memory == HttpCost * Cardinality(ConnsAt(PreUpgrade))
            + WsCost * Cardinality(ConnsAt(Upgraded))
            + PageCost * unread

Init == /\ conn = [c \in Conn |-> "none"]
        /\ active = 0 /\ net = 0
        /\ overloaded = FALSE
        /\ guard = "sleep" /\ sample = 0
        /\ admitted = 0
        /\ unread = 0
        /\ frozen = FALSE /\ freezes = 0 /\ kills = 0

Move(c, from, to) == /\ ~frozen
                     /\ conn[c] = from
                     /\ conn' = [conn EXCEPT ![c] = to]

-----------------------------------------------------------------------------
(* The engine and the /ws handler.                                         *)

\* nbio refuses a connection with a reset when it holds MaxLoad of them; that
\* one never becomes a connection here. The guard does not see accepts.
Accept(c) == /\ Cardinality(ConnsAt(ConnPC \ {"none"})) < MaxLoad
             /\ Cardinality(ConnsAt(PreUpgrade)) < Clients
             /\ Move(c, "none", "http")
             /\ UNCHANGED <<metrics, guardVars, admitted, outside>>

\* Fault: a check that lets everybody pass.
PassCheckAlways(c) == /\ admitted < PerPeriod
                      /\ Move(c, "http", "checked")
                      /\ admitted' = admitted + 1
                      /\ UNCHANGED <<metrics, guardVars, outside>>

\* 503 while the flag is set.
Reject(c) == /\ overloaded
             /\ Move(c, "http", "refused")
             /\ UNCHANGED <<metrics, guardVars, admitted, outside>>

\* The flag is loaded once; the upgrade comes later, whatever the flag is then.
PassCheck(c) == /\ ~overloaded
                /\ admitted < PerPeriod
                /\ Move(c, "http", "checked")
                /\ admitted' = admitted + 1
                /\ UNCHANGED <<metrics, guardVars, outside>>

Upgrade(c) == /\ Move(c, "checked", "opened")
              /\ UNCHANGED <<metrics, guardVars, admitted, outside>>

\* Fault: the handler's error path takes the connection off the gauge.
UpgradeFailsUncounts(c) == /\ Move(c, "checked", "refused")
                           /\ active' = active - 1
                           /\ UNCHANGED <<net, guardVars, admitted, outside>>

\* Upgrade has answered with an HTTP error: there was no OnOpen, and there will be
\* no OnClose.
UpgradeFails(c) == /\ Move(c, "checked", "refused")
                   /\ UNCHANGED <<metrics, guardVars, admitted, outside>>

\* OnOpen: the gauge, then the counter.
OnOpenActive(c) == /\ Move(c, "opened", "total")
                   /\ active' = active + 1
                   /\ UNCHANGED <<net, guardVars, admitted, outside>>

OnOpenTotal(c) == /\ Move(c, "total", "ws")
                  /\ net' = net + 1
                  /\ UNCHANGED <<active, guardVars, admitted, outside>>

\* The client hangs up before it has a websocket.
HangUp(c) == /\ \E pc \in {"http", "refused"} : Move(c, pc, "none")
             /\ UNCHANGED <<metrics, guardVars, admitted, outside>>

\* OnClose: the peer left, the read deadline passed, or an echo failed.
OnCloseActive(c) == /\ Move(c, "ws", "leaving")
                    /\ active' = active - 1
                    /\ UNCHANGED <<net, guardVars, admitted, outside>>

OnCloseTotal(c) == /\ Move(c, "leaving", "none")
                   /\ net' = net - 1
                   /\ UNCHANGED <<active, guardVars, admitted, outside>>

Handler(c) == \/ Reject(c) \/ PassCheck(c) \/ Upgrade(c) \/ UpgradeFails(c)
              \/ OnOpenActive(c) \/ OnOpenTotal(c) \/ OnCloseTotal(c)

-----------------------------------------------------------------------------
(* guardMemory: every 250 ms, read memory.current and act on what was read. *)

\* Faults: a reading of the headroom instead of the use, thresholds compared the
\* wrong way round, and a flag that is never cleared.
GuardReadHeadroom == /\ ~frozen /\ guard = "sleep"
                     /\ sample' = High - Memory
                     /\ guard' = "decide"
                     /\ admitted' = 0
                     /\ UNCHANGED <<conn, metrics, overloaded, outside>>

GuardDecideSwapped == /\ ~frozen /\ guard = "decide"
                      /\ overloaded' = IF sample > High /\ overloaded THEN FALSE
                                       ELSE IF sample < Low /\ ~overloaded THEN TRUE
                                       ELSE overloaded
                      /\ guard' = "sleep" /\ sample' = 0
                      /\ UNCHANGED <<conn, metrics, admitted, outside>>

GuardDecideLatches == /\ ~frozen /\ guard = "decide"
                      /\ overloaded' = (sample > High \/ overloaded)
                      /\ guard' = "sleep" /\ sample' = 0
                      /\ UNCHANGED <<conn, metrics, admitted, outside>>

GuardRead == /\ ~frozen /\ guard = "sleep"
             /\ sample' = Memory
             /\ guard' = "decide"
             /\ admitted' = 0
             /\ UNCHANGED <<conn, metrics, overloaded, outside>>

\* The decision uses the reading, not the memory of this moment.
GuardDecide == /\ ~frozen /\ guard = "decide"
               /\ overloaded' = IF sample > High /\ ~overloaded THEN TRUE
                                ELSE IF sample < Low /\ overloaded THEN FALSE
                                ELSE overloaded
               /\ guard' = "sleep" /\ sample' = 0
               /\ UNCHANGED <<conn, metrics, admitted, outside>>

-----------------------------------------------------------------------------
(* The world outside: the process can stop running (a signal, a profile of *)
(* a loaded server), while the kernel goes on accepting messages, and      *)
(* charges one page per connection, past the limit too. A running process  *)
(* reads its sockets. The kernel kills it when it allocates past the limit,  *)
(* and Docker starts it again with nothing open.                           *)

Freeze == /\ ~frozen /\ freezes < MaxFreezes
          /\ frozen' = TRUE /\ freezes' = freezes + 1
          /\ UNCHANGED <<conn, metrics, guardVars, admitted, unread, kills>>

MessageArrives == /\ frozen
                  /\ unread < Cardinality(ConnsAt({"ws"}))
                  /\ unread' = unread + 1
                  /\ UNCHANGED <<conn, metrics, guardVars, admitted, frozen, freezes, kills>>

Resume == /\ frozen
          /\ frozen' = FALSE
          /\ UNCHANGED <<conn, metrics, guardVars, admitted, unread, freezes, kills>>

Drain == /\ ~frozen /\ unread > 0
         /\ unread' = 0
         /\ UNCHANGED <<conn, metrics, guardVars, admitted, frozen, freezes, kills>>

OOMKill == /\ ~frozen /\ Memory > Max /\ kills < MaxKills
           /\ conn' = [c \in Conn |-> "none"]
           /\ active' = 0 /\ net' = 0
           /\ overloaded' = FALSE /\ guard' = "sleep" /\ sample' = 0
           /\ admitted' = 0 /\ unread' = 0
           /\ kills' = kills + 1
           /\ UNCHANGED <<frozen, freezes>>

-----------------------------------------------------------------------------
Guard == GuardRead \/ GuardDecide

World == Freeze \/ MessageArrives \/ Resume \/ Drain \/ OOMKill

Next == \/ \E c \in Conn : Accept(c) \/ Handler(c) \/ HangUp(c) \/ OnCloseActive(c)
        \/ Guard \/ World

Spec == Init /\ [][Next]_vars

\* The ticker keeps ticking, the runtime runs its goroutines, and a frozen
\* process is resumed and then reads its sockets. Clients that were refused
\* hang up; nobody is obliged to dial or to leave.
Fairness == /\ WF_vars(Guard)
            /\ WF_vars(Resume) /\ WF_vars(Drain) /\ WF_vars(OOMKill)
            /\ \A c \in Conn : WF_vars(Handler(c)) /\ WF_vars(HangUp(c))

FairSpec == Spec /\ Fairness

-----------------------------------------------------------------------------
TypeOK == /\ conn \in [Conn -> ConnPC]
          /\ active \in Int /\ net \in Int
          /\ overloaded \in BOOLEAN
          /\ guard \in {"sleep", "decide"} /\ sample \in Nat
          /\ admitted \in 0 .. PerPeriod
          /\ unread \in Nat
          /\ frozen \in BOOLEAN
          /\ freezes \in 0 .. MaxFreezes /\ kills \in 0 .. MaxKills

\* The gauge and the counters describe exactly the connections that are open,
\* but for callbacks under way: a request that was rejected or whose upgrade failed
\* never counts, and none counts twice or is left out (main.go:69-80, 165-175).
MetricsAccount ==
  /\ active = Cardinality(ConnsAt({"total", "ws"}))
  /\ net = Cardinality(ConnsAt({"ws", "leaving"}))

\* The most that admission can make of the container's memory: what a reading
\* at the threshold allows, with every handshake under way then or since grown
\* into a websocket or replaced by another handshake, and the requests that
\* pass the check before the next reading and before that one is acted on.
Ceiling == High + WsCost * (Clients + 2 * PerPeriod)

\* The guard's check and its reading are both stale when they are used, but
\* admissions alone cannot take memory past the ceiling (memory.go:97-101).
AdmissionBounded == Memory - PageCost * unread <= Ceiling

\* "with it, existing connections stay up" (memory.go:100-101): no restart.
ExistingStayUp == kills = 0

UnderLow == frozen = FALSE => Memory < Low

\* If from some time on the running process stays under the lower threshold, it
\* lets new clients in again for good, whatever the guard last read
\* (memory.go:118-120).
Reopens == <>[]UnderLow => <>[]~overloaded
=============================================================================
