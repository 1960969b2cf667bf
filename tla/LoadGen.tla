------------------------------ MODULE LoadGen ------------------------------
(***************************************************************************)
(* The load generator's dial loop (cmd/loadgen/main.go): one loop that     *)
(* starts dials, one goroutine per dial, and nbio's OnClose callbacks, over *)
(* the shared registry and the counters `active' and `pending'.            *)
(*                                                                         *)
(* A step is one atomic operation of the source: a load or an add of an    *)
(* atomic counter, a call on the registry (whose methods hold its mutex), a *)
(* send to or a receive from the semaphore channel. The metrics gauge      *)
(* connsActive is updated after `active', as in the source. What the        *)
(* counters of dials, errors and disconnects hold is left out: the program *)
(* never reads them.                                                       *)
(***************************************************************************)
EXTENDS Integers, FiniteSets

CONSTANTS Conn,        \* connections, as *websocket.Conn identities
          NoConn,      \* nil
          Dial,        \* dial goroutines that can be alive at once (a bound)
          Target,      \* -conns
          PerTick,     \* dials started per tick: max(rate/100, 1)
          Inflight,    \* -inflight, the capacity of the semaphore
          MaxFaults    \* failed dials and dropped connections (a bound)

ASSUME ConstAssumption == /\ NoConn \notin Conn
                          /\ IsFiniteSet(Conn) /\ IsFiniteSet(Dial)
                          /\ Target \in Nat /\ Inflight \in Nat
                          /\ PerTick \in Nat \ {0}
                          /\ MaxFaults \in Nat

VARIABLES loop,        \* where dialLoop is
          i, seen,     \* its locals: dials tried this tick, active as loaded
          sem,         \* elements in the semaphore channel
          active, pending, connsActive,
          dpc, dconn,  \* per goroutine: where it is, the connection it dialed
          link,        \* per connection: its socket and its OnClose callback
          stored, closed, reply,  \* the registry and its last answer
          stopped,     \* ctx is done
          faults

loopVars == <<loop, i, seen>>
regVars  == <<stored, closed, reply>>
cntVars  == <<sem, active, pending, connsActive>>
vars == <<loopVars, cntVars, dpc, dconn, link, regVars, stopped, faults>>

Reg == INSTANCE ConnSet

Init == /\ loop = "wait" /\ i = 0 /\ seen = 0
        /\ sem = 0 /\ active = 0 /\ pending = 0 /\ connsActive = 0
        /\ dpc = [d \in Dial |-> "idle"]
        /\ dconn = [d \in Dial |-> NoConn]
        /\ link = [c \in Conn |-> "none"]
        /\ Reg!Init
        /\ stopped = FALSE
        /\ faults = 0

-----------------------------------------------------------------------------
(* dialLoop. `seen' is 0 whenever the local it stands for is dead.         *)

Tick == /\ loop = "wait"
        /\ loop' = "active" /\ i' = 0
        /\ UNCHANGED <<seen, cntVars, dpc, dconn, link, regVars, stopped, faults>>

Return == /\ loop = "wait" /\ stopped
          /\ loop' = "done"
          /\ UNCHANGED <<i, seen, cntVars, dpc, dconn, link, regVars, stopped, faults>>

\* The two loads of `active.Load()+pending.Load()', in the order Go evaluates
\* them. Goroutines and callbacks run in between.
ReadActive == /\ loop = "active"
              /\ seen' = active
              /\ loop' = "pending"
              /\ UNCHANGED <<i, cntVars, dpc, dconn, link, regVars, stopped, faults>>

ReadPending == /\ loop = "pending"
               /\ loop' = IF seen + pending >= Target THEN "wait" ELSE "acquire"
               /\ seen' = 0
               /\ UNCHANGED <<i, cntVars, dpc, dconn, link, regVars, stopped, faults>>

\* Fault: a dial that is started when all slots are taken.
StartDialUnlimited(d) ==
  /\ loop = "acquire" /\ dpc[d] = "idle"
  /\ sem' = sem + 1
  /\ pending' = pending + 1
  /\ dpc' = [dpc EXCEPT ![d] = "dial"]
  /\ i' = i + 1
  /\ loop' = IF i' < PerTick THEN "active" ELSE "wait"
  /\ UNCHANGED <<seen, active, connsActive, dconn, link, regVars, stopped, faults>>

AllSlotsBusy == /\ loop = "acquire" /\ sem >= Inflight
                /\ loop' = "wait"
                /\ UNCHANGED <<i, seen, cntVars, dpc, dconn, link, regVars, stopped, faults>>

\* Between taking the slot and the go statement nothing another process reads
\* is written but the semaphore and pending, which only this loop reads.
StartDial(d) == /\ loop = "acquire" /\ sem < Inflight
                /\ dpc[d] = "idle"
                /\ sem' = sem + 1
                /\ pending' = pending + 1
                /\ dpc' = [dpc EXCEPT ![d] = "dial"]
                /\ i' = i + 1
                /\ loop' = IF i' < PerTick THEN "active" ELSE "wait"
                /\ UNCHANGED <<seen, active, connsActive, dconn, link, regVars, stopped, faults>>

-----------------------------------------------------------------------------
(* One dial goroutine.                                                     *)

\* An object the program can be given as a new connection: no goroutine, no
\* callback and no entry of the registry refers to it.
Fresh(c) == /\ link[c] = "none"
            /\ c \notin stored \cup closed
            /\ \A d \in Dial : dconn[d] # c

DialOpens(d, c) == /\ dpc[d] = "dial" /\ Fresh(c)
                   /\ link' = [link EXCEPT ![c] = "up"]
                   /\ dconn' = [dconn EXCEPT ![d] = c]
                   /\ dpc' = [dpc EXCEPT ![d] = "add"]
                   /\ UNCHANGED <<loopVars, cntVars, regVars, stopped, faults>>

\* Faults: a failed dial that skips the deferred function; an add that ignores a
\* late close, or does not forget it.
DialFailsLeaksSlot(d) == /\ dpc[d] = "dial" /\ faults < MaxFaults
                         /\ faults' = faults + 1
                         /\ dpc' = [dpc EXCEPT ![d] = "idle"]
                         /\ UNCHANGED <<loopVars, cntVars, dconn, link, regVars, stopped>>

AddConnIgnoresClose(d) ==
  /\ dpc[d] = "add"
  /\ stored' = stored \cup {dconn[d]} /\ reply' = TRUE
  /\ dpc' = [dpc EXCEPT ![d] = "count"]
  /\ dconn' = [dconn EXCEPT ![d] = NoConn]
  /\ UNCHANGED <<loopVars, cntVars, link, closed, stopped, faults>>

AddConnKeepsClosed(d) ==
  /\ dpc[d] = "add"
  /\ reply' = (dconn[d] \notin stored \cup closed)
  /\ stored' = IF reply' THEN stored \cup {dconn[d]} ELSE stored
  /\ dpc' = [dpc EXCEPT ![d] = IF reply' THEN "count" ELSE "release"]
  /\ dconn' = [dconn EXCEPT ![d] = NoConn]
  /\ UNCHANGED <<loopVars, cntVars, link, closed, stopped, faults>>

\* Refused, reset, timed out, or answered with anything but 101.
DialFails(d) == /\ dpc[d] = "dial" /\ faults < MaxFaults
                /\ faults' = faults + 1
                /\ dpc' = [dpc EXCEPT ![d] = "release"]
                /\ UNCHANGED <<loopVars, cntVars, dconn, link, regVars, stopped>>

AddConn(d) == /\ dpc[d] = "add"
              /\ Reg!Add(dconn[d])
              /\ dpc' = [dpc EXCEPT ![d] = IF reply' THEN "count" ELSE "release"]
              /\ dconn' = [dconn EXCEPT ![d] = NoConn]
              /\ UNCHANGED <<loopVars, cntVars, link, stopped, faults>>

CountActive(d) == /\ dpc[d] = "count"
                  /\ active' = active + 1
                  /\ dpc' = [dpc EXCEPT ![d] = "gauge"]
                  /\ UNCHANGED <<loopVars, sem, pending, connsActive, dconn, link, regVars, stopped, faults>>

IncGauge(d) == /\ dpc[d] = "gauge"
               /\ connsActive' = connsActive + 1
               /\ dpc' = [dpc EXCEPT ![d] = "release"]
               /\ UNCHANGED <<loopVars, sem, active, pending, dconn, link, regVars, stopped, faults>>

\* The deferred function frees the slot first and then leaves pending.
Release(d) == /\ dpc[d] = "release"
              /\ sem' = sem - 1
              /\ dpc' = [dpc EXCEPT ![d] = "leave"]
              /\ UNCHANGED <<loopVars, active, pending, connsActive, dconn, link, regVars, stopped, faults>>

Leave(d) == /\ dpc[d] = "leave"
            /\ pending' = pending - 1
            /\ dpc' = [dpc EXCEPT ![d] = "idle"]
            /\ UNCHANGED <<loopVars, sem, active, connsActive, dconn, link, regVars, stopped, faults>>

Goroutine(d) == \/ \E c \in Conn : DialOpens(d, c)
                \/ DialFails(d) \/ AddConn(d) \/ CountActive(d)
                \/ IncGauge(d) \/ Release(d) \/ Leave(d)

-----------------------------------------------------------------------------
(* A connection goes away, and OnClose runs on one of nbio's goroutines: it *)
(* may run before Dial returns or between any two steps of the goroutine.  *)
(* engine.Stop, called once ctx is done, closes whatever is open.          *)

\* Faults: a close that is counted whatever remove answered, and a callback that
\* returns before the gauge.
CloseAlwaysCounts(c) == /\ link[c] = "up"
                        /\ \/ stopped /\ UNCHANGED faults
                           \/ ~stopped /\ faults < MaxFaults /\ faults' = faults + 1
                        /\ Reg!Remove(c)
                        /\ link' = [link EXCEPT ![c] = "uncount"]
                        /\ UNCHANGED <<loopVars, cntVars, dpc, dconn, stopped>>

UncountActiveOnly(c) == /\ link[c] = "uncount"
                        /\ active' = active - 1
                        /\ link' = [link EXCEPT ![c] = "none"]
                        /\ UNCHANGED <<loopVars, sem, pending, connsActive, dpc, dconn,
                                       regVars, stopped, faults>>

Close(c) == /\ link[c] = "up"
            /\ \/ stopped /\ UNCHANGED faults
               \/ ~stopped /\ faults < MaxFaults /\ faults' = faults + 1
            /\ Reg!Remove(c)
            /\ link' = [link EXCEPT ![c] = IF reply' THEN "uncount" ELSE "none"]
            /\ UNCHANGED <<loopVars, cntVars, dpc, dconn, stopped>>

UncountActive(c) == /\ link[c] = "uncount"
                    /\ active' = active - 1
                    /\ link' = [link EXCEPT ![c] = "ungauge"]
                    /\ UNCHANGED <<loopVars, sem, pending, connsActive, dpc, dconn, regVars, stopped, faults>>

DecGauge(c) == /\ link[c] = "ungauge"
               /\ connsActive' = connsActive - 1
               /\ link' = [link EXCEPT ![c] = "none"]
               /\ UNCHANGED <<loopVars, sem, active, pending, dpc, dconn, regVars, stopped, faults>>

OnClose(c) == UncountActive(c) \/ DecGauge(c)

Interrupt == /\ ~stopped
             /\ stopped' = TRUE
             /\ UNCHANGED <<loopVars, cntVars, dpc, dconn, link, regVars, faults>>

-----------------------------------------------------------------------------
LoopStep == \/ Tick \/ ReadActive \/ ReadPending \/ AllSlotsBusy
            \/ \E d \in Dial : StartDial(d)

Next == \/ LoopStep \/ Return \/ Interrupt
        \/ \E d \in Dial : Goroutine(d)
        \/ \E c \in Conn : Close(c) \/ OnClose(c)

Spec == Init /\ [][Next]_vars

\* The Go scheduler runs every runnable goroutine, the ticker keeps ticking,
\* and DialTimeout ends every dial. Nothing obliges a server to close.
Fairness == /\ WF_vars(LoopStep)
            /\ \A d \in Dial : WF_vars(Goroutine(d))
            /\ \A c \in Conn : WF_vars(OnClose(c))

FairSpec == Spec /\ Fairness

-----------------------------------------------------------------------------
LoopPC == {"wait", "active", "pending", "acquire", "done"}
DialPC == {"idle", "dial", "add", "count", "gauge", "release", "leave"}
LinkPC == {"none", "up", "uncount", "ungauge"}

TypeOK == /\ loop \in LoopPC /\ i \in 0 .. PerTick /\ seen \in Int
          /\ sem \in 0 .. Inflight /\ pending \in Nat
          /\ active \in Int /\ connsActive \in Int
          /\ dpc \in [Dial -> DialPC]
          /\ dconn \in [Dial -> Conn \cup {NoConn}]
          /\ link \in [Conn -> LinkPC]
          /\ stored \subseteq Conn /\ closed \subseteq Conn /\ reply \in BOOLEAN
          /\ stopped \in BOOLEAN /\ faults \in 0 .. MaxFaults

DialsAt(pcs) == {d \in Dial : dpc[d] \in pcs}
LinksAt(pcs) == {c \in Conn : link[c] \in pcs}

\* The semaphore and pending count exactly the goroutines that hold a slot and
\* the goroutines that are alive; a missed release would end all dialing.
SlotsAccounted ==
  /\ sem = Cardinality(DialsAt({"dial", "add", "count", "gauge", "release"}))
  /\ pending = Cardinality(DialsAt(DialPC \ {"idle"}))

\* `active' and the gauge differ from the registry exactly by the goroutines
\* and callbacks that are between the registry call and the counter
\* (main.go:110-116, 194-197).
ActiveAccounted ==
  /\ active + Cardinality(DialsAt({"count"}))
       = Cardinality(stored) + Cardinality(LinksAt({"uncount"}))
  /\ connsActive + Cardinality(DialsAt({"count", "gauge"}))
       = Cardinality(stored) + Cardinality(LinksAt({"uncount", "ungauge"}))

\* A stored connection is open: one that closed before add is never counted as
\* open forever (registry.go:10-13).
StoredAreOpen == \A c \in stored : link[c] = "up"

\* A connection remembered as closed is one a goroutine is about to add, so
\* the set of remembered closes is emptied again (registry.go:34-37).
NoTombstoneLeak ==
  \A c \in closed : \E d \in Dial : dpc[d] = "add" /\ dconn[d] = c

\* With no dial and no callback under way, what the program and the dashboard
\* count is what is open.
ExactAtRest ==
  (DialsAt({"idle"}) = Dial /\ LinksAt({"none", "up"}) = Conn)
     => /\ active = Cardinality(LinksAt({"up"}))
        /\ connsActive = active

\* Open connections plus dials in progress, as dialLoop's comment counts them.
Open == Cardinality(stored) + Cardinality(DialsAt({"dial", "add"}))

\* "keeps the number of open plus in-progress connections at the target"
\* (main.go:144-145): dialLoop may pass it, because it loads active before
\* pending, but never by more than the number of dials in progress it allows.
OvershootBounded == Open <= Target + Inflight

\* Once dials stop failing and connections stop dropping, the load generator
\* holds its target for good, unless it is interrupted.
ReachesTarget == <>[](stopped \/ Cardinality(stored) >= Target)
=============================================================================
