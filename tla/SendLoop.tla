------------------------------ MODULE SendLoop ------------------------------
(***************************************************************************)
(* sendLoop (cmd/loadgen/main.go): every step of 100 ms it reads how many  *)
(* connections there are, works out how many of them are due, and takes    *)
(* that many from the registry, which dials and closes change in between.  *)
(*                                                                         *)
(* Step and Interval are in one unit of time, and carry is in connections   *)
(* times 1/Interval. The source keeps it in a float64: ten steps of 0.1 make *)
(* 0.9999999999999999, and no message. What one step rounds off is therefore *)
(* any amount up to a bound that is much smaller than a step.               *)
(***************************************************************************)
EXTENDS Registry, FiniteSets

CONSTANTS Step,        \* 100 ms
          Interval,    \* -interval
          Rounding,    \* what the float64 operations of a step round off, at most
          MaxTicks,    \* steps followed without a change of the list (a bound)
          MaxChanges   \* calls of add and remove followed (a bound)

ASSUME SendAssumption ==
  /\ IsFiniteSet(Conn)
  /\ {Step, Interval} \subseteq Nat \ {0}      \* main.go:135
  /\ {Rounding, MaxTicks, MaxChanges} \subseteq Nat

\* A float64 has 53 bits, so that it takes millions of steps to round off the share
\* that one connection has in one step.
ASSUME RoundingAssumption == MaxTicks * Rounding <= Step

VARIABLES pc,          \* "wait" for the ticker or "take" a batch
          due,         \* the local n
          cursor, carry,
          ticks,       \* steps begun since the list last changed
          turns,       \* messages sent to each stored connection since then
          changes

loopVars == <<pc, due, cursor, carry>>
sendVars == <<regVars, loopVars, ticks, turns, changes>>

SendInit == /\ Init
            /\ pc = "wait" /\ due = 0 /\ cursor = 0 /\ carry = 0
            /\ ticks = 0 /\ changes = 0
            /\ turns = [c \in stored |-> 0]

\* Faults: a share that is never taken off carry, one that is dropped, and a walk
\* that starts each batch where the last one did.
CountKeepsCarry ==
  /\ pc = "wait" /\ ticks < MaxTicks
  /\ LET owed == carry + Len(conns) * Step
     IN  due' = owed \div Interval /\ carry' = owed
  /\ pc' = "take"
  /\ ticks' = ticks + 1
  /\ UNCHANGED <<regVars, cursor, turns, changes>>

CountDropsCarry ==
  /\ pc = "wait" /\ ticks < MaxTicks
  /\ due' = (Len(conns) * Step) \div Interval
  /\ pc' = "take"
  /\ ticks' = ticks + 1
  /\ UNCHANGED <<regVars, cursor, carry, turns, changes>>

TakeFromSameSlot ==
  /\ pc = "take"
  /\ LET batch == Batch(cursor, due)
     IN  turns' = [c \in stored |->
                     turns[c] + Cardinality({k \in DOMAIN batch : batch[k] = c})]
  /\ pc' = "wait" /\ due' = 0
  /\ UNCHANGED <<regVars, cursor, carry, ticks, changes>>

\* The sum in carry after this step's share is added. Without connections there is
\* nothing to round; truncating it and subtracting its whole part are exact.
RoundedSums ==
  LET exact == carry + Len(conns) * Step
  IN  IF conns = << >> THEN {exact} ELSE exact - Rounding .. exact + Rounding

\* reg.len, and the connections due at this step.
Count == /\ pc = "wait" /\ ticks < MaxTicks
         /\ \E owed \in RoundedSums : due' = owed \div Interval /\ carry' = owed % Interval
         /\ pc' = "take"
         /\ ticks' = ticks + 1
         /\ UNCHANGED <<regVars, cursor, turns, changes>>

\* reg.batch with the count of a moment ago, and a message to each. A write to
\* a connection that has gone since fails and is not retried.
Take == /\ pc = "take"
        /\ LET batch == Batch(cursor, due)
           IN  turns' = [c \in stored |->
                           turns[c] + Cardinality({k \in DOMAIN batch : batch[k] = c})]
        /\ cursor' = NextCursor(cursor, due)
        /\ pc' = "wait" /\ due' = 0
        /\ UNCHANGED <<regVars, carry, ticks, changes>>

\* A dial adds or an OnClose removes, in any order. The tallies start over when
\* the list is another one.
Change == /\ changes < MaxChanges
          /\ Next
          /\ changes' = changes + 1
          /\ IF conns' = conns THEN UNCHANGED <<ticks, turns>>
                              ELSE ticks' = 0 /\ turns' = [c \in stored' |-> 0]
          /\ UNCHANGED loopVars

SendNext == Count \/ Take \/ Change

SendSpec == SendInit /\ [][SendNext]_sendVars

-----------------------------------------------------------------------------
SendTypeOK == /\ TypeOK
              /\ pc \in {"wait", "take"} /\ due \in Nat
              /\ cursor \in 0 .. Cardinality(Conn)
              /\ carry \in 0 .. Interval - 1
              /\ ticks \in 0 .. MaxTicks /\ changes \in 0 .. MaxChanges
              /\ turns \in [stored -> Nat]

\* "spreads messages evenly" (main.go:203): while the registry stays as it is,
\* no connection is two messages ahead of another, wherever the cursor was left
\* by a longer or a shorter list and however many were due.
Even == \A c, d \in stored : turns[c] <= turns[d] + 1

\* "the share of connections that keeps each one on the configured interval"
\* (main.go:203-204, and the flag's text at 79): after some steps with the
\* registry as it is, every connection has had the messages of that time, or of one
\* step less, which is as late as the rounding of carry makes one. With an interval
\* under one step it fails: batch sends one message per connection at most, and the
\* rest of the share has left carry (registry.go:81, main.go:223).
NotLate == pc = "wait" /\ ticks > 0 =>
             \A c \in stored : turns[c] >= ((ticks - 1) * Step) \div Interval

\* Nor is it sent more often: the share of the steps and of one more, one for the turn
\* it may have been about to have, and what was due when the registry changed.
NotEarly == \A c \in stored : turns[c] <= ((ticks + 1) * Step) \div Interval + 2
=============================================================================
