------------------------------ MODULE Registry ------------------------------
(***************************************************************************)
(* The registry of open connections of the load generator                  *)
(* (cmd/loadgen/registry.go): an array the sender walks in order, with an  *)
(* index from each connection to its slot so that a removal is O(1), and   *)
(* the set of connections closed before they were added.                   *)
(*                                                                         *)
(* Every method holds r.mu from entry to return, so each is one action.    *)
(* slot counts from 0 as in the source; conns is a TLA+ sequence and       *)
(* counts from 1.                                                          *)
(***************************************************************************)
EXTENDS Integers, Sequences

CONSTANT Conn                    \* the connections, as *websocket.Conn identities

VARIABLES conns,                 \* the array, in the order the sender walks it
          slot,                  \* connection -> its index in conns
          closed,                \* closed before they were added
          reply                  \* what the last call answered

regVars == <<conns, slot, closed, reply>>

Init == /\ conns = << >>
        /\ slot = [c \in {} |-> 0]
        /\ closed = {}
        /\ reply = FALSE

stored == DOMAIN slot

-----------------------------------------------------------------------------
(* add *)

\* Faults: a late close that is never forgotten, and one that is not looked for.
AddClosedKeepsIt(c) == /\ c \in closed
                       /\ reply' = FALSE
                       /\ UNCHANGED <<conns, slot, closed>>

AddNewEvenIfClosed(c) == /\ c \notin stored
                         /\ slot' = [k \in stored \cup {c} |->
                                       IF k = c THEN Len(conns) ELSE slot[k]]
                         /\ conns' = Append(conns, c)
                         /\ reply' = TRUE
                         /\ UNCHANGED closed

AddClosed(c) == /\ c \in closed
                /\ closed' = closed \ {c}
                /\ reply' = FALSE
                /\ UNCHANGED <<conns, slot>>

AddDuplicate(c) == /\ c \notin closed
                   /\ c \in stored
                   /\ reply' = FALSE
                   /\ UNCHANGED <<conns, slot, closed>>

AddNew(c) == /\ c \notin closed
             /\ c \notin stored
             /\ slot' = [k \in stored \cup {c} |->
                           IF k = c THEN Len(conns) ELSE slot[k]]
             /\ conns' = Append(conns, c)
             /\ reply' = TRUE
             /\ UNCHANGED closed

Add(c) == AddClosed(c) \/ AddDuplicate(c) \/ AddNew(c)

-----------------------------------------------------------------------------
(* remove *)

RemoveUnknown(c) == /\ c \notin stored
                    /\ closed' = closed \cup {c}
                    /\ reply' = FALSE
                    /\ UNCHANGED <<conns, slot>>

\* Faults: the index of the moved connection left as it was, and a removal that
\* closes the hole by moving every later connection.
RemoveStoredKeepsIndex(c) ==
  /\ c \in stored
  /\ LET last == Len(conns)
     IN  conns' = SubSeq([conns EXCEPT ![slot[c] + 1] = conns[last]], 1, last - 1)
  /\ slot' = [k \in stored \ {c} |-> slot[k]]
  /\ reply' = TRUE
  /\ UNCHANGED closed

RemoveStoredByShift(c) ==
  /\ c \in stored
  /\ conns' = [i \in 1 .. Len(conns) - 1 |->
                 IF i <= slot[c] THEN conns[i] ELSE conns[i + 1]]
  /\ slot' = [k \in stored \ {c} |->
                IF slot[k] > slot[c] THEN slot[k] - 1 ELSE slot[k]]
  /\ reply' = TRUE
  /\ UNCHANGED closed

\* The last connection moves into the hole, so that no other one moves. When c
\* is the last one it is moved onto itself and then dropped.
RemoveStored(c) ==
  /\ c \in stored
  /\ LET last  == Len(conns)
         moved == conns[last]
     IN  /\ conns' = SubSeq([conns EXCEPT ![slot[c] + 1] = moved], 1, last - 1)
         /\ slot' = [k \in stored \ {c} |->
                       IF k = moved THEN slot[c] ELSE slot[k]]
  /\ reply' = TRUE
  /\ UNCHANGED closed

Remove(c) == RemoveUnknown(c) \/ RemoveStored(c)

-----------------------------------------------------------------------------
(* batch: what it copies and the cursor it returns, for a list of conns.   *)

Clamp(n) == IF n > Len(conns) THEN Len(conns) ELSE n

Batch(cursor, n) ==
  [i \in 1 .. Clamp(n) |-> conns[((cursor + i - 1) % Len(conns)) + 1]]

NextCursor(cursor, n) ==
  IF conns = << >> THEN 0 ELSE (cursor + Clamp(n)) % Len(conns)

-----------------------------------------------------------------------------
(* The registry under any calls: dialLoop adds, the OnClose callback       *)
(* removes, and the tests call both in every order.                        *)

Next == \E c \in Conn : Add(c) \/ Remove(c)

Spec == Init /\ [][Next]_regVars

TypeOK == /\ conns \in Seq(Conn)
          /\ slot \in [stored -> Nat]
          /\ stored \subseteq Conn
          /\ closed \subseteq Conn
          /\ reply \in BOOLEAN

\* The array and the index are inverses of each other: the connection at a
\* stored slot is that connection, and every position is some connection's
\* slot. remove relies on it to overwrite the right position (registry.go:51-63).
SlotsMatch == /\ \A c \in stored : /\ slot[c] + 1 \in 1 .. Len(conns)
                                   /\ conns[slot[c] + 1] = c
              /\ \A i \in 1 .. Len(conns) : /\ conns[i] \in stored
                                            /\ slot[conns[i]] = i - 1

\* A connection is never both stored and remembered as closed; a later add
\* of a stored connection would otherwise be taken for a late close.
ClosedNotStored == closed \cap stored = {}

\* A removal moves at most one other connection, the one that was last; the
\* sender's walk depends on it, because a connection that moves can be missed
\* or met twice in one lap.
OthersStayPut ==
  [][\A c \in stored \cap stored' :
       slot'[c] = slot[c] \/ c = conns[Len(conns)]]_regVars

\* The registry is the set of connections it promises to be.
Promise == INSTANCE ConnSet WITH stored <- stored
ImplementsConnSet == Promise!Spec

\* Not only is every step some call of that set: each call has the effect and
\* the answer of the same call of the set (registry.go:29-48).
CallAgrees == \A c \in Conn : /\ Add(c) => Promise!Add(c)
                              /\ Remove(c) => Promise!Remove(c)
CallsAgree == [][CallAgrees]_regVars
=============================================================================
