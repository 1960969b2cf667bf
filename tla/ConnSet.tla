------------------------------ MODULE ConnSet ------------------------------
(***************************************************************************)
(* What the load generator's connection registry promises its callers      *)
(* (cmd/loadgen/registry.go): a set of stored connections and a set of      *)
(* connections that were reported closed while they were not stored.       *)
(*                                                                         *)
(* The order of the connections and the index from a connection to its     *)
(* position are not part of the promise: module Registry adds them and is  *)
(* shown to implement this one.                                            *)
(***************************************************************************)
CONSTANT Conn                    \* the connections, as *websocket.Conn identities

VARIABLES stored,                \* connections add accepted and remove did not take
          closed,                \* closed before they were added
          reply                  \* what the last call answered

setVars == <<stored, closed, reply>>

Init == /\ stored = {}
        /\ closed = {}
        /\ reply = FALSE

\* A connection that was closed first is refused once, and forgotten.
\* A connection that is stored already is refused.
Add(c) == LET fresh == c \notin closed \cup stored
          IN  /\ reply' = fresh
              /\ stored' = IF fresh THEN stored \cup {c} ELSE stored
              /\ closed' = closed \ {c}

\* A connection that is not stored is remembered as closed.
Remove(c) == /\ reply' = (c \in stored)
             /\ stored' = stored \ {c}
             /\ closed' = IF c \in stored THEN closed ELSE closed \cup {c}

Next == \E c \in Conn : Add(c) \/ Remove(c)

Spec == Init /\ [][Next]_setVars
=============================================================================
