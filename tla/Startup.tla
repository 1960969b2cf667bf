------------------------------ MODULE Startup ------------------------------
(***************************************************************************)
(* How the server opens its ports (main.go): -maxload is validated, -ports *)
(* is parsed and joined with -port, which nobody validates, nbio binds the *)
(* addresses in turn and its Start returns nil whatever happened, and      *)
(* checkListening dials each address once. Other processes take and free   *)
(* ports meanwhile.                                                        *)
(*                                                                         *)
(* An item of -ports is empty, a range of ports (a single port is a range of *)
(* one), or text that is not a number. The host is one and the same, and   *)
(* the kernel may refuse ports of it to this process: a privileged port, or *)
(* all of them when the host is not local.                                 *)
(***************************************************************************)
EXTENDS Integers, Sequences, Functions

CONSTANTS MaxPort,       \* 65535
          Numbers,       \* numbers the flags may hold, some out of range
          MaxItems,      \* items of -ports (a bound)
          ForeignPorts,  \* ports other processes may hold
          DeniedPorts    \* ports the kernel may refuse this process

ASSUME PortAssumption == /\ {MaxPort, MaxItems} \subseteq Nat
                         /\ Numbers \subseteq Int
                         /\ ForeignPorts \cup DeniedPorts \subseteq 1 .. MaxPort

VARIABLES port, items,   \* -port and -ports
          loadOK,        \* whether -maxload is at least 1
          denied,        \* the ports the kernel refuses this process
          phase,         \* "parse", "bind", "check", "serving" or "fatal"
          addrs,         \* the addresses to listen on, by port
          done,          \* how many of them this phase has dealt with
          mine,          \* the ports this process has open
          foreign,       \* the ports other processes have open
          taken,         \* the ports other processes have had open
          answeredBy     \* per address dialled: who answered, or "late"

flags == <<port, items, loadOK, denied>>
foreigners == <<foreign, taken>>
startupVars == <<flags, phase, addrs, done, mine, foreigners, answeredBy>>

Item == [text : {"empty", "junk"}, lo : {0}, hi : {0}]
          \cup [text : {"range"}, lo : Numbers, hi : Numbers]

-----------------------------------------------------------------------------
(* parsePorts and listenAddrs.                                             *)

\* Fault: the lower end of a range is not looked at.
BadHighOnly(item) == \/ item.text = "junk"
                     \/ item.text = "range" /\ (item.hi > MaxPort \/ item.hi < item.lo)

Bad(item) == \/ item.text = "junk"
             \/ /\ item.text = "range"
                /\ item.lo < 1 \/ item.hi > MaxPort \/ item.hi < item.lo

Expand(item) == IF item.text = "range"
                THEN [i \in 1 .. item.hi - item.lo + 1 |-> item.lo + i - 1]
                ELSE << >>

\* What parsePorts returns when no item is bad: the result after each item.
parsePorts(list) ==
  LET out[j \in 0 .. Len(list)] == IF j = 0 THEN << >> ELSE out[j - 1] \o Expand(list[j])
  IN  out[Len(list)]

\* Fault: repeats are kept.
AddRepeated(out, p) == Append(out, p)

\* A port that was seen already is passed over.
AddUnseen(out, p) == IF p \in Range(out) THEN out ELSE Append(out, p)

\* The main port and the others in order: the addresses after each of them.
listenAddrs(p, list) ==
  LET all == <<p>> \o parsePorts(list)
      out[j \in 0 .. Len(all)] == IF j = 0 THEN << >> ELSE AddUnseen(out[j - 1], all[j])
  IN  out[Len(all)]

-----------------------------------------------------------------------------
StartupInit ==
  /\ port \in Numbers /\ loadOK \in BOOLEAN /\ denied \in SUBSET DeniedPorts
  /\ items \in UNION {[1 .. n -> Item] : n \in 0 .. MaxItems}
  /\ phase = "parse" /\ addrs = << >> /\ done = 0
  /\ mine = {}
  /\ foreign \in SUBSET ForeignPorts /\ taken = foreign
  /\ answeredBy = << >>

\* A bad -maxload or item ends the program before anything is bound.
Refuse == /\ phase = "parse" /\ (~loadOK \/ \E i \in DOMAIN items : Bad(items[i]))
          /\ phase' = "fatal"
          /\ UNCHANGED <<flags, addrs, done, mine, foreigners, answeredBy>>

Parse == /\ phase = "parse" /\ loadOK /\ \A i \in DOMAIN items : ~Bad(items[i])
         /\ addrs' = listenAddrs(port, items)
         /\ phase' = "bind"
         /\ UNCHANGED <<flags, done, mine, foreigners, answeredBy>>

\* The ports that a bind of p may open. The kernel picks the port for a p of 0.
Free(p) == (IF p = 0 THEN 1 .. MaxPort ELSE {p} \cap 1 .. MaxPort)
              \ (mine \cup foreign \cup denied)

Bind == /\ phase = "bind" /\ done < Len(addrs)
        /\ \E q \in Free(addrs[done + 1]) : mine' = mine \cup {q}
        /\ done' = done + 1
        /\ UNCHANGED <<flags, phase, addrs, foreigners, answeredBy>>

\* One failure leaves the engine spinning with no port open, and Start returns
\* nil all the same.
BindFails == /\ phase = "bind" /\ done < Len(addrs)
             /\ Free(addrs[done + 1]) = {}
             /\ mine' = {}
             /\ phase' = "check" /\ done' = 0
             /\ UNCHANGED <<flags, addrs, foreigners, answeredBy>>

Started == /\ phase = "bind" /\ done = Len(addrs)
           /\ phase' = "check" /\ done' = 0
           /\ UNCHANGED <<flags, addrs, mine, foreigners, answeredBy>>

\* Fault: only the first address is dialled.
CheckAnswersFirst == /\ phase = "check" /\ done < Len(addrs)
                     /\ addrs[done + 1] \in mine \cup foreign
                     /\ answeredBy' = Append(answeredBy,
                                             IF addrs[done + 1] \in mine THEN "us" ELSE "other")
                     /\ done' = Len(addrs)
                     /\ UNCHANGED <<flags, phase, addrs, mine, foreigners>>

\* A dial succeeds when anybody listens.
CheckAnswers == /\ phase = "check" /\ done < Len(addrs)
                /\ addrs[done + 1] \in mine \cup foreign
                /\ answeredBy' = Append(answeredBy,
                                        IF addrs[done + 1] \in mine THEN "us" ELSE "other")
                /\ done' = done + 1
                /\ UNCHANGED <<flags, phase, addrs, mine, foreigners>>

\* Nobody listens there (on port 0 or 70000, nobody can).
CheckFails == /\ phase = "check" /\ done < Len(addrs)
              /\ addrs[done + 1] \notin mine \cup foreign
              /\ phase' = "fatal" /\ mine' = {}
              /\ UNCHANGED <<flags, addrs, done, foreigners, answeredBy>>

\* Somebody listens, and the dial takes longer than its two seconds.
CheckTimesOut == /\ phase = "check" /\ done < Len(addrs)
                 /\ addrs[done + 1] \in mine \cup foreign
                 /\ answeredBy' = Append(answeredBy, "late")
                 /\ phase' = "fatal" /\ mine' = {}
                 /\ UNCHANGED <<flags, addrs, done, foreigners>>

Serve == /\ phase = "check" /\ done = Len(addrs)
         /\ phase' = "serving"
         /\ UNCHANGED <<flags, addrs, done, mine, foreigners, answeredBy>>

\* Another process binds a free port or closes one of its own.
Others == \E p \in ForeignPorts :
            /\ p \notin mine
            /\ foreign' = IF p \in foreign THEN foreign \ {p} ELSE foreign \cup {p}
            /\ taken' = taken \cup foreign'
            /\ UNCHANGED <<flags, phase, addrs, done, mine, answeredBy>>

checkListening == CheckAnswers \/ CheckFails \/ CheckTimesOut

StartupNext == \/ Refuse \/ Parse \/ Bind \/ BindFails \/ Started
               \/ checkListening \/ Serve \/ Others

StartupSpec == StartupInit /\ [][StartupNext]_startupVars

-----------------------------------------------------------------------------
StartupTypeOK ==
  /\ port \in Numbers /\ items \in Seq(Item)
  /\ loadOK \in BOOLEAN /\ denied \subseteq DeniedPorts
  /\ phase \in {"parse", "bind", "check", "serving", "fatal"}
  /\ addrs \in Seq({port} \cup 1 .. MaxPort) /\ done \in 0 .. Len(addrs)
  /\ mine \subseteq 1 .. MaxPort /\ foreign \subseteq taken /\ taken \subseteq ForeignPorts
  /\ answeredBy \in Seq({"us", "other", "late"})

\* The ports the flags ask for.
Planned == {port} \cup UNION {items[i].lo .. items[i].hi :
                                i \in {j \in DOMAIN items : items[j].text = "range"}}

\* "silently listening on fewer ports than planned" (main.go:85-87) cannot
\* happen: either all planned ports are open, or none is, and then each of them
\* was answered by some other process while it was dialled.
NeverFewer ==
  phase = "serving" =>
     \/ mine = Planned
     \/ mine = {} /\ \A i \in DOMAIN addrs : i \in DOMAIN answeredBy /\ answeredBy[i] = "other"

\* Naming a port twice, in any two ranges, does not stop the server
\* (main.go:120-123): it gives up for a flag out of range, a planned port that
\* another process has had or the kernel refuses, or a dial that timed out.
FatalForCause ==
  phase = "fatal" => \/ ~loadOK \/ port \notin 1 .. MaxPort
                     \/ \E i \in DOMAIN items : Bad(items[i])
                     \/ Planned \cap (taken \cup denied) # {}
                     \/ \E i \in DOMAIN answeredBy : answeredBy[i] = "late"

\* checkListening "turns this ... into a startup failure" (main.go:141-143): a
\* server that goes on to serve has its ports open.
ServingIsListening == phase = "serving" => mine = Planned
=============================================================================
