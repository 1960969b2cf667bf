CONSTANTS
  Conn = {c1, c2, c3, c4}
  NoConn = NoConn
  Dial = {d1, d2, d3}
  Target = 2
  PerTick = 2
  Inflight = 2
  MaxFaults = 2
SPECIFICATION Spec
SYMMETRY Symmetry
INVARIANTS TypeOK SlotsAccounted ActiveAccounted StoredAreOpen NoTombstoneLeak ExactAtRest
CHECK_DEADLOCK FALSE
