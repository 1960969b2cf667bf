CONSTANTS
  Conn = {c1, c2, c3}
  NoConn = NoConn
  Dial = {d1, d2}
  Target = 2
  PerTick = 2
  Inflight = 1
  MaxFaults = 2
SPECIFICATION FairSpec
INVARIANT OvershootBounded
PROPERTY ReachesTarget
CHECK_DEADLOCK FALSE
