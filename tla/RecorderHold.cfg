CONSTANTS
  Levels = {2000, 2006, 2012}
  Targets = {2000, 2006}
  None = None
  IdleMemory = 10
  Cost = 0
  Drift = 0
  Delay = 1
  Hold = 2
  Plateau = 3
  TimeLimit = 5
SPECIFICATION Spec
CHECK_DEADLOCK FALSE
INVARIANT HeldForHold
