CONSTANTS
  Levels = {1000, 1004, 1006}
  Targets = {1004}
  None = None
  IdleMemory = 50
  Cost = 6
  Drift = 2
  Delay = 1
  Hold = 2
  Plateau = 3
  TimeLimit = 4
SPECIFICATION Spec
CHECK_DEADLOCK FALSE
INVARIANTS TypeOK PlateauIsReal StopsInTime SummaryAgrees FigureIsClose CpuMeasured
