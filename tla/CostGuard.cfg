CONSTANTS
  Instance = {i1, i2, other}
  Tagged = {i1, i2}
  Runtime = 2
  MaxAge = 3
  Period = 2
  BootTime = 1
  MaxMissed = 1
SPECIFICATION Spec
INVARIANTS AgeBounded
PROPERTIES BackupOnly OnlyTagged KillEndsAll
