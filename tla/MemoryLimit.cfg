CONSTANTS
  Max = 18
  High = 16
  Target = 12
  Floor = 2
  Share = 6
  Growth = 1
  Gap = 1
SPECIFICATION Spec
INVARIANTS GarbageFirst
