CONSTANTS
  MaxPort = 3
  Numbers = {0, 1, 3, 4}
  MaxItems = 2
  ForeignPorts = {1, 3}
  DeniedPorts = {1}
SPECIFICATION StartupSpec
CHECK_DEADLOCK FALSE
INVARIANTS StartupTypeOK FatalForCause NeverFewer
