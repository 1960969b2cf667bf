CONSTANTS
  MaxPort = 2
  Numbers = {1, 2}
  MaxItems = 1
  ForeignPorts = {1}
  DeniedPorts = {}
SPECIFICATION StartupSpec
CHECK_DEADLOCK FALSE
INVARIANT ServingIsListening
