CONSTANTS
  MaxItems = 2
  MaxDevices = 3
  Defaults <- MCDefaults
  Files <- MCFiles
  MaxHandlers = 2
  Polls = 2
  Extras <- MCExtras
  MaxStarts = 4
SPECIFICATION Spec
CHECK_DEADLOCK FALSE
INVARIANTS
  StartComplete
  StartedOnce
PROPERTIES
  PrefixApplied
  DevicesStay
