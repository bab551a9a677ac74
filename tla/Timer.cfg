CONSTANTS
  Callers = {c1, c2}
  TimerIds = {x, y, z}
  Events = {e1}
  MaxTimers = 2
  ScanPeriod = 2
  Timeouts = {0, 1}
  NoTimer = NoTimer
  MaxTime = 3
  MaxArmings = 3
SPECIFICATION FairSpec
INVARIANTS
  OneEntryPerId
  Accounting
  NeverEarly
PROPERTIES
  SilencedForGood
  ArmedResolves
