CONSTANTS
  Clients = {main, scan}
  Dispatcher = D
  Events = {e1}
  MaxHandlers = 1
  QueueDepth = 1
  NoThread = NoThread
  NoEntry = NoEntry
  NoMessage = NoMessage
  MaxPublish = 3
  MaxSubscribe = 1
  Callers = {main, D}
  TimerIds = {x}
  MaxTimers = 1
  ScanPeriod = 1
  Timeouts = {1}
  NoTimer = NoTimer
  MaxTime = 2
  MaxArmings = 2
  Scanner = scan
SPECIFICATION FairSpec
INVARIANTS
  ExpiriesFaithful
PROPERTIES
  DroppedOnlyWhenFull
  TimerReachesHandlers
