CONSTANTS
  Clients = {c1}
  Dispatcher = D
  Events = {e1, e2}
  MaxHandlers = 2
  QueueDepth = 1
  NoThread = NoThread
  NoEntry = NoEntry
  NoMessage = NoMessage
  MaxPublish = 3
  MaxSubscribe = 3
SPECIFICATION FairSpec
INVARIANTS
  LockDiscipline
  RanInOrder
  SubscribersCalled
PROPERTIES
  EveryMessageDispatched
  SubscribeReturns
