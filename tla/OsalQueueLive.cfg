CONSTANTS
  Threads = {t1, t2}
  Items = {a}
  Depth = 1
  NoItem = NoItem
  TimeoutAbsorbsSignal = TRUE
SPECIFICATION FairSpec
PROPERTIES
  EveryCallReturns
  ImplementsFairFifo
