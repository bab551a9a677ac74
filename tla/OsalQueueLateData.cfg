CONSTANTS
  Threads = {t1, t2}
  Items = {a}
  Depth = 1
  NoItem = NoItem
  TimeoutAbsorbsSignal = FALSE
SPECIFICATION FairSpec
PROPERTY TimeoutOnlyWhenBlocked
