CONSTANTS
  Threads = {t1, t2, t3}
  MaxCount = 7
  Initial = 1
  MaxPosts = 5
SPECIFICATION FairSpec
INVARIANTS
  UnitsConserved
  NoLostWakeup
PROPERTY
  WaitReturns
