CONSTANTS
  Threads = {t1, t2, t3, t4}
  Items = {a, b}
  Depth = 2
  NoItem = NoItem
  TimeoutAbsorbsSignal = FALSE
SPECIFICATION Spec
INVARIANTS
  RingConsistent
  NoLostReceiver
  NoLostSender
PROPERTY
  ImplementsFifo
SYMMETRY ThreadSymmetry
