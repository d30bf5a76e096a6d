SPECIFICATION Spec
SYMMETRY MCSymmetry
CONSTANTS
  LastInstant = 1
  Time <- MCTime
  TicksPerMilli = 1
  ClockModel = "coarse"
  Keys = {k1}
  PutKeys = {}
  Ttl = 0
  Threads = {t1, t2, t3}
  MayThrow = TRUE
  CounterModulus = 1
  NoThread = NoThread
  NoFlight = NoFlight
INVARIANTS
  TypeOK
  SingleFlight
  NoOrphanedWait
  NoRedundantRun
PROPERTIES
  FailureIsNotSticky
  ImplementsMemo
