SPECIFICATION FairAuditSpec
CONSTANTS
  LastInstant = 1
  Time <- MCTime
  TicksPerMilli = 1
  ClockModel = "coarse"
  Keys = {k1}
  PutKeys = {k1}
  Ttl = 0
  Threads = {t1, t2}
  MayThrow = TRUE
  CounterModulus = 2
  NoThread = NoThread
  NoFlight = NoFlight
INVARIANTS
  MissesAccountedFor
PROPERTIES
  EveryCallReturns
  ImplementsMemo
