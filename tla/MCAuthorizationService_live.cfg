SPECIFICATION FairServiceSpec
CONSTANTS
  LastInstant = 2
  engineer = engineer
  intern = intern
  target = target
  RoleNames <- MCRoleNames
  Principals <- MCPrincipals
  Targets <- MCTargets
  NoRole = NoRole
  Time <- MCTime
  TicksPerMilli = 1
  ClockModel = "ticking"
  Keys <- MCKeys
  PutKeys = {}
  Ttl = 1
  Threads = {t1, t2}
  MayThrow = TRUE
  CounterModulus = 1
  NoThread = NoThread
  NoFlight = NoFlight
  BucketSize = 2
  Levels = {"MinimizeLatency"}
  Addable <- NothingAddable
  Assignable <- AssignAssignable
  SetupRoles <- AssignSetup
  SetupAssigned <- BothAssigned
  SetupTime = 2
PROPERTIES
  EveryCheckReturns
