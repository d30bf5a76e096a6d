SPECIFICATION ServiceSpec
CONSTANTS
  LastInstant = 4
  engineer = engineer
  intern = intern
  target = target
  RoleNames <- MCRoleNames
  Principals <- MCPrincipals
  Targets <- MCTargets
  NoRole = NoRole
  Time <- MCTime
  TicksPerMilli = 1
  ClockModel = "ticking"
  Keys <- MCKeys
  PutKeys = {}
  Ttl = 1
  Threads = {t1, t2}
  MayThrow = FALSE
  CounterModulus = 1
  NoThread = NoThread
  NoFlight = NoFlight
  BucketSize = 2
  Levels = {"MinimizeLatency"}
  Addable <- RevokeAddable
  Assignable = {}
  SetupRoles <- RevokeSetup
  SetupAssigned <- InternAssigned
  SetupTime = 2
SYMMETRY MCSymmetry
INVARIANTS
  ReachableEntriesAreCurrent
  AnswersAreRecent
