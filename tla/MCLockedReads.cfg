SPECIFICATION ReadsSpec
\* The demonstration programs end.
CHECK_DEADLOCK FALSE
CONSTANTS
  base = base
  left = left
  lead = lead
  RoleNames <- MCRoleNames
  Principals = {alice}
  Targets <- MCTargets
  NoRole = NoRole
  Walkers = {w1}
  Lists <- MCLists
  MaxAssigned = 2
  MaxWakeups = 3
  MaxChecks = 3
  Readers = {r1, r2}
  Addresses = {a1, a2, a3, a4}
  NoAddress = NoAddress
  Width = 3
  Passes = 2
  MaxPuts = 4
INVARIANTS
  TypeOK
  AnswerIsClosure
  ReportedOnce
  HandoverTypeOK
  BugAlwaysReproduced
  FixNeverViolated
  EscapeTypeOK
  ObjectsLiveAsLongAsHeld
  SnapshotsAreWhole
PROPERTIES
  EveryWalkReturns
  HandoverEnds
