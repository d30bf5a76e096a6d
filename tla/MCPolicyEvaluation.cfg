SPECIFICATION Spec
CONSTANTS
  a = a
  b = b
  engineer = engineer
  intern = intern
  RoleNames <- MCRoleNames
  Principals <- MCPrincipals
  Targets <- MCTargets
  NoRole = NoRole
  Star = Star
  NotAString = NotAString
  Values <- MCValues
  Patterns <- MCPatterns
  Documents <- MCDocuments
  MaxStatements = 3
INVARIANTS
  TypeOK
  OrderIsIrrelevant
  RolesDecompose
