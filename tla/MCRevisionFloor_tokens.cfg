SPECIFICATION Spec
SYMMETRY MCSymmetry
CONSTANTS
  LastInstant = 2
  c1 = c1
  c2 = c2
  w1 = w1
  w2 = w2
  Time <- MCTime
  TicksPerMilli = 1
  ClockModel = "ticking"
  Checkers <- MCCheckers
  Writers <- MCWriters
  BucketSize = 3
INVARIANTS
  NewerTokenIsPrivate
