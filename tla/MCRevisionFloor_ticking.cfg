SPECIFICATION Spec
SYMMETRY MCWriterSymmetry
CONSTANTS
  LastInstant = 5
  c1 = c1
  c2 = c2
  w1 = w1
  w2 = w2
  Time <- MCTime
  TicksPerMilli = 1
  ClockModel = "ticking"
  Checkers = {c1}
  Writers <- MCWriters
  BucketSize = 3
INVARIANTS
  TypeOK
  RetiredKeysUnreachable
