SPECIFICATION Spec
CONSTANTS
  Nil = Nil
  k1 = k1
  r1 = r1
  r2 = r2
  r3 = r3
  Client <- OneClient
  Req <- ThreeReqs
  Limit = 2
  Window = 2
  MaxDelay = 2
  MaxTime = 8
SYMMETRY Interchangeable
INVARIANT TypeOK
INVARIANT BurstBound
PROPERTY RefusedOnlyAtLimit
