SPECIFICATION Spec
CONSTANTS
  Nil = Nil
  h1 = h1
  h2 = h2
  e1 = e1
  bad = bad
  r1 = r1
  r2 = r2
  Host <- TwoHosts
  Endpoint <- EndAndBad
  Unusable <- BadEnd
  Req <- TwoReqs
  Existing <- OneHost
  Ops <- Op
  Asks <- NoStatus
  Events <- Faults
SYMMETRY Interchangeable
INVARIANT TypeOK
INVARIANT CacheFollowsTable
INVARIANT CallsRegisteredEndpoint
PROPERTY DeletedStaysDeleted
