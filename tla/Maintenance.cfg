SPECIFICATION Spec
CONSTANTS
  Nil = Nil
  h1 = h1
  h2 = h2
  e1 = e1
  bad = bad
  r1 = r1
  r2 = r2
  Host <- OneHost
  Endpoint <- OneEnd
  Unusable = {}
  Req <- TwoReqs
  Existing <- OneHost
  Ops = {"update"}
  Asks = {"maintenance"}
  Events = {}
SYMMETRY Interchangeable
PROPERTY MaintenanceIsKept
