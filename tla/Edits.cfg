SPECIFICATION Spec
CONSTANTS
  Nil = Nil
  Admin = Admin
  RemotePortStart = 1
  FRPSConfigured = TRUE
  InitialVal = 0
  v1 = v1
  v2 = v2
  v3 = v3
  h1 = h1
  h2 = h2
  r1 = r1
  r2 = r2
  u1 = u1
  VM <- OneVM
  Host <- TwoHosts
  Req <- TwoRequests
  User <- OneUser
  Val = {0, 1}
  Events <- EditEvents
  Existing <- OneVM
  Ops <- EditOps
  MaxBacklog = 1
SYMMETRY Requests
INVARIANT TableMirrorsHosts
 
 
PROPERTY NoLostUpdate
PROPERTY ObjectSpec
