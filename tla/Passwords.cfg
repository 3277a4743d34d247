SPECIFICATION Spec
CONSTANTS
  Nil = Nil
  NoReader = NoReader
  root = root
  p0 = p0
  p1 = p1
  r1 = r1
  r2 = r2
  Account <- OneAccount
  Password <- TwoPasswords
  Req <- TwoRequests
  PageSize = 2
  MaxLog = 5
SYMMETRY Interchangeable
INVARIANT TypeOK
 
INVARIANT AuditComplete
