SPECIFICATION Spec
CONSTANTS
  Nil = Nil
  u0 = u0
  u1 = u1
  p0 = p0
  p1 = p1
  c1 = c1
  c2 = c2
  User <- TwoUsers
  Root = u0
  Password <- TwoPasswords
  AdminPassword = p0
  Client <- TwoClients
  Expire = 1
  MaxDelay = 1
  MaxTime = 3
  Asked <- Changes
SYMMETRY Clients
INVARIANT TypeOK
INVARIANT AccessEnds
PROPERTY OnlyAdminsWrite
PROPERTY ChangesAreAsked
