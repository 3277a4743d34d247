SPECIFICATION FairSpec
CONSTANTS
  Nil = Nil
  v1 = v1
  v2 = v2
  k1 = k1
  k2 = k2
  u1 = u1
  u2 = u2
  t1 = t1
  t2 = t2
  c1 = c1
  c2 = c2
  VM <- OneVM
  Key <- OneKey
  VMOf <- OneVMOneKey
  User <- TwoUsers
  Token <- TwoTokens
  Conn <- TwoConns
 
PROPERTY NoGoroutineLeft
