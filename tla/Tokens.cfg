SPECIFICATION Spec
CONSTANTS
  h1 = h1
  h2 = h2
  c1 = c1
  c2 = c2
  k1 = k1
  k2 = k2
  n1 = n1
  n2 = n2
  u1 = u1
  u2 = u2
  Thread <- MCThread
  Code <- MCCode
  Token <- MCToken
  Name <- MCName
  User <- MCUser
  DefaultUser <- MCDefaultUser
  InviteTtl <- MCInviteTtl
  TokenTtl <- MCTokenTtl
  Interval = 2
  MaxTime = 3
  MaxAsks = 5
SYMMETRY TokensSymmetry
CHECK_DEADLOCK FALSE
INVARIANTS OneLivePerName ClaimedOnce SpentOnSomething RevokedFirst SeenLately NamespaceIsOwn
