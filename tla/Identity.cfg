CONSTANTS
  i1 = i1  i2 = i2  p1 = p1  p2 = p2  p3 = p3
  Processes = {p1, p2, p3}
  Id <- MCId
  Holder <- MCHolder
  Nonces = {n1, n2}
  Copies = {c1, c2}
  Skews <- MCSkews
  ChallengeTTL = 2
  MaxClockSkew = 1
  MaxTime = 3
  NoNonce = NoNonce
  NoProcess = NoProcess
SPECIFICATION Spec
INVARIANTS NonceSpentOnce AcceptedFresh
PROPERTY OnlyOverlapRewinds
SYMMETRY Symmetry
\* The nonces are used up.
CHECK_DEADLOCK FALSE
