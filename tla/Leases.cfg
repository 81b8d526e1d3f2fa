CONSTANTS
  u1 = u1
  u2 = u2
  c1 = c1
  c2 = c2
  Users = {u1, u2}
  Services = {v1}
  Sessions = {s1}
  Calls = {c1, c2}
  IdleTTL = 2
  AbsoluteTTL = 3
  MaxTime = 3
  NoUser = NoUser
  NoSession = NoSession
SPECIFICATION Spec
INVARIANTS LeaseBounded TemporaryNeverPublic LogoutEndsTemporary
PROPERTY RevocationFinal
SYMMETRY MCSymmetry
