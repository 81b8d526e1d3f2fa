CONSTANTS
  a1 = a1  u1 = u1  u2 = u2
  NoId = NoId  Pending = Pending  Malformed = Malformed
  Ids = {i1, i2}
  Agents = {a1}
  Users = {u1, u2}
  Grants <- MCForeign
  Results = {ok, failed}
  Creators = {c1}
  Polls = {p1, p2}
  SessionTTL = 1
  MaxTime = 1
SPECIFICATION FairSpec
INVARIANTS RestartKeepsGrant NoLostWakeup
PROPERTIES ImplementsLifecycle OfferTaken
