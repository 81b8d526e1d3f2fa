CONSTANTS
  p1 = p1
  p2 = p2
  OfferIds = {i1, i2}
  PeerIds = {p1, p2}
  Grants = {g1}
  MaxRestarts = 1
  MaxPending <- MCPending
  NoId = NoId
  NoPeer = NoPeer
  NoGrant = NoGrant
SPECIFICATION FairSpec
INVARIANTS NoOrphanPeer StoppedClosesAll OnlyRaceLeaks
PROPERTIES LoopReturns LossClosesPeer
CHECK_DEADLOCK FALSE
