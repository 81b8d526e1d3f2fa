SPECIFICATION FairSpec
CONSTANTS
  Conns = {c1, c2}
  Frames = {f1, f2}
  MaxRestarts = 2
  MaxLosses = 1
  None = None
INVARIANTS OneRestart OnlyOverlapLeaks DisconnectMissesOnlyPending
PROPERTY LossResolved
