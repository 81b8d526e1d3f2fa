CONSTANTS
  Loads = {l1, l2}
  Requests = {r1, r2}
  MaxAttempts = 2
  High = 1
  Low = 0
  NoLoad = NoLoad
SPECIFICATION TransportSpec
INVARIANTS FetchesInTurn OnlyOverlapMixes
PROPERTY RequestsAnswered
\* All loads and requests are over.
CHECK_DEADLOCK FALSE
