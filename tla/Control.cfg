CONSTANTS
  Requests = {r1, r2, r3}
  Streams = {d1}
  Slots = 2
  MaxLabels = 4
  Found = {1, 20}
  None = None
SPECIFICATION Spec
INVARIANTS ProtocolAgreed OkMeansTarget
PROPERTIES TargetSetOnce RequestsSettle BusyEnds
CHECK_DEADLOCK FALSE
