CONSTANTS
  StreamIds = {1}
  Streams = {o1}
  MaxStreams = 1
SPECIFICATION StreamsSpec
INVARIANT CancelledStreamsEnd
CHECK_DEADLOCK FALSE
