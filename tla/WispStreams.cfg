CONSTANTS
  StreamIds = {1, 2}
  Streams = {o1, o2}
  MaxStreams = 1
SPECIFICATION StreamsFairSpec
INVARIANTS LiveIsListed NoLeakedConnection
PROPERTIES GoroutinesEnd ChannelCloseEndsAll
\* A closed channel stays closed.
CHECK_DEADLOCK FALSE
