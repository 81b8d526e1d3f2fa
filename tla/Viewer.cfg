CONSTANTS
  Points = {a, b, c}
  NoPoint = NoPoint
SPECIFICATION ViewerSpec
INVARIANT TimeoutIsGenuine
PROPERTIES WaitEnds PointerArrives
\* The user leaves the page.
CHECK_DEADLOCK FALSE
