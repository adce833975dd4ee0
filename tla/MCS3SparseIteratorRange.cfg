SPECIFICATION Spec
CONSTANTS
  ReadAhead = 1
  ReadyThreshold = 2
  NMinibatches = 2
  Capacity = 6
  LeftId = 1
  RightId = 3
  Versions = 7
INVARIANT FetchesInRange
