SPECIFICATION FairSpec
CONSTANTS
  ReadAhead = 1
  ReadyThreshold = 1
  NMinibatches = 2
  Capacity = 5
  LeftId = 1
  RightId = 3
  Versions = 6
INVARIANT TypeOK
INVARIANT RingHasRoom
INVARIANT CountsAgree
INVARIANT StringsOwned
PROPERTY DeliveredInOrder
PROPERTY GetNextReturns
