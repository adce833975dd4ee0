SPECIFICATION Spec
CONSTANTS
  c1 = c1
  c2 = c2
  c3 = c3
  Conns = {c1, c2, c3}
  Workers = {w1, w2}
  NumPollThreads = 2
  Setups <- SafetySetups
SYMMETRY Symmetric
INVARIANTS
  RequestsExclusive
  OwnSocketWithRoom
  DescriptorsOwned
  OrderlyClientsAreSafe
PROPERTY
  PurgeKeepsConnections
CHECK_DEADLOCK FALSE
