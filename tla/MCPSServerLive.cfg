SPECIFICATION FairSpec
CONSTANTS
  c1 = c1
  c2 = c2
  c3 = c3
  Conns = {c1, c2}
  Workers = {w1}
  NumPollThreads = 2
  Setups <- LiveSetups
PROPERTIES
  RequestsAnswered
  ConnectionsReleased
CHECK_DEADLOCK FALSE
