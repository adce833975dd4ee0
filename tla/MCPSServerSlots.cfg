SPECIFICATION Spec
CONSTANTS
  c1 = c1
  c2 = c2
  c3 = c3
  Conns = {c1, c2, c3}
  Workers = {w1}
  NumPollThreads = 2
  Setups <- SlotsSetups
SYMMETRY Symmetric
INVARIANT OwnSocket
CHECK_DEADLOCK FALSE
