SPECIFICATION Spec
CONSTANTS
  Setups <- MCSetups
  Capacity = 6
  ReadyLimit = 2
  Lists <- MCLists
  NoList = none
INVARIANTS
  WholeLinesOnly
  AbortOnlyAtCut
  SemaphoreRight
PROPERTIES
  RingIsFifo
  MinibatchesKeepComing
CHECK_DEADLOCK FALSE
