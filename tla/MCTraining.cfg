SPECIFICATION Spec
CONSTANTS
  Setups <- MCSetups
  NumFactors = 1
  GlobalBias = 0
  Rate = 1
  Reg = 1
  MagicNumber = 4919
  Dim = 2
  Epsilon = 1
  Threshold = 1
  S3Size = 2
  MiniBatch = 1
  MsgWords = 4
  Iters = 3
  Required = 3
INVARIANTS
  WeightsAreCurrent
  RowsMatchUsers
  ReportsHonest
  StopsOnlyForSizes
PROPERTIES
  UpdatesSerial
  GradientsExact
  GradientsApplied
CHECK_DEADLOCK FALSE
