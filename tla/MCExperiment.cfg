SPECIFICATION FairSpec
CONSTANTS
  ExperimentId = 1
  NWorkers = 1
  MaxWorkers = 2
  MaxGenerations = 2
  MaxRetries = 1
  MaxRuns = 2
PROPERTY FreshIds
PROPERTY KillEndsFleet
CHECK_DEADLOCK FALSE
