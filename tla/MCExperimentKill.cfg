SPECIFICATION Spec
CONSTANTS
  ExperimentId = 1
  NWorkers = 2
  MaxWorkers = 2
  MaxGenerations = 2
  MaxRetries = 1
  MaxRuns = 1
INVARIANT ServerStopped
CHECK_DEADLOCK FALSE
