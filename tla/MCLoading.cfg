SPECIFICATION LoadSpec
CONSTANTS
  Files <- MCFiles
  NWorkers = 1
  NThreads = 3
  Setups <- MCSetups
  Jobs <- MCJobs
  Ratings <- MCRatings
  Columns <- MCColumns
  BatchSize = 2
  ReadAtATime = 1
  Rows = 2
  BiasHash = 9
INVARIANTS
  VerdictSound
  SamplesKeepLabels
  FewLinesLost
  CsvWholeBatches
  RowsOfUsers
  ObjectsDecode
PROPERTIES
  LoadTerminates
