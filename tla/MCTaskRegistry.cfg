SPECIFICATION FairSpec
CONSTANTS
  i1 = i1
  i2 = i2
  i3 = i3
  Tasks = {1, 2}
  Invocations <- MCInvocations
  TaskOf <- MCTaskOf
  MaxLife = 1
  Life <- MCLife
  Started <- MCStarted
  Threshold = 1
  Modulus = 2
INVARIANT TypeOK
INVARIANT OneWorkerPerTask
INVARIANT RunningIsActive
PROPERTY ImplementsLifecycle
PROPERTY TasksDie
