SPECIFICATION FairSpec
CONSTANTS
  Workers = {w1, w2}
  MaxRestarts = 0
  MaxSteps = 2
  MinReady = 0
  CheckpointInterval = 2
  FaultKinds = {"crash"}
  MaxFaults = 1
PROPERTY SurvivorsGoOn
CHECK_DEADLOCK FALSE
