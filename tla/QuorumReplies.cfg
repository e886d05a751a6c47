SPECIFICATION Spec
CONSTANTS
  Workers = {w1, w2}
  MaxRestarts = 0
  MaxSteps = 2
  MinReady = 1
  CheckpointInterval = 2
  FaultKinds = {}
  MaxFaults = 0
SYMMETRY WorkerSymmetry
INVARIANT NoWorkerFails
CHECK_DEADLOCK FALSE
