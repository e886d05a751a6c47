SPECIFICATION Spec
CONSTANTS
  Workers = {w1, w2}
  MaxRestarts = 0
  MaxSteps = 2
  MinReady = 1
  CheckpointInterval = 2
  FaultKinds = {"crash"}
  MaxFaults = 1
SYMMETRY WorkerSymmetry
INVARIANT CheckpointInv
INVARIANT CheckpointCadence
PROPERTY ImplementsRounds
PROPERTY CheckpointMonotone
CHECK_DEADLOCK FALSE
