SPECIFICATION Spec
CONSTANTS
  Workers = {w1, w2}
  MaxRestarts = 1
  MaxSteps = 1
  MinReady = 0
  CheckpointInterval = 1
  FaultKinds = {"crash", "expire", "disk"}
  MaxFaults = 1
SYMMETRY WorkerSymmetry
INVARIANT IInv
INVARIANT AliveIsServed
INVARIANT NothingLeftBehind
PROPERTY ImplementsRounds
CHECK_DEADLOCK FALSE
