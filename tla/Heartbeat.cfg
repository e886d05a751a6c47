SPECIFICATION Spec
CONSTANTS
  Workers = {w1, w2}
  CheckInterval = 1
  Timeout = 3
  HeartbeatInterval = 1
  MaxIteration = 2
  Slack = 1
  MaxLinger = 1
  MaxTime = 12
SYMMETRY WorkerSymmetry
INVARIANT MonitorInv
INVARIANT DeadOnlyIfStruck
INVARIANT SilenceIsNoticed
PROPERTY NoEarlyDeath
CHECK_DEADLOCK FALSE
