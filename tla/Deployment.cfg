SPECIFICATION Spec
CONSTANTS
  Workers = {w1, w2}
  ReadyTimeout = 1
  MaxRetries = 2
  MaxSteps = 1
  Delays = {1}
  Browsers = {b1, b2}
  QueueSize = 1
INVARIANT TypeOK
INVARIANT SlowStartIsWaitedFor
INVARIANT NothingMissed
INVARIANT DeploymentInv
PROPERTY LauncherEnds
CHECK_DEADLOCK FALSE
