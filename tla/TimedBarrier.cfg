SPECIFICATION Spec
CONSTANTS
  Workers = {w1, w2, w3}
  CheckInterval = 2
  Timeout = 6
  HeartbeatInterval = 2
  Slack = 1
  MaxTime = 16
  MaxCompute = 1
  JoinWithin = 3
  MinReadies = {0, 3}
INVARIANT NoStrayAck
INVARIANT NeverAllWaiting
INVARIANT BarrierInv
PROPERTY IterationsBounded
CHECK_DEADLOCK FALSE
