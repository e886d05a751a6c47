SPECIFICATION FairSpec
CONSTANTS
  Workers = {w1, w2, w3}
  MaxRestarts = 0
  MaxSteps = 2
  MinReady = 0
  CheckpointInterval = 2
  FaultKinds = {}
  MaxFaults = 0
INVARIANT TypeOK
INVARIANT AckMeansApplied
INVARIANT NoLostGradient
INVARIANT NoWorkerFails
INVARIANT OneWriterPerSocket
INVARIANT RoundsOneByOne
INVARIANT QuietAtTheEnd
INVARIANT StaleByAtMostOne
PROPERTY TogetherAllFinish
CHECK_DEADLOCK FALSE
