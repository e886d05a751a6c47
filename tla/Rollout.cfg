SPECIFICATION Spec
CONSTANTS
  NumEnvs = 2
  StepLimit = 3
  RolloutLength = 3
  PpoEpochs = 2
  MinibatchSize = 4
  MaxSteps = 2
  WarmupSteps = 1
  Window = 1
  Shuffles <- MCShuffles
  Gamma = 2
  Lambda = 3
  Critic <- MCCritic
  HalfCosine <- MCHalfCosine
INVARIANT TypeOK
INVARIANT AdvantagesPerEnv
INVARIANT ReturnsAreEpisodes
INVARIANT EachSampleEachEpoch
INVARIANT RateInRange
CHECK_DEADLOCK FALSE
