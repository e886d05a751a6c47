SPECIFICATION Spec
CONSTANTS
  Threads = {t1, t2}
  NumParams = 2
  LoadCheckpoint = TRUE
  MaxStep = 3
  MaxKills = 2
SYMMETRY ThreadSymmetry
PROPERTY ResumesFromCheckpoint
CHECK_DEADLOCK FALSE
