SPECIFICATION Spec
CONSTANTS
  Threads = {t1, t2, t3}
  NumParams = 2
  LoadCheckpoint = TRUE
  MaxStep = 3
  MaxKills = 2
SYMMETRY ThreadSymmetry
INVARIANT StoreInv
INVARIANT FileConsistent
PROPERTY ImplementsAtomicStore
PROPERTY ResumesCleanly
CHECK_DEADLOCK FALSE
