SPECIFICATION FairSpec
CONSTANTS
  t1 = t1
  t2 = t2
  Tx = {t1, t2}
  Files = {1, 2, 3}
  FilesOf <- AllFiles
  Root <- OneRoot
  MaxFaults = 2
  MaxCrashes = 2
  MaxEdits = 0
  Overlap = FALSE
  RacingEdits = FALSE
  LookupFails = FALSE
INVARIANTS NoBytesLost StraysAreFailures
PROPERTIES ResolvedAtomically ReturnTruthful RecoverTruthful ImplementsAtomicUpdate
  RecoveryCompletes EventuallyAnswered
CHECK_DEADLOCK FALSE
