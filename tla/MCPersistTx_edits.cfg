SPECIFICATION Spec
CONSTANTS
  t1 = t1
  t2 = t2
  Tx = {t1, t2}
  Files = {1, 2}
  FilesOf <- AllFiles
  Root <- OneRoot
  MaxFaults = 1
  MaxCrashes = 2
  MaxEdits = 2
  Overlap = FALSE
  RacingEdits = FALSE
  LookupFails = TRUE
INVARIANTS BackupIsSnapshot NoPartialLive
PROPERTIES EditsSurvive
CHECK_DEADLOCK FALSE
