SPECIFICATION Spec
CONSTANTS
  NoFile = NoFile
  Paths = {1, 2}
  Names = {"a", "b"}
  TextsOf <- TwoFiles
  Edits <- OneEdit
  Disks <- OneDisk
  MaxRequests = 4
  MaxSaves = 2
  MaxPanics = 1
INVARIANTS TypeOK PreviewIsWhatApplies ClientTextsWin NothingHalfServed
CHECK_DEADLOCK FALSE
