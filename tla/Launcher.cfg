CONSTANTS
  MaxGeneration = 4
  MayFail = TRUE
SPECIFICATION FairSpec
INVARIANTS CurrentIsServed CurrentIsLaid FilesAreWhole
PROPERTIES OnlyNewer RunsLatest
CHECK_DEADLOCK FALSE
