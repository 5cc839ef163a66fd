CONSTANTS
  MaxGeneration = 2
  MayFail = FALSE
SPECIFICATION Spec
PROPERTIES StartsOnItsOwn
CHECK_DEADLOCK FALSE
