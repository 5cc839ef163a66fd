SPECIFICATION FairSpec
CONSTANTS
  n1 = n1
  n2 = n2
  Names = {n1, n2}
  Calls = {c1, c2}
  None = None
  Blank = Blank
  Pinned = {"pinned1", "pinned2"}
  Reserved = {"own"}
  MaxInt = 5000
  Creates <- MCCreates
  Starts <- MCStarts
  Gets <- MCGets
  Configs <- MCConfigs
  MaxFaults = 2
  MaxCalls = 2
CHECK_DEADLOCK FALSE
INVARIANTS TypeOK OneChannel LimitsExact SharesByInputs RetryFindsItsOwn
PROPERTY CallsAnswered
