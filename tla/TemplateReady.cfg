CONSTANTS
  Ensures = {e1, e2}
  Polls = 2
  MaxBuilds = 3
  MaxFaults = 2
SPECIFICATION FairSpec
INVARIANT FailsAnew
PROPERTIES Rebuilds EnsuresEnd
