CONSTANTS
  Names = {a}
  Calls = {c1}
  Again = {g1}
  None = None
  Templates = {tm}
  HasPolicy = TRUE
  MaxUid = 1
  MaxFaults = 2
SPECIFICATION FairSpec
PROPERTIES StoppedGoesDown CallsEnd
