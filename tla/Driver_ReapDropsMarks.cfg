CONSTANTS
  Names = {a}
  Calls = {c1, c2}
  Again = {}
  None = None
  Templates = {tm}
  HasPolicy = FALSE
  MaxUid = 1
  MaxFaults = 1
SPECIFICATION Spec
PROPERTIES ReapDropsMarks
