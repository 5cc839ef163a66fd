CONSTANTS
  Names = {a, b}
  Streams = {s1}
  None = None
  Buffer = 2
  StartStates = {"none", "running", "deleting"}
  MaxChanges = 2
  MaxFaults = 1
SPECIFICATION FairSpec
INVARIANTS TypeOK DeletesOnlyGone SendsChanges
PROPERTIES Converges TasksEnd
