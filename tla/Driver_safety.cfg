CONSTANTS
  Names = {a}
  Calls = {c1, c2}
  Again = {g1}
  None = None
  Templates = {tm1, tm2}
  HasPolicy = TRUE
  MaxUid = 2
  MaxFaults = 3
SPECIFICATION SafetySpec
SYMMETRY AllSymmetric
INVARIANTS IInv StopHolds StartHolds DeleteHolds
PROPERTIES SuspendsMarked OneRecord FailedStartStops ResumesEquipped ResumesOwnTemplate ReapsOrphansOnly
