SPECIFICATION StoreSpec
CONSTANTS
  Names = {n1}
  Bundles = {b1, b2}
  Writers = {w1, w2}
  Removers = {r1}
  None = None
  Empty = Empty
  Mixed = Mixed
  Unknown = Unknown
  MaxFaults = 2
SYMMETRY Symmetric
CHECK_DEADLOCK FALSE
INVARIANTS Kept AlwaysReadable
PROPERTY TwoSteps
