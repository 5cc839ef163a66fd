SPECIFICATION FairSpec
CONSTANTS
  n1 = n1
  l1 = l1
  l2 = l2
  Names = {n1}
  b1 = b1
  b2 = b2
  b3 = b3
  Bundles = {b1, b2, b3}
  Writers = {w1}
  Removers = {}
  Launchers = {l1, l2}
  Sandbox <- MCSandbox
  Uid <- MCUid
  For <- MCFor
  Generation <- MCGeneration
  None = None
  Empty = Empty
  Mixed = Mixed
  Unknown = Unknown
  MaxFaults = 1
INVARIANTS NoLostWakeup OwnIncarnation
PROPERTY Delivered
