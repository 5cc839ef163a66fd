SPECIFICATION Spec
CONSTANTS
  Keys = {k1}
  Unusable = {}
  Requests = {r1, r2}
  None = None
  RefreshInterval = 1
  MaxAge = 3
  Timeout = 2
  MaxTime = 6
INVARIANT StopsInTime
