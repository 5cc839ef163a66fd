SPECIFICATION FairSpec
CONSTANTS
  Keys = {k1, k2}
  Unusable = {k2}
  Requests = {r1, r2}
  None = None
  RefreshInterval = 1
  MaxAge = 3
  Timeout = 1
  MaxTime = 4
INVARIANTS VerifiesRecent UnknownIsNew
PROPERTY Judged
