SPECIFICATION Spec
CONSTANTS
  Sessions = {s1, s2}
  Regions = {r1, r2, r3}
  NULL = NULL
  InMallocMayFail = TRUE
  Faults = {}
  MaxLost = 0
INVARIANT FreesOwnLiveBuffer
