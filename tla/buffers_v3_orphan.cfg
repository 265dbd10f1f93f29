SPECIFICATION Spec
CONSTANTS
  Sessions = {s1, s2}
  Regions = {r1, r2, r3}
  NULL = NULL
  MaxLost = 3
  Faults = {}
  DataOut <- MayDiscard
INVARIANT NoLeak
