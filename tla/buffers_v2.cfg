SPECIFICATION Spec
CONSTANTS
  Sessions = {s1, s2}
  Regions = {r1, r2, r3, r4}
  NULL = NULL
  InMallocMayFail = FALSE
  Faults <- AllFaults
  MaxLost = 1
SYMMETRY Symmetric
INVARIANTS TypeOK NoDangling Exclusive InputCopied NoLeak
PROPERTY ImplementsApi
