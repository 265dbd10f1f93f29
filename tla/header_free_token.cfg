SPECIFICATION Spec
CONSTANTS
  Blocks = {b1}
  Regions = {r1, r2}
  NULL = NULL
  Undefined = Undefined
  Dummy = Dummy
  WordLimit = 2
  Devices <- SomeDevices
  FreeWithToken = TRUE
INVARIANT NoLeak
