SPECIFICATION Spec
CONSTANTS
  Blocks = {b1, b2}
  Regions = {r1, r2, r3}
  NULL = NULL
  Undefined = Undefined
  Dummy = Dummy
  WordLimit = 2
  Devices <- SomeDevices
  FreeWithToken = FALSE
SYMMETRY Symmetric
INVARIANTS TypeOK DispatchReady ReleasesDefined OneOwner NoDangling NoLeak SizeKept
