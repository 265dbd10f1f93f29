SPECIFICATION Safety
CONSTANTS
  Threads = {t1, t2}
  NULL = NULL
  NoTimeout = NoTimeout
  Limits <- TimedOnly
  MaxDepth = 1
  Starters = {t1, t2}
  Builds <- PthreadOnly
INVARIANT AcquiredIsHeld
