SPECIFICATION Spec
CONSTANTS
  Threads = {t1, t2, t3}
  NULL = NULL
  NoTimeout = NoTimeout
  Limits <- AllLimits
  MaxDepth = 2
  Starters = {t1}
  Builds <- BothBuilds
INVARIANTS TypeOK LockBalanced TryBodyGuarded
PROPERTIES ImplementsLock ConstructorEnds TimedEnds
