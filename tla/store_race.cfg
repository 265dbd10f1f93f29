SPECIFICATION Spec
CONSTANTS
  Threads = {t1, t2}
  mode = mode
  level = level
  Names = {mode, level}
  Values = {1, 2}
  InitialStore <- AllOnes
  Tables <- SomeTables
  MaxEntries = 2
  Requests <- SomeRequests
  Failed = Failed
  NULL = NULL
INVARIANT CallsReturn
CHECK_DEADLOCK FALSE
