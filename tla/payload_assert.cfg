SPECIFICATION Spec
CONSTANTS
  Elements = {e1}
  Contexts = {c1, c2}
  Failed = Failed
  NULL = NULL
INVARIANT PassthroughKeepsBuffer
