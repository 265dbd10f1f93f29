SPECIFICATION Spec
CONSTANTS
  Elements = {e1, e2}
  Contexts = {c1, c2}
  Failed = Failed
  NULL = NULL
SYMMETRY Symmetric
INVARIANTS TypeOK ContextOwnership OutcomeExplained WriterKnowsStore
PROPERTY CallsStore
