SPECIFICATION Spec
CONSTANTS
  Long = TRUE
INVARIANT
  CleansUp
