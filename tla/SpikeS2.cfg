SPECIFICATION Spec
CONSTANTS
  Long = TRUE
INVARIANTS
  ReportTrue
  LeftoversConfined
