SPECIFICATION Spec
CONSTANTS
  Parts = {"graph"}
INVARIANTS
  FusedExecutesTheGraph
CHECK_DEADLOCK FALSE
