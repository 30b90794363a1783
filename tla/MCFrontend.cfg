SPECIFICATION Spec
CONSTANTS
  Parts = {"capture", "device", "matmul", "elementwise", "fusion", "views", "graph", "region"}
INVARIANTS
  LaunchesComputeByPosition
  KernelComputesItsPlan
  RunsTheReturnedCall
CHECK_DEADLOCK FALSE
