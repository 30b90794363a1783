SPECIFICATION Spec
CONSTANTS
  Parts = {"tasks", "planner", "kernels", "discovery", "placement"}
  MacroTileRows = 128
  RegisterTileRows = 4
  CacheLineFloats = 16
  ColumnTile = 256
  PackedNr = 16
  PackedKc = 256
  ColumnOnlyMinWork = 4000000
  TwoDimMinWork = 8000000
  MaxU64 = 100000000
  MaxBlasInt = 512
  MinWorkPerThread = 1000000
  BoundMinWork = 4096
  BoundMaxWork = 32768
  BoundMinRows = 4
INVARIANTS
  TaskPlanIsSound
  SelectionIsSound
  KernelComputesProduct
  PlacementIsLocal
CHECK_DEADLOCK FALSE
