SPECIFICATION MCSpec
CONSTANTS
  Parts = {"runtime", "validation", "benchmark"}
  MacroTileRows = 128
  RegisterTileRows = 4
  CacheLineFloats = 16
  ColumnTile = 256
  PackedNr = 16
  PackedKc = 256
  ColumnOnlyMinWork = 4000000
  TwoDimMinWork = 8000000
  MaxU64 = 2000000000
  MaxBlasInt = 1000
  MinWorkPerThread = 1000000
  BoundMinWork = 4096
  BoundMaxWork = 32768
  BoundMinRows = 4
  Threads = {1, 2}
  Problem <- AProblem
  HostFacts <- AllFacts
  ContextShapes <- OneShape
  Linked = TRUE
  ClientRequests = {"automatic", "packed2"}
  ClientDefects = {"workspaceAlias"}
  Matrix = {m1, m2}
  MaxVersion = 1
INVARIANTS
  RuntimeIsSound
  ValidationIsExact
  ReportedIsAuthenticated
CHECK_DEADLOCK FALSE
