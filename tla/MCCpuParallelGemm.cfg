SPECIFICATION Spec
CONSTANTS
  MacroTileRows = 4
  RegisterTileRows = 2
  CacheLineFloats = 4
  ColumnTile = 4
  PackedNr = 2
  PackedKc = 2
  ColumnOnlyMinWork = 24
  TwoDimMinWork = 60
  WorkerCount = 3
  Callers = {c1, c2}
  NoOne = NoOne
  Requests <- MCRequests
  CallBudget = 1
INVARIANTS
  MemoryIsOrdered
  ReturnIsTrue
CHECK_DEADLOCK FALSE
