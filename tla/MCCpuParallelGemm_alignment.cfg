SPECIFICATION Spec
CONSTANTS
  MacroTileRows = 128
  RegisterTileRows = 4
  CacheLineFloats = 16
  ColumnTile = 256
  PackedNr = 16
  PackedKc = 256
  ColumnOnlyMinWork = 8388608
  TwoDimMinWork = 33554432
  WorkerCount = 3
  Callers = {c1}
  NoOne = NoOne
  Requests <- MCCodeRequests
  CallBudget = 1
INVARIANTS
  AlignmentSettledBeforeSubmission
CHECK_DEADLOCK FALSE
