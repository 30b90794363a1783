CONSTANTS
  Cells = {1, 2, 3}
  Resources <- MCResources
  Views <- MCViews
  ShapeParams = {"s"}
  MaxIndex = 10
  MaxExtent = 4
  Programs <- MCPrograms
  Candidates = {"native_strict", "generated_strict", "generated_reassociate", "generated_gpu"}
  ShapeArguments = {0, 1, 2, 11}
  Gpu <- MCGpu
  EntryBudget = 2
  TakeBudget = 2
SPECIFICATION Spec
INVARIANT SessionIsSound
PROPERTIES ImplementsSource VerdictIsFinal
CHECK_DEADLOCK FALSE
