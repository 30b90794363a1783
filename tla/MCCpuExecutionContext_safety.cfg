SPECIFICATION Spec
CONSTANTS
  WorkerCount = 2
  MaxTasks = 3
  Callers = {c1, c2}
  NoOne = NoOne
  Failures = {"callback_failed", "resource_exhausted"}
  Jobs <- MCJobs
  CallBudget = 2
INVARIANTS
  TypeOK
  BorrowedSubmissionAlive
  PreflightBarrier
  TasksRunExactlyOnce
  ReportedStatusIsDeterministic
  NoThreadLeftBehind
PROPERTIES
  StopIsFinal
  ImplementsSerialSubmissions
CHECK_DEADLOCK FALSE
