SPECIFICATION FairSpec
CONSTANTS
  WorkerCount = 2
  MaxTasks = 3
  Callers = {c1, c2}
  NoOne = NoOne
  Failures = {"callback_failed", "resource_exhausted"}
  Jobs <- MCLiveJobs
  CallBudget = 1
PROPERTIES
  EveryCallReturns
CHECK_DEADLOCK FALSE
