SPECIFICATION SharedSpec
CONSTANTS
  Parts = {"nested", "adapter", "requests", "versions", "cache", "hosts", "pool", "openblas", "ownership", "admission", "plan"}
  t1 = t1
  t2 = t2
  None = None
  NoFrame = NoFrame
  Contexts = {1, 2}
  Callers = {t1, t2}
  WorkerCount <- TwoWorkers
  MaySubmit <- Ordered
  ValueHandles = {v1, v2}
  BlockHandles = {b1, b2}
  Storages = {s1, s2}
  Block = block
  Observed = {s1}
  Counts = {1, 2}
  HostThreads = 2
  Procs = 2
  Provider = {"good", "wrongResult", "ignoresCount", "losesCount", "changesControl"}
  Thread = {t1, t2}
  Requests = {"nvidia", "amd", "cpu"}
  Disabled = FALSE
  Usable = {"nvidia", "amd"}
  HipComplete = FALSE
  DeviceTensors = FALSE
  PipeCapacity = 2
  MaxOutput = 1
  MaxCalls = 2
INVARIANTS
  WorkBelongsToHolder
  FramesOutliveTheDevice
  RunsRequestedKernel
  OneHolder
  ProviderCallsAreIsolated
  OwnershipIsExact
  AdmissionIsSound
  ResultIsKernel
CHECK_DEADLOCK FALSE
