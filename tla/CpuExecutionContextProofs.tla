----------------------- MODULE CpuExecutionContextProofs -----------------------
(***************************************************************************)
(* Proofs about CpuExecutionContext for every number of workers, callers,  *)
(* tasks and jobs: first the threads, the mutex and the pointer they share, *)
(* then what the workers do with a submission (the barrier, the tasks that  *)
(* run, the status that is reported) and the promise of SerialSubmissions.  *)
(***************************************************************************)
EXTENDS CpuExecutionContext, FiniteSetTheorems, WellFoundedInduction, TLAPS

-----------------------------------------------------------------------------
(* The inductive invariant                                                 *)

\* The program points at which a worker holds a submission, at which a caller
\* holds submission_mutex, and at which its submission is published.
Busy    == {"preflight", "arrive", "barrier", "tasks", "stopNotify", "blocked",
            "finish"}
Holding == {"publish", "notify", "await", "count", "collect", "shutdownStop",
            "shutdownNotify", "join"}
Serving == {"notify", "await"}
InRun   == {"lock", "publish", "notify", "await", "count", "collect"}

\* The submission mutex is held by the caller whose program point says so.
MutexInv == \A c \in Callers : (submissionMutex = c) <=> (cpc[c] \in Holding)

\* The published pointer is to the submission of the caller that waits.
PointerInv == \A c \in Callers : (submission = c) <=> (cpc[c] \in Serving)

\* A job that got past the early returns is well formed.
JobInv == \A c \in Callers : cpc[c] \in InRun => Rejection(job[c]) = "none"

\* A worker is busy with the published submission of the current epoch or
\* with none, and never ahead of the epoch.
BusyInv ==
  \A w \in Worker :
    /\ (wpc[w] \in Busy) <=> (current[w] # NoOne)
    /\ current[w] # NoOne => /\ submission = current[w]
                             /\ w < job[submission].active
                             /\ observed[w] = epoch
    /\ observed[w] <= epoch

\* The active workers that are through with the published submission.
Done == {w \in Worker : /\ w < job[submission].active
                        /\ observed[w] = epoch /\ current[w] = NoOne}

\* completed_workers counts exactly them.
CountInv ==
  submission # NoOne => completedWorkers[submission] = Cardinality(Done)

\* Which threads exist, by the progress of create() and of shutdown().
ThreadInv ==
  /\ phase = "spawn" => workers < WorkerCount
  /\ phase \in {"startup", "ready"} =>
       \/ workers = WorkerCount
       \/ phase = "ready" /\ workers = 0 /\ \A w \in Worker : wpc[w] = "exited"
  /\ phase # "ready" =>
       /\ \A c \in Callers : cpc[c] = "idle" /\ ret[c] # "shut_down"
       /\ \A w \in Worker : (wpc[w] = "unborn") <=> (w >= workers)
  /\ phase = "failed" => \A w \in Worker : wpc[w] \in {"unborn", "exited"}
  /\ phase = "ready" => \A w \in Worker : wpc[w] # "unborn"
  /\ \A c \in Callers : ret[c] = "shut_down" => phase = "ready" /\ workers = 0

IInv == /\ TypeOK /\ MutexInv /\ PointerInv /\ JobInv /\ BusyInv /\ CountInv
        /\ ThreadInv

-----------------------------------------------------------------------------
(* Type correctness                                                        *)

\* A busy worker's submission is a caller's.
LEMMA BusyCaller ==
  ASSUME IInv, NEW w \in Worker, wpc[w] \in Busy
  PROVE  current[w] \in Callers /\ job[current[w]] \in Job
  BY ConstantsAssumption DEF IInv, BusyInv, TypeOK, WorkerTypeOK, CallerTypeOK

\* Type correctness of taking a submission.
LEMMA PickUpTypeOK ==
  ASSUME IInv, NEW w \in Worker, PickUp(w)
  PROVE  TypeOK'
  <1>1. WorkerTypeOK'
    <2>1. w \in Nat BY ConstantsAssumption DEF Worker
    <2>2. observed' \in [Worker -> Nat]
      BY DEF IInv, TypeOK, WorkerTypeOK, SharedTypeOK, PickUp
    <2>3. /\ current' \in [Worker -> Callers \cup {NoOne}]
          /\ nextTask' \in [Worker -> Nat]
      BY <2>1 DEF IInv, TypeOK, WorkerTypeOK, SharedTypeOK, PickUp
    <2>4. wpc' \in [Worker -> WorkerPC]
      BY DEF IInv, TypeOK, WorkerTypeOK, PickUp, WorkerPC
    <2> QED BY <2>2, <2>3, <2>4 DEF IInv, TypeOK, WorkerTypeOK, PickUp
  <1> QED BY <1>1 DEF IInv, TypeOK, CreateTypeOK, SharedTypeOK, CallerTypeOK,
        SubmissionTypeOK, HistoryTypeOK, PickUp, createVars, callVars, subVars, sharedVars, history

\* Type correctness of the preflight callback.
LEMMA RunPreflightTypeOK ==
  ASSUME IInv, NEW w \in Worker, RunPreflight(w)
  PROVE  TypeOK'
  <1>1. HistoryTypeOK'
    BY BusyCaller DEF IInv, TypeOK, HistoryTypeOK, RunPreflight, Busy
  <1>2. WorkerTypeOK' BY DEF IInv, TypeOK, WorkerTypeOK, RunPreflight, WorkerPC
  <1> QED BY <1>1, <1>2 DEF IInv, TypeOK, CreateTypeOK, SharedTypeOK, CallerTypeOK,
        SubmissionTypeOK, RunPreflight, createVars, callVars, subVars, sharedVars

\* Type correctness of arriving at the barrier.
LEMMA ArriveTypeOK ==
  ASSUME IInv, NEW w \in Worker, Arrive(w)
  PROVE  TypeOK'
  <1>0. current[w] \in Callers /\ job[current[w]].pre[w] \in Status /\ 0 \in 0..NoTask
    BY BusyCaller, ConstantsAssumption DEF Arrive, Busy, Job, NoTask
  <1>1. SubmissionTypeOK'
    BY <1>0 DEF IInv, TypeOK, SubmissionTypeOK, Arrive
  <1>2. WorkerTypeOK'
    <2>1. results' \in [Worker -> [status: Status, task: 0 .. NoTask]]
      BY <1>0 DEF IInv, TypeOK, WorkerTypeOK, Arrive
    <2>2. wpc' \in [Worker -> WorkerPC] /\ asleep' \subseteq Worker
      BY DEF IInv, TypeOK, WorkerTypeOK, Arrive, WorkerPC, AfterBarrier, WaitsAtBarrier
    <2> QED BY <2>1, <2>2 DEF IInv, TypeOK, WorkerTypeOK, Arrive
  <1> QED BY <1>1, <1>2 DEF IInv, TypeOK, CreateTypeOK, SharedTypeOK, CallerTypeOK,
        HistoryTypeOK, Arrive, createVars, callVars, sharedVars, history

\* Type correctness of a task callback.
LEMMA RunTaskTypeOK ==
  ASSUME IInv, NEW w \in Worker, RunTask(w)
  PROVE  TypeOK'
  <1>0. /\ current[w] \in Callers /\ nextTask[w] \in Task
        /\ nextTask[w] \in 0 .. NoTask
        /\ nextTask[w] + Stride(job[current[w]]) \in Nat
    <2>1. /\ wpc[w] \in Busy
          /\ nextTask[w] < job[current[w]].tasks
          /\ nextTask[w] \in Nat
      BY DEF RunTask, Busy, IInv, TypeOK, WorkerTypeOK
    <2>2. current[w] \in Callers /\ job[current[w]] \in Job
      BY <2>1, BusyCaller
    <2>3. job[current[w]].tasks \in 0 .. MaxTasks /\ job[current[w]].active \in Nat
      BY <2>2, ConstantsAssumption DEF Job
    <2> QED BY <2>1, <2>2, <2>3, ConstantsAssumption DEF NoTask, Task, Stride
  <1>1. HistoryTypeOK'
    BY <1>0 DEF IInv, TypeOK, HistoryTypeOK, RunTask
  <1>2. SharedTypeOK' BY DEF IInv, TypeOK, SharedTypeOK, RunTask
  <1>3. WorkerTypeOK'
    <2>1. results' \in [Worker -> [status: Status, task: 0 .. NoTask]]
      BY <1>0 DEF IInv, TypeOK, WorkerTypeOK, RunTask, Status
    <2>2. wpc' \in [Worker -> WorkerPC]
      BY DEF IInv, TypeOK, WorkerTypeOK, RunTask, WorkerPC
    <2>3. nextTask' \in [Worker -> Nat]
      BY <1>0 DEF IInv, TypeOK, WorkerTypeOK, RunTask
    <2> QED BY <2>1, <2>2, <2>3 DEF IInv, TypeOK, WorkerTypeOK, RunTask
  <1> QED BY <1>1, <1>2, <1>3 DEF IInv, TypeOK, CreateTypeOK, CallerTypeOK,
        SubmissionTypeOK, RunTask, createVars, callVars, subVars

\* Type correctness of completing a submission.
LEMMA FinishTypeOK ==
  ASSUME IInv, NEW w \in Worker, Finish(w)
  PROVE  TypeOK'
  <1>1. SubmissionTypeOK' BY BusyCaller DEF IInv, TypeOK, SubmissionTypeOK, Finish, Busy
  <1>2. WorkerTypeOK' BY DEF IInv, TypeOK, WorkerTypeOK, Finish, WorkerPC
  <1>3. CallerTypeOK' BY DEF IInv, TypeOK, CallerTypeOK, Finish
  <1> QED BY <1>1, <1>2, <1>3 DEF IInv, TypeOK, CreateTypeOK, SharedTypeOK,
        HistoryTypeOK, Finish, createVars, sharedVars, history

\* The other steps of a worker.
LEMMA WorkerTypeCorrect ==
  ASSUME IInv, NEW w \in Worker, WorkerStep(w)
  PROVE  TypeOK'
  <1>1. CASE Initialize(w)
    BY <1>1 DEF IInv, Initialize, WorkerPC, Affinity, workerVars, subVars,
        callVars, sharedVars, history, TypeOK, CreateTypeOK, SharedTypeOK, WorkerTypeOK, CallerTypeOK,
        SubmissionTypeOK, HistoryTypeOK
  <1>2. CASE Announce(w)
    BY <1>2 DEF IInv, Announce, WorkerPC, subVars, callVars, sharedVars,
        history, TypeOK, CreateTypeOK, SharedTypeOK, WorkerTypeOK, CallerTypeOK,
        SubmissionTypeOK, HistoryTypeOK
  <1>3. CASE Sleep(w) \/ Exit(w) \/ StopNotify(w) \/ TasksDone(w)
    BY <1>3 DEF IInv, Sleep, Exit, StopNotify, TasksDone, WorkerPC,
        WaitsForWork, createVars, subVars, callVars, sharedVars, history, TypeOK, CreateTypeOK, SharedTypeOK, WorkerTypeOK, CallerTypeOK,
        SubmissionTypeOK, HistoryTypeOK
  <1>4. CASE LeaveBarrier(w)
    BY <1>4 DEF IInv, LeaveBarrier, AfterBarrier, WorkerPC, createVars,
        subVars, callVars, sharedVars, history, TypeOK, CreateTypeOK, SharedTypeOK, WorkerTypeOK, CallerTypeOK,
        SubmissionTypeOK, HistoryTypeOK
  <1> QED
    BY <1>1, <1>2, <1>3, <1>4, PickUpTypeOK, RunPreflightTypeOK, ArriveTypeOK,
       RunTaskTypeOK, FinishTypeOK DEF WorkerStep

\* Type correctness of create().
LEMMA CreateTypeCorrect == ASSUME IInv, Create PROVE TypeOK'
  <1>1. CASE Spawn
    <2>1. workers \in Worker /\ workers + 1 \in 0 .. WorkerCount
      BY <1>1, ConstantsAssumption
      DEF IInv, ThreadInv, Spawn, TypeOK, CreateTypeOK, Worker
    <2> QED
      BY <1>1, <2>1 DEF IInv, Spawn, Phase, WorkerPC, subVars, callVars,
          sharedVars, history, TypeOK, CreateTypeOK, SharedTypeOK, WorkerTypeOK, CallerTypeOK,
        SubmissionTypeOK, HistoryTypeOK
  <1>2. CASE SpawnFails \/ AwaitStartup \/ AbortJoin
    BY <1>2 DEF IInv, SpawnFails, AwaitStartup, AbortJoin, AffinityStatus,
        Phase, CreateStatus, workerVars, subVars, callVars, sharedVars,
        history, TypeOK, CreateTypeOK, SharedTypeOK, WorkerTypeOK, CallerTypeOK,
        SubmissionTypeOK, HistoryTypeOK
  <1>3. CASE AbortStop \/ AbortNotify
    BY <1>3 DEF IInv, AbortStop, AbortNotify, WaitsForWork, Phase, workerVars,
        subVars, callVars, sharedVars, history, TypeOK, CreateTypeOK, SharedTypeOK, WorkerTypeOK, CallerTypeOK,
        SubmissionTypeOK, HistoryTypeOK
  <1> QED BY <1>1, <1>2, <1>3 DEF Create

\* Type correctness of the calls.
LEMMA CallerTypeCorrect ==
  ASSUME IInv, NEW c \in Callers, CallerStep(c) \/ Shutdown(c)
  PROVE  TypeOK'
  <1>1. CASE Lock(c)
    BY <1>1 DEF IInv, Lock, CallerPC, createVars, workerVars, subVars,
        sharedVars, history, TypeOK, CreateTypeOK, SharedTypeOK, WorkerTypeOK, CallerTypeOK,
        SubmissionTypeOK, HistoryTypeOK
  <1>9. CASE Count(c)
    BY <1>9 DEF IInv, Count, CallerPC, createVars, workerVars, subVars,
        sharedVars, history, TypeOK, CreateTypeOK, SharedTypeOK, WorkerTypeOK, CallerTypeOK,
        SubmissionTypeOK, HistoryTypeOK
  <1>8. CASE NotifyWork(c)
    BY <1>8 DEF IInv, NotifyWork, WaitsForWork, CallerPC, createVars, subVars,
        sharedVars, history, TypeOK, CreateTypeOK, SharedTypeOK, WorkerTypeOK, CallerTypeOK,
        SubmissionTypeOK, HistoryTypeOK
  <1>2. CASE Publish(c)
    BY <1>2, ConstantsAssumption
    DEF IInv, Publish, FreshResults, CleanResult, NoTask, Status, CallerPC,
        createVars, TypeOK, CreateTypeOK, SharedTypeOK, WorkerTypeOK, CallerTypeOK,
        SubmissionTypeOK, HistoryTypeOK
  <1>3. CASE RefuseStopping(c) \/ ShutdownStop(c)
    BY <1>3 DEF IInv, RefuseStopping, ShutdownStop, CallerPC, Result,
        createVars, workerVars, subVars, sharedVars, history, TypeOK, CreateTypeOK, SharedTypeOK, WorkerTypeOK, CallerTypeOK,
        SubmissionTypeOK, HistoryTypeOK
  <1>4. CASE Await(c)
    BY <1>4 DEF IInv, Await, CallerPC, createVars, workerVars, subVars,
        history, TypeOK, CreateTypeOK, SharedTypeOK, WorkerTypeOK, CallerTypeOK,
        SubmissionTypeOK, HistoryTypeOK
  <1>5. CASE Collect(c)
    <2>1. Reported(job[c]) \in Result
      BY DEF IInv, TypeOK, WorkerTypeOK, Reported, Result, Status
    <2> QED
      BY <1>5, <2>1 DEF IInv, Collect, CallerPC, createVars, workerVars,
          subVars, sharedVars, history, TypeOK, CreateTypeOK, SharedTypeOK, WorkerTypeOK, CallerTypeOK,
        SubmissionTypeOK, HistoryTypeOK
  <1>6. CASE Join(c)
    BY <1>6, ConstantsAssumption
    DEF IInv, Join, CallerPC, Result, workerVars, subVars, sharedVars,
        history, TypeOK, CreateTypeOK, SharedTypeOK, WorkerTypeOK, CallerTypeOK,
        SubmissionTypeOK, HistoryTypeOK
  <1>7. CASE Shutdown(c)
    BY <1>7, ConstantsAssumption
    DEF IInv, Shutdown, CallerPC, Result, createVars, workerVars, subVars,
        sharedVars, history, TypeOK, CreateTypeOK, SharedTypeOK, WorkerTypeOK, CallerTypeOK,
        SubmissionTypeOK, HistoryTypeOK
  <1> QED BY <1>1, <1>2, <1>3, <1>4, <1>5, <1>6, <1>7, <1>8, <1>9 DEF CallerStep

\* Type correctness of a new run_tasks call.
LEMMA RunTasksTypeCorrect ==
  ASSUME IInv, NEW c \in Callers, NEW j \in Jobs, RunTasks(c, j)
  PROVE  TypeOK'
  <1>1. Rejection(j) \in Result BY DEF Rejection, Result
  <1>2. budget[c] - 1 \in 0 .. CallBudget
    BY ConstantsAssumption DEF RunTasks, IInv, TypeOK, CallerTypeOK
  <1>3. j \in Job BY ConstantsAssumption
  <1> QED
    BY <1>1, <1>2, <1>3 DEF IInv, RunTasks, CallerPC, createVars, workerVars,
        subVars, sharedVars, history, TypeOK, CreateTypeOK, SharedTypeOK, WorkerTypeOK, CallerTypeOK,
        SubmissionTypeOK, HistoryTypeOK

\* Every step keeps every variable well typed.
LEMMA NextTypeOK == ASSUME IInv, [Next]_vars PROVE TypeOK'
  <1>1. CASE SpuriousWakeup
    BY <1>1 DEF IInv, SpuriousWakeup, subVars, sharedVars, history, TypeOK, CreateTypeOK, SharedTypeOK, WorkerTypeOK, CallerTypeOK,
        SubmissionTypeOK, HistoryTypeOK
  <1>2. CASE UNCHANGED vars
    BY <1>2 DEF IInv, vars, createVars, workerVars, subVars, callVars,
        sharedVars, history, TypeOK, CreateTypeOK, SharedTypeOK, WorkerTypeOK, CallerTypeOK,
        SubmissionTypeOK, HistoryTypeOK
  <1> QED
    BY <1>1, <1>2, WorkerTypeCorrect, CreateTypeCorrect, CallerTypeCorrect,
       RunTasksTypeCorrect DEF Next

\* The initial state satisfies the inductive invariant.
LEMMA InitIInv == Init => IInv
  <1> SUFFICES ASSUME Init PROVE IInv OBVIOUS
  <1>1. TypeOK
    <2>1. NoJob \in Job
      <3>1. 0 \in 0 .. MaxTasks /\ 0 \in 0 .. WorkerCount + 1
        BY ConstantsAssumption
      <3>2. /\ [w \in Worker |-> "success"] \in [Worker -> Status]
            /\ [t \in Task |-> "success"] \in [Task -> Outcome]
        BY DEF Status, Outcome
      <3> QED BY <3>1, <3>2 DEF NoJob, Job, Policy
    <2>2. CleanResult \in [status: Status, task: 0 .. NoTask]
      BY ConstantsAssumption DEF CleanResult, Status, NoTask
    <2>3. CreateTypeOK
      <3>1. workers \in 0 .. WorkerCount /\ initialized \in Nat
        BY ConstantsAssumption DEF Init
      <3>2. pinned \in BOOLEAN /\ creatorAsleep \in BOOLEAN
        BY Zenon DEF Init
      <3>3. affinity \in [Worker -> Affinity]
        BY DEF Init, Affinity
      <3> QED
        BY <3>1, <3>2, <3>3 DEF Init, CreateTypeOK, Phase, CreateStatus
    <2>6. SharedTypeOK /\ SubmissionTypeOK /\ HistoryTypeOK
      BY DEF Init, SharedTypeOK, SubmissionTypeOK, HistoryTypeOK
    <2>4. WorkerTypeOK BY <2>2 DEF Init, WorkerTypeOK, WorkerPC
    <2>5. CallerTypeOK
      BY <2>1, ConstantsAssumption DEF Init, CallerTypeOK, CallerPC, Result
    <2> QED BY <2>3, <2>4, <2>5, <2>6 DEF TypeOK
  <1>2. MutexInv /\ PointerInv /\ JobInv
    BY ConstantsAssumption
    DEF Init, MutexInv, PointerInv, JobInv, Holding, Serving, InRun
  <1>3. BusyInv /\ CountInv
    BY DEF Init, BusyInv, CountInv, Busy
  <1>4. ThreadInv
    BY ConstantsAssumption DEF Init, ThreadInv, Worker
  <1> QED BY <1>1, <1>2, <1>3, <1>4 DEF IInv

-----------------------------------------------------------------------------
(* The callers' part: mutex, published pointer, well-formed jobs           *)

\* Only callers move the state of the calls.
LEMMA CallsFrame ==
  ASSUME Create \/ (\E w \in Worker : WorkerStep(w)) \/ SpuriousWakeup
  PROVE  UNCHANGED <<cpc, job, ret, submissionMutex, submission, epoch>>
  <1>1. CASE Create
    BY <1>1 DEF Create, Spawn, SpawnFails, AwaitStartup, AbortStop, AbortNotify,
        AbortJoin, callVars, sharedVars
  <1>2. CASE \E w \in Worker : WorkerStep(w)
    BY <1>2 DEF WorkerStep, Initialize, Announce, Sleep, Exit, PickUp,
        RunPreflight, Arrive, LeaveBarrier, RunTask, StopNotify, TasksDone,
        Finish, callVars, sharedVars
  <1>3. CASE SpuriousWakeup
    BY <1>3 DEF SpuriousWakeup, sharedVars
  <1> QED BY <1>1, <1>2, <1>3

\* Every step of the calls keeps mutex, pointer and job consistent.
LEMMA NextCallsInv ==
  ASSUME IInv, [Next]_vars
  PROVE  MutexInv' /\ PointerInv' /\ JobInv'
  <1> USE ConstantsAssumption
      DEF IInv, MutexInv, PointerInv, JobInv, TypeOK, CallerTypeOK,
          SharedTypeOK, Holding, Serving, InRun, CallerPC
  <1>1. CASE UNCHANGED <<cpc, job, ret, submissionMutex, submission, epoch>>
    BY <1>1
  <1>2. ASSUME NEW c \in Callers, NEW j \in Jobs, RunTasks(c, j)
        PROVE  MutexInv' /\ PointerInv' /\ JobInv'
    <2>1. UNCHANGED <<submissionMutex, submission>>
      BY <1>2 DEF RunTasks, sharedVars
    <2>2. CASE Rejection(j) = "none"
      BY <1>2, <2>1, <2>2 DEF RunTasks
    <2>3. CASE Rejection(j) # "none"
      BY <1>2, <2>1, <2>3 DEF RunTasks
    <2> QED BY <2>2, <2>3
  <1>3. ASSUME NEW c \in Callers, CallerStep(c) \/ Shutdown(c)
        PROVE  MutexInv' /\ PointerInv' /\ JobInv'
    <2>1. CASE Lock(c)           BY <2>1 DEF Lock, sharedVars
    <2>2. CASE Publish(c)        BY <2>2 DEF Publish
    <2>3. CASE RefuseStopping(c) BY <2>3 DEF RefuseStopping, sharedVars
    <2>4. CASE NotifyWork(c)     BY <2>4 DEF NotifyWork, sharedVars
    <2>5. CASE Await(c)          BY <2>5 DEF Await
    <2>6. CASE Count(c)          BY <2>6 DEF Count, sharedVars
    <2>7. CASE Collect(c)        BY <2>7 DEF Collect, sharedVars
    <2>8. CASE ShutdownStop(c)   BY <2>8 DEF ShutdownStop
    <2>9. CASE Join(c)           BY <2>9 DEF Join, sharedVars
    <2>10. CASE Shutdown(c)      BY <2>10 DEF Shutdown, sharedVars
    <2> QED
      BY <1>3, <2>1, <2>2, <2>3, <2>4, <2>5, <2>6, <2>7, <2>8, <2>9, <2>10
      DEF CallerStep
  <1>4. CASE UNCHANGED vars
    BY <1>4, <1>1 DEF vars, callVars, sharedVars
  <1> QED BY <1>1, <1>2, <1>3, <1>4, CallsFrame DEF Next

-----------------------------------------------------------------------------
(* The workers' part: who holds the submission, and how many are through   *)

\* The workers that are through form a finite set.
LEMMA DoneFinite ==
  ASSUME WorkerCount \in Nat
  PROVE  IsFiniteSet(Done) /\ Cardinality(Done) \in Nat
  <1>1. IsFiniteSet(Worker) BY FS_Interval DEF Worker
  <1>2. Done \in SUBSET Worker BY DEF Done
  <1> QED BY <1>1, <1>2, FS_Subset, FS_CardinalityType

\* Steps that touch none of what the two invariants speak about.
LEMMA BusyFrame ==
  ASSUME IInv, UNCHANGED <<observed, current, submission, epoch>>,
         UNCHANGED completedWorkers,
         submission # NoOne => job'[submission] = job[submission],
         \A w \in Worker : (wpc'[w] \in Busy) <=> (wpc[w] \in Busy)
  PROVE  BusyInv' /\ CountInv'
  <1>1. BusyInv'
    BY DEF IInv, BusyInv
  <1>2. submission # NoOne => Done' = Done
    BY DEF Done
  <1> QED BY <1>1, <1>2 DEF IInv, CountInv

\* When the counter reaches the number of active workers, no worker holds
\* the submission any more: the submitter may return.
LEMMA CompleteMeansReturned ==
  ASSUME IInv, submission # NoOne,
         completedWorkers[submission] = job[submission].active
  PROVE  \A w \in Worker :
           /\ current[w] = NoOne
           /\ w < job[submission].active => observed[w] = epoch
  <1> DEFINE n == job[submission].active
             A == 0 .. n - 1
  <1>1. submission \in Callers /\ job[submission] \in Job
    BY DEF IInv, TypeOK, SharedTypeOK, CallerTypeOK
  <1>2. Rejection(job[submission]) = "none"
    BY <1>1 DEF IInv, PointerInv, JobInv, Serving, InRun
  <1>3. n \in 1 .. WorkerCount
    BY <1>1, <1>2, ConstantsAssumption DEF Rejection, Job
  <1>4. IsFiniteSet(A) /\ Cardinality(A) = n
    <2>1. 0 \in Int /\ n - 1 \in Int /\ ~(0 > n - 1) /\ (n - 1) - 0 + 1 = n
      BY <1>3, ConstantsAssumption
    <2> HIDE DEF n
    <2>2. /\ IsFiniteSet(0 .. n - 1)
          /\ Cardinality(0 .. n - 1) =
               IF 0 > n - 1 THEN 0 ELSE (n - 1) - 0 + 1
      BY <2>1, FS_Interval, Zenon
    <2> QED BY <2>1, <2>2
  <1>5. Done \in SUBSET A
    BY <1>3, ConstantsAssumption DEF Done, Worker
  <1>6. Cardinality(Done) = n
    BY DEF IInv, CountInv
  <1>7. Done = A
    BY <1>4, <1>5, <1>6, FS_Subset
  <1> QED
    BY <1>3, <1>7, ConstantsAssumption DEF IInv, BusyInv, Done, Worker

\* The workers' own steps.
LEMMA WorkerBusyInv ==
  ASSUME IInv, NEW w \in Worker, WorkerStep(w)
  PROVE  BusyInv' /\ CountInv'
  <1> USE DEF TypeOK, WorkerTypeOK, SharedTypeOK, CallerTypeOK, IInv
  <1>0. UNCHANGED <<job, submission, epoch>> BY CallsFrame
  <1>1. CASE \/ Initialize(w) \/ Announce(w) \/ Sleep(w) \/ Exit(w)
             \/ RunPreflight(w) \/ Arrive(w) \/ LeaveBarrier(w) \/ RunTask(w)
             \/ StopNotify(w) \/ TasksDone(w)
    <2>1. UNCHANGED <<observed, current, completedWorkers>>
      BY <1>1 DEF Initialize, Announce, Sleep, Exit, RunPreflight, Arrive,
          LeaveBarrier, RunTask, StopNotify, TasksDone, subVars
    <2>2. \A v \in Worker : (wpc'[v] \in Busy) <=> (wpc[v] \in Busy)
      BY <1>1 DEF Initialize, Announce, Sleep, Exit, RunPreflight, Arrive,
          LeaveBarrier, RunTask, StopNotify, TasksDone, AtLoop, AfterBarrier,
          Busy
    <2> QED BY <1>0, <2>1, <2>2, BusyFrame
  <1>2. CASE PickUp(w)
    <2>1. current[w] = NoOne /\ wpc[w] = "loop" /\ observed[w] # epoch
      BY <1>2 DEF PickUp, AtLoop, HasUnseen, BusyInv, Busy
    <2>2. BusyInv'
      <3>1. CASE Participates(w)
        BY <1>0, <1>2, <2>1, <3>1
        DEF PickUp, Participates, BusyInv, Busy
      <3>2. CASE ~Participates(w)
        BY <1>0, <1>2, <2>1, <3>2 DEF PickUp, BusyInv, Busy
      <3> QED BY <3>1, <3>2
    <2>3. submission # NoOne => Done' = Done
      <3>1. SUFFICES ASSUME submission # NoOne PROVE Done' = Done OBVIOUS
      <3>2. w \notin Done BY <2>1 DEF Done
      <3>3. w \notin Done'
        <4>1. CASE Participates(w)
          BY <1>0, <1>2, <4>1, <3>1 DEF Done, PickUp
        <4>2. CASE ~Participates(w)
          BY <1>0, <1>2, <2>1, <4>2, <3>1 DEF Done, PickUp, Participates, HasUnseen
        <4> QED BY <4>1, <4>2
      <3>4. \A v \in Worker : v # w => (v \in Done' <=> v \in Done)
        BY <1>0, <1>2 DEF Done, PickUp
      <3> QED BY <3>2, <3>3, <3>4 DEF Done
    <2>4. UNCHANGED completedWorkers BY <1>2 DEF PickUp, subVars
    <2> QED BY <1>0, <2>2, <2>3, <2>4 DEF CountInv
  <1>3. CASE Finish(w)
    <2>1. /\ current[w] # NoOne /\ submission = current[w]
          /\ w < job[submission].active /\ observed[w] = epoch
      BY <1>3 DEF Finish, BusyInv, Busy
    <2>2. BusyInv' BY <1>0, <1>3 DEF Finish, BusyInv, Busy
    <2>3. w \notin Done /\ Done' = Done \cup {w}
      BY <1>0, <1>3, <2>1 DEF Done, Finish
    <2>4. completedWorkers'[submission] = completedWorkers[submission] + 1
      BY <1>3, <2>1 DEF Finish, SubmissionTypeOK
    <2>5. Cardinality(Done') = Cardinality(Done) + 1
      BY <2>3, DoneFinite, FS_AddElement, ConstantsAssumption
    <2> QED BY <1>0, <2>1, <2>2, <2>4, <2>5 DEF CountInv
  <1> QED BY <1>1, <1>2, <1>3 DEF WorkerStep

\* Every step.
LEMMA NextBusyInv == ASSUME IInv, [Next]_vars PROVE BusyInv' /\ CountInv'
  <1> USE DEF TypeOK, WorkerTypeOK, SharedTypeOK, CallerTypeOK, IInv
  <1>1. CASE Create
    <2>1. UNCHANGED <<observed, current, completedWorkers>>
      BY <1>1 DEF Create, Spawn, SpawnFails, AwaitStartup, AbortStop,
          AbortNotify, AbortJoin, subVars, workerVars
    <2>2. \A v \in Worker : (wpc'[v] \in Busy) <=> (wpc[v] \in Busy)
      <3>1. CASE Spawn
        <4>1. \A v \in Worker : v = workers => wpc[v] = "unborn"
          BY <3>1 DEF Spawn, ThreadInv, Worker
        <4> QED BY <3>1, <4>1 DEF Spawn, Busy
      <3>2. CASE ~Spawn
        BY <1>1, <3>2 DEF Create, SpawnFails, AwaitStartup, AbortStop,
            AbortNotify, AbortJoin, workerVars
      <3> QED BY <3>1, <3>2
    <2> QED BY <1>1, <2>1, <2>2, CallsFrame, BusyFrame
  <1>2. CASE SpuriousWakeup \/ UNCHANGED vars
    BY <1>2, BusyFrame
    DEF SpuriousWakeup, vars, workerVars, subVars, callVars, sharedVars
  <1>3. ASSUME NEW c \in Callers, NEW j \in Jobs, RunTasks(c, j)
        PROVE  BusyInv' /\ CountInv'
    <2>1. submission # c BY <1>3 DEF RunTasks, PointerInv, Serving
    <2>2. submission # NoOne => job'[submission] = job[submission]
      BY <1>3, <2>1 DEF RunTasks
    <2> QED
      BY <1>3, <2>2, BusyFrame DEF RunTasks, workerVars, subVars, sharedVars
  <1>4. ASSUME NEW c \in Callers, Publish(c)
        PROVE  BusyInv' /\ CountInv'
    <2>1. submission = NoOne
      BY <1>4 DEF Publish, MutexInv, PointerInv, Holding, Serving
    <2>2. \A w \in Worker : current[w] = NoOne
      BY <2>1 DEF BusyInv
    <2>3. \A w \in Worker : observed[w] < epoch + 1 /\ observed[w] # epoch + 1
      BY DEF BusyInv
    <2>4. BusyInv'
      BY <1>4, <2>2, <2>3 DEF Publish, BusyInv
    <2>5. Done' = {}
      BY <1>4, <2>3 DEF Publish, Done
    <2>6. completedWorkers'[submission'] = 0
      BY <1>4 DEF Publish, SubmissionTypeOK
    <2> QED BY <2>4, <2>5, <2>6, FS_EmptySet DEF CountInv
  <1>5. ASSUME NEW c \in Callers, Await(c)
        PROVE  BusyInv' /\ CountInv'
    <2>1. submission = c
      BY <1>5 DEF Await, PointerInv, Serving
    <2>2. CASE completedWorkers[c] = job[c].active
      <3>1. \A w \in Worker : current[w] = NoOne
        BY <2>1, <2>2, CompleteMeansReturned, ConstantsAssumption
      <3>2. submission' = NoOne /\ UNCHANGED <<wpc, observed, current, epoch>>
        BY <1>5, <2>2 DEF Await, workerVars
      <3> QED BY <3>1, <3>2 DEF BusyInv, CountInv
    <2>3. CASE completedWorkers[c] # job[c].active
      BY <1>5, <2>3, BusyFrame DEF Await, workerVars, subVars
    <2> QED BY <2>2, <2>3
  <1>6. ASSUME NEW c \in Callers,
               \/ Lock(c) \/ RefuseStopping(c) \/ NotifyWork(c) \/ Count(c)
               \/ Collect(c) \/ ShutdownStop(c) \/ Join(c) \/ Shutdown(c)
        PROVE  BusyInv' /\ CountInv'
    BY <1>6, BusyFrame
    DEF Lock, RefuseStopping, NotifyWork, Count, Collect, ShutdownStop, Join,
        Shutdown, workerVars, subVars, sharedVars
  <1> QED
    BY <1>1, <1>2, <1>3, <1>4, <1>5, <1>6, WorkerBusyInv DEF Next, CallerStep

-----------------------------------------------------------------------------
(* The threads' part                                                       *)

\* A worker step neither starts a thread nor brings one back.
LEMMA WorkerThreads ==
  ASSUME IInv, NEW w \in Worker, WorkerStep(w)
  PROVE  /\ UNCHANGED <<phase, workers, cpc, ret>>
         /\ \A v \in Worker : (wpc'[v] = "unborn") <=> (wpc[v] = "unborn")
         /\ \A v \in Worker : wpc[v] = "exited" => wpc'[v] = "exited"
  BY DEF IInv, TypeOK, WorkerTypeOK, WorkerStep, Initialize, Announce, Sleep,
         Exit, PickUp, RunPreflight, Arrive, LeaveBarrier, RunTask, StopNotify,
         TasksDone, Finish, AtLoop, AfterBarrier, createVars, callVars

\* Every step keeps the account of the threads.
LEMMA NextThreadInv == ASSUME IInv, [Next]_vars PROVE ThreadInv'
  <1> USE ConstantsAssumption DEF IInv, TypeOK, CreateTypeOK, WorkerTypeOK, CallerTypeOK
  <1>1. CASE Create
    <2>0. UNCHANGED <<cpc, ret>> BY <1>1, CallsFrame
    <2>1. CASE Spawn
      <3>1. workers \in Worker /\ workers + 1 \in 0 .. WorkerCount
        BY <2>1 DEF Spawn, ThreadInv, Worker
      <3>2. \A w \in Worker : (wpc'[w] = "unborn") <=> (w >= workers + 1)
        BY <2>1, <3>1 DEF Spawn, ThreadInv, Worker
      <3> QED BY <2>0, <2>1, <3>1, <3>2 DEF Spawn, ThreadInv
    <2>2. CASE SpawnFails
      BY <2>0, <2>2 DEF SpawnFails, ThreadInv, workerVars
    <2>3. CASE AwaitStartup
      <3>1. UNCHANGED <<wpc, workers>> BY <2>3 DEF AwaitStartup, workerVars
      <3>2. phase = "startup" /\ phase' \in {"startup", "ready", "abortStop"}
        BY <2>3 DEF AwaitStartup
      <3>3. \A w \in Worker : wpc[w] # "unborn"
        BY <3>2 DEF ThreadInv, Worker
      <3> QED BY <2>0, <3>1, <3>2, <3>3 DEF ThreadInv
    <2>4. CASE AbortStop \/ AbortNotify
      BY <2>0, <2>4 DEF AbortStop, AbortNotify, ThreadInv, workerVars
    <2>5. CASE AbortJoin
      <3>1. \A w \in Worker : wpc[w] \in {"unborn", "exited"}
        BY <2>5 DEF AbortJoin, AllJoined, ThreadInv, Worker
      <3> QED BY <2>0, <2>5, <3>1 DEF AbortJoin, ThreadInv, workerVars
    <2> QED BY <1>1, <2>1, <2>2, <2>3, <2>4, <2>5 DEF Create
  <1>2. ASSUME NEW w \in Worker, WorkerStep(w) PROVE ThreadInv'
    BY <1>2, WorkerThreads DEF ThreadInv
  <1>3. ASSUME NEW c \in Callers, NEW j \in Jobs, RunTasks(c, j)
        PROVE  ThreadInv'
    <2>1. Rejection(j) # "shut_down" BY DEF Rejection
    <2>2. \A d \in Callers : ret'[d] = "shut_down" => ret[d] = "shut_down"
      BY <1>3, <2>1 DEF RunTasks
    <2> QED BY <1>3, <2>2 DEF RunTasks, ThreadInv, createVars, workerVars
  <1>4. ASSUME NEW c \in Callers, CallerStep(c) \/ Shutdown(c)
        PROVE  ThreadInv'
    <2>0. phase = "ready"
      BY <1>4 DEF CallerStep, Shutdown, Lock, Publish, RefuseStopping,
          NotifyWork, Await, Count, Collect, ShutdownStop, Join, ThreadInv
    <2>1. CASE Join(c)
      <3>1. \A w \in Worker : wpc[w] = "exited"
        BY <2>0, <2>1 DEF Join, AllJoined, ThreadInv, Worker
      <3> QED BY <2>0, <2>1, <3>1 DEF Join, ThreadInv, workerVars
    <2>2. CASE ShutdownStop(c)
      BY <2>0, <2>2 DEF ShutdownStop, ThreadInv, createVars, workerVars
    <2>3. CASE Collect(c)
      <3>1. Reported(job[c]) \in Status
        BY DEF Reported, Status
      <3>2. Reported(job[c]) # "shut_down"
        BY <3>1 DEF Status
      <3> QED
        BY <2>0, <2>3, <3>2 DEF Collect, ThreadInv, createVars, workerVars
    <2>4. CASE Lock(c) \/ Publish(c) \/ RefuseStopping(c) \/ NotifyWork(c)
               \/ Await(c) \/ Count(c) \/ Shutdown(c)
      <3>1. UNCHANGED <<phase, workers, wpc>>
        BY <2>4 DEF Lock, Publish, RefuseStopping, NotifyWork, Await, Count,
            Shutdown, createVars, workerVars
      <3>2. \A d \in Callers : ret'[d] = "shut_down" => ret[d] = "shut_down"
        BY <2>4 DEF Lock, Publish, RefuseStopping, NotifyWork, Await, Count,
            Shutdown
      <3> QED BY <2>0, <3>1, <3>2 DEF ThreadInv
    <2> QED BY <1>4, <2>1, <2>2, <2>3, <2>4 DEF CallerStep
  <1>5. CASE SpuriousWakeup
    BY <1>5, CallsFrame DEF SpuriousWakeup, ThreadInv
  <1>6. CASE UNCHANGED vars
    BY <1>6 DEF ThreadInv, vars, createVars, workerVars, callVars
  <1> QED BY <1>1, <1>2, <1>3, <1>4, <1>5, <1>6 DEF Next

-----------------------------------------------------------------------------
(* The theorems                                                            *)

\* The inductive invariant holds throughout.
THEOREM Invariance == Spec => []IInv
  <1>1. IInv /\ [Next]_vars => IInv'
    BY NextTypeOK, NextCallsInv, NextBusyInv, NextThreadInv DEF IInv
  <1> QED BY InitIInv, <1>1, PTL DEF Spec

\* Every variable of the context has a value of its type, always.
THEOREM TypeCorrect == Spec => []TypeOK
  <1>1. IInv => TypeOK BY DEF IInv
  <1> QED BY Invariance, <1>1, PTL

\* The pointer a worker holds is to a submission whose caller still waits in
\* run_tasks, for any number of workers, callers and jobs.
THEOREM BorrowSafety == Spec => []BorrowedSubmissionAlive
  <1>1. IInv => BorrowedSubmissionAlive
    <2> SUFFICES ASSUME IInv, NEW w \in Worker, current[w] # NoOne
                 PROVE  /\ cpc[current[w]] \in {"notify", "await"}
                        /\ submission = current[w]
                        /\ submissionMutex = current[w]
                        /\ w < job[current[w]].active
      BY DEF BorrowedSubmissionAlive
    <2>1. submission = current[w] /\ w < job[submission].active
      BY DEF IInv, BusyInv
    <2>2. current[w] \in Callers
      BY DEF IInv, TypeOK, WorkerTypeOK
    <2>3. cpc[current[w]] \in Serving
      BY <2>1, <2>2 DEF IInv, PointerInv
    <2> QED
      BY <2>1, <2>2, <2>3 DEF IInv, MutexInv, Serving, Holding
  <1> QED BY Invariance, <1>1, PTL

\* A create() that failed and a shutdown() that returned leave no thread.
THEOREM ThreadsGone == Spec => []NoThreadLeftBehind
  <1>1. IInv => NoThreadLeftBehind
    BY ConstantsAssumption
    DEF IInv, ThreadInv, NoThreadLeftBehind
  <1> QED BY Invariance, <1>1, PTL

\* After a stop the flag stays set and no submission is published.
THEOREM StopFinality == Spec => StopIsFinal
  <1>1. IInv /\ [Next]_vars => [stopping => stopping' /\ epoch' = epoch]_vars
    <2> SUFFICES ASSUME IInv, Next, stopping
                 PROVE  stopping' /\ epoch' = epoch
      OBVIOUS
    <2>1. CASE Create
      BY <2>1 DEF Create, Spawn, SpawnFails, AwaitStartup, AbortStop,
          AbortNotify, AbortJoin, sharedVars
    <2>2. ASSUME NEW w \in Worker, WorkerStep(w)
          PROVE  stopping' /\ epoch' = epoch
      BY <2>2 DEF WorkerStep, Initialize, Announce, Sleep, Exit, PickUp,
          RunPreflight, Arrive, LeaveBarrier, RunTask, StopNotify, TasksDone,
          Finish, sharedVars
    <2>3. ASSUME NEW c \in Callers, NEW j \in Jobs,
                 CallerStep(c) \/ Shutdown(c) \/ RunTasks(c, j)
          PROVE  stopping' /\ epoch' = epoch
      BY <2>3 DEF CallerStep, Lock, Publish, Accepting, RefuseStopping,
          NotifyWork, Await, Count, Collect, ShutdownStop, Join, Shutdown,
          RunTasks, sharedVars
    <2>4. ASSUME NEW c \in Callers, CallerStep(c) \/ Shutdown(c)
          PROVE  stopping' /\ epoch' = epoch
      BY <2>4 DEF CallerStep, Lock, Publish, Accepting, RefuseStopping,
          NotifyWork, Await, Count, Collect, ShutdownStop, Join, Shutdown,
          sharedVars
    <2>5. CASE SpuriousWakeup
      BY <2>5 DEF SpuriousWakeup, sharedVars
    <2> QED BY <2>1, <2>2, <2>3, <2>4, <2>5 DEF Next
  <1> QED BY Invariance, <1>1, PTL DEF Spec, StopIsFinal

-----------------------------------------------------------------------------
(* The invariant of a served submission                                    *)

\* The program points of a caller whose submission was published and whose
\* answer is not yet given.
Served == {"notify", "await", "count", "collect"}

\* The tasks of worker w's stride.
Own(j, w) == {t \in Task : t % j.active = w}

\* Worker w has seen the current epoch, has arrived at the barrier, is past
\* it, and has its final result.
Begun(w)   == observed[w] = epoch
Through(w) == Begun(w) /\ wpc[w] \notin {"preflight", "arrive", "barrier"}
Over(w)    == Begun(w) /\ wpc[w] \notin Busy \ {"finish"}
Arrived(j) == {w \in Active(j) : Begun(w) /\ wpc[w] \notin {"preflight", "arrive"}}

\* What worker w's preflight and what its first failed task leave in its slot.
PreResult(j, w) ==
  IF w \in PreFails(j) THEN [status |-> j.pre[w], task |-> 0] ELSE CleanResult
TaskResult(j, t) == [status |-> j.out[t], task |-> t]

\* A worker that has not seen the submission has done nothing for it.
UntouchedInv(c, w) ==
  ~Begun(w) => /\ results[w] = CleanResult
               /\ preRuns[c][w] = 0
               /\ \A t \in Own(job[c], w) : taskRuns[c][t] = 0

\* The tasks of its stride that a worker has run: each once, in order, none
\* after a failure.
StrideInv(c, w) ==
  Begun(w) =>
    /\ nextTask[w] >= w /\ nextTask[w] % job[c].active = w
    /\ nextTask[w] # w => PreFails(job[c]) = {}
    /\ \A t \in Own(job[c], w) :
         /\ t < nextTask[w] => t \notin TaskFails(job[c])
         /\ taskRuns[c][t] =
              IF /\ t < job[c].tasks
                 /\ \/ t < nextTask[w]
                    \/ PreFails(job[c]) = {} /\ results[w].task = t
              THEN 1 ELSE 0

\* The preflight of a worker: run once, recorded, and nobody is past the
\* barrier before everybody has arrived.
PreflightInv(c, w) ==
  Begun(w) =>
    /\ wpc[w] \in {"preflight", "arrive", "barrier"} =>
         job[c].preflight /\ nextTask[w] = w
    /\ wpc[w] \in {"preflight", "arrive"} => results[w] = CleanResult
    /\ wpc[w] = "barrier" => results[w] = PreResult(job[c], w)
    /\ preRuns[c][w] =
         IF job[c].preflight /\ wpc[w] # "preflight" THEN 1 ELSE 0
    /\ job[c].preflight /\ Through(w) => Arrived(job[c]) = Active(job[c])

\* The result of a worker while it runs tasks, and when it has finished.
ResultInv(c, w) ==
  /\ Begun(w) /\ wpc[w] \in {"tasks", "stopNotify", "blocked"} =>
       PreFails(job[c]) = {} /\ results[w] = CleanResult
  /\ Over(w) =>
       IF PreFails(job[c]) # {}
       THEN nextTask[w] = w /\ results[w] = PreResult(job[c], w)
       ELSE \/ results[w] = CleanResult /\ nextTask[w] >= job[c].tasks
            \/ /\ nextTask[w] \in TaskFails(job[c])
               /\ results[w] = TaskResult(job[c], nextTask[w])

\* The barrier's counter and flag.
BarrierInv(c) ==
  job[c].preflight =>
    /\ completedPreflights[c] = Cardinality(Arrived(job[c]))
    /\ preflightFailed[c] <=> Arrived(job[c]) \cap PreFails(job[c]) # {}

\* A caller that was told of the completion was told the truth.
CompleteInv(c) ==
  cpc[c] \in {"count", "collect"} =>
    \A w \in Active(job[c]) : Begun(w) /\ wpc[w] \notin Busy

WorkInv(c, w) ==
  UntouchedInv(c, w) /\ StrideInv(c, w) /\ PreflightInv(c, w) /\ ResultInv(c, w)

SubmissionInv(c) ==
  /\ BarrierInv(c) /\ CompleteInv(c)
  /\ \A w \in Active(job[c]) : WorkInv(c, w)

ServedInv == \A c \in Callers : cpc[c] \in Served => SubmissionInv(c)

-----------------------------------------------------------------------------
(* Strides                                                                 *)

\* Division with remainder.
LEMMA Division ==
  ASSUME NEW a \in Nat \ {0}, NEW t \in Nat
  PROVE  /\ t \div a \in Nat /\ t % a \in 0 .. a - 1 /\ t % a <= t
         /\ t = a * (t \div a) + (t % a)
  BY SMTT(10)

\* The same, with names for the quotient and the remainder.
LEMMA Remainder ==
  ASSUME NEW a \in Nat \ {0}, NEW t \in Nat
  PROVE  \E q \in Int : \E r \in 0 .. a - 1 : r = t % a /\ t = a * q + r
  <1>1. /\ t \div a \in Int /\ t % a \in 0 .. a - 1
        /\ t = a * (t \div a) + (t % a)
    BY Division
  <1> WITNESS t \div a \in Int
  <1> WITNESS t % a \in 0 .. a - 1
  <1> QED BY <1>1

\* Larger multiples are at least one divisor apart.
LEMMA Multiples ==
  ASSUME NEW a \in Nat \ {0}, NEW p \in Int, NEW q \in Int, p < q
  PROVE  a * q >= a * p + a
  <1>1. ASSUME NEW k \in Int, k >= 1 PROVE a * k >= a
    BY <1>1, SMTT(10)
  <1>2. a * (q - p) >= a BY <1>1
  <1>3. a * (q - p) = a * q - a * p BY SMT
  <1>4. a * q \in Int /\ a * p \in Int OBVIOUS
  <1> QED BY <1>2, <1>3, <1>4

\* Quotient and remainder are unique.
LEMMA UniqueDivision ==
  ASSUME NEW a \in Nat \ {0}, NEW p \in Int, NEW q \in Int,
         NEW r \in 0 .. a - 1, NEW s \in 0 .. a - 1, a * p + r = a * q + s
  PROVE  p = q /\ r = s
  <1>0. a * q \in Int /\ a * p \in Int OBVIOUS
  <1>1. CASE p < q
    <2>1. a * q >= a * p + a BY <1>1, Multiples
    <2> QED BY <2>1, <1>0
  <1>2. CASE q < p
    <2>1. a * p >= a * q + a BY <1>2, Multiples
    <2> QED BY <2>1, <1>0
  <1> QED BY <1>1, <1>2, <1>0

\* A worker's first task is its own number.
LEMMA StrideStart ==
  ASSUME NEW a \in Nat \ {0}, NEW w \in Nat, w < a PROVE w % a = w
  BY SMTT(10)

\* Adding the divisor keeps the remainder.
LEMMA SameRemainder ==
  ASSUME NEW a \in Nat \ {0}, NEW t \in Nat, NEW q \in Int, NEW p \in Int,
         NEW r \in 0 .. a - 1, NEW s \in 0 .. a - 1,
         t = a * q + r, t + a = a * p + s
  PROVE  r = s
  <1>1. a * (q + 1) = a * q + a BY SMT
  <1>2. PICK k \in Int : k = q + 1 OBVIOUS
  <1>3. a * k = a * q + a BY <1>1, <1>2
  <1>4. a * q \in Int /\ a * p \in Int /\ a * k \in Int OBVIOUS
  <1>5. a * k + r = a * p + s BY <1>3, <1>4
  <1> QED BY <1>5, UniqueDivision

\* The next task is in the same stride.
LEMMA StrideStep ==
  ASSUME NEW a \in Nat \ {0}, NEW t \in Nat
  PROVE  t + a \in Nat /\ (t + a) % a = t % a
  <1>1. PICK u \in Nat : u = t + a OBVIOUS
  <1>2. PICK q \in Int, r \in 0 .. a - 1 : r = t % a /\ t = a * q + r
    BY Remainder, Zenon
  <1>3. PICK p \in Int, s \in 0 .. a - 1 : s = u % a /\ u = a * p + s
    BY Remainder, Zenon
  <1>4. t = a * q + r BY <1>2
  <1>5. t + a = a * p + s BY <1>1, <1>3
  <1>6. r = s BY <1>4, <1>5, SameRemainder
  <1> QED BY <1>1, <1>2, <1>3, <1>6, Zenon

\* Nothing of the stride lies between two consecutive tasks of it.
LEMMA StrideGap ==
  ASSUME NEW a \in Nat \ {0}, NEW t \in Nat, NEW u \in Nat,
         t % a = u % a, t < u
  PROVE  t + a <= u
  <1> DEFINE q == u \div a
             p == t \div a
  <1>1. /\ p \in Nat /\ t = a * p + (t % a) /\ t % a \in 0 .. a - 1
        /\ q \in Nat /\ u = a * q + (u % a)
    BY Division
  <1> HIDE DEF p, q
  <1>2. a * q \in Int /\ a * p \in Int BY <1>1
  <1>3. p < q
    <2>1. CASE q < p BY <1>1, <1>2, <2>1, Multiples
    <2>2. CASE q = p BY <1>1, <2>2
    <2> QED BY <1>1, <2>1, <2>2
  <1>4. a * q >= a * p + a BY <1>1, <1>3, Multiples
  <1> QED BY <1>1, <1>2, <1>4

\* A nonempty set of natural numbers has a least element.
LEMMA LeastExists ==
  ASSUME NEW S \in SUBSET Nat, S # {}
  PROVE  Least(S) \in S /\ \A y \in S : Least(S) <= y
  <1>1. \E x \in S : \A y \in S : ~(<<y, x>> \in OpToRel(<, Nat))
    BY NatLessThanWellFounded, WFMin
  <1>2. PICK x \in S : \A y \in S : ~(<<y, x>> \in OpToRel(<, Nat))
    BY <1>1
  <1>3. \A y \in S : x <= y
    <2> TAKE y \in S
    <2>1. ~(y < x) BY <1>2 DEF OpToRel
    <2> QED BY <2>1
  <1> QED BY <1>3 DEF Least


-----------------------------------------------------------------------------
(* What does not concern a submission leaves its invariant alone           *)

\* A served job is well formed.
LEMMA ServedJob ==
  ASSUME IInv, NEW c \in Callers, cpc[c] \in Served
  PROVE  /\ job[c] \in Job
         /\ job[c].active \in 1 .. WorkerCount
         /\ job[c].tasks \in 1 .. MaxTasks
         /\ Active(job[c]) = 0 .. job[c].active - 1
         /\ submissionMutex = c
  <1>1. job[c] \in Job /\ Rejection(job[c]) = "none"
    BY DEF IInv, TypeOK, CallerTypeOK, JobInv, Served, InRun
  <1>2. /\ job[c].active \in 0 .. WorkerCount + 1 /\ job[c].tasks \in 0 .. MaxTasks
        /\ job[c].tasks # 0 /\ job[c].active # 0 /\ ~(job[c].active > WorkerCount)
    BY <1>1 DEF Job, Rejection
  <1>3. Active(job[c]) = 0 .. job[c].active - 1
    BY <1>2, ConstantsAssumption DEF Active, Worker
  <1>4. submissionMutex = c
    BY DEF IInv, MutexInv, Served, Holding
  <1> QED BY <1>1, <1>2, <1>3, <1>4, ConstantsAssumption

\* Only one caller is served at a time.
LEMMA OneServed ==
  ASSUME IInv, NEW c \in Callers, NEW d \in Callers,
         cpc[c] \in Served, cpc[d] \in Served
  PROVE  c = d
  BY ServedJob

\* A busy worker works for the one caller that is served.
LEMMA BusyServed ==
  ASSUME IInv, NEW w \in Worker, wpc[w] \in Busy
  PROVE  /\ current[w] \in Callers /\ cpc[current[w]] \in Serving
         /\ w \in Active(job[current[w]]) /\ Begun(w)
  <1>1. current[w] \in Callers BY BusyCaller
  <1>2. submission = current[w] /\ w < job[submission].active /\ Begun(w)
    BY DEF IInv, BusyInv, Begun
  <1> QED BY <1>1, <1>2 DEF IInv, PointerInv, Active

\* Worker v's part in c's submission is as before: it may have finished or
\* gone on to something else.
Final(v) == wpc[v] \notin Busy \ {"finish"}
WorkKept(c, v) ==
  /\ observed'[v] = observed[v] /\ nextTask'[v] = nextTask[v]
  /\ results'[v] = results[v] /\ preRuns'[c][v] = preRuns[c][v]
  /\ \A t \in Own(job[c], v) : taskRuns'[c][t] = taskRuns[c][t]
  /\ wpc'[v] = wpc[v] \/ (Final(v) /\ Final(v)')

\* The invariant of such a worker.
LEMMA KeptWork ==
  ASSUME NEW c \in Callers, NEW v \in Worker, WorkInv(c, v), WorkKept(c, v),
         epoch' = epoch, job'[c] = job[c],
         job[c].preflight /\ Through(v) => Arrived(job[c])' = Active(job[c])'
  PROVE  WorkInv(c, v)'
  <1> DEFINE j == job[c]
  <1>1. Begun(v)' = Begun(v) BY DEF Begun, WorkKept
  <1>2. Own(j, v)' = Own(j, v) BY DEF Own
  <1>3. PreFails(j)' = PreFails(j) /\ TaskFails(j)' = TaskFails(j)
    BY DEF PreFails, TaskFails, Active
  <1>4. UntouchedInv(c, v)'
    BY <1>1, <1>2 DEF WorkInv, UntouchedInv, WorkKept
  <1>5. StrideInv(c, v)'
    BY <1>1, <1>2, <1>3 DEF WorkInv, StrideInv, WorkKept
  <1>6. /\ Through(v)' = Through(v) /\ Over(v)' = Over(v)
        /\ \A p \in {"preflight", "arrive", "barrier", "tasks", "stopNotify",
                     "blocked"} : (wpc'[v] = p) <=> (wpc[v] = p)
    BY <1>1 DEF Through, Over, WorkKept, Final, Busy
  <1>7. PreResult(j, v)' = PreResult(j, v) BY <1>3 DEF PreResult
  <1>8. PreflightInv(c, v)'
    BY <1>1, <1>6, <1>7 DEF WorkInv, PreflightInv, WorkKept
  <1>9. ResultInv(c, v)'
    BY <1>1, <1>3, <1>6, <1>7 DEF WorkInv, ResultInv, WorkKept, TaskResult
  <1> QED BY <1>4, <1>5, <1>8, <1>9 DEF WorkInv

\* A step that keeps the work of every active worker keeps the invariant.
LEMMA KeptSubmission ==
  ASSUME NEW c \in Callers, SubmissionInv(c), epoch' = epoch,
         job'[c] = job[c], Active(job[c]) \subseteq Worker,
         completedPreflights'[c] = completedPreflights[c],
         preflightFailed'[c] = preflightFailed[c],
         \A v \in Active(job[c]) : WorkKept(c, v),
         CompleteInv(c)'
  PROVE  SubmissionInv(c)'
  <1> DEFINE j == job[c]
  <1>1. Active(j)' = Active(j) /\ PreFails(j)' = PreFails(j)
    BY DEF Active, PreFails
  <1>2. Arrived(j)' = Arrived(j)
    BY <1>1 DEF Arrived, WorkKept, Begun, Final, Busy
  <1>3. BarrierInv(c)' BY <1>1, <1>2 DEF SubmissionInv, BarrierInv
  <1>4. ASSUME NEW v \in Active(j) PROVE WorkInv(c, v)'
    <2>1. v \in Worker /\ WorkInv(c, v) BY DEF SubmissionInv
    <2>2. j.preflight /\ Through(v) => Arrived(j) = Active(j)
      BY <2>1 DEF WorkInv, PreflightInv, Through
    <2> QED BY <1>1, <1>2, <2>1, <2>2, KeptWork
  <1> QED BY <1>1, <1>3, <1>4 DEF SubmissionInv

-----------------------------------------------------------------------------
(* The workers' steps                                                      *)

\* A step of worker w that keeps the others' work, the counters apart, and
\* never sends anybody back before the barrier.
LEMMA OthersWork ==
  ASSUME IInv, NEW w \in Worker, NEW c \in Callers, cpc[c] \in Served,
         SubmissionInv(c), WorkerStep(w), epoch' = epoch, job' = job,
         \A v \in Active(job[c]) : v # w => WorkKept(c, v),
         w \in Active(job[c]), w \in Arrived(job[c]) => w \in Arrived(job[c])',
         NEW v \in Active(job[c]), v # w
  PROVE  WorkInv(c, v)'
  <1> DEFINE j == job[c]
  <1>0. Active(j) \subseteq Worker BY DEF Active
  <1>1. Active(j)' = Active(j) BY DEF Active
  <1>2. Arrived(j) \subseteq Arrived(j)' /\ Arrived(j)' \subseteq Active(j)
    BY <1>1 DEF Arrived, WorkKept, Begun, Final, Busy
  <1>3. WorkInv(c, v) BY DEF SubmissionInv
  <1>4. j.preflight /\ Through(v) => Arrived(j)' = Active(j)
    BY <1>2, <1>3 DEF WorkInv, PreflightInv, Through
  <1> QED BY <1>0, <1>1, <1>3, <1>4, KeptWork

\* Worker steps that leave the submission alone.
LEMMA IdleSteps ==
  ASSUME IInv, ServedInv, NEW w \in Worker,
         \/ Initialize(w) \/ Announce(w) \/ Sleep(w) \/ Exit(w)
         \/ Finish(w)
         \/ PickUp(w) /\ ~Participates(w)
  PROVE  ServedInv'
  <1> SUFFICES ASSUME NEW c \in Callers, cpc'[c] \in Served
               PROVE  SubmissionInv(c)'
    BY DEF ServedInv
  <1>0. UNCHANGED <<cpc, job, epoch, submission>>
    BY CallsFrame DEF WorkerStep
  <1>1. SubmissionInv(c) /\ cpc[c] \in Served
    BY <1>0 DEF ServedInv
  <1>2. Active(job[c]) \subseteq Worker BY DEF Active
  <1>3. UNCHANGED <<results, nextTask, preRuns, taskRuns, completedPreflights,
                    preflightFailed>>
    BY DEF Initialize, Announce, Sleep, Exit, Finish, PickUp, Participates,
        subVars, history
  <1>4. \A v \in Worker : wpc'[v] = wpc[v] \/ (Final(v) /\ Final(v)')
    BY DEF IInv, TypeOK, WorkerTypeOK, Initialize, Announce, Sleep, Exit,
        Finish, PickUp, AtLoop, Final, Busy
  <1>5. \A v \in Active(job[c]) : observed'[v] = observed[v]
    <2>1. CASE PickUp(w) /\ ~Participates(w)
      <3>1. w \notin Active(job[c])
        <4>1. CASE cpc[c] \in Serving
          <5>1. submission = c BY <4>1 DEF IInv, PointerInv
          <5> QED BY <2>1, <5>1, ConstantsAssumption
                  DEF PickUp, Participates, HasUnseen, Active
        <4>2. CASE cpc[c] \notin Serving
          <5>1. CompleteInv(c) /\ cpc[c] \in {"count", "collect"}
            BY <1>1, <4>2 DEF SubmissionInv, Served, Serving
          <5> QED BY <2>1, <5>1 DEF CompleteInv, Begun, PickUp, HasUnseen
        <4> QED BY <4>1, <4>2
      <3> QED BY <1>2, <2>1, <3>1 DEF PickUp, IInv, TypeOK, WorkerTypeOK
    <2>2. CASE Initialize(w) \/ Announce(w) \/ Sleep(w) \/ Exit(w) \/ Finish(w)
      BY <2>2 DEF Initialize, Announce, Sleep, Exit, Finish
    <2> QED BY <2>1, <2>2
  <1>6. \A v \in Active(job[c]) : WorkKept(c, v)
    BY <1>2, <1>3, <1>4, <1>5 DEF WorkKept
  <1>7. CompleteInv(c)'
    <2>1. \A v \in Worker : wpc'[v] \in Busy => wpc[v] \in Busy
      BY DEF IInv, TypeOK, WorkerTypeOK, Initialize, Announce, Sleep, Exit,
          Finish, PickUp, AtLoop, Busy
    <2>2. Active(job[c])' = Active(job[c]) BY <1>0 DEF Active
    <2> QED BY <1>0, <1>1, <1>2, <1>5, <2>1, <2>2
            DEF SubmissionInv, CompleteInv, Begun
  <1> QED BY <1>0, <1>1, <1>2, <1>3, <1>6, <1>7, KeptSubmission

\* Worker steps on its own part of the submission.
LEMMA BusyStep ==
  ASSUME IInv, ServedInv, NEW w \in Worker, WorkerStep(w),
         NEW c \in Callers, cpc[c] \in Serving, SubmissionInv(c),
         w \in Active(job[c]),
         \A v \in Active(job[c]) : v # w => WorkKept(c, v),
         w \in Arrived(job[c]) => w \in Arrived(job[c])',
         WorkInv(c, w)', BarrierInv(c)'
  PROVE  ServedInv'
  <1> SUFFICES ASSUME NEW d \in Callers, cpc'[d] \in Served
               PROVE  SubmissionInv(d)'
    BY DEF ServedInv
  <1>0. UNCHANGED <<cpc, job, epoch>>
    BY CallsFrame
  <1>1. d = c BY <1>0, OneServed DEF Serving, Served
  <1>2. Active(job[c])' = Active(job[c]) BY <1>0 DEF Active
  <1>3. \A v \in Active(job[c]) : WorkInv(c, v)'
    BY <1>0, OthersWork DEF Serving, Served
  <1>4. CompleteInv(c)' BY <1>0 DEF CompleteInv, Serving
  <1> QED BY <1>1, <1>2, <1>3, <1>4 DEF SubmissionInv

\* Taking the submission: the worker starts at its own number.
LEMMA PickUpServed ==
  ASSUME IInv, ServedInv, NEW w \in Worker, PickUp(w), Participates(w)
  PROVE  ServedInv'
  <1>c. PICK c \in Callers : c = submission
    BY DEF IInv, TypeOK, SharedTypeOK, Participates
  <1> DEFINE j == job[c]
  <1>0. UNCHANGED <<cpc, job, epoch>> /\ WorkerStep(w)
    BY CallsFrame DEF WorkerStep
  <1>1. cpc[c] \in Serving /\ cpc[c] \in Served
    BY <1>c DEF IInv, PointerInv, Serving, Served
  <1>2. SubmissionInv(c) BY <1>1 DEF ServedInv
  <1>3. /\ w \in Active(j) /\ ~Begun(w) /\ WorkInv(c, w)
        /\ wpc[w] = "loop" /\ wpc[w] \notin Busy
    BY <1>c, <1>2 DEF PickUp, Participates, HasUnseen, Active, Begun, SubmissionInv,
                AtLoop, Busy
  <1>4. \A v \in Active(j) : v # w => WorkKept(c, v)
    BY DEF WorkKept, PickUp, Active, IInv, TypeOK, WorkerTypeOK, history
  <1>5. w \notin Arrived(j) BY <1>3 DEF Arrived
  <1>6. /\ Begun(w)' /\ nextTask'[w] = w
        /\ wpc'[w] = IF j.preflight THEN "preflight" ELSE "tasks"
        /\ results'[w] = results[w]
        /\ preRuns'[c][w] = preRuns[c][w] /\ taskRuns' = taskRuns
    BY <1>c, <1>0 DEF PickUp, Begun, IInv, TypeOK, WorkerTypeOK, history
  <1>7. /\ results[w] = CleanResult /\ preRuns[c][w] = 0
        /\ \A t \in Own(j, w) : taskRuns[c][t] = 0
    BY <1>3 DEF WorkInv, UntouchedInv
  <1>8. j \in Job /\ j.active \in Nat \ {0} /\ w \in Nat /\ w < j.active
    BY <1>1, <1>3, ServedJob, ConstantsAssumption DEF Worker, Active
  <1>9. WorkInv(c, w)'
    <2>1. UntouchedInv(c, w)' BY <1>6 DEF UntouchedInv
    <2>2. StrideInv(c, w)'
      <3>1. w >= w /\ w % j.active = w BY <1>8, StrideStart
      <3>2. ASSUME NEW t \in Own(j, w)
            PROVE  /\ ~(t < w) /\ results[w].task # t /\ taskRuns[c][t] = 0
        <4>1. t \in Nat /\ t % j.active = w /\ t # NoTask
          BY ConstantsAssumption DEF Own, Task, NoTask
        <4>2. w <= t BY <1>8, <4>1, Division
        <4> QED BY <1>7, <1>8, <4>1, <4>2 DEF CleanResult
      <3>3. Own(j, w)' = Own(j, w) BY <1>0 DEF Own
      <3> QED BY <1>0, <1>6, <3>1, <3>2, <3>3 DEF StrideInv
    <2>3. PreflightInv(c, w)'
      BY <1>0, <1>6, <1>7 DEF PreflightInv, Through
    <2>4. ResultInv(c, w)'
      <3>1. ~j.preflight => PreFails(j)' = {}
        BY <1>0 DEF PreFails, Active
      <3>2. ~Over(w)' BY <1>6 DEF Over, Busy
      <3> QED BY <1>0, <1>6, <1>7, <3>1, <3>2 DEF ResultInv
    <2> QED BY <2>1, <2>2, <2>3, <2>4 DEF WorkInv
  <1>10. BarrierInv(c)'
    <2> SUFFICES ASSUME j.preflight PROVE BarrierInv(c)' BY <1>0 DEF BarrierInv
    <2>1. Active(j)' = Active(j) /\ PreFails(j)' = PreFails(j)
      BY <1>0 DEF Active, PreFails
    <2>2. w \notin Arrived(j)' BY <1>6 DEF Arrived
    <2>3. \A v \in Active(j) : v # w => (v \in Arrived(j)' <=> v \in Arrived(j))
      BY <1>0, <1>4, <2>1 DEF WorkKept, Arrived, Begun, Final, Busy
    <2>4. Arrived(j)' = Arrived(j)
      BY <1>5, <2>1, <2>2, <2>3 DEF Arrived
    <2>5. UNCHANGED <<completedPreflights, preflightFailed>>
      BY DEF PickUp, subVars
    <2> QED BY <1>0, <1>2, <2>1, <2>4, <2>5 DEF SubmissionInv, BarrierInv
  <1> QED BY <1>0, <1>1, <1>2, <1>3, <1>4, <1>5, <1>9, <1>10, BusyStep

\* What every step of a busy worker can rely on.
LEMMA BusyContext ==
  ASSUME IInv, ServedInv, NEW w \in Worker, wpc[w] \in Busy, WorkerStep(w),
         NEW c \in Callers, c = current[w]
  PROVE  /\ UNCHANGED <<cpc, job, epoch>>
         /\ cpc[c] \in Serving /\ SubmissionInv(c)
         /\ w \in Active(job[c]) /\ Begun(w) /\ WorkInv(c, w)
         /\ Active(job[c])' = Active(job[c])
         /\ PreFails(job[c])' = PreFails(job[c])
         /\ Own(job[c], w)' = Own(job[c], w)
         /\ job[c] \in Job /\ job[c].active \in Nat \ {0}
         /\ w \in Nat /\ w < job[c].active
  <1>1. UNCHANGED <<cpc, job, epoch>> BY CallsFrame
  <1>2. cpc[c] \in Serving /\ w \in Active(job[c]) /\ Begun(w)
    BY BusyServed
  <1>3. SubmissionInv(c) /\ WorkInv(c, w)
    BY <1>2 DEF ServedInv, SubmissionInv, Serving, Served
  <1>4. /\ Active(job[c])' = Active(job[c])
        /\ PreFails(job[c])' = PreFails(job[c])
        /\ Own(job[c], w)' = Own(job[c], w)
    BY <1>1 DEF Active, PreFails, Own
  <1>5. job[c] \in Job /\ job[c].active \in Nat \ {0}
    BY <1>2, ServedJob, ConstantsAssumption DEF Serving, Served
  <1>6. w \in Nat /\ w < job[c].active
    BY <1>2, ConstantsAssumption DEF Worker, Active
  <1> QED BY <1>1, <1>2, <1>3, <1>4, <1>5, <1>6

\* A step of worker w that neither enters nor leaves the set of the arrived
\* and leaves the barrier's counter and flag alone.
LEMMA SameBarrier ==
  ASSUME NEW c \in Callers, BarrierInv(c), NEW w \in Worker,
         UNCHANGED <<job, epoch, completedPreflights, preflightFailed>>,
         \A v \in Active(job[c]) : v # w => WorkKept(c, v),
         (w \in Arrived(job[c])') <=> (w \in Arrived(job[c]))
  PROVE  BarrierInv(c)' /\ Arrived(job[c])' = Arrived(job[c])
  <1> DEFINE j == job[c]
  <1>1. Active(j)' = Active(j) /\ PreFails(j)' = PreFails(j)
    BY DEF Active, PreFails
  <1>2. \A v \in Active(j) : v # w => (v \in Arrived(j)' <=> v \in Arrived(j))
    BY <1>1 DEF WorkKept, Arrived, Begun, Final, Busy
  <1>3. Arrived(j)' = Arrived(j)
    BY <1>1, <1>2 DEF Arrived
  <1> QED BY <1>1, <1>3 DEF BarrierInv

\* The preflight callback.
LEMMA RunPreflightServed ==
  ASSUME IInv, ServedInv, NEW w \in Worker, RunPreflight(w)
  PROVE  ServedInv'
  <1>c. PICK c \in Callers : c = current[w]
    BY BusyServed DEF RunPreflight, Busy
  <1> DEFINE j == job[c]
  <1>s. WorkerStep(w) /\ wpc[w] = "preflight" /\ wpc[w] \in Busy
    BY DEF WorkerStep, RunPreflight, Busy
  <1>0. /\ UNCHANGED <<cpc, job, epoch>>
        /\ cpc[c] \in Serving /\ SubmissionInv(c)
        /\ w \in Active(j) /\ Begun(w) /\ WorkInv(c, w)
        /\ Active(j)' = Active(j) /\ PreFails(j)' = PreFails(j)
        /\ Own(j, w)' = Own(j, w)
    BY <1>c, <1>s, BusyContext
  <1>1. \A v \in Active(j) : v # w => WorkKept(c, v)
    BY <1>c DEF WorkKept, RunPreflight, Active, IInv, TypeOK, WorkerTypeOK,
        HistoryTypeOK
  <1>2. /\ wpc'[w] = "arrive" /\ preRuns'[c][w] = preRuns[c][w] + 1
        /\ observed' = observed /\ nextTask' = nextTask /\ results' = results
        /\ taskRuns' = taskRuns
    BY <1>c DEF RunPreflight, IInv, TypeOK, WorkerTypeOK, HistoryTypeOK
  <1>3. w \notin Arrived(j) /\ w \notin Arrived(j)'
    BY <1>s, <1>2 DEF Arrived
  <1>4. BarrierInv(c)'
    BY <1>0, <1>1, <1>3, SameBarrier DEF RunPreflight, subVars, SubmissionInv
  <1>5. WorkInv(c, w)'
    <2>1. Begun(w)' BY <1>0, <1>2 DEF Begun
    <2>2. UntouchedInv(c, w)' BY <2>1 DEF UntouchedInv
    <2>3. StrideInv(c, w)'
      <3>1. TaskFails(j)' = TaskFails(j) BY <1>0 DEF TaskFails
      <3> QED BY <1>0, <1>2, <3>1 DEF WorkInv, StrideInv
    <2>4. PreflightInv(c, w)'
      BY <1>s, <1>0, <1>2 DEF WorkInv, PreflightInv, Through
    <2>5. ResultInv(c, w)'
      BY <1>2 DEF ResultInv, Over, Busy
    <2> QED BY <2>2, <2>3, <2>4, <2>5 DEF WorkInv
  <1> QED BY <1>s, <1>0, <1>1, <1>3, <1>4, <1>5, BusyStep

\* Going on to the next program point with the same work done.
LEMMA SameStride ==
  ASSUME NEW c \in Callers, NEW w \in Worker, StrideInv(c, w), Begun(w),
         UNCHANGED <<job, nextTask, taskRuns>>,
         PreFails(job[c]) = {} => results'[w].task = results[w].task
  PROVE  StrideInv(c, w)'
  <1>1. /\ Own(job[c], w)' = Own(job[c], w)
        /\ PreFails(job[c])' = PreFails(job[c])
        /\ TaskFails(job[c])' = TaskFails(job[c])
    BY DEF Own, PreFails, TaskFails, Active
  <1> QED BY <1>1 DEF StrideInv

\* The notification of a task's shutdown(), and the end of the loop over the
\* tasks.
LEMMA OnwardServed ==
  ASSUME IInv, ServedInv, NEW w \in Worker, StopNotify(w) \/ TasksDone(w)
  PROVE  ServedInv'
  <1>s. WorkerStep(w) /\ wpc[w] \in {"stopNotify", "tasks"} /\ wpc[w] \in Busy
    BY DEF WorkerStep, StopNotify, TasksDone, Busy
  <1>c. PICK c \in Callers : c = current[w]
    BY <1>s, BusyServed
  <1> DEFINE j == job[c]
  <1>0. /\ UNCHANGED <<cpc, job, epoch>>
        /\ cpc[c] \in Serving /\ SubmissionInv(c)
        /\ w \in Active(j) /\ Begun(w) /\ WorkInv(c, w)
        /\ Active(j)' = Active(j) /\ PreFails(j)' = PreFails(j)
    BY <1>c, <1>s, BusyContext
  <1>1. \A v \in Active(j) : v # w => WorkKept(c, v)
    BY <1>c DEF WorkKept, StopNotify, TasksDone, Active, IInv, TypeOK,
        WorkerTypeOK, history
  <1>2. /\ wpc'[w] \in {"tasks", "finish"}
        /\ wpc'[w] = "finish" => nextTask[w] >= j.tasks
        /\ UNCHANGED <<observed, nextTask, results, preRuns, taskRuns>>
    BY <1>c DEF StopNotify, TasksDone, IInv, TypeOK, WorkerTypeOK, history
  <1>3. w \in Arrived(j) /\ w \in Arrived(j)'
    BY <1>s, <1>0, <1>2 DEF Arrived, Begun
  <1>4. BarrierInv(c)' /\ Arrived(j)' = Arrived(j)
    BY <1>0, <1>1, <1>3, SameBarrier
    DEF StopNotify, TasksDone, subVars, SubmissionInv
  <1>5. WorkInv(c, w)'
    <2>1. Begun(w)' BY <1>0, <1>2 DEF Begun
    <2>2. UntouchedInv(c, w)' BY <2>1 DEF UntouchedInv
    <2>3. StrideInv(c, w)' BY <1>0, <1>2, SameStride DEF WorkInv
    <2>4. PreFails(j) = {} /\ results[w] = CleanResult
      BY <1>s, <1>0 DEF WorkInv, ResultInv
    <2>5. j.preflight => Arrived(j) = Active(j)
      BY <1>s, <1>0 DEF WorkInv, PreflightInv, Through
    <2>6. PreflightInv(c, w)'
      BY <1>s, <1>0, <1>2, <1>4, <2>5 DEF WorkInv, PreflightInv
    <2>7. ResultInv(c, w)'
      BY <1>0, <1>2, <2>4 DEF ResultInv, Over, Busy
    <2> QED BY <2>2, <2>3, <2>6, <2>7 DEF WorkInv
  <1> QED BY <1>s, <1>0, <1>1, <1>3, <1>4, <1>5, BusyStep

\* All have arrived when the counter says so.
LEMMA FullBarrier ==
  ASSUME IInv, NEW c \in Callers, cpc[c] \in Served, NEW S \in SUBSET Active(job[c]),
         Cardinality(S) = job[c].active
  PROVE  S = Active(job[c])
  <1> DEFINE n == job[c].active
  <1>1. Active(job[c]) = 0 .. n - 1 /\ n \in 1 .. WorkerCount
    BY ServedJob
  <1>2. 0 \in Int /\ n - 1 \in Int /\ ~(0 > n - 1) /\ (n - 1) - 0 + 1 = n
    BY <1>1, ConstantsAssumption
  <1> HIDE DEF n
  <1>3. /\ IsFiniteSet(0 .. n - 1)
        /\ Cardinality(0 .. n - 1) = IF 0 > n - 1 THEN 0 ELSE (n - 1) - 0 + 1
    BY <1>2, FS_Interval, Zenon
  <1>4. Cardinality(Active(job[c])) = n /\ IsFiniteSet(Active(job[c]))
    BY <1>1, <1>2, <1>3
  <1> QED BY <1>4, FS_Subset DEF n

\* What the barrier's flag says once all have arrived.
LEMMA BarrierVerdict ==
  ASSUME NEW c \in Callers, SubmissionInv(c), job[c].preflight,
         Arrived(job[c]) = Active(job[c])
  PROVE  preflightFailed[c] <=> PreFails(job[c]) # {}
  <1>1. PreFails(job[c]) \subseteq Active(job[c]) BY DEF PreFails
  <1> QED BY <1>1 DEF SubmissionInv, BarrierInv

\* Looking at the barrier again.
LEMMA LeaveBarrierServed ==
  ASSUME IInv, ServedInv, NEW w \in Worker, LeaveBarrier(w)
  PROVE  ServedInv'
  <1>s. WorkerStep(w) /\ wpc[w] = "barrier" /\ wpc[w] \in Busy
    BY DEF WorkerStep, LeaveBarrier, Busy
  <1>c. PICK c \in Callers : c = current[w]
    BY <1>s, BusyServed
  <1> DEFINE j == job[c]
  <1>0. /\ UNCHANGED <<cpc, job, epoch>>
        /\ cpc[c] \in Serving /\ SubmissionInv(c)
        /\ w \in Active(j) /\ Begun(w) /\ WorkInv(c, w)
        /\ Active(j)' = Active(j) /\ PreFails(j)' = PreFails(j)
    BY <1>c, <1>s, BusyContext
  <1>1. \A v \in Active(j) : v # w => WorkKept(c, v)
    BY <1>c DEF WorkKept, LeaveBarrier, Active, IInv, TypeOK, WorkerTypeOK, history
  <1>2. /\ \/ wpc'[w] = "barrier"
           \/ /\ completedPreflights[c] = j.active
              /\ wpc'[w] = AfterBarrier(preflightFailed[c])
        /\ UNCHANGED <<observed, nextTask, results, preRuns, taskRuns>>
    BY <1>c DEF LeaveBarrier, IInv, TypeOK, WorkerTypeOK, history
  <1>3. w \in Arrived(j) /\ w \in Arrived(j)'
    BY <1>s, <1>0, <1>2 DEF Arrived, Begun, AfterBarrier
  <1>4. BarrierInv(c)' /\ Arrived(j)' = Arrived(j)
    BY <1>0, <1>1, <1>3, SameBarrier DEF LeaveBarrier, subVars, SubmissionInv
  <1>5. /\ j.preflight /\ nextTask[w] = w /\ results[w] = PreResult(j, w)
        /\ preRuns[c][w] = 1
    BY <1>s, <1>0 DEF WorkInv, PreflightInv
  <1>6. wpc'[w] # "barrier" => /\ Arrived(j) = Active(j)
                               /\ preflightFailed[c] <=> PreFails(j) # {}
    <2>1. Arrived(j) \in SUBSET Active(j) BY DEF Arrived
    <2>2. completedPreflights[c] = Cardinality(Arrived(j))
      BY <1>0, <1>5 DEF SubmissionInv, BarrierInv
    <2> QED BY <1>0, <1>2, <1>5, <2>1, <2>2, FullBarrier, BarrierVerdict
            DEF Serving, Served
  <1>7. WorkInv(c, w)'
    <2>1. Begun(w)' BY <1>0, <1>2 DEF Begun
    <2>2. UntouchedInv(c, w)' BY <2>1 DEF UntouchedInv
    <2>3. StrideInv(c, w)' BY <1>0, <1>2, SameStride DEF WorkInv
    <2>4. PreResult(j, w)' = PreResult(j, w) BY <1>0 DEF PreResult
    <2>5. PreflightInv(c, w)'
      BY <1>0, <1>2, <1>4, <1>5, <1>6, <2>4 DEF PreflightInv, Through, AfterBarrier
    <2>6. PreFails(j) = {} => results[w] = CleanResult
      BY <1>5 DEF PreResult
    <2>7. ResultInv(c, w)'
      BY <1>0, <1>2, <1>5, <1>6, <2>4, <2>6 DEF ResultInv, Over, AfterBarrier, Busy
    <2> QED BY <2>2, <2>3, <2>5, <2>7 DEF WorkInv
  <1> QED BY <1>s, <1>0, <1>1, <1>3, <1>4, <1>7, BusyStep

\* The active workers are finitely many.
LEMMA ActiveFinite ==
  ASSUME IInv, NEW c \in Callers, cpc[c] \in Served, NEW S \in SUBSET Active(job[c])
  PROVE  IsFiniteSet(S)
  <1>1. IsFiniteSet(0 .. job[c].active - 1)
    BY ServedJob, FS_Interval
  <1> QED BY <1>1, ServedJob, FS_Subset

\* Arriving at the barrier.
LEMMA ArriveServed ==
  ASSUME IInv, ServedInv, NEW w \in Worker, Arrive(w)
  PROVE  ServedInv'
  <1>s. WorkerStep(w) /\ wpc[w] = "arrive" /\ wpc[w] \in Busy
    BY DEF WorkerStep, Arrive, Busy
  <1>c. PICK c \in Callers : c = current[w]
    BY <1>s, BusyServed
  <1> DEFINE j == job[c]
  <1>0. /\ UNCHANGED <<cpc, job, epoch>>
        /\ cpc[c] \in Serving /\ cpc[c] \in Served /\ SubmissionInv(c)
        /\ w \in Active(j) /\ Begun(w) /\ WorkInv(c, w)
        /\ Active(j)' = Active(j) /\ PreFails(j)' = PreFails(j)
    BY <1>c, <1>s, BusyContext DEF Serving, Served
  <1>1. \A v \in Active(j) : v # w => WorkKept(c, v)
    BY <1>c DEF WorkKept, Arrive, Active, IInv, TypeOK, WorkerTypeOK, history
  <1>2. /\ j.preflight /\ nextTask[w] = w /\ results[w] = CleanResult
        /\ preRuns[c][w] = 1 /\ w \notin Arrived(j)
    BY <1>s, <1>0 DEF WorkInv, PreflightInv, Arrived
  <1>3. j.pre[w] # "success" <=> w \in PreFails(j)
    BY <1>0, <1>2 DEF PreFails
  <1>4. /\ results'[w] = PreResult(j, w)
        /\ preflightFailed'[c] = (preflightFailed[c] \/ w \in PreFails(j))
        /\ completedPreflights'[c] = completedPreflights[c] + 1
        /\ UNCHANGED <<observed, nextTask, preRuns, taskRuns>>
    <2>1. /\ results \in [Worker -> [status: Status, task: 0 .. NoTask]]
          /\ preflightFailed \in [Callers -> BOOLEAN]
          /\ completedPreflights \in [Callers -> Nat]
      BY DEF IInv, TypeOK, WorkerTypeOK, SubmissionTypeOK
    <2>2. results'[w] = PreResult(j, w)
      BY <1>c, <1>2, <1>3, <2>1 DEF Arrive, PreResult
    <2>3. /\ preflightFailed'[c] = (preflightFailed[c] \/ w \in PreFails(j))
          /\ completedPreflights'[c] = completedPreflights[c] + 1
      BY <1>c, <1>3, <2>1 DEF Arrive
    <2> QED BY <2>2, <2>3 DEF Arrive, history
  <1>5. \/ wpc'[w] = "barrier"
        \/ /\ completedPreflights'[c] = j.active
           /\ wpc'[w] = AfterBarrier(preflightFailed'[c])
    BY <1>c, <1>4 DEF Arrive, IInv, TypeOK, WorkerTypeOK
  <1>6. Begun(w)' /\ wpc'[w] \in {"barrier", "tasks", "finish"}
    BY <1>0, <1>4, <1>5 DEF Begun, AfterBarrier
  <1>7. PICK S : S = Arrived(j) \cup {w} OBVIOUS
  <1>8. Arrived(j)' = S /\ S \in SUBSET Active(j)
    <2>1. w \in Arrived(j)' BY <1>0, <1>6 DEF Arrived
    <2>2. \A v \in Active(j) : v # w => (v \in Arrived(j)' <=> v \in Arrived(j))
      BY <1>0, <1>1 DEF WorkKept, Arrived, Begun, Final, Busy
    <2> QED BY <1>0, <1>7, <2>1, <2>2 DEF Arrived
  <1>9. completedPreflights'[c] = Cardinality(S)
    <2>1. Arrived(j) \in SUBSET Active(j) BY DEF Arrived
    <2>2. IsFiniteSet(Arrived(j)) BY <1>0, <2>1, ActiveFinite
    <2>3. Cardinality(S) = Cardinality(Arrived(j)) + 1
      BY <1>2, <1>7, <2>2, FS_AddElement
    <2> QED BY <1>0, <1>2, <1>4, <2>3 DEF SubmissionInv, BarrierInv
  <1>10. preflightFailed'[c] <=> S \cap PreFails(j) # {}
    BY <1>0, <1>2, <1>4, <1>7 DEF SubmissionInv, BarrierInv
  <1>11. BarrierInv(c)'
    BY <1>0, <1>8, <1>9, <1>10 DEF BarrierInv
  <1>12. wpc'[w] # "barrier" => S = Active(j)
    BY <1>0, <1>5, <1>8, <1>9, FullBarrier
  <1>13. wpc'[w] # "barrier" => wpc'[w] = IF PreFails(j) # {} THEN "finish" ELSE "tasks"
    <2>1. PreFails(j) \subseteq Active(j) BY DEF PreFails
    <2> QED BY <1>5, <1>10, <1>12, <2>1 DEF AfterBarrier
  <1>14. WorkInv(c, w)'
    <2>1. UntouchedInv(c, w)' BY <1>6 DEF UntouchedInv
    <2>2. StrideInv(c, w)'
      <3>1. PreFails(j) = {} => results'[w].task = results[w].task
        BY <1>2, <1>4 DEF PreResult
      <3> QED BY <1>0, <1>4, <3>1, SameStride DEF WorkInv
    <2>3. PreResult(j, w)' = PreResult(j, w) BY <1>0 DEF PreResult
    <2>4. PreflightInv(c, w)'
      BY <1>0, <1>2, <1>4, <1>6, <1>8, <1>12, <2>3 DEF PreflightInv, Through
    <2>5. PreFails(j) = {} => results'[w] = CleanResult
      BY <1>4 DEF PreResult
    <2>6. ResultInv(c, w)'
      BY <1>0, <1>2, <1>4, <1>6, <1>13, <2>3, <2>5 DEF ResultInv, Over, Busy
    <2> QED BY <2>1, <2>2, <2>4, <2>6 DEF WorkInv
  <1>15. w \in Arrived(j) => w \in Arrived(j)' BY <1>2
  <1> QED BY <1>s, <1>0, <1>1, <1>11, <1>14, <1>15, BusyStep

\* Running a task: it is the worker's next one, it runs for the first time,
\* and a failure ends the worker's loop with that task as its result.
LEMMA RunTaskServed ==
  ASSUME IInv, ServedInv, NEW w \in Worker, RunTask(w)
  PROVE  ServedInv'
  <1>s. WorkerStep(w) /\ wpc[w] = "tasks" /\ wpc[w] \in Busy
    BY DEF WorkerStep, RunTask, Busy
  <1>c. PICK c \in Callers : c = current[w]
    BY <1>s, BusyServed
  <1> DEFINE j == job[c]
  <1>0. /\ UNCHANGED <<cpc, job, epoch>>
        /\ cpc[c] \in Serving /\ cpc[c] \in Served /\ SubmissionInv(c)
        /\ w \in Active(j) /\ Begun(w) /\ WorkInv(c, w)
        /\ Active(j)' = Active(j) /\ PreFails(j)' = PreFails(j)
        /\ Own(j, w)' = Own(j, w) /\ TaskFails(j)' = TaskFails(j)
    BY <1>c, <1>s, BusyContext DEF Serving, Served, TaskFails
  <1>j. /\ j \in Job /\ j.active \in Nat \ {0} /\ w \in Nat
        /\ j.tasks \in 0 .. MaxTasks /\ MaxTasks \in Nat
    BY <1>c, <1>s, <1>0, BusyContext, ServedJob, ConstantsAssumption DEF Job
  <1>t. PICK t \in Nat : t = nextTask[w]
    BY DEF IInv, TypeOK, WorkerTypeOK
  <1>1. /\ t < j.tasks /\ t \in Task /\ t % j.active = w /\ t \in Own(j, w)
        /\ t # NoTask /\ t >= w
    <2>1. t < j.tasks /\ t \in Task /\ t # NoTask
      BY <1>c, <1>t, <1>j DEF RunTask, Task, NoTask
    <2>2. t % j.active = w /\ t >= w
      BY <1>0, <1>t DEF WorkInv, StrideInv
    <2> QED BY <2>1, <2>2 DEF Own
  <1>2. PreFails(j) = {} /\ results[w] = CleanResult /\ results[w].task = NoTask
    BY <1>s, <1>0 DEF WorkInv, ResultInv, CleanResult
  <1>3. /\ taskRuns'[c][t] = taskRuns[c][t] + 1
        /\ \A u \in Task : u # t => taskRuns'[c][u] = taskRuns[c][u]
    BY <1>c, <1>t, <1>1 DEF RunTask, IInv, TypeOK, HistoryTypeOK
  <1>4. /\ UNCHANGED <<observed, preRuns, completedPreflights, preflightFailed>>
        /\ \A v \in Worker : v # w => /\ wpc'[v] = wpc[v] /\ nextTask'[v] = nextTask[v]
                                      /\ results'[v] = results[v]
    BY DEF RunTask, IInv, TypeOK, WorkerTypeOK, subVars
  <1>5. \/ /\ j.out[t] \notin Failures /\ nextTask'[w] = t + j.active
           /\ results'[w] = results[w] /\ wpc'[w] \in {"tasks", "stopNotify"}
        \/ /\ j.out[t] \in Failures /\ nextTask'[w] = t
           /\ results'[w] = TaskResult(j, t) /\ wpc'[w] = "finish"
    <2>1. /\ nextTask \in [Worker -> Nat] /\ wpc \in [Worker -> WorkerPC]
          /\ results \in [Worker -> [status: Status, task: 0 .. NoTask]]
      BY DEF IInv, TypeOK, WorkerTypeOK
    <2>2. OnOwnWorker(w) BY <1>s DEF OnOwnWorker
    <2>3. Failures \cap {"success", "stop", "reenter"} = {}
      BY ConstantsAssumption
    <2>4. CASE j.out[t] \in Failures
      BY <1>c, <1>t, <2>1, <2>3, <2>4 DEF RunTask, TaskResult
    <2>5. CASE j.out[t] \notin Failures
      BY <1>s, <1>c, <1>t, <2>1, <2>2, <2>5 DEF RunTask, Stride
    <2> QED BY <2>4, <2>5
  <1>6. \A v \in Active(j) : v # w => WorkKept(c, v)
    <2> SUFFICES ASSUME NEW v \in Active(j), v # w PROVE WorkKept(c, v)
      OBVIOUS
    <2>1. \A u \in Own(j, v) : u \in Task /\ u # t
      BY <1>1 DEF Own
    <2> QED BY <1>3, <1>4, <2>1 DEF WorkKept, Active
  <1>7. w \in Arrived(j) /\ w \in Arrived(j)'
    BY <1>s, <1>0, <1>4, <1>5 DEF Arrived, Begun
  <1>8. BarrierInv(c)' /\ Arrived(j)' = Arrived(j)
    BY <1>0, <1>4, <1>6, <1>7, SameBarrier DEF SubmissionInv
  <1>9. taskRuns[c][t] = 0
    BY <1>0, <1>1, <1>2, <1>t DEF WorkInv, StrideInv
  <1>10. Begun(w)' BY <1>0, <1>4 DEF Begun
  <1>11. nextTask'[w] >= w /\ nextTask'[w] % j.active = w
    <2>1. CASE nextTask'[w] = t BY <1>1, <2>1
    <2>2. CASE nextTask'[w] = t + j.active
      <3>1. (t + j.active) % j.active = w BY <1>1, <1>j, StrideStep, Zenon
      <3>2. t + j.active >= w BY <1>1, <1>j
      <3> QED BY <2>2, <3>1, <3>2
    <2> QED BY <1>5, <2>1, <2>2
  <1>12. ASSUME NEW u \in Own(j, w)
         PROVE  /\ u < nextTask'[w] => u \notin TaskFails(j)
                /\ taskRuns'[c][u] =
                     IF /\ u < j.tasks
                        /\ u < nextTask'[w] \/ results'[w].task = u
                     THEN 1 ELSE 0
    <2>1. u \in Task /\ u \in Nat /\ u # NoTask
      BY ConstantsAssumption DEF Own, Task, NoTask
    <2>2. /\ u < t => u \notin TaskFails(j)
          /\ taskRuns[c][u] = IF u < j.tasks /\ u < t THEN 1 ELSE 0
      BY <1>0, <1>2, <1>t, <2>1 DEF WorkInv, StrideInv
    <2>3. CASE u = t
      <3>1. taskRuns'[c][u] = 1 BY <1>3, <1>9, <2>3
      <3>2. results'[w] = TaskResult(j, t) => results'[w].task = t
        BY DEF TaskResult
      <3> QED BY <1>1, <1>5, <1>j, <2>3, <3>1, <3>2 DEF TaskFails
    <2>4. CASE u # t
      <3>1. taskRuns'[c][u] = taskRuns[c][u] BY <1>3, <2>1, <2>4
      <3>2. t < u => t + j.active <= u
        <4>1. u % j.active = w BY DEF Own
        <4>2. t % j.active = u % j.active BY <1>1, <4>1
        <4> QED BY <1>j, <2>1, <4>2, StrideGap
      <3>3. u < nextTask'[w] <=> u < t
        <4>1. CASE nextTask'[w] = t BY <4>1
        <4>2. CASE nextTask'[w] = t + j.active
          BY <1>j, <2>1, <2>4, <3>2, <4>2
        <4> QED BY <1>5, <4>1, <4>2
      <3>4. results'[w].task # u
        BY <1>2, <1>5, <2>1, <2>4 DEF TaskResult
      <3> QED BY <2>2, <3>1, <3>3, <3>4
    <2> QED BY <2>3, <2>4
  <1>13. WorkInv(c, w)'
    <2>1. UntouchedInv(c, w)' BY <1>10 DEF UntouchedInv
    <2>2. StrideInv(c, w)'
      BY <1>0, <1>2, <1>11, <1>12 DEF StrideInv
    <2>3. j.preflight => Arrived(j) = Active(j)
      BY <1>s, <1>0 DEF WorkInv, PreflightInv, Through
    <2>4. PreflightInv(c, w)'
      BY <1>s, <1>0, <1>4, <1>5, <1>8, <2>3 DEF WorkInv, PreflightInv
    <2>5. t \in TaskFails(j) <=> j.out[t] \in Failures
      BY <1>1 DEF TaskFails
    <2>6. TaskResult(j, t)' = TaskResult(j, t) BY <1>0 DEF TaskResult
    <2>7. ResultInv(c, w)'
      BY <1>0, <1>2, <1>5, <2>5, <2>6 DEF ResultInv, Over, Busy, TaskResult
    <2> QED BY <2>1, <2>2, <2>4, <2>7 DEF WorkInv
  <1> QED BY <1>s, <1>0, <1>6, <1>7, <1>8, <1>13, BusyStep

\* Every step of a worker.
LEMMA WorkerServed ==
  ASSUME IInv, ServedInv, NEW w \in Worker, WorkerStep(w)
  PROVE  ServedInv'
  BY IdleSteps, PickUpServed, RunPreflightServed, ArriveServed,
     LeaveBarrierServed, RunTaskServed, OnwardServed
  DEF WorkerStep

-----------------------------------------------------------------------------
(* The callers' steps                                                      *)

\* A step of the calls that does no work for a submission.
LEMMA CallsKept ==
  ASSUME IInv, ServedInv, NEW c \in Callers, cpc[c] \in Served,
         UNCHANGED <<epoch, observed, results, nextTask, wpc, preRuns, taskRuns,
                     completedPreflights, preflightFailed>>,
         job'[c] = job[c],
         cpc'[c] \in {"count", "collect"} =>
           \/ cpc[c] \in {"count", "collect"}
           \/ \A w \in Active(job[c]) : Begun(w) /\ wpc[w] \notin Busy
  PROVE  SubmissionInv(c)'
  <1>1. SubmissionInv(c) BY DEF ServedInv
  <1>2. Active(job[c]) \subseteq Worker BY DEF Active
  <1>3. \A v \in Active(job[c]) : WorkKept(c, v) BY DEF WorkKept
  <1>4. CompleteInv(c)'
    <2>1. Active(job[c])' = Active(job[c]) BY DEF Active
    <2> QED BY <1>1, <2>1 DEF SubmissionInv, CompleteInv, Begun
  <1> QED BY <1>1, <1>2, <1>3, <1>4, KeptSubmission

\* The submitter is told of the completion only when every active worker has
\* been through it.
LEMMA AwaitServed ==
  ASSUME IInv, ServedInv, NEW c \in Callers, Await(c)
  PROVE  ServedInv'
  <1> SUFFICES ASSUME NEW d \in Callers, cpc'[d] \in Served
               PROVE  SubmissionInv(d)'
    BY DEF ServedInv
  <1>1. /\ cpc[c] = "await" /\ submission = c /\ c # NoOne
    BY ConstantsAssumption DEF Await, IInv, PointerInv, Serving
  <1>2. cpc[d] \in Served /\ d = c
    <2>1. cpc[d] \in Served BY DEF Await, IInv, TypeOK, CallerTypeOK, Served
    <2> QED BY <1>1, <2>1, OneServed DEF Served
  <1>3. cpc'[c] = "count" =>
          \A w \in Active(job[c]) : Begun(w) /\ wpc[w] \notin Busy
    <2> SUFFICES ASSUME cpc'[c] = "count", NEW w \in Active(job[c])
                 PROVE  Begun(w) /\ wpc[w] \notin Busy
      OBVIOUS
    <2>1. completedWorkers[submission] = job[submission].active
      BY <1>1 DEF Await
    <2>2. w \in Worker /\ w < job[submission].active BY <1>1 DEF Active
    <2>3. current[w] = NoOne /\ observed[w] = epoch
      BY <1>1, <2>1, <2>2, CompleteMeansReturned
    <2> QED BY <2>2, <2>3 DEF IInv, BusyInv, Begun
  <1>4. cpc'[c] \in {"await", "count"}
    BY <1>1 DEF Await, IInv, TypeOK, CallerTypeOK
  <1> QED BY <1>2, <1>3, <1>4, CallsKept DEF Await, workerVars, subVars, history

\* Publishing: nothing has been done for the fresh submission, and nothing is
\* left of an earlier one.
LEMMA PublishServed ==
  ASSUME IInv, ServedInv, NEW c \in Callers, Publish(c)
  PROVE  ServedInv'
  <1> DEFINE j == job[c]
  <1> SUFFICES ASSUME NEW d \in Callers, cpc'[d] \in Served
               PROVE  SubmissionInv(d)'
    BY DEF ServedInv
  <1>1. d = c
    BY DEF Publish, IInv, TypeOK, CallerTypeOK, MutexInv, Served, Holding
  <1>2. /\ UNCHANGED <<job, observed, nextTask>>
        /\ cpc'[c] = "notify" /\ epoch' = epoch + 1
        /\ completedPreflights'[c] = 0 /\ preflightFailed'[c] = FALSE
        /\ results' = FreshResults(j)
        /\ preRuns'[c] = [w \in Worker |-> 0]
        /\ taskRuns'[c] = [t \in Task |-> 0]
    BY DEF Publish, IInv, TypeOK, CallerTypeOK, SubmissionTypeOK, HistoryTypeOK
  <1>3. \A w \in Worker : ~Begun(w)'
    <2>1. \A w \in Worker : observed[w] \in Nat /\ observed[w] <= epoch
      BY DEF IInv, BusyInv, TypeOK, WorkerTypeOK
    <2> QED BY <1>2, <2>1 DEF Begun, IInv, TypeOK, SharedTypeOK
  <1>4. Active(j)' \subseteq Worker /\ Active(j)' = Active(j) BY <1>2 DEF Active
  <1>5. BarrierInv(c)'
    <2>1. Arrived(j)' = {} BY <1>3, <1>4 DEF Arrived
    <2> QED BY <1>2, <2>1, FS_EmptySet DEF BarrierInv
  <1>6. CompleteInv(c)' BY <1>2 DEF CompleteInv
  <1>7. ASSUME NEW w \in Active(j)
        PROVE  WorkInv(c, w)'
    <2>1. w \in Worker /\ w < j.active BY DEF Active
    <2>2. ~Begun(w)' BY <1>3, <2>1
    <2>3. results'[w] = CleanResult BY <1>2, <2>1 DEF FreshResults
    <2>4. \A t \in Own(j, w)' : t \in Task BY DEF Own
    <2>5. UntouchedInv(c, w)'
      BY <1>2, <2>1, <2>3, <2>4 DEF UntouchedInv
    <2> QED BY <2>2, <2>5 DEF WorkInv, StrideInv, PreflightInv, ResultInv,
              Through, Over
  <1> QED BY <1>1, <1>4, <1>5, <1>6, <1>7 DEF SubmissionInv

\* The other steps of the calls.
LEMMA OtherCallsServed ==
  ASSUME IInv, ServedInv, NEW c \in Callers,
         \/ Lock(c) \/ RefuseStopping(c) \/ NotifyWork(c) \/ Count(c)
         \/ Collect(c) \/ ShutdownStop(c) \/ Join(c) \/ Shutdown(c)
         \/ \E j \in Jobs : RunTasks(c, j)
  PROVE  ServedInv'
  <1> SUFFICES ASSUME NEW d \in Callers, cpc'[d] \in Served
               PROVE  SubmissionInv(d)'
    BY DEF ServedInv
  <1>1. UNCHANGED <<epoch, observed, results, nextTask, wpc, preRuns, taskRuns,
                    completedPreflights, preflightFailed>>
    BY DEF Lock, RefuseStopping, NotifyWork, Count, Collect, ShutdownStop, Join,
        Shutdown, RunTasks, sharedVars, workerVars, subVars, history
  <1>2. /\ cpc[d] \in Served
        /\ cpc'[d] \in {"count", "collect"} => cpc[d] \in {"count", "collect"}
    BY DEF Lock, RefuseStopping, NotifyWork, Count, Collect, ShutdownStop, Join,
        Shutdown, RunTasks, IInv, TypeOK, CallerTypeOK, Served
  <1>3. job'[d] = job[d]
    BY <1>2 DEF Lock, RefuseStopping, NotifyWork, Count, Collect, ShutdownStop,
        Join, Shutdown, RunTasks, IInv, TypeOK, CallerTypeOK, Served
  <1> QED BY <1>1, <1>2, <1>3, CallsKept

\* Nobody is served while create() is under way.
LEMMA CreateServed ==
  ASSUME IInv, Create
  PROVE  ServedInv'
  <1>1. UNCHANGED cpc BY CallsFrame
  <1>2. phase # "ready"
    BY DEF Create, Spawn, SpawnFails, AwaitStartup, AbortStop, AbortNotify,
        AbortJoin
  <1> QED BY <1>1, <1>2 DEF IInv, ThreadInv, ServedInv, Served

\* Nothing at all happens to a submission.
LEMMA StutterServed ==
  ASSUME IInv, ServedInv, SpuriousWakeup \/ UNCHANGED vars
  PROVE  ServedInv'
  <1> SUFFICES ASSUME NEW d \in Callers, cpc'[d] \in Served
               PROVE  SubmissionInv(d)'
    BY DEF ServedInv
  <1>1. UNCHANGED <<epoch, observed, results, nextTask, wpc, preRuns, taskRuns,
                    completedPreflights, preflightFailed, cpc, job>>
    BY DEF SpuriousWakeup, vars, sharedVars, workerVars, subVars, history, callVars
  <1> QED BY <1>1, CallsKept

\* The initial states: nobody is served.
LEMMA InitServed == Init => ServedInv
  BY DEF Init, ServedInv, Served

LEMMA NextServed == ASSUME IInv, ServedInv, [Next]_vars PROVE ServedInv'
  BY WorkerServed, AwaitServed, PublishServed, OtherCallsServed, CreateServed,
     StutterServed
  DEF Next, CallerStep

-----------------------------------------------------------------------------
(* What the invariant says about the barrier, the tasks and the report     *)

\* Every task is some active worker's.
LEMMA Owner ==
  ASSUME IInv, NEW c \in Callers, cpc[c] \in Served, NEW t \in Task
  PROVE  \E v \in Active(job[c]) : t \in Own(job[c], v) /\ t % job[c].active = v /\ v <= t
  <1>1. job[c].active \in Nat \ {0} /\ t \in Nat
    BY ServedJob, ConstantsAssumption DEF Task
  <1>2. PICK a \in Nat \ {0} : a = job[c].active BY <1>1
  <1>3. t % a \in 0 .. a - 1 /\ t % a <= t BY <1>1, <1>2, Division
  <1>4. t % a \in Active(job[c]) BY <1>2, <1>3, ServedJob, Zenon
  <1> WITNESS t % a \in Active(job[c])
  <1> QED BY <1>2, <1>3 DEF Own

\* What StrideInv says of a worker that has begun, without the remainder.
LEMMA StrideFacts ==
  ASSUME NEW c \in Callers, NEW w \in Worker, WorkInv(c, w), Begun(w)
  PROVE  /\ nextTask[w] # w => PreFails(job[c]) = {}
         /\ \A t \in Own(job[c], w) :
              taskRuns[c][t] =
                IF /\ t < job[c].tasks
                   /\ \/ t < nextTask[w]
                      \/ PreFails(job[c]) = {} /\ results[w].task = t
                THEN 1 ELSE 0
  BY Zenon DEF WorkInv, StrideInv

\* A worker that has run a task was let through the barrier.
LEMMA BarrierHolds == ASSUME IInv, ServedInv PROVE PreflightBarrier
  <1> SUFFICES ASSUME NEW c \in Callers, cpc[c] \in Served, job[c].preflight,
                      NEW t \in Task, taskRuns[c][t] > 0,
                      NEW w \in Active(job[c])
               PROVE  preRuns[c][w] = 1 /\ job[c].pre[w] = "success"
    BY DEF PreflightBarrier, Served
  <1> DEFINE j == job[c]
  <1>1. PICK v \in Active(j) : t \in Own(j, v) /\ v <= t
    BY Owner
  <1>2. WorkInv(c, v) /\ WorkInv(c, w) BY DEF ServedInv, SubmissionInv
  <1>3. Begun(v) BY <1>1, <1>2 DEF WorkInv, UntouchedInv
  <1>4. /\ t \in Nat /\ v \in Nat /\ nextTask[v] \in Nat
        /\ t # NoTask
    BY ConstantsAssumption DEF Task, Active, Worker, NoTask, IInv, TypeOK, WorkerTypeOK
  <1>5. t < nextTask[v] \/ (PreFails(j) = {} /\ results[v].task = t)
    <2>1. v \in Worker BY DEF Active
    <2> QED BY <1>1, <1>2, <1>3, <2>1, StrideFacts
  <1>6. PreFails(j) = {}
    <2>1. v \in Worker BY DEF Active
    <2>2. t < nextTask[v] => nextTask[v] # v BY <1>1, <1>4
    <2> QED BY <1>2, <1>3, <1>5, <2>1, <2>2, StrideFacts
  <1>7. Through(v)
    <2> SUFFICES ASSUME wpc[v] \in {"preflight", "arrive", "barrier"} PROVE FALSE
      BY <1>3 DEF Through
    <2>1. nextTask[v] = v /\ results[v] = CleanResult
      BY <1>2, <1>3, <1>6 DEF WorkInv, PreflightInv, PreResult
    <2> QED BY <1>1, <1>4, <1>5, <2>1 DEF CleanResult
  <1>8. Arrived(j) = Active(j)
    BY <1>2, <1>3, <1>7 DEF WorkInv, PreflightInv
  <1>9. Begun(w) /\ wpc[w] # "preflight" BY <1>8 DEF Arrived
  <1>10. preRuns[c][w] = 1 BY <1>2, <1>9 DEF WorkInv, PreflightInv
  <1> QED BY <1>6, <1>10 DEF PreFails

\* When a submission is complete every active worker has its final result.
LEMMA FinalResult ==
  ASSUME IInv, ServedInv, NEW c \in Callers, cpc[c] \in {"count", "collect"},
         NEW w \in Active(job[c])
  PROVE  /\ cpc[c] \in Served /\ WorkInv(c, w) /\ Begun(w)
         /\ IF PreFails(job[c]) # {}
            THEN nextTask[w] = w /\ results[w] = PreResult(job[c], w)
            ELSE \/ results[w] = CleanResult /\ nextTask[w] >= job[c].tasks
                 \/ /\ nextTask[w] \in TaskFails(job[c])
                    /\ results[w] = TaskResult(job[c], nextTask[w])
  <1>1. cpc[c] \in Served BY DEF Served
  <1>2. WorkInv(c, w) /\ Begun(w) /\ Over(w)
    BY <1>1 DEF ServedInv, SubmissionInv, CompleteInv, Over
  <1> QED BY <1>1, <1>2 DEF WorkInv, ResultInv

\* A failing task that has not stopped its worker is not behind the worker.
LEMMA FailedTaskAhead ==
  ASSUME IInv, ServedInv, NEW c \in Callers, cpc[c] \in Served,
         NEW w \in Active(job[c]), Begun(w), NEW t \in Own(job[c], w),
         t \in TaskFails(job[c])
  PROVE  nextTask[w] <= t
  <1>1. WorkInv(c, w) BY DEF ServedInv, SubmissionInv
  <1>2. t \in Nat /\ nextTask[w] \in Nat
    BY ConstantsAssumption DEF Own, Task, Active, IInv, TypeOK, WorkerTypeOK
  <1> QED BY <1>1, <1>2 DEF WorkInv, StrideInv

\* Exactly the tasks that must run have run.
LEMMA TasksCounted == ASSUME IInv, ServedInv PROVE TasksRunExactlyOnce
  <1> SUFFICES ASSUME NEW c \in Callers, cpc[c] \in {"count", "collect"},
                      NEW t \in Task
               PROVE  taskRuns[c][t] = IF MustRun(job[c], t) THEN 1 ELSE 0
    BY DEF TasksRunExactlyOnce
  <1> DEFINE j == job[c]
  <1>1. PICK v \in Active(j) : t \in Own(j, v) /\ t % j.active = v /\ v <= t
    BY Owner DEF Served
  <1>2. /\ WorkInv(c, v) /\ Begun(v) /\ cpc[c] \in Served
        /\ IF PreFails(j) # {}
           THEN nextTask[v] = v /\ results[v] = PreResult(j, v)
           ELSE \/ results[v] = CleanResult /\ nextTask[v] >= j.tasks
                \/ /\ nextTask[v] \in TaskFails(j)
                   /\ results[v] = TaskResult(j, nextTask[v])
    BY FinalResult
  <1>3. /\ t \in Nat /\ v \in Nat /\ nextTask[v] \in Nat /\ t # NoTask
        /\ j.tasks \in Nat
    <2>1. j.tasks \in Nat BY <1>2, ServedJob, ConstantsAssumption
    <2> QED BY <2>1, ConstantsAssumption
        DEF Task, Active, Worker, NoTask, IInv, TypeOK, WorkerTypeOK
  <1>4. taskRuns[c][t] =
          IF t < j.tasks /\ (t < nextTask[v] \/ (PreFails(j) = {} /\ results[v].task = t))
          THEN 1 ELSE 0
    <2>1. v \in Worker BY DEF Active
    <2> QED BY <1>1, <1>2, <2>1, StrideFacts
  <1>m. MustRun(j, t) => t < j.tasks BY Zenon DEF MustRun
  <1>5. CASE PreFails(j) # {}
    BY <1>1, <1>2, <1>3, <1>4, <1>5 DEF MustRun
  <1>6. CASE PreFails(j) = {}
    <2>1. \A u \in Task : u % j.active = t % j.active /\ u \in TaskFails(j)
             => nextTask[v] <= u
      <3> SUFFICES ASSUME NEW u \in Task, u % j.active = t % j.active,
                          u \in TaskFails(j)
                   PROVE  nextTask[v] <= u
        OBVIOUS
      <3>1. u \in Own(j, v) BY <1>1 DEF Own
      <3> QED BY <1>2, <3>1, FailedTaskAhead
    <2>2. \A u \in Task : u \in Nat BY ConstantsAssumption DEF Task
    <2>3. CASE results[v] = CleanResult /\ nextTask[v] >= j.tasks
      <3>1. results[v].task # t BY <1>3, <2>3 DEF CleanResult
      <3>2. t < j.tasks => MustRun(j, t)
        <4> HAVE t < j.tasks
        <4>1. t < nextTask[v] BY <1>3, <2>3
        <4> QED BY <1>3, <1>6, <2>1, <2>2, <4>1 DEF MustRun
      <3>3. t < j.tasks => t < nextTask[v] BY <1>3, <2>3
      <3> QED BY <1>4, <1>m, <3>1, <3>2, <3>3
    <2>4. CASE /\ nextTask[v] \in TaskFails(j)
               /\ results[v] = TaskResult(j, nextTask[v])
      <3>1. results[v].task = nextTask[v] BY <2>4 DEF TaskResult
      <3>2. nextTask[v] \in Task /\ nextTask[v] % j.active = t % j.active
        BY <1>1, <1>2, <2>4 DEF WorkInv, StrideInv, TaskFails
      <3>3. CASE nextTask[v] < t
        <4>1. ~MustRun(j, t) BY <2>4, <3>2, <3>3 DEF MustRun
        <4> QED BY <1>3, <1>4, <3>1, <3>3, <4>1
      <3>4. CASE t <= nextTask[v]
        <4>1. t < j.tasks => MustRun(j, t)
          BY <1>3, <1>6, <2>1, <2>2, <3>4 DEF MustRun
        <4>2. t < nextTask[v] \/ results[v].task = t
          BY <1>3, <3>1, <3>4
        <4> QED BY <1>4, <1>m, <1>6, <4>1, <4>2
      <3> QED BY <1>3, <3>3, <3>4
    <2> QED BY <1>2, <1>6, <2>3, <2>4
  <1> QED BY <1>5, <1>6

\* The scan for the report finds the worker that beats all others.
LEMMA ReportedIs ==
  ASSUME NEW j, NEW m \in Worker, m < j.active, results[m].task # NoTask,
         \A v \in Worker : v < j.active => results[v].task \in Nat,
         \A v \in Worker : v < j.active =>
             \/ results[m].task < results[v].task
             \/ results[m].task = results[v].task /\ m <= v
  PROVE  Reported(j) = results[m].status
  <1> DEFINE D(w) ==
        /\ w < j.active /\ results[w].task # NoTask
        /\ \A v \in Worker : v < j.active =>
             \/ results[w].task < results[v].task
             \/ results[w].task = results[v].task /\ w <= v
  <1>1. D(m) OBVIOUS
  <1>2. ASSUME NEW w \in Worker, D(w) PROVE w = m
    <2>1. /\ results[w].task \in Nat /\ results[m].task \in Nat
          /\ w \in Nat /\ m \in Nat
      BY <1>2, ConstantsAssumption DEF Worker
    <2>2. /\ \/ results[w].task < results[m].task
             \/ results[w].task = results[m].task /\ w <= m
          /\ \/ results[m].task < results[w].task
             \/ results[m].task = results[w].task /\ m <= w
      BY <1>2
    <2> QED BY <2>1, <2>2
  <1>3. Reported(j) = IF \E w \in Worker : D(w)
                      THEN results[CHOOSE w \in Worker : D(w)].status
                      ELSE "success"
    BY Zenon DEF Reported
  <1>4. \E w \in Worker : D(w) BY <1>1, Zenon
  <1> HIDE DEF D
  <1>5. (CHOOSE w \in Worker : D(w)) = m BY <1>2, <1>4
  <1> QED BY <1>3, <1>4, <1>5

\* The report is what the job determines.
LEMMA ReportDetermined == ASSUME IInv, ServedInv PROVE ReportedStatusIsDeterministic
  <1> SUFFICES ASSUME NEW c \in Callers, cpc[c] = "collect"
               PROVE  Reported(job[c]) = ExpectedStatus(job[c])
    BY DEF ReportedStatusIsDeterministic
  <1> DEFINE j == job[c]
  <1>0. cpc[c] \in Served /\ cpc[c] \in {"count", "collect"} BY DEF Served
  <1>1. \A w \in Worker : w < j.active => w \in Active(j) /\ results[w].task \in Nat
    BY ConstantsAssumption DEF Active, IInv, TypeOK, WorkerTypeOK, NoTask
  <1>2. NoTask \in Nat /\ 0 < NoTask BY ConstantsAssumption DEF NoTask
  <1>3. CASE PreFails(j) # {}
    <2>1. \A w \in Active(j) : results[w] = PreResult(j, w)
      BY <1>0, <1>3, FinalResult
    <2>2. PICK m \in PreFails(j) :
            m = Least(PreFails(j)) /\ \A y \in PreFails(j) : m <= y
      <3>1. PreFails(j) \in SUBSET Nat
        BY ConstantsAssumption DEF PreFails, Active, Worker
      <3> QED BY <1>3, <3>1, LeastExists
    <2>3. m \in Worker /\ m < j.active /\ m \in Active(j) BY DEF PreFails, Active
    <2>4. results[m] = [status |-> j.pre[m], task |-> 0]
      BY <2>1, <2>3 DEF PreResult
    <2>5. ASSUME NEW v \in Worker, v < j.active
          PROVE  \/ results[m].task < results[v].task
                 \/ results[m].task = results[v].task /\ m <= v
      <3>1. results[v] = PreResult(j, v) BY <1>1, <2>1, <2>5
      <3>2. CASE v \in PreFails(j)
        BY <2>2, <2>4, <3>1, <3>2 DEF PreResult
      <3>3. CASE v \notin PreFails(j)
        BY <1>2, <2>4, <3>1, <3>3 DEF PreResult, CleanResult
      <3> QED BY <3>2, <3>3
    <2>6. results[m].task # NoTask /\ results[m].status = j.pre[m]
      BY <1>2, <2>4
    <2>7. Reported(j) = results[m].status
      BY <1>1, <2>3, <2>5, <2>6, ReportedIs
    <2> QED BY <1>3, <2>2, <2>6, <2>7 DEF ExpectedStatus
  <1>4. CASE PreFails(j) = {} /\ TaskFails(j) = {}
    <2>1. \A w \in Active(j) : results[w] = CleanResult
      BY <1>0, <1>4, FinalResult
    <2>2. \A w \in Worker : w < j.active => results[w].task = NoTask
      BY <1>1, <2>1 DEF CleanResult
    <2>3. Reported(j) = "success" BY <2>2, Zenon DEF Reported
    <2> QED BY <1>4, <2>3 DEF ExpectedStatus
  <1>5. CASE PreFails(j) = {} /\ TaskFails(j) # {}
    <2>1. PICK t \in TaskFails(j) :
            t = Least(TaskFails(j)) /\ \A y \in TaskFails(j) : t <= y
      <3>1. TaskFails(j) \in SUBSET Nat
        BY ConstantsAssumption DEF TaskFails, Task
      <3> QED BY <1>5, <3>1, LeastExists
    <2>2. t \in Task /\ t < j.tasks BY DEF TaskFails
    <2>n. /\ \A u \in TaskFails(j) : u \in Nat /\ u < NoTask
          /\ t \in Nat /\ j.tasks \in Nat
      BY <1>0, <2>2, ServedJob, ConstantsAssumption DEF TaskFails, Task, NoTask
    <2>3. PICK m \in Active(j) : t \in Own(j, m) /\ t % j.active = m
      BY <1>0, <2>2, Owner
    <2>4. nextTask[m] <= t BY <1>0, <2>3, FailedTaskAhead, FinalResult
    <2>5. nextTask[m] = t /\ results[m] = TaskResult(j, t)
      <3>1. nextTask[m] \in Nat BY DEF Active, IInv, TypeOK, WorkerTypeOK
      <3>2. ~(nextTask[m] >= j.tasks) BY <2>2, <2>4, <2>n, <3>1
      <3>3. nextTask[m] \in TaskFails(j) /\ results[m] = TaskResult(j, nextTask[m])
        BY <1>0, <1>5, <3>2, FinalResult
      <3> QED BY <2>1, <2>4, <2>n, <3>1, <3>3
    <2>6. /\ m \in Worker /\ m < j.active /\ results[m].task = t /\ t # NoTask
          /\ results[m].status = j.out[t]
      BY <2>2, <2>5, <2>n DEF TaskResult, Active
    <2>7. ASSUME NEW v \in Worker, v < j.active
          PROVE  \/ results[m].task < results[v].task
                 \/ results[m].task = results[v].task /\ m <= v
      <3>1. v \in Active(j) BY <2>7 DEF Active
      <3>2. CASE results[v] = CleanResult
        <4>1. results[v].task = NoTask BY <3>2 DEF CleanResult
        <4> QED BY <1>2, <2>6, <2>n, <4>1
      <3>3. CASE /\ nextTask[v] \in TaskFails(j)
                 /\ results[v] = TaskResult(j, nextTask[v])
        <4>1. results[v].task = nextTask[v] /\ t <= nextTask[v]
          BY <2>1, <3>3 DEF TaskResult
        <4>2. nextTask[v] % j.active = v
          BY <1>0, <3>1, FinalResult DEF WorkInv, StrideInv
        <4>3. nextTask[v] = t => v = m BY <2>3, <4>2
        <4>4. v \in Nat BY ConstantsAssumption DEF Worker
        <4>5. nextTask[v] \in Nat BY <2>n, <3>3
        <4> HIDE DEF j
        <4> QED BY <2>6, <2>n, <4>1, <4>3, <4>4, <4>5
      <3> QED BY <1>0, <1>5, <3>1, <3>2, <3>3, FinalResult
    <2>8. Reported(j) = results[m].status
      BY <1>1, <2>6, <2>7, ReportedIs
    <2> QED BY <1>5, <2>1, <2>6, <2>8 DEF ExpectedStatus
  <1> QED BY <1>3, <1>4, <1>5

-----------------------------------------------------------------------------
(* The promise of SerialSubmissions                                        *)

\* shutdown() joins only after it has set the stop flag.
StopInv == \A c \in Callers : cpc[c] \in {"shutdownNotify", "join"} => stopping

LEMMA NextStopInv == ASSUME IInv, StopInv, [Next]_vars PROVE StopInv'
  <1>1. CASE Create \/ SpuriousWakeup \/ \E w \in Worker : WorkerStep(w)
    <2>1. UNCHANGED cpc BY <1>1, CallsFrame
    <2>2. stopping => stopping'
      BY <1>1 DEF Create, Spawn, SpawnFails, AwaitStartup, AbortStop,
          AbortNotify, AbortJoin, SpuriousWakeup, WorkerStep, Initialize,
          Announce, Sleep, Exit, PickUp, RunPreflight, Arrive, LeaveBarrier,
          RunTask, StopNotify, TasksDone, Finish, sharedVars
    <2> QED BY <2>1, <2>2 DEF StopInv
  <1>2. ASSUME NEW c \in Callers,
               \/ CallerStep(c) \/ Shutdown(c)
               \/ \E j \in Jobs : RunTasks(c, j)
        PROVE  StopInv'
    BY <1>2 DEF CallerStep, Lock, Publish, RefuseStopping, NotifyWork, Await,
        Count, Collect, ShutdownStop, Join, Shutdown, RunTasks, sharedVars,
        StopInv, IInv, TypeOK, CallerTypeOK
  <1>3. CASE UNCHANGED vars
    BY <1>3 DEF vars, callVars, sharedVars, StopInv
  <1> QED BY <1>1, <1>2, <1>3 DEF Next

\* Whoever holds submission_mutex without having published: no submission is.
LEMMA NothingPublished ==
  ASSUME IInv, NEW c \in Callers, cpc[c] \in Holding \ Serving
  PROVE  submission = NoOne
  BY DEF IInv, MutexInv, PointerInv, TypeOK, SharedTypeOK, Holding, Serving

\* What concerns no call is a step of the promise or none.
LEMMA InternalStep ==
  ASSUME IInv, Create \/ SpuriousWakeup \/ \E w \in Worker : WorkerStep(w)
  PROVE  [Promise!Next]_(Promise!vars)
  <1>1. UNCHANGED <<cpc, job, ret, submission>> BY CallsFrame
  <1>2. CASE stopping' = stopping
    BY <1>1, <1>2 DEF Promise!vars
  <1>3. CASE stopping' # stopping
    <2>1. AbortStop \/ \E w \in Worker : RunTask(w)
      BY <1>3 DEF Create, Spawn, SpawnFails, AwaitStartup, AbortNotify,
          AbortJoin, SpuriousWakeup, WorkerStep, Initialize, Announce, Sleep,
          Exit, PickUp, RunPreflight, Arrive, LeaveBarrier, StopNotify,
          TasksDone, Finish, sharedVars
    <2>2. stopping' = TRUE
      BY <1>3, <2>1 DEF AbortStop, RunTask, IInv, TypeOK, SharedTypeOK
    <2>3. CASE AbortStop
      <3>1. \A c \in Callers : cpc[c] = "idle"
        BY <2>3 DEF AbortStop, IInv, ThreadInv
      <3>2. Promise!RequestStop BY <1>1, <2>2, <3>1 DEF Promise!RequestStop
      <3> QED BY <3>2 DEF Promise!Next
    <2>4. CASE \E w \in Worker : RunTask(w)
      <3>1. submission # NoOne
        BY <2>4, ConstantsAssumption DEF RunTask, IInv, BusyInv, Busy
      <3>2. Promise!RequestStop BY <1>1, <2>2, <3>1 DEF Promise!RequestStop
      <3> QED BY <3>2 DEF Promise!Next
    <2> QED BY <2>1, <2>3, <2>4
  <1> QED BY <1>2, <1>3

\* Every step of a call is the step of the promise it stands for, or none.
LEMMA CallStep ==
  ASSUME IInv, ServedInv, StopInv, NEW c \in Callers,
         \/ CallerStep(c) \/ Shutdown(c)
         \/ \E j \in Jobs : RunTasks(c, j)
  PROVE  [Promise!Next]_(Promise!vars)
  <1> USE DEF IInv, TypeOK, CallerTypeOK, SharedTypeOK
  <1>1. ASSUME NEW j \in Jobs, RunTasks(c, j) PROVE Promise!Next
    <2>1. /\ cpc[c] = "idle" /\ ret' = [ret EXCEPT ![c] = Rejection(j)]
          /\ UNCHANGED <<stopping, submission>>
          /\ Rejection(j) = "none" =>
               cpc' = [cpc EXCEPT ![c] = "lock"] /\ job' = [job EXCEPT ![c] = j]
          /\ Rejection(j) # "none" => UNCHANGED <<cpc, job>>
      BY <1>1 DEF RunTasks, sharedVars
    <2>2. Promise!Ask(c, j)
      <3>1. CASE Rejection(j) = "none"
        <4>1. cpc' = [cpc EXCEPT ![c] = "lock"] /\ job' = [job EXCEPT ![c] = j]
          BY <2>1, <3>1
        <4> QED BY <2>1, <3>1, <4>1 DEF Promise!Ask
      <3>2. CASE Rejection(j) # "none"
        BY <2>1, <3>2 DEF Promise!Ask
      <3> QED BY <3>1, <3>2
    <2> QED BY <2>2 DEF Promise!Next
  <1>2. CASE Lock(c)
    BY <1>2 DEF Lock, sharedVars, Promise!vars
  <1>3. CASE Publish(c)
    <2>1. submission = NoOne /\ stopping = FALSE
      BY <1>3, NothingPublished DEF Publish, Accepting, Holding, Serving
    <2>2. \A d \in Callers : cpc[d] \notin {"count", "collect"}
      BY <1>3 DEF Publish, MutexInv, Holding
    <2>3. Promise!Accept(c)
      BY <1>3, <2>1, <2>2 DEF Publish, Promise!Accept
    <2> QED BY <2>3 DEF Promise!Next
  <1>4. CASE RefuseStopping(c)
    <2>1. Promise!Refuse(c)
      BY <1>4 DEF RefuseStopping, Accepting, sharedVars, Promise!Refuse
    <2> QED BY <2>1 DEF Promise!Next
  <1>5. CASE NotifyWork(c)
    BY <1>5 DEF NotifyWork, sharedVars, Promise!vars
  <1>6. CASE Await(c)
    <2>1. CASE completedWorkers[c] = job[c].active
      <3>1. submission = c
        BY <1>6 DEF Await, PointerInv, Serving
      <3>2. Promise!Serve(c)
        BY <1>6, <2>1, <3>1 DEF Await, Promise!Serve
      <3> QED BY <3>2 DEF Promise!Next
    <2>2. CASE completedWorkers[c] # job[c].active
      BY <1>6, <2>2 DEF Await, Promise!vars
    <2> QED BY <2>1, <2>2
  <1>7. CASE Count(c)
    BY <1>7 DEF Count, sharedVars, Promise!vars
  <1>8. CASE Collect(c)
    <2>1. Reported(job[c]) = ExpectedStatus(job[c])
      BY <1>8, ReportDetermined DEF Collect, ReportedStatusIsDeterministic
    <2>2. Promise!Answer(c)
      BY <1>8, <2>1 DEF Collect, sharedVars, Promise!Answer
    <2> QED BY <2>2 DEF Promise!Next
  <1>9. CASE ShutdownStop(c)
    <2>1. submission = NoOne
      BY <1>9, NothingPublished DEF ShutdownStop, Holding, Serving
    <2>2. CASE stopping /\ workers = 0
      <3>1. Promise!Closed(c)
        BY <1>9, <2>1, <2>2 DEF ShutdownStop, Promise!Closed
      <3> QED BY <3>1 DEF Promise!Next
    <2>3. CASE ~(stopping /\ workers = 0)
      <3>1. Promise!RequestStop
        BY <1>9, <2>3 DEF ShutdownStop, Promise!RequestStop
      <3> QED BY <3>1 DEF Promise!Next
    <2> QED BY <2>2, <2>3
  <1>10. CASE Join(c)
    <2>1. submission = NoOne /\ stopping
      BY <1>10, NothingPublished DEF Join, Holding, Serving, StopInv
    <2>2. Promise!Closed(c)
      BY <1>10, <2>1 DEF Join, sharedVars, Promise!Closed
    <2> QED BY <2>2 DEF Promise!Next
  <1>11. CASE Shutdown(c)
    <2>1. Promise!Close(c)
      BY <1>11 DEF Shutdown, sharedVars, Promise!Close
    <2> QED BY <2>1 DEF Promise!Next
  <1> QED BY <1>1, <1>2, <1>3, <1>4, <1>5, <1>6, <1>7, <1>8, <1>9, <1>10, <1>11
          DEF CallerStep

\* The initial states of the context are initial states of the promise.
LEMMA InitPromise == Init => Promise!Init /\ StopInv
  BY DEF Init, Promise!Init, StopInv

-----------------------------------------------------------------------------
(* The theorems                                                            *)

\* The served submission is as the invariant says, throughout.
THEOREM ServedInvariance == Spec => []ServedInv
  <1>1. IInv /\ ServedInv /\ [Next]_vars => ServedInv'
    BY NextServed
  <1> QED BY InitServed, Invariance, <1>1, PTL DEF Spec

\* No task of a submission with a preflight starts before every active worker
\* has run its preflight, once and successfully.
THEOREM BarrierSafety == Spec => []PreflightBarrier
  <1>1. IInv /\ ServedInv => PreflightBarrier BY BarrierHolds
  <1> QED BY Invariance, ServedInvariance, <1>1, PTL

\* When run_tasks learns of the completion, exactly the tasks that must run
\* have run, each once.
THEOREM TasksExactlyOnce == Spec => []TasksRunExactlyOnce
  <1>1. IInv /\ ServedInv => TasksRunExactlyOnce BY TasksCounted
  <1> QED BY Invariance, ServedInvariance, <1>1, PTL

\* The status run_tasks reports is a function of the job.
THEOREM DeterministicReport == Spec => []ReportedStatusIsDeterministic
  <1>1. IInv /\ ServedInv => ReportedStatusIsDeterministic BY ReportDetermined
  <1> QED BY Invariance, ServedInvariance, <1>1, PTL

\* The context implements what the header promises to its callers.
THEOREM PromiseKept == Spec => ImplementsSerialSubmissions
  <1>1. IInv /\ StopInv /\ [Next]_vars => StopInv'
    BY NextStopInv
  <1>2. IInv /\ ServedInv /\ StopInv /\ [Next]_vars => [Promise!Next]_(Promise!vars)
    <2>1. UNCHANGED vars => UNCHANGED Promise!vars
      BY DEF vars, callVars, sharedVars, Promise!vars
    <2> QED BY <2>1, InternalStep, CallStep DEF Next
  <1>3. Init => Promise!Init /\ StopInv BY InitPromise
  <1> QED BY <1>1, <1>2, <1>3, Invariance, ServedInvariance, PTL
          DEF Spec, ImplementsSerialSubmissions, Promise!Spec

=============================================================================
