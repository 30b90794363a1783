-------------------------- MODULE CpuExecutionContext --------------------------
(***************************************************************************)
(* The persistent worker pool of the CPU runtime, CpuExecutionContextV1    *)
(* (compiler/lib/runtime/cpu_execution_context.cpp).                       *)
(*                                                                         *)
(* A creator thread spawns WorkerCount workers and waits until each has    *)
(* applied its affinity.  Callers then submit jobs: a submission lives on  *)
(* the caller's stack and is lent to the workers, which pick it up by      *)
(* epoch, run an optional preflight behind a barrier, and run their stride *)
(* of the tasks.  shutdown() may come from a caller or from inside a task. *)
(*                                                                         *)
(* Every critical section of state_mutex is one step.  A notification that *)
(* the code issues after unlocking is a step of its own, and a thread that *)
(* waits on a condition variable is asleep until it is notified.           *)
(***************************************************************************)
EXTENDS Integers, FiniteSets

CONSTANTS
  WorkerCount,   \* actual_worker_count of the context
  MaxTasks,      \* bound: the largest task_count a job may have
  Callers,       \* external threads that share the context
  NoOne,         \* the null pointer / the free mutex
  Failures,      \* the non-success statuses a callback may return
  Jobs,          \* the jobs callers may submit, valid and invalid ones
  CallBudget     \* bound: API calls each caller makes

Worker   == 0 .. WorkerCount - 1
Task     == 0 .. MaxTasks - 1
Status   == {"success"} \cup Failures

\* What a task callback does before it returns: return a status, call
\* shutdown() on its own context, or call run_tasks on its own context.
Outcome  == Status \cup {"stop", "reenter"}

\* first_failed_task when nothing failed: larger than every task index.
NoTask   == MaxTasks

Policy   == {"native_only", "external_provider_active", "unknown"}

Job == [tasks: 0 .. MaxTasks, active: 0 .. WorkerCount + 1, policy: Policy,
        preflight: BOOLEAN, pre: [Worker -> Status], out: [Task -> Outcome]]

ASSUME ConstantsAssumption ==
  /\ WorkerCount \in Nat \ {0}
  /\ MaxTasks \in Nat \ {0}
  /\ CallBudget \in Nat
  /\ NoOne \notin Callers
  /\ Failures \cap {"success", "stop", "reenter", "none", "shut_down"} = {}
  /\ Jobs \subseteq Job

VARIABLES
  (* create() *)
  phase,          \* how far create() has come
  createStatus,   \* what create() reports
  pinned,         \* worker_cpu_ids is not empty
  workers,        \* size of the vector of joinable threads
  initialized,    \* workers_initialized
  affinity,       \* affinity_results
  creatorAsleep,  \* the creator waits on worker_startup_complete
  (* state under state_mutex *)
  stopping, epoch, submission,
  (* each worker *)
  wpc, observed, current, nextTask, results,
  asleep,         \* workers waiting on a condition variable
  (* each caller and the submission on its stack *)
  cpc, job, completedPreflights, preflightFailed, completedWorkers,
  callerAsleep,   \* callers waiting on submission_complete
  ret,            \* what the caller's last call returned
  budget,
  submissionMutex,
  completedSubmissions,
  (* history: how often each callback of the caller's submission has run *)
  preRuns, taskRuns

createVars == <<phase, createStatus, pinned, workers, initialized, affinity,
                creatorAsleep>>
workerVars == <<wpc, observed, current, nextTask, results, asleep>>
subVars    == <<completedPreflights, preflightFailed, completedWorkers>>
callVars   == <<cpc, job, callerAsleep, ret, budget, submissionMutex,
                completedSubmissions>>
sharedVars == <<stopping, epoch, submission>>
history    == <<preRuns, taskRuns>>
vars == <<createVars, workerVars, subVars, callVars, sharedVars, history>>

WorkerPC == {"unborn", "starting", "announce", "loop", "preflight", "arrive",
             "barrier", "tasks", "stopNotify", "blocked", "finish", "exited"}
CallerPC == {"idle", "lock", "publish", "notify", "await", "count", "collect",
             "shutdownLock", "shutdownStop", "shutdownNotify", "join"}
Phase    == {"spawn", "startup", "abortStop", "abortNotify", "abortJoin",
             "ready", "failed"}
Result   == Status \cup {"none", "invalid_configuration", "context_stopping",
                         "nested_parallelism_rejected", "shut_down"}
CreateStatus == {"none", "success", "resource_exhausted",
                 "affinity_unavailable", "affinity_application_failed"}
Affinity == {"not_requested", "applied", "unavailable", "failed"}

\* What a caller's slot holds before its first submission.
NoJob == [tasks |-> 0, active |-> 0, policy |-> "native_only",
          preflight |-> FALSE, pre |-> [w \in Worker |-> "success"],
          out |-> [t \in Task |-> "success"]]

\* Mutant: the "nothing failed" index is one past the sentinel.
CleanResult_OffByOne == [status |-> "success", task |-> NoTask + 1]
CleanResult == [status |-> "success", task |-> NoTask]

-----------------------------------------------------------------------------
(* The condition variables: a notification wakes who waits on that one.    *)
WaitsForWork    == {w \in asleep : wpc[w] = "loop"}
WaitsAtBarrier  == {w \in asleep : wpc[w] = "barrier"}

-----------------------------------------------------------------------------
Init ==
  /\ phase = "spawn" /\ createStatus = "none" /\ pinned \in BOOLEAN
  /\ workers = 0 /\ initialized = 0 /\ creatorAsleep = FALSE
  /\ affinity = [w \in Worker |-> "not_requested"]
  /\ stopping = FALSE /\ epoch = 0 /\ submission = NoOne
  /\ wpc = [w \in Worker |-> "unborn"]
  /\ observed = [w \in Worker |-> 0]
  /\ current = [w \in Worker |-> NoOne]
  /\ nextTask = [w \in Worker |-> 0]
  /\ results = [w \in Worker |-> CleanResult]
  /\ asleep = {}
  /\ cpc = [c \in Callers |-> "idle"]
  /\ job = [c \in Callers |-> NoJob]
  /\ completedPreflights = [c \in Callers |-> 0]
  /\ preflightFailed = [c \in Callers |-> FALSE]
  /\ completedWorkers = [c \in Callers |-> 0]
  /\ callerAsleep = {}
  /\ ret = [c \in Callers |-> "none"]
  /\ budget = [c \in Callers |-> CallBudget]
  /\ submissionMutex = NoOne
  /\ completedSubmissions = 0
  /\ preRuns = [c \in Callers |-> [w \in Worker |-> 0]]
  /\ taskRuns = [c \in Callers |-> [t \in Task |-> 0]]

-----------------------------------------------------------------------------
(* create(): spawn the workers, wait for their startup, or take it back.   *)

Spawn ==
  /\ phase = "spawn"
  /\ workers' = workers + 1
  /\ wpc' = [wpc EXCEPT ![workers] = "starting"]
  /\ phase' = IF workers + 1 = WorkerCount THEN "startup" ELSE "spawn"
  /\ UNCHANGED <<createStatus, pinned, initialized, affinity, creatorAsleep,
                 observed, current, nextTask, results, asleep, subVars,
                 callVars, sharedVars, history>>

\* reserve or a std::thread constructor throws after some threads started.
SpawnFails ==
  /\ phase = "spawn"
  /\ phase' = "abortStop"
  /\ createStatus' = "resource_exhausted"
  /\ UNCHANGED <<pinned, workers, initialized, affinity, creatorAsleep,
                 workerVars, subVars, callVars, sharedVars, history>>

AffinityComplete == pinned => \A w \in Worker : affinity[w] = "applied"

\* summarize_affinity: unavailable only if every worker reported just that.
AffinityStatus ==
  IF \A w \in Worker : affinity[w] = "unavailable"
  THEN "affinity_unavailable" ELSE "affinity_application_failed"

AwaitStartup ==
  /\ phase = "startup" /\ ~creatorAsleep
  /\ IF initialized = WorkerCount
     THEN /\ phase' = IF AffinityComplete THEN "ready" ELSE "abortStop"
          /\ createStatus' = IF AffinityComplete THEN "success" ELSE AffinityStatus
          /\ UNCHANGED creatorAsleep
     ELSE creatorAsleep' = TRUE /\ UNCHANGED <<phase, createStatus>>
  /\ UNCHANGED <<pinned, workers, initialized, affinity, workerVars, subVars,
                 callVars, sharedVars, history>>

AbortStop ==
  /\ phase = "abortStop"
  /\ stopping' = TRUE
  /\ phase' = "abortNotify"
  /\ UNCHANGED <<createStatus, pinned, workers, initialized, affinity,
                 creatorAsleep, workerVars, subVars, callVars, epoch,
                 submission, history>>

AbortNotify ==
  /\ phase = "abortNotify"
  /\ asleep' = asleep \ WaitsForWork
  /\ phase' = "abortJoin"
  /\ UNCHANGED <<createStatus, pinned, workers, initialized, affinity,
                 creatorAsleep, wpc, observed, current, nextTask, results,
                 subVars, callVars, sharedVars, history>>

\* Mutants: threads detached instead of joined; threads joined that were
\* never spawned.
AllJoined_Detached == TRUE
AllJoined == \A w \in Worker : w < workers => wpc[w] = "exited"

AbortJoin ==
  /\ phase = "abortJoin" /\ AllJoined
  /\ phase' = "failed"
  /\ UNCHANGED <<createStatus, pinned, workers, initialized, affinity,
                 creatorAsleep, workerVars, subVars, callVars, sharedVars,
                 history>>

Create == Spawn \/ SpawnFails \/ AwaitStartup \/ AbortStop \/ AbortNotify
          \/ AbortJoin

-----------------------------------------------------------------------------
(* worker_loop                                                             *)

Initialize(w) ==
  /\ wpc[w] = "starting"
  /\ \E a \in Affinity :
       /\ (a = "not_requested") = ~pinned
       /\ affinity' = [affinity EXCEPT ![w] = a]
  /\ initialized' = initialized + 1
  /\ wpc' = [wpc EXCEPT ![w] = "announce"]
  /\ UNCHANGED <<phase, createStatus, pinned, workers, creatorAsleep, observed,
                 current, nextTask, results, asleep, subVars, callVars,
                 sharedVars, history>>

\* worker_startup_complete.notify_one() after the lock is released.
Announce(w) ==
  /\ wpc[w] = "announce"
  /\ creatorAsleep' = FALSE
  /\ wpc' = [wpc EXCEPT ![w] = "loop"]
  /\ UNCHANGED <<phase, createStatus, pinned, workers, initialized, affinity,
                 observed, current, nextTask, results, asleep, subVars,
                 callVars, sharedVars, history>>

HasUnseen(w) == epoch # observed[w]

\* Mutant: an inactive worker picks up the pointer too.
Participates_Inactive(w) == HasUnseen(w) /\ submission # NoOne

\* The published submission counts this worker among its active ones.
Participates(w) ==
  /\ HasUnseen(w)
  /\ submission # NoOne
  /\ w < job[submission].active

\* Mutant: the stop flag is honoured before an unseen submission.
MustExit_StopFirst(w) == stopping
MustExit(w) == stopping /\ ~Participates(w)

AtLoop(w) == wpc[w] = "loop" /\ w \notin asleep

Sleep(w) ==
  /\ AtLoop(w) /\ ~stopping /\ ~HasUnseen(w)
  /\ asleep' = asleep \cup {w}
  /\ UNCHANGED <<createVars, wpc, observed, current, nextTask, results,
                 subVars, callVars, sharedVars, history>>

Exit(w) ==
  /\ AtLoop(w) /\ MustExit(w)
  /\ wpc' = [wpc EXCEPT ![w] = "exited"]
  /\ UNCHANGED <<createVars, observed, current, nextTask, results, asleep,
                 subVars, callVars, sharedVars, history>>

PickUp(w) ==
  /\ AtLoop(w) /\ HasUnseen(w) /\ ~MustExit(w)
  /\ observed' = [observed EXCEPT ![w] = epoch]
  /\ IF Participates(w)
     THEN /\ current' = [current EXCEPT ![w] = submission]
          /\ nextTask' = [nextTask EXCEPT ![w] = w]
          /\ wpc' = [wpc EXCEPT ![w] = IF job[submission].preflight
                                       THEN "preflight" ELSE "tasks"]
     ELSE UNCHANGED <<current, nextTask, wpc>>
  /\ UNCHANGED <<createVars, results, asleep, subVars, callVars, sharedVars,
                 history>>

\* The preflight callback itself runs outside the lock.
RunPreflight(w) ==
  LET c == current[w] IN
  /\ wpc[w] = "preflight"
  /\ preRuns' = [preRuns EXCEPT ![c][w] = @ + 1]
  /\ wpc' = [wpc EXCEPT ![w] = "arrive"]
  /\ UNCHANGED <<createVars, observed, current, nextTask, results, asleep,
                 subVars, callVars, sharedVars, taskRuns>>

\* Mutant: the barrier forgets the failure.
AfterBarrier_Ignored(failed) == "tasks"
AfterBarrier(failed) == IF failed THEN "finish" ELSE "tasks"

\* One critical section: record the preflight, then release the barrier as
\* the last one to arrive, or wait there.
Arrive(w) ==
  LET c == current[w]
      failed == job[c].pre[w] # "success"
      last == completedPreflights[c] + 1 = job[c].active
  IN
  /\ wpc[w] = "arrive"
  /\ results' = IF failed
                THEN [results EXCEPT ![w] = [status |-> job[c].pre[w], task |-> 0]]
                ELSE results
  /\ preflightFailed' = [preflightFailed EXCEPT ![c] = @ \/ failed]
  /\ completedPreflights' = [completedPreflights EXCEPT ![c] = @ + 1]
  /\ IF last
     THEN /\ wpc' = [wpc EXCEPT ![w] = AfterBarrier(preflightFailed'[c])]
          /\ asleep' = asleep \ WaitsAtBarrier
     ELSE /\ wpc' = [wpc EXCEPT ![w] = "barrier"]
          /\ asleep' = asleep \cup {w}
  /\ UNCHANGED <<createVars, observed, current, nextTask, completedWorkers,
                 callVars, sharedVars, history>>

LeaveBarrier(w) ==
  LET c == current[w] IN
  /\ wpc[w] = "barrier" /\ w \notin asleep
  /\ IF completedPreflights[c] = job[c].active
     THEN /\ wpc' = [wpc EXCEPT ![w] = AfterBarrier(preflightFailed[c])]
          /\ UNCHANGED asleep
     ELSE asleep' = asleep \cup {w} /\ UNCHANGED wpc
  /\ UNCHANGED <<createVars, observed, current, nextTask, results, subVars,
                 callVars, sharedVars, history>>

\* active_execution_context == impl_: the thread is one of this context's.
OnOwnWorker(w) == wpc[w] \notin {"unborn", "exited"}

\* Mutant: the stride is the size of the pool, not the active workers.
Stride_Pool(j) == WorkerCount
Stride(j) == j.active

\* The next task of the worker's stride, with what its callback does.
RunTask(w) ==
  LET c == current[w]
      t == nextTask[w]
      outcome == job[c].out[t]
      advance == [nextTask EXCEPT ![w] = t + Stride(job[c])]
  IN
  /\ wpc[w] = "tasks" /\ t < job[c].tasks
  /\ taskRuns' = [taskRuns EXCEPT ![c][t] = @ + 1]
  /\ \/ /\ outcome = "success"
        /\ nextTask' = advance
        /\ UNCHANGED <<wpc, results, stopping>>
     \/ /\ outcome = "stop"              \* shutdown() called by the task
        /\ stopping' = (stopping \/ OnOwnWorker(w))
        /\ wpc' = [wpc EXCEPT ![w] = IF OnOwnWorker(w) THEN "stopNotify"
                                                       ELSE "blocked"]
        /\ nextTask' = advance
        /\ UNCHANGED results
     \/ /\ outcome = "reenter"           \* run_tasks called by the task
        /\ wpc' = [wpc EXCEPT ![w] = IF OnOwnWorker(w) THEN @ ELSE "blocked"]
        /\ nextTask' = advance
        /\ UNCHANGED <<results, stopping>>
     \/ /\ outcome \in Failures
        /\ results' = [results EXCEPT ![w] = [status |-> outcome, task |-> t]]
        /\ wpc' = [wpc EXCEPT ![w] = "finish"]
        /\ UNCHANGED <<nextTask, stopping>>
  /\ UNCHANGED <<createVars, observed, current, asleep, subVars, callVars,
                 epoch, submission, preRuns>>

\* work_available.notify_all() at the end of a task's shutdown().
StopNotify(w) ==
  /\ wpc[w] = "stopNotify"
  /\ asleep' = asleep \ WaitsForWork
  /\ wpc' = [wpc EXCEPT ![w] = "tasks"]
  /\ UNCHANGED <<createVars, observed, current, nextTask, results, subVars,
                 callVars, sharedVars, history>>

TasksDone(w) ==
  /\ wpc[w] = "tasks" /\ nextTask[w] >= job[current[w]].tasks
  /\ wpc' = [wpc EXCEPT ![w] = "finish"]
  /\ UNCHANGED <<createVars, observed, current, nextTask, results, asleep,
                 subVars, callVars, sharedVars, history>>

Finish(w) ==
  LET c == current[w] IN
  /\ wpc[w] = "finish"
  /\ completedWorkers' = [completedWorkers EXCEPT ![c] = @ + 1]
  /\ callerAsleep' = IF completedWorkers[c] + 1 = job[c].active
                     THEN callerAsleep \ {c} ELSE callerAsleep
  /\ current' = [current EXCEPT ![w] = NoOne]
  /\ wpc' = [wpc EXCEPT ![w] = "loop"]
  /\ UNCHANGED <<createVars, observed, nextTask, results, asleep,
                 completedPreflights, preflightFailed, cpc, job, ret, budget,
                 submissionMutex, completedSubmissions, sharedVars, history>>

WorkerStep(w) ==
  \/ Initialize(w) \/ Announce(w) \/ Sleep(w) \/ Exit(w) \/ PickUp(w)
  \/ RunPreflight(w) \/ Arrive(w) \/ LeaveBarrier(w) \/ RunTask(w)
  \/ StopNotify(w) \/ TasksDone(w) \/ Finish(w)

-----------------------------------------------------------------------------
(* run_tasks_with_preflight                                                *)

\* The early returns before the submission mutex is taken.
Rejection(j) ==
  IF j.tasks = 0 \/ j.active = 0 \/ j.active > WorkerCount \/ j.active > j.tasks
  THEN "invalid_configuration"
  ELSE IF j.policy = "external_provider_active" /\ j.active > 1
  THEN "nested_parallelism_rejected"
  ELSE IF j.policy \notin {"native_only", "external_provider_active"}
  THEN "invalid_configuration"
  ELSE "none"

RunTasks(c, j) ==
  /\ phase = "ready" /\ cpc[c] = "idle" /\ budget[c] > 0
  /\ budget' = [budget EXCEPT ![c] = @ - 1]
  /\ ret' = [ret EXCEPT ![c] = Rejection(j)]
  /\ IF Rejection(j) = "none"
     THEN /\ cpc' = [cpc EXCEPT ![c] = "lock"]
          /\ job' = [job EXCEPT ![c] = j]
     ELSE UNCHANGED <<cpc, job>>
  /\ UNCHANGED <<createVars, workerVars, subVars, callerAsleep,
                 submissionMutex, completedSubmissions, sharedVars, history>>

Lock(c) ==
  /\ submissionMutex = NoOne
  /\ \/ cpc[c] = "lock" /\ cpc' = [cpc EXCEPT ![c] = "publish"]
     \/ cpc[c] = "shutdownLock" /\ cpc' = [cpc EXCEPT ![c] = "shutdownStop"]
  /\ submissionMutex' = c
  /\ UNCHANGED <<createVars, workerVars, subVars, job, callerAsleep, ret,
                 budget, completedSubmissions, sharedVars, history>>

\* Mutant: the previous submission's results are kept.
FreshResults_Stale(j) == results
FreshResults(j) == [w \in Worker |-> IF w < j.active THEN CleanResult ELSE results[w]]

\* Mutant: the stop flag is not looked at under the lock.
Accepting_Unchecked == TRUE
Accepting == ~stopping

\* A fresh submission record, the active workers' results reset, the pointer
\* and the epoch published, in one critical section.
Publish(c) ==
  /\ cpc[c] = "publish" /\ Accepting
  /\ completedPreflights' = [completedPreflights EXCEPT ![c] = 0]
  /\ preflightFailed' = [preflightFailed EXCEPT ![c] = FALSE]
  /\ completedWorkers' = [completedWorkers EXCEPT ![c] = 0]
  /\ results' = FreshResults(job[c])
  /\ submission' = c
  /\ epoch' = epoch + 1
  /\ cpc' = [cpc EXCEPT ![c] = "notify"]
  /\ preRuns' = [preRuns EXCEPT ![c] = [w \in Worker |-> 0]]
  /\ taskRuns' = [taskRuns EXCEPT ![c] = [t \in Task |-> 0]]
  /\ UNCHANGED <<createVars, wpc, observed, current, nextTask, asleep, job,
                 callerAsleep, ret, budget, submissionMutex,
                 completedSubmissions, stopping>>

RefuseStopping(c) ==
  /\ cpc[c] = "publish" /\ ~Accepting
  /\ ret' = [ret EXCEPT ![c] = "context_stopping"]
  /\ cpc' = [cpc EXCEPT ![c] = "idle"]
  /\ submissionMutex' = NoOne
  /\ UNCHANGED <<createVars, workerVars, subVars, job, callerAsleep, budget,
                 completedSubmissions, sharedVars, history>>

NotifyWork(c) ==
  /\ \/ cpc[c] = "notify" /\ cpc' = [cpc EXCEPT ![c] = "await"]
     \/ cpc[c] = "shutdownNotify" /\ cpc' = [cpc EXCEPT ![c] = "join"]
  /\ asleep' = asleep \ WaitsForWork
  /\ UNCHANGED <<createVars, wpc, observed, current, nextTask, results,
                 subVars, job, callerAsleep, ret, budget, submissionMutex,
                 completedSubmissions, sharedVars, history>>

Await(c) ==
  /\ cpc[c] = "await" /\ c \notin callerAsleep
  /\ IF completedWorkers[c] = job[c].active
     THEN /\ submission' = NoOne
          /\ cpc' = [cpc EXCEPT ![c] = "count"]
          /\ UNCHANGED callerAsleep
     ELSE callerAsleep' = callerAsleep \cup {c} /\ UNCHANGED <<submission, cpc>>
  /\ UNCHANGED <<createVars, workerVars, subVars, job, ret, budget,
                 submissionMutex, completedSubmissions, stopping, epoch,
                 history>>

Count(c) ==
  /\ cpc[c] = "count"
  /\ completedSubmissions' = completedSubmissions + 1
  /\ cpc' = [cpc EXCEPT ![c] = "collect"]
  /\ UNCHANGED <<createVars, workerVars, subVars, job, callerAsleep, ret,
                 budget, submissionMutex, sharedVars, history>>

\* Mutant: the worker with the highest failed task decides.
Reported_LastWins(j) ==
  LET decides(w) ==
        /\ w < j.active /\ results[w].task # NoTask
        /\ \A v \in Worker : v < j.active /\ results[v].task # NoTask =>
             \/ results[w].task > results[v].task
             \/ results[w].task = results[v].task /\ w >= v
  IN IF \E w \in Worker : decides(w)
     THEN results[CHOOSE w \in Worker : decides(w)].status
     ELSE "success"

\* The scan over the active workers' results with a strict "<": the first
\* worker that holds the smallest failed task decides.
Reported(j) ==
  LET decides(w) ==
        /\ w < j.active /\ results[w].task # NoTask
        /\ \A v \in Worker : v < j.active =>
             \/ results[w].task < results[v].task
             \/ results[w].task = results[v].task /\ w <= v
  IN IF \E w \in Worker : decides(w)
     THEN results[CHOOSE w \in Worker : decides(w)].status
     ELSE "success"

Collect(c) ==
  /\ cpc[c] = "collect"
  /\ ret' = [ret EXCEPT ![c] = Reported(job[c])]
  /\ cpc' = [cpc EXCEPT ![c] = "idle"]
  /\ submissionMutex' = NoOne
  /\ UNCHANGED <<createVars, workerVars, subVars, job, callerAsleep, budget,
                 completedSubmissions, sharedVars, history>>

-----------------------------------------------------------------------------
(* shutdown() from a thread that is not one of the workers                 *)

Shutdown(c) ==
  /\ phase = "ready" /\ cpc[c] = "idle" /\ budget[c] > 0
  /\ budget' = [budget EXCEPT ![c] = @ - 1]
  /\ ret' = [ret EXCEPT ![c] = "none"]
  /\ cpc' = [cpc EXCEPT ![c] = "shutdownLock"]
  /\ UNCHANGED <<createVars, workerVars, subVars, job, callerAsleep,
                 submissionMutex, completedSubmissions, sharedVars, history>>

ShutdownStop(c) ==
  /\ cpc[c] = "shutdownStop"
  /\ IF stopping /\ workers = 0
     THEN /\ cpc' = [cpc EXCEPT ![c] = "idle"]
          /\ ret' = [ret EXCEPT ![c] = "shut_down"]
          /\ submissionMutex' = NoOne
          /\ UNCHANGED stopping
     ELSE /\ stopping' = TRUE
          /\ cpc' = [cpc EXCEPT ![c] = "shutdownNotify"]
          /\ UNCHANGED <<ret, submissionMutex>>
  /\ UNCHANGED <<createVars, workerVars, subVars, job, callerAsleep, budget,
                 completedSubmissions, epoch, submission, history>>

\* join every thread of the vector, clear it, release the mutex.
Join(c) ==
  /\ cpc[c] = "join" /\ AllJoined
  /\ workers' = 0
  /\ cpc' = [cpc EXCEPT ![c] = "idle"]
  /\ ret' = [ret EXCEPT ![c] = "shut_down"]
  /\ submissionMutex' = NoOne
  /\ UNCHANGED <<phase, createStatus, pinned, initialized, affinity,
                 creatorAsleep, workerVars, subVars, job, callerAsleep, budget,
                 completedSubmissions, sharedVars, history>>

CallerStep(c) ==
  \/ Lock(c) \/ Publish(c) \/ RefuseStopping(c) \/ NotifyWork(c) \/ Await(c)
  \/ Count(c) \/ Collect(c) \/ ShutdownStop(c) \/ Join(c)

-----------------------------------------------------------------------------
\* A condition variable may wake a waiter that nobody notified.
SpuriousWakeup ==
  /\ \/ /\ \E w \in asleep : asleep' = asleep \ {w}
        /\ UNCHANGED <<callerAsleep, creatorAsleep>>
     \/ /\ \E c \in callerAsleep : callerAsleep' = callerAsleep \ {c}
        /\ UNCHANGED <<asleep, creatorAsleep>>
     \/ /\ creatorAsleep /\ creatorAsleep' = FALSE
        /\ UNCHANGED <<asleep, callerAsleep>>
  /\ UNCHANGED <<phase, createStatus, pinned, workers, initialized, affinity, wpc, observed, current, nextTask, results, subVars,
                 cpc, job, ret, budget, submissionMutex, completedSubmissions,
                 sharedVars, history>>

Next ==
  \/ Create
  \/ \E w \in Worker : WorkerStep(w)
  \/ \E c \in Callers : CallerStep(c) \/ Shutdown(c) \/ \E j \in Jobs : RunTasks(c, j)
  \/ SpuriousWakeup

Spec == Init /\ [][Next]_vars

\* Threads are scheduled; callbacks return.  Callers need not call again and
\* nothing depends on spurious wakeups.
Fairness ==
  /\ WF_vars(Create)
  /\ \A w \in Worker : WF_vars(WorkerStep(w))
  /\ \A c \in Callers : WF_vars(CallerStep(c))

FairSpec == Spec /\ Fairness

-----------------------------------------------------------------------------
(* Properties                                                              *)

CreateTypeOK ==
  /\ phase \in Phase /\ createStatus \in CreateStatus
  /\ pinned \in BOOLEAN /\ workers \in 0 .. WorkerCount
  /\ initialized \in Nat /\ affinity \in [Worker -> Affinity]
  /\ creatorAsleep \in BOOLEAN

SharedTypeOK ==
  /\ stopping \in BOOLEAN /\ epoch \in Nat
  /\ submission \in Callers \cup {NoOne}

WorkerTypeOK ==
  /\ wpc \in [Worker -> WorkerPC] /\ observed \in [Worker -> Nat]
  /\ current \in [Worker -> Callers \cup {NoOne}]
  /\ nextTask \in [Worker -> Nat]
  /\ results \in [Worker -> [status: Status, task: 0 .. NoTask]]
  /\ asleep \subseteq Worker

CallerTypeOK ==
  /\ cpc \in [Callers -> CallerPC] /\ job \in [Callers -> Job]
  /\ callerAsleep \subseteq Callers
  /\ ret \in [Callers -> Result] /\ budget \in [Callers -> 0 .. CallBudget]
  /\ submissionMutex \in Callers \cup {NoOne}
  /\ completedSubmissions \in Nat

SubmissionTypeOK ==
  /\ completedPreflights \in [Callers -> Nat]
  /\ preflightFailed \in [Callers -> BOOLEAN]
  /\ completedWorkers \in [Callers -> Nat]

HistoryTypeOK ==
  /\ preRuns \in [Callers -> [Worker -> Nat]]
  /\ taskRuns \in [Callers -> [Task -> Nat]]

\* Every variable has a value the program's types allow.
TypeOK ==
  /\ CreateTypeOK /\ SharedTypeOK /\ WorkerTypeOK /\ CallerTypeOK
  /\ SubmissionTypeOK /\ HistoryTypeOK

\* Workers that a job makes active, those whose preflight fails, and the
\* tasks that fail.
Active(j)       == {w \in Worker : w < j.active}
PreFails(j)     == {w \in Active(j) : j.preflight /\ j.pre[w] # "success"}
TaskFails(j)    == {t \in Task : t < j.tasks /\ j.out[t] \in Failures}
Least(S)        == CHOOSE x \in S : \A y \in S : x <= y

\* A worker never holds the borrowed pointer to a submission whose caller has
\* returned from run_tasks or has cleared the pointer (worker_loop, "never
\* retain the pointer"): while it holds one, the submitter still waits, still
\* owns submission_mutex, and has counted the worker among the active ones.
BorrowedSubmissionAlive ==
  \A w \in Worker : current[w] # NoOne =>
    LET c == current[w] IN
    /\ cpc[c] \in {"notify", "await"}
    /\ submission = c /\ submissionMutex = c
    /\ w < job[c].active

\* No task callback starts before every active worker's preflight has run
\* exactly once and succeeded; a failed preflight suppresses every task.
PreflightBarrier ==
  \A c \in Callers :
    (/\ cpc[c] \in {"notify", "await", "count", "collect"}
     /\ job[c].preflight /\ \E t \in Task : taskRuns[c][t] > 0) =>
      \A w \in Active(job[c]) : preRuns[c][w] = 1 /\ job[c].pre[w] = "success"

\* The tasks a job must run: all of them up to the first failure of each
\* worker's stride, and none if a preflight failed.
MustRun(j, t) ==
  /\ t < j.tasks /\ PreFails(j) = {}
  /\ \A u \in Task : u < t /\ u % j.active = t % j.active => u \notin TaskFails(j)

\* When the submitter is told that its submission is complete, exactly the
\* tasks that must run have run, each of them exactly once, whichever workers
\* were slow to wake up and whether or not a stop was requested meanwhile.
TasksRunExactlyOnce ==
  \A c \in Callers : cpc[c] \in {"count", "collect"} =>
    \A t \in Task : taskRuns[c][t] = IF MustRun(job[c], t) THEN 1 ELSE 0

\* The failure a job reports: the lowest worker whose preflight fails, else
\* the lowest task that fails.
ExpectedStatus(j) ==
  IF PreFails(j) # {} THEN j.pre[Least(PreFails(j))]
  ELSE IF TaskFails(j) # {} THEN j.out[Least(TaskFails(j))]
  ELSE "success"

\* The status run_tasks returns depends on the job alone, never on the
\* interleaving of the workers nor on results left by an earlier submission.
ReportedStatusIsDeterministic ==
  \A c \in Callers : cpc[c] = "collect" => Reported(job[c]) = ExpectedStatus(job[c])

\* No worker thread is left behind by a create() that failed or by a
\* shutdown() that returned, so the Impl may be destroyed.
NoThreadLeftBehind ==
  (phase = "failed" \/ \E c \in Callers : ret[c] = "shut_down") =>
    \A w \in Worker : wpc[w] \in {"unborn", "exited"}

\* Once a stop was requested nothing is accepted any more: the flag stays set
\* and no submission is published ("No later submission is accepted").
StopIsFinal == [][stopping => stopping' /\ epoch' = epoch]_vars

\* Every run_tasks and every shutdown returns: no lost wakeup, no worker that
\* leaves an accepted submission without its completion, no thread waiting for
\* itself when a task calls back into its own context.
EveryCallReturns == \A c \in Callers : (cpc[c] # "idle") ~> (cpc[c] = "idle")
-----------------------------------------------------------------------------
\* What the header promises to callers: submissions one at a time, each with
\* the status its job determines, none accepted after a stop, and a shutdown
\* that returns only when nothing runs.
Promise == INSTANCE SerialSubmissions WITH
  accepting <- ~stopping,
  running   <- submission,
  call      <- [c \in Callers |->
                  CASE cpc[c] = "idle" -> "idle"
                    [] cpc[c] \in {"lock", "publish"} -> "asked"
                    [] cpc[c] \in {"notify", "await"} -> "running"
                    [] cpc[c] \in {"count", "collect"} -> "served"
                    [] OTHER -> "closing"],
  asked     <- job

\* The context implements that promise.
ImplementsSerialSubmissions == Promise!Spec

=============================================================================
