--------------------------- MODULE CpuParallelGemm ---------------------------
(***************************************************************************)
(* One packed parallel GEMM on a shared worker pool: execute_parallel and  *)
(* the callbacks it hands to the pool                                      *)
(* (compiler/lib/runtime/cpu_parallel_gemm.cpp).                           *)
(*                                                                         *)
(* A caller validates its request, reads info() of the context, and        *)
(* submits one task per active worker.  The workers first authenticate     *)
(* their floating-point environment behind a barrier; then worker zero     *)
(* packs B into the shared image and publishes it through a flag while the *)
(* others spin, and each worker computes its rectangles of the output.     *)
(*                                                                         *)
(* The pool is CpuExecutionContext, reduced here to what that module shows *)
(* of it: submissions are serial, no task starts before every active       *)
(* worker has passed the preflight, and a submission accepted before the   *)
(* stop still runs to its end.                                             *)
(***************************************************************************)
EXTENDS CpuParallelTaskPlan

CONSTANTS
  WorkerCount,    \* actual_worker_count of the context
  Callers,        \* threads that share the context
  NoOne,          \* nobody holds the submission mutex
  Requests,       \* the calls that callers may make
  CallBudget      \* bound: calls each caller makes

Worker == 0 .. WorkerCount - 1

\* Verdicts of validate_tensor_and_workspace on the caller's pointers.
TensorVerdict == {"success", "null_pointer", "invalid_pointer_alignment",
                  "workspace_misaligned", "workspace_insufficient",
                  "arithmetic_overflow", "alias_violation"}

Status == TensorVerdict \cup
  {"none", "invalid_problem", "invalid_thread_count", "isa_unavailable",
   "context_unavailable", "nested_parallelism_rejected",
   "worker_task_failed", "unsupported_fp_environment"}

Request == [problem: [m: Int, n: Int, k: Int, align: Nat \ {0}], threads: Nat,
            nested: BOOLEAN,       \* external_provider_active
            usable: BOOLEAN,       \* ops.runtime_usable()
            tensors: TensorVerdict]

ASSUME GemmConstantsAssumption ==
  /\ WorkerCount \in Nat \ {0}
  /\ CallBudget \in Nat
  /\ NoOne \notin Callers
  /\ Requests \subseteq Request

VARIABLES
  (* the context *)
  stopping,       \* accepting_work is its negation
  owner,          \* who holds the submission mutex
  completed,      \* completed_submissions
  arrived,        \* workers whose preflight of this submission has returned
  finished,       \* active workers that have finished this submission
  failed,         \* workers that reported a non-success status
  (* each worker *)
  wpc, task,
  (* each caller and the job on its stack *)
  cpc, request, budget,
  grid,           \* row_task_count by column_task_count of the job
  image,          \* the packed B image: untouched, being written, complete
  published,      \* packed_b_published
  packFailed,     \* packed_b_pack_failed
  rejected,       \* fp_environment_rejected
  ret, submissionReport,
  (* history *)
  runs,           \* how often each task of the job has written its rectangle
  ownNumber       \* the number of the caller's own submission

ctxVars  == <<stopping, owner, completed, arrived, finished, failed>>
wVars    == <<wpc, task>>
callVars == <<cpc, request, budget, ret, submissionReport>>
jobVars  == <<grid, image, published, packFailed, rejected>>
history  == <<runs, ownNumber>>
vars     == <<ctxVars, wVars, callVars, jobVars, history>>

NoRequest == [problem |-> [m |-> 1, n |-> 1, k |-> 1, align |-> 1],
              threads |-> 1, nested |-> FALSE, usable |-> TRUE,
              tensors |-> "success"]

\* The plan of the caller's job and the workers that take part in it.
ActiveOf(c) == Least(request[c].threads, Tasks(grid[c]))
Crew(c)     == 0 .. ActiveOf(c) - 1
TasksOf(c)  == 0 .. Tasks(grid[c]) - 1

Init ==
  /\ stopping = FALSE /\ owner = NoOne /\ completed = 0
  /\ arrived = {} /\ finished = {} /\ failed = {}
  /\ wpc = [w \in Worker |-> "idle"] /\ task = [w \in Worker |-> 0]
  /\ cpc = [c \in Callers |-> "idle"]
  /\ request = [c \in Callers |-> NoRequest]
  /\ budget = [c \in Callers |-> CallBudget]
  /\ grid = [c \in Callers |-> Grid(1, 1)]
  /\ image = [c \in Callers |-> "untouched"]
  /\ published = [c \in Callers |-> FALSE]
  /\ packFailed = [c \in Callers |-> FALSE]
  /\ rejected = [c \in Callers |-> FALSE]
  /\ ret = [c \in Callers |-> "none"]
  /\ submissionReport = [c \in Callers |-> 0]
  /\ runs = [c \in Callers |-> [t \in Worker |-> 0]]
  /\ ownNumber = [c \in Callers |-> 0]

-----------------------------------------------------------------------------
(* execute_parallel, up to the submission                                  *)

ValidProblem(p) == p.m > 0 /\ p.n > 0 /\ p.k > 0

\* The checks in the order of the code.
Preconditions(r) ==
  IF r.threads = 0 THEN "invalid_thread_count"
  ELSE IF ~ValidProblem(r.problem) THEN "invalid_problem"
  ELSE IF ~r.usable THEN "isa_unavailable"
  ELSE IF stopping THEN "context_unavailable"
  ELSE IF r.threads > WorkerCount THEN "invalid_thread_count"
  ELSE IF r.nested /\ ActualThreads(r.problem, r.threads) > 1
         THEN "nested_parallelism_rejected"
  ELSE r.tensors

\* The report and the job live on the stack of the call: every call starts
\* with fresh ones.
Call(c) ==
  /\ cpc[c] = "idle" /\ budget[c] > 0
  /\ \E r \in Requests :
       /\ request' = [request EXCEPT ![c] =
                        IF Preconditions(r) = "success" THEN r ELSE NoRequest]
       /\ cpc' = [cpc EXCEPT ![c] =
                    IF Preconditions(r) = "success" THEN "submit" ELSE "idle"]
       /\ ret' = [ret EXCEPT ![c] =
                    IF Preconditions(r) = "success" THEN "none" ELSE Preconditions(r)]
       /\ grid' = [grid EXCEPT ![c] =
                     IF Preconditions(r) = "success"
                     THEN TaskGrid(r.problem, r.threads) ELSE Grid(1, 1)]
  /\ budget' = [budget EXCEPT ![c] = @ - 1]
  /\ submissionReport' = [submissionReport EXCEPT ![c] = 0]
  /\ image' = [image EXCEPT ![c] = "untouched"]
  /\ published' = [published EXCEPT ![c] = FALSE]
  /\ packFailed' = [packFailed EXCEPT ![c] = FALSE]
  /\ rejected' = [rejected EXCEPT ![c] = FALSE]
  /\ runs' = [runs EXCEPT ![c] = [t \in Worker |-> 0]]
  /\ ownNumber' = [ownNumber EXCEPT ![c] = 0]
  /\ UNCHANGED <<ctxVars, wVars>>

\* run_tasks_with_preflight takes the submission mutex and wakes the crew.
Submit(c) ==
  /\ cpc[c] = "submit" /\ owner = NoOne /\ ~stopping
  /\ owner' = c
  /\ arrived' = {} /\ finished' = {} /\ failed' = {}
  /\ wpc' = [w \in Worker |-> IF w \in Crew(c) THEN "preflight" ELSE wpc[w]]
  /\ cpc' = [cpc EXCEPT ![c] = "await"]
  /\ UNCHANGED <<stopping, completed, task, request, budget, ret,
                 submissionReport, jobVars, history>>

\* info() said the context accepts work, the mutex was granted after a stop:
\* context_stopping becomes worker_task_failed.
SubmitTooLate(c) ==
  /\ cpc[c] = "submit" /\ owner = NoOne /\ stopping
  /\ ret' = [ret EXCEPT ![c] = "worker_task_failed"]
  /\ cpc' = [cpc EXCEPT ![c] = "idle"]
  /\ UNCHANGED <<ctxVars, wVars, request, budget, submissionReport, jobVars,
                 history>>

\* Another thread shuts the context down.
Stop ==
  /\ ~stopping
  /\ stopping' = TRUE
  /\ UNCHANGED <<owner, completed, arrived, finished, failed, wVars, callVars,
                 jobVars, history>>

-----------------------------------------------------------------------------
(* The callbacks, on the workers of the owner's crew                       *)

\* authenticate_worker_fp_environment
FpAccepted(w) ==
  /\ wpc[w] = "preflight"
  /\ arrived' = arrived \cup {w}
  /\ wpc' = [wpc EXCEPT ![w] = "barrier"]
  /\ UNCHANGED <<stopping, owner, completed, finished, failed, task, callVars,
                 jobVars, history>>

FpRejected(w) ==
  /\ wpc[w] = "preflight"
  /\ rejected' = [rejected EXCEPT ![owner] = TRUE]
  /\ arrived' = arrived \cup {w} /\ failed' = failed \cup {w}
  /\ wpc' = [wpc EXCEPT ![w] = "barrier"]
  /\ UNCHANGED <<stopping, owner, completed, finished, task, callVars, grid,
                 image, published, packFailed, history>>
BarrierOpen == Crew(owner) \subseteq arrived

LeaveBarrier(w) ==
  /\ wpc[w] = "barrier" /\ BarrierOpen
  /\ wpc' = [wpc EXCEPT ![w] =
               IF failed # {} THEN "finish" ELSE IF w = 0 THEN "prepare" ELSE "spin"]
  /\ UNCHANGED <<ctxVars, task, callVars, jobVars, history>>

\* Worker zero prepares B into the workspace...
BeginPack(w) ==
  /\ wpc[w] = "prepare" /\ image[owner] = "untouched"
  /\ image' = [image EXCEPT ![owner] = "partial"]
  /\ UNCHANGED <<ctxVars, wVars, callVars, grid, published, packFailed,
                 rejected, history>>

EndPack(w) ==
  /\ wpc[w] = "prepare" /\ image[owner] = "partial"
  /\ image' = [image EXCEPT ![owner] = "complete"]
  /\ wpc' = [wpc EXCEPT ![w] = "publish"]
  /\ UNCHANGED <<ctxVars, task, callVars, grid, published, packFailed,
                 rejected, history>>

\* ...and publishes the view, or raises the failure flag.
\* Mutant: the flag is raised before the image has been written.
PublishPoint_Early == {"prepare"}
PublishPoint == {"publish"}

Publish(w) ==
  /\ wpc[w] \in PublishPoint
  /\ published' = [published EXCEPT ![owner] = TRUE]
  /\ wpc' = [wpc EXCEPT ![w] = "spin"]
  /\ UNCHANGED <<ctxVars, task, callVars, grid, image, packFailed, rejected,
                 history>>

PackFails(w) ==
  /\ wpc[w] = "prepare" /\ image[owner] = "untouched"
  /\ packFailed' = [packFailed EXCEPT ![owner] = TRUE]
  /\ wpc' = [wpc EXCEPT ![w] = "spin"]
  /\ UNCHANGED <<ctxVars, task, callVars, grid, image, published, rejected,
                 history>>
SpinDone == packFailed[owner] \/ published[owner]

\* validate_task_plan_and_packed_b: the worker plans the problem again for the
\* active threads, and that plan again for its own threads; they must agree.
PlanAgrees(c) ==
  LET p     == request[c].problem
      again == ActualThreads(p, ActiveOf(c))
  IN  /\ TaskGrid(p, ActiveOf(c)) = TaskGrid(p, again)
      /\ again = ActualThreads(p, again)

\* Mutants: every worker starts with the first task; or one task too low.
FirstTask_Same(w) == 0
FirstTask(w) == w

LeaveSpin(w) ==
  /\ wpc[w] = "spin" /\ SpinDone
  /\ task' = [task EXCEPT ![w] = FirstTask(w)]
  /\ IF packFailed[owner] \/ ~PlanAgrees(owner)
     THEN wpc' = [wpc EXCEPT ![w] = "finish"] /\ failed' = failed \cup {w}
     ELSE wpc' = [wpc EXCEPT ![w] = "tasks"] /\ UNCHANGED failed
  /\ UNCHANGED <<stopping, owner, completed, arrived, finished, callVars,
                 jobVars, history>>

\* The worker's next task is a stride away.
Advance(w) == task[w] + ActiveOf(owner)

\* execute_output_partition: a band the packed kernel accepts is computed...
RunPartition(w) ==
  /\ wpc[w] = "tasks" /\ task[w] \in TasksOf(owner)
  /\ BandAligned(request[owner].problem, grid[owner], task[w])
  /\ runs' = [runs EXCEPT ![owner][task[w]] = @ + 1]
  /\ task' = [task EXCEPT ![w] = Advance(w)]
  /\ UNCHANGED <<ctxVars, wpc, callVars, jobVars, ownNumber>>

\* ...and one whose tensors break the declared alignment fails the task.
PartitionFails(w) ==
  /\ wpc[w] = "tasks" /\ task[w] \in TasksOf(owner)
  /\ ~BandAligned(request[owner].problem, grid[owner], task[w])
  /\ failed' = failed \cup {w}
  /\ wpc' = [wpc EXCEPT ![w] = "finish"]
  /\ UNCHANGED <<stopping, owner, completed, arrived, finished, task, callVars,
                 jobVars, history>>

TasksDone(w) ==
  /\ wpc[w] = "tasks" /\ task[w] \notin TasksOf(owner)
  /\ wpc' = [wpc EXCEPT ![w] = "finish"]
  /\ UNCHANGED <<ctxVars, task, callVars, jobVars, history>>

Finish(w) ==
  /\ wpc[w] = "finish"
  /\ finished' = finished \cup {w}
  /\ wpc' = [wpc EXCEPT ![w] = "idle"]
  /\ UNCHANGED <<stopping, owner, completed, arrived, failed, task, callVars,
                 jobVars, history>>

-----------------------------------------------------------------------------
(* execute_parallel, after the submission                                  *)
Outcome(c) ==
  IF rejected[c] THEN "unsupported_fp_environment"
  ELSE IF failed # {} THEN "worker_task_failed" ELSE "none"

\* The whole crew has finished: the context counts the submission, releases
\* its mutex, and the caller reads the outcome.
Collect(c) ==
  /\ cpc[c] = "await" /\ Crew(c) \subseteq finished
  /\ completed' = completed + 1
  /\ ownNumber' = [ownNumber EXCEPT ![c] = completed + 1]
  /\ owner' = NoOne
  /\ ret' = [ret EXCEPT ![c] = Outcome(c)]
  /\ cpc' = [cpc EXCEPT ![c] = IF Outcome(c) = "none" THEN "report" ELSE "idle"]
  /\ UNCHANGED <<stopping, arrived, finished, failed, wVars, request, budget,
                 submissionReport, jobVars, runs>>
CountedSubmissions == completed

Report(c) ==
  /\ cpc[c] = "report"
  /\ submissionReport' = [submissionReport EXCEPT ![c] = CountedSubmissions]
  /\ ret' = [ret EXCEPT ![c] = "success"]
  /\ cpc' = [cpc EXCEPT ![c] = "idle"]
  /\ UNCHANGED <<ctxVars, wVars, request, budget, jobVars, history>>

-----------------------------------------------------------------------------
WorkerStep(w) ==
  \/ FpAccepted(w) \/ FpRejected(w) \/ LeaveBarrier(w)
  \/ BeginPack(w) \/ EndPack(w) \/ Publish(w) \/ PackFails(w)
  \/ LeaveSpin(w) \/ RunPartition(w) \/ PartitionFails(w) \/ TasksDone(w)
  \/ Finish(w)

CallerStep(c) == Submit(c) \/ SubmitTooLate(c) \/ Collect(c) \/ Report(c)

Next ==
  \/ \E c \in Callers : Call(c) \/ CallerStep(c)
  \/ \E w \in Worker : WorkerStep(w)
  \/ Stop

Spec == Init /\ [][Next]_vars

-----------------------------------------------------------------------------
TypeOK ==
  /\ stopping \in BOOLEAN /\ owner \in Callers \cup {NoOne} /\ completed \in Nat
  /\ arrived \subseteq Worker /\ finished \subseteq Worker /\ failed \subseteq Worker
  /\ wpc \in [Worker -> {"idle", "preflight", "barrier", "prepare", "publish",
                         "spin", "tasks", "finish"}]
  /\ task \in [Worker -> Nat]
  /\ cpc \in [Callers -> {"idle", "submit", "await", "report"}]
  /\ request \in [Callers -> Requests \cup {NoRequest}]
  /\ budget \in [Callers -> 0 .. CallBudget]
  /\ grid \in [Callers -> [rows: Nat, columns: Nat]]
  /\ image \in [Callers -> {"untouched", "partial", "complete"}]
  /\ published \in [Callers -> BOOLEAN] /\ packFailed \in [Callers -> BOOLEAN]
  /\ rejected \in [Callers -> BOOLEAN]
  /\ ret \in [Callers -> Status] /\ submissionReport \in [Callers -> Nat]
  /\ runs \in [Callers -> [Worker -> Nat]] /\ ownNumber \in [Callers -> Nat]

Touched(c) == image[c] # "untouched" \/ \E t \in Worker : runs[c][t] > 0

\* "No workspace or output byte is touched before that barrier": bytes of the
\* arena or of the output change only once every worker of the crew has
\* authenticated its floating-point environment.
NothingTouchedBeforeBarrier ==
  \A c \in Callers : Touched(c) /\ owner = c =>
    Crew(c) \subseteq arrived /\ ~rejected[c]

\* A worker computes only from a completely packed image of B: publication
\* through the flag is the one thing that orders the two.
ImageCompleteWhenRead ==
  \A w \in Worker : wpc[w] = "tasks" => image[owner] = "complete"

\* Success means that each task of the plan has run exactly once, so the
\* whole output was computed, once.
SuccessComputesEverything ==
  \A c \in Callers : cpc[c] = "report" \/ (cpc[c] = "idle" /\ ret[c] = "success") =>
    /\ \A t \in TasksOf(c) : runs[c][t] = 1
    /\ UNION {Rectangle(request[c].problem, grid[c], t) : t \in TasksOf(c)}
         = (0 .. request[c].problem.m - 1) \X (0 .. request[c].problem.n - 1)

\* Every refusal other than a failed worker task leaves the caller's output
\* and workspace as they were; and a failed pack leaves the output alone.
RefusalTouchesNothing ==
  \A c \in Callers :
    /\ cpc[c] = "idle" /\ ret[c] \notin {"success", "worker_task_failed"} => ~Touched(c)
    /\ packFailed[c] => \A t \in Worker : runs[c][t] = 0

\* A floating-point rejection is reported as such, whichever worker raised it
\* and however the pool reported the failure.
FpRejectionIsReported ==
  \A c \in Callers :
    cpc[c] = "idle" /\ rejected[c] => ret[c] = "unsupported_fp_environment"

\* context_submission is read after the mutex is free, so it may count later
\* submissions of other callers, but never misses the caller's own.
ReportCoversOwnSubmission ==
  \A c \in Callers : cpc[c] = "idle" /\ ret[c] = "success" =>
    0 < ownNumber[c] /\ ownNumber[c] <= submissionReport[c]

\* What orders the memory of a call: bytes of the arena or of the output change
\* only after the barrier of the crew, and B is read only when all of it is packed.
MemoryIsOrdered == NothingTouchedBeforeBarrier /\ ImageCompleteWhenRead

\* What a call returns is what it did: success means everything, once; a refusal
\* means nothing; a floating-point rejection is said to be one; and the
\* submission it reports is its own or a later one.
ReturnIsTrue ==
  /\ SuccessComputesEverything /\ RefusalTouchesNothing
  /\ FpRejectionIsReported /\ ReportCoversOwnSubmission

\* Alignment is settled before the submission: no worker meets a band whose
\* tensors break the declared alignment.
AlignmentSettledBeforeSubmission ==
  \A w \in Worker : wpc[w] = "tasks" /\ task[w] \in TasksOf(owner) =>
    BandAligned(request[owner].problem, grid[owner], task[w])
=============================================================================
