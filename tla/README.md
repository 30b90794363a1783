# TLA+ specification of MatcoreDSL

MatcoreDSL compiles matrix programs written in C++ (`compiler/`, the `mdslc++` tool chain with its
CPU runtime) and in Python (`src/` and `matcore/`, the native extension with its just-in-time compiler)
to CPU and GPU code and runs them. This directory specifies the parts that keep state from one
call to the next, run several threads or processes, or promise a caller something that a failure
half-way could break. It holds TLA+ modules, TLC configurations that check small instances of
them, and proofs checked by TLAPS. Source paths are relative to the repository root.

`PROJECT.json` lists every component with its sources, every run, the source lines of every
definition, one mutant per property, and the hazards (what is hard to test) with the line at which each bites.

## 1. The system and its parts

### CPU runtime (`compiler/lib/runtime`, `planner`, `platform`)

| part | state it keeps | what is hard | what makes it correct |
|---|---|---|---|
| execution context `cpu_execution_context.cpp` | worker threads, `submission` pointer, epoch, results, stop flag, two mutexes, four condition variables | a submission lives on its caller's stack; late wake-ups; a stop from inside a task; threads that fail to start | no worker keeps a dead pointer; each task runs once; the status is deterministic; no thread is left; everything returns |
| nested contexts (same file) | one mutex per context, one thread-local context pointer | tasks that submit to other contexts | a worker runs only for the submitter that holds its context |
| task plan `cpu_planner_v3.cpp`, `cpu_parallel_gemm.cpp` | none | remainders, cache lines, planning twice | rectangles tile the output; no shared cache line or scratch |
| parallel GEMM `cpu_parallel_gemm.cpp` | a job on the caller's stack: packed B, two atomic flags, verdicts | one worker packs, the others spin; a rejected floating-point environment; a stop in between | B is read only when whole; refusals write nothing; the status is true |
| packed kernels `cpu_packed_avx2.cpp`, `cpu_packed_avx512.cpp`, `cpu_packed_b_format.h` | packed images | edges of tiles, images for another problem | an accepted call computes the product and writes nowhere else |
| planner `cpu_planner*.h/.cpp` | none | order of rejections, ties, saturation | the selected variant is the best legal one |
| C ABI `cpu_runtime.cpp` | context handles, the provider probe, prepacked images | query and execution in different floating-point environments | a queried workspace is enough; a refused call touches nothing |
| kernel validation `cpu_runtime_validation.cpp` | reports per variant | a faulty kernel that is right on ordinary inputs, or that changes the workers' mode | a faulty kernel is never reported conformant, a sound one always is |
| OpenBLAS provider `cpu_openblas.cpp` | process-wide thread count, once-flag of the probe | save, set, call, restore against another caller | a product runs with the count asked for; the host's count comes back |
| topology and placement `cpu_topology_v1.cpp`, `windows_cpu_topology_v1.cpp`, `thread_affinity_v1.cpp` | none | CPUs that come and go while files are read; a mask that changes | a topology called complete was real; workers stay where the policy says |
| closed host session `closed_host_v1.cpp`, plan and emitter `ClosedHost{DerivedPlan,Emitter}.cpp` | status with frontiers, activity flag, observations | reentry from a candidate; forwarding of reads; fused pairs; aliasing views | the emitted program does what the source says; the first verdict stands |
| value ownership (same file) | reference counts | two threads drop the last two references | deleted once, never early, never leaked |
| GPU candidate adapters `closed_{cuda,rocdl}_candidate_v1.cpp` | poison flag, lock-free quarantine list | device work that still runs after an error | nothing the device uses is freed; a poisoned adapter is refused |

### Compiler (`compiler/lib/frontend`, `mlir`, `codegen`, `compiler/tools`)

| part | what is hard | what makes it correct |
|---|---|---|
| `mdslc++` driver and command line `tools/mdslc/main.cpp` | inputs edited between two child processes; outputs that are inputs; two scans of one command line | one consistent version is published or none; inputs survive; both scans agree |
| recorded host inputs `ClosedRegionHostInputs.cpp`, `...HostAdmission.cpp` | edits within a clock tick; a replay that asks something new | frozen records are the disk at one moment |
| `matcore-extract` `tools/matcore-extract/main.cpp` | a set of files published one by one; failures and two extractors | what is published was verified |
| GEMM contract, handoff bodies and certificates `MatcoreOps.cpp`, `Matcore*Handoff*.cpp`, `MatcoreContractionModel.cpp` | a module changed after it was certified | what a verifier accepts is what was issued |
| data staging `src/gpu_data_staging.cpp` | buffers written through views of views | the host sees what the launch wrote |
| benchmark `tools/matcore-bench/benchmark.cpp` | a replay that overwrites the timed output | what is reported was checked |

### Native extension and Python (`src/`, `matcore/`)

| part | what is hard | what makes it correct |
|---|---|---|
| JIT runner and kernel cache `jit_runner.cpp`, `cache_manager.cpp` | two processes that write the same files; a crash between files; another version of the extension | what runs is the kernel asked for; accumulators start at zero |
| GPU memory pool `gpu_runtime_symbols.cpp` | reuse before a stream is done; addresses that come back | a block has one holder |
| GPU plans `jit_runner.cpp`, `gpu_runtime_symbols.cpp` | capture, replay with other tensors, failures in a capture | a call leaves what its kernel computes |
| GPU admission `runtime_capabilities.cpp` | two vendors at once; commands that hang | one vendor's driver per process; probes tell the truth |
| launches and graphs `frontend.py`, `graph.py`, `mlir_engine.cpp`, `bindings.cpp` | views of one array; names against positions | a launch computes its operation of its tensors by position, whenever its graph runs it |
| fusion `fusion_analysis.cpp`, `fusion_emitter*.cpp` | which chain a plan covers | an emitted kernel is its plan |
| structured regions `frontend.py`, `region_verifier.cpp` | a traced call that returns other tensors | the region returned is the region run |

How they interact: the C ABI plans a GEMM and calls `execute_parallel`, which submits a job to a
context that several callers share; the workers run the callbacks, which share the job. A compiled
region calls its session once per operation; the session runs one GEMM at a time, on the CPU or
through a GPU adapter. The host passes views of its own memory, which the region reads and
writes in place. In the extension a launch is admitted (preflight, claim, probe), its kernel is
found or compiled, and it runs at once, in a graph of launches, or as a captured plan.

## 2. Modules

```
SerialSubmissions <--refines-- CpuExecutionContext <-- CpuExecutionContextProofs
NestedContexts  (several contexts; what happens in one is CpuExecutionContext)
CpuParallelTaskPlan <-- CpuParallelGemm <-- CpuParallelGemmProofs
CpuParallelTaskPlan <-- CpuPlanner <-- CpuRuntime
RegionProgram <-- RegionSemantics <--refines-- ClosedHostSession <-- ClosedHostSessionProofs
CpuTopology <-- CpuTopologyDiscovery, ContextPlacement
GemmContract, HandoffBodies <-- HandoffCertificate
MCShared, MCCompiler, MCFrontend, MCCpuPlanning, MCCpuRuntime: several components in one run
```

**CpuExecutionContext.** The steps of the creator, of each worker and of each caller. A critical
section of `state_mutex` is one step. What the code does outside it (a notification after the
unlock, a callback, the join) is a step of its own, and a thread that waits is asleep until notified
or woken spuriously. `wpc` and `cpc` are the places of workers and callers; `submission`, `epoch`,
`stopping`, `results` are the fields of `Impl`. A job fixes what each preflight and each task does,
including calling `shutdown` or `run_tasks` on its own context. **SerialSubmissions** is what the
header tells callers: one submission at a time, each answered with the status its job
determines, none accepted after a stop. **NestedContexts** reduces a submission to *each worker has
one task* and adds tasks that submit elsewhere.

**CpuParallelTaskPlan** holds the arithmetic: the grid, the rectangle of a task, the slice of the
workspace. **CpuParallelGemm** is `execute_parallel` with its callbacks; the context is kept at the
level at which the GEMM sees it: mutex, barrier, completion and stop. Memory is who has written
which part of the packed image and of the output. **PackedKernels** is the loop nest of both
kernels over a memory of cells, sums kept as sequences of terms. **CpuPlanner** has the
registries, legality, costs and the selection loop of the three planners; **CpuRuntime** the entry
points of the C ABI on top of it, each with its checks in order; **VariantValidation** the probes
of the kernels on the workers of a new context; **OpenBlasProvider** each call of the provider as
a step between those of another thread; **CpuTopology**, **CpuTopologyDiscovery** and
**ContextPlacement** the discovery read by read and the binding of workers.

**RegionProgram** defines a region as a flat sequence in source order with markers for the arms of a
shape-if; a frontier is a number of operations. Elements are terms over initial memory cells, so two
results are equal only if they were computed alike from the same data. **RegionSemantics** is the
abstract specification, operation by operation; **ClosedHostSession** the derivation of the
plan, the session, the generated function that drives it and the host that enters it. A GEMM is entered and
returns in two steps, since a callback may reenter the session between. **ValueOwnership** has the
reference counts, **ClosedGpuAdapter** both adapters, every driver call with its failure.

**MdslcDriver**, **MdslcArguments**, **MatcoreExtract**, **HostInputs** are the compiler's processes
with somebody editing the disk beside them; file contents are versions. **GemmContract**,
**HandoffBodies** and **HandoffCertificate** are what is issued and what a verifier demands of a
module that may have been changed in between. **GpuDataStaging** is the pass and the run of what
it emits.

**KernelCache**, **GpuMemoryPool**, **GpuPlan**, **RuntimeCapabilities** are the shared state of the
extension; **KernelLaunch**, **LaunchGraph**, **FusionGraph**, **RegionTrace** what Python records and the
engine runs; **BenchmarkRun** one measurement.

**Proofs.** The theorems of the context, of the parallel GEMM and of the closed session are in modules of their
own, which extend the model; those of `ClosedGpuAdapter`, `GpuMemoryPool`, `KernelCache` and `ValueOwnership` stand
behind the model in its module. `MCShared` has those of `RuntimeCapabilities`, which it extends, and of `NestedContexts`
and `OpenBlasProvider`, whose constants are its own, and shows that the composition keeps what the components promise.

**Composite runs.** The `MC` modules that hold several components have a variable `part`. `Init`
chooses it and no step changes it, so a behaviour belongs to one component and the
state space is the disjoint sum of theirs; the variables of the others stay at one value. The
properties of a composite are of the form `part = ... => ...` and name the properties of the component's module.
Components that do interact are composed inside the modules above (session and plan, GEMM and
context, runtime and planner).

## 3. Runs

| run | instance | checks |
|---|---|---|
| `context_safety` | 2 workers, 2 callers with 2 calls, up to 3 tasks, 8 kinds of job | `TypeOK`, `BorrowedSubmissionAlive`, `PreflightBarrier`, `TasksRunExactlyOnce`, `ReportedStatusIsDeterministic`, `NoThreadLeftBehind`, `StopIsFinal`, refinement of `SerialSubmissions` |
| `context_liveness` | one call each, 3 jobs | every call returns |
| `parallel_gemm` | 3 workers, 2 callers with one call each, 11 requests, scaled tiles | `MemoryIsOrdered` (nothing written before the barrier, B whole when read), `ReturnIsTrue` |
| `parallel_gemm_alignment` | the code's own tile sizes | **violated**, section 6 |
| `closed_host` | about 160 regions, 4 candidates, all plans, 4 shape arguments, 2 entries, 2 takes | `SessionIsSound`, `VerdictIsFinal`, refinement of `RegionSemantics` |
| `cpu_planning` | task grids to 13 x 17 with 7 threads, planner decisions, kernels on 2 x 4 tiles, hosts of 4 and 6 CPUs | `TaskPlanIsSound`, `SelectionIsSound`, `KernelComputesProduct`, `PlacementIsLocal` |
| `cpu_runtime` | call sequences of the C ABI on one problem and one shape of context, 2 matrices with one edit, kernels with up to 2 faults, options and plans of the benchmark | `RuntimeIsSound`, `ValidationIsExact`, `ReportedIsAuthenticated` |
| `shared` | 2 threads, 2 processes, 2 contexts of 2 workers, 2 blocks of 2 sizes on one stream with 2 queued works, 2 vendors with 2 launches, 2 calls of a plan, 2 threads with 2 calls each on a good or defective OpenBLAS with 2 host threads, 2 owners of 2 values, 2 blocks and 2 storages | `WorkBelongsToHolder`, `FramesOutliveTheDevice`, `RunsRequestedKernel`, `OneHolder`, `ProviderCallsAreIsolated`, `OwnershipIsExact`, `AdmissionIsSound`, `ResultIsKernel` |
| `shared_progress` | the same components, smaller | every call returns |
| `compiler` | 2 edits during a build or between 2 questions, command lines of up to 3 arguments beside fixed ones, 1 or 2 extractors with 1 or 2 faults | `OutputIsConsistent`, `DriverKeepsInputs`, `ScansAgree`, `FrozenIsOneMoment`, `PublishedWasVerified`, `AcceptedHandoffIsFaithful`, `HostSeesTheLaunch` |
| `frontend` | 3 launches and 2 runs among 7 host or 6 device calls, 14 matmul and 3 elementwise launches, functions of a few operations with up to 2 dropped views, regions | `LaunchesComputeByPosition`, `KernelComputesItsPlan`, `RunsTheReturnedCall` |
| `fusion_graph` | functions of two operations | **violated**, section 6 |

Why the bounds are large enough. Two workers make a slow and a fast one; with a job for one of
them the other may wake up a whole submission late; three tasks on two workers give one worker a
second task, so a later task can fail before an earlier one; the second call of a caller starts while
workers of the first are still leaving. Three GEMM workers give one packer and two spinners.
Tiles, cache lines and thresholds of work are scaled together so that every remainder occurs
on small matrices. The regions are chosen per hazard: publications through the same, an aliasing or
an overlapping view before a read; publications in one arm; chains of GEMMs whose middle value is or is not used
again; empty, mismatching and overflowing shapes at either frontier of a pair. Two threads and
two blocks, vendors, streams, processes or owners are the least with which one can take what the other has; two edits let one
be undone by the other. Every bound is a named constant (`CallBudget`,
`MaxTasks`, `EntryBudget`, `MaxEdits`, `MaxCalls`, `MaxCrashes`, ...).

Deadlock checking is off: every instance ends when its callers have used their budgets or its
program has exited. The liveness runs exclude the deadlocks that matter, a call that never returns.

**Fairness.** Weak fairness of each thread inside a call: the operating system keeps
scheduling runnable threads and callbacks return. Nobody is obliged to call, to stop a context or
to wake up spuriously; no command has to end and no GPU operation has to succeed; a device runs what is queued;
a deadline passes. A caller that waits for a mutex is only weakly fair, too: the budgets bound how
often others overtake it. An unbounded stream of callers could starve it, since `std::mutex` is not a
queue; the models do not claim otherwise. In `shared_progress` contexts submit to each other in an order
(a task submits to its own context, which is refused, or to a later one). With a cycle of contexts the calls would wait for each
other for ever: the code's check knows the thread's own context only (`cpu_execution_context.cpp:353`), so the order is the
callers' obligation.

Each property has a mutant in `PROJECT.json`: a changed definition, such as a barrier that the first
arrival opens, under which TLC finds the property violated. The mutated forms stand before the
definitions they change, with a `Mutant:` or `Fault:` comment.

## 4. Proofs

TLC checks small instances; the theorems below hold for every value of the constants that the named
assumption admits. A theorem about a component states the properties of its module. Where the run that checks them is a
composite, a second theorem, `Shared...` in `MCShared`, states the run's own property of the composition.

| module | theorems | from |
|---|---|---|
| `CpuExecutionContextProofs` | `TypeCorrect`, `BorrowSafety`, `ThreadsGone`, `StopFinality`, `BarrierSafety`, `TasksExactlyOnce`, `DeterministicReport`, `PromiseKept` | `ConstantsAssumption` |
| `CpuParallelGemmProofs` | `GridFits`, `GridCovers`, `GemmTypes`, `MemoryOrdered`, `ReturnTrue` | `GemmConstantsAssumption`, `PlanConstantsAssumption` |
| `ClosedHostSessionProofs` | `SessionSound`, `SessionImplementsSource`, `VerdictStands` | `SessionConstantsAssumption`, `ProgramConstantsAssumption` |
| `ValueOwnership` | `OwnershipIsCounted` | `ConstantsAssumption` |
| `KernelCache` | `RequestedKernelRuns` | `ConstantsAssumption`, `KeysIdentify` |
| `GpuMemoryPool` | `BlocksHeldOnce`, `TablesAgree`, `FencesProtect` | `ConstantsAssumption`; the last also `~EventsFail` |
| `ClosedGpuAdapter` | `FramesAreKept` | `GpuConstantsAssumption` |
| `MCShared` | `HolderOwnsWorkers` of `NestedContexts` | its `ConstantsAssumption` |
| `MCShared` | `ProviderIsolation` of `OpenBlasProvider` | its `ProviderConstantsAssumption` |
| `MCShared` | `OneVendor`, `SoundAdmission` of `RuntimeCapabilities` | its `ConstantsAssumption`, `~DeviceTensors`; the second also `PipeCapacity > MaxOutput` |
| `MCShared` | `SharedWorkBelongsToHolder`, `SharedOneHolder`, `SharedFrames`, `SharedProviderCalls`, `SharedOwnership`, `SharedKernelRuns` | `InstanceAssumption` |

**Execution context.** That a worker's pointer is alive is not inductive: a step of the caller that
returns would break it, were it not known that all workers have left. `IInv` joins who owns which mutex (`MutexInv`),
what `submission` may point to and which workers still have a copy (`PointerInv`), what a job in
flight looks like (`JobInv`, `BusyInv`), the counters of the two barriers against the workers' places (`CountInv`) and
the threads that exist (`ThreadInv`). The second half of the module adds, for the submission being served, `ServedInv`:
the barrier is open only when every preflight passed (`BarrierInv`), a worker that reported has run all its tasks
(`CompleteInv`), and a worker in the middle has run those of its stride below its index (`WorkInv`). Worker w runs
the tasks w, w + n, w + 2n, ...; that two workers never meet and that none is
left out is arithmetic of `%`, in lemmas of its own. `PromiseKept` maps every step to a step of
`SerialSubmissions` or a stutter; the steps after a stop need `StopInv`.

**Nested contexts.** `WorkBelongsToHolder` is inductive once it is known where a caller can be (`PlacesInv`) and
that a context nobody holds has no busy worker (`IdleInv`), although a holder of one context waits inside another.

**Parallel GEMM.** `GridFits` and `GridCovers` are about the arithmetic alone: the grid chosen for m, n and t has no
empty side and at most t tasks, and the rectangles of any grid tile the output. The row quantum
is a least common multiple, whose least element comes from a lemma of its own (`LeastOf`).
`GemmInv` has, beside types, the plan of each call (`PlanInv`), the single owner of the context (`OwnerInv`), the workers'
places against the owner's (`BusyInv`, `PastBarrierInv`), the packed image against its flag (`PackInv`), outputs untouched
before the barrier (`FreshInv`), what each task has written (`TaskInv`) and what a return may say (`ReturnInv`). By `PlanInv`
there are no more tasks than workers, so each worker runs just the task of its number.

**OpenBLAS.** `BlasInv` has who is between a save and its restore (`BlasPlaceInv`), what the process-wide count is then
(`BlasCountInv`), and what the probe's verdict rests on (`BlasSuccessInv`). The attempt to prove that only a conformant
provider is used showed that the property as first written was too strong: on a host with one thread a provider that
loses or ignores the count does no harm, and `SuccessIsConformant` says so now.

**Reference counts.** `OwnershipInv` has, for each thread inside a copy, a move or an assignment, which steps it has
left and in which order (`FormInv`). From these `RefInv` counts: the references of an object are the handles that hold it,
the handles that are about to, and the record of a block that has not been deleted. `RecordInv` and `LifeInv` say who still
owes a release or a deletion: an object without references lives exactly as long as one thread has its deletion ahead.
The steps retain before they set and release after it, so a copy never finds its source deleted.

**Kernel cache.** `CacheInv` says of each complete file what code is in it (`StoreInv`), of each thread whether what it
loaded or compiled is for its request (`ThreadInv`, `CallInv`), under every interleaving of the writes of two processes and with crashes
between files. The code has no check that a directory's name determines the kernel, so this is the hypothesis `KeysIdentify`;
`NamedKernels` derives it for kernels told apart by name or target, and the three instances of the run meet it.

**GPU memory pool.** `OneHolder` alone is not inductive: nothing in it says that a block in the hands of a thread
inside `release` or in a list of blocks to be freed is not in the pool as well. `PoolInv` adds where
each thread is and what it has (`PlaceInv`), that a block has one holder and is nowhere else (`HolderInv`), the same
of a block a thread carries (`CarryInv`), and that the order of the pool has each pooled block once (`PooledInv`). It needs nothing of
events. `ByteInv` adds the free lists and the byte counter; the bytes of a set of blocks are a set, one pair for each byte of each block, so that
what a step adds or removes is the cardinality of a disjoint union. `FencesProtect` does need events: `WorkInv` says of each queued work whose block it is: the holder's own, or work before the
mark that the pool has as fence or the releasing thread as event, or work that a running
synchronization still counts; `MarkInv` that a mark stands in one stream once and is signalled when it leaves it. A release whose event cannot be
recorded pools its block without a fence (section 6), hence `~EventsFail`.

**GPU adapters.** `FramesAreKept` has all five properties of the adapters, for any number of threads and calls and every
failure of a driver call. The list of retained frames is a linked list that threads push to while others are still
setting the pointer of their own frame. `Reached` defines it as what lies in every set closed under the pointers,
which needs no recursion: a frame that is not on the list may point anywhere (`PointerIsFree`), and the push of a
frame that points to the head adds just that frame (`PushKeepsList`). `ListInv` says that only frames of ended calls are on it, and
that the flag was set before; `BusyInv` that a frame with device work has given nothing back and, once its call has ended, is on it;
`ScriptInv` what a frame owns, and whether the device may have work of it, by the position in the driver calls. The checks are a list in the
source's order, and `ChecksAreComplete` shows that whoever passes them, or leaves them as empty, has none of the defects.

**GPU admission.** `BackendInv` has the claim, the drivers and the symbols against the place of every thread.
`matcore_device_alloc` asks nobody before it initialises a driver, hence `~DeviceTensors`. `CommandInv` relates the
child's pipe to what it still has to write; the pipe is read after the exit only, so a
child with more output than a pipe takes is reported late, hence the bound of `SoundAdmission`.

**Composition.** In a composite the chosen part never changes, and a behaviour of a part is a behaviour of its component
(`PoolRuns`, `BlasRuns`, ...), so the component's theorem applies to the instance.

**Closed session.** The theorems hold for every well-formed region, of any length, with views that may alias or overlap as they
like. `SessionInv` is a conjunction of nine parts. `CompiledInv` and `ControlInv` say what was compiled and where
the generated function is; `LedgerInv` orders the frontiers of the status; `ReportInv` and `LeafInv` what a candidate has been told.
`ValuesInv` is the heart: every value that dominates the next operation was issued, except the one in the middle of a fused
pair; that pairs are never adjacent and a middle value is used once makes the exception harmless. `BindingInv` says that the value
the plan would forward is still what its view holds: a publication through any view that shares a cell ends the binding.
Reading a value back after its publication gives the value because the cells *within* a view are distinct (an element is one address), although views overlap.
`HandedInv` and `UntouchedInv` count observations and what a session that nobody ran still has. The plan and the
places of control are defined by recursion over the region; the proof uses their defining equations one step at a time, and
for facts about the whole region the least position at which they would fail. `VerdictStands` needs only
the small `VerdictInv`: a final status is touched by no entry, whether by the generated code, a reentrant candidate or the host.

**Refinement of the source.** `SessionImplementsSource` maps the session to `RegionSemantics`. The source's values are the
session's with the product filled in that a fused pair never materialises (`Env`); its observations are those the session
keeps or has handed out (`Observed`). The first frontier of a pair is then the step in which the source computes that product. Every
other step performs the one operation of the source at its frontier, fails it, abandons it (an unused session whose result is
taken), or stutters: the choice of a plan, an entry, a leaf that starts, a reentrant or refused call. That the choice of a plan
stutters needs `SourceInv`: nothing has run before it.

What stays with TLC. Liveness, and ENABLED with it. What recursive definitions compute over whole inputs, which would take induction over data:
`KernelComputesProduct`, `SelectionIsSound`, `TaskPlanIsSound` (its tiling is `GridCovers`), `ValidationIsExact`, `KernelComputesItsPlan`, `LaunchesComputeByPosition`,
`AcceptedHandoffIsFaithful`, `HostSeesTheLaunch`, `ScansAgree`. Not attempted: `ResultIsKernel`, `RuntimeIsSound`,
`PlacementIsLocal` and the properties of the compiler's processes and of the benchmark.

## 5. What the models leave out

* Memory order. The context guards everything by mutexes, so interleaving is exact there. The flags
  of the GEMM and the quarantine list are release/acquire and are modelled as sequentially consistent; the order
  *packed, then flag* is modelled, and a mutant breaks it.
* Arithmetic. Floating point is uninterpreted, rounding is left out. 64-bit widths appear as limits
  (`MaxU64`, `MaxIndex`, `MaxExtent`).
* Text: names, options, messages and file contents are values of small sets; digests are injective.
* The six comparisons of a shape-if are represented by equality.
* Callbacks that never return; their type is `noexcept`, so none can throw out of a worker.
* Device code: the instructions of emitted kernels, the softmax and block-attention kernels, the NVVM,
  ROCDL and CPU lowerings, which are sequences of MLIR passes. Their result is an outcome.
* The Clang front ends and the typed IR: their subject is C++ syntax and serialisation.
* Checks whose outcome the instances fix or that decide nothing else: an invalid nesting policy (`cpu_parallel_gemm.cpp:587`), a failing
  `cuDeviceGetAttribute` of the CUDA adapter, an OpenBLAS on a host with one thread (`ProviderIsolation` has it, the run has two). `CpuParallelGemm` leaves the
  barrier by *some admission failed*, the same verdict as `preflight_failed` there. `KernelLaunch` has a launch's own
  clearing in order; the race with the stream is in `GpuPlan`.
* `run_process_v1` (pipes of a child), benchmark comparisons, descriptors of targets, counters.

## 6. Findings

`parallel_gemm_alignment`: with one column of tasks, a row band is executed with the alignment the
caller declared for the whole tensor, although the band starts `row_begin * k` floats into it. For
264 x 33 x 100 on three threads with 64-byte alignment the second band starts at row 88, which is
not 64-byte aligned; `execute_prepacked` refuses it and the call ends with `worker_task_failed` after another
worker has written its band. `docs/mdslc/agent-reports/m7-parallel-performance.md:62` says that
alignment failures happen before output mutation or worker submission.

`fusion_graph`: the engine emits the first accepted plan only (`src/mlir_engine.cpp:1084`) and nobody compares
the value that leaves the plan with the result of the function, so a function whose `matmul` is used twice, or that goes
on after its second `matmul`, returns the first chain. `matcore/frontend.py:2093` says the decorator "executes the fused graph".

Other behaviour met while modelling, kept as the code has it in the models:

* The key of a linear kernel hashes the kinds of its operations only (`src/cache_manager.cpp:281`): two kernels of one name, shapes and
  target that differ in an attribute share a directory. `RunsRequestedKernel` and its theorem assume `KeysIdentify`, which leaves such pairs out.
* `metadata.json` is written last and by itself (`src/jit_runner.cpp:523`): two processes may leave one's library
  beside the other's metadata. The lookup treats a lost entry as *accumulates*, which is why outputs still start at zero.
* When recording an event fails, a block goes back to the pool without one (`src/gpu_runtime_symbols.cpp:455`), and a busy
  candidate is polled rather than awaited (`:400`). `validateLive` checks before a copy and not during it (`:909`).
* A child that fills its pipe is ended by the deadline, not read (`src/runtime_capabilities.cpp:134`); a backend claim is never given back (`src/gpu_runtime_symbols.cpp:1059`).
* Outputs are cleared on the null stream (`src/jit_runner.cpp:1019`, `src/gpu_runtime_symbols.cpp:1125`), and nothing orders that
  before a kernel on a stream created with `CU_STREAM_NON_BLOCKING` (`:571`). `GpuPlan` has the race: a kernel may accumulate into an
  output whose clearing is still queued, and the clearing may then erase it. `ResultIsKernel` speaks of the calls none of whose work ran
  on the output beside a clearing still queued for it; a replay clears on its own stream and never adds to these. `ZeroedBeforeInvoking`, the
  claim of `src/mlir_engine.cpp:936`, is defined in the module, does not hold, and is in no run. An override outlives a `begin_capture` that failed (`src/jit_runner.cpp:1089`).
* A header that shadows another one and vanishes again during a build is not noticed (`tools/mdslc/main.cpp:2834`); the set of destinations may name a generated header.
* Two extractors with one destination may mix their sets. Each file is whole unless the last flush of its temporary
  is lost: that happens in a destructor nobody asks (`tools/matcore-extract/main.cpp:899`), and the short file is published with exit
  status 0. `PublishedWasVerified` allows exactly this way to a short file (`OnlyALostFlushShortens`). The flush of standard output at exit is left out.
* The fingerprints of a handoff protect integrity, not authenticity.
* `gemm_f32_execute_prepacked` identifies its image by source and shape; whether the source was modified since is the caller's promise.
* A launch on device tensors clears its output when it is called (`matcore/frontend.py:1309`), in a graph therefore at capture; the
  executor clears the output of a product again before each invocation (`src/jit_runner.cpp:776`), so a graph that is run
  again does not accumulate. What the early clearing changes is seen by a launch captured before it that reads the cleared tensor, and by
  the program when the body of the graph raises: nothing ran and the outputs are zero. `GraphMatchesEager` compares a graph
  whose body does not raise with launches at once, unless it cleared at another moment than they and one of them could see it (`early`).
* Operands are validated by name and lowered by position (`src/mlir_engine.cpp:232`): `matmul(b, a)` of a kernel with
  parameters `a, b, c` runs a @ b. The property therefore says what every accepted launch computes, by position, and that this is what the body
  says for the bodies that name their operands in order and for no others.
* The tracer passes the transposition of a view on for the right operand of a `matmul` only (`matcore/frontend.py:1507`, `:1538`, `:1648`). Of a left operand,
  an elementwise operand or the returned value it is dropped: `A.T @ B` is emitted as `A @ B`. Each value of `FusionGraph` has the term that
  was meant and the one recorded; `KernelComputesItsPlan` compares the kernel with what was recorded, and with what was meant where no view was
  dropped. `ViewsAreTransposed` demands the second always; it is defined in the module, does not hold (A.T @ A is a
  shortest counterexample), and is in no run.
