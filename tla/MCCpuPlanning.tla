---------------------------- MODULE MCCpuPlanning -----------------------------
(* The parts of the CPU runtime that decide where and how a product runs, side by side: the  *)
(* task plan and the planners over sweeps of requests, the packed kernels, the discovery of   *)
(* the topology and the placement of a context.  A behaviour is one of them, named by part.   *)
EXTENDS CpuPlanner, FiniteSets, Sequences

CONSTANTS Parts

\* Three cores of two threads; the threads of a core are numbered apart, so that a mask may
\* hide either.
Node(c) == IF c % 3 = 2 THEN 1 ELSE 0
SixCpus ==
  [complete |-> TRUE,
   cpu |-> [c \in 0..5 |-> [core |-> c % 3, package |-> 0, node |-> Node(c), thread |-> c \div 3]],
   nodes |-> [n \in {0, 1} |-> {c \in 0..5 : Node(c) = n}],
   caches |-> {[level |-> 1, shared |-> {c, c + 3}] : c \in 0..2}]

\* Two cores of two threads on two nodes.
FourCpus == [c \in 0..3 |-> [core |-> c % 2, package |-> 0, node |-> c % 2]]

VARIABLE part   \* which component runs

------------------------------------------------------------------------------
(* The task plan: a request that grows. *)
VARIABLES problem, threads
sweepVars == <<problem, threads>>

Sweep == INSTANCE CpuParallelTaskPlan WITH
  MacroTileRows <- 4, RegisterTileRows <- 2, CacheLineFloats <- 4, ColumnTile <- 4, PackedNr <- 2,
  PackedKc <- 2, ColumnOnlyMinWork <- 24, TwoDimMinWork <- 60

SweepInit == problem \in [m: {1}, n: {1}, k: {1, 3}, align: {1, 4}] /\ threads = 1

\* A larger request: up to 9 rows, 13 columns and 5 threads.
SweepNext ==
  \/ problem.m < 9 /\ problem' = [problem EXCEPT !.m = @ + 1] /\ UNCHANGED threads
  \/ problem.n < 13 /\ problem' = [problem EXCEPT !.n = @ + 1] /\ UNCHANGED threads
  \/ threads < 5 /\ threads' = threads + 1 /\ UNCHANGED problem

TheGrid  == Sweep!TaskGrid(problem, threads)
AllTasks == 0 .. Sweep!Tasks(TheGrid) - 1
Active   == Sweep!ActualThreads(problem, threads)
SweepIdle ==
  /\ problem = "idle" /\ threads = "idle"

------------------------------------------------------------------------------
(* The planners: shapes, thread policies and hosts. *)
VARIABLES shape, policy, missing, host, placement, decided
choiceVars == <<shape, policy, missing, host, placement, decided>>

Hosts == { [complete |-> TRUE, logical |-> 8, physical |-> 4, available |-> 8, nodes |-> {0, 1}],
           [complete |-> TRUE, logical |-> 4, physical |-> 4, available |-> 4, nodes |-> {0}] }
Placements == [complete: {TRUE}, requested: BOOLEAN, applied: BOOLEAN, single: BOOLEAN,
               localFirst: {TRUE}, localLogical: {3}, localPhysical: {2},
               nodes: {{0}, {0, 1}}, crosses: BOOLEAN, callerFirstTouch: {TRUE}]
Workers(h, pol, pl) == PolicyThreadCeiling(h, [pol EXCEPT !.max = 0], h.logical, pl)

Fact == UNION {{NeedsV3(v)[i] : i \in DOMAIN NeedsV3(v)} : v \in Variants}
Derived == {"oneThread", "blasThreadsFit", "blasCeiling", "blasDimensionsFit",
            "blasUnbound", "placement", "twoThreads", "workPerThread",
            "workspaceNonzero", "workspaceFits"}
HostFact == Fact \ Derived
BlasFacts == {"blasLinked", "blasEvaluated", "blasConformant", "blasThreadControl"}

\* The decisions of the three planners, with the provider and as if it had not been
\* discovered.
Decide(sh, pol, facts, h, pl) ==
  LET V3(f, ceiling) == DecisionsV3(sh, h, pol, f, Workers(h, pol, pl), ceiling, pl)
      V2(f, ceiling) == DecisionsV2(sh, f, pol.requested, ceiling)
  IN [v3 |-> V3(facts, 1), v3Without |-> V3(facts \ BlasFacts, 0),
      v1 |-> DecisionsV1(sh, facts),
      v2 |-> V2(facts, 1), v2Without |-> V2(facts \ BlasFacts, 0)]

ChoiceInit ==
  /\ shape \in [m: {1}, n: {32, 600}, k: {600}, align: {CacheLineFloats}]
  /\ policy \in [requested: {1}, max: {0, 2}, smt: BOOLEAN, bound: BOOLEAN]
  /\ missing = {}
  /\ host \in Hosts
  /\ placement \in {pl \in Placements : PlacementValid(host, pl)}
  /\ decided = Decide(shape, policy, HostFact, host, placement)

\* More rows or more threads, or a host that lacks one of the facts the planners ask for.
ChoiceNext ==
  /\ \/ /\ missing = {} /\ shape.m < 600
        /\ shape' = [shape EXCEPT !.m = IF @ = 1 THEN 32 ELSE 600]
        /\ UNCHANGED <<policy, missing>>
     \/ /\ missing = {} /\ policy.requested < 3
        /\ policy' = [policy EXCEPT !.requested = @ + 1]
        /\ UNCHANGED <<shape, missing>>
     \/ /\ missing = {} /\ \E f \in HostFact : missing' = {f}
        /\ UNCHANGED <<shape, policy>>
  /\ UNCHANGED <<host, placement>>
  /\ decided' = Decide(shape', policy', HostFact \ missing', host, placement)

Chosen(registry, d, request) == PlanOf(registry, d, request).variant
ChoiceIdle ==
  /\ shape = "idle" /\ policy = "idle" /\ missing = "idle" /\ host = "idle"
  /\ placement = "idle" /\ decided = "idle"

------------------------------------------------------------------------------
(* The packed kernels, with tiles of 2 by 4 so that every kind of edge appears. *)
VARIABLES kernelQ, kernelMode, kernelIsa, kernelPacker, kernelBase, kernelBytes, kernelView,
          kernelMem, kernelColumn, kernelP, kernelRow, kernelOffset, kernelStage, kernelStatus
kernelVars == <<kernelQ, kernelMode, kernelIsa, kernelPacker, kernelBase, kernelBytes,
                kernelView, kernelMem, kernelColumn, kernelP, kernelRow, kernelOffset,
                kernelStage, kernelStatus>>
Kernels == INSTANCE PackedKernels WITH MR <- 2, NR <- 4, MC <- 4, NC <- 8, KC <- 2, Align <- 4,
  MaxAddress <- 168, Shapes <- [m: {1, 5}, n: {1, 5, 9}, k: {1, 3}], q <- kernelQ,
  mode <- kernelMode, isa <- kernelIsa, packer <- kernelPacker, base <- kernelBase,
  bytes <- kernelBytes, view <- kernelView, mem <- kernelMem, column <- kernelColumn,
  p <- kernelP, row <- kernelRow, offset <- kernelOffset, stage <- kernelStage,
  status <- kernelStatus
KernelIdle ==
  /\ kernelQ = "idle" /\ kernelMode = "idle" /\ kernelIsa = "idle" /\ kernelPacker = "idle"
  /\ kernelBase = "idle" /\ kernelBytes = "idle" /\ kernelView = "idle"
  /\ kernelMem = "idle" /\ kernelColumn = "idle" /\ kernelP = "idle" /\ kernelRow = "idle"
  /\ kernelOffset = "idle" /\ kernelStage = "idle" /\ kernelStatus = "idle"

------------------------------------------------------------------------------
(* The discovery of the topology, while CPUs come and go. *)
VARIABLES discoveryOs, discoveryOnline, discoverySeen, discoveryPc, discoveryTodo,
          discoveryListed, discoveryCpu, discoveryNodes, discoveryCaches, discoveryComplete,
          discoveryPlugs, discoveryErrors
discoveryVars == <<discoveryOs, discoveryOnline, discoverySeen, discoveryPc, discoveryTodo,
                   discoveryListed, discoveryCpu, discoveryNodes, discoveryCaches,
                   discoveryComplete, discoveryPlugs, discoveryErrors>>
Discovery == INSTANCE CpuTopologyDiscovery WITH Machine <- FourCpus, MaxPlugs <- 2,
  MaxErrors <- 1, os <- discoveryOs, online <- discoveryOnline, seen <- discoverySeen,
  pc <- discoveryPc, todo <- discoveryTodo, listed <- discoveryListed, cpu <- discoveryCpu,
  nodes <- discoveryNodes, caches <- discoveryCaches, complete <- discoveryComplete,
  plugs <- discoveryPlugs, errors <- discoveryErrors
DiscoveryIdle ==
  /\ discoveryOs = "idle" /\ discoveryOnline = "idle" /\ discoverySeen = "idle"
  /\ discoveryPc = "idle" /\ discoveryTodo = "idle" /\ discoveryListed = "idle"
  /\ discoveryCpu = "idle" /\ discoveryNodes = "idle" /\ discoveryCaches = "idle"
  /\ discoveryComplete = "idle" /\ discoveryPlugs = "idle" /\ discoveryErrors = "idle"

------------------------------------------------------------------------------
(* The placement of a context: three cores of two threads on two nodes. *)
VARIABLES contextMask, contextCreator, contextMoves, contextStep, contextOptions,
          contextAffinity, contextCurrent, contextSelection, contextSubmissions,
          contextBaseline, contextJobs, contextHandle, contextReport
contextVars == <<contextMask, contextCreator, contextMoves, contextStep, contextOptions,
                 contextAffinity, contextCurrent, contextSelection, contextSubmissions,
                 contextBaseline, contextJobs, contextHandle, contextReport>>
Placement == INSTANCE ContextPlacement WITH Host <- SixCpus,
  Masks <- {0..5, {1, 2, 3}, {0, 3, 5}, {1, 3}, {2, 5}},
  Options <- [affinity : {"none", "compact", "scatter"}, numa : {"single_node", "local_first"}, smt : {"physical_only", "allow_smt"}, threads : {1, 2}],
  MaxMoves <- 1, MaxJobs <- 2, mask <- contextMask, creator <- contextCreator,
  moves <- contextMoves, step <- contextStep, options <- contextOptions,
  affinity <- contextAffinity, current <- contextCurrent, selection <- contextSelection,
  submissions <- contextSubmissions, baseline <- contextBaseline, jobs <- contextJobs,
  handle <- contextHandle, report <- contextReport
ContextIdle ==
  /\ contextMask = "idle" /\ contextCreator = "idle" /\ contextMoves = "idle"
  /\ contextStep = "idle" /\ contextOptions = "idle" /\ contextAffinity = "idle"
  /\ contextCurrent = "idle" /\ contextSelection = "idle" /\ contextSubmissions = "idle"
  /\ contextBaseline = "idle" /\ contextJobs = "idle" /\ contextHandle = "idle"
  /\ contextReport = "idle"

------------------------------------------------------------------------------
\* The constants of every instance are ones the code can be built and called with.
ASSUME InstanceAssumption ==
  /\ Kernels!KernelConstantsAssumption

vars == <<part, sweepVars, choiceVars, kernelVars, discoveryVars, contextVars>>

Init ==
  /\ part \in Parts
  /\ IF part = "tasks" THEN SweepInit ELSE SweepIdle
  /\ IF part = "planner" THEN ChoiceInit ELSE ChoiceIdle
  /\ IF part = "kernels" THEN Kernels!Init ELSE KernelIdle
  /\ IF part = "discovery" THEN Discovery!Init ELSE DiscoveryIdle
  /\ IF part = "placement" THEN Placement!Init ELSE ContextIdle

Next ==
  \/ part = "tasks" /\ SweepNext /\ UNCHANGED <<part, choiceVars, kernelVars, discoveryVars,
       contextVars>>
  \/ part = "planner" /\ ChoiceNext /\ UNCHANGED <<part, sweepVars, kernelVars, discoveryVars,
       contextVars>>
  \/ part = "kernels" /\ Kernels!Next /\ UNCHANGED <<part, sweepVars, choiceVars, discoveryVars,
       contextVars>>
  \/ part = "discovery" /\ Discovery!Next /\ UNCHANGED <<part, sweepVars, choiceVars,
       kernelVars, contextVars>>
  \/ part = "placement" /\ Placement!Next /\ UNCHANGED <<part, sweepVars, choiceVars,
       kernelVars, discoveryVars>>

Spec == Init /\ [][Next]_vars

------------------------------------------------------------------------------
\* execute_output_partition and the arena.  The rectangles of the tasks tile the output,
\* whatever the remainders, and no two of them share a cache line.  Planning again with the
\* planned thread count gives the same grid, which the workers compare; no admissible grid
\* uses more threads.  Each worker's slice of the arena is its own, outside the shared image
\* of B, and holds what any task packs.
TaskPlanIsSound ==
  part = "tasks" =>
    LET Line(x) == (x[1] * problem.n + x[2]) \div 4
        Lines(t) == {Line(x) : x \in Sweep!Rectangle(problem, TheGrid, t)}
        limit == Sweep!MaximumRowTasks(problem, threads)
        columns == IF Sweep!ColumnPartitionSafe(problem) THEN Sweep!ColumnPanels(problem) ELSE 1
        best == Sweep!BestGrid(problem, threads)
        slices == [w \in 0 .. Active - 1 |-> Sweep!WorkerSlice(problem, w)]
    IN /\ \A x \in (0 .. problem.m - 1) \X (0 .. problem.n - 1) :
            Cardinality({t \in AllTasks : x \in Sweep!Rectangle(problem, TheGrid, t)}) = 1
       /\ \A t, u \in AllTasks : t # u => Lines(t) \cap Lines(u) = {}
       /\ Sweep!TaskGrid(problem, Active) = TheGrid
       /\ Sweep!ActualThreads(problem, Active) = Active
       /\ \A g \in [rows: 1 .. limit, columns: 1 .. columns] : Sweep!Tasks(g) <= threads =>
            \/ Sweep!Tasks(g) < Sweep!Tasks(best)
            \/ Sweep!Tasks(g) = Sweep!Tasks(best) /\ g.rows <= best.rows
       /\ \A v, w \in DOMAIN slices : v # w => slices[v] \cap slices[w] = {}
       /\ \A w \in DOMAIN slices :
            slices[w] \subseteq Sweep!SharedPackedB(problem) .. Sweep!TotalWorkspace(problem, Active) - 1
       /\ \A t \in AllTasks :
            Sweep!PackedAFloats(problem, TheGrid, t) <= Sweep!PerWorkerStride(problem)

\* The one-pass loop finds the best candidate: whatever the order of the registry, nothing
\* legal is cheaper, and among the cheapest none has a better priority.  A forced request is
\* never replaced by another variant.
Optimal(registry, d) ==
  LET Priority(v) == registry[CHOOSE i \in DOMAIN registry : registry[i][1] = v][2]
      best == Chosen(registry, d, "automatic")
      legal == {v \in DOMAIN d : d[v].legal}
  IN /\ (best = "none") <=> (legal = {})
     /\ \A v \in legal : \/ d[best].cost < d[v].cost
                         \/ d[best].cost = d[v].cost /\ Priority(best) <= Priority(v)
     /\ \A v \in DOMAIN d : Chosen(registry, d, v) = IF d[v].legal THEN v ELSE "none"

\* Discovery of the provider depends on the floating-point environment of the caller: a
\* workspace sized while it was not considered is enough for the plan that considers it.
NeedsNoMore(registry, d, without, request) ==
  LET v == Chosen(registry, d, request)
      w == Chosen(registry, without, request)
  IN w # "none" => v # "none" /\ d[v].workspace <= without[w].workspace

\* The planners choose the best legal variant (Optimal); the parts of its workspace add up;
\* a parallel plan asks for no more threads than the policy, the context, the host and, under
\* the single-node policy, the node of its workers admit; and the provider never makes a
\* workspace too small (NeedsNoMore).
SelectionIsSound ==
  part = "planner" =>
    /\ Optimal(RegistryV3, decided.v3) /\ Optimal(RegistryV2, decided.v2)
    /\ Optimal(RegistryV1, decided.v1)
    /\ \A request \in Requests :
         LET v == Chosen(RegistryV3, decided.v3, request)
             d == decided.v3[v]
         IN v # "none" => d.shared + d.perWorker * d.threads = d.workspace
    /\ \A v \in {"parallel2", "parallel512"} : decided.v3[v].legal =>
         LET d == decided.v3[v]
         IN /\ d.threads <= policy.requested
            /\ policy.max # 0 => d.threads <= policy.max
            /\ d.threads <= Workers(host, policy, placement)
            /\ placement.single =>
                 d.threads <= IF policy.smt THEN placement.localLogical ELSE placement.localPhysical
    /\ \A request \in Requests \ {"openblas"} :
         /\ NeedsNoMore(RegistryV3, decided.v3, decided.v3Without, request)
         /\ request \in DOMAIN decided.v2 \cup {"automatic"} =>
              NeedsNoMore(RegistryV2, decided.v2, decided.v2Without, request)

\* A packed kernel that accepts its buffers computes the product, sums in order, writes
\* nothing outside the output and its workspace, and reads its panels with aligned loads.
KernelComputesProduct ==
  part = "kernels" => Kernels!ComputesProduct /\ Kernels!WritesStayInside /\ Kernels!PanelsAligned

\* A topology that calls itself complete is the one the machine had at one moment of the
\* discovery, and a machine nobody touches is discovered.  Under the single-node policy the
\* workers stay on one node although the creator moves and its mask changes during the call;
\* no two of them share a core unless the policy says so; and the capacity the planner is told
\* is that node's.
PlacementIsLocal ==
  /\ part = "discovery" => Discovery!CompleteTopologyWasReal /\ Discovery!QuietMachineIsDiscovered
  /\ part = "placement" =>
       Placement!WorkersStayOnOneNode /\ Placement!CoresAreNotShared /\ Placement!CapacityIsLocal
==============================================================================
