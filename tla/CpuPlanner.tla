------------------------------ MODULE CpuPlanner ------------------------------
(***************************************************************************)
(* How the CPU runtime picks an implementation of a GEMM                   *)
(* (compiler/lib/planner): plan_cpu_gemm_v1, _v2 and _v3.                  *)
(*                                                                         *)
(* Each planner walks a registry of variants, decides whether each one is  *)
(* legal from facts about the host, the build and the validation that ran, *)
(* estimates a cost, and keeps the best.  A fact is a string in a set; the *)
(* reason reported for an illegal variant is its first missing fact, and   *)
(* only whether there is one matters here.  Malformed problems and         *)
(* capability records are refused by the callers' validation.              *)
(* Sizes are in floats, as in CpuParallelTaskPlan.                         *)
(***************************************************************************)
EXTENDS CpuParallelTaskPlan, Sequences

CONSTANTS
  MaxU64,             \* largest value of a cost or size, where they saturate
  MaxBlasInt,         \* INT_MAX of the LP64 provider
  MinWorkPerThread,   \* kCpuParallelMinimumWorkPerThreadV1
  BoundMinWork, BoundMaxWork, BoundMinRows   \* kBoundPackedAvx2*V1

ASSUME PlannerConstantsAssumption ==
  /\ {MaxU64, MaxBlasInt, BoundMaxWork} \subseteq Nat \ {0}
  /\ {MinWorkPerThread, BoundMinWork, BoundMinRows} \subseteq Nat

-----------------------------------------------------------------------------
(* Registries, in the order in which candidates are visited.               *)

RegistryV1 == << <<"reference", 30>>, <<"tiled", 20>>, <<"vectorized", 10>> >>

RegistryV2 == << <<"reference", 50>>, <<"tiled", 40>>, <<"vectorized", 30>>,
  <<"openblas", 10>>, <<"packed2", 20>> >>

RegistryV3 == << <<"reference", 80>>, <<"tiled", 70>>, <<"vectorized", 60>>,
  <<"openblas", 10>>, <<"packed2", 50>>, <<"packed512", 40>>,
  <<"parallel2", 30>>, <<"parallel512", 20>> >>

Variants == {RegistryV3[i][1] : i \in DOMAIN RegistryV3}
Requests == Variants \cup {"automatic"}

-----------------------------------------------------------------------------
(* Legality: the facts a variant needs, in the order they are asked for.    *)

PortableNeeds == <<"portable">>
VectorizedNeeds == <<"portable", "avx2", "fma", "detected", "x86_64", "vec256", "uninstrumented">>

\* "oneThread" holds when the variant is asked for one thread.
OpenBlasNeeds == <<"portable", "blasLinked", "blasEvaluated", "blasConformant",
  "blasThreadControl", "blasCeiling", "blasThreadsFit", "blasDimensionsFit">>
PackedNeeds == <<"portable", "avx2", "fma", "packed2Built", "packed2Size",
  "packed2Align", "detected", "x86_64", "vec256", "oneThread">>

NeedsV2(v) ==
  CASE v \in {"reference", "tiled"} -> PortableNeeds
    [] v = "vectorized" -> VectorizedNeeds
    [] v = "openblas" -> OpenBlasNeeds
    [] v = "packed2"  -> PackedNeeds

\* The fact that an implementation passed the runtime's own validation.
Validated == [reference |-> "referenceValidated", tiled |-> "tiledValidated",
  vectorized |-> "vectorizedValidated", openblas |-> "blasValidated",
  packed2 |-> "packed2Validated"]

Packed512Needs == <<"avx512Hardware", "detected", "x86_64", "fma", "avx512Os",
  "avx512Compiler", "packed512Built", "packed512Validated", "packed512Size",
  "packed512Align">>

ParallelNeeds(v) ==
  LET isa == IF v = "parallel512"
             THEN <<"parallel512Built", "parallel512Validated", "packed512Built",
                    "parallel512Size", "avx512Hardware", "detected", "x86_64",
                    "avx512Os", "avx512Compiler", "packed512Validated", "fma">>
             ELSE <<"parallel2Built", "parallel2Validated", "packed2Built",
                    "parallel2Size", "detected", "x86_64", "avx2", "fma",
                    "vec256", "packed2Validated">>
  IN <<"placement", "context", "noProviderThreads">> \o isa
     \o <<"twoThreads", "workPerThread", "workspaceNonzero", "parallelAlign",
          "workspaceFits">>

NeedsV3(v) ==
  CASE v = "packed512" -> Packed512Needs
    [] v \in {"parallel2", "parallel512"} -> ParallelNeeds(v)
    [] v = "openblas" -> OpenBlasNeeds \o <<"blasUnbound", Validated[v]>>
    [] OTHER -> NeedsV2(v) \o <<Validated[v]>>

Legal(needs, facts) == \A i \in DOMAIN needs : needs[i] \in facts

-----------------------------------------------------------------------------
(* Costs, saturating at the largest 64-bit value.                          *)

SaturatingAdd(a, b) == IF b > MaxU64 - a THEN MaxU64 ELSE a + b
SaturatingMultiply(a, b) ==
  IF a # 0 /\ b > MaxU64 \div a THEN MaxU64 ELSE a * b

Work(p) == SaturatingMultiply(SaturatingMultiply(p.m, p.n), p.k)
Packing(p) ==
  SaturatingAdd(SaturatingMultiply(p.m, p.k), SaturatingMultiply(p.k, p.n))
Linear(factor, x, fixed) == SaturatingAdd(SaturatingMultiply(x, factor), fixed)

CostV1(v, p) ==
  CASE v = "reference" -> SaturatingMultiply(Work(p), 8)
    [] v = "tiled" -> SaturatingAdd(Linear(4, Work(p), 4096),
                        SaturatingMultiply((p.m % 32) + (p.n % 32) + (p.k % 64), 64))
    [] v = "vectorized" ->
         SaturatingAdd(SaturatingAdd(Linear(2, Work(p), 16384),
                                     IF p.align < 8 THEN 24576 ELSE 0),
                       SaturatingMultiply(p.n % 8, 128))

CostV2(v, p) ==
  CASE v = "reference"  -> SaturatingMultiply(Work(p), 16)
    [] v = "tiled"      -> Linear(7, Work(p), 4096)
    [] v = "vectorized" -> Linear(4, Work(p), 16384)
    [] v = "openblas"   -> IF p.m = 1 THEN MaxU64 ELSE SaturatingAdd(Work(p), 2000)
    [] v = "packed2"    -> SaturatingAdd(SaturatingAdd(SaturatingMultiply(Work(p), 2),
                             SaturatingMultiply(Packing(p), 6)), 48000)

ExternalCost(p, threads) ==
  IF p.m = 1 THEN MaxU64
  ELSE SaturatingAdd(DivideRoundUp(Work(p), threads), 2000)

Packed512Cost(p) ==
  SaturatingAdd(SaturatingAdd(Work(p), SaturatingMultiply(Packing(p), 5)), 48000)

\* Packing A and B once, the compute shared by the threads, the submission,
\* and a penalty when the workers span several NUMA nodes.
ParallelCost(p, threads, avx512, crosses) ==
  LET compute == DivideRoundUp(SaturatingMultiply(Work(p), IF avx512 THEN 1 ELSE 2), threads)
      aPack == SaturatingMultiply(SaturatingMultiply(p.m, p.k), 6)
      bPack == SaturatingMultiply(SaturatingMultiply(p.k, p.n), 6)
      local == SaturatingAdd(SaturatingAdd(compute, SaturatingAdd(aPack, bPack)),
                 SaturatingAdd(200000, SaturatingMultiply(threads, 20000)))
      remote == SaturatingAdd(SaturatingAdd(DivideRoundUp(Work(p), 4),
                  SaturatingMultiply(bPack, 2)), 250000)
  IN IF crosses THEN SaturatingAdd(local, remote) ELSE local

\* A small GEMM on bound workers: packed AVX2 is made the cheapest.
UseBoundPackedCalibration(p, policy) ==
  /\ policy.bound /\ policy.requested > 1 /\ p.m >= BoundMinRows
  /\ Work(p) >= BoundMinWork /\ Work(p) < BoundMaxWork

-----------------------------------------------------------------------------
(* Selection                                                               *)

\* Mutant: equal costs are not broken by priority.
Beats_CostOnly(a, b) == a.cost < b.cost
Beats(a, b) ==
  \/ a.cost < b.cost
  \/ (a.cost = b.cost /\ a.priority < b.priority)

Matches(request, v) == request = "automatic" \/ request = v

\* The loop of every planner; 0 when nothing legal matches the request.
SelectedIndex(registry, decisions, request) ==
  LET Candidate(i) == [cost |-> decisions[registry[i][1]].cost,
                       priority |-> registry[i][2]]
      best[i \in 0 .. Len(registry)] ==
        IF i = 0 THEN 0
        ELSE IF /\ decisions[registry[i][1]].legal
                /\ Matches(request, registry[i][1])
                /\ (best[i - 1] = 0 \/ Beats(Candidate(i), Candidate(best[i - 1])))
             THEN i ELSE best[i - 1]
  IN best[Len(registry)]

PlanOf(registry, decisions, request) ==
  LET i == SelectedIndex(registry, decisions, request)
  IN IF i = 0
     THEN [status |-> IF request = "automatic" THEN "no_legal_variant"
                      ELSE "forced_variant_illegal", variant |-> "none"]
     ELSE [status |-> "selected", variant |-> registry[i][1]]

\* A decision record: the share of the workspace and the threads come with it.
Decision(legal, cost, shared, perWorker, total, threads) ==
  [legal |-> legal, cost |-> IF legal THEN cost ELSE MaxU64, shared |-> shared,
   perWorker |-> perWorker, workspace |-> total, threads |-> threads]

-----------------------------------------------------------------------------
(* Version 1: three portable variants.                                     *)

DecisionsV1(p, facts) ==
  [v \in {"reference", "tiled", "vectorized"} |->
     Decision(Legal(NeedsV2(v), facts), CostV1(v, p), 0, 0, 0, 1)]

(* Version 2 adds the external provider and packed AVX2.                   *)

\* make_execution_requirements: packed A, then packed B, of one block.
PackedAWorkspace(p) ==
  RoundUp(Least(p.m, MacroTileRows), RegisterTileRows) * Least(p.k, PackedKc)
PackedBWorkspace(p) ==
  RoundUp(Least(p.n, ColumnTile), PackedNr) * Least(p.k, PackedKc)
PackedWorkspace(p) ==
  RoundUp(RoundUp(PackedAWorkspace(p), CacheLineFloats) + PackedBWorkspace(p),
          CacheLineFloats)
PrepackedExecution(p) == RoundUp(PackedAWorkspace(p), CacheLineFloats)

\* Facts that depend on the request: how many threads are asked for.
ThreadFacts(p, threads, blasCeiling) ==
  {f \in {"oneThread", "blasThreadsFit", "blasCeiling", "blasDimensionsFit"} :
     CASE f = "oneThread" -> threads = 1
       [] f = "blasThreadsFit" -> threads <= blasCeiling
       [] f = "blasCeiling" -> blasCeiling # 0
       [] f = "blasDimensionsFit" ->
            p.m <= MaxBlasInt /\ p.n <= MaxBlasInt /\ p.k <= MaxBlasInt}
DecisionV2(v, p, facts, threads, blasCeiling) ==
  LET all == facts \cup ThreadFacts(p, threads, blasCeiling)
      bytes == IF v = "packed2" THEN PackedWorkspace(p) ELSE 0
  IN Decision(Legal(NeedsV2(v), all), CostV2(v, p), bytes, 0, bytes,
              IF v = "openblas" THEN threads ELSE 1)

DecisionsV2(p, facts, threads, blasCeiling) ==
  [v \in {RegistryV2[i][1] : i \in DOMAIN RegistryV2} |->
     DecisionV2(v, p, facts, threads, blasCeiling)]
-----------------------------------------------------------------------------
(* Version 3 plans for a context of workers bound to a placement.          *)

TopologyValid(t) ==
  /\ t.complete
  /\ t.logical > 0 /\ t.physical > 0 /\ t.available > 0 /\ t.nodes # {}
  /\ t.physical <= t.logical /\ t.available <= t.logical

PlacementValid(t, pl) ==
  /\ pl.complete
  /\ pl.localPhysical > 0 /\ pl.localPhysical <= pl.localLogical
  /\ pl.localLogical <= t.logical /\ pl.localPhysical <= t.physical
  /\ pl.nodes # {} /\ pl.nodes \subseteq t.nodes
  /\ pl.crosses = (Cardinality(pl.nodes) > 1)
  /\ pl.applied = pl.requested
  /\ pl.single => /\ ~pl.crosses
                  /\ Cardinality(t.nodes) > 1 => pl.applied
  /\ pl.crosses => pl.callerFirstTouch

LocalCapacity(policy, pl) == IF policy.smt THEN pl.localLogical ELSE pl.localPhysical
HostCapacity(policy, t) == Least(t.available, IF policy.smt THEN t.logical ELSE t.physical)
PolicyThreadCeiling(t, policy, workers, pl) ==
  LET asked == IF policy.max # 0 THEN Least(policy.requested, policy.max)
               ELSE policy.requested
      host == Least(Least(asked, workers), HostCapacity(policy, t))
  IN IF pl.complete /\ pl.single THEN Least(host, LocalCapacity(policy, pl)) ELSE host

\* Threads the provider is asked for: never more than it admits.
ProviderThreads(t, policy, facts, blasCeiling) ==
  LET limit == IF TopologyValid(t) THEN HostCapacity(policy, t) ELSE 1
      asked == Least(policy.requested, limit)
      capped == IF policy.max # 0 THEN Least(asked, policy.max) ELSE asked
  IN IF "blasLinked" \in facts /\ blasCeiling # 0 THEN Least(capped, blasCeiling)
     ELSE capped

ParallelThreads(p, ceiling) == IF ceiling = 0 THEN 0 ELSE ActualThreads(p, ceiling)
TotalParallelWorkspace(shared, perWorker, threads) ==
  IF threads > MaxU64 \div perWorker \/ perWorker * threads > MaxU64 - shared THEN 0
  ELSE shared + perWorker * threads

CrossesNodes(policy, pl, threads) ==
  /\ pl.complete /\ pl.crosses
  /\ (~pl.localFirst \/ threads > LocalCapacity(policy, pl))

ParallelDecision(v, p, t, policy, facts, workers, pl) ==
  LET ceiling == IF TopologyValid(t) THEN PolicyThreadCeiling(t, policy, workers, pl) ELSE 0
      threads == ParallelThreads(p, ceiling)
      shared == WorkerRegionOffset(p)
      perWorker == PerWorkerStride(p)
      total == TotalParallelWorkspace(shared, perWorker, threads)
      derived == {f \in {"placement", "twoThreads", "workPerThread",
                         "workspaceNonzero", "workspaceFits"} :
        CASE f = "placement" -> TopologyValid(t) /\ PlacementValid(t, pl)
          [] f = "twoThreads" -> threads >= 2
          [] f = "workPerThread" ->
               threads > 0 /\ DivideRoundUp(Work(p), threads) >= MinWorkPerThread
          [] f = "workspaceNonzero" -> shared # 0 /\ perWorker # 0
          [] f = "workspaceFits" -> total # 0}
      legal == Legal(NeedsV3(v), facts \cup derived)
  IN Decision(legal,
              IF legal THEN ParallelCost(p, threads, v = "parallel512",
                                         CrossesNodes(policy, pl, threads)) ELSE MaxU64,
              shared, perWorker, total, threads)

SingleDecisionV3(v, p, t, policy, facts, blasCeiling) ==
  LET threads == IF v = "openblas" THEN ProviderThreads(t, policy, facts, blasCeiling) ELSE 1
      base == DecisionV2(v, p, facts, threads, blasCeiling)
      bound == IF policy.bound /\ threads > 1 THEN {} ELSE {"blasUnbound"}
      legal == base.legal /\ Legal(NeedsV3(v), facts \cup bound
                                   \cup ThreadFacts(p, threads, blasCeiling))
      cost == CASE v = "packed2" /\ UseBoundPackedCalibration(p, policy) ->
                     Least(base.cost, Work(p))
                [] v = "openblas" -> ExternalCost(p, threads)
                [] OTHER -> base.cost
  IN Decision(legal, cost, base.shared, 0, base.workspace, base.threads)

Packed512Decision(p, facts) ==
  Decision(Legal(NeedsV3("packed512"), facts), Packed512Cost(p),
           PackedWorkspace(p), 0, PackedWorkspace(p), 1)

DecisionsV3(p, t, policy, facts, workers, blasCeiling, pl) ==
  [v \in Variants |->
     CASE v = "packed512" -> Packed512Decision(p, facts)
       [] v \in {"parallel2", "parallel512"} ->
            ParallelDecision(v, p, t, policy, facts, workers, pl)
       [] OTHER -> SingleDecisionV3(v, p, t, policy, facts, blasCeiling)]
=============================================================================
