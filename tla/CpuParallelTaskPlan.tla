-------------------------- MODULE CpuParallelTaskPlan --------------------------
(***************************************************************************)
(* How the CPU runtime cuts one GEMM into tasks.                           *)
(*                                                                         *)
(* plan_cpu_parallel_tasks_v1 (planner/cpu_planner_v3.cpp) chooses a grid  *)
(* of row tasks by column tasks; execute_output_partition                  *)
(* (runtime/cpu_parallel_gemm.cpp) turns a task index into the rectangle   *)
(* of the output it owns; workspace_requirements lays out the caller's     *)
(* arena.  All of it is arithmetic, so all of it is operators; sizes and   *)
(* alignments are counted in floats, and the arithmetic is that of the     *)
(* mathematical integers (the code refuses what its 64 bits cannot hold).  *)
(***************************************************************************)
EXTENDS Integers, FiniteSets

CONSTANTS
  MacroTileRows,      \* kCpuParallelMacroTileRowsV1 = kCpuPackedGemmMcV1
  RegisterTileRows,   \* kCpuParallelRegisterTileRowsV1 = kCpuPackedGemmMrV1
  CacheLineFloats,    \* kCpuParallelCacheLineFloatCountV1
  ColumnTile,         \* kCpuParallelColumnTileColumnsV1 = kCpuPackedGemmNcV1
  PackedNr,           \* kCpuPackedGemmNrV1
  PackedKc,           \* kCpuPackedGemmKcV1
  ColumnOnlyMinWork,  \* kCpuParallelColumnOnlyMinimumWorkPerThreadV1
  TwoDimMinWork       \* kCpuParallelTwoDimensionalMinimumWorkPerThreadV1

ASSUME PlanConstantsAssumption ==
  /\ {MacroTileRows, RegisterTileRows, CacheLineFloats, ColumnTile, PackedNr,
      PackedKc} \subseteq Nat \ {0}
  /\ {ColumnOnlyMinWork, TwoDimMinWork} \subseteq Nat
  /\ MacroTileRows % RegisterTileRows = 0
  /\ ColumnTile % CacheLineFloats = 0
  /\ ColumnTile % PackedNr = 0

\* A GEMM problem: out[m,n] = lhs[m,k] * rhs[k,n], every tensor aligned to
\* `align` floats (minimum_alignment_bytes, a power of two).
Least(a, b) == IF a <= b THEN a ELSE b

DivideRoundUp(a, b) == a \div b + (IF a % b # 0 THEN 1 ELSE 0)

RoundUp(a, b) == DivideRoundUp(a, b) * b

GreatestCommonDivisor(a, b) ==
  CHOOSE d \in 1 .. b :
    /\ a % d = 0 /\ b % d = 0
    /\ \A e \in d + 1 .. b : ~(a % e = 0 /\ b % e = 0)

LeastCommonMultiple(a, b) == (a \div GreatestCommonDivisor(a, b)) * b

-----------------------------------------------------------------------------
(* plan_cpu_parallel_tasks_v1                                              *)
RowQuantum(p) ==
  LeastCommonMultiple(RegisterTileRows,
                      CacheLineFloats \div GreatestCommonDivisor(p.n, CacheLineFloats))

MacroTiles(p)   == DivideRoundUp(p.m, MacroTileRows)
RowGroups(p)    == DivideRoundUp(p.m, RowQuantum(p))
ColumnPanels(p) == DivideRoundUp(p.n, ColumnTile)

MaximumRowTasks(p, threads) ==
  Least(threads, Least(MacroTiles(p), RowGroups(p)))

ColumnPartitionSafe(p) ==
  p.align >= CacheLineFloats /\ p.n % CacheLineFloats = 0

Grid(r, c) == [rows |-> r, columns |-> c]
Tasks(g)   == g.rows * g.columns

\* The loop over row_tasks: a candidate replaces the best grid when it has
\* more tasks, or as many tasks on more rows.
Better(cand, best) ==
  \/ Tasks(cand) > Tasks(best)
  \/ (Tasks(cand) = Tasks(best) /\ cand.rows > best.rows)
BestGrid(p, threads) ==
  LET limit == MaximumRowTasks(p, threads)
      Candidate(r) == Grid(r, Least(ColumnPanels(p), threads \div r))
      best[r \in 0 .. limit] ==
        IF r = 0 THEN Grid(limit, 1)
        ELSE IF Better(Candidate(r), best[r - 1]) THEN Candidate(r)
        ELSE best[r - 1]
  IN  IF ColumnPartitionSafe(p) /\ ColumnPanels(p) > 1
      THEN best[limit] ELSE Grid(limit, 1)

Operations(p) == 2 * p.m * p.n * p.k

\* A grid that splits columns must give every task enough work.
Profitable(p, g) ==
  Operations(p) \div Tasks(g)
    >= (IF g.rows = 1 THEN ColumnOnlyMinWork ELSE TwoDimMinWork)
TaskGrid(p, threads) ==
  LET limit == MaximumRowTasks(p, threads)
      best  == BestGrid(p, threads)
  IN  IF Tasks(best) > limit /\ ~Profitable(p, best)
      THEN Grid(limit, 1) ELSE best

ActualThreads(p, threads) == Least(threads, Tasks(TaskGrid(p, threads)))

-----------------------------------------------------------------------------
(* execute_output_partition                                                *)

\* The part with index i when `units` units are dealt to `parts` parts: the
\* first (units % parts) of them get one more.
\* Mutant: the offset forgets the extra units dealt before.
PartBegin_NoExtra(units, parts, i) == i * (units \div parts)
PartBegin(units, parts, i) ==
  i * (units \div parts) + Least(i, units % parts)
PartSize(units, parts, i) ==
  units \div parts + (IF i < units % parts THEN 1 ELSE 0)

\* The rectangle of the output that task t of grid g owns.
RowBegin(p, g, t) ==
  PartBegin(RowGroups(p), g.rows, t \div g.columns) * RowQuantum(p)
RowCount(p, g, t) ==
  Least(p.m - RowBegin(p, g, t),
        PartSize(RowGroups(p), g.rows, t \div g.columns) * RowQuantum(p))
ColumnBegin(p, g, t) ==
  PartBegin(ColumnPanels(p), g.columns, t % g.columns) * ColumnTile
ColumnEnd(p, g, t) ==
  LET i == t % g.columns
  IN  Least(p.n, (PartBegin(ColumnPanels(p), g.columns, i)
                    + PartSize(ColumnPanels(p), g.columns, i)) * ColumnTile)

Rectangle(p, g, t) ==
  (RowBegin(p, g, t) .. RowBegin(p, g, t) + RowCount(p, g, t) - 1)
    \X (ColumnBegin(p, g, t) .. ColumnEnd(p, g, t) - 1)

\* The band entry validates its own tensors against the declared alignment
\* of the whole problem; the column path does not go through that entry.
BandAligned(p, g, t) ==
  g.columns = 1 =>
    /\ (RowBegin(p, g, t) * p.k) % p.align = 0
    /\ (RowBegin(p, g, t) * p.n) % p.align = 0

-----------------------------------------------------------------------------
(* workspace_requirements: one shared image of B, then one slice per worker *)

SharedPackedB(p) == RoundUp(RoundUp(p.n, PackedNr) * p.k, CacheLineFloats)

PerWorker(p) ==
  RoundUp(RoundUp(Least(p.m, MacroTileRows), RegisterTileRows)
            * Least(p.k, PackedKc), CacheLineFloats)

WorkerRegionOffset(p) == RoundUp(SharedPackedB(p), CacheLineFloats)
PerWorkerStride(p)    == RoundUp(PerWorker(p), CacheLineFloats)

TotalWorkspace(p, threads) == WorkerRegionOffset(p) + PerWorkerStride(p) * threads
WorkerSlice(p, w) ==
  WorkerRegionOffset(p) + w * PerWorkerStride(p)
    .. WorkerRegionOffset(p) + (w + 1) * PerWorkerStride(p) - 1

\* What task t writes of a worker's slice: packed A for one block of rows.
PackedAFloats(p, g, t) ==
  RoundUp(Least(RowCount(p, g, t), MacroTileRows), RegisterTileRows)
    * Least(p.k, PackedKc)
=============================================================================
