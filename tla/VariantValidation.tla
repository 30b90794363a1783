--------------------------- MODULE VariantValidation ---------------------------
(***************************************************************************)
(* The probes by which a context finds out which GEMM kernels it may offer *)
(* (validate_cpu_runtime_variants_v1): each kernel multiplies a finite and  *)
(* a special problem on the workers, and what it writes and what it does to *)
(* the floating-point control state of its workers is inspected.  Kernels   *)
(* are faultless or have faults of the kinds kernels have.                  *)
(***************************************************************************)
EXTENDS Integers, FiniteSets, SequencesExt

CONSTANTS
  Columns,      \* n of every probe: 16 in the code, at least 6
  SerialRows,   \* m of the special serial probe: 6
  ParallelRows, \* m of the parallel probes: 256
  Suspects,     \* the kernels one of which may be faulty
  MaxFaults     \* its faults

SerialOrder == <<"reference", "tiled", "compiler_vectorized", "openblas", "packed_avx2", "packed_avx512">>
ParallelOrder == <<"parallel_avx2", "parallel_avx512">>
Order == SerialOrder \o ParallelOrder
Variants == Range(Order)
Parallel == Range(ParallelOrder)
Workers == {0, 1}
FiniteRows == 4
FiniteDepth == 3

Faults == {"skips_zero", "flushes", "drops_depth", "accumulates", "ignores_nan", "leaves_mode",
           "second_half", "transposes", "last_column"}

ConstantsAssumption ==
  /\ Columns \in Nat /\ Columns >= 6 /\ SerialRows \in Nat /\ SerialRows >= 6
  /\ ParallelRows \in Nat /\ ParallelRows >= 6 /\ MaxFaults \in Nat /\ Suspects \subseteq Variants

VARIABLES
  faults,    \* faults of each kernel
  available, \* variant_available_v1
  workers,   \* actual_worker_count
  memory,    \* allocations of the two workspaces that succeed: 0, 1 or 2
  mode, initial, \* control state of each worker, "gradual" or "flush"; as the context was made
  before,    \* WorkerControlStateV1::before of the parallel validation
  reports,   \* report of each variant
  index, pc  \* position in Order; serial, capture, probe, verify, done

vars == <<faults, available, workers, memory, mode, initial, before, reports, index, pc>>
fixed == <<faults, available, workers, memory, initial>>

------------------------------------------------------------------------------
(* Floats: a class and a value; a subnormal's value counts denorm_min.      *)

Number(v) == [class |-> "finite", value |-> v]
Subnormal(v) == [class |-> "subnormal", value |-> v]
NaN == [class |-> "nan", value |-> 0]
Inf(sign) == [class |-> "inf", value |-> sign]
Sign(x) == IF x.value < 0 THEN -1 ELSE 1
IsZero(x) == x.value = 0 /\ x.class = "finite"

Times(x, y) ==
  CASE "nan" \in {x.class, y.class} -> NaN
    [] "nan" \notin {x.class, y.class} /\ "inf" \in {x.class, y.class} ->
         IF IsZero(x) \/ IsZero(y) THEN NaN ELSE Inf(Sign(x) * Sign(y))
    [] x.class = "finite" /\ y.class = "finite" -> Number(x.value * y.value)
    [] x.class = "subnormal" /\ y.class = "subnormal" -> Number(0)
    [] OTHER -> IF x.value * y.value = 0 THEN Number(0) ELSE Subnormal(x.value * y.value)

Plus(x, y) ==
  CASE "nan" \in {x.class, y.class} -> NaN
    [] x.class = "inf" /\ y.class = "inf" -> IF x.value = y.value THEN x ELSE NaN
    [] x.class = "inf" /\ y.class \in {"finite", "subnormal"} -> x
    [] y.class = "inf" /\ x.class \in {"finite", "subnormal"} -> y
    [] x.class = "finite" /\ y.class = "finite" -> Number(x.value + y.value)
    [] x.class = "subnormal" /\ y.class = "subnormal" ->
         IF x.value + y.value = 0 THEN Number(0) ELSE Subnormal(x.value + y.value)
    [] OTHER -> LET f == IF x.class = "finite" THEN x ELSE y
                    s == IF x.class = "finite" THEN y ELSE x
                IN IF f.value = 0 THEN s ELSE f

Flushed(x) == IF x.class = "subnormal" THEN Number(0) ELSE x

------------------------------------------------------------------------------
(* The problems. *)

ProblemOf(m, n, k, lhs(_, _), rhs(_, _), out) ==
  [m |-> m, n |-> n, k |-> k,
   lhs |-> [i \in (0..m - 1) \X (0..k - 1) |-> lhs(i[1], i[2])],
   rhs |-> [i \in (0..k - 1) \X (0..n - 1) |-> rhs(i[1], i[2])], out |-> out]

\* initialize_finite_problem_v1
FiniteProblem(m) ==
  ProblemOf(m, Columns, FiniteDepth,
          LAMBDA row, depth : Number(((row + 2 * depth) % 5) + 1),
          LAMBDA depth, column : Number(((3 * depth + column) % 7) + 1),
          Number(0))

\* initialize_special_problem_v1
SpecialLhs(row, depth) ==
  CASE depth = 1 -> IF row % 6 = 5 THEN Inf(-1) ELSE Number(0)
    [] depth = 0 -> CASE row % 6 = 0 -> Number(3)
                      [] row % 6 = 1 -> Subnormal(1)
                      [] row % 6 = 2 -> NaN
                      [] row % 6 = 4 -> Inf(-1)
                      [] OTHER -> Inf(1)
Factors == <<2, 1, -1, 4>>
SpecialRhs(depth, column) ==
  CASE depth = 0 -> IF column = 4 THEN Number(0) ELSE IF column = 5 THEN Number(1)
                    ELSE Number(Factors[(column % 4) + 1])
    [] depth = 1 -> Number(IF column \in {4, 5} THEN 1 ELSE 0)

SpecialProblem_Cleared(m) == ProblemOf(m, Columns, 2, SpecialLhs, SpecialRhs, Number(0))
SpecialProblem(m) == ProblemOf(m, Columns, 2, SpecialLhs, SpecialRhs, Number(-17))

\* Made once: the problems are constant.
FiniteSerial == FiniteProblem(FiniteRows)
FiniteParallel == FiniteProblem(ParallelRows)
SpecialSerial == SpecialProblem(SerialRows)
SpecialParallel == SpecialProblem(ParallelRows)

------------------------------------------------------------------------------
(* Kernels: what one with these faults writes, its workers in these modes.  *)

Sum(row, column, problem, f, flush) ==
  LET factor(d) == problem.rhs[d, IF "transposes" \in f THEN (column + 1) % problem.n ELSE column]
      product(d) ==
        LET p == Times(problem.lhs[row, d], factor(d))
        IN IF "skips_zero" \in f /\ (IsZero(factor(d)) \/ IsZero(problem.lhs[row, d])) THEN Number(0)
           ELSE IF "ignores_nan" \in f /\ p.class = "nan" THEN Number(0)
           ELSE IF flush \/ "flushes" \in f THEN Flushed(p) ELSE p
      start == IF "accumulates" \in f THEN problem.out ELSE Number(0)
      sum[depths \in 0..problem.k] ==
        IF depths = 0 THEN start ELSE Plus(sum[depths - 1], product(depths - 1))
  IN sum[IF "drops_depth" \in f THEN problem.k - 1 ELSE problem.k]

\* The worker that computes a row; the parallel kernels give each worker half of them.
WorkerOf(variant, problem, row) ==
  IF variant \in Parallel /\ 2 * row >= problem.m THEN 1 ELSE 0

Output(variant, problem, modes) ==
  LET f == faults[variant] IN
  [c \in (0..problem.m - 1) \X (0..problem.n - 1) |->
     IF \/ "second_half" \in f /\ variant \in Parallel /\ 2 * c[1] >= problem.m
        \/ "last_column" \in f /\ c[2] = problem.n - 1
     THEN problem.out
     ELSE Sum(c[1], c[2], problem, f, modes[WorkerOf(variant, problem, c[1])] = "flush")]

ModeAfter(variant, modes) ==
  IF "leaves_mode" \in faults[variant]
  THEN [w \in Workers |-> IF w = 0 \/ variant \in Parallel THEN "flush" ELSE modes[w]]
  ELSE modes

------------------------------------------------------------------------------
(* Inspection. *)

\* What a faultless kernel writes, and finite_output_matches_v1.
Expected(problem) ==
  [cell \in (0..problem.m - 1) \X (0..problem.n - 1) |-> Sum(cell[1], cell[2], problem, {}, FALSE)]
ExpectedSerial == Expected(FiniteSerial)
ExpectedParallel == Expected(FiniteParallel)
FiniteMatches(expected, out) == \A cell \in DOMAIN expected : out[cell] = expected[cell]
SpecialClasses(problem, out) ==
  LET rows(r) == {row \in 0..problem.m - 1 : row % 6 = r}
      all == 0..problem.n - 1
  IN [finite |-> \A row \in rows(0), c \in all : out[row, c] = Sum(row, c, problem, {}, FALSE),
      subnormal |-> \A row \in rows(1), c \in all \ {4} :
                      out[row, c] = Times(problem.lhs[row, 0], problem.rhs[0, c]),
      nan |-> \A row \in rows(2), c \in all : out[row, c].class = "nan",
      infinity |-> \A row \in rows(3) \cup rows(4) :
                     out[row, 0] = Inf(Sign(problem.lhs[row, 0]) * Sign(problem.rhs[0, 0])),
      zero |-> \A row \in rows(3) : out[row, 4].class = "nan",
      opposite |-> \A row \in rows(5) : out[row, 5].class = "nan"]

AllTrue(classes) == \A c \in DOMAIN classes : classes[c]

NoReport == [available |-> FALSE, compatible |-> FALSE, finite |-> FALSE, special |-> FALSE,
             control |-> FALSE, conformant |-> FALSE]
Conformant(report) ==
  report.available /\ report.compatible /\ report.finite /\ report.special /\ report.control

------------------------------------------------------------------------------
\* variant_available_v1: the kernels of one instruction set are usable together
Availability == {Variants, Variants \ {"packed_avx512", "parallel_avx512"},
                 Variants \ {"openblas", "compiler_vectorized"}}

Init ==
  /\ \E v \in Suspects, f \in SUBSET Faults :
       /\ Cardinality(f) <= MaxFaults
       /\ faults = [x \in Variants |-> IF x = v THEN f ELSE {}]
  /\ available \in Availability
  /\ workers \in {1, 2} /\ memory \in 0..2
  /\ initial \in [Workers -> {"gradual", "flush"}] /\ mode = initial
  /\ before = [w \in Workers |-> "none"]
  /\ reports = [v \in Variants |-> NoReport]
  /\ index = 1 /\ pc = IF memory = 0 THEN "done" ELSE "serial"

Variant == Order[index]

\* The next variant; the parallel ones need two workers and a second workspace.
Advance ==
  /\ index' = index + 1
  /\ pc' = CASE index < Len(SerialOrder) -> "serial"
             [] index >= Len(SerialOrder) /\ index < Len(Order) ->
                  IF workers < 2 \/ memory < 2 THEN "done" ELSE "capture"
             [] OTHER -> "done"

Report(report) == reports' = [reports EXCEPT ![Variant] = report]
Restore(modes, captured) == captured

\* validate_serial_variant_v1: the preflight and the one task, on worker 0
ValidateSerial ==
  /\ pc = "serial" /\ Advance /\ UNCHANGED <<fixed, before>>
  /\ \/ mode[0] = "flush" /\ UNCHANGED <<mode, reports>> \* refused by the preflight
     \/ mode[0] # "flush" /\ Variant \notin available /\ UNCHANGED <<mode, reports>>
     \/ /\ mode[0] # "flush" /\ Variant \in available
        /\ LET finite == Output(Variant, FiniteSerial, mode)
               between == ModeAfter(Variant, mode)
               special == SpecialClasses(SpecialSerial, Output(Variant, SpecialSerial, between))
               after == ModeAfter(Variant, between)
               report == [available |-> TRUE, compatible |-> TRUE,
                          finite |-> FiniteMatches(ExpectedSerial, finite) /\ special.finite,
                          special |-> AllTrue(special), control |-> after = mode, conformant |-> FALSE]
           IN /\ Report([report EXCEPT !.conformant = Conformant(report)])
              /\ mode' = Restore(after, mode)

\* capture_worker_control_v1 on both workers
Capture ==
  /\ pc = "capture" /\ UNCHANGED <<fixed, mode>>
  /\ \/ /\ Variant \notin available /\ Advance /\ UNCHANGED <<before, reports>>
     \/ /\ Variant \in available /\ pc' = "probe" /\ before' = mode /\ UNCHANGED index
        /\ Report([NoReport EXCEPT !.available = TRUE,
                                   !.compatible = \A w \in Workers : mode[w] = "gradual"])

\* The two parallel products; the kernel refuses when a worker's mode is not compatible.
Probe ==
  /\ pc = "probe" /\ pc' = "verify" /\ UNCHANGED <<fixed, before, index>>
  /\ LET accepts(modes) == \A w \in Workers : modes[w] = "gradual"
         between == IF accepts(mode) THEN ModeAfter(Variant, mode) ELSE mode
         finite == accepts(mode) /\ FiniteMatches(ExpectedParallel, Output(Variant, FiniteParallel, mode))
         out == IF accepts(between) THEN Output(Variant, SpecialParallel, between)
                ELSE [c \in (0..ParallelRows - 1) \X (0..Columns - 1) |-> SpecialParallel.out]
         special == SpecialClasses(SpecialParallel, out)
     IN /\ Report([reports[Variant] EXCEPT !.finite = finite /\ accepts(between) /\ special.finite,
                                           !.special = AllTrue(special)])
        /\ mode' = IF accepts(between) THEN ModeAfter(Variant, between) ELSE between

\* verify_worker_control_v1 on both workers, and the verdict
Verify ==
  /\ pc = "verify" /\ Advance /\ UNCHANGED <<fixed, before>>
  /\ LET report == [reports[Variant] EXCEPT !.control = mode = before]
     IN Report([report EXCEPT !.conformant = Conformant(report)])
  /\ mode' = Restore(mode, before)

Next == ValidateSerial \/ Capture \/ Probe \/ Verify
Spec == Init /\ [][Next]_vars

------------------------------------------------------------------------------
(* Properties. *)

\* No kernel with one of the faults, or two of them together, is reported conformant, and a kernel
\* found conformant has only its own faults to thank: none hides behind another kernel's
\* (execute_serial_validation_v1, validate_parallel_variant_v1).  A fault only parallel kernels can
\* have does not count for the others.
FaultyIsNeverValidated ==
  \A v \in Variants : reports[v].conformant =>
    faults[v] \subseteq (IF v \in Parallel THEN {} ELSE {"second_half"})

\* A faultless kernel that this processor has is found conformant when the workers began in the
\* gradual mode, whatever a faulty kernel probed before it did to them.
SoundIsValidated ==
  pc = "done" /\ (\A w \in Workers : initial[w] = "gradual") =>
    \A i \in 1..index - 1 : Order[i] \in available /\ faults[Order[i]] = {} =>
      reports[Order[i]].conformant

\* After all the probes every worker has the control state it began with
\* (restore_fp_environment_control_state_v1).
WorkersKeepTheirMode == pc = "done" => mode = initial
==============================================================================
