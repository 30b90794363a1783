----------------------------- MODULE MCCpuRuntime -----------------------------
(* The CPU runtime between its callers and the kernels, side by side: the calls of the C ABI, *)
(* the validation of variants and the benchmark that measures them.  A behaviour is one of    *)
(* them, named by part.                                                                       *)
EXTENDS CpuRuntime

CONSTANT Parts

\* A product large enough for two workers, on a host with everything built.
AProblem == [m |-> 256, n |-> 600, k |-> 600, align |-> 16]
AllFacts ==
  UNION {{NeedsV3(v)[i] : i \in DOMAIN NeedsV3(v)} : v \in Variants}
  \ {"oneThread", "blasThreadsFit", "blasCeiling", "blasDimensionsFit", "blasUnbound",
     "placement", "twoThreads", "workPerThread", "workspaceNonzero", "workspaceFits",
     "blasLinked", "blasEvaluated", "blasConformant", "blasThreadControl", "blasValidated",
     "context", "noProviderThreads", "avx512Hardware"}
Host == [complete |-> TRUE, logical |-> 4, physical |-> 4, available |-> 4, nodes |-> {0}]
Placement(bind) ==
  [complete |-> TRUE, requested |-> bind, applied |-> bind, single |-> FALSE,
   localFirst |-> TRUE, localLogical |-> 4, localPhysical |-> 4, nodes |-> {0},
   crosses |-> FALSE, callerFirstTouch |-> TRUE]
OneShape ==
  {[host |-> Host, placement |-> Placement(TRUE), workers |-> 2, bound |-> TRUE, smt |-> TRUE]}

\* One shape in every mode, two shapes in one, and options that are refused.
Mode(cache, allocation, packing, sequence, placement) ==
    [shapes |-> << <<1, 2, 3>> >>, cache |-> cache, allocation |-> allocation,
     packing |-> packing, sequence |-> sequence, placement |-> placement,
     warmup |-> IF packing = "include" THEN 1 ELSE 0,
     measured |-> IF sequence = 1 THEN 2 ELSE 1, threads |-> 1, alignment |-> 8,
     memory |-> 500, variant |-> "auto"]
Plain == Mode("hot", "reuse", "include", 1, "after")

MCOptions ==
    {Mode(c, a, p, s, "after") : c \in {"hot", "cold"}, a \in {"reuse", "include"},
        p \in {"include", "exclude", "prepack_b"}, s \in 1..2}
    \cup {Mode("hot", "reuse", p, s, "before") : p \in {"include", "exclude", "prepack_b"}, s \in 1..2}
    \cup {[Plain EXCEPT !.shapes = << <<1, 1, 1>>, <<1, 2, 3>> >>],
          [Plain EXCEPT !.variant = "v"], [Plain EXCEPT !.memory = 300],
          [Plain EXCEPT !.shapes = << <<1, 0, 1>> >>], [Plain EXCEPT !.alignment = 12]}

MCPlan(variant, workspace, supports) ==
    [legal |-> TRUE, variant |-> variant, workspace |-> workspace, alignment |-> 16,
     prepacked |-> 24, supports |-> supports]
MCPlans == {MCPlan("v", 40, TRUE), MCPlan("w", 0, FALSE), MCPlan("w", 0, TRUE),
            [MCPlan("v", 40, TRUE) EXCEPT !.legal = FALSE]}

VARIABLE part   \* which component runs

------------------------------------------------------------------------------
(* The C ABI: sequences of calls. *)
runtimeVars == <<fp, workerFp, probe, conforms, context, image, version, sized, last>>
RuntimeIdle ==
  /\ fp = "idle" /\ workerFp = "idle" /\ probe = "idle" /\ conforms = "idle"
  /\ context = "idle" /\ image = "idle" /\ version = "idle" /\ sized = "idle"
  /\ last = "idle"

------------------------------------------------------------------------------
(* The validation of the variants by a new context. *)
VARIABLES validationFaults, validationAvailable, validationWorkers, validationMemory,
          validationMode, validationInitial, validationBefore, validationReports,
          validationIndex, validationPc
validationVars == <<validationFaults, validationAvailable, validationWorkers, validationMemory,
                    validationMode, validationInitial, validationBefore, validationReports,
                    validationIndex, validationPc>>
Validation == INSTANCE VariantValidation WITH Columns <- 6, SerialRows <- 6, ParallelRows <- 12,
  MaxFaults <- 2, Suspects <- {"packed_avx2", "parallel_avx2"}, faults <- validationFaults,
  available <- validationAvailable, workers <- validationWorkers, memory <- validationMemory,
  mode <- validationMode, initial <- validationInitial, before <- validationBefore,
  reports <- validationReports, index <- validationIndex, pc <- validationPc
ValidationIdle ==
  /\ validationFaults = "idle" /\ validationAvailable = "idle" /\ validationWorkers = "idle"
  /\ validationMemory = "idle" /\ validationMode = "idle" /\ validationInitial = "idle"
  /\ validationBefore = "idle" /\ validationReports = "idle" /\ validationIndex = "idle"
  /\ validationPc = "idle"

------------------------------------------------------------------------------
(* The benchmark. *)
VARIABLES benchOpt, benchShape, benchPhase, benchPlan, benchEstimate, benchBase, benchOneShot,
          benchPeak, benchImage, benchIndex, benchLastLhs, benchOut, benchLeft, benchRound,
          benchProbe, benchReps, benchCal, benchSamples, benchFaults, benchWrongIn, benchReport
benchVars == <<benchOpt, benchShape, benchPhase, benchPlan, benchEstimate, benchBase,
               benchOneShot, benchPeak, benchImage, benchIndex, benchLastLhs, benchOut,
               benchLeft, benchRound, benchProbe, benchReps, benchCal, benchSamples,
               benchFaults, benchWrongIn, benchReport>>
Bench == INSTANCE BenchmarkRun WITH Options <- MCOptions, Plans <- MCPlans, Times <- {0, 1, 4},
  Floor <- 4, MaxReps <- 8, ColdBytes <- 64, Limit <- 600, MaxFaults <- 1, opt <- benchOpt,
  shape <- benchShape, phase <- benchPhase, plan <- benchPlan, estimate <- benchEstimate,
  base <- benchBase, oneShot <- benchOneShot, peak <- benchPeak, image <- benchImage,
  index <- benchIndex, lastLhs <- benchLastLhs, out <- benchOut, left <- benchLeft,
  round <- benchRound, probe <- benchProbe, reps <- benchReps, cal <- benchCal,
  samples <- benchSamples, faults <- benchFaults, wrongIn <- benchWrongIn, report <- benchReport
BenchIdle ==
  /\ benchOpt = "idle" /\ benchShape = "idle" /\ benchPhase = "idle" /\ benchPlan = "idle"
  /\ benchEstimate = "idle" /\ benchBase = "idle" /\ benchOneShot = "idle"
  /\ benchPeak = "idle" /\ benchImage = "idle" /\ benchIndex = "idle"
  /\ benchLastLhs = "idle" /\ benchOut = "idle" /\ benchLeft = "idle" /\ benchRound = "idle"
  /\ benchProbe = "idle" /\ benchReps = "idle" /\ benchCal = "idle" /\ benchSamples = "idle"
  /\ benchFaults = "idle" /\ benchWrongIn = "idle" /\ benchReport = "idle"

------------------------------------------------------------------------------
\* The constants of the instances are ones the code can be built and called with.
ASSUME InstanceAssumption == Validation!ConstantsAssumption /\ Bench!BenchmarkAssumption

MCVars == <<part, runtimeVars, validationVars, benchVars>>

MCInit ==
  /\ part \in Parts
  /\ IF part = "runtime" THEN Init ELSE RuntimeIdle
  /\ IF part = "validation" THEN Validation!Init ELSE ValidationIdle
  /\ IF part = "benchmark" THEN Bench!Init ELSE BenchIdle

MCNext ==
  \/ part = "runtime" /\ Next /\ UNCHANGED <<part, validationVars, benchVars>>
  \/ part = "validation" /\ Validation!Next /\ UNCHANGED <<part, runtimeVars, benchVars>>
  \/ part = "benchmark" /\ Bench!Next /\ UNCHANGED <<part, runtimeVars, validationVars>>

MCSpec == MCInit /\ [][MCNext]_MCVars

------------------------------------------------------------------------------
\* A sequence of query, prepack, execute and context calls.  A workspace of the queried size
\* is accepted by the execution, and what runs has the workspace it computes with; a refused
\* call has touched nothing; an image is used for the right operand as it is now; a kernel
\* runs in a floating-point environment it was validated for, and evidence of a provider or a
\* variant is about the environment of its caller.
RuntimeIsSound ==
  part = "runtime" =>
    /\ QueriedWorkspaceSuffices /\ RunHasItsWorkspace
    /\ ValidationFailureTouchesNothing /\ PrepackedMatchesRhs
    /\ RanInCompatibleEnvironment /\ EvidenceIsSound

\* A kernel with one or two of the faults the probes look for is never reported conformant, a
\* sound one is, whatever a faulty one probed before it did to the workers, and the workers
\* keep the control state they began with.
ValidationIsExact ==
  part = "validation" =>
    /\ Validation!FaultyIsNeverValidated /\ Validation!SoundIsValidated
    /\ Validation!WorkersKeepTheirMode

\* A measurement enters the report only when every output it stands for was right; a runner that
\* computes what it is given is never rejected as wrong; the memory stays within what was
\* admitted and the calibration keeps its margin.
ReportedIsAuthenticated ==
  part = "benchmark" =>
    /\ Bench!TypeOK /\ Bench!ReportedIsAuthenticated /\ Bench!HonestRunnerPasses
    /\ Bench!MemoryWithinEstimate /\ Bench!CalibrationKeepsItsMargin
==============================================================================
