------------------------------ MODULE MCFrontend ------------------------------
(* The Python front end: captured launches, single launches, fused functions and traced       *)
(* regions, side by side.  A behaviour is one of them, named by part.                         *)
EXTENDS Integers, FiniteSets, Sequences, SequencesExt, TLC

CONSTANTS Parts

\* Kernels as MatCoreASTVisitor builds them: a product, a difference and a function, launched
\* on three host buffers, one of them under a second array, a view, or on three device tensors,
\* in place too.
Store == [op |-> "store", tensor |-> "c", value |-> "t"]
Body(op, rhs) == <<[op |-> op, output |-> "t", lhs |-> "a", rhs |-> rhs], Store>>
Kernels == [product    |-> [params |-> <<"a", "b", "c">>, ops |-> Body("matmul", "b")],
            difference |-> [params |-> <<"a", "b", "c">>, ops |-> Body("elementwise", "b")],
            unary      |-> [params |-> <<"a", "c">>, ops |-> Body("elementwise", "none")]]
LaunchOf(kernel, args) == [kernel |-> kernel, args |-> args]

HostArrays == {"x", "y", "z", "zv"}
HostBuffers == [x |-> "X", y |-> "Y", z |-> "Z", zv |-> "Z"]
HostCalls ==
  {LaunchOf("unary", p) : p \in {<<"x", "z">>, <<"x", "zv">>, <<"z", "x">>, <<"zv", "y">>, <<"z", "zv">>}}
  \cup {LaunchOf("product", <<"x", "y", "z">>), LaunchOf("product", <<"y", "z", "x">>)}

DeviceArrays == {"d", "e", "f"}
DeviceBuffers == [d |-> "D", e |-> "E", f |-> "F"]
DeviceCalls ==
  {LaunchOf("product", <<"d", "e", "f">>), LaunchOf("product", <<"f", "e", "d">>),
   LaunchOf("product", <<"e", "f", "e">>), LaunchOf("difference", <<"f", "d", "e">>),
   LaunchOf("difference", <<"d", "e", "d">>), LaunchOf("unary", <<"f", "d">>)}

\* Launches: shapes, dtypes, residency and targets, right and wrong.
Host(shape, dtype) == [shape |-> shape, dtype |-> dtype, contiguous |-> TRUE]
Of(dtype, out) == << Host(<<2, 3>>, dtype), Host(<<3, 1>>, dtype), Host(<<2, 1>>, out) >>
Same(n, dtype) == [i \in 1..n |-> Host(<<2, 2>>, dtype)]
Launch(arrays, where, target, validate) ==
  [arrays |-> arrays, where |-> where, target |-> target, validate |-> validate]

Good == Of("float32", "float32")
Wide == Append(Good, Host(<<2, 2>>, "float32"))
Strided == [Good EXCEPT ![2].contiguous = FALSE]
Empty == << Host(<<0, 3>>, "float32"), Host(<<3, 1>>, "float32"), Host(<<0, 1>>, "float32") >>
Fp8(m) == << Host(<<m, 32>>, "float8"), Host(<<32, 8>>, "float8"), Host(<<m, 8>>, "float32") >>

MatmulCalls ==
  { Launch(Good, "host", "x86", TRUE), Launch(Good, "mixed", "nvidia", TRUE),
    Launch(Wide, "device", "amd", TRUE), Launch(Wide, "device", "nvidia", TRUE),
    Launch(Same(3, "float32"), "host", "x86", TRUE),
    Launch(Strided, "host", "x86", TRUE), Launch(Empty, "host", "x86", TRUE),
    Launch(Fp8(64), "device", "nvidia90", TRUE), Launch(Fp8(32), "host", "nvidia90", TRUE),
    Launch(Fp8(64), "host", "nvidia", FALSE),
    Launch([Good EXCEPT ![3].shape = <<1, 2>>], "host", "x86", FALSE),
    Launch(Of("int8", "float32"), "host", "x86", FALSE), Launch(Of("int8", "int32"), "host", "x86", TRUE),
    Launch(SubSeq(Good, 1, 2), "host", "x86", FALSE) }

ElementwiseCalls ==
  { Launch(Same(3, "float32"), "device", "nvidia", TRUE),
    Launch(Same(2, "int8"), "host", "nvidia", TRUE),
    Launch([Same(3, "float16") EXCEPT ![2].shape = <<1, 2>>], "host", "nvidia", TRUE) }

\* Tensors that fit together and ones that do not: of another type, strided, on the device.
Dense(shape) == [shape |-> shape, f32 |-> TRUE, device |-> FALSE, contiguous |-> TRUE]
SomeTensors ==
  { Dense(<<2, 1, 1, 2>>), Dense(<<1, 1, 2>>), Dense(<<2>>),
    [Dense(<<1, 1, 2>>) EXCEPT !.contiguous = FALSE],
    [Dense(<<2>>) EXCEPT !.device = TRUE, !.f32 = FALSE] }

SomeAttributes ==
  { [count |-> 1, hasPartial |-> TRUE, eps |-> "positive"],
    [count |-> 3, hasPartial |-> TRUE, eps |-> "positive"],
    [count |-> 0, hasPartial |-> FALSE, eps |-> "tiny"] }

\* Functions to fuse: two matrices.
Rectangular == <<[name |-> "A", shape |-> <<2, 2>>, dtype |-> "float16"],
                 [name |-> "B", shape |-> <<2, 3>>, dtype |-> "float16"]>>
Square == <<[name |-> "A", shape |-> <<2, 2>>, dtype |-> "float32"],
            [name |-> "B", shape |-> <<2, 2>>, dtype |-> "float32"]>>

VARIABLE part   \* which component runs

------------------------------------------------------------------------------
(* Launches captured into a graph, of host arrays or of device tensors. *)
VARIABLES captureContent, captureEager, captureActive, captureNodes, captureOrder,
          capturePosition, captureRuns, captureLaunches, captureEarly, capturePhase
captureVars == <<captureContent, captureEager, captureActive, captureNodes, captureOrder,
                 capturePosition, captureRuns, captureLaunches, captureEarly, capturePhase>>
Capture == INSTANCE LaunchGraph WITH Array <- HostArrays, BufferOf <- HostBuffers, Device <- {},
  Kernel <- Kernels, Call <- HostCalls, MaxLaunches <- 3, MaxRuns <- 2,
  content <- captureContent, eager <- captureEager, active <- captureActive,
  nodes <- captureNodes, order <- captureOrder, position <- capturePosition,
  runs <- captureRuns, launches <- captureLaunches, early <- captureEarly, phase <- capturePhase
OnDevice == INSTANCE LaunchGraph WITH Array <- DeviceArrays, BufferOf <- DeviceBuffers,
  Device <- DeviceArrays, Kernel <- Kernels, Call <- DeviceCalls, MaxLaunches <- 3, MaxRuns <- 2,
  content <- captureContent, eager <- captureEager, active <- captureActive,
  nodes <- captureNodes, order <- captureOrder, position <- capturePosition,
  runs <- captureRuns, launches <- captureLaunches, early <- captureEarly, phase <- capturePhase
CaptureIdle ==
  /\ captureContent = "idle" /\ captureEager = "idle" /\ captureActive = "idle"
  /\ captureNodes = "idle" /\ captureOrder = "idle" /\ capturePosition = "idle"
  /\ captureRuns = "idle" /\ captureLaunches = "idle" /\ captureEarly = "idle" /\ capturePhase = "idle"

------------------------------------------------------------------------------
(* One launch, of a body with a matmul or of elementwise operations. *)
VARIABLES launchOps, launchCall, launchPhase, launchMemory, launchLowered, launchVerdict
launchVars == <<launchOps, launchCall, launchPhase, launchMemory, launchLowered, launchVerdict>>
Launched == INSTANCE KernelLaunch WITH Params <- <<"a", "b", "c">>, Matmuls <- TRUE,
  Unary <- {"relu"}, Binary <- {}, Others <- {"transpose"}, MaxOps <- 3, Calls <- MatmulCalls,
  ops <- launchOps, call <- launchCall, phase <- launchPhase, memory <- launchMemory,
  lowered <- launchLowered, verdict <- launchVerdict
Elementwise == INSTANCE KernelLaunch WITH Params <- <<"a", "b", "c">>, Matmuls <- FALSE,
  Unary <- {"relu", "softmax"}, Binary <- {"sub"}, Others <- {}, MaxOps <- 3,
  Calls <- ElementwiseCalls, ops <- launchOps, call <- launchCall, phase <- launchPhase,
  memory <- launchMemory, lowered <- launchLowered, verdict <- launchVerdict
LaunchIdle ==
  /\ launchOps = "idle" /\ launchCall = "idle" /\ launchPhase = "idle"
  /\ launchMemory = "idle" /\ launchLowered = "idle" /\ launchVerdict = "idle"

------------------------------------------------------------------------------
(* Functions traced and fused: chains of three operations, without views the trace drops on   *)
(* two arguments and with one on one square argument, and two operations, binary ones and two *)
(* such views included, on square matrices.                                                    *)
VARIABLES fusionValues, fusionNodes, fusionStep, fusionResult, fusionPlan, fusionKernel
fusionVars == <<fusionValues, fusionNodes, fusionStep, fusionResult, fusionPlan, fusionKernel>>
Fusion == INSTANCE FusionGraph WITH Arguments <- Rectangular, Unary <- {"relu"},
  Binary <- {}, MaxOps <- 3, MaxViews <- 0, values <- fusionValues,
  nodes <- fusionNodes, step <- fusionStep, result <- fusionResult, plan <- fusionPlan,
  kernel <- fusionKernel
Graph == INSTANCE FusionGraph WITH Arguments <- Square, Unary <- {"relu"}, Binary <- {"sub"},
  MaxOps <- 2, MaxViews <- 2, values <- fusionValues, nodes <- fusionNodes,
  step <- fusionStep, result <- fusionResult, plan <- fusionPlan, kernel <- fusionKernel
Views == INSTANCE FusionGraph WITH Arguments <- <<Square[1]>>, Unary <- {"relu"}, Binary <- {},
  MaxOps <- 3, MaxViews <- 1, values <- fusionValues, nodes <- fusionNodes,
  step <- fusionStep, result <- fusionResult, plan <- fusionPlan, kernel <- fusionKernel
FusionIdle ==
  /\ fusionValues = "idle" /\ fusionNodes = "idle" /\ fusionStep = "idle"
  /\ fusionResult = "idle" /\ fusionPlan = "idle" /\ fusionKernel = "idle"

------------------------------------------------------------------------------
(* Regions traced, verified and run. *)
VARIABLES regionPhase, regionRefusedBy, regionArgs, regionValues, regionNodes, regionRegion,
          regionLaunched
regionVars == <<regionPhase, regionRefusedBy, regionArgs, regionValues, regionNodes,
                regionRegion, regionLaunched>>
Region == INSTANCE RegionTrace WITH Tensors <- SomeTensors, Attributes <- SomeAttributes,
  Outs <- {"none", "mismatch", "device"}, BlockLimit <- 2, PackedLimit <- 4, MaxArgs <- 4,
  MaxNodes <- 2, phase <- regionPhase, refusedBy <- regionRefusedBy, args <- regionArgs,
  values <- regionValues, nodes <- regionNodes, region <- regionRegion,
  launched <- regionLaunched
RegionIdle ==
  /\ regionPhase = "idle" /\ regionRefusedBy = "idle" /\ regionArgs = "idle"
  /\ regionValues = "idle" /\ regionNodes = "idle" /\ regionRegion = "idle"
  /\ regionLaunched = "idle"

------------------------------------------------------------------------------
\* The constants of every instance are ones the code can be built and called with.
ASSUME InstanceAssumption ==
  Capture!ConstantsAssumption /\ OnDevice!ConstantsAssumption

vars == <<part, captureVars, launchVars, fusionVars, regionVars>>

Init ==
  /\ part \in Parts
  /\ CASE part = "capture" -> Capture!Init
       [] part = "device" -> OnDevice!Init
       [] OTHER -> CaptureIdle
  /\ CASE part = "matmul" -> Launched!Init
       [] part = "elementwise" -> Elementwise!Init
       [] OTHER -> LaunchIdle
  /\ CASE part = "fusion" -> Fusion!Init
       [] part = "graph" -> Graph!Init
       [] part = "views" -> Views!Init
       [] OTHER -> FusionIdle
  /\ IF part = "region" THEN Region!Init ELSE RegionIdle

Next ==
  \/ part = "capture" /\ Capture!Next /\ UNCHANGED <<part, launchVars, fusionVars, regionVars>>
  \/ part = "device" /\ OnDevice!Next /\ UNCHANGED <<part, launchVars, fusionVars, regionVars>>
  \/ part = "matmul" /\ Launched!Next /\ UNCHANGED <<part, captureVars, fusionVars, regionVars>>
  \/ part = "elementwise" /\ Elementwise!Next /\ UNCHANGED <<part, captureVars, fusionVars,
       regionVars>>
  \/ part = "fusion" /\ Fusion!Next /\ UNCHANGED <<part, captureVars, launchVars, regionVars>>
  \/ part = "graph" /\ Graph!Next /\ UNCHANGED <<part, captureVars, launchVars, regionVars>>
  \/ part = "views" /\ Views!Next /\ UNCHANGED <<part, captureVars, launchVars, regionVars>>
  \/ part = "region" /\ Region!Next /\ UNCHANGED <<part, captureVars, launchVars, fusionVars>>

Spec == Init /\ [][Next]_vars

------------------------------------------------------------------------------
\* An accepted launch computes its first computation on the leading arguments, whatever names the
\* body uses: what a body of one computation says exactly when it names its parameters in their
\* positions.  With Python's checks switched off the engine refuses what they refuse and refuses no
\* more than it must; a host launch that is refused wrote nothing.  Launches captured into a graph,
\* however they were reordered and however often it ran, leave memory as they would have left it
\* one by one, unless the graph cleared a device output at another moment than they, and what the
\* graph reports as parallel is independent.
LaunchesComputeByPosition ==
  /\ part = "matmul" =>
       /\ Launched!TypeOK /\ Launched!AcceptedKernelComputesByPosition
       /\ Launched!AcceptedKernelComputesBodyIffPositional /\ Launched!NothingInvalidRuns
       /\ Launched!ValidatedIsLowered /\ Launched!RefusedHostLaunchKeepsMemory
  /\ part = "elementwise" =>
       Elementwise!AcceptedKernelComputesByPosition /\ Elementwise!AcceptedKernelComputesBodyIffPositional
  /\ part = "capture" => Capture!GraphMatchesEager /\ Capture!LevelsAreIndependent
  /\ part = "device" => OnDevice!GraphMatchesEager /\ OnDevice!LevelsAreIndependent

\* A fused kernel computes its plan as it was traced, and what the program meant by it if no view
\* was dropped on the way, within the shared memory it was admitted with, and a chain of one
\* matmul is fused whole.
KernelComputesItsPlan ==
  /\ part = "fusion" =>
       /\ Fusion!KernelComputesItsPlan /\ Fusion!ChainOfOneMatmulIsComplete
       /\ Fusion!SharedMemoryIsBudgeted
  /\ part = "graph" => Graph!KernelComputesItsPlan /\ Graph!SharedMemoryIsBudgeted
  /\ part = "views" => Views!KernelComputesItsPlan

\* "Decorator that traces a function and executes the fused graph" (frontend.py): the kernel
\* emitted for a function computes the result of the function.
FusedExecutesTheGraph == part = "graph" => Graph!FusedExecutesTheGraph

\* A region runs the call it returned on the tensors it was traced with, within their bounds,
\* and the verifier refuses none it need not.
RunsTheReturnedCall ==
  part = "region" =>
    Region!RunsTheReturnedCall /\ Region!LiveRegionIsVerified /\ Region!RunsWithinItsTensors
==============================================================================
