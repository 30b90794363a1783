------------------------------ MODULE CpuRuntime ------------------------------
(***************************************************************************)
(* The C interface of the CPU runtime (cpu_runtime.cpp): plan, workspace   *)
(* query, execution, prepacking, and the execution context that owns a     *)
(* pool of workers.                                                        *)
(*                                                                         *)
(* A client makes one call at a time.  What an entry point checks is a     *)
(* sequence of <<defect, status>> pairs in the order of the code, and the  *)
(* call returns the status of the first defect that is present: one the    *)
(* client put in its arguments, or one derived from the state (a report    *)
(* already filled, no legal variant, a small workspace, a floating-point   *)
(* environment the kernels cannot run in).  Between calls the client may   *)
(* change its floating-point environment and the contents of its buffers.  *)
(***************************************************************************)
EXTENDS CpuPlanner, TLC

CONSTANTS
  Problem,            \* the GEMM of the client
  HostFacts,          \* facts about the host and the build, see CpuPlanner
  Threads,            \* thread counts a client asks for
  ContextShapes,      \* contexts the host can create: host, placement, workers, bound
  Linked,             \* an OpenBLAS provider is linked
  ClientRequests,     \* variants a client asks for
  ClientDefects,      \* defects of the arguments a client may produce
  Matrix,             \* addresses of right operands
  MaxVersion          \* bound: how often the contents of one buffer may change

ASSUME RuntimeConstantsAssumption ==
  /\ Threads \subseteq Nat \ {0}
  /\ ClientRequests \subseteq Requests
  /\ Linked \in BOOLEAN
  /\ MaxVersion \in Nat

RequestsV2 == {"automatic"} \cup {RegistryV2[i][1] : i \in DOMAIN RegistryV2}
Probe == {"incomplete", "conformant", "failed"}
NoContext == [live |-> FALSE]
NoImage == [filled |-> FALSE]

-----------------------------------------------------------------------------
(* Checks of the arguments                                                 *)

Status(checks, defects) ==
  IF \E i \in DOMAIN checks : checks[i][1] \in defects
  THEN checks[CHOOSE i \in DOMAIN checks :
                /\ checks[i][1] \in defects
                /\ \A j \in 1 .. i - 1 : checks[j][1] \notin defects][2]
  ELSE "OK"

PolicyChecks == << <<"nullPolicy", "INVALID_ARGUMENT">>, <<"policyAbi", "ABI_MISMATCH">>,
  <<"policyReserved", "INVALID_ARGUMENT">>, <<"target", "UNSUPPORTED_TARGET">>,
  <<"fallback", "UNSUPPORTED_FALLBACK">> >>

TensorChecks == << <<"tensorAbi", "ABI_MISMATCH">>, <<"tensorReserved", "INVALID_ARGUMENT">>,
  <<"nullData", "INVALID_ARGUMENT">>, <<"dtype", "UNSUPPORTED_DTYPE">>,
  <<"rank", "UNSUPPORTED_RANK">>, <<"dims", "INVALID_SHAPE">>,
  <<"strides", "UNSUPPORTED_LAYOUT">>, <<"space", "UNSUPPORTED_MEMORY_SPACE">>,
  <<"mutability", "UNSUPPORTED_MUTABILITY">>, <<"tensorAlignment", "INVALID_ALIGNMENT">> >>

RangeChecks == << <<"shapes", "SHAPE_MISMATCH">>, <<"range", "ARITHMETIC_OVERFLOW">>,
  <<"outputAlias", "ALIAS_VIOLATION">> >>

GemmChecks ==
  << <<"nullDescriptor", "INVALID_ARGUMENT">> >> \o PolicyChecks \o TensorChecks
  \o << <<"outputConst", "OUTPUT_NOT_MUTABLE">>, <<"mixedSpaces", "MIXED_MEMORY_SPACES">>,
        <<"deviceSpace", "UNSUPPORTED_MEMORY_SPACE">> >>
  \o RangeChecks

\* The typed references look at one memory space at a time and never plan.
TypedChecks ==
  << <<"nullDescriptor", "INVALID_ARGUMENT">> >> \o PolicyChecks \o TensorChecks
  \o << <<"deviceSpace", "UNSUPPORTED_MEMORY_SPACE">>, <<"outputConst", "OUTPUT_NOT_MUTABLE">> >>
  \o RangeChecks

OptionsChecks == << <<"nullOptions", "INVALID_ARGUMENT">>, <<"optionsAbi", "ABI_MISMATCH">>,
  <<"zeroThreads", "INVALID_THREAD_COUNT">>, <<"optionsFlags", "INVALID_ARGUMENT">>,
  <<"unknownRequest", "UNAVAILABLE_VARIANT">> >>

OptionsChecksV2 == << <<"nullOptions", "INVALID_ARGUMENT">>, <<"optionsAbi", "ABI_MISMATCH">>,
  <<"zeroThreads", "INVALID_THREAD_COUNT">>, <<"otherPolicies", "INVALID_EXECUTION_CONTEXT">>,
  <<"optionsFlags", "INVALID_ARGUMENT">>, <<"unknownRequest", "UNAVAILABLE_VARIANT">> >>

ContextOptionsChecks == << <<"nullOptions", "INVALID_ARGUMENT">>, <<"optionsAbi", "ABI_MISMATCH">>,
  <<"zeroThreads", "INVALID_THREAD_COUNT">>, <<"affinityPolicy", "INVALID_ARGUMENT">>,
  <<"numaPolicy", "INVALID_ARGUMENT">>, <<"smtPolicy", "INVALID_ARGUMENT">>,
  <<"optionsFlags", "INVALID_ARGUMENT">>, <<"handleInUse", "INVALID_ARGUMENT">> >>

\* A structure the call fills must be there and be empty: its header set, all else zero.
EmptyChecks == << <<"nullStruct", "INVALID_ARGUMENT">>, <<"structHeader", "ABI_MISMATCH">>,
  <<"structFilled", "INVALID_ARGUMENT">> >>
EmptyRequirements == << <<"nullRequirements", "INVALID_ARGUMENT">>,
  <<"requirementsHeader", "ABI_MISMATCH">>, <<"requirementsFilled", "INVALID_ARGUMENT">> >>
EmptyImage == << <<"nullImage", "INVALID_ARGUMENT">>, <<"imageHeader", "ABI_MISMATCH">>,
  <<"imageFilled", "INVALID_ARGUMENT">> >>
\* The size query of a context fills its requirements and a report.
EmptyChecksV3 == EmptyRequirements \o EmptyChecks
EmptyContextReport == EmptyChecks

HandleCheck == << <<"deadHandle", "INVALID_EXECUTION_CONTEXT">> >>
PlanCheck == << <<"noPlan", "UNAVAILABLE_VARIANT">> >>
\* Planner v3 may also refuse what discovery says of the machine.
PlanCheckV3 == << <<"planCapabilities", "UNSUPPORTED_CAPABILITY">> >> \o PlanCheck
ForcedCheck == << <<"notForced", "UNAVAILABLE_VARIANT">> >>
FpCheck == << <<"fp", "UNSUPPORTED_FLOATING_POINT_ENVIRONMENT">> >>
WorkspaceChecks == << <<"smallWorkspace", "INSUFFICIENT_WORKSPACE">>,
  <<"workspaceAlignment", "INVALID_ALIGNMENT">>, <<"workspaceRange", "ARITHMETIC_OVERFLOW">>,
  <<"workspaceAlias", "ALIAS_VIOLATION">> >>
StorageChecks == << <<"smallStorage", "INSUFFICIENT_WORKSPACE">>,
  <<"storageAlignment", "INVALID_ALIGNMENT">>, <<"storageRange", "ARITHMETIC_OVERFLOW">>,
  <<"storageAlias", "ALIAS_VIOLATION">> >>
ImageChecks == << <<"emptyImage", "ABI_MISMATCH">>, <<"imageReserved", "PREPACK_MISMATCH">> >>
IdentityChecks == << <<"otherSource", "PREPACK_MISMATCH">>, <<"imageMetadata", "PREPACK_MISMATCH">>,
  <<"imageRange", "ARITHMETIC_OVERFLOW">>, <<"imageAlias", "ALIAS_VIOLATION">> >>

-----------------------------------------------------------------------------
(* What each entry point checks, in order, up to where it plans and after.  *)

PlanV1Before == EmptyChecks \o GemmChecks
SizeV1Before == OptionsChecks \o EmptyRequirements \o EmptyChecks \o GemmChecks
ExecuteV1Before == OptionsChecks \o EmptyChecks \o GemmChecks
SizePrepackedBefore == OptionsChecks \o ForcedCheck \o EmptyRequirements \o GemmChecks
PrepackBefore == OptionsChecks \o ForcedCheck \o EmptyImage \o GemmChecks
ExecutePrepackedBefore ==
  OptionsChecks \o EmptyChecks \o ForcedCheck \o ImageChecks \o GemmChecks \o IdentityChecks
SizeV2Before == HandleCheck \o OptionsChecksV2 \o EmptyChecksV3 \o GemmChecks
ExecuteV2Before == HandleCheck \o OptionsChecksV2 \o EmptyChecks \o GemmChecks

Before ==
  [planV1 |-> PlanV1Before, sizeV1 |-> SizeV1Before, executeV1 |-> ExecuteV1Before,
   sizePrepacked |-> SizePrepackedBefore, prepack |-> PrepackBefore,
   executePrepacked |-> ExecutePrepackedBefore, gemmV0 |-> GemmChecks,
   sizeV2 |-> SizeV2Before, executeV2 |-> ExecuteV2Before]

ExecuteAfter == PlanCheck \o WorkspaceChecks \o FpCheck
ExecuteV2After == PlanCheckV3 \o WorkspaceChecks \o FpCheck
PrepackAfter == PlanCheck \o StorageChecks \o FpCheck
After ==
  [planV1 |-> PlanCheck, sizeV1 |-> PlanCheck, executeV1 |-> ExecuteAfter,
   sizePrepacked |-> PlanCheck, prepack |-> PrepackAfter,
   executePrepacked |-> ExecuteAfter, gemmV0 |-> PlanCheck \o FpCheck,
   sizeV2 |-> PlanCheckV3, executeV2 |-> ExecuteV2After]
-----------------------------------------------------------------------------
(* Plans                                                                   *)

ProviderFacts(p) ==
  (IF Linked THEN {"blasLinked"} ELSE {})
  \cup (IF p # "incomplete" THEN {"blasEvaluated"} ELSE {})
  \cup (IF p = "conformant" THEN {"blasConformant", "blasThreadControl"} ELSE {})
ProviderCeiling(p) == IF p = "conformant" THEN 1 ELSE 0

\* external_provider_probe: a forced native request leaves the provider alone.
Includes(entry, request) ==
  \/ entry \in {"gemmV0", "sizeV2", "executeV2"}
  \/ entry \in {"sizeV1", "executeV1"} /\ request \in {"automatic", "openblas"}

Chosen(registry, decisions, request) ==
  LET plan == PlanOf(registry, decisions, request)
  IN IF plan.status # "selected" THEN [variant |-> "none"]
     ELSE [variant |-> plan.variant, workspace |-> decisions[plan.variant].workspace,
           threads |-> decisions[plan.variant].threads]

\* The tables of plans are combined with the empty function so that TLC
\* evaluates each of them once.
PackedFacts == {"packed2Built", "packed2Size", "packed2Align"}

PlansV1 == Chosen(RegistryV1, DecisionsV1(Problem, HostFacts), "automatic")
PlansV2 == [x \in RequestsV2 \X Threads \X Probe |->
  Chosen(RegistryV2, DecisionsV2(Problem, HostFacts \cup ProviderFacts(x[3]), x[2],
                                 ProviderCeiling(x[3])), x[1])] @@ << >>
PlansV0 == [p \in Probe |->
  Chosen(RegistryV2, DecisionsV2(Problem, (HostFacts \ PackedFacts) \cup ProviderFacts(p), 1,
                                 ProviderCeiling(p)), "automatic")] @@ << >>

\* make_advanced_gemm_plan_v3, for a context and the evidence it collected.
PlansV3 == [x \in Requests \X Threads \X Probe \X ContextShapes \X BOOLEAN |->
  LET shape == x[4]
      evidence == HostFacts \cup {"context", "noProviderThreads"}
                    \cup (IF x[5] THEN {"blasValidated"} ELSE {})
      policy == [requested |-> x[2], max |-> shape.workers, smt |-> shape.smt,
                 bound |-> shape.bound]
  IN Chosen(RegistryV3,
            DecisionsV3(Problem, shape.host, policy, evidence \cup ProviderFacts(x[3]),
                        shape.workers, ProviderCeiling(x[3]), shape.placement), x[1])] @@ << >>

-----------------------------------------------------------------------------
VARIABLES
  fp,         \* the client's floating-point environment is compatible
  workerFp,   \* so are those of the workers
  probe,      \* result of the process-wide conformance probe
  conforms,   \* whether the linked provider would pass it
  context,    \* execution context handle, with the evidence it collected
  image,      \* descriptor and contents of a packed right operand
  version,    \* version of the contents of each right operand
  sized,      \* the last workspace a query answered, and for which execution
  last        \* what the last call did

vars == <<fp, workerFp, probe, conforms, context, image, version, sized, last>>
client == <<fp, workerFp, conforms, version>>

NoSize == [entry |-> "none", request |-> "none", threads |-> 0, bytes |-> 0]
Returned(status) ==
  [entry |-> "none", status |-> status, filled |-> FALSE, wrote |-> FALSE]

Init ==
  /\ fp = TRUE /\ workerFp = TRUE
  /\ probe = "incomplete"
  /\ conforms \in BOOLEAN
  /\ context = NoContext
  /\ image = NoImage
  /\ version = [b \in Matrix |-> 0]
  /\ sized = NoSize
  /\ last = Returned("OK")

-----------------------------------------------------------------------------
(* One call of an entry point that plans a GEMM: a record c with the entry, *)
(* the request, the threads, the workspace bytes, the right operand and     *)
(* the defects of the other arguments.                                      *)

\* openblas_conformance_report_v1, called by a thread whose environment is
\* compatible or not: the probe runs at most once, and not in a bad environment.
\* Mutant: a caller that cannot run the provider gets no verdict at all.
Probed_AlwaysDeferred(env) ==
  IF ~env THEN "incomplete"
  ELSE IF probe = "incomplete" /\ Linked
       THEN IF conforms THEN "conformant" ELSE "failed"
  ELSE probe
Probed(env) ==
  IF probe = "incomplete" /\ Linked /\ env
  THEN IF conforms THEN "conformant" ELSE "failed"
  ELSE probe

PlanFor(c) ==
  LET p == IF Includes(c.entry, c.request) THEN Probed(fp) ELSE "incomplete"
  IN CASE c.entry = "planV1" -> PlansV1
       [] c.entry = "gemmV0" -> PlansV0[p]
       [] c.entry \in {"sizeV2", "executeV2"} ->
            PlansV3[<<c.request, c.threads, p, context.shape, context.provider>>]
       [] OTHER -> PlansV2[<<c.request, c.threads, p>>]

\* The workspace an execution needs: the selected plan's, except with a packed B.
Needed(entry, plan) ==
  CASE plan.variant = "none" -> 0
    [] entry = "executePrepacked" -> PrepackedExecution(Problem)
    [] OTHER -> plan.workspace

\* The thread that computes: a worker for the parallel variants, and for every
\* variant of a context with bound workers; otherwise the caller.
OnWorker(entry, variant) ==
  entry = "executeV2" /\ (variant \in {"parallel2", "parallel512"} \/ context.shape.bound)
RunsCompatibly(entry, variant) == IF OnWorker(entry, variant) THEN workerFp ELSE fp
StateDefects(c) ==
  (IF ~context.live THEN {"deadHandle"} ELSE {})
  \cup (IF c.entry \notin {"sizeV2", "executeV2"} /\ c.request \notin RequestsV2
        THEN {"unknownRequest"} ELSE {})
  \cup (IF c.request # "packed2" THEN {"notForced"} ELSE {})
  \cup (IF image.filled THEN {"imageFilled"} ELSE {"emptyImage"})
  \cup (IF image.filled /\ image.source # c.rhs THEN {"otherSource"} ELSE {})

\* Defects that show once there is a plan; a workspace nobody needs is not
\* looked at.
PlanDefects(c, plan) ==
  LET all == c.bad
               \cup (IF plan.variant = "none" THEN {"noPlan"} ELSE {})
               \cup (IF c.bytes < Needed(c.entry, plan) THEN {"smallWorkspace"} ELSE {})
               \cup (IF plan.variant # "none" /\ ~RunsCompatibly(c.entry, plan.variant)
                     THEN {"fp"} ELSE {})
      unseen == IF Needed(c.entry, plan) = 0
                THEN {WorkspaceChecks[i][1] : i \in DOMAIN WorkspaceChecks} ELSE {}
  IN all \ unseen

EarlyStatus(c) == Status(Before[c.entry], c.bad \cup StateDefects(c))
LateStatus(c) == Status(After[c.entry], PlanDefects(c, PlanFor(c)))
Endings(variant) ==
  CASE variant = "openblas" -> {<<"OK", TRUE>>, <<"EXTERNAL_PROVIDER_FAILURE", TRUE>>}
    [] variant \in {"parallel2", "parallel512"} ->
         {<<"OK", TRUE>>, <<"EXECUTOR_FAILURE", TRUE>>, <<"EXECUTOR_FAILURE", FALSE>>}
    [] OTHER -> {<<"OK", TRUE>>}

Computes(entry) == entry \in {"executeV1", "executeV2", "executePrepacked", "gemmV0"}
Contents(b) == <<b, version[b]>>

\* A report of version 3 is filled as soon as there is a plan, the others on success.
FilledByPlan(entry) == entry \in {"sizeV2", "executeV2"}
Fills(entry, status) == status = "OK" \/ FilledByPlan(entry)

\* A call is refused before it plans.
Refuse(c) ==
  /\ EarlyStatus(c) # "OK"
  /\ last' = Returned(EarlyStatus(c))
  /\ UNCHANGED <<client, probe, context, image, sized>>

Planned(c) ==
  /\ EarlyStatus(c) = "OK"
  /\ probe' = (IF Includes(c.entry, c.request) THEN Probed(fp) ELSE probe)

\* It plans, and is refused by what the plan needs.
RefusePlan(c) ==
  /\ Planned(c)
  /\ LateStatus(c) # "OK"
  /\ last' = [entry |-> c.entry, request |-> c.request, threads |-> c.threads,
              bytes |-> c.bytes, status |-> LateStatus(c), wrote |-> FALSE,
              filled |-> Fills(c.entry, LateStatus(c))]
  /\ UNCHANGED <<client, context, image, sized>>

\* A query answers, for the execution it is asked about.
Answer(c) ==
  LET for == CASE c.entry = "sizeV1" -> "executeV1" [] c.entry = "sizeV2" -> "executeV2"
               [] c.entry = "sizePrepacked" -> "executePrepacked" [] OTHER -> "none"
  IN /\ ~Computes(c.entry) /\ c.entry # "prepack"
     /\ sized' = (IF for = "none" THEN sized
                  ELSE [entry |-> for, request |-> c.request, threads |-> c.threads,
                        bytes |-> Needed(for, PlanFor(c))])
     /\ last' = [Returned("OK") EXCEPT !.filled = TRUE]
     /\ UNCHANGED <<client, context, image>>

\* The image is packed, then described.
Pack(c) ==
  /\ c.entry = "prepack"
  /\ image' = [filled |-> TRUE, source |-> c.rhs, of |-> Contents(c.rhs)]
  /\ last' = [Returned("OK") EXCEPT !.filled = TRUE]
  /\ UNCHANGED <<client, context, sized>>

Compute(c) ==
  LET plan == PlanFor(c)
  IN /\ Computes(c.entry)
     /\ \E ending \in Endings(plan.variant) :
          last' = [entry |-> c.entry, status |-> ending[1], wrote |-> ending[2],
                   filled |-> Fills(c.entry, ending[1]),
                   lacks |-> IF c.bytes < Needed(c.entry, plan)
                             THEN Needed(c.entry, plan) - c.bytes ELSE 0,
                   compatible |-> IF OnWorker(c.entry, plan.variant) THEN workerFp ELSE fp,
                   rhs |-> c.rhs,
                   used |-> IF c.entry = "executePrepacked" THEN image.of ELSE Contents(c.rhs)]
     /\ UNCHANGED <<client, context, image, sized>>

Call(c) ==
  \/ Refuse(c)
  \/ RefusePlan(c)
  \/ Planned(c) /\ LateStatus(c) = "OK" /\ (Answer(c) \/ Pack(c) \/ Compute(c))

\* The bf16 and i8 references validate, never plan, and do not depend on the
\* floating-point environment check.
TypedReference(bad) ==
  /\ last' = LET s == Status(TypedChecks, bad)
             IN [Returned(s) EXCEPT !.wrote = (s = "OK")]
  /\ UNCHANGED <<client, probe, context, image, sized>>

-----------------------------------------------------------------------------
(* Capabilities and the execution context                                  *)

\* Discovery of capabilities, topology or affinity may be incomplete.
CapabilitiesChecks == EmptyChecks \o << <<"discovery", "UNSUPPORTED_CAPABILITY">> >>
QueryCapabilities(bad) ==
  /\ last' = LET s == Status(CapabilitiesChecks, bad)
             IN [Returned(s) EXCEPT !.filled = (s = "OK")]
  /\ UNCHANGED <<client, probe, context, image, sized>>

\* Everything up to the worker preflight can fail; only a failed binding of the
\* workers leaves a report behind.
CreateChecks == ContextOptionsChecks \o EmptyContextReport
  \o << <<"discovery", "UNSUPPORTED_CAPABILITY">>, <<"binding", "EXECUTOR_FAILURE">>,
        <<"evidence", "UNSUPPORTED_CAPABILITY">> >> \o FpCheck
CreateDefects(bad) == bad \cup (IF context.live THEN {"handleInUse"} ELSE {})
                          \cup (IF ~workerFp THEN {"fp"} ELSE {})
ContextCreate(shape, bad) ==
  LET s == Status(CreateChecks, CreateDefects(bad))
  IN /\ IF s # "OK"
        THEN /\ last' = [Returned(s) EXCEPT !.filled = (s = "EXECUTOR_FAILURE")]
             /\ UNCHANGED <<probe, context>>
        ELSE /\ probe' = Probed(workerFp)
             /\ context' = [live |-> TRUE, shape |-> shape,
                            provider |-> Probed(workerFp) = "conformant"]
             /\ last' = [Returned(s) EXCEPT !.filled = TRUE]
     /\ UNCHANGED <<client, image, sized>>

ContextQuery(bad) ==
  /\ last' = LET s == Status(HandleCheck \o EmptyContextReport,
                             bad \cup (IF context.live THEN {} ELSE {"deadHandle"}))
             IN [Returned(s) EXCEPT !.filled = (s = "OK")]
  /\ UNCHANGED <<client, probe, context, image, sized>>

\* The workers are joined; what was sized for this context means nothing now.
ContextDestroy ==
  /\ last' = Returned(IF context.live THEN "OK" ELSE "INVALID_EXECUTION_CONTEXT")
  /\ context' = NoContext
  /\ sized' = (IF sized.entry = "executeV2" THEN NoSize ELSE sized)
  /\ UNCHANGED <<client, probe, image>>

-----------------------------------------------------------------------------
(* What the client does between calls                                      *)

ChangeEnvironment ==
  /\ fp' = ~fp /\ UNCHANGED <<workerFp, conforms, version, probe, context, image, sized, last>>
ChangeWorkerEnvironment ==
  /\ context.live /\ workerFp' = ~workerFp
  /\ UNCHANGED <<fp, conforms, version, probe, context, image, sized, last>>
Modify(b) ==
  /\ version[b] < MaxVersion /\ \A d \in Matrix \ {b} : version[d] = 0
  /\ version' = [version EXCEPT ![b] = @ + 1]
  /\ UNCHANGED <<fp, workerFp, conforms, probe, context, image, sized, last>>
DiscardImage ==
  /\ image.filled /\ image' = NoImage
  /\ UNCHANGED <<client, probe, context, sized, last>>

\* The calls a client makes.  Entry points without options or workspace get
\* fixed ones; the right operand varies where its identity matters; the
\* workspace is none, or as large as a query answered.  A call with defective
\* arguments is otherwise well formed.
Bads == {{}} \cup {{d} : d \in ClientDefects}
Calls(answer) ==
  LET some == {CHOOSE b \in Matrix : TRUE}
      Of(entries, requests, threads, bytes, rhs) ==
        [entry: entries, request: requests, threads: threads, bytes: bytes, rhs: rhs, bad: {{}}]
      Defective ==
        [entry: {"planV1", "gemmV0", "sizeV1", "sizeV2", "sizePrepacked", "executeV1",
                 "executeV2", "prepack", "executePrepacked"},
         request: {"automatic"}, threads: {1}, bytes: {answer}, rhs: some,
         bad: {{d} : d \in ClientDefects}]
  IN UNION {Defective, Of({"planV1", "gemmV0"}, {"automatic"}, {1}, {0}, some),
            Of({"sizeV1", "sizeV2", "sizePrepacked"}, ClientRequests, Threads, {0}, some),
            Of({"executeV1", "executeV2"}, ClientRequests, Threads, {0, answer}, some),
            Of({"prepack"}, ClientRequests, {1}, {0}, Matrix),
            Of({"executePrepacked"}, ClientRequests, {1}, {0, answer}, Matrix)}

Next ==
  \/ \E c \in Calls(sized.bytes) : Call(c)
  \/ \E bad \in Bads :
       TypedReference(bad) \/ QueryCapabilities(bad) \/ ContextQuery(bad)
  \/ \E shape \in ContextShapes, bad \in Bads :
       ContextCreate(shape, bad)
  \/ ContextDestroy
  \/ ChangeEnvironment \/ ChangeWorkerEnvironment \/ DiscardImage
  \/ \E b \in Matrix : Modify(b)

Spec == Init /\ [][Next]_vars

-----------------------------------------------------------------------------

\* A workspace as large as the query answered is never refused as too small,
\* whatever the floating-point environment was at the query and is at the
\* execution: discovery of the provider depends on it
\* (matcore_runtime_gemm_f32_workspace_size_v1, .._execute_v1 and the context
\* and prepacked pairs).
QueriedWorkspaceSuffices ==
  (/\ last.status = "INSUFFICIENT_WORKSPACE"
   /\ last.entry = sized.entry /\ last.request = sized.request
   /\ last.threads = sized.threads)
  => last.bytes < sized.bytes

\* Every failure of a check, even of the workers' preflight, leaves the output
\* untouched: only the provider and a failing task report after output was
\* written (runtime_c.h: "Every pre-execution validation failure leaves output
\* data unchanged").
ValidationFailureTouchesNothing ==
  last.status \notin {"OK", "EXTERNAL_PROVIDER_FAILURE", "EXECUTOR_FAILURE"} => ~last.wrote

Ran == last.entry # "none" /\ last.wrote

\* An execution with a packed operand whose source was not modified since it
\* was packed computes with the right operand of the call.
PrepackedMatchesRhs ==
  (/\ Ran /\ last.entry = "executePrepacked" /\ last.status = "OK" /\ image.filled
   /\ image.of = Contents(image.source))
  => last.used = Contents(last.rhs)

\* Whatever computes does so on a thread whose floating-point environment was
\* found compatible: the worker's in a bound context, the caller's otherwise.
RanInCompatibleEnvironment == Ran => last.compatible

\* Nothing runs with less workspace than its variant uses; the one-shot entry
\* point, which has none, only selects variants that need none.
RunHasItsWorkspace == Ran => last.lacks = 0

\* Evidence collected by a context never contradicts the process-wide probe,
\* and the probe, once decided, tells the truth about the provider: it is
\* never decided by the environment of a caller.
EvidenceIsSound ==
  /\ context.live /\ context.provider => probe = "conformant"
  /\ probe # "incomplete" => (probe = "conformant") = conforms
=============================================================================
