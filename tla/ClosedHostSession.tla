-------------------------- MODULE ClosedHostSession --------------------------
(***************************************************************************)
(* The plan the compiler derives from a region and a compiled region       *)
(* running in a session (runtime/closed_host_v1.cpp).                      *)
(*                                                                         *)
(* The function that the emitter writes for a plan calls the session once  *)
(* per operation and returns at the first failure; the host enters it and  *)
(* takes the result.  A call is one step, except that a GEMM runs its leaf *)
(* between two steps, where a test callback may call back into the         *)
(* session, and that a fused pair retires its two frontiers one by one.    *)
(***************************************************************************)
EXTENDS RegionProgram

CONSTANTS
  Programs,       \* the regions to be compiled
  Candidates,     \* the candidates a session may be given
  ShapeArguments, \* the values of shape parameters
  Gpu,            \* what the GPU recipes are qualified for: the largest
                  \* dimension, output, work, and work of a combined pair
  EntryBudget,    \* bound: how often the host enters the region
  TakeBudget      \* bound: how often the host takes the result

ASSUME SessionConstantsAssumption ==
  /\ \A p \in Programs : WellFormed(p)
  /\ Candidates \subseteq {"native_strict", "generated_strict",
                           "generated_reassociate", "generated_gpu"}
  /\ Gpu \in [extent: Nat, output: Nat, work: Nat, pair: Nat]
  /\ EntryBudget \in Nat /\ TakeBudget \in Nat

VARIABLES
  (* the compiled region *)
  program, args, optimization, candidate, plan,
  (* the host *)
  memory, entries, takes, results, returned,
  (* the region's activation *)
  phase, at, values,
  (* the session *)
  status, active, activeFrontier, taken, observations, report

compiled == <<program, args, optimization, candidate, plan>>
host     == <<memory, entries, takes, results>>
session  == <<status, active, activeFrontier, taken, observations, report>>
vars     == <<compiled, host, returned, phase, at, values, session>>

-----------------------------------------------------------------------------
(* The plan (codegen/ClosedHostDerivedPlan.cpp) and the calls the emitter    *)
(* writes for it (codegen/ClosedHostEmitter.cpp): which reads are answered   *)
(* from a value that was just published, and which two adjacent GEMMs become *)
(* one call that never materialises the value between them.                  *)

Optimization == {"none", "publication-read-forwarding", "strict-fused-pair"}

NoBinding == [res |-> "none", value |-> 0]

-----------------------------------------------------------------------------
(* Derivation: publication to read forwarding                              *)

\* The one current binding after an operation.  A publication replaces it,
\* whatever resource it was for, because all resources may alias; the
\* boundaries of a shape-if reset it.
\* Mutant: a publication to another resource leaves the binding alone.
BindingAfter_SameResourceOnly(binding, op) ==
  CASE op.kind = "publish" ->
         IF binding = NoBinding \/ binding.res = op.res
         THEN [res |-> op.res, value |-> op.lhs] ELSE binding
    [] op.kind \in {"if", "else", "endif"} -> NoBinding
    [] OTHER -> binding
BindingAfter(binding, op) ==
  CASE op.kind = "publish" -> [res |-> op.res, value |-> op.lhs]
    [] op.kind \in {"if", "else", "endif"} -> NoBinding
    [] OTHER -> binding

Bindings(prog) ==
  LET current[i \in 0 .. Len(prog)] ==
        IF i = 0 THEN NoBinding ELSE BindingAfter(current[i - 1], prog[i])
  IN  current

\* For each read, the value it is forwarded from, or zero.
ForwardedReads(prog, requested) ==
  [i \in 1 .. Len(prog) |->
     IF /\ requested = "publication-read-forwarding"
        /\ prog[i].kind = "read"
        /\ Bindings(prog)[i - 1].res = prog[i].res
     THEN Bindings(prog)[i - 1].value ELSE 0]

-----------------------------------------------------------------------------
(* PairDerivation: strict fused pairs                                      *)

\* Operand uses of a value by one operation: a GEMM may use it twice.
OperandUses(op, v) ==
  CASE op.kind = "gemm"    -> Cardinality({o \in {"lhs", "rhs"} : op[o] = v})
    [] op.kind = "publish" -> IF op.lhs = v THEN 1 ELSE 0
    [] OTHER               -> 0
DimensionUses(op, v) ==
  Cardinality({f \in (IF op.kind = "read" THEN {"rows", "cols"}
                      ELSE IF op.kind = "if" THEN {"lhs", "rhs"} ELSE {}) :
                 op[f].kind \in {"rows", "columns"} /\ op[f].of = v})
Uses(prog, v) ==
  LET sum[i \in 0 .. Len(prog)] ==
        IF i = 0 THEN 0
        ELSE sum[i - 1] + OperandUses(prog[i], v) + DimensionUses(prog[i], v)
  IN  sum[Len(prog)]

ReadValue(prog, v, i) == prog[v].kind = "read" /\ Dominates(prog, v, i)

\* Operations i and i + 1 are C = A * B and E = C * D, both strict, on values
\* that were read, and nothing else uses C.
Eligible(prog, i) ==
  /\ i < Len(prog)
  /\ prog[i].kind = "gemm" /\ prog[i].profile = "strict_f32"
  /\ prog[i + 1].kind = "gemm" /\ prog[i + 1].profile = "strict_f32"
  /\ prog[i + 1].lhs = i /\ Uses(prog, i) = 1
  /\ \A v \in {prog[i].lhs, prog[i].rhs, prog[i + 1].rhs} : ReadValue(prog, v, i)

\* The first operations of the pairs: windows are firsts from left to right
\* and do not overlap.
FusedPairs(prog, requested) ==
  LET firsts[i \in 0 .. Len(prog)] ==
        IF i = 0 THEN {}
        ELSE IF Eligible(prog, i) /\ (i - 1) \notin firsts[i - 1]
        THEN firsts[i - 1] \cup {i} ELSE firsts[i - 1]
  IN  IF requested = "strict-fused-pair" THEN firsts[Len(prog)] ELSE {}

-----------------------------------------------------------------------------
(* deriveClosedHostPlan and the emitter                                    *)

Plan(prog, requested) ==
  [forwarded |-> ForwardedReads(prog, requested),
   pairs     |-> FusedPairs(prog, requested)]

\* A region without an eligible pair is refused, not compiled without pairs;
\* and pairs need a candidate that has a combined realization.
Compiles(prog, requested, by) ==
  requested = "strict-fused-pair" =>
    /\ FusedPairs(prog, requested) # {}
    /\ by \in {"generated_strict", "generated_gpu"}

-----------------------------------------------------------------------------
(* The session *)

FreshStatus ==
  [code |-> "ok", failedFrontier |-> 0, completedFrontier |-> 0,
   completedEffectFrontier |-> 0, publications |-> 0, observations |-> 0,
   completed |-> FALSE]
NoReport == [frontier |-> 0, code |-> "ok", issued |-> FALSE]

InitialMemory == [c \in Cells |-> <<"cell", c>>]

Init ==
  /\ program \in Programs /\ args \in [ShapeParams -> ShapeArguments]
  /\ optimization \in Optimization /\ candidate \in Candidates
  /\ plan = Plan(program, "none")
  /\ memory = InitialMemory /\ entries = 0 /\ takes = 0 /\ results = <<>>
  /\ returned = FreshStatus
  /\ phase = "source" /\ at = Settle(program, 1)
  /\ values = [i \in 1 .. Len(program) |-> NoValue]
  /\ status = FreshStatus /\ active = FALSE /\ activeFrontier = 0
  /\ taken = FALSE /\ observations = <<>> /\ report = NoReport

\* emitExperimentalRegion: derive the plan, or refuse the request.
Compile ==
  /\ phase = "source"
  /\ IF Compiles(program, optimization, candidate)
     THEN plan' = Plan(program, optimization) /\ phase' = "idle"
     ELSE plan' = plan /\ phase' = "refused"
  /\ UNCHANGED <<program, args, optimization, candidate, host, returned, at,
                 values, session>>

-----------------------------------------------------------------------------
(* fail, succeed, begin                                                    *)

Failed(s, code, frontier) ==
  IF s.code = "ok" THEN [s EXCEPT !.code = code, !.failedFrontier = frontier] ELSE s

Succeeded(s, frontier) ==
  IF s.code = "ok" THEN [s EXCEPT !.completedFrontier = frontier] ELSE s

BeginCode(frontier) ==
  IF taken THEN "already_complete"
  ELSE IF active THEN "reentrant_use"
  ELSE IF status.completed THEN "already_complete"
  ELSE IF frontier = 0 \/ frontier <= status.completedFrontier THEN "invalid_frontier"
  ELSE "ok"

Frontier == FrontierOf(program, at)
Op       == program[at]
AtOp(kind) == phase = "run" /\ at <= Len(program) /\ Op.kind = kind

\* What a call may find: what begin says, or else one of its own outcomes.
Outcomes(own) == IF BeginCode(Frontier) = "ok" THEN own ELSE {BeginCode(Frontier)}
ReturnFailed(code) ==
  /\ code # "ok"
  /\ status' = Failed(status, code, Frontier)
  /\ returned' = status'
  /\ phase' = "idle" /\ active' = FALSE /\ activeFrontier' = 0
  /\ UNCHANGED <<compiled, host, at, values, taken, observations>>
Continue == at' = Settle(program, at + 1) /\ phase' = "run"

-----------------------------------------------------------------------------
(* Host: entering the region, taking the result                            *)

\* Mutant: any session is taken for a pristine one.
Pristine_Any == TRUE
Pristine ==
  /\ ~status.completed /\ status.completedFrontier = 0
  /\ status.completedEffectFrontier = 0
  /\ status.publications = 0 /\ status.observations = 0

\* The entry of the generated function: a failed session keeps its failure, a
\* used one is refused without being touched.
Enter ==
  /\ phase = "idle" /\ entries < EntryBudget
  /\ entries' = entries + 1
  /\ IF status.code = "ok" /\ Pristine
     THEN /\ phase' = "run" /\ at' = Settle(program, 1)
          /\ values' = [i \in 1 .. Len(program) |-> NoValue]
          /\ UNCHANGED returned
     ELSE /\ returned' = IF status.code # "ok" THEN status
                         ELSE [status EXCEPT !.code = "invalid_frontier"]
          /\ UNCHANGED <<phase, at, values>>
  /\ UNCHANGED <<compiled, memory, takes, results, session>>
Kept == <<>>

TakeResult ==
  /\ phase = "idle" /\ takes < TakeBudget
  /\ takes' = takes + 1
  /\ IF taken
     THEN /\ results' = Append(results, [code |-> "already_complete", observations |-> Kept])
          /\ UNCHANGED <<status, taken, observations>>
     ELSE /\ status' = IF status.code = "ok" /\ ~status.completed
                       THEN Failed(status, "invalid_frontier", 0) ELSE status
          /\ taken' = TRUE
          /\ results' = Append(results, [code |-> status'.code,
                                         observations |-> observations])
          /\ observations' = Kept
  /\ UNCHANGED <<compiled, memory, entries, returned, phase, at, values, active,
                 activeFrontier, report>>

-----------------------------------------------------------------------------
(* read, readForwarded                                                     *)

Rows == Evaluate(Op.rows, args, values)
Cols == Evaluate(Op.cols, args, values)

ReadCall ==
  /\ AtOp("read") /\ plan.forwarded[at] = 0
  /\ LET fault == ReadFault(Views[Op.res], Rows, Cols)
     IN  \E code \in Outcomes(IF fault # "ok" THEN {fault}
                              ELSE {"ok", "allocation_failure"}) :
           \/ ReturnFailed(code) /\ UNCHANGED report
           \/ /\ code = "ok"
              /\ values' = [values EXCEPT ![at] = Contents(memory, Views[Op.res])]
              /\ status' = Succeeded(status, Frontier)
              /\ Continue
              /\ UNCHANGED <<compiled, host, returned, active, activeFrontier, taken,
                             observations, report>>

\* The same guards in the same order, then the retained value.
\* Mutant: the checks of the retained value are thought to cover the rest.
ForwardFault_ValueOnly ==
  LET retained == values[plan.forwarded[at]]
  IN  IF ~retained.valid THEN "invalid_value"
      ELSE IF retained.rows # Rows \/ retained.cols # Cols THEN "shape_mismatch"
      ELSE "ok"
ForwardFault ==
  LET fault     == ReadFault(Views[Op.res], Rows, Cols)
      retained  == values[plan.forwarded[at]]
  IN  IF fault # "ok" THEN fault
      ELSE IF ~retained.valid THEN "invalid_value"
      ELSE IF retained.rows # Rows \/ retained.cols # Cols THEN "shape_mismatch"
      ELSE "ok"

ReadForwardedCall ==
  /\ AtOp("read") /\ plan.forwarded[at] # 0
  /\ \E code \in Outcomes({ForwardFault}) :
       \/ ReturnFailed(code) /\ UNCHANGED report
       \/ /\ code = "ok"
          /\ values' = [values EXCEPT ![at] = values[plan.forwarded[at]]]
          /\ status' = Succeeded(status, Frontier)
          /\ Continue
          /\ UNCHANGED <<compiled, host, returned, active, activeFrontier, taken,
                         observations, report>>

-----------------------------------------------------------------------------
(* gemm                                                                    *)

GpuFits(m, n, k) ==
  /\ {m, n, k} \subseteq 0 .. Gpu.extent
  /\ m * n <= Gpu.output /\ m * n * k <= Gpu.work

\* candidateLegality; the GPU answers whatever its discovery runs into.
Legality(profile) ==
  CASE candidate \in {"native_strict", "generated_strict"} -> {"ok"}
    [] candidate = "generated_reassociate" ->
         IF profile # "reassociate_f32" THEN {"candidate_incompatible"}
         ELSE {"ok", "candidate_unavailable"}
    [] candidate = "generated_gpu" ->
         {"ok", "candidate_unavailable", "candidate_incompatible",
          "candidate_failure", "allocation_failure", "unsupported_fp_environment"}

\* The outcomes of the checks, in order: values, contraction, legality,
\* extent, the GPU envelope, then the allocation and the FP scope.
GemmGuards(a, b, legal) ==
  IF ~a.valid \/ ~b.valid THEN {"invalid_value"}
  ELSE IF a.cols # b.rows THEN {"shape_mismatch"}
  ELSE (legal \ {"ok"}) \cup
       (IF "ok" \notin legal THEN {}
        ELSE IF Extent(a.rows, b.cols) # "ok" THEN {"extent_overflow"}
        ELSE IF candidate = "generated_gpu" /\ ~GpuFits(a.rows, b.cols, a.cols)
          THEN {"candidate_incompatible"}
        ELSE {"ok"})

GemmOutcomes ==
  LET guards == GemmGuards(values[Op.lhs], values[Op.rhs], Legality(Op.profile))
  IN  IF "ok" \in guards
      THEN guards \cup {"allocation_failure", "unsupported_fp_environment"}
      ELSE guards

Reported(code) == [frontier |-> Frontier, code |-> code, issued |-> FALSE]

\* begin can only refuse before the report is replaced.
ReportFailed(code) ==
  report' = IF BeginCode(Frontier) = "ok" THEN Reported(code) ELSE report

GemmEnter ==
  /\ AtOp("gemm") /\ at \notin plan.pairs
  /\ \E code \in Outcomes(GemmOutcomes) :
       \/ ReturnFailed(code) /\ ReportFailed(code)
       \/ /\ code = "ok"
          /\ active' = TRUE /\ activeFrontier' = Frontier
          /\ phase' = "leaf"
          /\ report' = Reported("ok")
          /\ UNCHANGED <<compiled, host, returned, at, values, status, taken,
                         observations>>

\* A callback that calls back into the session, or takes its result.
Reenter ==
  /\ phase = "leaf" /\ status.code = "ok"
  /\ status' = Failed(status, "reentrant_use", activeFrontier)
  /\ UNCHANGED <<compiled, host, returned, phase, at, values, active,
                 activeFrontier, taken, observations, report>>
IssueVerdict(leaf) == IF status.code # "ok" THEN status.code ELSE leaf

LeafCodes ==
  IF candidate = "generated_gpu" THEN Legality("strict_f32") ELSE {"ok", "candidate_failure"}

GemmReturn ==
  /\ phase = "leaf"
  /\ \E leaf \in LeafCodes :
       LET code == IssueVerdict(leaf)
       IN  \/ ReturnFailed(code) /\ report' = [report EXCEPT !.code = code]
           \/ /\ code = "ok"
              /\ values' = [values EXCEPT ![at] =
                   Product(values[Op.lhs], values[Op.rhs], Op.profile)]
              /\ status' = Succeeded(status, Frontier)
              /\ active' = FALSE /\ activeFrontier' = 0
              /\ report' = [report EXCEPT !.issued = TRUE]
              /\ Continue
              /\ UNCHANGED <<compiled, host, returned, taken, observations>>

-----------------------------------------------------------------------------
(* gemmStrictFusedPair                                                     *)

\* pairLegality: the candidate's own legality, then a strict profile and a
\* combined realization.  The emitter asks for the strict profile twice.
PairLegality(profile) ==
  LET own == Legality(profile)
  IN  (own \ {"ok"}) \cup
      (IF profile # "strict_f32" \/ candidate \notin {"generated_strict", "generated_gpu"}
       THEN {"candidate_incompatible"} ELSE {"ok"})

PairFirstGuards(a, b, profile, second) ==
  IF second # Frontier + 1 THEN {"invalid_frontier"}
  ELSE GemmGuards(a, b, PairLegality(profile))

\* The first frontier: every check of C = A * B, but no value.
FusedFirst ==
  /\ AtOp("gemm") /\ at \in plan.pairs
  /\ LET guards == PairFirstGuards(values[Op.lhs], values[Op.rhs], "strict_f32",
                                   FrontierOf(program, at + 1))
     IN  \E code \in Outcomes(IF "ok" \in guards
                              THEN guards \cup {"unsupported_fp_environment",
                                                 "candidate_failure"}
                              ELSE guards) :
           \/ ReturnFailed(code) /\ ReportFailed(code)
           \/ /\ code = "ok"
              /\ status' = Succeeded(status, Frontier)
              /\ report' = Reported("ok")
              /\ at' = at + 1 /\ phase' = "second"
              /\ UNCHANGED <<compiled, host, returned, values, active, activeFrontier,
                             taken, observations>>

Producer == program[at - 1]

\* The second frontier: the checks of E = C * D, from the shape C would have.
PairSecondOutcomes ==
  LET a      == values[Producer.lhs]
      b      == values[Producer.rhs]
      d      == values[Op.rhs]
      guards == GemmGuards([valid |-> TRUE, rows |-> a.rows, cols |-> b.cols], d,
                           PairLegality("strict_f32"))
      fits   == candidate = "generated_gpu" =>
                  a.rows * b.cols * (a.cols + d.cols) <= Gpu.pair
  IN  IF "ok" \notin guards THEN guards
      ELSE IF ~fits THEN (guards \ {"ok"}) \cup {"candidate_incompatible"}
      ELSE guards \cup {"allocation_failure", "unsupported_fp_environment"}

FusedSecond ==
  /\ phase = "second"
  /\ \E code \in Outcomes(PairSecondOutcomes) :
       \/ ReturnFailed(code) /\ ReportFailed(code)
       \/ /\ code = "ok"
          /\ active' = TRUE /\ activeFrontier' = Frontier
          /\ phase' = "pairleaf"
          /\ report' = Reported("ok")
          /\ UNCHANGED <<compiled, host, returned, at, values, status, taken,
                         observations>>

\* The combined leaf: both products, strict, without an intermediate value.
Combined(a, b, d) == Product(Product(a, b, "strict_f32"), d, "strict_f32")

FusedReturn ==
  /\ phase = "pairleaf"
  /\ \E leaf \in LeafCodes :
       LET code == IssueVerdict(leaf)
       IN  \/ ReturnFailed(code) /\ report' = [report EXCEPT !.code = code]
           \/ /\ code = "ok"
              /\ values' = [values EXCEPT ![at] =
                   Combined(values[Producer.lhs], values[Producer.rhs], values[Op.rhs])]
              /\ status' = Succeeded(status, Frontier)
              /\ active' = FALSE /\ activeFrontier' = 0
              /\ report' = [report EXCEPT !.issued = TRUE]
              /\ Continue
              /\ UNCHANGED <<compiled, host, returned, taken, observations>>

-----------------------------------------------------------------------------
(* publish, observe, complete, and the generated branch                    *)

\* The status after an effect at this frontier.
Retired(counter) ==
  Succeeded([status EXCEPT ![counter] = @ + 1, !.completedEffectFrontier = Frontier],
            Frontier)

PublishCall ==
  /\ AtOp("publish")
  /\ \E code \in Outcomes({PublishFault(values[Op.lhs], Views[Op.res])}) :
       \/ ReturnFailed(code) /\ UNCHANGED report
       \/ /\ code = "ok"
          /\ memory' = Store(memory, Views[Op.res], values[Op.lhs])
          /\ status' = Retired("publications")
          /\ Continue
          /\ UNCHANGED <<compiled, entries, takes, results, returned, values, active,
                         activeFrontier, taken, observations, report>>

ObserveCall ==
  /\ AtOp("observe")
  /\ LET fault == Validate(Views[Op.res], FALSE)
     IN  \E code \in Outcomes(IF fault # "ok" THEN {fault}
                              ELSE {"ok", "allocation_failure"}) :
           \/ ReturnFailed(code) /\ UNCHANGED report
           \/ /\ code = "ok"
              /\ observations' = Append(observations,
                   [frontier |-> Frontier, value |-> Contents(memory, Views[Op.res])])
              /\ status' = Retired("observations")
              /\ Continue
              /\ UNCHANGED <<compiled, host, returned, values, active, activeFrontier,
                             taken, report>>

Branch ==
  /\ AtOp("if")
  /\ at' = Settle(program,
             IF Evaluate(Op.lhs, args, values) = Evaluate(Op.rhs, args, values)
             THEN at + 1 ELSE Op.elseAt + 1)
  /\ UNCHANGED <<compiled, host, returned, phase, values, session>>

CompleteCall ==
  /\ phase = "run" /\ at = Len(program) + 1
  /\ BeginCode(Completion(program)) = "ok"
  /\ status' = Succeeded([status EXCEPT !.completed = TRUE], Completion(program))
  /\ returned' = status'
  /\ phase' = "idle"
  /\ UNCHANGED <<compiled, host, at, values, active, activeFrontier, taken,
                 observations, report>>

-----------------------------------------------------------------------------
Next ==
  \/ Compile \/ Enter \/ TakeResult
  \/ ReadCall \/ ReadForwardedCall
  \/ GemmEnter \/ Reenter \/ GemmReturn
  \/ FusedFirst \/ FusedSecond \/ FusedReturn
  \/ PublishCall \/ ObserveCall \/ Branch \/ CompleteCall

Spec == Init /\ [][Next]_vars

-----------------------------------------------------------------------------
(* Properties                                                              *)

Codes ==
  {"ok", "invalid_frontier", "invalid_value", "invalid_view", "shape_mismatch",
   "extent_overflow", "insufficient_capacity", "access_denied", "allocation_failure",
   "candidate_failure", "unsupported_fp_environment", "reentrant_use",
   "already_complete", "candidate_unavailable", "candidate_incompatible"}

\* Type invariant; control is never at a marker, an active call has a
\* frontier, and only the leaf of a GEMM or of a pair leaves a call active.
TypeOK ==
  LET frontiers == 0 .. Completion(program)
      Statuses  == [code: Codes, failedFrontier: frontiers, completedFrontier: frontiers,
                    completedEffectFrontier: frontiers, publications: frontiers,
                    observations: frontiers, completed: BOOLEAN]
  IN  /\ args \in [ShapeParams -> ShapeArguments]
      /\ optimization \in Optimization /\ candidate \in Candidates
      /\ plan.pairs \subseteq 1 .. Len(program)
      /\ entries \in 0 .. EntryBudget /\ takes \in 0 .. TakeBudget
      /\ phase \in {"source", "refused", "idle", "run", "leaf", "second", "pairleaf"}
      /\ at \in 1 .. Len(program) + 1
      /\ at <= Len(program) => ~Marker(program[at])
      /\ status \in Statuses /\ returned \in Statuses
      /\ active = (phase \in {"leaf", "pairleaf"}) /\ taken \in BOOLEAN
      /\ activeFrontier = (IF active THEN Frontier ELSE 0)
      /\ report.frontier \in frontiers /\ report.code \in Codes

\* Whatever plan was derived, the calls of the session are a run of the region
\* as written: the same values, writes, observations, branches, and the same
\* failure at the same frontier (closed_host_v1.cpp against
\* MatcoreClosedRegion.h:92-101).  The value a fused pair never materialises is
\* the product its source operation would have defined.
Deferred(i) == i \in plan.pairs /\ (at = i + 1 \/ values[i + 1].valid)

Source == INSTANCE RegionSemantics WITH
  code      <- status.code,
  failedAt  <- status.failedFrontier,
  env       <- [i \in 1 .. Len(program) |->
                  IF Deferred(i)
                  THEN Product(values[program[i].lhs], values[program[i].rhs], "strict_f32")
                  ELSE values[i]],
  observed  <- IF taken THEN results[1].observations ELSE observations,
  published <- status.publications,
  completed <- status.completed

ImplementsSource == Source!Starts(program, args) /\ Source!Steps

\* When a forwarded read is about to succeed, the retained value is what the
\* host's memory holds now, although every view may alias every other
\* (ClosedHostDerivedPlan.cpp:58-61).
ForwardedReadIsCurrent ==
  (AtOp("read") /\ plan.forwarded[at] # 0 /\ ForwardFault = "ok")
    => values[plan.forwarded[at]] = Contents(memory, Views[Op.res])

\* No call of the generated function is given a value that was not issued,
\* neither as an operand nor as a shape: an invalid Value answers zero rows
\* and columns without an error (closed_host_v1.cpp:419-422).
OperandsIssued ==
  (phase = "run" /\ at <= Len(program))
    => \A v \in Operands(Op) \cup DimensionValues(Op) : values[v].valid

\* A failed session issues nothing at or after its failed frontier, also when
\* a leaf reports success after a callback has failed the session
\* (closed_host_v1.cpp:711-713).
NothingIssuedAfterFailure ==
  status.failedFrontier # 0 =>
    /\ \A i \in 1 .. Len(program) :
         values[i].valid => FrontierOf(program, i) < status.failedFrontier
    /\ report.issued => report.frontier < status.failedFrontier

\* The ledger of a failed session: its last effect, then its last completed
\* frontier, then the failure, strictly after it (region_storage.h:20-29).
LedgerOrdered ==
  /\ status.completedEffectFrontier <= status.completedFrontier
  /\ status.failedFrontier # 0 => status.completedFrontier < status.failedFrontier
  /\ status.completed => status.completedFrontier = Completion(program)

\* Every observation is handed to the host at most once, and none is lost: the
\* results taken so far and the session together hold exactly the counted ones
\* (closed_host_v1.cpp:948-966).
ObservationsDeliveredOnce ==
  LET delivered[i \in 0 .. Len(results)] ==
        IF i = 0 THEN 0 ELSE delivered[i - 1] + Len(results[i].observations)
  IN  delivered[Len(results)] + Len(observations) = status.observations

\* What the session keeps of a run is in order: forwarded values are current,
\* operands were issued, nothing follows a failure, the ledger is ordered and no
\* observation is lost or handed out twice.
SessionIsSound ==
  /\ TypeOK /\ ForwardedReadIsCurrent /\ OperandsIssued /\ NothingIssuedAfterFailure
  /\ LedgerOrdered /\ ObservationsDeliveredOnce

\* The first verdict stands: a session that has failed or completed is never
\* changed by a later entry or by taking its result (closed_host_v1.cpp:433,
\* ClosedHostEmitter.cpp:179-192).
VerdictIsFinal ==
  [][(status.code # "ok" \/ status.completed) => UNCHANGED status]_vars
=============================================================================
