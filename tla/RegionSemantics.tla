--------------------------- MODULE RegionSemantics ---------------------------
(***************************************************************************)
(* The meaning of a closed region: what the source promises, whatever plan *)
(* the compiler derives.                                                   *)
(*                                                                         *)
(* Operations happen one by one in source order on the executed path.  A   *)
(* read is the immutable contents of its resource at that point.  An       *)
(* operation whose check fails ends the region at its own frontier; so     *)
(* may a lack of memory, or of an implementation of a GEMM.  Everything    *)
(* published or observed before stays.  All resources may alias.           *)
(***************************************************************************)
EXTENDS RegionProgram

VARIABLES
  program, args,   \* the region and its shape arguments
  memory,          \* the host's floats
  env,             \* the values defined so far
  at,              \* the next operation of the executed path
  code, failedAt,  \* "ok", or the failure and its frontier
  observed,        \* the observations, oldest first
  published,       \* how many publications have happened
  completed

vars == <<program, args, memory, env, at, code, failedAt, observed, published,
          completed>>

InitialMemory == [c \in Cells |-> <<"cell", c>>]

\* The states in which a region p is about to run with shape arguments a.
Starts(p, a) ==
  /\ program = p /\ args = a
  /\ memory = InitialMemory
  /\ env = [i \in 1 .. Len(p) |-> NoValue]
  /\ at = Settle(p, 1)
  /\ code = "ok" /\ failedAt = 0
  /\ observed = <<>> /\ published = 0 /\ completed = FALSE

Op      == program[at]
Running == code = "ok" /\ ~completed
AtKind(kind) == Running /\ at <= Len(program) /\ Op.kind = kind
Advance == at' = Settle(program, at + 1)

\* A failure ends the region at the frontier of the operation.
FailWith(c) ==
  /\ code' = c /\ failedAt' = FrontierOf(program, at)
  /\ UNCHANGED <<program, args, memory, env, at, observed, published, completed>>

\* Failures that are the realization's, not the source's: allocation for any
\* snapshot, and everything around the implementation of a GEMM.
AllocationFault == {"allocation_failure"}
RealizationFault ==
  {"allocation_failure", "candidate_failure", "candidate_unavailable",
   "candidate_incompatible", "unsupported_fp_environment", "reentrant_use"}

Fault ==
  CASE Op.kind = "read" ->
         ReadFault(Views[Op.res], Evaluate(Op.rows, args, env), Evaluate(Op.cols, args, env))
    [] Op.kind = "gemm" ->
         IF env[Op.lhs].cols # env[Op.rhs].rows THEN "shape_mismatch"
         ELSE Extent(env[Op.lhs].rows, env[Op.rhs].cols)
    [] Op.kind = "publish" -> PublishFault(env[Op.lhs], Views[Op.res])
    [] Op.kind = "observe" -> Validate(Views[Op.res], FALSE)

DoRead ==
  /\ AtKind("read") /\ Fault = "ok"
  /\ env' = [env EXCEPT ![at] = Contents(memory, Views[Op.res])]
  /\ Advance
  /\ UNCHANGED <<program, args, memory, code, failedAt, observed, published, completed>>

DoGemm ==
  /\ AtKind("gemm") /\ Fault = "ok"
  /\ env' = [env EXCEPT ![at] = Product(env[Op.lhs], env[Op.rhs], Op.profile)]
  /\ Advance
  /\ UNCHANGED <<program, args, memory, code, failedAt, observed, published, completed>>

DoPublish ==
  /\ AtKind("publish") /\ Fault = "ok"
  /\ memory' = Store(memory, Views[Op.res], env[Op.lhs])
  /\ published' = published + 1
  /\ Advance
  /\ UNCHANGED <<program, args, env, code, failedAt, observed, completed>>

DoObserve ==
  /\ AtKind("observe") /\ Fault = "ok"
  /\ observed' = Append(observed, [frontier |-> FrontierOf(program, at),
                                   value |-> Contents(memory, Views[Op.res])])
  /\ Advance
  /\ UNCHANGED <<program, args, memory, env, code, failedAt, published, completed>>

DoShapeIf ==
  /\ AtKind("if")
  /\ at' = Settle(program,
             IF Evaluate(Op.lhs, args, env) = Evaluate(Op.rhs, args, env)
             THEN at + 1 ELSE Op.elseAt + 1)
  /\ UNCHANGED <<program, args, memory, env, code, failedAt, observed, published,
                 completed>>

\* A failed check must be reported as that check.
DoFail ==
  /\ Running /\ at <= Len(program) /\ Op.kind # "if"
  /\ \/ Fault # "ok" /\ FailWith(Fault)
     \/ Op.kind \in {"read", "observe"} /\ Fault = "ok"
          /\ \E c \in AllocationFault : FailWith(c)
     \/ Op.kind = "gemm" /\ Fault # "shape_mismatch"
          /\ \E c \in RealizationFault : FailWith(c)

DoComplete ==
  /\ Running /\ at = Len(program) + 1
  /\ completed' = TRUE
  /\ UNCHANGED <<program, args, memory, env, at, code, failedAt, observed, published>>

\* The host retires an invocation that never ran.
DoAbandon ==
  /\ Running /\ at = Settle(program, 1) /\ memory = InitialMemory
  /\ code' = "invalid_frontier" /\ failedAt' = 0
  /\ UNCHANGED <<program, args, memory, env, at, observed, published, completed>>

Next == DoRead \/ DoGemm \/ DoPublish \/ DoObserve \/ DoShapeIf \/ DoFail
          \/ DoComplete \/ DoAbandon

Steps == [][Next]_vars
=============================================================================
