---------------------------- MODULE KernelLaunch ----------------------------
(***************************************************************************)
(* mc.launch of an @mc.kernel function: the body is recorded as operations, *)
(* Python resolves and validates the tensors by name, the engine lowers the *)
(* kernel by position and the executor calls it.  A tensor's content is a   *)
(* term in prefix notation; what the body says is compared with memory.     *)
(***************************************************************************)
EXTENDS Integers, Sequences, SequencesExt, FiniteSets

CONSTANTS
  Params,     \* names of the kernel's parameters
  Matmuls,    \* whether a body may multiply
  Unary, Binary, \* elementwise kinds
  Others,     \* other operations a body may assign: "transpose", "cast"
  MaxOps,     \* statements of a body
  Calls       \* launches: [arrays, where, target, validate]

VARIABLES
  ops,      \* recorded operations [op, kind, out, args]
  call,     \* the launch
  phase,    \* "body", "python", "native", "run", "done"
  memory,   \* contents of the arguments
  lowered,  \* [kind, count, zeroing]: the entry point writes its last tensor
  verdict   \* "", "ok" or the layer that refused

vars == <<ops, call, phase, memory, lowered, verdict>>

Name(n) == <<"x", n>>                 \* the n-th local of the body
ParamSet == {<<"p", i>> : i \in DOMAIN Params}
Locals == {Name(i) : i \in {j \in DOMAIN ops : ops[j].out # <<>>}}
Operands == ParamSet \cup Locals
Content(i) == IF i <= Len(Params) THEN <<Params[i]>> ELSE <<"extra">>

------------------------------------------------------------------------------
(* MatCoreASTVisitor: one recorded operation per statement.  An operand is   *)
(* kept as its source text: the name of a parameter or of a local.           *)

CallOp(op, kind, args, out) == [op |-> op, kind |-> kind, args |-> args, out |-> out]

\* An assignment records its call; a call that is no marker is an "assign".
Assign ==
  LET out == Name(Len(ops) + 1) IN
  \/ \E p \in ParamSet : ops' = Append(ops, CallOp("load", "", <<p>>, out))
  \/ \E a, b \in Operands : Matmuls /\ ops' = Append(ops, CallOp("matmul", "", <<a, b>>, out))
  \/ \E k \in Unary, a \in Operands : ops' = Append(ops, CallOp("elementwise", k, <<a>>, out))
  \/ \E k \in Binary, a, b \in Operands : ops' = Append(ops, CallOp("elementwise", k, <<a, b>>, out))
  \/ \E o \in Others, a \in Operands : ops' = Append(ops, CallOp(o, o, <<a>>, out))

\* A bare call must be a store.
Store == \E p \in ParamSet, a \in Operands : ops' = Append(ops, CallOp("store", "", <<p, a>>, <<>>))

Body ==
  /\ phase = "body" /\ Len(ops) < MaxOps
  /\ Assign \/ Store
  /\ UNCHANGED <<call, phase, memory, lowered, verdict>>

------------------------------------------------------------------------------
(* Python's side of a launch. *)

Ops(op) == SelectSeq(ops, LAMBDA o : o.op = op)
HasMatmul == Ops("matmul") # <<>>
Arrays == call.arrays
Refuse(layer) == verdict' = layer /\ phase' = "done" /\ UNCHANGED lowered

\* The array a name stands for: 0 when none.
ArrayOf(name) == IF name[1] = "p" /\ name[2] <= Len(Arrays) THEN name[2] ELSE 0

\* The first matmul, its operands traced through loads to their tensors.
LoadSource(name) ==
  IF \E i \in DOMAIN ops : ops[i].op = "load" /\ ops[i].out = name
  THEN ops[CHOOSE i \in DOMAIN ops : ops[i].op = "load" /\ ops[i].out = name].args[1]
  ELSE name

\* Unresolved tensors are the first three arrays.
MatmulTensors ==
  LET m == Ops("matmul")[1]
      stores == SelectSeq(Ops("store"), LAMBDA s : s.args[2] = m.out)
      Or(i, default) == IF i # 0 THEN i ELSE IF default <= Len(Arrays) THEN default ELSE 0
  IN  << Or(ArrayOf(LoadSource(m.args[1])), 1), Or(ArrayOf(LoadSource(m.args[2])), 2),
         Or(IF stores = <<>> THEN 0 ELSE ArrayOf(stores[1].args[1]), 3) >>

Nvidia(target) == target \in {"nvidia", "nvidia90"}

MatmulDTypes(l, r, o, target) ==
  /\ l = r
  /\ CASE l = "float8" -> o = "float32" /\ Nvidia(target)
       [] l = "float32" -> o = "float32"
       [] l \in {"float16", "bfloat16"} -> o \in {l, "float32"}
       [] l = "int8" -> o = "int32"
       [] OTHER -> FALSE

ValidTensors ==
  HasMatmul =>
    LET t == MatmulTensors IN
    /\ \A i \in 1..3 : t[i] # 0
    /\ LET a == Arrays[t[1]]  b == Arrays[t[2]]  c == Arrays[t[3]] IN
       /\ \A x \in {a, b, c} : Len(x.shape) = 2
       /\ a.shape[2] = b.shape[1]
       /\ c.shape = <<a.shape[1], b.shape[2]>>
       /\ MatmulDTypes(a.dtype, b.dtype, c.dtype, call.target)

\* The last of more than two device tensors is cleared before anything is
\* validated.
Cleared ==
  IF call.where = "device" /\ Len(Arrays) > 2
  THEN [memory EXCEPT ![Len(Arrays)] = <<"0">>] ELSE memory

LaunchPython ==
  /\ phase = "body" /\ ops # <<>>
  /\ \E c \in Calls :
       /\ call' = c /\ phase' = "python"
       /\ memory' = [i \in DOMAIN c.arrays |-> Content(i)]
  /\ UNCHANGED <<ops, lowered, verdict>>

\* _validate_tensor_residency, _require_device_tensor_target, zero_, validation.
Python ==
  /\ phase = "python"
  /\ IF call.where = "mixed" \/ (call.where = "device" /\ ~Nvidia(call.target))
     THEN Refuse("python") /\ UNCHANGED memory
     ELSE /\ memory' = Cleared
          /\ IF call.validate /\ ~ValidTensors THEN Refuse("python")
             ELSE phase' = "native" /\ UNCHANGED <<lowered, verdict>>
  /\ UNCHANGED <<ops, call>>

------------------------------------------------------------------------------
(* The native side: bindings, engine. *)

\* parseTensorArgument: a host tensor must be contiguous.
ParsedTensor(x) == call.where = "device" \/ x.contiguous

RuntimeTensor(x) == Len(x.shape) = 2

Fp8Shape(m, n, k) == m > 0 /\ m % 64 = 0 /\ k > 0 /\ k % 32 = 0 /\ n \in 8..256 /\ n % 8 = 0

\* Only what the entry point can use as FP8; everything else is as in Python.
Signature(a, b, c, target) ==
  /\ MatmulDTypes(a.dtype, b.dtype, c.dtype, target)
  /\ a.dtype = "float8" => target = "nvidia90" /\ Fp8Shape(a.shape[1], b.shape[2], a.shape[2])

ElementwiseKernel == ~HasMatmul /\ Ops("elementwise") # <<>>
FirstElementwise == Ops("elementwise")[1]
Expected == IF FirstElementwise.kind \in Unary THEN 2 ELSE 3

ValidElementwise ==
  /\ Len(Arrays) >= Expected
  /\ \A i \in 1..Expected : RuntimeTensor(Arrays[i]) /\ Arrays[i].shape = Arrays[1].shape

\* A softmax reduces rows of at least one floating-point element.
ValidSoftmax == Arrays[1].shape[2] >= 1 /\ Arrays[1].dtype \notin {"int8", "int32"}

ValidKernel ==
  /\ Ops("transpose") = <<>> /\ Ops("cast") = <<>>
  /\ Len(Params) >= 3 /\ Len(Arrays) >= 3
  /\ \A i \in DOMAIN Arrays : RuntimeTensor(Arrays[i])
  /\ Arrays[1].shape[2] = Arrays[2].shape[1]
  /\ Arrays[3].shape = <<Arrays[1].shape[1], Arrays[2].shape[2]>>
  /\ Signature(Arrays[1], Arrays[2], Arrays[3], call.target)
  /\ Ops("load") # <<>> /\ HasMatmul /\ Ops("store") # <<>>

PositiveDims == \A d \in {Arrays[1].shape[1], Arrays[1].shape[2], Arrays[2].shape[2]} : d > 0

\* buildElementwiseModule or buildSoftmaxModule: the first elementwise
\* operation, from the first tensors to the next one.
ElementwiseModule == [kind |-> FirstElementwise.kind, count |-> Expected, zeroing |-> FALSE]

\* buildMatmulModule: tensor 3 += tensor 1 * tensor 2.
MatmulModule == [kind |-> "mm", count |-> 3, zeroing |-> TRUE]

Supported ==
  IF ElementwiseKernel
  THEN ValidElementwise /\ (FirstElementwise.kind = "softmax" => ValidSoftmax)
  ELSE ValidKernel /\ PositiveDims

\* BuildAndLower; the MLIR pipeline itself may fail.
Native ==
  /\ phase = "native"
  /\ \/ /\ ~(\A i \in DOMAIN Arrays : ParsedTensor(Arrays[i])) \/ ~Supported
        /\ Refuse("native")
     \/ /\ \A i \in DOMAIN Arrays : ParsedTensor(Arrays[i])
        /\ Supported
        /\ \/ Refuse("pipeline")
           \/ /\ lowered' = IF ElementwiseKernel THEN ElementwiseModule ELSE MatmulModule
              /\ phase' = "run" /\ UNCHANGED verdict
  /\ UNCHANGED <<ops, call, memory>>

------------------------------------------------------------------------------
(* The executor. *)

\* Fault: the output keeps what it held.
ZeroOutputs_Never == memory

\* zeroOutputTensors, unless the module says it overwrites its output.
ZeroOutputs == IF lowered.zeroing THEN [memory EXCEPT ![lowered.count] = <<"0">>] ELSE memory

\* What the compiled function leaves in its output.
Kernel(mem) ==
  LET out == mem[lowered.count] IN
  IF lowered.kind = "mm"
  THEN (IF out = <<"0">> THEN <<>> ELSE <<"+">> \o out) \o <<"mm">> \o mem[1] \o mem[2]
  ELSE <<lowered.kind>> \o mem[1] \o (IF lowered.count = 3 THEN mem[2] ELSE <<>>)

\* invokeCompiledKernel; the invocation may fail after the output was cleared.
Execute ==
  /\ phase = "run"
  /\ \/ /\ memory' = [ZeroOutputs EXCEPT ![lowered.count] = Kernel(ZeroOutputs)]
        /\ verdict' = "ok"
     \/ memory' = ZeroOutputs /\ verdict' = "invoke"
  /\ phase' = "done"
  /\ UNCHANGED <<ops, call, lowered>>

------------------------------------------------------------------------------
Init ==
  /\ ops = <<>> /\ call = [arrays |-> <<>>, where |-> "host", target |-> "x86", validate |-> TRUE]
  /\ phase = "body" /\ memory = <<>> /\ verdict = ""
  /\ lowered = [kind |-> "", count |-> 0, zeroing |-> FALSE]

Next == Body \/ LaunchPython \/ Python \/ Native \/ Execute
Spec == Init /\ [][Next]_vars

TypeOK ==
  /\ Len(ops) <= MaxOps
  /\ phase \in {"body", "python", "native", "run", "done"}
  /\ Len(memory) = Len(Arrays)
  /\ lowered.count \in {0, 2, 3}
  /\ verdict \in {"", "ok", "python", "native", "pipeline", "invoke"}

------------------------------------------------------------------------------
(* What the body says: statements in order, a parameter is its array. *)

Value(s, name) ==
  CASE name[1] = "x" -> s.env[name[2]]
    [] name[2] \in DOMAIN s.mem -> s.mem[name[2]]
    [] OTHER -> <<"undefined">>

Statement(s, o) ==
  IF o.op = "store"
  THEN [env |-> Append(s.env, <<>>), mem |-> [s.mem EXCEPT ![o.args[1][2]] = Value(s, o.args[2])]]
  ELSE LET args == FlattenSeq([i \in DOMAIN o.args |-> Value(s, o.args[i])])
           head == CASE o.op = "load" -> <<>> [] o.op = "matmul" -> <<"mm">> [] OTHER -> <<o.kind>>
       IN  [s EXCEPT !.env = Append(@, head \o args)]

Given == [i \in DOMAIN Arrays |-> Content(i)]
Meaning == FoldLeft(Statement, [env |-> <<>>, mem |-> Given], ops).mem

\* A body of one computation, its result stored once.
ComputeOps == SelectSeq(ops, LAMBDA o : o.op \notin {"load", "store"})
OneComputation == Len(ComputeOps) = 1 /\ Len(Ops("store")) = 1

\* It names the leading parameters in their order, and stores its result in
\* the parameter after them.
Positional ==
  LET c == ComputeOps[1]  s == Ops("store")[1]  n == Len(c.args) IN
  /\ \A i \in 1..n : LoadSource(c.args[i]) = <<"p", i>>
  /\ s.args = <<<<"p", n + 1>>, c.out>>
Straight == OneComputation /\ Positional

\* A device tensor after the ones the kernel uses is cleared and never written.
ExtraCleared == call.where = "device" /\ Len(Arrays) > 2 /\ Len(Arrays) > lowered.count

\* An accepted launch computes by position, whatever the body names: the
\* kernel's first computation on the leading arguments, once, from a cleared
\* output, in the argument after them, and no other argument is touched.
AcceptedKernelComputesByPosition ==
  verdict = "ok" =>
    LET n == lowered.count
        kind == IF HasMatmul THEN "mm" ELSE FirstElementwise.kind
        result == <<kind>> \o FlattenSeq([i \in 1..n - 1 |-> Given[i]])
    IN  /\ memory[n] = result
        /\ \A i \in DOMAIN Arrays \ {n} :
             memory[i] = IF ExtraCleared /\ i = Len(Arrays) THEN <<"0">> ELSE Given[i]

\* So it leaves what a body of one computation says exactly when that body
\* names its parameters in their positions and no extra device tensor came
\* along: matmul(b, a) is computed as matmul(a, b).
AcceptedKernelComputesBodyIffPositional ==
  verdict = "ok" /\ OneComputation => (memory = Meaning <=> Positional /\ ~ExtraCleared)

\* Validation may be switched off: the engine refuses whatever Python's
\* validation of a straight matmul would have refused.
NothingInvalidRuns == verdict = "ok" /\ Straight => ValidTensors

\* A straight matmul Python validated is refused natively only for what Python
\* does not look at: layout, an empty dimension, the FP8 instruction's shapes,
\* a body without a load.
ValidatedIsLowered ==
  verdict = "native" /\ Straight /\ HasMatmul /\ call.validate =>
    \/ \E i \in DOMAIN Arrays : ~ParsedTensor(Arrays[i])
    \/ ~PositiveDims \/ Ops("load") = <<>> \/ Arrays[1].dtype = "float8"

\* A host launch refused before it runs has written nothing.
RefusedHostLaunchKeepsMemory ==
  verdict \in {"python", "native", "pipeline"} /\ call.where = "host" => memory = Given
==============================================================================
