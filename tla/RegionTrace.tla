----------------------------- MODULE RegionTrace -----------------------------
(***************************************************************************)
(* A function under @mc.jit, or one direct mc.block_attn_res: its tensor    *)
(* arguments become values of a region, the calls it makes are recorded as  *)
(* nodes, and what it returns decides outputs and order.  The region then   *)
(* passes Python's checks, the native verifier, the emitter and the packed  *)
(* invocation.  Ids count from 1; producer 0 means none.                    *)
(***************************************************************************)
EXTENDS Integers, FiniteSets, Sequences, SequencesExt

CONSTANTS
  Tensors,      \* what may be passed: [shape, f32, device, contiguous]
  Attributes,   \* of a call: [count, hasPartial, eps]
  Outs,         \* what `out` may be: subset of {"none", "match", "mismatch", "device"}
  BlockLimit,   \* most blocks of a call, 32 in the code
  PackedLimit,  \* most tensors of a packed invocation, 16 in the code
  MaxArgs, MaxNodes   \* bounds on the function traced

VARIABLES
  phase,        \* what comes next
  refusedBy,    \* which check raised, "" while none did
  args,         \* the runtime tensors, in the order of the parameters
  values, nodes,
  region,       \* what finish returned: [inputs, outputs, topo]
  launched      \* the arguments and attributes the kernel was compiled for

vars == <<phase, refusedBy, args, values, nodes, region, launched>>

Refuse(who) ==
  /\ phase' = "done" /\ refusedBy' = who
  /\ UNCHANGED <<args, values, nodes, region, launched>>

------------------------------------------------------------------------------
\* RegionTraceBuilder.add_input, for each argument that is a tensor.
AddInput(t) ==
  /\ phase = "bind" /\ Len(args) < MaxArgs
  /\ args' = Append(args, t)
  /\ values' = Append(values, [shape |-> t.shape, f32 |-> t.f32, kind |-> "input", producer |-> 0])
  /\ UNCHANGED <<phase, refusedBy, nodes, region, launched>>

Trace ==
  /\ phase = "bind"
  /\ phase' = "trace" /\ UNCHANGED <<refusedBy, args, values, nodes, region, launched>>

\* _validate_block_attn_res_signature; a NaN is not <= 0.
SignatureOK(b, p, q, a) ==
  LET blocks == values[b].shape
      partial == values[p].shape
      query == values[q].shape
  IN  /\ Len(blocks) = 4 /\ Len(partial) = 3 /\ Len(query) = 1
      /\ partial = Tail(blocks) /\ query[1] = blocks[4]
      /\ blocks[1] \in 1..BlockLimit /\ a.count \in 0..blocks[1]
      /\ a.eps # "zero"
      /\ values[b].f32 /\ values[p].f32 /\ values[q].f32

\* block_attn_res on traced tensors: operand 0 is a real tensor, which may not
\* be mixed in.
Call(b, p, q, a) ==
  /\ phase = "trace" /\ Len(nodes) < MaxNodes
  /\ ~(b = 0 /\ p = 0 /\ q = 0)
  /\ IF 0 \in {b, p, q} \/ ~SignatureOK(b, p, q, a) THEN Refuse("trace")
     ELSE LET n == Len(nodes) + 1 IN
          /\ values' = Append(values, [shape |-> values[p].shape, f32 |-> TRUE,
                                       kind |-> "intermediate", producer |-> n])
          /\ nodes' = Append(nodes, [inputs |-> <<b, p, q>>, output |-> Len(values) + 1, attrs |-> a])
          /\ UNCHANGED <<phase, refusedBy, args, region, launched>>

\* visit: producers first.  A result has rank 3, so only the second operand of
\* a call can have a producer, and the search is along one chain.
TopoOrder(out) ==
  LET Visit[n \in 0..Len(nodes)] ==
        IF n = 0 THEN <<>> ELSE Visit[values[nodes[n].inputs[2]].producer] \o <<n>>
  IN  Visit[values[out].producer]

\* finish: the inputs are listed before an output changes its kind; 0 is a
\* returned value that is no RegionTensor.
Finish(outputs) ==
  /\ phase = "trace"
  /\ IF 0 \in Range(outputs) THEN Refuse("finish")
     ELSE /\ region' = [inputs |-> SelectSeq([i \in 1..Len(values) |-> i],
                                             LAMBDA v : values[v].kind = "input"),
                        outputs |-> outputs,
                        topo |-> IF Len(outputs) = 1 THEN TopoOrder(outputs[1]) ELSE <<>>]
          /\ values' = [v \in DOMAIN values |->
                          IF v \in Range(outputs) THEN [values[v] EXCEPT !.kind = "output"] ELSE values[v]]
          /\ phase' = "execute" /\ UNCHANGED <<refusedBy, args, nodes, launched>>

------------------------------------------------------------------------------
\* _execute_region, _allocate_output_for_shape: device arguments get a fresh
\* output whatever `out` is.
OnDevice == \E i \in DOMAIN args : args[i].device
OnHost == \E i \in DOMAIN args : ~args[i].device

\* buildInvocation: every tensor contiguous, all on one side.
ParsedOK(out) ==
  /\ \A i \in DOMAIN args : args[i].device \/ args[i].contiguous
  /\ OnHost => out # "device"

Execute(nvidia, out) ==
  /\ phase = "execute"
  /\ IF Len(region.outputs) # 1 \/ (OnDevice /\ OnHost) \/ ~nvidia
        \/ (~OnDevice /\ out = "mismatch")
     THEN Refuse("execute")
     ELSE IF ~ParsedOK(out) THEN Refuse("bindings")
     ELSE phase' = "verify" /\ UNCHANGED <<refusedBy, args, values, nodes, region, launched>>

------------------------------------------------------------------------------
Out == region.outputs[1]

verifyInputsAndOutputs ==
  /\ region.inputs # <<>>
  /\ \A v \in Range(region.inputs) : values[v].kind = "input"
  /\ values[Out].kind = "output" /\ values[Out].producer # 0

verifyNodeReferences ==
  /\ \A n, m \in DOMAIN nodes : n # m => nodes[n].output # nodes[m].output
  /\ \A n \in DOMAIN nodes : values[nodes[n].output].producer = n

verifyTopoOrder ==
  /\ Len(region.topo) = Len(nodes)
  /\ \A i \in DOMAIN region.topo :
       /\ region.topo[i] \in DOMAIN nodes
       /\ \A j \in 1..i-1 : region.topo[j] # region.topo[i]
       /\ \A v \in Range(nodes[region.topo[i]].inputs) :
            values[v].producer # 0 => \E j \in 1..i-1 : region.topo[j] = values[v].producer
verifyPositiveStaticShape(v) == \A i \in DOMAIN values[v].shape : values[v].shape[i] > 0

\* parseRegionIR narrows eps from double to float.
FloatEps(eps) == CASE eps = "tiny" -> "zero" [] eps = "huge" -> "infinite" [] OTHER -> eps

verifyBlockAttnRes(n) ==
  LET node == nodes[n]
      blocks == values[node.inputs[1]].shape
  IN  /\ \A v \in Range(node.inputs) \cup {node.output} : values[v].f32 /\ verifyPositiveStaticShape(v)
      /\ Len(blocks) = 4 /\ blocks[1] <= BlockLimit
      /\ values[node.inputs[2]].shape = Tail(blocks) /\ values[node.output].shape = Tail(blocks)
      /\ values[node.inputs[3]].shape = <<blocks[4]>>
      /\ node.attrs.count \in 0..blocks[1] /\ FloatEps(node.attrs.eps) = "positive"

\* The output tensor was allocated for, or compared with, its descriptor.
verifyRuntimeTensors ==
  /\ Len(args) = Len(region.inputs)
  /\ \A i \in DOMAIN args : args[i].shape = values[region.inputs[i]].shape
                            /\ args[i].f32 = values[region.inputs[i]].f32

ValidateRegionIR ==
  /\ phase = "verify"
  /\ IF /\ values # <<>> /\ nodes # <<>>
        /\ verifyInputsAndOutputs /\ verifyNodeReferences /\ verifyTopoOrder
        /\ \A n \in DOMAIN nodes : verifyBlockAttnRes(n)
        /\ verifyRuntimeTensors
     THEN phase' = "emit" /\ UNCHANGED <<refusedBy, args, values, nodes, region, launched>>
     ELSE Refuse("verifier")

\* Fault: the arguments are taken by position.
ArgIndex_Position(node, operand) == operand

\* find_input_arg_index, 0 when the value is no input.
ArgIndex(node, operand) ==
  LET at == {i \in DOMAIN region.inputs : region.inputs[i] = node.inputs[operand]}
  IN  IF at = {} THEN 0 ELSE CHOOSE i \in at : \A j \in at : i <= j

orderedRegionNodes ==
  LET order == IF region.topo # <<>> THEN region.topo ELSE [n \in DOMAIN nodes |-> n]
  IN  [i \in DOMAIN order |-> nodes[order[i]]]

\* emitBlockAttnRes checks the node once more before it emits.
Emittable(node) ==
  LET blocks == values[node.inputs[1]].shape IN
  /\ Len(args) = Len(region.inputs)
  /\ \A v \in Range(node.inputs) \cup {node.output} : values[v].f32
  /\ blocks[1] \in 1..BlockLimit /\ node.attrs.count \in 0..blocks[1]
  /\ values[node.inputs[2]].shape = Tail(blocks) /\ values[node.inputs[3]].shape = <<blocks[4]>>
  /\ FloatEps(node.attrs.eps) # "zero"
  /\ \A k \in 1..3 : ArgIndex(node, k) # 0

\* RegionMlirEmitter::Emit and the lowering of its module.
Emit ==
  /\ phase = "emit"
  /\ IF Len(orderedRegionNodes) # 1 \/ ~Emittable(orderedRegionNodes[1]) THEN Refuse("emitter")
     ELSE LET node == orderedRegionNodes[1] IN
          /\ launched' = [arguments |-> [k \in 1..3 |-> ArgIndex(node, k)], attrs |-> node.attrs]
          /\ phase' = "invoke" /\ UNCHANGED <<refusedBy, args, values, nodes, region>>

\* invokeNTensorPacked: descriptors exist for ranks 1 to 4, and the calls of a
\* shared library for so many tensors.
Invoke(sharedLibrary) ==
  /\ phase = "invoke"
  /\ IF \/ \E i \in DOMAIN args : Len(args[i].shape) \notin 1..4
        \/ sharedLibrary /\ Len(args) + 1 > PackedLimit
     THEN Refuse("invoke")
     ELSE phase' = "done" /\ UNCHANGED <<refusedBy, args, values, nodes, region, launched>>

Init ==
  /\ phase = "bind" /\ refusedBy = ""
  /\ args = <<>> /\ values = <<>> /\ nodes = <<>>
  /\ region = [inputs |-> <<>>, outputs |-> <<>>, topo |-> <<>>]
  /\ launched = [arguments |-> <<>>, attrs |-> <<>>]

Operand == 0..Len(values)
Returned == {<<v>> : v \in Operand} \cup {<<v, v>> : v \in Operand}

Next ==
  \/ \E t \in Tensors : AddInput(t)
  \/ Trace
  \/ \E b, p, q \in Operand, a \in Attributes : Call(b, p, q, a)
  \/ \E outputs \in Returned : Finish(outputs)
  \/ \E nvidia \in BOOLEAN, out \in Outs : Execute(nvidia, out)
  \/ ValidateRegionIR \/ Emit
  \/ \E sharedLibrary \in BOOLEAN : Invoke(sharedLibrary)

Spec == Init /\ [][Next]_vars

------------------------------------------------------------------------------
\* Every call but the one returned feeds another.
Live ==
  \A n \in DOMAIN nodes :
    nodes[n].output = Out \/ \E m \in DOMAIN nodes : nodes[n].output \in Range(nodes[m].inputs)

Computes ==
  /\ values[Out].producer # 0
  /\ \A n \in DOMAIN nodes : nodes[n].attrs.eps = "positive"
  /\ \A v \in DOMAIN values : verifyPositiveStaticShape(v)

\* The verifier refuses no function that Python let pass unless it really has a
\* call nobody uses, returns an argument, or has an empty tensor or an epsilon
\* that is no positive float: the order finish computes always satisfies it.
LiveRegionIsVerified == refusedBy = "verifier" => ~(Live /\ Computes)

\* A kernel that runs reads the tensors the returned call was traced with,
\* wherever they stand among the parameters, under that call's attributes.
RunsTheReturnedCall ==
  phase = "done" /\ refusedBy = "" =>
    LET n == values[Out].producer IN
    launched = [arguments |-> nodes[n].inputs, attrs |-> nodes[n].attrs]

\* What the kernel relies on for its loads and stores: sizes that agree and
\* are positive, no more blocks than there are, dense storage on one side.
RunsWithinItsTensors ==
  phase = "done" /\ refusedBy = "" =>
    LET blocks == args[launched.arguments[1]].shape IN
    /\ \A i \in 1..4 : blocks[i] > 0
    /\ args[launched.arguments[2]].shape = Tail(blocks)
    /\ args[launched.arguments[3]].shape = <<blocks[4]>>
    /\ launched.attrs.count <= blocks[1]
    /\ \A k \in 1..3 : LET t == args[launched.arguments[k]]
                       IN  t.f32 /\ (t.device \/ t.contiguous) /\ t.device = args[1].device
==============================================================================
