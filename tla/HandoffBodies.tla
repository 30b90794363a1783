---------------------------- MODULE HandoffBodies ----------------------------
(***************************************************************************)
(* The canonical loop nests of the standard linear-algebra operations, and *)
(* the bodies of the structured (tensors), the bufferized (memory) and the *)
(* vectorized function of one GEMM: what their verifiers demand of them,   *)
(* and what they compute.  Arguments are A, B and C; an operation's result *)
(* is named after its place.                                               *)
(***************************************************************************)
EXTENDS Integers, Sequences, FiniteSets, SequencesExt, FiniteSetsExt, TLC

CONSTANT MaxChanges \* operands and attributes changed after a body was built

VARIABLES
  form,    \* what was built: a topology, or one of three bodies
  body,    \* the encoded topology, or the operations of the body
  changes

vars == <<form, body, changes>>

------------------------------------------------------------------------------
(* Topologies: loops, which of them reduce, and the map from loops to the     *)
(* indices of each operand.  Maps name loops by position.                     *)

Operation == {"gemm", "gemv", "dot", "ger", "batched_gemm"}
Orientation == {"normal", "transpose"}

Oriented(orientation, map, transposed) == IF orientation = "normal" THEN map ELSE transposed

\* GEMV has one matrix, DOT and GER have none.
OrientationsAllowed(operation, lhs, rhs) ==
  /\ operation = "gemv" => rhs = "normal"
  /\ operation \in {"dot", "ger"} => lhs = "normal" /\ rhs = "normal"

Loops(operation) ==
  CASE operation = "gemm" -> <<"m", "n", "k">>
    [] operation = "gemv" -> <<"m", "k">>
    [] operation = "dot" -> <<"k">>
    [] operation = "ger" -> <<"m", "n">>
    [] operation = "batched_gemm" -> <<"b", "m", "n", "k">>
Maps(operation, lhs, rhs) ==
  CASE operation = "gemm" ->
         <<Oriented(lhs, <<1, 3>>, <<3, 1>>), Oriented(rhs, <<3, 2>>, <<2, 3>>), <<1, 2>>>>
    [] operation = "gemv" -> <<Oriented(lhs, <<1, 2>>, <<2, 1>>), <<2>>, <<1>>>>
    [] operation = "dot" -> <<<<1>>, <<1>>, <<>>>>
    [] operation = "ger" -> <<<<1>>, <<2>>, <<1, 2>>>>
    [] operation = "batched_gemm" ->
         <<Oriented(lhs, <<1, 2, 4>>, <<1, 4, 2>>), Oriented(rhs, <<1, 4, 3>>, <<1, 3, 4>>), <<1, 2, 3>>>>

\* buildCanonicalContractionTopologyV1, where the orientations are allowed.
Canonical(operation, lhs, rhs) ==
  [operation |-> operation, lhs |-> lhs, rhs |-> rhs,
   class |-> IF operation = "ger" THEN "outer_product_update" ELSE "reduction_contraction",
   loops |-> Loops(operation),
   iterators |-> [i \in DOMAIN Loops(operation) |->
                    IF Loops(operation)[i] = "k" THEN "reduction" ELSE "parallel"],
   maps |-> Maps(operation, lhs, rhs),
   ranks |-> [i \in 1..3 |-> Len(Maps(operation, lhs, rhs)[i])],
   reductions |-> IF operation = "ger" THEN <<>> ELSE <<"k">>]

\* verifyCanonicalContractionTopologyV1.
IsCanonical(topology) ==
  /\ Len(topology.maps) = 3 /\ Len(topology.ranks) = 3
  /\ topology.operation \in Operation /\ topology.lhs \in Orientation /\ topology.rhs \in Orientation
  /\ OrientationsAllowed(topology.operation, topology.lhs, topology.rhs)
  /\ topology = Canonical(topology.operation, topology.lhs, topology.rhs)

\* verifyStructuredIndexingAgainstContractionTopologyV1.
IndexingAgrees(topology, maps, iterators, ranks) ==
  /\ IsCanonical(topology)
  /\ maps = topology.maps /\ iterators = topology.iterators /\ ranks = topology.ranks

\* encodeContractionTopologyV1.
Encoded(topology) == topology @@ [schema |-> "topology_v1"]

\* decodeContractionTopologyV1: the attribute is compared with the canonical one.
IdentityValid(a) ==
  /\ a.schema = "topology_v1" /\ a.operation \in Operation /\ a.lhs \in Orientation /\ a.rhs \in Orientation
  /\ a.class \in {"reduction_contraction", "outer_product_update"}
  /\ OrientationsAllowed(a.operation, a.lhs, a.rhs)
Decodes(a) == IdentityValid(a) /\ a = Encoded(Canonical(a.operation, a.lhs, a.rhs))

------------------------------------------------------------------------------
(* The meaning of a loop nest, on operands of extent two: every step reads  *)
(* both inputs and the destination where the maps say.                      *)

Extent == 0..1
Indices(rank) == [1..rank -> Extent]
At(map, loop) == [i \in DOMAIN map |-> loop[map[i]]]

\* Destination after all steps; Scalar gives the new element of one step.
RunLoops(maps, loops, lhs, rhs, out, Scalar(_, _, _)) ==
  FoldSet(LAMBDA loop, acc :
            LET cell == At(maps[3], loop) IN
            [acc EXCEPT ![cell] = Scalar(lhs[At(maps[1], loop)], rhs[At(maps[2], loop)], @)],
          out, Indices(loops))

\* Operands with distinct elements, and the zero destination.
Operand(rank, base) ==
  [index \in Indices(rank) |-> base + FoldFunction(+, 0, [i \in 1..rank |-> index[i] * 3 ^ i])]
Zero(rank) == [index \in Indices(rank) |-> 0]

Computed(topology) ==
  RunLoops(topology.maps, Len(topology.loops), Operand(topology.ranks[1], 1),
           Operand(topology.ranks[2], 2), Zero(topology.ranks[3]), LAMBDA a, b, c : c + a * b)

\* The textbook definition, with the transposed operand read across.
Reference(a) ==
  LET l == Operand(a.ranks[1], 1)  r == Operand(a.ranks[2], 2)
      two(t, x, y) == IF t = "normal" THEN <<x, y>> ELSE <<y, x>>
      sum(F(_)) == F(0) + F(1)
  IN  CASE a.operation = "gemm" ->
             [c \in Indices(2) |-> sum(LAMBDA k : l[two(a.lhs, c[1], k)] * r[two(a.rhs, k, c[2])])]
        [] a.operation = "gemv" -> [c \in Indices(1) |-> sum(LAMBDA k : l[two(a.lhs, c[1], k)] * r[<<k>>])]
        [] a.operation = "dot" -> [c \in Indices(0) |-> sum(LAMBDA k : l[<<k>>] * r[<<k>>])]
        [] a.operation = "ger" -> [c \in Indices(2) |-> l[<<c[1]>>] * r[<<c[2]>>]]
        [] a.operation = "batched_gemm" ->
             [c \in Indices(3) |-> sum(LAMBDA k : l[<<c[1]>> \o two(a.lhs, c[2], k)]
                                                   * r[<<c[1]>> \o two(a.rhs, k, c[3])])]

------------------------------------------------------------------------------
(* Bodies. *)

Form == {"tensor", "buffer", "vector"}
Argument == {"A", "B", "C"}
Result(i) == <<"r1", "r2", "r3", "r4", "r5", "r6", "r7", "r8">>[i]
Name == Argument \cup {Result(i) : i \in 1..8}
Gemm == Canonical("gemm", "normal", "normal")

\* The scalar block of linalg.matmul: the operands of the product and of the
\* sum, and the value yielded.
Region == [multiply |-> <<"a", "b">>, add |-> <<"c", "product">>, yield |-> "sum", fastmath |-> "none"]

\* One operation; kept stands for its location, its marker and no further hints.
Op(name, in, out, attributes) == [op |-> name, in |-> in, out |-> out, kept |-> TRUE] @@ attributes

MatmulAttributes == [maps |-> Gemm.maps, iterators |-> Gemm.iterators, region |-> Region]

\* appendStructuredFunction; what One-Shot Bufferize and the vectorizer make of it.
Built(f) ==
  CASE f = "tensor" ->
         <<Op("constant", <<>>, "r1", [value |-> "zero"]), Op("fill", <<"r1", "C">>, "r2", [yield |-> "in"]),
           Op("matmul", <<"A", "B", "r2">>, "r3", MatmulAttributes), Op("return", <<"r3">>, "r4", <<>>)>>
    [] f = "buffer" ->
         <<Op("constant", <<>>, "r1", [value |-> "zero"]), Op("fill", <<"r1", "C">>, "C", [yield |-> "in"]),
           Op("matmul", <<"A", "B", "C">>, "C", MatmulAttributes), Op("return", <<"C">>, "r4", <<>>)>>
    [] f = "vector" ->
         <<Op("poison", <<>>, "r1", <<>>), Op("constant_index", <<>>, "r2", [value |-> "zero"]),
           Op("constant", <<>>, "r3", [value |-> "zero"]),
           Op("read", <<"A", "r2", "r1">>, "r4", [map |-> <<1, 2>>]),
           Op("read", <<"B", "r2", "r1">>, "r5", [map |-> <<1, 2>>]),
           Op("contract", <<"r4", "r5", "r3">>, "r6",
              [maps |-> Gemm.maps, iterators |-> Gemm.iterators, combine |-> "add"]),
           Op("write", <<"r6", "C", "r2">>, "r7", [map |-> <<1, 2>>]), Op("return", <<"r7">>, "r8", <<>>)>>

------------------------------------------------------------------------------
(* The verifiers. *)

Names(b) == [i \in DOMAIN b |-> b[i].op]
Kept(b) == \A i \in DOMAIN b : b[i].kept

\* verifyDefaultMatmulMaps.
MatmulMaps(op) == IndexingAgrees(Gemm, op.maps, op.iterators, <<2, 2, 2>>)
MatmulRegion(op) ==
  /\ op.region.multiply = <<"a", "b">> /\ op.region.add = <<"c", "product">>
  /\ op.region.yield = "sum" /\ op.region.fastmath = "none"

\* verifyFillScalarRegion: never the old element.
FillRegion(op) == op.yield = "in"

\* verifyStructuredFunction.
TensorVerifies(b) ==
  /\ Names(b) = <<"constant", "fill", "matmul", "return">> /\ Kept(b)
  /\ b[1].value = "zero"
  /\ b[2].in = <<"r1", "C">> /\ b[2].out = "r2" /\ FillRegion(b[2])
  /\ b[3].in = <<"A", "B", "r2">> /\ b[3].out = "r3" /\ MatmulMaps(b[3]) /\ MatmulRegion(b[3])
  /\ b[4].in = <<"r3">>

\* verifyBufferizedFunction: four operations, so no allocation and no copy.
BufferVerifies(b) ==
  /\ Names(b) = <<"constant", "fill", "matmul", "return">> /\ Kept(b)
  /\ b[1].value = "zero"
  /\ b[2].in = <<"r1", "C">> /\ b[2].out = "C" /\ FillRegion(b[2])
  /\ b[3].in = <<"A", "B", "C">> /\ b[3].out = "C" /\ MatmulMaps(b[3]) /\ MatmulRegion(b[3])
  /\ b[4].in = <<"C">>

\* verifyVectorFunction.
TransferVerifies(op, in) == op.in = in /\ op.map = <<1, 2>>
VectorVerifies(b) ==
  /\ Names(b) = <<"poison", "constant_index", "constant", "read", "read", "contract", "write", "return">>
  /\ Kept(b) /\ b[2].value = "zero" /\ b[3].value = "zero"
  /\ TransferVerifies(b[4], <<"A", "r2", "r1">>) /\ TransferVerifies(b[5], <<"B", "r2", "r1">>)
  /\ b[6].in = <<"r4", "r5", "r3">> /\ b[6].combine = "add"
  /\ b[6].maps = Gemm.maps /\ b[6].iterators = Gemm.iterators
  /\ TransferVerifies(b[7], <<"r6", "C", "r2">>) /\ b[8].in = <<"r7">>

Verifies(f, b) ==
  CASE f = "tensor" -> TensorVerifies(b) [] f = "buffer" -> BufferVerifies(b) [] f = "vector" -> VectorVerifies(b)

------------------------------------------------------------------------------
(* What a body computes: linalg and vector operations, outside this           *)
(* repository.                                                                *)

Junk == [index \in Indices(2) |-> 99]
Fill(value) == [index \in Indices(2) |-> IF value = "one" THEN 1 ELSE 0]
Start == [name \in Name |-> CASE name = "A" -> Operand(2, 1) [] name = "B" -> Operand(2, 2) [] OTHER -> Junk]

ScalarValue(region, a, b, c) ==
  LET leaf(n) == CASE n = "a" -> a [] n = "b" -> b [] n = "c" -> c [] OTHER -> 99
      product == leaf(region.multiply[1]) * leaf(region.multiply[2])
      inner(n) == IF n = "product" THEN product ELSE leaf(n)
      sum == inner(region.add[1]) + inner(region.add[2])
  IN  IF region.yield = "sum" THEN sum ELSE inner(region.yield)

Permuted(matrix, map) == [index \in Indices(2) |-> matrix[At(map, index)]]

Value(op, env) ==
  CASE op.op \in {"constant", "constant_index"} -> Fill(op.value)
    [] op.op = "fill" -> IF op.yield = "in" THEN env[op.in[1]] ELSE env[op.in[2]]
    [] op.op = "matmul" ->
         RunLoops(op.maps, 3, env[op.in[1]], env[op.in[2]], env[op.in[3]],
                  LAMBDA a, b, c : ScalarValue(op.region, a, b, c))
    [] op.op = "contract" ->
         RunLoops(op.maps, 3, env[op.in[1]], env[op.in[2]], env[op.in[3]],
                  LAMBDA a, b, c : IF op.combine = "add" THEN c + a * b ELSE c * a * b)
    [] op.op = "read" -> Permuted(env[op.in[1]], op.map)
    [] op.op = "write" -> Permuted(env[op.in[1]], op.map)
    [] op.op = "return" -> env[op.in[1]]
    [] OTHER -> Junk

Executed(b) == FoldLeft(LAMBDA env, op : [env EXCEPT ![op.out] = Value(op, env)], Start, b)
Returned(b) == Executed(b)[b[Len(b)].out]

------------------------------------------------------------------------------
(* Changes. *)

ChangedOps(op) ==
  {[op EXCEPT !.in[i] = n] : i \in DOMAIN op.in, n \in Argument \cup {"r1", "r2", "r3", "r4", "r5", "r6"}}
  \cup {[op EXCEPT !.kept = FALSE]}
  \cup (IF op.op \in {"fill", "matmul"} THEN {[op EXCEPT !.out = n] : n \in {"C", "r2", "r3"}} ELSE {})
  \cup (IF "value" \in DOMAIN op THEN {[op EXCEPT !.value = v] : v \in {"zero", "negative_zero", "one"}} ELSE {})
  \cup (IF "yield" \in DOMAIN op THEN {[op EXCEPT !.yield = "out"]} ELSE {})
  \cup (IF "map" \in DOMAIN op THEN {[op EXCEPT !.map = Reverse(@)]} ELSE {})
  \cup (IF "combine" \in DOMAIN op THEN {[op EXCEPT !.combine = "mul"]} ELSE {})
  \cup (IF "maps" \in DOMAIN op THEN {[op EXCEPT !.maps[i] = Reverse(@)] : i \in 1..3} ELSE {})
  \cup (IF "region" \in DOMAIN op
        THEN {[op EXCEPT !.region.multiply[i] = n] : i \in 1..2, n \in {"a", "b", "c"}}
             \cup {[op EXCEPT !.region.add[i] = n] : i \in 1..2, n \in {"a", "c", "product"}}
             \cup {[op EXCEPT !.region.yield = n] : n \in {"c", "product"}}
             \cup {[op EXCEPT !.region.fastmath = "reassoc"]}
        ELSE {})

ChangeOp ==
  /\ form # "topology" /\ changes < MaxChanges /\ changes' = changes + 1
  /\ \E i \in DOMAIN body : \E op \in ChangedOps(body[i]) : body' = [body EXCEPT ![i] = op]
  /\ UNCHANGED form

\* An operation removed, or an allocation put in front of it.
ChangeSequence ==
  /\ form # "topology" /\ changes < MaxChanges /\ changes' = changes + 1
  /\ \E i \in 1..(Len(body) - 1) :
       body' \in {RemoveAt(body, i), InsertAt(body, i, Op("alloc", <<>>, "r6", <<>>))}
  /\ UNCHANGED form

\* Another operation, another orientation, a map with its indices exchanged,
\* another iterator, or the maps of the inputs exchanged.
ChangeTopology ==
  /\ form = "topology" /\ changes < MaxChanges /\ changes' = changes + 1
  /\ body' \in
       {[body EXCEPT !.operation = o] : o \in Operation}
       \cup {[body EXCEPT !.lhs = o] : o \in Orientation}
       \cup {[body EXCEPT !.rhs = o] : o \in Orientation}
       \cup {[body EXCEPT !.class = "outer_product_update"], [body EXCEPT !.schema = "other"]}
       \cup {[body EXCEPT !.maps[i] = Reverse(@)] : i \in 1..3}
       \cup {[body EXCEPT !.iterators[i] = "parallel"] : i \in DOMAIN body.iterators}
       \cup {[body EXCEPT !.maps = <<@[2], @[1], @[3]>>, !.ranks = <<@[2], @[1], @[3]>>]}
  /\ UNCHANGED form

Topologies ==
  {Encoded(Canonical(t[1], t[2], t[3])) :
     t \in {u \in Operation \X Orientation \X Orientation : OrientationsAllowed(u[1], u[2], u[3])}}

Init ==
  /\ form \in Form \cup {"topology"} /\ changes = 0
  /\ IF form = "topology" THEN body \in Topologies ELSE body = Built(form)
Next == ChangeOp \/ ChangeSequence \/ ChangeTopology
Spec == Init /\ [][Next]_vars

------------------------------------------------------------------------------
(* Properties. *)

\* A topology that decodes computes the operation it names, in the orientation
\* it names, and reduces exactly over the loops its destination is not indexed
\* by, so that no two parallel steps write one element.
DecodedTopologyComputes ==
  form = "topology" /\ Decodes(body) =>
    /\ Computed(body) = Reference(body)
    /\ \A i \in DOMAIN body.iterators : body.iterators[i] = "reduction" <=> i \notin Range(body.maps[3])

\* What is issued is accepted, and an accepted body returns the product of A and
\* B and nothing of the old C; in memory it leaves the product in C and A and B
\* as they were.
AcceptedBodyMultiplies ==
  form # "topology" =>
    /\ changes = 0 => Verifies(form, body)
    /\ Verifies(form, body) =>
         /\ Returned(body) = Computed(Gemm)
         /\ form = "buffer" => LET last == Executed(body) IN
              last["C"] = Computed(Gemm) /\ last["A"] = Start["A"] /\ last["B"] = Start["B"]
=============================================================================
