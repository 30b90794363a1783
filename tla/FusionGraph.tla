----------------------------- MODULE FusionGraph -----------------------------
(* @mc.fused: a Python function is traced into a graph, the graph is analysed *)
(* for a chain to fuse and one kernel is emitted.  A value is a term in       *)
(* prefix notation: what the program meant by it and what the trace recorded  *)
(* are compared with what the emitted kernel computes.                        *)
EXTENDS Integers, Sequences, SequencesExt, FiniteSetsExt

CONSTANTS
    Arguments,        \* sequence of [name, shape, dtype]
    Unary, Binary,    \* elementwise operations
    MaxOps,           \* bound on the operations of a function
    MaxViews          \* bound on the places that are given a .T the trace drops

VARIABLES
    values,     \* [shape, dtype, kind, producer, consumers, meant, recorded, exact];
                \* ids are positions
    nodes,      \* [op, kind, inputs, transposed, drops]; the output of node n is Out(n)
    step,       \* "trace", "analyse", "emit", "done"
    result,     \* id of the returned value, 0 before
    plan,       \* FusedKernelPlan, or <<>>
    kernel      \* what the emitted kernel writes, or why it was refused

vars == <<values, nodes, step, result, plan, kernel>>

-----------------------------------------------------------------------------
(* The tile of a fused kernel: candidates of each pattern, the shared memory, *)
(* registers and occupancy FusionAnalyzer estimates, and its choice.          *)

SmemPerSM == 102400
SmemSoftBudget == 40960
SmemHardBudget == 49152
RegsPerSM == 65536
MaxThreadsPerSM == 1536
MaxBlocksPerSM == 16
RegSoftCap == 160
RegHardCap == 192

Tile(br, bc, d, k, stages, warps) ==
    [br |-> br, bc |-> bc, d |-> d, k |-> k, stages |-> stages, warps |-> warps]

TileCandidates(pattern) ==
    CASE pattern \in {"matmul_elementwise", "elementwise_matmul"} ->
            <<Tile(128, 128, 0, 64, 2, 4), Tile(64, 64, 0, 32, 2, 4), Tile(64, 64, 0, 64, 1, 2)>>
      [] pattern = "matmul_elementwise_matmul" ->
            <<Tile(64, 64, 64, 32, 2, 4), Tile(128, 64, 64, 32, 2, 8)>>
      [] pattern = "matmul_softmax_matmul" ->
            <<Tile(32, 32, 64, 16, 1, 2), Tile(32, 32, 32, 16, 1, 2), Tile(32, 32, 16, 16, 1, 2),
              Tile(32, 16, 16, 16, 1, 2), Tile(16, 16, 8, 8, 1, 1)>>
      [] pattern = "generic_tile_chain" ->
            <<Tile(64, 64, 0, 32, 1, 2), Tile(64, 128, 0, 32, 1, 4)>>
      [] OTHER -> <<>>

DTypeSize(dtype) == CASE dtype = "float16" -> 2 [] dtype = "int8" -> 1 [] OTHER -> 4
EstimateSharedMemory(pattern, t, bytes) ==
    IF pattern = "matmul_softmax_matmul" THEN (t.br * t.d + t.br * t.bc + 3 * t.br) * 4
    ELSE t.stages * (t.br * t.k + t.k * t.bc) * bytes
         + (IF pattern = "matmul_elementwise_matmul" THEN t.br * t.bc * bytes ELSE 0)

\* buildSharedBuffers: bytes of each buffer.
SharedBuffers(pattern, t, bytes) ==
    IF pattern = "matmul_softmax_matmul"
    THEN <<t.br * t.d * 4, t.br * t.bc * 4, t.br * 4, t.br * 4, t.br * 4>>
    ELSE <<t.br * t.k * bytes * t.stages, t.k * t.bc * bytes * t.stages>>
         \o (IF pattern = "matmul_elementwise_matmul" THEN <<t.br * t.bc * bytes>> ELSE <<>>)

EstimateRegisters(pattern, t, pointwise) ==
    LET accum == Max({1, ((t.br * t.bc) \div (32 * t.warps)) * 2})
        fragment == Min({32, 16 + (IF t.k >= 64 THEN 12 ELSE 8) + (IF t.d > 0 THEN 4 ELSE 0)})
        subtotal == 32 + accum + fragment + 4 * pointwise + 8
                    + (IF pattern = "matmul_softmax_matmul" THEN 16 ELSE 0)
    IN  subtotal + Max({4, (subtotal + 9) \div 10})

\* Warps on a multiprocessor.
EstimateOccupancy(t, shared, regs) ==
    Min({SmemPerSM \div Max({shared, 1}), RegsPerSM \div (regs * 32 * t.warps),
         MaxThreadsPerSM \div (32 * t.warps), MaxBlocksPerSM}) * t.warps

\* An occupancy below one eighth is too low.
Admissible(pattern, t, bytes, pointwise) ==
    LET shared == EstimateSharedMemory(pattern, t, bytes)
        regs == EstimateRegisters(pattern, t, pointwise)
    IN  /\ shared <= SmemHardBudget
        /\ regs <= RegHardCap
        /\ 8 * EstimateOccupancy(t, shared, regs) >= 48

\* Score in units of 1/960 of what depends on the tile.  The penalty of shared
\* memory subtracts in an unsigned type: below the soft budget it is almost
\* 2^64, which leaves nothing of the other terms.
Wraps(shared) == shared < SmemSoftBudget

Score(pattern, t, shared, regs) ==
    200 * EstimateOccupancy(t, shared, regs) - (75 * (shared - SmemSoftBudget)) \div 32
    - 180 * Max({0, regs - RegSoftCap}) - (IF regs > RegSoftCap THEN 4800 ELSE 0)
    + (IF pattern = "matmul_softmax_matmul" THEN 15 * Min({64, t.d}) ELSE 0)

ChosenTiles(pattern, bytes, pointwise) ==
    LET fit == {t \in Range(TileCandidates(pattern)) : Admissible(pattern, t, bytes, pointwise)}
        whole == {t \in fit : ~Wraps(EstimateSharedMemory(pattern, t, bytes))}
        Value(t) == Score(pattern, t, EstimateSharedMemory(pattern, t, bytes),
                          EstimateRegisters(pattern, t, pointwise))
    IN  IF whole = {} THEN fit ELSE {t \in whole : \A u \in whole : Value(t) >= Value(u)}

-----------------------------------------------------------------------------
No(why) == [ok |-> FALSE, why |-> why]
Ids == DOMAIN nodes
Out(n) == Len(Arguments) + n
Transposed(term) == IF Head(term) = "T" THEN Tail(term) ELSE <<"T">> \o term

Init ==
    /\ values = [i \in DOMAIN Arguments |->
                   [shape |-> Arguments[i].shape, dtype |-> Arguments[i].dtype, kind |-> "input",
                    producer |-> 0, consumers |-> <<>>, meant |-> <<Arguments[i].name>>,
                    recorded |-> <<Arguments[i].name>>, exact |-> TRUE]]
    /\ nodes = <<>> /\ step = "trace" /\ result = 0
    /\ plan = <<>> /\ kernel = No("none")

-----------------------------------------------------------------------------
(* Tracing.  A TracerTensor is a value and whether it stands for its          *)
(* transpose; only the right operand of a matmul passes that on.  Everywhere  *)
(* else a view has its own shape but is recorded as the tensor itself.        *)

Handles == [id : DOMAIN values, t : BOOLEAN]
ShapeOf(h) == LET s == values[h.id].shape IN IF h.t THEN <<s[2], s[1]>> ELSE s
Meaning(h) == IF h.t THEN Transposed(values[h.id].meant) ELSE values[h.id].meant

PassedOn(kind, i) == kind = "matmul" /\ i = 2
Recorded(kind, hs, i) ==
    LET term == values[hs[i].id].recorded
    IN  IF hs[i].t /\ PassedOn(kind, i) THEN Transposed(term) ELSE term
Drops(kind, hs) == \E i \in DOMAIN hs : hs[i].t /\ ~PassedOn(kind, i)

ViewLeft == Cardinality({n \in DOMAIN nodes : nodes[n].drops}) < MaxViews

\* A node consumes a value once for every operand position.
NewNode(op, kind, hs, shape, dtype) ==
    /\ Len(nodes) < MaxOps
    /\ Drops(kind, hs) => ViewLeft
    /\ nodes' = Append(nodes, [op |-> op, kind |-> kind, inputs |-> [i \in DOMAIN hs |-> hs[i].id],
                               transposed |-> kind = "matmul" /\ hs[2].t, drops |-> Drops(kind, hs)])
    /\ values' = Append([v \in DOMAIN values |->
                           [values[v] EXCEPT !.consumers =
                              @ \o [i \in 1..Len(SelectSeq(hs, LAMBDA h : h.id = v)) |-> Len(nodes) + 1]]],
                        [shape |-> shape, dtype |-> dtype, kind |-> "intermediate",
                         producer |-> Len(nodes) + 1, consumers |-> <<>>,
                         meant |-> <<op>> \o FlattenSeq([i \in DOMAIN hs |-> Meaning(hs[i])]),
                         recorded |-> <<op>> \o FlattenSeq([i \in DOMAIN hs |-> Recorded(kind, hs, i)]),
                         exact |-> ~Drops(kind, hs) /\ \A i \in DOMAIN hs : values[hs[i].id].exact])

AddMatmul(a, b) ==
    /\ values[a.id].dtype = values[b.id].dtype
    /\ NewNode("mm", "matmul", <<a, b>>, <<ShapeOf(a)[1], ShapeOf(b)[2]>>, values[a.id].dtype)

AddCast(a, dtype) == NewNode("cast", "cast", <<a>>, ShapeOf(a), dtype)

AddUnary(op, a) == NewNode(op, "elementwise", <<a>>, ShapeOf(a), values[a.id].dtype)

AddBinary(op, a, b) == NewNode(op, "elementwise", <<a, b>>, ShapeOf(a), values[a.id].dtype)

AddSoftmax(a) == NewNode("softmax", "softmax", <<a>>, ShapeOf(a), values[a.id].dtype)

Trace ==
    /\ step = "trace"
    /\ \/ \E a, b \in Handles : AddMatmul(a, b)
       \/ \E a \in Handles : AddCast(a, "float32")
       \/ \E op \in Unary, a \in Handles : AddUnary(op, a)
       \/ \E op \in Binary, a, b \in Handles : AddBinary(op, a, b)
       \/ \E a \in Handles : AddSoftmax(a)
    /\ UNCHANGED <<step, result, plan, kernel>>

\* A view that is returned is recorded as the tensor itself, too.
Finish ==
    /\ step = "trace" /\ step' = "analyse"
    /\ \E h \in Handles :
         /\ h.t => ViewLeft
         /\ result' = h.id
         /\ values' = [values EXCEPT ![h.id].kind = "output", ![h.id].meant = Meaning(h),
                                     ![h.id].exact = @ /\ ~h.t]
    /\ UNCHANGED <<nodes, plan, kernel>>

\* Nodes the result needs, producers first; all of them when it needs none.
TopoOrder ==
    LET Visit[n \in Ids] ==
            FoldLeft(LAMBDA seen, v :
                        LET p == values[v].producer
                        IN  IF p = 0 THEN seen ELSE seen \o SelectSeq(Visit[p], LAMBDA m : m \notin Range(seen)),
                     <<>>, nodes[n].inputs) \o <<n>>
    IN  IF values[result].producer = 0 THEN [n \in Ids |-> n] ELSE Visit[values[result].producer]

-----------------------------------------------------------------------------
(* Analysis.                                                                 *)

PointwiseLike(n) == nodes[n].kind \in {"elementwise", "cast"}

\* annotateEscapes, which changes the input that is returned into an output.
Escapes(v) ==
    \/ values[v].kind \in {"input", "output"}
    \/ Len(values[v].consumers) # 1
    \/ values[v].producer = 0
Region(s) ==
    LET follow == {"elementwise", "cast", "matmul"} \cup
                  (IF nodes[s].kind = "matmul" THEN {"softmax"} ELSE {})
        limit == IF PointwiseLike(s) THEN 1 ELSE 2
        Walk[n \in Ids, before \in 0..2] ==
            LET m == before + (IF nodes[n].kind = "matmul" THEN 1 ELSE 0)
            IN  IF m >= limit \/ Escapes(Out(n)) THEN <<n>>
                ELSE LET next == Head(values[Out(n)].consumers)
                     IN  IF nodes[next].kind \in follow THEN <<n>> \o Walk[next, m] ELSE <<n>>
    IN  Walk[s, 0]

CountKind(r, kind) == Len(SelectSeq(r, LAMBDA n : nodes[n].kind = kind))

Candidates ==
    LET starts == SelectSeq(TopoOrder, LAMBDA n : nodes[n].kind = "matmul" \/ PointwiseLike(n))
        regions == [i \in DOMAIN starts |-> Region(starts[i])]
    IN  SelectSeq(regions, LAMBDA r : CountKind(r, "softmax") > 0 => CountKind(r, "matmul") = 2)

Classify(r) ==
    LET mm == CountKind(r, "matmul")
        sm == CountKind(r, "softmax")
    IN  CASE mm = 1 /\ sm = 0 /\ nodes[r[1]].kind = "matmul" -> "matmul_elementwise"
          [] mm = 1 /\ sm = 0 /\ nodes[Last(r)].kind = "matmul" -> "elementwise_matmul"
          [] mm = 1 /\ sm = 0 -> "generic_tile_chain"
          [] mm = 2 /\ sm = 0 -> "matmul_elementwise_matmul"
          [] mm = 2 /\ sm > 0 -> "matmul_softmax_matmul"
          [] OTHER -> "none"

Bytes(r) == DTypeSize(values[Out(r[1])].dtype)
CountPointwise(r) == CountKind(r, "elementwise") + CountKind(r, "cast")

\* A plan is accepted with the best of the tiles that are admissible for it.
Accepted(r) ==
    \E t \in Range(TileCandidates(Classify(r))) : Admissible(Classify(r), t, Bytes(r), CountPointwise(r))
TilesOf(r) == ChosenTiles(Classify(r), Bytes(r), CountPointwise(r))

\* Values of the region that something outside of it needs.
RegionOutputs(r) ==
    LET outs == [i \in DOMAIN r |-> Out(r[i])]
    IN  SelectSeq(outs, LAMBDA v : values[v].kind = "output"
                                   \/ ~(Range(values[v].consumers) \subseteq Range(r)))

\* The engine takes the first plan that was accepted.
Analyse ==
    /\ step = "analyse"
    /\ LET accepted == SelectSeq(Candidates, Accepted)
       IN  IF accepted = <<>>
           THEN step' = "done" /\ kernel' = No("no accepted fusion plan") /\ UNCHANGED plan
           ELSE /\ step' = "emit" /\ UNCHANGED kernel
                /\ \E t \in TilesOf(accepted[1]) :
                     plan' = [nodes |-> accepted[1], tile |-> t, pattern |-> Classify(accepted[1]),
                              bytes |-> Bytes(accepted[1]),
                              outputs |-> RegionOutputs(accepted[1])]
    /\ UNCHANGED <<values, nodes, result>>

-----------------------------------------------------------------------------
(* Emission.                                                                 *)

IsInput(v) == v <= Len(Arguments)
Matmuls(r) == SelectSeq(r, LAMBDA n : nodes[n].kind = "matmul")
Glue(r) == SelectSeq(r, LAMBDA n : nodes[n].kind = "elementwise")
Right(n) == LET s == values[nodes[n].inputs[2]].shape IN IF nodes[n].transposed THEN <<s[2], s[1]>> ELSE s
InnerAgree(n) == values[nodes[n].inputs[1]].shape[2] = Right(n)[1]

\* validateFusionPlanAgainstEmitter: operands that no kernel computes are inputs.
BoundaryInputs(p) ==
    LET mm == Matmuls(p.nodes)
    IN  /\ IsInput(nodes[mm[1]].inputs[1]) /\ IsInput(nodes[mm[1]].inputs[2])
        /\ Len(mm) = 2 => IsInput(nodes[mm[2]].inputs[2])

ValidPlan(p) ==
    /\ \A i \in DOMAIN p.nodes : nodes[p.nodes[i]].kind # "cast"
    /\ p.pattern \notin {"elementwise_matmul", "generic_tile_chain"}
    /\ BoundaryInputs(p)
    /\ p.pattern = "matmul_softmax_matmul" => CountKind(p.nodes, "softmax") = 1

\* An elementwise operation on the value of the chain: its other operand is an
\* argument of the shape of the matmul, and keeps its side.
OtherOperand(n, v) == IF nodes[n].inputs[1] = v THEN nodes[n].inputs[2] ELSE nodes[n].inputs[1]

GlueFits(n, v, shape, dtype) ==
    /\ v \in Range(nodes[n].inputs)
    /\ Len(nodes[n].inputs) = 2 =>
         LET b == OtherOperand(n, v)
         IN  /\ IsInput(b) /\ values[b].shape = shape
             /\ dtype # "any" => values[b].dtype = dtype

GlueTerm_ValueFirst(n, v, term) ==   \* fault: the value of the chain comes first
    IF Len(nodes[n].inputs) = 1 THEN <<nodes[n].op>> \o term
    ELSE <<nodes[n].op>> \o term \o <<Arguments[OtherOperand(n, v)].name>>

GlueTerm(n, v, term) ==
    IF Len(nodes[n].inputs) = 1 THEN <<nodes[n].op>> \o term
    ELSE IF nodes[n].inputs[1] = v
         THEN <<nodes[n].op>> \o term \o <<Arguments[nodes[n].inputs[2]].name>>
         ELSE <<nodes[n].op>> \o <<Arguments[nodes[n].inputs[1]].name>> \o term

\* The chain from matmul m through the glue: each operation uses the one before.
ChainFits(m, glue, dtype) ==
    \A i \in DOMAIN glue :
        GlueFits(glue[i], Out(IF i = 1 THEN m ELSE glue[i - 1]),
                 <<values[nodes[m].inputs[1]].shape[1], Right(m)[2]>>, dtype)
ChainEnd(m, glue) == Out(IF glue = <<>> THEN m ELSE Last(glue))

MatmulTerm(n, left) ==
    LET b == <<Arguments[nodes[n].inputs[2]].name>>
    IN  <<"mm">> \o left \o (IF nodes[n].transposed THEN Transposed(b) ELSE b)

ChainTerm(m, glue) ==
    FoldLeft(LAMBDA acc, n : [v |-> Out(n), term |-> GlueTerm(n, acc.v, acc.term)],
             [v |-> Out(m), term |-> MatmulTerm(m, <<Arguments[nodes[m].inputs[1]].name>>)],
             glue).term

PlanOutput(p) == IF p.outputs = <<>> THEN Out(Last(p.nodes)) ELSE p.outputs[1]
ResultShape(m1, m2) == <<values[nodes[m1].inputs[1]].shape[1], Right(m2)[2]>>

FamilyA(p) ==
    LET m == Matmuls(p.nodes)[1]
        glue == Glue(p.nodes)
        out == PlanOutput(p)
    IN  IF /\ InnerAgree(m) /\ ~nodes[m].transposed
           /\ values[out].shape = ResultShape(m, m)
           /\ ChainFits(m, glue, values[out].dtype) /\ ChainEnd(m, glue) = out
        THEN [ok |-> TRUE, term |-> ChainTerm(m, glue),
              shared |-> EstimateSharedMemory(p.pattern, p.tile, p.bytes)]
        ELSE No("family A")

FamilyB(p) ==
    LET m == Matmuls(p.nodes)
        glue == Glue(p.nodes)
    IN  IF /\ InnerAgree(m[1]) /\ InnerAgree(m[2])
           /\ values[PlanOutput(p)].shape = ResultShape(m[1], m[2])
           /\ ChainFits(m[1], glue, "any") /\ ChainEnd(m[1], glue) = nodes[m[2]].inputs[1]
        THEN [ok |-> TRUE, term |-> MatmulTerm(m[2], ChainTerm(m[1], glue)), shared |-> 0]
        ELSE No("family B")

\* The kernel keeps at least 64 columns of values, whatever the tile has.
ValueColumns(p, columns) == Max({1, Min({Max({p.tile.d, 64}), columns})})

FamilyC(p) ==
    LET m == Matmuls(p.nodes)
        s == SelectSeq(p.nodes, LAMBDA n : nodes[n].kind = "softmax")[1]
    IN  IF /\ nodes[s].inputs[1] = Out(m[1]) /\ nodes[m[2]].inputs[1] = Out(s)
           /\ InnerAgree(m[1]) /\ InnerAgree(m[2])
           /\ values[PlanOutput(p)].shape = ResultShape(m[1], m[2])
        THEN [ok |-> TRUE,
              term |-> MatmulTerm(m[2], <<"softmax">> \o ChainTerm(m[1], <<>>)),
              shared |-> (p.tile.br * ValueColumns(p, 512) + p.tile.br * p.tile.bc + 3 * p.tile.br) * 4]
        ELSE No("family C")

Emit ==
    /\ step = "emit" /\ step' = "done"
    /\ kernel' = IF ~ValidPlan(plan) THEN No("unsupported")
                 ELSE CASE plan.pattern = "matmul_elementwise" -> FamilyA(plan)
                        [] plan.pattern = "matmul_elementwise_matmul" -> FamilyB(plan)
                        [] plan.pattern = "matmul_softmax_matmul" -> FamilyC(plan)
    /\ UNCHANGED <<values, nodes, result, plan>>

Next == Trace \/ Finish \/ Analyse \/ Emit

Spec == Init /\ [][Next]_vars

-----------------------------------------------------------------------------
(* A kernel that was emitted computes the value that leaves its plan as it    *)
(* was recorded: no operation is skipped, repeated or given its operands in   *)
(* another order.  That is what the program meant by it if no operation under *)
(* it was given a view the trace drops: a .T on the left of a matmul, on an   *)
(* operand of an elementwise operation or on the returned value.              *)
KernelComputesItsPlan ==
    LET out == values[PlanOutput(plan)]
    IN  kernel.ok => kernel.term = out.recorded /\ (out.exact => kernel.term = out.meant)

(* A function of one matmul that uses every value once, and nothing else than *)
(* operations on that chain, is fused whole: the kernel returns its result.   *)
ChainOfOneMatmulIsComplete ==
    kernel.ok /\ Cardinality({n \in Ids : nodes[n].kind = "matmul"}) = 1
        /\ (\A n \in Ids : Len(values[Out(n)].consumers) = (IF Out(n) = result THEN 0 ELSE 1))
    => PlanOutput(plan) = result

(* The shared memory an emitted kernel reserves is within the hard budget its *)
(* tile was admitted under, and the buffers of its plan add up to the         *)
(* estimate.                                                                  *)
SharedMemoryIsBudgeted ==
    /\ kernel.ok => kernel.shared <= SmemHardBudget
    /\ plan # <<>> => FoldLeft(LAMBDA x, y : x + y, 0, SharedBuffers(plan.pattern, plan.tile, plan.bytes))
                        = EstimateSharedMemory(plan.pattern, plan.tile, plan.bytes)

(* "Decorator that traces a function and executes the fused graph"            *)
(* (frontend.py): a kernel that was emitted computes the result of the graph  *)
(* that was traced.                                                           *)
FusedExecutesTheGraph ==
    kernel.ok /\ values[result].producer # 0 => kernel.term = values[result].recorded

(* What the tracer claims: "Return a transposed view (lazy, for matmul        *)
(* fusion)" (frontend.py), that is, a kernel whose value is the result        *)
(* computes what the program meant by it, views included.  It does not hold:  *)
(* A.T @ B is emitted as A @ B.                                               *)
ViewsAreTransposed ==
    kernel.ok /\ PlanOutput(plan) = result => kernel.term = values[result].meant
=============================================================================
