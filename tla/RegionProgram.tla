---------------------------- MODULE RegionProgram ----------------------------
(***************************************************************************)
(* What a closed region is (mlir/MatcoreClosedRegion.h) and what its       *)
(* operations compute and check (runtime/closed_host_v1.cpp), before any   *)
(* plan or session exists.                                                 *)
(*                                                                         *)
(* A region body is a flat sequence of operations in source order.  A      *)
(* shape-if is an "if" followed by its then-body, an "else" marker, its    *)
(* else-body and an "endif" marker.  The value an operation defines is     *)
(* named by its index.  Matrix elements are terms: two elements are equal  *)
(* only if they were computed in the same way from the same cells.         *)
(***************************************************************************)
EXTENDS Integers, Sequences, FiniteSets

CONSTANTS
  Cells,        \* the host's float objects
  Resources,    \* storage parameters of the region
  Views,        \* the view bound to each resource; views may overlap
  ShapeParams,  \* shape parameters of the region
  MaxIndex,     \* largest signed index: INT64_MAX
  MaxExtent     \* largest number of floats whose bytes can be addressed

Access  == {"read_only", "read_write", "unknown"}
Profile == {"strict_f32", "reassociate_f32"}

\* A ResourceView: the cells it spans (its declared capacity) in row-major
\* order, its shape, its access, and whether data is a usable pointer.
View == [rows: Nat, cols: Nat, cells: Seq(Cells), access: Access, mapped: BOOLEAN]

\* Elements of a view are consecutive floats, so no two of them are one.
ASSUME ProgramConstantsAssumption ==
  /\ MaxIndex \in Nat /\ MaxExtent \in 1 .. MaxIndex
  /\ Views \in [Resources -> View]
  /\ \A r \in Resources : \A i, j \in 1 .. Len(Views[r].cells) :
       Views[r].cells[i] = Views[r].cells[j] => i = j

-----------------------------------------------------------------------------
(* Operations and dimensions                                               *)

Read(res, rows, cols)  == [kind |-> "read", res |-> res, rows |-> rows, cols |-> cols]
Gemm(lhs, rhs, profile) == [kind |-> "gemm", lhs |-> lhs, rhs |-> rhs, profile |-> profile]
Publish(lhs, res)      == [kind |-> "publish", lhs |-> lhs, res |-> res]
Observe(res)           == [kind |-> "observe", res |-> res]
\* lhs == rhs, with the places of its markers
ShapeIf(lhs, rhs, elseAt, endAt) ==
  [kind |-> "if", lhs |-> lhs, rhs |-> rhs, elseAt |-> elseAt, endAt |-> endAt]
Else(endAt)            == [kind |-> "else", endAt |-> endAt]
EndIf                  == [kind |-> "endif"]

Literal(n)      == [kind |-> "literal", of |-> n]
Parameter(s)    == [kind |-> "shape", of |-> s]
ValueRows(v)    == [kind |-> "rows", of |-> v]
ValueColumns(v) == [kind |-> "columns", of |-> v]

\* Every operation a body may contain; resources and values are known by name
\* and by the index of their definition.
Dimension ==
  [kind: {"literal"}, of: Nat] \cup [kind: {"shape"}, of: ShapeParams]
    \cup [kind: {"rows", "columns"}, of: Nat]
Operation ==
  [kind: {"read"}, res: Resources, rows: Dimension, cols: Dimension]
    \cup [kind: {"gemm"}, lhs: Nat, rhs: Nat, profile: Profile]
    \cup [kind: {"publish"}, lhs: Nat, res: Resources]
    \cup [kind: {"observe"}, res: Resources]
    \cup [kind: {"if"}, lhs: Dimension, rhs: Dimension, elseAt: Nat, endAt: Nat]
    \cup [kind: {"else"}, endAt: Nat] \cup [kind: {"endif"}]

Marker(op) == op.kind \in {"else", "endif"}

\* The dimensions an operation mentions, and the values it takes as operands.
Dimensions(op) ==
  CASE op.kind = "read" -> {op.rows, op.cols}
    [] op.kind = "if"   -> {op.lhs, op.rhs}
    [] OTHER            -> {}
Operands(op) ==
  CASE op.kind = "gemm"    -> {op.lhs, op.rhs}
    [] op.kind = "publish" -> {op.lhs}
    [] OTHER               -> {}
DimensionValues(op) ==
  {d.of : d \in {e \in Dimensions(op) : e.kind \in {"rows", "columns"}}}

-----------------------------------------------------------------------------
(* Structure of a body                                                     *)

\* The arms of the body, as the open intervals between their markers.
Ifs(prog)  == {i \in 1 .. Len(prog) : prog[i].kind = "if"}
Arms(prog) ==
  {<<i, prog[i].elseAt>> : i \in Ifs(prog)} \cup {<<prog[i].elseAt, prog[i].endAt>> : i \in Ifs(prog)}
Within(i, arm) == arm[1] < i /\ i < arm[2]

\* A value is visible in every arm that its definition is in.
Dominates(prog, j, i) == j < i /\ \A arm \in Arms(prog) : Within(j, arm) => Within(i, arm)

\* Every operation takes the next frontier in source order, both arms
\* included; the completion takes the one after the last.
FrontierOf(prog, i) == Cardinality({j \in 1 .. i : ~Marker(prog[j])})
Completion(prog)    == FrontierOf(prog, Len(prog)) + 1

\* Where control goes from index i: past the markers that end an arm.
Settle(prog, i) ==
  LET to[j \in 1 .. Len(prog) + 1] ==
        IF j = Len(prog) + 1 \/ ~Marker(prog[j]) THEN j
        ELSE IF prog[j].kind = "else" THEN to[prog[j].endAt + 1]
        ELSE to[j + 1]
  IN  to[i]

Dynamic == -1

\* Static shapes, as far as literals determine them.
StaticShapes(prog) ==
  LET shape[i \in 1 .. Len(prog)] ==
        LET Extent(d) ==
              CASE d.kind = "literal" -> d.of
                [] d.kind = "shape"   -> Dynamic
                [] d.kind = "rows"    -> shape[d.of][1]
                [] d.kind = "columns" -> shape[d.of][2]
        IN  CASE prog[i].kind = "read" -> <<Extent(prog[i].rows), Extent(prog[i].cols)>>
              [] prog[i].kind = "gemm" -> <<shape[prog[i].lhs][1], shape[prog[i].rhs][2]>>
              [] OTHER -> <<Dynamic, Dynamic>>
  IN  shape

\* verifyBody: every marker belongs to a shape-if, they nest, operands and
\* dimensions name dominating values, and no contraction or extent is statically wrong.
WellFormed(prog) ==
  LET shapes == StaticShapes(prog)
  IN  /\ prog \in Seq(Operation)
      /\ \A i \in Ifs(prog) :
           /\ i < prog[i].elseAt /\ prog[i].elseAt < prog[i].endAt /\ prog[i].endAt <= Len(prog)
           /\ prog[prog[i].elseAt] = Else(prog[i].endAt) /\ prog[prog[i].endAt] = EndIf
           /\ \A arm \in Arms(prog) : Within(i, arm) <=> Within(prog[i].endAt, arm)
      /\ \A k \in 1 .. Len(prog) :
           /\ prog[k].kind = "else" => \E i \in Ifs(prog) : k = prog[i].elseAt
           /\ prog[k].kind = "endif" => \E i \in Ifs(prog) : k = prog[i].endAt
      /\ \A i \in 1 .. Len(prog) :
           \A v \in Operands(prog[i]) \cup DimensionValues(prog[i]) :
             /\ v \in 1 .. i - 1 /\ prog[v].kind \in {"read", "gemm"}
             /\ Dominates(prog, v, i)
      /\ \A i \in 1 .. Len(prog) :
           /\ prog[i].kind = "gemm" =>
                LET k == {shapes[prog[i].lhs][2], shapes[prog[i].rhs][1]} \ {Dynamic}
                IN  Cardinality(k) <= 1
           /\ Dynamic \in {shapes[i][1], shapes[i][2]}
                \/ shapes[i][1] * shapes[i][2] <= MaxIndex
           /\ \A d \in Dimensions(prog[i]) : d.kind = "literal" => d.of <= MaxIndex

-----------------------------------------------------------------------------
(* Values, memory and checks                                               *)

NoValue == [valid |-> FALSE, rows |-> 0, cols |-> 0, elems |-> <<>>]
Matrix(r, c, elems) == [valid |-> TRUE, rows |-> r, cols |-> c, elems |-> elems]

Zero == <<"zero">>

\* One GEMM: an empty reduction is positive zero, any other element is the
\* profile's reduction of a row against a column.
Product(a, b, profile) ==
  Matrix(a.rows, b.cols,
    [e \in 1 .. a.rows * b.cols |->
       LET i == (e - 1) \div b.cols
           j == (e - 1) % b.cols
       IN  IF a.cols = 0 THEN Zero
           ELSE <<"dot", profile,
                  [k \in 1 .. a.cols |-> a.elems[i * a.cols + k]],
                  [k \in 1 .. a.cols |-> b.elems[(k - 1) * b.cols + j + 1]]>>])

Contents(memory, view) ==
  Matrix(view.rows, view.cols,
         [e \in 1 .. view.rows * view.cols |-> memory[view.cells[e]]])

Store(memory, view, value) ==
  [c \in Cells |->
     LET hits == {e \in 1 .. view.rows * view.cols : view.cells[e] = c}
     IN  IF hits = {} THEN memory[c]
         ELSE value.elems[CHOOSE e \in hits : TRUE]]

\* An empty matrix may still have a dimension that is no index.
Extent(rows, cols) ==
  IF rows > MaxIndex \/ cols > MaxIndex \/ rows * cols > MaxExtent
  THEN "extent_overflow" ELSE "ok"

\* validate: the checks of a view, in the order of the code.
Validate(view, write) ==
  LET elements == view.rows * view.cols
  IN  IF view.access = "unknown" THEN "invalid_view"
      ELSE IF Extent(view.rows, view.cols) # "ok" THEN "extent_overflow"
      ELSE IF Len(view.cells) < elements THEN "insufficient_capacity"
      ELSE IF write /\ view.access # "read_write" THEN "access_denied"
      ELSE IF elements # 0 /\ ~view.mapped THEN "invalid_view"
      ELSE "ok"

\* The value of a dimension under the shape arguments and the values so far.
Evaluate(d, args, env) ==
  CASE d.kind = "literal" -> d.of
    [] d.kind = "shape"   -> args[d.of]
    [] d.kind = "rows"    -> env[d.of].rows
    [] d.kind = "columns" -> env[d.of].cols

\* What read() checks before it looks at memory, and publish() before it
\* writes: in the order of the code.
ReadFault(view, rows, cols) ==
  IF Extent(rows, cols) # "ok" THEN "extent_overflow"
  ELSE IF view.rows # rows \/ view.cols # cols THEN "shape_mismatch"
  ELSE Validate(view, FALSE)

PublishFault(value, view) ==
  IF ~value.valid THEN "invalid_value"
  ELSE IF Validate(view, TRUE) # "ok" THEN Validate(view, TRUE)
  ELSE IF value.rows # view.rows \/ value.cols # view.cols THEN "shape_mismatch"
  ELSE "ok"
=============================================================================
