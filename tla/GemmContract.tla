---------------------------- MODULE GemmContract ----------------------------
(***************************************************************************)
(* The semantic contract of one mdsl.gemm: what the two bridges put into   *)
(* it (an explicit call, a recovered C++ loop), what GemmOp::verify        *)
(* demands of it, and the structural fingerprint by which an explicit and  *)
(* a recovered product are compared.  Transformations between the bridge   *)
(* and the verifier may change fields of the contract.                     *)
(***************************************************************************)
EXTENDS Integers, Sequences, FiniteSets, SequencesExt, TLC

CONSTANTS
  Extent,     \* static extents and strides a contract may state
  Symbol,     \* names of dynamic extents
  Position,   \* source offsets
  MaxChanges, \* fields changed after the contract was built
  Other       \* a value of a field that is none of the vocabulary

ConstantsAssumption ==
  Extent \subseteq Nat /\ Position \subseteq Nat /\ MaxChanges \in Nat

VARIABLES contract, type, changes

vars == <<contract, type, changes>>

Dynamic == -1
Tensor == {"lhs", "rhs", "output"}
Static(n) == <<"static", n>>
Named(s) == <<"dynamic", s>>
Scalar == {Static(n) : n \in Extent} \cup {Named(s) : s \in Symbol}

------------------------------------------------------------------------------
(* Contracts as they are built. *)

Origins == {"explicit", "proven", "rejected"}

\* numericalAttribute and recoveredNumerical: a loop whose rewriting is proven
\* allows what an explicit call allows, and says where the proof comes from.
ExplicitNumerical ==
  [profile |-> "explicit", derivation |-> "contract", reassociation |-> "within_k",
   contraction |-> "allowed", reduction_order |-> "any_within_k", nan |-> "classification",
   signed_zero |-> "relaxed", inplace |-> FALSE, approximate_math |-> FALSE]
RecoveredNumerical == [ExplicitNumerical EXCEPT !.profile = "proven", !.derivation = "cpp"]

TypeOfScalar(s) == IF s[1] = "static" THEN s[2] ELSE Dynamic
TensorType(shape) == <<TypeOfScalar(shape[1]), TypeOfScalar(shape[2])>>

\* tensorSemantics and recoveredTensor: row major, contiguous.
Semantics(tensor, shape) ==
  [role |-> tensor, mutability |-> IF tensor = "output" THEN "write" ELSE "read",
   layout |-> "row_major", shape |-> shape, strides |-> <<shape[2], Static(1)>>]

ExplicitProvenance ==
  [kind |-> "explicit_call", offset |-> 1, range |-> <<1, 5>>,
   parts |-> <<[kind |-> "argument", at |-> <<2, 3>>], [kind |-> "argument", at |-> <<3, 4>>],
               [kind |-> "argument", at |-> <<4, 5>>]>>]

RecoveredProvenance ==
  [kind |-> "recovered_cpp_loop", offset |-> 1, range |-> <<1, 5>>,
   parts |-> <<[kind |-> "outer_loop", at |-> <<1, 5>>],
               [kind |-> "accumulator_update", at |-> <<3, 4>>],
               [kind |-> "output_store", at |-> <<4, 5>>]>>]

Built(origin, m, n, k) ==
  [origin |-> origin,
   policy |-> IF origin = "explicit" THEN <<"cpu", "error">>
              ELSE <<"generic", "preserve_original_cpp">>,
   numerical |-> IF origin = "explicit" THEN ExplicitNumerical ELSE RecoveredNumerical,
   provenance |-> IF origin = "explicit" THEN ExplicitProvenance ELSE RecoveredProvenance,
   aliasing |-> <<<<"output", "lhs">>, <<"output", "rhs">>>>,
   effects |-> [reads |-> <<"lhs", "rhs">>, writes |-> <<"output">>, read_write |-> <<>>],
   synchronization |-> "synchronous",
   tensors |-> [t \in Tensor |->
      CASE t = "lhs" -> Semantics(t, <<m, k>>)
        [] t = "rhs" -> Semantics(t, <<k, n>>)
        [] t = "output" -> Semantics(t, <<m, n>>)]]

\* appendGemmSemanticSiteV1: the function type beside the contract.
TypeOf(c) == [t \in Tensor |-> TensorType(c.tensors[t].shape)]

\* An explicit call may state extents; a recovered loop has parameters for them.
Issued ==
  {Built("explicit", m, n, k) : m, n, k \in Scalar}
  \cup {Built("proven", Named(m), Named(n), Named(k)) : m, n, k \in Symbol}

------------------------------------------------------------------------------
(* GemmOp::verify. *)

\* verifyScalarExpression, against one dimension of the type.
ScalarMatches(s, dimension) ==
  IF s[1] = "static" THEN s[2] > 0 /\ s[2] = dimension ELSE dimension = Dynamic

\* verifyStrideExpression.
StrideStated(s) == s[1] = "static" => s[2] > 0
TensorVerifies(tensor, s, dims) ==
  /\ s.role = tensor /\ s.mutability = (IF tensor = "output" THEN "write" ELSE "read")
  /\ \A i \in 1..2 : ScalarMatches(s.shape[i], dims[i]) /\ StrideStated(s.strides[i])
  /\ s.layout = "row_major" /\ s.strides[1] = s.shape[2] /\ s.strides[2] = Static(1)

ShapesAgree(tensors) ==
  /\ tensors["lhs"].shape[1] = tensors["output"].shape[1]
  /\ tensors["lhs"].shape[2] = tensors["rhs"].shape[1]
  /\ tensors["rhs"].shape[2] = tensors["output"].shape[2]

RangeVerifies(r) == r[1] >= 0 /\ r[1] < r[2]
ExplicitVerifies(p) ==
  /\ p.kind = "explicit_call" /\ RangeVerifies(p.range) /\ p.range[1] = p.offset
  /\ Len(p.parts) \in 3..4
  /\ \A i \in DOMAIN p.parts :
       /\ RangeVerifies(p.parts[i].at)
       /\ p.parts[i].at[1] >= (IF i = 1 THEN p.range[1] ELSE p.parts[i - 1].at[2])
       /\ p.parts[i].at[2] <= p.range[2]

\* verifyRecoveredProvenance.
RecoveredVerifies(p) ==
  LET kinds == {part.kind : part \in Range(p.parts)} IN
  /\ p.kind = "recovered_cpp_loop" /\ RangeVerifies(p.range) /\ p.range[1] = p.offset
  /\ Len(p.parts) >= 3 /\ Cardinality(kinds) = Len(p.parts)
  /\ {"outer_loop", "accumulator_update", "output_store"} \subseteq kinds
  /\ \A part \in Range(p.parts) :
       /\ part.at[1] >= p.range[1] /\ part.at[1] < part.at[2] /\ part.at[2] <= p.range[2]
       /\ part.kind = "outer_loop" => part.at = p.range

\* verifyNumerical: the values the origin has; a loop that was recognized but
\* may not be rewritten keeps the order of its source.
NumericalVerifies(n, origin) ==
  /\ ~n.inplace /\ ~n.approximate_math
  /\ n.profile = origin /\ n.derivation = IF origin = "explicit" THEN "contract" ELSE "cpp"
  /\ <<n.reassociation, n.contraction, n.reduction_order, n.nan, n.signed_zero>> =
       IF origin = "rejected"
       THEN <<"forbidden", "statement", "increasing_k", "strict", "preserve">>
       ELSE <<"within_k", "allowed", "any_within_k", "classification", "relaxed">>

PolicyVerifies(policy, origin) ==
  policy = IF origin = "explicit" THEN <<"cpu", "error">> ELSE <<"generic", "preserve_original_cpp">>

AliasingVerifies(aliasing) == aliasing = <<<<"output", "lhs">>, <<"output", "rhs">>>>

EffectsVerify(effects) ==
  effects = [reads |-> <<"lhs", "rhs">>, writes |-> <<"output">>, read_write |-> <<>>]

Verifies(c, t) ==
  /\ c.origin \in Origins
  /\ \A tensor \in Tensor : TensorVerifies(tensor, c.tensors[tensor], t[tensor])
  /\ ShapesAgree(c.tensors)
  /\ AliasingVerifies(c.aliasing) /\ EffectsVerify(c.effects)
  /\ c.synchronization = "synchronous"
  /\ PolicyVerifies(c.policy, c.origin) /\ NumericalVerifies(c.numerical, c.origin)
  /\ IF c.origin = "explicit" THEN ExplicitVerifies(c.provenance)
     ELSE RecoveredVerifies(c.provenance)

\* The site checks of verifyMatcoreV1BridgeModule and
\* verifyRecoveredGemmAnalysisModuleV1.
AcceptedByV1(c, t) == Verifies(c, t) /\ c.origin = "explicit"
AcceptedAsRecovered(c, t) == Verifies(c, t) /\ c.origin = "proven"

------------------------------------------------------------------------------
(* fingerprintStructuralMathematicalGemmV1. *)

Scalars(c) ==
  FlattenSeq([i \in 1..3 |-> LET s == c.tensors[<<"lhs", "rhs", "output">>[i]]
                             IN  s.shape \o s.strides])
Normalized(scalars) ==
  LET before(i) == {scalars[j] : j \in {x \in 1..(i - 1) : scalars[x][1] = "dynamic"}}
      first(i) == CHOOSE j \in 1..i : scalars[j] = scalars[i] /\ scalars[i] \notin before(j)
  IN  [i \in DOMAIN scalars |->
         IF scalars[i][1] = "static" THEN scalars[i] ELSE <<"d", Cardinality(before(first(i)))>>]

TensorFingerprint(c, tensor) ==
  <<TensorType(c.tensors[tensor].shape), c.tensors[tensor].layout, c.tensors[tensor].mutability,
    c.tensors[tensor].role>>

Fingerprint(c) ==
  [scalars |-> Normalized(Scalars(c)),
   tensors |-> [t \in Tensor |-> TensorFingerprint(c, t)],
   aliasing |-> c.aliasing, effects |-> c.effects, synchronization |-> c.synchronization,
   numerical |-> [f \in DOMAIN c.numerical \ {"profile", "derivation"} |-> c.numerical[f]]]

------------------------------------------------------------------------------
(* Changes between the bridge and the verifier. *)

ChangedContracts(c) ==
  {[c EXCEPT !.origin = o] : o \in Origins \cup {Other}}
  \cup {[c EXCEPT !.policy = <<"cpu", "error">>], [c EXCEPT !.synchronization = Other]}
  \cup {[c EXCEPT !.numerical[f] = v] : f \in DOMAIN c.numerical \ {"inplace", "approximate_math"},
          v \in {Other, "within_k", "allowed", "relaxed", "strict"}}
  \cup {[c EXCEPT !.tensors[t].shape[i] = s] : t \in Tensor, i \in 1..2, s \in Scalar}
  \cup {[c EXCEPT !.tensors[t].strides[i] = s] : t \in Tensor, i \in 1..2, s \in Scalar}
  \cup {[c EXCEPT !.tensors[t].role = u] : t, u \in Tensor}
  \cup {[c EXCEPT !.provenance.parts[i].at = <<b, e>>] : i \in 1..3, b, e \in Position}
  \cup {[c EXCEPT !.provenance.range = <<b, e>>] : b, e \in Position}
  \cup {[c EXCEPT !.aliasing = Tail(c.aliasing)], [c EXCEPT !.effects.writes = <<>>]}

ChangeContract ==
  /\ changes < MaxChanges
  /\ contract' \in ChangedContracts(contract)
  /\ changes' = changes + 1 /\ UNCHANGED type

ChangeType ==
  /\ changes < MaxChanges
  /\ \E t \in Tensor, i \in 1..2, d \in Extent \cup {Dynamic} : type' = [type EXCEPT ![t][i] = d]
  /\ changes' = changes + 1 /\ UNCHANGED contract

Init == contract \in Issued /\ type = TypeOf(contract) /\ changes = 0
Next == ChangeContract \/ ChangeType
Spec == Init /\ [][Next]_vars

------------------------------------------------------------------------------
(* Properties. *)

\* What a bridge builds, the verifier accepts.
BuiltIsAccepted ==
  changes = 0 => AcceptedByV1(contract, type) \/ AcceptedAsRecovered(contract, type)

\* The three matrices of an accepted contract fit each other, and each is laid
\* out densely, for every value the named extents can take.
AcceptedShapesMultiply ==
  Verifies(contract, type) =>
    \A value \in [Symbol -> 1..2] :
      LET at(s) == IF s[1] = "static" THEN s[2] ELSE value[s[2]]
          dims(t) == <<at(contract.tensors[t].shape[1]), at(contract.tensors[t].shape[2])>>
          address(t, i, j) == i * at(contract.tensors[t].strides[1]) + j * at(contract.tensors[t].strides[2])
      IN  /\ dims("lhs")[2] = dims("rhs")[1]
          /\ dims("output") = <<dims("lhs")[1], dims("rhs")[2]>>
          /\ \A t \in Tensor :
               {address(t, i, j) : i \in 0..(dims(t)[1] - 1), j \in 0..(dims(t)[2] - 1)}
                 = 0..(dims(t)[1] * dims(t)[2] - 1)

\* The source text of the arguments of an accepted explicit call is inside the
\* call, in order and without overlap.
AcceptedArgumentsAreApart ==
  AcceptedByV1(contract, type) =>
    LET p == contract.provenance IN
    \A i, j \in DOMAIN p.parts :
      /\ p.range[1] <= p.parts[i].at[1] /\ p.parts[i].at[2] <= p.range[2]
      /\ i < j => p.parts[i].at[2] <= p.parts[j].at[1]

\* Two accepted products have one fingerprint exactly when a renaming of their
\* extents turns one into the other and they allow the same arithmetic.
SameUpToNames(c, d) ==
  LET old == Scalars(c)
      new == Scalars(d)
      symbols(scalars) == {s[2] : s \in {y \in Range(scalars) : y[1] = "dynamic"}}
      renamed(f) == [i \in DOMAIN old |->
                       IF old[i][1] = "static" THEN old[i] ELSE Named(f[old[i][2]])]
  IN  /\ c.numerical.reassociation = d.numerical.reassociation
      /\ c.numerical.signed_zero = d.numerical.signed_zero
      /\ Cardinality(symbols(old)) = Cardinality(symbols(new))
      /\ \E f \in [symbols(old) -> symbols(new)] :
           /\ \A x, y \in symbols(old) : f[x] = f[y] => x = y
           /\ renamed(f) = new

EqualFingerprintsMeanEqualProducts ==
  Verifies(contract, type) =>
    LET print == Fingerprint(contract)
    IN  \A other \in Issued :
          (print = Fingerprint(other)) <=> SameUpToNames(contract, other)
=============================================================================
