---------------------- MODULE ClosedHostSessionProofs ----------------------
(***************************************************************************)
(* Proofs about ClosedHostSession, for every region, all views and every   *)
(* order of calls: a session keeps what SessionIsSound says of it, its     *)
(* first verdict stands, and the calls the emitter writes for a plan are a *)
(* run of the region as written.                                           *)
(***************************************************************************)
EXTENDS ClosedHostSession, FiniteSetTheorems, NaturalsInduction, WellFoundedInduction, TLAPS

-----------------------------------------------------------------------------
(* Recursive definitions of the model, unfolded.                           *)

\* Induction up to a bound, for the numbers of a set.
LEMMA UpTo ==
  ASSUME NEW n \in Nat, NEW G, 0 \in G, \A i \in 1 .. n : i - 1 \in G => i \in G
  PROVE  \A i \in 0 .. n : i \in G
<1> DEFINE S == {i \in 0 .. n : i \notin G}
<1> SUFFICES ASSUME S # {} PROVE FALSE
  OBVIOUS
<1>1. \E k \in S : \A j \in S : ~(<<j, k>> \in OpToRel(<, Nat))
  <2>1. S \subseteq Nat OBVIOUS
  <2> HIDE DEF S
  <2> QED BY <2>1, NatLessThanWellFounded, WFMin
<1>2. PICK k \in S : \A j \in S : ~(<<j, k>> \in OpToRel(<, Nat))
  BY <1>1
<1>3. k \in 1 .. n /\ k - 1 \in 0 .. n
  <2>1. k \in 0 .. n /\ k # 0 OBVIOUS
  <2> QED BY <2>1
<1>4. k - 1 \notin S
  <2>1. <<k - 1, k>> \in OpToRel(<, Nat) BY <1>3 DEF OpToRel
  <2> HIDE DEF S
  <2> QED BY <1>2, <2>1
<1> QED BY <1>2, <1>3, <1>4

\* Transitions of n steps, and what it is to follow them.
Transitions(S, n) == [1 .. n -> [S -> S]]
IsPath(f, S, base, F, n) ==
  f \in [0 .. n -> S] /\ f[0] = base /\ \A i \in 1 .. n : f[i] = F[i][f[i - 1]]

\* A function that is defined step by step exists.
LEMMA Recursion ==
  ASSUME NEW S, NEW base \in S, NEW n \in Nat, NEW F \in Transitions(S, n)
  PROVE  \E f : IsPath(f, S, base, F, n)
<1> USE DEF Transitions
<1> DEFINE Defined(f, k) == f[0] = base /\ \A i \in 1 .. k : f[i] = F[i][f[i - 1]]
           G == {k \in 0 .. n : \E f \in [0 .. k -> S] : Defined(f, k)}
<1>1. 0 \in G
  <2> DEFINE f == [i \in 0 .. 0 |-> base]
  <2>1. f \in [0 .. 0 -> S] /\ Defined(f, 0) OBVIOUS
  <2>2. 0 \in 0 .. n OBVIOUS
  <2> QED BY <2>1, <2>2
<1>2. ASSUME NEW k \in 1 .. n, k - 1 \in G PROVE k \in G
  <2>1. PICK g \in [0 .. k - 1 -> S] : Defined(g, k - 1) BY <1>2
  <2> DEFINE f == [i \in 0 .. k |-> IF i = k THEN F[k][g[k - 1]] ELSE g[i]]
  <2>2. k - 1 \in 0 .. k - 1 /\ F[k] \in [S -> S] /\ g[k - 1] \in S OBVIOUS
  <2>3. f \in [0 .. k -> S] BY <2>2
  <2>4. f[0] = base
    <3>1. 0 \in 0 .. k /\ 0 # k OBVIOUS
    <3> QED BY <3>1, <2>1
  <2>5. ASSUME NEW i \in 1 .. k PROVE f[i] = F[i][f[i - 1]]
    <3>1. i - 1 \in 0 .. k /\ i - 1 # k /\ i \in 0 .. k OBVIOUS
    <3>2. f[i - 1] = g[i - 1] BY <3>1
    <3>3. CASE i = k BY <3>2, <3>3, <3>1
    <3>4. CASE i # k
      <4>1. i \in 1 .. k - 1 BY <3>4
      <4>2. g[i] = F[i][g[i - 1]] BY <4>1, <2>1
      <4> QED BY <4>2, <3>1, <3>2, <3>4
    <3> QED BY <3>3, <3>4
  <2> HIDE DEF f
  <2>6. Defined(f, k) BY <2>4, <2>5
  <2>7. \E h \in [0 .. k -> S] : Defined(h, k) BY <2>3, <2>6
  <2> HIDE DEF Defined
  <2>8. k \in 0 .. n OBVIOUS
  <2> QED BY <2>7, <2>8
<1>3. n \in G
  <2>1. \A i \in 1 .. n : i - 1 \in G => i \in G BY <1>2
  <2> HIDE DEF G
  <2>2. \A i \in 0 .. n : i \in G BY <1>1, <2>1, UpTo
  <2> QED BY <2>2
<1>4. PICK f \in [0 .. n -> S] : Defined(f, n) BY <1>3
<1> QED BY <1>4 DEF IsPath

\* What a publication or the boundary of a shape-if does to the binding.
LEMMA BindingCases ==
  ASSUME NEW binding, NEW op
  PROVE  /\ op.kind = "publish" => BindingAfter(binding, op) = [res |-> op.res, value |-> op.lhs]
         /\ op.kind \in {"if", "else", "endif"} => BindingAfter(binding, op) = NoBinding
         /\ op.kind \notin {"publish", "if", "else", "endif"} => BindingAfter(binding, op) = binding
BY DEF BindingAfter

\* The binding after an operation depends on the one before it only.
LEMMA BindingsUnfold ==
  ASSUME NEW prog, Len(prog) \in Nat
  PROVE  /\ Bindings(prog)[0] = NoBinding
         /\ \A i \in 1 .. Len(prog) :
              Bindings(prog)[i] = BindingAfter(Bindings(prog)[i - 1], prog[i])
<1> DEFINE n == Len(prog)
           Eq(f) == f = [i \in 0 .. n |-> IF i = 0 THEN NoBinding
                                          ELSE BindingAfter(f[i - 1], prog[i])]
<1>1. Bindings(prog) = CHOOSE f : Eq(f)
  BY DEF Bindings
<1>2. \E f : Eq(f)
  <2> DEFINE S == {NoBinding} \cup {BindingAfter(NoBinding, prog[j]) : j \in 1 .. n}
             F == [i \in 1 .. n |-> [b \in S |-> BindingAfter(b, prog[i])]]
  <2>1. F \in [1 .. n -> [S -> S]]
    <3>1. ASSUME NEW i \in 1 .. n, NEW b \in S PROVE BindingAfter(b, prog[i]) \in S
      <4>1. \/ BindingAfter(b, prog[i]) = BindingAfter(NoBinding, prog[i])
            \/ BindingAfter(b, prog[i]) = b
        BY BindingCases, Zenon
      <4> QED BY <4>1
    <3> HIDE DEF S
    <3> QED BY <3>1
  <2>2. NoBinding \in S OBVIOUS
  <2>3. \A i \in 1 .. n : \A b \in S : F[i][b] = BindingAfter(b, prog[i]) OBVIOUS
  <2> HIDE DEF S, F
  <2>7. F \in Transitions(S, n) /\ n \in Nat BY <2>1 DEF Transitions
  <2>8. PICK f : IsPath(f, S, NoBinding, F, n) BY <2>2, <2>7, Recursion
  <2>4. f \in [0 .. n -> S] /\ f[0] = NoBinding /\ \A i \in 1 .. n : f[i] = F[i][f[i - 1]]
    BY <2>8 DEF IsPath
  <2>5. ASSUME NEW i \in 0 .. n
        PROVE  f[i] = IF i = 0 THEN NoBinding ELSE BindingAfter(f[i - 1], prog[i])
    <3>1. CASE i = 0 BY <3>1, <2>4
    <3>2. CASE i # 0
      <4>1. i \in 1 .. n /\ i - 1 \in 0 .. n BY <3>2
      <4>2. f[i - 1] \in S BY <4>1, <2>4
      <4> QED BY <3>2, <4>1, <4>2, <2>3, <2>4
    <3> QED BY <3>1, <3>2
  <2>6. Eq(f) BY <2>4, <2>5
  <2> QED BY <2>6
<1>3. Eq(Bindings(prog)) BY <1>1, <1>2, Zenon
<1>4. \A i \in 0 .. n : Bindings(prog)[i] = IF i = 0 THEN NoBinding
                          ELSE BindingAfter(Bindings(prog)[i - 1], prog[i])
  BY <1>3, Zenon
<1>5. 0 \in 0 .. n /\ \A i \in 1 .. n : i \in 0 .. n /\ i # 0 OBVIOUS
<1> QED BY <1>4, <1>5

\* So does the sequence of the sums of a sequence of numbers.
LEMMA Sums ==
  ASSUME NEW n \in Nat, NEW T \in [1 .. n -> Nat]
  PROVE  \E f \in [0 .. n -> Nat] : f[0] = 0 /\ \A i \in 1 .. n : f[i] = f[i - 1] + T[i]
<1> DEFINE F == [i \in 1 .. n |-> [x \in Nat |-> x + T[i]]]
<1>1. F \in Transitions(Nat, n) BY DEF Transitions
<1>2. \A i \in 1 .. n : \A x \in Nat : F[i][x] = x + T[i] OBVIOUS
<1> HIDE DEF F
<1>3. PICK f : IsPath(f, Nat, 0, F, n)
  BY <1>1, Recursion
<1>4. f \in [0 .. n -> Nat] /\ f[0] = 0 /\ \A i \in 1 .. n : f[i] = F[i][f[i - 1]]
  BY <1>3 DEF IsPath
<1>5. \A i \in 1 .. n : i - 1 \in 0 .. n OBVIOUS
<1>6. \A i \in 1 .. n : f[i] = f[i - 1] + T[i]
  BY <1>2, <1>4, <1>5
<1> QED BY <1>4, <1>6

\* The pairs are eligible, and no operation is in two of them.
LEMMA PairsApart ==
  ASSUME NEW prog, NEW requested, Len(prog) \in Nat
  PROVE  \A i \in FusedPairs(prog, requested) :
           /\ i \in 1 .. Len(prog) /\ Eligible(prog, i)
           /\ i + 1 \notin FusedPairs(prog, requested)
           /\ requested = "strict-fused-pair"
<1> DEFINE n == Len(prog)
           First(p, i) == IF Eligible(prog, i) /\ (i - 1) \notin p THEN p \cup {i} ELSE p
           Eq(f) == f = [i \in 0 .. n |-> IF i = 0 THEN {} ELSE First(f[i - 1], i)]
           firsts == CHOOSE f : Eq(f)
<1>1. FusedPairs(prog, requested) = IF requested = "strict-fused-pair" THEN firsts[n] ELSE {}
  BY Zenon DEF FusedPairs
<1>2. \E f : Eq(f)
  <2> DEFINE S == SUBSET (1 .. n)
             F == [i \in 1 .. n |-> [p \in S |-> First(p, i)]]
  <2>1. F \in [1 .. n -> [S -> S]] /\ {} \in S OBVIOUS
  <2>2. \A i \in 1 .. n : \A p \in S : F[i][p] = First(p, i) OBVIOUS
  <2>6. F \in Transitions(S, n) /\ n \in Nat BY <2>1 DEF Transitions
  <2> HIDE DEF S, F, First
  <2>7. PICK f : IsPath(f, S, {}, F, n) BY <2>1, <2>6, Recursion
  <2>3. f \in [0 .. n -> S] /\ f[0] = {} /\ \A i \in 1 .. n : f[i] = F[i][f[i - 1]]
    BY <2>7 DEF IsPath
  <2>4. ASSUME NEW i \in 0 .. n PROVE f[i] = IF i = 0 THEN {} ELSE First(f[i - 1], i)
    <3>1. i # 0 => i \in 1 .. n /\ i - 1 \in 0 .. n OBVIOUS
    <3> QED BY <3>1, <2>2, <2>3
  <2>5. Eq(f) BY <2>3, <2>4
  <2> QED BY <2>5
<1> HIDE DEF First
<1>3. Eq(firsts) BY <1>2, Zenon
<1> HIDE DEF firsts
<1>4. \A i \in 0 .. n : firsts[i] = IF i = 0 THEN {} ELSE First(firsts[i - 1], i)
  BY <1>3, Zenon
<1> HIDE DEF Eq
<1> DEFINE Good(i) == \A k \in firsts[i] : /\ k \in 1 .. i /\ Eligible(prog, k)
                                           /\ k - 1 \notin firsts[i]
           G == {i \in 0 .. n : Good(i)}
<1>5. 0 \in G BY <1>4
<1>6. ASSUME NEW i \in 1 .. n, i - 1 \in G PROVE i \in G
  <2>1. Good(i - 1) BY <1>6
  <2>2. firsts[i] = First(firsts[i - 1], i) BY <1>4
  <2>3. ASSUME NEW k \in firsts[i]
        PROVE  k \in 1 .. i /\ Eligible(prog, k) /\ k - 1 \notin firsts[i]
    <3>1. CASE Eligible(prog, i) /\ (i - 1) \notin firsts[i - 1]
      <4>1. firsts[i] = firsts[i - 1] \cup {i} BY <2>2, <3>1 DEF First
      <4>2. CASE k = i
        <5>1. i - 1 # i OBVIOUS
        <5> QED BY <4>1, <4>2, <3>1, <5>1
      <4>3. CASE k # i
        <5>1. k \in firsts[i - 1] BY <4>1, <4>3
        <5>2. k \in 1 .. i - 1 /\ Eligible(prog, k) /\ k - 1 \notin firsts[i - 1] BY <5>1, <2>1
        <5>3. k \in 1 .. i /\ k - 1 # i BY <5>2
        <5> QED BY <4>1, <5>2, <5>3
      <4> QED BY <4>2, <4>3
    <3>2. CASE ~(Eligible(prog, i) /\ (i - 1) \notin firsts[i - 1])
      <4>1. firsts[i] = firsts[i - 1] BY <2>2, <3>2 DEF First
      <4>2. k \in 1 .. i - 1 /\ Eligible(prog, k) /\ k - 1 \notin firsts[i - 1] BY <4>1, <2>1
      <4>3. k \in 1 .. i BY <4>2
      <4> QED BY <4>1, <4>2, <4>3
    <3> QED BY <3>1, <3>2
  <2> QED BY <2>3
<1>7. n \in G
  <2>1. \A i \in 1 .. n : i - 1 \in G => i \in G BY <1>6
  <2> HIDE DEF G
  <2>2. \A i \in 0 .. n : i \in G BY <1>5, <2>1, UpTo
  <2> QED BY <2>2
<1>8. \A k \in firsts[n] : k \in 1 .. n /\ Eligible(prog, k) /\ k - 1 \notin firsts[n]
  BY <1>7
<1>9. ASSUME NEW k \in firsts[n] PROVE k + 1 \notin firsts[n]
  <2> SUFFICES ASSUME k + 1 \in firsts[n] PROVE FALSE OBVIOUS
  <2>1. (k + 1) - 1 \notin firsts[n] BY <1>8
  <2>2. (k + 1) - 1 = k BY <1>8
  <2> QED BY <2>1, <2>2, <1>9
<1> QED BY <1>1, <1>8, <1>9

\* How often an operation uses a value.
UsesAt(prog, v, i) == OperandUses(prog[i], v) + DimensionUses(prog[i], v)

\* Counted uses are numbers, and no use means that the value is not mentioned.
LEMMA UsesCount ==
  ASSUME NEW op, NEW v
  PROVE  /\ OperandUses(op, v) \in Nat /\ DimensionUses(op, v) \in Nat
         /\ OperandUses(op, v) = 0 => v \notin Operands(op)
         /\ DimensionUses(op, v) = 0 => v \notin DimensionValues(op)
<1> DEFINE named == {o \in {"lhs", "rhs"} : op[o] = v}
           fields == IF op.kind = "read" THEN {"rows", "cols"}
                     ELSE IF op.kind = "if" THEN {"lhs", "rhs"} ELSE {}
           shapes == {f \in fields : op[f].kind \in {"rows", "columns"} /\ op[f].of = v}
<1>1. IsFiniteSet({"lhs", "rhs"}) /\ IsFiniteSet(fields)
  <2>1. \A x, y : IsFiniteSet({x, y})
    <3> TAKE x, y
    <3>1. IsFiniteSet({x} \cup {y}) BY FS_Singleton, FS_AddElement
    <3>2. {x, y} = {x} \cup {y} OBVIOUS
    <3> QED BY <3>1, <3>2
  <2>2. IsFiniteSet({}) BY FS_EmptySet
  <2> QED BY <2>1, <2>2
<1>2. IsFiniteSet(named) /\ IsFiniteSet(shapes)
  <2>1. named \subseteq {"lhs", "rhs"} /\ shapes \subseteq fields OBVIOUS
  <2> HIDE DEF named, shapes, fields
  <2> QED BY <2>1, <1>1, FS_Subset
<1>3. /\ Cardinality(named) \in Nat /\ Cardinality(shapes) \in Nat
      /\ Cardinality(named) = 0 => named = {}
      /\ Cardinality(shapes) = 0 => shapes = {}
  <2> HIDE DEF named, shapes
  <2> QED BY <1>2, FS_CardinalityType, FS_EmptySet
<1>4. DimensionUses(op, v) = Cardinality(shapes) BY DEF DimensionUses
<1>5. shapes = {} => v \notin DimensionValues(op)
  BY DEF DimensionValues, Dimensions
<1>6. CASE op.kind = "gemm"
  <2>1. OperandUses(op, v) = Cardinality(named) BY <1>6 DEF OperandUses
  <2>2. named = {} => v \notin Operands(op) BY <1>6 DEF Operands
  <2> QED BY <2>1, <2>2, <1>3, <1>4, <1>5
<1>7. CASE op.kind = "publish"
  <2>1. OperandUses(op, v) = IF op.lhs = v THEN 1 ELSE 0 BY <1>7 DEF OperandUses
  <2>2. Operands(op) = {op.lhs} BY <1>7 DEF Operands
  <2> HIDE DEF named, shapes
  <2> QED BY <2>1, <2>2, <1>3, <1>4, <1>5
<1>8. CASE op.kind \notin {"gemm", "publish"}
  <2>1. OperandUses(op, v) = 0 /\ Operands(op) = {} BY <1>8 DEF OperandUses, Operands
  <2> HIDE DEF named, shapes
  <2> QED BY <2>1, <1>3, <1>4, <1>5
<1> QED BY <1>6, <1>7, <1>8

\* A value with one use is used by one operation.
LEMMA OneUse ==
  ASSUME NEW prog, NEW v, Len(prog) \in Nat, Uses(prog, v) = 1,
         NEW a \in 1 .. Len(prog), UsesAt(prog, v, a) # 0,
         NEW b \in 1 .. Len(prog), b # a
  PROVE  UsesAt(prog, v, b) = 0
<1> DEFINE n == Len(prog)
           Eq(f) == f = [i \in 0 .. n |->
                           IF i = 0 THEN 0
                           ELSE f[i - 1] + OperandUses(prog[i], v) + DimensionUses(prog[i], v)]
           sum == CHOOSE f : Eq(f)
<1>1. Uses(prog, v) = sum[n] BY Zenon DEF Uses
<1>2. \A i \in 1 .. n : /\ UsesAt(prog, v, i) \in Nat
                        /\ OperandUses(prog[i], v) \in Nat /\ DimensionUses(prog[i], v) \in Nat
  <2> TAKE i \in 1 .. n
  <2>1. OperandUses(prog[i], v) \in Nat /\ DimensionUses(prog[i], v) \in Nat BY UsesCount
  <2> QED BY <2>1 DEF UsesAt
<1>3. \E f : Eq(f)
  <2> DEFINE T == [i \in 1 .. n |-> UsesAt(prog, v, i)]
  <2>1. T \in [1 .. n -> Nat] /\ n \in Nat BY <1>2
  <2>2. \A i \in 1 .. n : T[i] = UsesAt(prog, v, i) OBVIOUS
  <2> HIDE DEF T
  <2>3. PICK f \in [0 .. n -> Nat] : f[0] = 0 /\ \A i \in 1 .. n : f[i] = f[i - 1] + T[i]
    BY <2>1, Sums
  <2>5. ASSUME NEW i \in 0 .. n
        PROVE  f[i] = IF i = 0 THEN 0
                      ELSE f[i - 1] + OperandUses(prog[i], v) + DimensionUses(prog[i], v)
    <3>1. CASE i = 0 BY <3>1, <2>3
    <3>2. CASE i # 0
      <4>1. i \in 1 .. n /\ i - 1 \in 0 .. n BY <3>2
      <4>2. f[i - 1] \in Nat BY <4>1, <2>3
      <4>3. f[i] = f[i - 1] + UsesAt(prog, v, i) BY <4>1, <2>2, <2>3
      <4>4. /\ UsesAt(prog, v, i) = OperandUses(prog[i], v) + DimensionUses(prog[i], v)
            /\ OperandUses(prog[i], v) \in Nat /\ DimensionUses(prog[i], v) \in Nat
        BY <4>1, <1>2 DEF UsesAt
      <4>5. \A x, y, z \in Nat : x + (y + z) = (x + y) + z OBVIOUS
      <4>6. f[i] = (f[i - 1] + OperandUses(prog[i], v)) + DimensionUses(prog[i], v)
        BY <4>2, <4>3, <4>4, <4>5
      <4> QED BY <4>6, <3>2
    <3> QED BY <3>1, <3>2
  <2>6. Eq(f) BY <2>3, <2>5
  <2> QED BY <2>6
<1>4. Eq(sum) BY <1>3, Zenon
<1> HIDE DEF sum
<1>5. \A i \in 0 .. n : sum[i] = IF i = 0 THEN 0
                          ELSE sum[i - 1] + OperandUses(prog[i], v) + DimensionUses(prog[i], v)
  BY <1>4, Zenon
<1> HIDE DEF Eq
<1> DEFINE Term(x) == IF x \in 1 .. n THEN UsesAt(prog, v, x) ELSE 0
           Good(i) == /\ sum[i] \in Nat
                      /\ a <= i /\ b > i => UsesAt(prog, v, a) <= sum[i]
                      /\ b <= i /\ a > i => UsesAt(prog, v, b) <= sum[i]
                      /\ a <= i /\ b <= i => UsesAt(prog, v, a) + UsesAt(prog, v, b) <= sum[i]
           G == {i \in 0 .. n : Good(i)}
<1>6. 0 \in G BY <1>5
<1>7. ASSUME NEW i \in 1 .. n, i - 1 \in G PROVE i \in G
  <2>1. Good(i - 1) BY <1>7
  <2>2. sum[i] = sum[i - 1] + UsesAt(prog, v, i)
    <3>1. sum[i] = sum[i - 1] + OperandUses(prog[i], v) + DimensionUses(prog[i], v) BY <1>5
    <3>2. /\ UsesAt(prog, v, i) = OperandUses(prog[i], v) + DimensionUses(prog[i], v)
          /\ OperandUses(prog[i], v) \in Nat /\ DimensionUses(prog[i], v) \in Nat
      BY <1>2 DEF UsesAt
    <3>3. \A p, q, r \in Nat : p + (q + r) = (p + q) + r OBVIOUS
    <3>4. sum[i - 1] \in Nat BY <2>1
    <3> QED BY <3>1, <3>2, <3>3, <3>4
  <2>3. \A x, y, s, u \in Nat :
          /\ s + u \in Nat /\ (x <= s => x <= s + u) /\ u <= s + u
          /\ (x <= s => x + u <= s + u /\ u + x <= s + u)
          /\ (x + y <= s => x + y <= s + u)
    OBVIOUS
  <2>4. /\ sum[i - 1] \in Nat /\ UsesAt(prog, v, i) \in Nat
        /\ UsesAt(prog, v, a) \in Nat /\ UsesAt(prog, v, b) \in Nat
    BY <2>1, <1>2
  <2>5. sum[i] \in Nat BY <2>2, <2>3, <2>4
  <2>6. ASSUME a <= i, b > i PROVE UsesAt(prog, v, a) <= sum[i]
    <3>1. CASE a = i BY <3>1, <2>2, <2>3, <2>4
    <3>2. CASE a # i
      <4>1. a <= i - 1 /\ b > i - 1 BY <2>6, <3>2
      <4>2. UsesAt(prog, v, a) <= sum[i - 1] BY <4>1, <2>1
      <4> QED BY <4>2, <2>2, <2>3, <2>4
    <3> QED BY <3>1, <3>2
  <2>7. ASSUME b <= i, a > i PROVE UsesAt(prog, v, b) <= sum[i]
    <3>1. CASE b = i BY <3>1, <2>2, <2>3, <2>4
    <3>2. CASE b # i
      <4>1. b <= i - 1 /\ a > i - 1 BY <2>7, <3>2
      <4>2. UsesAt(prog, v, b) <= sum[i - 1] BY <4>1, <2>1
      <4> QED BY <4>2, <2>2, <2>3, <2>4
    <3> QED BY <3>1, <3>2
  <2>8. ASSUME a <= i, b <= i PROVE UsesAt(prog, v, a) + UsesAt(prog, v, b) <= sum[i]
    <3>1. CASE a = i
      <4>1. b <= i - 1 /\ a > i - 1 BY <2>8, <3>1
      <4>2. UsesAt(prog, v, b) <= sum[i - 1] BY <4>1, <2>1
      <4> QED BY <4>2, <3>1, <2>2, <2>3, <2>4
    <3>2. CASE b = i
      <4>1. a <= i - 1 /\ b > i - 1 BY <2>8, <3>2
      <4>2. UsesAt(prog, v, a) <= sum[i - 1] BY <4>1, <2>1
      <4> QED BY <4>2, <3>2, <2>2, <2>3, <2>4
    <3>3. CASE a # i /\ b # i
      <4>1. a <= i - 1 /\ b <= i - 1 BY <2>8, <3>3
      <4>2. UsesAt(prog, v, a) + UsesAt(prog, v, b) <= sum[i - 1] BY <4>1, <2>1
      <4> QED BY <4>2, <2>2, <2>3, <2>4
    <3> QED BY <3>1, <3>2, <3>3
  <2>9. Good(i) BY <2>5, <2>6, <2>7, <2>8
  <2> QED BY <2>9
<1>8. n \in G
  <2>1. \A i \in 1 .. n : i - 1 \in G => i \in G BY <1>7
  <2> HIDE DEF G
  <2>2. \A i \in 0 .. n : i \in G BY <1>6, <2>1, UpTo
  <2> QED BY <2>2
<1>9. UsesAt(prog, v, a) + UsesAt(prog, v, b) <= 1 BY <1>8, <1>1
<1>10. UsesAt(prog, v, a) \in Nat \ {0} /\ UsesAt(prog, v, b) \in Nat BY <1>2
<1> QED BY <1>9, <1>10

-----------------------------------------------------------------------------
(* Structure of a well-formed body.                                        *)

Producing(prog, i) == i \in 1 .. Len(prog) /\ prog[i].kind \in {"read", "gemm"}

\* What verifyBody guarantees of every operation, as far as the proofs need it.
LEMMA Wellformed ==
  ASSUME NEW prog, WellFormed(prog)
  PROVE  /\ prog \in Seq(Operation) /\ Len(prog) \in Nat
         /\ \A i \in 1 .. Len(prog) : prog[i] \in Operation
         /\ \A i \in Ifs(prog) :
              /\ i \in 1 .. Len(prog) /\ prog[i].kind = "if"
              /\ prog[i].elseAt \in i + 1 .. Len(prog)
              /\ prog[i].endAt \in prog[i].elseAt + 1 .. Len(prog)
              /\ prog[prog[i].elseAt].kind = "else"
              /\ prog[prog[i].elseAt].endAt = prog[i].endAt
              /\ prog[prog[i].endAt].kind = "endif"
         /\ \A k \in 1 .. Len(prog) :
              prog[k].kind = "else" => \E i \in Ifs(prog) : k = prog[i].elseAt
         /\ \A i \in 1 .. Len(prog) : \A v \in Operands(prog[i]) \cup DimensionValues(prog[i]) :
              v \in 1 .. i - 1 /\ Producing(prog, v) /\ Dominates(prog, v, i)
<1>1. prog \in Seq(Operation) BY Zenon DEF WellFormed
<1>2. Len(prog) \in Nat /\ \A i \in 1 .. Len(prog) : prog[i] \in Operation BY <1>1
<1>3. ASSUME NEW i \in Ifs(prog)
      PROVE  /\ i \in 1 .. Len(prog) /\ prog[i].kind = "if"
             /\ prog[i].elseAt \in i + 1 .. Len(prog)
             /\ prog[i].endAt \in prog[i].elseAt + 1 .. Len(prog)
             /\ prog[prog[i].elseAt].kind = "else"
             /\ prog[prog[i].elseAt].endAt = prog[i].endAt
             /\ prog[prog[i].endAt].kind = "endif"
  <2>1. i \in 1 .. Len(prog) /\ prog[i].kind = "if" BY DEF Ifs
  <2>2. prog[i].elseAt \in Nat /\ prog[i].endAt \in Nat
    <3>1. prog[i] \in Operation BY <2>1, <1>2
    <3> QED BY <3>1, <2>1 DEF Operation
  <2>3. /\ i < prog[i].elseAt /\ prog[i].elseAt < prog[i].endAt /\ prog[i].endAt <= Len(prog)
        /\ prog[prog[i].elseAt] = Else(prog[i].endAt) /\ prog[prog[i].endAt] = EndIf
    BY Zenon DEF WellFormed
  <2>4. /\ Else(prog[i].endAt).kind = "else" /\ Else(prog[i].endAt).endAt = prog[i].endAt
        /\ EndIf.kind = "endif"
    BY DEF Else, EndIf
  <2> QED BY <2>1, <2>2, <2>3, <2>4, <1>2
<1>4. \A k \in 1 .. Len(prog) : prog[k].kind = "else" => \E i \in Ifs(prog) : k = prog[i].elseAt
  BY Zenon DEF WellFormed
<1>5. ASSUME NEW i \in 1 .. Len(prog), NEW v \in Operands(prog[i]) \cup DimensionValues(prog[i])
      PROVE  v \in 1 .. i - 1 /\ Producing(prog, v) /\ Dominates(prog, v, i)
  <2>1. v \in 1 .. i - 1 /\ prog[v].kind \in {"read", "gemm"} /\ Dominates(prog, v, i)
    BY Zenon DEF WellFormed
  <2>2. v \in 1 .. Len(prog) BY <2>1, <1>2
  <2> QED BY <2>1, <2>2 DEF Producing
<1> QED BY <1>1, <1>2, <1>3, <1>4, <1>5

\* Where control goes from a marker is further on.
LEMMA ElseTarget ==
  ASSUME NEW prog, WellFormed(prog), NEW k \in 1 .. Len(prog), prog[k].kind = "else"
  PROVE  /\ prog[k].endAt + 1 \in k + 1 .. Len(prog) + 1
         /\ prog[prog[k].endAt].kind = "endif"
<1>1. PICK i \in Ifs(prog) : k = prog[i].elseAt BY Wellformed
<1>2. /\ Len(prog) \in Nat /\ prog[i].endAt \in k + 1 .. Len(prog)
      /\ prog[k].endAt = prog[i].endAt /\ prog[prog[i].endAt].kind = "endif"
  BY <1>1, Wellformed
<1> QED BY <1>2

\* Settle, one step of it.
SettleStep(prog, to, j) ==
  IF j = Len(prog) + 1 \/ ~Marker(prog[j]) THEN j
  ELSE IF prog[j].kind = "else" THEN to[prog[j].endAt + 1]
  ELSE to[j + 1]

\* Control passes the markers that end an arm one at a time.
LEMMA SettleUnfold ==
  ASSUME NEW prog, WellFormed(prog), NEW i \in 1 .. Len(prog) + 1
  PROVE  Settle(prog, i) = IF i = Len(prog) + 1 \/ ~Marker(prog[i]) THEN i
                           ELSE IF prog[i].kind = "else" THEN Settle(prog, prog[i].endAt + 1)
                           ELSE Settle(prog, i + 1)
<1> DEFINE n == Len(prog)
           Eq(f) == f = [j \in 1 .. n + 1 |-> SettleStep(prog, f, j)]
           to == CHOOSE f : Eq(f)
<1>0. n \in Nat BY Wellformed
<1>1. \A k : Settle(prog, k) = to[k] BY Zenon DEF Settle, SettleStep
<1>2. ASSUME NEW k \in 0 .. n, NEW f, NEW g, NEW j \in n + 1 - k .. n + 1,
             \A l \in j + 1 .. n + 1 : f[l] = g[l]
      PROVE  SettleStep(prog, f, j) = SettleStep(prog, g, j)
  <2>1. j \in 1 .. n + 1 BY <1>0
  <2>2. CASE j = n + 1 \/ ~Marker(prog[j]) BY <2>2, Zenon DEF SettleStep
  <2>3. CASE j # n + 1 /\ Marker(prog[j]) /\ prog[j].kind = "else"
    <3>1. j \in 1 .. n BY <2>1, <2>3, <1>0
    <3>2. prog[j].endAt + 1 \in j + 1 .. n + 1 BY <3>1, <2>3, ElseTarget
    <3>3. f[prog[j].endAt + 1] = g[prog[j].endAt + 1] BY <3>2, <1>2
    <3> QED BY <3>3, <2>3, Zenon DEF SettleStep
  <2>4. CASE j # n + 1 /\ Marker(prog[j]) /\ prog[j].kind # "else"
    <3>1. j + 1 \in j + 1 .. n + 1 BY <2>1, <2>4, <1>0
    <3>2. f[j + 1] = g[j + 1] BY <3>1, <1>2
    <3> QED BY <3>2, <2>4, Zenon DEF SettleStep
  <2> QED BY <2>2, <2>3, <2>4
<1> DEFINE Holds(f, k) == \A j \in n + 1 - k .. n + 1 : f[j] = SettleStep(prog, f, j)
           G == {k \in 0 .. n : \E f : Holds(f, k)}
<1>3. 0 \in G
  <2> DEFINE f == [j \in {n + 1} |-> n + 1]
  <2>1. \A j \in n + 1 - 0 .. n + 1 : j = n + 1 BY <1>0
  <2>2. SettleStep(prog, f, n + 1) = n + 1 BY Zenon DEF SettleStep
  <2>3. f[n + 1] = n + 1 OBVIOUS
  <2> HIDE DEF f
  <2>4. Holds(f, 0) BY <2>1, <2>2, <2>3
  <2>5. 0 \in 0 .. n BY <1>0
  <2> QED BY <2>4, <2>5
<1>4. ASSUME NEW k \in 1 .. n, k - 1 \in G PROVE k \in G
  <2>1. PICK g : Holds(g, k - 1) BY <1>4
  <2> DEFINE f == [j \in 1 .. n + 1 |-> IF j = n + 1 - k THEN SettleStep(prog, g, j) ELSE g[j]]
  <2>2. k \in 0 .. n /\ n + 1 - k \in 1 .. n /\ k - 1 \in 0 .. n BY <1>0
  <2>3. ASSUME NEW j \in n + 1 - k .. n + 1 PROVE f[j] = SettleStep(prog, f, j)
    <3>1. \A l \in j + 1 .. n + 1 : l \in 1 .. n + 1 /\ l # n + 1 - k BY <2>2, <1>0
    <3>2. \A l \in j + 1 .. n + 1 : f[l] = g[l] BY <3>1
    <3>3. j \in 1 .. n + 1 BY <2>2, <1>0
    <3>4. f[j] = IF j = n + 1 - k THEN SettleStep(prog, g, j) ELSE g[j] BY <3>3
    <3> HIDE DEF f
    <3>5. SettleStep(prog, f, j) = SettleStep(prog, g, j) BY <1>2, <2>2, <3>2
    <3>6. CASE j = n + 1 - k BY <3>4, <3>5, <3>6
    <3>7. CASE j # n + 1 - k
      <4>1. j \in n + 1 - (k - 1) .. n + 1 BY <3>7, <2>2, <1>0
      <4>2. g[j] = SettleStep(prog, g, j) BY <4>1, <2>1
      <4> QED BY <4>2, <3>4, <3>5, <3>7
    <3> QED BY <3>6, <3>7
  <2> HIDE DEF f
  <2>4. Holds(f, k) BY <2>3
  <2> QED BY <2>4, <2>2
<1>5. \E f : Eq(f)
  <2>1. \A k \in 1 .. n : k - 1 \in G => k \in G BY <1>4
  <2>2. n \in G
    <3> HIDE DEF G
    <3>1. \A k \in 0 .. n : k \in G BY <1>0, <1>3, <2>1, UpTo
    <3> QED BY <3>1, <1>0
  <2>3. PICK g : Holds(g, n) BY <2>2
  <2>4. n + 1 - n = 1 BY <1>0
  <2>5. \A j \in 1 .. n + 1 : g[j] = SettleStep(prog, g, j) BY <2>3, <2>4
  <2> DEFINE f == [j \in 1 .. n + 1 |-> g[j]]
  <2>6. \A j \in 1 .. n + 1 : f[j] = g[j] OBVIOUS
  <2>7. f = [j \in 1 .. n + 1 |-> f[j]] OBVIOUS
  <2> HIDE DEF f
  <2>8. ASSUME NEW j \in 1 .. n + 1 PROVE f[j] = SettleStep(prog, f, j)
    <3>1. \A l \in j + 1 .. n + 1 : f[l] = g[l] BY <2>6, <1>0
    <3>2. n \in 0 .. n /\ j \in n + 1 - n .. n + 1 BY <1>0
    <3>3. SettleStep(prog, f, j) = SettleStep(prog, g, j) BY <3>1, <3>2, <1>2
    <3> QED BY <3>3, <2>5, <2>6
  <2>9. Eq(f) BY <2>7, <2>8
  <2> QED BY <2>9
<1>6. Eq(to) BY <1>5, Zenon
<1> HIDE DEF to
<1>7. to[i] = SettleStep(prog, to, i) BY <1>6, Zenon
<1> HIDE DEF Eq
<1> QED BY <1>7, <1>1, Zenon DEF SettleStep

\* The arms of a body are intervals of it.
LEMMA ArmBounds ==
  ASSUME NEW prog, WellFormed(prog), NEW arm \in Arms(prog)
  PROVE  arm[1] \in Nat /\ arm[2] \in Nat
<1>1. PICK i \in Ifs(prog) : arm = <<i, prog[i].elseAt>> \/ arm = <<prog[i].elseAt, prog[i].endAt>>
  BY Zenon DEF Arms
<1>2. i \in Nat /\ prog[i].elseAt \in Nat /\ prog[i].endAt \in Nat
  <2>1. /\ Len(prog) \in Nat /\ i \in 1 .. Len(prog)
        /\ prog[i].elseAt \in i + 1 .. Len(prog)
        /\ prog[i].endAt \in prog[i].elseAt + 1 .. Len(prog)
    BY Wellformed
  <2> QED BY <2>1
<1> QED BY <1>1, <1>2

\* Whoever dominates a later place dominates every place between.
LEMMA DominatesBetween ==
  ASSUME NEW prog, WellFormed(prog), NEW j \in Nat, NEW k \in Nat, NEW i \in Nat,
         Dominates(prog, j, k), j < i, i <= k
  PROVE  Dominates(prog, j, i)
<1> SUFFICES ASSUME NEW arm \in Arms(prog), Within(j, arm) PROVE Within(i, arm)
  BY DEF Dominates
<1>1. Within(k, arm) BY DEF Dominates
<1>2. arm[1] \in Nat /\ arm[2] \in Nat BY ArmBounds
<1> QED BY <1>1, <1>2 DEF Within

\* What dominates the place behind a shape-if, or its else, dominates the if.
LEMMA DominatesPastElse ==
  ASSUME NEW prog, WellFormed(prog), NEW i \in Ifs(prog), NEW j \in 1 .. Len(prog),
         prog[j].kind \notin {"if", "else", "endif"}
  PROVE  /\ Dominates(prog, j, prog[i].elseAt + 1) => Dominates(prog, j, i)
         /\ Dominates(prog, j, prog[i].endAt + 1) => Dominates(prog, j, prog[i].elseAt)
<1>1. /\ Len(prog) \in Nat /\ i \in 1 .. Len(prog) /\ prog[i].kind = "if"
      /\ prog[i].elseAt \in i + 1 .. Len(prog)
      /\ prog[i].endAt \in prog[i].elseAt + 1 .. Len(prog)
      /\ prog[prog[i].elseAt].kind = "else" /\ prog[prog[i].endAt].kind = "endif"
  BY Wellformed
<1>2. PICK e, f \in 1 .. Len(prog) :
        /\ e = prog[i].elseAt /\ f = prog[i].endAt /\ i < e /\ e < f
        /\ j # i /\ j # e /\ j # f
  <2>1. \A n \in Nat : \A a \in 1 .. n : \A b \in a + 1 .. n : \A c \in b + 1 .. n :
          b \in 1 .. n /\ c \in 1 .. n /\ a < b /\ b < c
    OBVIOUS
  <2>2. /\ prog[i].elseAt \in 1 .. Len(prog) /\ prog[i].endAt \in 1 .. Len(prog)
        /\ i < prog[i].elseAt /\ prog[i].elseAt < prog[i].endAt
    BY <1>1, <2>1, Zenon
  <2>3. j # i /\ j # prog[i].elseAt /\ j # prog[i].endAt BY <1>1
  <2> QED BY <2>2, <2>3, Zenon
<1>3. <<i, e>> \in Arms(prog) /\ <<e, f>> \in Arms(prog)
  BY <1>2 DEF Arms
<1>4. i \in Nat /\ j \in Nat /\ e \in Nat /\ f \in Nat /\ e + 1 \in Nat /\ f + 1 \in Nat
  BY <1>1, <1>2
<1>5. ASSUME Dominates(prog, j, e + 1) PROVE Dominates(prog, j, i)
  <2>1. Within(j, <<i, e>>) => Within(e + 1, <<i, e>>) BY <1>3, <1>5 DEF Dominates
  <2>2. ~(i < j /\ j < e) BY <2>1, <1>4 DEF Within
  <2>3. j < e + 1 BY <1>5 DEF Dominates
  <2>4. j < i /\ i <= e + 1
    <3>1. i < e /\ j # i /\ j # e BY <1>2
    <3>2. ~(j > e) BY <1>4, <2>3
    <3> QED BY <1>4, <2>2, <3>1, <3>2
  <2> QED BY <2>4, <1>4, <1>5, DominatesBetween
<1>6. ASSUME Dominates(prog, j, f + 1) PROVE Dominates(prog, j, e)
  <2>1. Within(j, <<e, f>>) => Within(f + 1, <<e, f>>) BY <1>3, <1>6 DEF Dominates
  <2>2. ~(e < j /\ j < f) BY <2>1, <1>4 DEF Within
  <2>3. j < f + 1 BY <1>6 DEF Dominates
  <2>4. j < e /\ e <= f + 1
    <3>1. e < f /\ j # e /\ j # f BY <1>2
    <3>2. ~(j > f) BY <1>4, <2>3
    <3> QED BY <1>4, <2>2, <3>1, <3>2
  <2> QED BY <2>4, <1>4, <1>6, DominatesBetween
<1> QED BY <1>2, <1>5, <1>6

\* Control goes on, never to a marker, and what dominates the place it goes to
\* dominates the place it comes from.
SettleGoes(prog, i) ==
  /\ Settle(prog, i) \in i .. Len(prog) + 1
  /\ Settle(prog, i) <= Len(prog) => ~Marker(prog[Settle(prog, i)])
  /\ Settle(prog, i) # i => Marker(prog[Settle(prog, i) - 1])
  /\ \A j : Producing(prog, j) /\ Dominates(prog, j, Settle(prog, i)) => Dominates(prog, j, i)

\* It settles at an operation or behind the last one, and no value is lost on the way.
LEMMA SettleFacts ==
  ASSUME NEW prog, WellFormed(prog)
  PROVE  \A i \in 1 .. Len(prog) + 1 : SettleGoes(prog, i)
<1> DEFINE n == Len(prog)
           G == {k \in 0 .. n : \A i \in n + 1 - k .. n + 1 : SettleGoes(prog, i)}
<1>0. n \in Nat BY Wellformed
<1>1. ASSUME NEW i \in 1 .. n + 1, i = n + 1 \/ ~Marker(prog[i]) PROVE SettleGoes(prog, i)
  <2>1. Settle(prog, i) = i BY <1>1, SettleUnfold
  <2> QED BY <2>1, <1>0, <1>1 DEF SettleGoes
<1>2. ASSUME NEW i \in 1 .. n, Marker(prog[i]), NEW t \in i + 1 .. n + 1,
             Settle(prog, i) = Settle(prog, t), SettleGoes(prog, t), Marker(prog[t - 1]),
             \A j : Producing(prog, j) /\ Dominates(prog, j, t) => Dominates(prog, j, i)
      PROVE  SettleGoes(prog, i)
  <2>1. Settle(prog, t) \in t .. n + 1 BY <1>2 DEF SettleGoes
  <2>2. Settle(prog, i) \in i .. n + 1 BY <2>1, <1>0, <1>2
  <2>3. Settle(prog, i) <= n => ~Marker(prog[Settle(prog, i)]) BY <1>2 DEF SettleGoes
  <2>4. Marker(prog[Settle(prog, i) - 1]) BY <1>2 DEF SettleGoes
  <2>5. \A j : Producing(prog, j) /\ Dominates(prog, j, Settle(prog, i)) => Dominates(prog, j, i)
    BY <1>2 DEF SettleGoes
  <2> QED BY <2>2, <2>3, <2>4, <2>5 DEF SettleGoes
<1>3. 0 \in G
  <2>1. \A i \in n + 1 - 0 .. n + 1 : i = n + 1 /\ i \in 1 .. n + 1 BY <1>0
  <2>2. \A i \in n + 1 - 0 .. n + 1 : SettleGoes(prog, i) BY <1>1, <2>1
  <2> QED BY <2>2, <1>0
<1>4. ASSUME NEW k \in 1 .. n, k - 1 \in G PROVE k \in G
  <2>1. \A t \in n + 1 - (k - 1) .. n + 1 : SettleGoes(prog, t) BY <1>4
  <2>2. ASSUME NEW i \in n + 1 - k .. n + 1 PROVE SettleGoes(prog, i)
    <3>1. i \in 1 .. n + 1 BY <1>0
    <3>2. CASE i \in n + 1 - (k - 1) .. n + 1 BY <3>2, <2>1
    <3>3. CASE i = n + 1 \/ ~Marker(prog[i]) BY <3>1, <3>3, <1>1
    <3>4. CASE i \notin n + 1 - (k - 1) .. n + 1 /\ i # n + 1 /\ Marker(prog[i])
      <4>1. i \in 1 .. n /\ i = n + 1 - k BY <3>1, <3>4, <1>0
      <4>2. \A t \in i + 1 .. n + 1 : SettleGoes(prog, t)
        <5>1. \A t \in i + 1 .. n + 1 : t \in n + 1 - (k - 1) .. n + 1 BY <4>1, <1>0
        <5> QED BY <5>1, <2>1
      <4>3. CASE prog[i].kind = "else"
        <5>1. PICK o \in Ifs(prog) : i = prog[o].elseAt BY <4>1, <4>3, Wellformed
        <5>2. prog[i].endAt = prog[o].endAt BY <5>1, Wellformed
        <5> DEFINE t == prog[i].endAt + 1
        <5>3. t \in i + 1 .. n + 1 /\ prog[prog[i].endAt].kind = "endif"
          BY <4>1, <4>3, ElseTarget
        <5>4. t - 1 = prog[i].endAt
          <6>1. prog[i].endAt \in Nat BY <5>1, <5>2, Wellformed
          <6> QED BY <6>1
        <5>5. Marker(prog[t - 1]) BY <5>3, <5>4 DEF Marker
        <5>6. Settle(prog, i) = Settle(prog, t) BY <3>1, <3>4, <4>3, SettleUnfold
        <5>7. ASSUME NEW j, Producing(prog, j), Dominates(prog, j, t) PROVE Dominates(prog, j, i)
          <6>1. j \in 1 .. Len(prog) /\ prog[j].kind \notin {"if", "else", "endif"}
            BY <5>7 DEF Producing
          <6> QED BY <6>1, <5>1, <5>2, <5>7, DominatesPastElse
        <5>8. SettleGoes(prog, t) BY <5>3, <4>2
        <5> HIDE DEF t
        <5> QED BY <3>4, <4>1, <5>3, <5>5, <5>6, <5>7, <5>8, <1>2
      <4>4. CASE prog[i].kind # "else"
        <5>1. i + 1 \in i + 1 .. n + 1 /\ (i + 1) - 1 = i BY <4>1, <1>0
        <5>2. Settle(prog, i) = Settle(prog, i + 1) BY <3>1, <3>4, <4>4, SettleUnfold
        <5>3. ASSUME NEW j, Producing(prog, j), Dominates(prog, j, i + 1) PROVE Dominates(prog, j, i)
          <6>1. j \in Nat /\ j # i /\ i \in Nat /\ i + 1 \in Nat
            BY <5>3, <3>4, <4>1, <1>0 DEF Producing, Marker
          <6>2. j < i /\ i <= i + 1 BY <6>1, <5>3 DEF Dominates
          <6> QED BY <6>1, <6>2, <5>3, DominatesBetween
        <5>4. SettleGoes(prog, i + 1) /\ Marker(prog[(i + 1) - 1]) BY <5>1, <4>2, <3>4
        <5> QED BY <3>4, <4>1, <5>1, <5>2, <5>3, <5>4, <1>2
      <4> QED BY <4>3, <4>4
    <3> QED BY <3>2, <3>3, <3>4
  <2>3. k \in 0 .. n OBVIOUS
  <2> QED BY <2>2, <2>3
<1>5. n \in G
  <2>1. \A k \in 1 .. n : k - 1 \in G => k \in G BY <1>4
  <2> HIDE DEF G
  <2>2. \A k \in 0 .. n : k \in G BY <1>0, <1>3, <2>1, UpTo
  <2> QED BY <2>2, <1>0
<1>6. n + 1 - n = 1 BY <1>0
<1> QED BY <1>5, <1>6

\* The same from an operation: to the next one, or past the first arm.
LEMMA Successor ==
  ASSUME NEW prog, WellFormed(prog), NEW i \in 1 .. Len(prog), NEW s, s = Settle(prog, i + 1)
  PROVE  /\ s \in i + 1 .. Len(prog) + 1
         /\ s <= Len(prog) => ~Marker(prog[s])
         /\ s - 1 = i \/ Marker(prog[s - 1])
         /\ \A j : Producing(prog, j) /\ Dominates(prog, j, s) => j = i \/ Dominates(prog, j, i)
<1>0. Len(prog) \in Nat /\ i + 1 \in 1 .. Len(prog) + 1 BY Wellformed
<1>1. SettleGoes(prog, i + 1) BY <1>0, SettleFacts
<1>2. s \in i + 1 .. Len(prog) + 1 /\ (s <= Len(prog) => ~Marker(prog[s]))
  BY <1>1 DEF SettleGoes
<1>3. s - 1 = i \/ Marker(prog[s - 1]) BY <1>0, <1>1 DEF SettleGoes
<1>4. ASSUME NEW j, Producing(prog, j), Dominates(prog, j, s), j # i PROVE Dominates(prog, j, i)
  <2>1. Dominates(prog, j, i + 1) BY <1>1, <1>4 DEF SettleGoes
  <2>2. j \in Nat /\ i \in Nat /\ i + 1 \in Nat BY <1>0, <1>4 DEF Producing
  <2>3. j < i /\ i <= i + 1 BY <2>1, <2>2, <1>4 DEF Dominates
  <2> QED BY <2>1, <2>2, <2>3, DominatesBetween
<1> QED BY <1>2, <1>3, <1>4

\* The operation a branch goes to when it leaves out the then-body.
LEMMA OtherArm ==
  ASSUME NEW prog, WellFormed(prog), NEW i \in 1 .. Len(prog), prog[i].kind = "if",
         NEW s, s = Settle(prog, prog[i].elseAt + 1)
  PROVE  /\ s \in i + 1 .. Len(prog) + 1
         /\ s <= Len(prog) => ~Marker(prog[s])
         /\ Marker(prog[s - 1])
         /\ \A j : Producing(prog, j) /\ Dominates(prog, j, s) => Dominates(prog, j, i)
<1>0. i \in Ifs(prog) BY DEF Ifs
<1>1. /\ Len(prog) \in Nat /\ prog[i].elseAt \in i + 1 .. Len(prog)
      /\ prog[prog[i].elseAt].kind = "else"
  BY <1>0, Wellformed
<1>2. PICK e \in i + 1 .. Len(prog) : e = prog[i].elseAt BY <1>1
<1>3. SettleGoes(prog, e + 1) BY <1>1, <1>2, SettleFacts
<1>4. s \in i + 1 .. Len(prog) + 1 /\ (s <= Len(prog) => ~Marker(prog[s]))
  BY <1>1, <1>2, <1>3 DEF SettleGoes
<1>5. Marker(prog[s - 1])
  <2>1. Marker(prog[e]) /\ (e + 1) - 1 = e BY <1>1, <1>2 DEF Marker
  <2> QED BY <2>1, <1>2, <1>3 DEF SettleGoes
<1>6. ASSUME NEW j, Producing(prog, j), Dominates(prog, j, s) PROVE Dominates(prog, j, i)
  <2>1. Dominates(prog, j, prog[i].elseAt + 1) BY <1>2, <1>3, <1>6 DEF SettleGoes
  <2>2. j \in 1 .. Len(prog) /\ prog[j].kind \notin {"if", "else", "endif"}
    BY <1>6 DEF Producing
  <2> QED BY <2>1, <2>2, <1>0, DominatesPastElse
<1> QED BY <1>4, <1>5, <1>6

\* Frontiers grow along the body, strictly at an operation.
LEMMA Frontiers ==
  ASSUME NEW prog, Len(prog) \in Nat
  PROVE  /\ \A i \in 0 .. Len(prog) : FrontierOf(prog, i) \in Nat
         /\ \A k \in 0 .. Len(prog) : \A i \in 0 .. k : FrontierOf(prog, i) <= FrontierOf(prog, k)
         /\ \A k \in 1 .. Len(prog) : \A i \in 0 .. k - 1 :
              ~Marker(prog[k]) => FrontierOf(prog, i) < FrontierOf(prog, k)
         /\ Completion(prog) \in Nat \ {0}
         /\ \A i \in 0 .. Len(prog) : FrontierOf(prog, i) < Completion(prog)
<1> DEFINE Ops(i) == {j \in 1 .. i : ~Marker(prog[j])}
<1>1. ASSUME NEW i \in 0 .. Len(prog)
      PROVE  IsFiniteSet(Ops(i)) /\ Cardinality(Ops(i)) \in Nat
  <2>1. IsFiniteSet(1 .. i) BY FS_Interval
  <2>2. Ops(i) \subseteq 1 .. i OBVIOUS
  <2> HIDE DEF Ops
  <2> QED BY <2>1, <2>2, FS_Subset, FS_CardinalityType
<1>2. \A i : FrontierOf(prog, i) = Cardinality(Ops(i)) BY DEF FrontierOf
<1>3. ASSUME NEW k \in 0 .. Len(prog), NEW i \in 0 .. k
      PROVE  FrontierOf(prog, i) <= FrontierOf(prog, k)
  <2>1. Ops(i) \subseteq Ops(k) OBVIOUS
  <2> HIDE DEF Ops
  <2> QED BY <2>1, <1>1, <1>2, FS_Subset
<1>4. ASSUME NEW k \in 1 .. Len(prog), NEW i \in 0 .. k - 1, ~Marker(prog[k])
      PROVE  FrontierOf(prog, i) < FrontierOf(prog, k)
  <2>1. Ops(i) \subseteq Ops(k) /\ k \in Ops(k) /\ k \notin Ops(i) BY <1>4
  <2>2. k \in 0 .. Len(prog) /\ i \in 0 .. Len(prog) OBVIOUS
  <2> HIDE DEF Ops
  <2>3. Cardinality(Ops(i)) <= Cardinality(Ops(k)) /\ Cardinality(Ops(i)) # Cardinality(Ops(k))
    BY <2>1, <2>2, <1>1, FS_Subset
  <2> QED BY <2>2, <2>3, <1>1, <1>2
<1>5. \A i \in 0 .. Len(prog) : FrontierOf(prog, i) \in Nat
  <2> HIDE DEF Ops
  <2> QED BY <1>1, <1>2
<1>6. Completion(prog) \in Nat \ {0} /\ \A i \in 0 .. Len(prog) : FrontierOf(prog, i) < Completion(prog)
  <2>1. FrontierOf(prog, Len(prog)) \in Nat BY <1>5
  <2>2. \A i \in 0 .. Len(prog) : FrontierOf(prog, i) <= FrontierOf(prog, Len(prog)) BY <1>3
  <2> QED BY <2>1, <2>2, <1>5 DEF Completion
<1> QED BY <1>3, <1>4, <1>5, <1>6

-----------------------------------------------------------------------------
(* Matrices, and a view's contents after a publication through it.         *)

IsMatrix(v) ==
  /\ v = Matrix(v.rows, v.cols, v.elems) /\ v.rows \in Nat /\ v.cols \in Nat
  /\ v.elems = [e \in 1 .. v.rows * v.cols |-> v.elems[e]]
IsValue(v) == v = NoValue \/ IsMatrix(v)

\* A view has a shape and cells.
LEMMA ViewTypes ==
  ASSUME NEW r \in Resources
  PROVE  /\ Views[r].rows \in Nat /\ Views[r].cols \in Nat
         /\ Views[r].cells \in Seq(Cells) /\ Len(Views[r].cells) \in Nat
         /\ \A e \in 1 .. Len(Views[r].cells) : Views[r].cells[e] \in Cells
<1>1. Views[r] \in View BY ProgramConstantsAssumption
<1>2. Views[r].rows \in Nat /\ Views[r].cols \in Nat /\ Views[r].cells \in Seq(Cells)
  BY <1>1 DEF View
<1> QED BY <1>2

\* The fields of a matrix.
LEMMA MatrixFields ==
  ASSUME NEW r, NEW c, NEW elems
  PROVE  /\ Matrix(r, c, elems).valid = TRUE /\ Matrix(r, c, elems).rows = r
         /\ Matrix(r, c, elems).cols = c /\ Matrix(r, c, elems).elems = elems
BY DEF Matrix

\* Every matrix is a value that was issued.
LEMMA MatrixIsValid ==
  ASSUME NEW v, IsMatrix(v)
  PROVE  v.valid = TRUE
<1>1. \E r, c, e : v = Matrix(r, c, e) BY Zenon DEF IsMatrix
<1>2. PICK r, c, e : v = Matrix(r, c, e) BY <1>1
<1> QED BY <1>2 DEF Matrix

\* A shape and as many elements make a matrix.
LEMMA MatrixIs ==
  ASSUME NEW r \in Nat, NEW c \in Nat, NEW f, f = [e \in 1 .. r * c |-> f[e]]
  PROVE  IsMatrix(Matrix(r, c, f))
<1> DEFINE v == Matrix(r, c, f)
<1>1. v.rows = r /\ v.cols = c /\ v.elems = f BY DEF Matrix
<1> HIDE DEF v
<1>2. v = Matrix(v.rows, v.cols, v.elems) BY <1>1 DEF v
<1> QED BY <1>1, <1>2 DEF IsMatrix

\* A value is valid exactly if it is a matrix.
LEMMA ValueFields ==
  ASSUME NEW v, IsValue(v)
  PROVE  /\ v.rows \in Nat /\ v.cols \in Nat /\ v.valid \in BOOLEAN
         /\ v.valid <=> IsMatrix(v)
<1>1. CASE v = NoValue
  <2>1. v.rows = 0 /\ v.cols = 0 /\ v.valid = FALSE BY <1>1 DEF NoValue
  <2>2. ~IsMatrix(v) BY <2>1, MatrixIsValid
  <2>3. v.valid <=> IsMatrix(v) BY <2>1, <2>2, Zenon
  <2>4. v.rows \in Nat /\ v.cols \in Nat BY <2>1
  <2>5. v.valid \in BOOLEAN BY <2>1, Zenon
  <2> QED BY <2>3, <2>4, <2>5, Zenon
<1>2. CASE IsMatrix(v)
  <2>1. v.rows \in Nat /\ v.cols \in Nat BY <1>2 DEF IsMatrix
  <2>2. v.valid = TRUE BY <1>2, MatrixIsValid
  <2>3. v.valid <=> IsMatrix(v) BY <1>2, <2>2, Zenon
  <2> QED BY <2>1, <2>2, <2>3, <1>2
<1> QED BY <1>1, <1>2 DEF IsValue

\* A view is read as a matrix of its shape.
LEMMA ContentsIsMatrix ==
  ASSUME NEW mem, NEW r \in Resources
  PROVE  IsMatrix(Contents(mem, Views[r]))
<1> DEFINE f == [e \in 1 .. Views[r].rows * Views[r].cols |-> mem[Views[r].cells[e]]]
<1>1. Contents(mem, Views[r]) = Matrix(Views[r].rows, Views[r].cols, f) BY DEF Contents
<1>2. f = [e \in 1 .. Views[r].rows * Views[r].cols |-> f[e]] OBVIOUS
<1> HIDE DEF f
<1>3. IsMatrix(Matrix(Views[r].rows, Views[r].cols, f)) BY <1>2, ViewTypes, MatrixIs
<1> QED BY <1>1, <1>3

\* A product has the rows of one factor and the columns of the other.
LEMMA ProductIsMatrix ==
  ASSUME NEW a, NEW b, NEW profile, a.rows \in Nat, b.cols \in Nat
  PROVE  /\ IsMatrix(Product(a, b, profile))
         /\ Product(a, b, profile).rows = a.rows /\ Product(a, b, profile).cols = b.cols
<1> DEFINE f == [e \in 1 .. a.rows * b.cols |->
       LET i == (e - 1) \div b.cols
           j == (e - 1) % b.cols
       IN  IF a.cols = 0 THEN Zero
           ELSE <<"dot", profile,
                  [k \in 1 .. a.cols |-> a.elems[i * a.cols + k]],
                  [k \in 1 .. a.cols |-> b.elems[(k - 1) * b.cols + j + 1]]>>]
<1>1. Product(a, b, profile) = Matrix(a.rows, b.cols, f) BY DEF Product
<1>2. f = [e \in 1 .. a.rows * b.cols |-> f[e]] OBVIOUS
<1> HIDE DEF f
<1>3. IsMatrix(Matrix(a.rows, b.cols, f)) BY <1>2, MatrixIs
<1>4. Matrix(a.rows, b.cols, f).rows = a.rows /\ Matrix(a.rows, b.cols, f).cols = b.cols
  BY DEF Matrix
<1> QED BY <1>1, <1>3, <1>4

\* A publication is read back as what was published, whatever else the view
\* overlaps, since no float is two elements of one view.
LEMMA ReadBack ==
  ASSUME NEW mem, NEW r \in Resources, NEW v, IsValue(v), PublishFault(v, Views[r]) = "ok"
  PROVE  Contents(Store(mem, Views[r], v), Views[r]) = v
<1> DEFINE view == Views[r]
           size == view.rows * view.cols
           stored == Store(mem, view, v)
<1>1. v.valid /\ Validate(view, TRUE) = "ok" /\ v.rows = view.rows /\ v.cols = view.cols
  BY DEF PublishFault
<1>2. IsMatrix(v) BY <1>1, ValueFields
<1>3. view.rows \in Nat /\ view.cols \in Nat /\ size \in Nat /\ Len(view.cells) \in Nat
  BY ViewTypes
<1>4. ~(Len(view.cells) < size) BY <1>1 DEF Validate
<1>5. ASSUME NEW e \in 1 .. size PROVE stored[view.cells[e]] = v.elems[e]
  <2> DEFINE c == view.cells[e]
             hits == {x \in 1 .. view.rows * view.cols : view.cells[x] = c}
  <2>1. \A x \in 1 .. size : x \in 1 .. Len(view.cells) BY <1>3, <1>4
  <2>2. c \in Cells BY <2>1, ViewTypes
  <2>3. \A x \in 1 .. size : view.cells[x] = c => x = e
    BY <2>1, ProgramConstantsAssumption
  <2>4. hits = {e} BY <2>3
  <2>5. stored[c] = IF hits = {} THEN mem[c] ELSE v.elems[CHOOSE x \in hits : TRUE]
    BY <2>2, Zenon DEF Store
  <2>6. (CHOOSE x \in {e} : TRUE) = e OBVIOUS
  <2> HIDE DEF hits, c
  <2>7. stored[c] = v.elems[e] BY <2>4, <2>5, <2>6
  <2> QED BY <2>7 DEF c
<1> HIDE DEF stored
<1>6. Contents(stored, view) = Matrix(view.rows, view.cols, [e \in 1 .. size |-> stored[view.cells[e]]])
  BY DEF Contents
<1>7. [e \in 1 .. size |-> stored[view.cells[e]]] = [e \in 1 .. size |-> v.elems[e]]
  BY <1>5
<1>8. v = Matrix(view.rows, view.cols, v.elems) /\ v.elems = [e \in 1 .. size |-> v.elems[e]]
  BY <1>1, <1>2 DEF IsMatrix
<1> QED BY <1>6, <1>7, <1>8 DEF stored

-----------------------------------------------------------------------------
(* The invariant: what a session, its activation and its host agree on.    *)

Phases == {"source", "refused", "idle", "run", "leaf", "second", "pairleaf"}
Live   == phase \in {"run", "leaf", "second", "pairleaf"}

CompiledInv ==
  /\ program \in Programs /\ args \in [ShapeParams -> ShapeArguments]
  /\ optimization \in Optimization /\ candidate \in Candidates
  /\ entries \in 0 .. EntryBudget /\ takes \in 0 .. TakeBudget
  /\ phase \in Phases /\ taken \in BOOLEAN
  /\ plan = Plan(program, IF phase \in {"source", "refused"} THEN "none" ELSE optimization)

\* Control is at an operation; in a pair at the second one.
ControlInv ==
  /\ at \in 1 .. Len(program) + 1
  /\ at <= Len(program) => ~Marker(program[at])
  /\ active = (phase \in {"leaf", "pairleaf"})
  /\ activeFrontier = (IF active THEN Frontier ELSE 0)
  /\ phase = "leaf" => at <= Len(program) /\ Op.kind = "gemm" /\ at \notin plan.pairs
  /\ phase \in {"second", "pairleaf"} => at <= Len(program) /\ at - 1 \in plan.pairs
  /\ phase \in {"run", "leaf"} => at - 1 \notin plan.pairs

\* The ledger is ordered, and an activation is ahead of it.
IsLedger(s) ==
  s \in [code: Codes, failedFrontier: 0 .. Completion(program),
         completedFrontier: 0 .. Completion(program),
         completedEffectFrontier: 0 .. Completion(program),
         publications: 0 .. Completion(program), observations: 0 .. Completion(program),
         completed: BOOLEAN]
LedgerInv ==
  /\ IsLedger(status) /\ IsLedger(returned)
  /\ status.completedEffectFrontier <= status.completedFrontier
  /\ status.publications <= status.completedFrontier
  /\ status.observations <= status.completedFrontier
  /\ status.failedFrontier # 0 =>
       status.code # "ok" /\ status.completedFrontier < status.failedFrontier
  /\ status.completed => status.completedFrontier = Completion(program)
  /\ ~status.completed => status.completedFrontier < Completion(program)
  /\ taken => status.code # "ok" \/ status.completed
  /\ Live => /\ ~taken /\ ~status.completed
             /\ phase \in {"run", "second"} => status.code = "ok"
             /\ at <= Len(program) => status.completedFrontier < Frontier

ReportInv ==
  /\ report \in [frontier: 0 .. Completion(program), code: Codes, issued: BOOLEAN]
  /\ report.issued => report.frontier <= status.completedFrontier
  /\ phase \in {"leaf", "pairleaf"} => report.frontier = Frontier

\* What was issued, and that it is there where it is needed: all values that
\* dominate the next operation but the one in the middle of a pair.
ValuesInv ==
  /\ values = [i \in 1 .. Len(program) |-> values[i]]
  /\ \A i \in 1 .. Len(program) :
       /\ IsValue(values[i])
       /\ values[i].valid => FrontierOf(program, i) <= status.completedFrontier
  /\ Live => \A j \in 1 .. Len(program) :
       Producing(program, j) /\ Dominates(program, j, at) => values[j].valid \/ j \in plan.pairs

\* The value that was published last is still what its view holds.
BindingInv ==
  LET b == Bindings(program)[at - 1]
  IN  Live /\ b.value # 0 =>
        /\ b.res \in Resources /\ b.value \in 1 .. at - 1
        /\ values[b.value] = Contents(memory, Views[b.res])

\* A session that no activation has touched is as it was created.
UntouchedInv ==
  (~Live /\ status.code = "ok" /\ ~status.completed) =>
    /\ at = Settle(program, 1) /\ values = [i \in 1 .. Len(program) |-> NoValue]
    /\ memory = InitialMemory

\* The first taker gets every observation, and nobody else gets one.
IsSequence(s) == \E S : s \in Seq(S)
HandedInv ==
  /\ IsSequence(results) /\ IsSequence(observations)
  /\ taken <=> Len(results) # 0
  /\ ~taken => Len(observations) = status.observations
  /\ taken => /\ Len(observations) = 0
              /\ Len(results[1].observations) = status.observations
              /\ \A i \in 2 .. Len(results) : Len(results[i].observations) = 0

\* A GEMM whose leaf runs has passed its checks.
Checked(a, b) == a.cols = b.rows /\ Extent(a.rows, b.cols) = "ok"
LeafInv ==
  /\ phase = "leaf" => Checked(values[Op.lhs], values[Op.rhs])
  /\ phase = "pairleaf" =>
       /\ values[Producer.rhs].cols = values[Op.rhs].rows
       /\ Extent(values[Producer.lhs].rows, values[Op.rhs].cols) = "ok"

SessionInv ==
  /\ CompiledInv /\ ControlInv /\ LedgerInv /\ ReportInv /\ ValuesInv /\ BindingInv
  /\ UntouchedInv /\ HandedInv /\ LeafInv

-----------------------------------------------------------------------------
(* What follows from it in one state.                                      *)

\* The region that runs is well formed, and its frontiers are numbers.
LEMMA Known ==
  ASSUME CompiledInv
  PROVE  /\ WellFormed(program) /\ Len(program) \in Nat
         /\ Completion(program) \in Nat \ {0}
         /\ \A i \in 0 .. Len(program) : FrontierOf(program, i) \in 0 .. Completion(program)
<1>1. WellFormed(program) BY SessionConstantsAssumption DEF CompiledInv
<1>2. Len(program) \in Nat BY <1>1, Wellformed
<1>3. /\ \A i \in 0 .. Len(program) : FrontierOf(program, i) \in Nat
      /\ \A i \in 0 .. Len(program) : FrontierOf(program, i) < Completion(program)
      /\ Completion(program) \in Nat \ {0}
  BY <1>2, Frontiers
<1> QED BY <1>1, <1>2, <1>3

\* The pairs of the plan are strict, adjacent and apart.
LEMMA Pairs ==
  ASSUME CompiledInv
  PROVE  /\ \A i \in plan.pairs :
              /\ i \in 1 .. Len(program) /\ i + 1 \in 1 .. Len(program)
              /\ Eligible(program, i) /\ i + 1 \notin plan.pairs
              /\ program[i].kind = "gemm" /\ program[i].profile = "strict_f32"
              /\ program[i + 1].kind = "gemm" /\ program[i + 1].profile = "strict_f32"
              /\ program[i + 1].lhs = i
         /\ plan.pairs \subseteq 1 .. Len(program)
<1> DEFINE requested == IF phase \in {"source", "refused"} THEN "none" ELSE optimization
<1>1. plan.pairs = FusedPairs(program, requested) BY Zenon DEF CompiledInv, Plan
<1> HIDE DEF requested
<1>2. Len(program) \in Nat BY Known
<1>3. \A i \in plan.pairs : /\ i \in 1 .. Len(program) /\ Eligible(program, i)
                            /\ i + 1 \notin plan.pairs
  BY <1>1, <1>2, PairsApart
<1> QED BY <1>2, <1>3 DEF Eligible

\* A forwarded read is answered from the current binding of its resource.
LEMMA Forwarding ==
  ASSUME CompiledInv, NEW i \in 1 .. Len(program), plan.forwarded[i] # 0
  PROVE  /\ plan.forwarded[i] = Bindings(program)[i - 1].value
         /\ Bindings(program)[i - 1].res = program[i].res
<1> DEFINE requested == IF phase \in {"source", "refused"} THEN "none" ELSE optimization
<1>1. plan.forwarded = ForwardedReads(program, requested) BY Zenon DEF CompiledInv, Plan
<1> HIDE DEF requested
<1>2. plan.forwarded[i] =
        IF /\ requested = "publication-read-forwarding"
           /\ program[i].kind = "read"
           /\ Bindings(program)[i - 1].res = program[i].res
        THEN Bindings(program)[i - 1].value ELSE 0
  BY <1>1, Zenon DEF ForwardedReads
<1> QED BY <1>2, Zenon

\* A call of an activation is never refused by begin.
LEMMA Begins ==
  ASSUME SessionInv, phase \in {"run", "second"}, at \in 1 .. Len(program)
  PROVE  BeginCode(Frontier) = "ok" /\ \A own : Outcomes(own) = own
<1>1. /\ ~taken /\ ~status.completed /\ status.completedFrontier < Frontier
      /\ status.completedFrontier \in Nat
  <2>1. Completion(program) \in Nat BY Known DEF SessionInv
  <2> QED BY <2>1 DEF SessionInv, LedgerInv, Live, IsLedger
<1>2. Frontier \in Nat BY Known DEF SessionInv, Frontier
<1>3. ~active
  <2>1. ~(phase \in {"leaf", "pairleaf"}) OBVIOUS
  <2>2. active = (phase \in {"leaf", "pairleaf"}) BY DEF SessionInv, ControlInv
  <2> QED BY <2>1, <2>2, Zenon
<1>4. BeginCode(Frontier) = "ok" BY <1>1, <1>2, <1>3 DEF BeginCode
<1> QED BY <1>4 DEF Outcomes

\* What an operation of the activation refers to was issued: the value in
\* the middle of a pair has no other use.
LEMMA Issued ==
  ASSUME SessionInv, phase \in {"run", "leaf"}, at \in 1 .. Len(program),
         NEW v \in Operands(Op) \cup DimensionValues(Op)
  PROVE  v \in 1 .. at - 1 /\ v \notin plan.pairs /\ values[v].valid /\ IsMatrix(values[v])
<1>1. WellFormed(program) /\ Len(program) \in Nat BY Known DEF SessionInv
<1>2. v \in 1 .. at - 1 /\ Producing(program, v) /\ Dominates(program, v, at)
  BY <1>1, Wellformed DEF Op
<1>3. v \notin plan.pairs
  <2> SUFFICES ASSUME v \in plan.pairs PROVE FALSE OBVIOUS
  <2>1. /\ v \in 1 .. Len(program) /\ v + 1 \in 1 .. Len(program) /\ Eligible(program, v)
        /\ program[v + 1].kind = "gemm" /\ program[v + 1].lhs = v
    BY Pairs DEF SessionInv
  <2>2. Uses(program, v) = 1 BY <2>1 DEF Eligible
  <2>3. at # v + 1 BY <2>1 DEF SessionInv, ControlInv
  <2>4. v \in Operands(program[v + 1]) BY <2>1 DEF Operands
  <2>5. UsesAt(program, v, v + 1) # 0 BY <2>4, UsesCount DEF UsesAt
  <2>6. UsesAt(program, v, at) = 0 BY <1>1, <2>1, <2>2, <2>3, <2>5, OneUse
  <2>7. OperandUses(Op, v) = 0 /\ DimensionUses(Op, v) = 0
    BY <2>6, UsesCount DEF UsesAt, Op
  <2> QED BY <2>7, UsesCount
<1>4. values[v].valid
  BY <1>1, <1>2, <1>3 DEF SessionInv, ValuesInv, Live
<1> QED BY <1>1, <1>2, <1>3, <1>4, ValueFields DEF SessionInv, ValuesInv

\* The invariant gives every variable its type.
LEMMA Types ==
  ASSUME SessionInv
  PROVE  TypeOK
<1>1. /\ args \in [ShapeParams -> ShapeArguments]
      /\ optimization \in Optimization /\ candidate \in Candidates
      /\ entries \in 0 .. EntryBudget /\ takes \in 0 .. TakeBudget
      /\ phase \in {"source", "refused", "idle", "run", "leaf", "second", "pairleaf"}
      /\ taken \in BOOLEAN
  BY DEF SessionInv, CompiledInv, Phases
<1>2. /\ at \in 1 .. Len(program) + 1 /\ (at <= Len(program) => ~Marker(program[at]))
      /\ active = (phase \in {"leaf", "pairleaf"})
      /\ activeFrontier = (IF active THEN Frontier ELSE 0)
  BY Zenon DEF SessionInv, ControlInv
<1>3. plan.pairs \subseteq 1 .. Len(program) BY Pairs DEF SessionInv
<1>4. IsLedger(status) /\ IsLedger(returned) BY DEF SessionInv, LedgerInv
<1>5. report.frontier \in 0 .. Completion(program) /\ report.code \in Codes
  BY DEF SessionInv, ReportInv
<1> QED BY <1>1, <1>2, <1>3, <1>4, <1>5, Zenon DEF TypeOK, IsLedger

\* What a forwarded read retains is what its view still holds, so the checks
\* of the retained value never add to those of the read.
LEMMA Retained ==
  ASSUME SessionInv, Live, at \in 1 .. Len(program), Op.kind = "read", plan.forwarded[at] # 0
  PROVE  /\ Op.res \in Resources /\ plan.forwarded[at] \in 1 .. at - 1
         /\ values[plan.forwarded[at]] = Contents(memory, Views[Op.res])
         /\ ForwardFault = ReadFault(Views[Op.res], Rows, Cols)
<1>1. /\ plan.forwarded[at] = Bindings(program)[at - 1].value
      /\ Bindings(program)[at - 1].res = Op.res
  BY Forwarding DEF SessionInv, Op
<1>2. /\ Op.res \in Resources /\ plan.forwarded[at] \in 1 .. at - 1
      /\ values[plan.forwarded[at]] = Contents(memory, Views[Op.res])
  BY <1>1 DEF SessionInv, BindingInv
<1> DEFINE v == values[plan.forwarded[at]]
<1>3. IsMatrix(v) BY <1>2, ContentsIsMatrix
<1>4. v.valid = TRUE BY <1>3, MatrixIsValid
<1>5. v.rows = Views[Op.res].rows /\ v.cols = Views[Op.res].cols
  BY <1>2 DEF Contents, Matrix
<1> HIDE DEF v
<1>6. ReadFault(Views[Op.res], Rows, Cols) = "ok" =>
        Views[Op.res].rows = Rows /\ Views[Op.res].cols = Cols
  BY DEF ReadFault
<1>7. ForwardFault = IF ReadFault(Views[Op.res], Rows, Cols) # "ok"
                     THEN ReadFault(Views[Op.res], Rows, Cols)
                     ELSE IF ~v.valid THEN "invalid_value"
                     ELSE IF v.rows # Rows \/ v.cols # Cols THEN "shape_mismatch"
                     ELSE "ok"
  BY Zenon DEF ForwardFault, v
<1>8. ForwardFault = ReadFault(Views[Op.res], Rows, Cols)
  BY <1>4, <1>5, <1>6, <1>7
<1> QED BY <1>2, <1>8

\* A retained value is what the host's memory holds.
LEMMA Current ==
  ASSUME SessionInv
  PROVE  ForwardedReadIsCurrent
<1> SUFFICES ASSUME AtOp("read"), plan.forwarded[at] # 0
             PROVE  values[plan.forwarded[at]] = Contents(memory, Views[Op.res])
  BY DEF ForwardedReadIsCurrent
<1>1. Len(program) \in Nat /\ at \in 1 .. Len(program) + 1
  BY Known DEF SessionInv, ControlInv
<1>2. at \in 1 .. Len(program) /\ Op.kind = "read" /\ Live BY <1>1 DEF AtOp, Live
<1> QED BY <1>2, Retained

\* Every operand of a call was issued.
LEMMA Operated ==
  ASSUME SessionInv
  PROVE  OperandsIssued
<1> SUFFICES ASSUME phase = "run", at <= Len(program),
                    NEW v \in Operands(Op) \cup DimensionValues(Op)
             PROVE  values[v].valid
  BY DEF OperandsIssued
<1>1. Len(program) \in Nat /\ at \in 1 .. Len(program) + 1
  BY Known DEF SessionInv, ControlInv
<1>2. at \in 1 .. Len(program) BY <1>1
<1> QED BY <1>2, Issued

\* A failed session issued nothing at or after the failure.
LEMMA Stopped ==
  ASSUME SessionInv
  PROVE  NothingIssuedAfterFailure /\ LedgerOrdered
<1>1. /\ Len(program) \in Nat /\ Completion(program) \in Nat
      /\ \A i \in 0 .. Len(program) : FrontierOf(program, i) \in 0 .. Completion(program)
  BY Known DEF SessionInv
<1>2. /\ status.failedFrontier \in 0 .. Completion(program)
      /\ status.completedFrontier \in 0 .. Completion(program)
      /\ status.completedEffectFrontier \in 0 .. Completion(program)
      /\ report.frontier \in 0 .. Completion(program)
  BY DEF SessionInv, LedgerInv, IsLedger, ReportInv
<1>3. LedgerOrdered BY DEF SessionInv, LedgerInv, LedgerOrdered
<1>4. ASSUME status.failedFrontier # 0, NEW i \in 1 .. Len(program), values[i].valid
      PROVE  FrontierOf(program, i) < status.failedFrontier
  <2>1. FrontierOf(program, i) <= status.completedFrontier
    BY <1>4 DEF SessionInv, ValuesInv
  <2>2. status.completedFrontier < status.failedFrontier
    BY <1>4 DEF SessionInv, LedgerInv
  <2>3. FrontierOf(program, i) \in 0 .. Completion(program) BY <1>1
  <2> QED BY <1>1, <1>2, <2>1, <2>2, <2>3
<1>5. ASSUME status.failedFrontier # 0, report.issued
      PROVE  report.frontier < status.failedFrontier
  BY <1>1, <1>2, <1>5 DEF SessionInv, LedgerInv, ReportInv
<1> QED BY <1>3, <1>4, <1>5 DEF NothingIssuedAfterFailure

\* The observations handed out and kept are those that were counted.
LEMMA Delivered ==
  ASSUME SessionInv
  PROVE  ObservationsDeliveredOnce
<1> DEFINE n == Len(results)
           Eq(f) == f = [i \in 0 .. n |->
                          IF i = 0 THEN 0 ELSE f[i - 1] + Len(results[i].observations)]
           delivered == CHOOSE f : Eq(f)
           got == status.observations
<1>1. n \in Nat /\ got \in Nat
  <2>1. \A s : IsSequence(s) => Len(s) \in Nat BY DEF IsSequence
  <2>2. Completion(program) \in Nat BY Known DEF SessionInv
  <2>3. got \in 0 .. Completion(program) BY DEF SessionInv, LedgerInv, IsLedger
  <2> QED BY <2>1, <2>2, <2>3 DEF SessionInv, HandedInv
<1>2. /\ taken <=> n # 0
      /\ ~taken => Len(observations) = got
      /\ taken => /\ Len(observations) = 0 /\ Len(results[1].observations) = got
                  /\ \A i \in 2 .. n : Len(results[i].observations) = 0
  BY Zenon DEF SessionInv, HandedInv
<1>3. ObservationsDeliveredOnce <=> delivered[n] + Len(observations) = got
  BY Zenon DEF ObservationsDeliveredOnce
<1>4. \E f : Eq(f)
  <2> DEFINE g == [i \in 0 .. n |-> IF i = 0 THEN 0 ELSE got]
  <2>1. \A i \in 0 .. n : i # 0 => g[i] = g[i - 1] + Len(results[i].observations)
    <3> SUFFICES ASSUME NEW i \in 0 .. n, i # 0
                 PROVE  g[i] = g[i - 1] + Len(results[i].observations)
      OBVIOUS
    <3>1. CASE i = 1 BY <1>1, <1>2, <3>1
    <3>2. CASE i # 1 BY <1>1, <1>2, <3>2
    <3> QED BY <3>1, <3>2
  <2>2. Eq(g) BY <1>1, <2>1
  <2> HIDE DEF g
  <2> QED BY <2>2
<1>5. Eq(delivered) BY <1>4, Zenon
<1> HIDE DEF delivered
<1>6. delivered[0] = 0 BY <1>1, <1>5
<1>7. \A i \in 1 .. n : delivered[i] = delivered[i - 1] + Len(results[i].observations)
  BY <1>1, <1>5
<1> HIDE DEF Eq
<1>8. CASE n = 0 BY <1>1, <1>2, <1>3, <1>6, <1>8
<1>9. CASE n # 0
  <2> DEFINE G == {i \in Nat : i + 1 \in 1 .. n => delivered[i + 1] = got}
  <2>1. 0 \in G BY <1>1, <1>2, <1>6, <1>7, <1>9
  <2>2. ASSUME NEW i \in 1 .. n - 1, i - 1 \in G PROVE i \in G
    <3>1. delivered[i] = got BY <1>1, <2>2
    <3>2. i + 1 \in 2 .. n BY <1>1
    <3>3. Len(results[i + 1].observations) = 0 BY <1>2, <1>9, <3>2
    <3>4. delivered[i + 1] = delivered[i] + 0 BY <1>1, <1>7, <3>2, <3>3
    <3> QED BY <1>1, <3>1, <3>4
  <2> HIDE DEF G
  <2>3. \A i \in 0 .. n - 1 : i \in G
    <3>1. n - 1 \in Nat BY <1>1, <1>9
    <3> QED BY <2>1, <2>2, <3>1, UpTo
  <2>4. n - 1 \in G /\ (n - 1) + 1 = n /\ n \in 1 .. n BY <1>1, <1>9, <2>3
  <2>5. delivered[n] = got BY <2>4, Zenon DEF G
  <2> QED BY <1>1, <1>2, <1>3, <1>9, <2>5
<1> QED BY <1>8, <1>9

\* The invariant implies what the run checks.
LEMMA Sound ==
  ASSUME SessionInv
  PROVE  SessionIsSound
BY Types, Current, Operated, Stopped, Delivered DEF SessionIsSound

-----------------------------------------------------------------------------
(* Where control goes.                                                     *)

\* Markers and branches end every binding and are in no pair.
LEMMA Boundary ==
  ASSUME NEW prog, WellFormed(prog), NEW k \in 1 .. Len(prog),
         Marker(prog[k]) \/ prog[k].kind = "if"
  PROVE  /\ Bindings(prog)[k] = NoBinding
         /\ \A r : k \notin FusedPairs(prog, r)
<1>1. Len(prog) \in Nat BY Wellformed
<1>2. prog[k].kind \in {"if", "else", "endif"} BY DEF Marker
<1>3. Bindings(prog)[k] = BindingAfter(Bindings(prog)[k - 1], prog[k])
  BY <1>1, BindingsUnfold
<1>4. Bindings(prog)[k] = NoBinding BY <1>2, <1>3, BindingCases
<1>5. ASSUME NEW r, k \in FusedPairs(prog, r) PROVE FALSE
  <2>1. prog[k].kind = "gemm" BY <1>1, <1>5, PairsApart DEF Eligible
  <2> QED BY <1>2, <2>1
<1> QED BY <1>4, <1>5

\* The first operation: nothing is before it but markers.
LEMMA Opening ==
  ASSUME NEW prog, WellFormed(prog), NEW s, s = Settle(prog, 1)
  PROVE  /\ s \in 1 .. Len(prog) + 1
         /\ s <= Len(prog) => ~Marker(prog[s])
         /\ \A r : s - 1 \notin FusedPairs(prog, r)
         /\ Bindings(prog)[s - 1] = NoBinding
         /\ \A j : Producing(prog, j) => ~Dominates(prog, j, s)
<1>1. Len(prog) \in Nat BY Wellformed
<1>2. SettleGoes(prog, 1) BY <1>1, SettleFacts
<1>3. s \in 1 .. Len(prog) + 1 /\ (s <= Len(prog) => ~Marker(prog[s]))
  BY <1>2 DEF SettleGoes
<1>4. ASSUME NEW j, Producing(prog, j), Dominates(prog, j, s) PROVE FALSE
  <2>1. Dominates(prog, j, 1) BY <1>2, <1>4 DEF SettleGoes
  <2> QED BY <1>1, <1>4, <2>1 DEF Dominates, Producing
<1>5. CASE s = 1
  <2>1. \A r : 0 \notin FusedPairs(prog, r) BY <1>1, PairsApart
  <2>2. s - 1 = 0 BY <1>5
  <2> QED BY <1>1, <1>3, <1>4, <2>1, <2>2, BindingsUnfold
<1>6. CASE s # 1
  <2>1. Marker(prog[s - 1]) BY <1>2, <1>6 DEF SettleGoes
  <2>2. s - 1 \in 1 .. Len(prog) BY <1>1, <1>3, <1>6
  <2>3. /\ Bindings(prog)[s - 1] = NoBinding
        /\ \A r : s - 1 \notin FusedPairs(prog, r)
    BY <2>1, <2>2, Boundary
  <2> QED BY <1>3, <1>4, <2>3
<1> QED BY <1>5, <1>6

\* The operation that follows another one on an executed path.
Reaches(prog, i, s) ==
  /\ s \in i + 1 .. Len(prog) + 1
  /\ s <= Len(prog) => ~Marker(prog[s])
  /\ s - 1 = i \/ Marker(prog[s - 1])
  /\ \A j : Producing(prog, j) /\ Dominates(prog, j, s) => j = i \/ Dominates(prog, j, i)

\* Both ways out of an operation reach a later one.
LEMMA ReachesNext ==
  ASSUME NEW prog, WellFormed(prog), NEW i \in 1 .. Len(prog)
  PROVE  /\ Reaches(prog, i, Settle(prog, i + 1))
         /\ prog[i].kind = "if" => Reaches(prog, i, Settle(prog, prog[i].elseAt + 1))
<1>1. Reaches(prog, i, Settle(prog, i + 1)) BY Successor DEF Reaches
<1>2. ASSUME prog[i].kind = "if" PROVE Reaches(prog, i, Settle(prog, prog[i].elseAt + 1))
  BY <1>2, OtherArm DEF Reaches
<1> QED BY <1>1, <1>2

\* Outside a leaf no call is active.
LEMMA Inactive ==
  ASSUME ControlInv, phase \notin {"leaf", "pairleaf"}
  PROVE  active = FALSE /\ activeFrontier = 0
<1>1. active = (phase \in {"leaf", "pairleaf"}) /\ activeFrontier = (IF active THEN Frontier ELSE 0)
  BY DEF ControlInv
<1>2. (phase \in {"leaf", "pairleaf"}) = FALSE OBVIOUS
<1>3. active = FALSE BY <1>1, <1>2, Zenon
<1> QED BY <1>1, <1>3

-----------------------------------------------------------------------------
(* A step of an activation to its next operation, one conjunct at a time.  *)

\* An activation that moves on is again at an operation, with a later frontier.
LEMMA MovesControl ==
  ASSUME SessionInv, Live, at \in 1 .. Len(program), program' = program, plan' = plan,
         Reaches(program, at, at'), active' = FALSE, activeFrontier' = 0,
         \/ phase' = "run" /\ at \notin plan.pairs
         \/ phase' = "second" /\ at \in plan.pairs /\ at' = at + 1
  PROVE  ControlInv' /\ (at' <= Len(program) => Frontier < Frontier')
<1>1. CompiledInv /\ WellFormed(program) /\ Len(program) \in Nat BY Known DEF SessionInv
<1>2. /\ at' \in at + 1 .. Len(program) + 1 /\ (at' <= Len(program) => ~Marker(program[at']))
      /\ at' - 1 = at \/ Marker(program[at' - 1])
  BY DEF Reaches
<1>3. at' - 1 \in plan.pairs => at' - 1 = at
  <2> SUFFICES ASSUME at' - 1 \in plan.pairs, Marker(program[at' - 1]) PROVE FALSE
    BY <1>2
  <2>1. program[at' - 1].kind = "gemm" BY <1>1, Pairs
  <2> QED BY <2>1 DEF Marker
<1>4. phase' = "run" => at' - 1 \notin plan.pairs BY <1>3
<1>5. phase' = "second" => at' <= Len(program) /\ at' - 1 \in plan.pairs
  <2> SUFFICES ASSUME phase' = "second" PROVE at' <= Len(program) /\ at' - 1 \in plan.pairs
    OBVIOUS
  <2>1. at \in plan.pairs /\ at' = at + 1 OBVIOUS
  <2>2. at + 1 \in 1 .. Len(program) BY <1>1, <2>1, Pairs
  <2> QED BY <1>1, <2>1, <2>2
<1>6. phase' \notin {"leaf", "pairleaf"} OBVIOUS
<1>7. active' = (phase' \in {"leaf", "pairleaf"})
  <2>1. (phase' \in {"leaf", "pairleaf"}) = FALSE BY <1>6
  <2> QED BY <2>1, Zenon
<1>8. ControlInv' BY <1>1, <1>2, <1>4, <1>5, <1>6, <1>7 DEF ControlInv
<1>9. ASSUME at' <= Len(program) PROVE Frontier < Frontier'
  <2>1. at' \in 1 .. Len(program) /\ at \in 0 .. at' - 1 BY <1>1, <1>2, <1>9
  <2>2. FrontierOf(program, at) < FrontierOf(program, at')
    BY <1>1, <1>2, <1>9, <2>1, Frontiers
  <2> QED BY <2>2 DEF Frontier
<1> QED BY <1>8, <1>9

\* An activation that moves on has all values that dominate its next operation.
LEMMA MovesValues ==
  ASSUME SessionInv, Live, at \in 1 .. Len(program), program' = program, plan' = plan,
         Reaches(program, at, at'),
         status'.completedFrontier \in Nat,
         status.completedFrontier <= status'.completedFrontier,
         \/ values' = values /\ (Producing(program, at) => at \in plan.pairs)
         \/ /\ \E v : IsMatrix(v) /\ values' = [values EXCEPT ![at] = v]
            /\ Frontier <= status'.completedFrontier
  PROVE  ValuesInv'
<1>1. CompiledInv /\ WellFormed(program) /\ Len(program) \in Nat /\ Completion(program) \in Nat
  BY Known DEF SessionInv
<1>2. /\ values = [i \in 1 .. Len(program) |-> values[i]]
      /\ \A i \in 1 .. Len(program) :
           /\ IsValue(values[i])
           /\ values[i].valid => FrontierOf(program, i) <= status.completedFrontier
      /\ \A j \in 1 .. Len(program) :
           Producing(program, j) /\ Dominates(program, j, at) => values[j].valid \/ j \in plan.pairs
  BY DEF SessionInv, ValuesInv
<1>3. /\ \A i \in 1 .. Len(program) : FrontierOf(program, i) \in Nat
      /\ status.completedFrontier \in Nat
  <2>1. \A i \in 0 .. Len(program) : FrontierOf(program, i) \in 0 .. Completion(program)
    BY <1>1, Known
  <2>2. status.completedFrontier \in 0 .. Completion(program)
    BY DEF SessionInv, LedgerInv, IsLedger
  <2> QED BY <1>1, <2>1, <2>2
<1>4. \A j : Producing(program, j) /\ Dominates(program, j, at') => j = at \/ Dominates(program, j, at)
  BY DEF Reaches
<1>5. CASE values' = values /\ (Producing(program, at) => at \in plan.pairs)
  <2>1. \A i \in 1 .. Len(program) :
          values'[i].valid => FrontierOf(program, i) <= status'.completedFrontier
    <3> SUFFICES ASSUME NEW i \in 1 .. Len(program), values[i].valid
                 PROVE  FrontierOf(program, i) <= status'.completedFrontier
      BY <1>5
    <3>1. FrontierOf(program, i) <= status.completedFrontier BY <1>2
    <3> QED BY <1>3, <3>1
  <2>2. \A j \in 1 .. Len(program) :
          Producing(program, j) /\ Dominates(program, j, at') => values'[j].valid \/ j \in plan.pairs
    BY <1>2, <1>4, <1>5
  <2> QED BY <1>2, <1>5, <2>1, <2>2 DEF ValuesInv
<1>6. CASE /\ \E v : IsMatrix(v) /\ values' = [values EXCEPT ![at] = v]
           /\ Frontier <= status'.completedFrontier
  <2>1. PICK v : IsMatrix(v) /\ values' = [values EXCEPT ![at] = v] BY <1>6
  <2>2. DOMAIN values = 1 .. Len(program) BY <1>2
  <2>3. values'[at] = v /\ \A i \in 1 .. Len(program) : i # at => values'[i] = values[i]
    BY <2>1, <2>2
  <2>4. values' = [i \in 1 .. Len(program) |-> values'[i]] BY <2>1, <2>2
  <2>5. ASSUME NEW i \in 1 .. Len(program)
        PROVE  /\ IsValue(values'[i])
               /\ values'[i].valid => FrontierOf(program, i) <= status'.completedFrontier
    <3>1. CASE i = at BY <1>6, <2>1, <2>3, <3>1 DEF IsValue, Frontier
    <3>2. CASE i # at
      <4>1. values'[i] = values[i] BY <2>3, <3>2
      <4>2. /\ IsValue(values[i])
            /\ values[i].valid => FrontierOf(program, i) <= status.completedFrontier
        BY <1>2
      <4> QED BY <1>3, <4>1, <4>2
    <3> QED BY <3>1, <3>2
  <2>6. ASSUME NEW j \in 1 .. Len(program), Producing(program, j), Dominates(program, j, at')
        PROVE  values'[j].valid \/ j \in plan.pairs
    <3>1. CASE j = at
      <4>1. v.valid = TRUE BY <2>1, MatrixIsValid
      <4> QED BY <2>3, <3>1, <4>1, Zenon
    <3>2. CASE j # at BY <1>2, <1>4, <2>3, <2>6, <3>2
    <3> QED BY <3>1, <3>2
  <2> QED BY <2>4, <2>5, <2>6 DEF ValuesInv
<1> QED BY <1>5, <1>6

\* An activation that moves on keeps what its view holds, or has just published it.
LEMMA MovesBinding ==
  ASSUME SessionInv, Live, at \in 1 .. Len(program), program' = program,
         Reaches(program, at, at'),
         \A j \in 1 .. at - 1 : values'[j] = values[j],
         \/ Op.kind = "if"
         \/ Op.kind \in {"read", "gemm", "observe"} /\ memory' = memory
         \/ /\ Op.kind = "publish" /\ Op.res \in Resources /\ Op.lhs \in 1 .. at - 1
            /\ values[Op.lhs] = Contents(memory', Views[Op.res])
  PROVE  BindingInv'
<1>1. WellFormed(program) /\ Len(program) \in Nat BY Known DEF SessionInv
<1>2. /\ at' \in at + 1 .. Len(program) + 1
      /\ at' - 1 = at \/ Marker(program[at' - 1])
  BY DEF Reaches
<1>3. at' - 1 \in 1 .. Len(program)
  <2>1. \A n \in Nat : \A i \in 1 .. n : \A s \in i + 1 .. n + 1 : s - 1 \in 1 .. n
    OBVIOUS
  <2> QED BY <1>1, <1>2, <2>1, Zenon
<1> DEFINE b == Bindings(program)[at - 1]
           c == Bindings(program)[at' - 1]
<1> SUFFICES ASSUME c.value # 0
             PROVE  /\ c.res \in Resources /\ c.value \in 1 .. at' - 1
                    /\ values'[c.value] = Contents(memory', Views[c.res])
  BY DEF BindingInv
<1>4. NoBinding.value = 0 BY DEF NoBinding
<1>5. Op.kind # "if" /\ at' - 1 = at
  <2>1. CASE Marker(program[at' - 1])
    <3>1. c = NoBinding BY <1>1, <1>3, <2>1, Boundary
    <3> QED BY <1>4, <3>1
  <2>2. CASE ~Marker(program[at' - 1]) /\ Op.kind = "if"
    <3>1. at' - 1 = at BY <1>2, <2>2
    <3>2. c = NoBinding BY <1>1, <2>2, <3>1, Boundary DEF Op
    <3> QED BY <1>4, <3>2
  <2> QED BY <1>2, <2>1, <2>2
<1>6. c = BindingAfter(b, Op) BY <1>1, <1>5, BindingsUnfold DEF Op
<1> HIDE DEF b, c
<1>7. CASE Op.kind \in {"read", "gemm", "observe"} /\ memory' = memory
  <2>1. c = b BY <1>6, <1>7, BindingCases
  <2>2. /\ b.res \in Resources /\ b.value \in 1 .. at - 1
        /\ values[b.value] = Contents(memory, Views[b.res])
    BY <2>1 DEF SessionInv, BindingInv, b
  <2> QED BY <1>1, <1>5, <1>7, <2>1, <2>2
<1>8. CASE /\ Op.kind = "publish" /\ Op.res \in Resources /\ Op.lhs \in 1 .. at - 1
           /\ values[Op.lhs] = Contents(memory', Views[Op.res])
  <2>1. c = [res |-> Op.res, value |-> Op.lhs] BY <1>6, <1>8, BindingCases
  <2>2. c.res = Op.res /\ c.value = Op.lhs BY <2>1
  <2> QED BY <1>1, <1>5, <1>8, <2>2
<1> QED BY <1>5, <1>7, <1>8

\* A successful call: its frontier is the last completed one, and an effect
\* counts itself.
LEMMA Retires ==
  ASSUME SessionInv, Live, at \in 1 .. Len(program), status.code = "ok",
         program' = program, taken' = taken, returned' = returned,
         phase' \in {"run", "second"}, at' <= Len(program) => Frontier < Frontier',
         \/ status' = Succeeded(status, Frontier)
         \/ status' = Retired("publications")
         \/ status' = Retired("observations")
  PROVE  /\ LedgerInv' /\ status'.completedFrontier = Frontier
         /\ status.completedFrontier < Frontier /\ Frontier \in Nat
<1>1. /\ Len(program) \in Nat /\ Completion(program) \in Nat \ {0}
      /\ Frontier \in 0 .. Completion(program) /\ Frontier < Completion(program)
  <2>1. CompiledInv BY DEF SessionInv
  <2>2. Len(program) \in Nat /\ at \in 0 .. Len(program) BY <2>1, Known
  <2>3. FrontierOf(program, at) < Completion(program) BY <2>2, Frontiers
  <2> QED BY <2>1, <2>2, <2>3, Known DEF Frontier
<1>2. /\ IsLedger(status) /\ IsLedger(returned)
      /\ status.completedEffectFrontier <= status.completedFrontier
      /\ status.publications <= status.completedFrontier
      /\ status.observations <= status.completedFrontier
      /\ status.failedFrontier = 0 /\ ~taken /\ ~status.completed
      /\ status.completedFrontier < Frontier
  BY DEF SessionInv, LedgerInv
<1> DEFINE m == Completion(program)
<1>3. /\ status.completedEffectFrontier \in Nat /\ status.publications \in Nat
      /\ status.observations \in Nat /\ status.completedFrontier \in Nat
  BY <1>1, <1>2 DEF IsLedger
<1>4. status.publications + 1 \in 0 .. m /\ status.observations + 1 \in 0 .. m
  BY <1>1, <1>2, <1>3
<1>5. /\ status'.code = "ok" /\ status'.failedFrontier = 0
      /\ status'.completedFrontier = Frontier /\ status'.completed = status.completed
      /\ status'.completedEffectFrontier \in {status.completedEffectFrontier, Frontier}
      /\ status'.publications \in {status.publications, status.publications + 1}
      /\ status'.observations \in {status.observations, status.observations + 1}
      /\ IsLedger(status')
  <2>1. CASE status' = Succeeded(status, Frontier)
    <3>1. status' = [status EXCEPT !.completedFrontier = Frontier]
      BY <2>1 DEF Succeeded
    <3> QED BY <1>1, <1>2, <1>4, <3>1 DEF IsLedger
  <2>2. CASE status' = Retired("publications")
    <3>1. status' = [status EXCEPT !.publications = @ + 1,
                       !.completedEffectFrontier = Frontier, !.completedFrontier = Frontier]
      BY <1>2, <2>2 DEF Succeeded, Retired, IsLedger
    <3> QED BY <1>1, <1>2, <1>4, <3>1 DEF IsLedger
  <2>3. CASE status' = Retired("observations")
    <3>1. status' = [status EXCEPT !.observations = @ + 1,
                       !.completedEffectFrontier = Frontier, !.completedFrontier = Frontier]
      BY <1>2, <2>3 DEF Succeeded, Retired, IsLedger
    <3> QED BY <1>1, <1>2, <1>4, <3>1 DEF IsLedger
  <2> QED BY <2>1, <2>2, <2>3
<1>6. IsLedger(status)' /\ IsLedger(returned)' BY <1>2, <1>5 DEF IsLedger
<1>7. LedgerInv'
  <2>1. /\ status'.completedEffectFrontier <= status'.completedFrontier
        /\ status'.publications <= status'.completedFrontier
        /\ status'.observations <= status'.completedFrontier
    <3>1. \A f, c, e \in Nat : c < f /\ e <= c => e <= f /\ e + 1 <= f OBVIOUS
    <3>2. status.completedFrontier < Frontier /\ Frontier \in Nat BY <1>1, <1>2
    <3>3. /\ status.completedEffectFrontier <= Frontier
          /\ status.publications <= Frontier /\ status.publications + 1 <= Frontier
          /\ status.observations <= Frontier /\ status.observations + 1 <= Frontier
      BY <1>2, <1>3, <3>1, <3>2
    <3>4. Frontier <= Frontier BY <3>2
    <3> QED BY <1>5, <3>3, <3>4
  <2>2. ~taken' /\ ~status'.completed BY <1>2, <1>5
  <2>3. status'.completedFrontier < Completion(program') BY <1>1, <1>5
  <2>4. at' <= Len(program') => status'.completedFrontier < Frontier' BY <1>5
  <2> QED BY <1>5, <1>6, <2>1, <2>2, <2>3, <2>4 DEF LedgerInv
<1> QED BY <1>1, <1>2, <1>5, <1>7

\* A call changes neither the region nor its plan.
LEMMA KeepsCompiled ==
  ASSUME SessionInv, Live, UNCHANGED <<compiled, entries, takes, taken>>,
         phase' \in Phases \ {"source", "refused"}
  PROVE  CompiledInv'
<1>1. plan = Plan(program, optimization)
  <2>1. phase \notin {"source", "refused"} BY DEF Live
  <2> QED BY <2>1 DEF SessionInv, CompiledInv
<1>2. phase' \notin {"source", "refused"} OBVIOUS
<1> QED BY <1>1, <1>2 DEF SessionInv, CompiledInv, compiled

\* A call that fails ends the activation and keeps everything it did.
LEMMA Fails ==
  ASSUME SessionInv, Live, at \in 1 .. Len(program), NEW c \in Codes, ReturnFailed(c),
         \/ report' = report
         \/ report' = Reported(c)
         \/ report' = [report EXCEPT !.code = c]
  PROVE  SessionInv'
<1>1. /\ UNCHANGED <<program, args, optimization, candidate, plan, memory, entries, takes,
                     results, at, values, taken, observations>>
      /\ c # "ok" /\ status' = Failed(status, c, Frontier) /\ returned' = status'
      /\ phase' = "idle" /\ active' = FALSE /\ activeFrontier' = 0
  BY DEF ReturnFailed, compiled, host
<1>2. /\ Len(program) \in Nat /\ Completion(program) \in Nat \ {0}
      /\ Frontier \in 0 .. Completion(program)
  <2>1. CompiledInv BY DEF SessionInv
  <2>2. Len(program) \in Nat /\ at \in 0 .. Len(program) BY <2>1, Known
  <2> QED BY <2>1, <2>2, Known DEF Frontier
<1>3. CompiledInv' BY <1>1, KeepsCompiled DEF compiled, Phases
<1>4. ControlInv'
  <2>1. (phase' \in {"leaf", "pairleaf"}) = FALSE BY <1>1
  <2>2. active' = (phase' \in {"leaf", "pairleaf"}) BY <1>1, <2>1, Zenon
  <2>3. activeFrontier' = (IF active' THEN Frontier' ELSE 0) BY <1>1
  <2> QED BY <1>1, <2>2, <2>3 DEF SessionInv, ControlInv
<1>5. /\ IsLedger(status) /\ status.completedFrontier < Frontier
      /\ status.failedFrontier # 0 => status.code # "ok" /\ status.completedFrontier < status.failedFrontier
  BY DEF SessionInv, LedgerInv
<1>6. /\ IsLedger(status') /\ status'.code # "ok"
      /\ status'.completedFrontier = status.completedFrontier
      /\ status'.completedEffectFrontier = status.completedEffectFrontier
      /\ status'.publications = status.publications
      /\ status'.observations = status.observations
      /\ status'.completed = status.completed
      /\ status'.failedFrontier # 0 => status'.completedFrontier < status'.failedFrontier
  BY <1>1, <1>2, <1>5 DEF Failed, IsLedger
<1>7. LedgerInv'
  <2>1. IsLedger(status)' /\ IsLedger(returned)' BY <1>1, <1>6 DEF IsLedger
  <2>2. ~Live' BY <1>1 DEF Live
  <2> QED BY <1>1, <1>6, <2>1, <2>2 DEF SessionInv, LedgerInv
<1>8. ReportInv'
  <2>1. /\ report \in [frontier: 0 .. Completion(program), code: Codes, issued: BOOLEAN]
        /\ report.issued => report.frontier <= status.completedFrontier
    BY DEF SessionInv, ReportInv
  <2>2. /\ report' \in [frontier: 0 .. Completion(program), code: Codes, issued: BOOLEAN]
        /\ report'.issued => report'.frontier <= status.completedFrontier
    <3>1. CASE report' = report BY <2>1, <3>1
    <3>2. CASE report' = Reported(c) BY <1>2, <3>2 DEF Reported
    <3>3. CASE report' = [report EXCEPT !.code = c] BY <2>1, <3>3
    <3> QED BY <3>1, <3>2, <3>3
  <2> QED BY <1>1, <1>6, <2>2 DEF ReportInv
<1>9. ValuesInv' BY <1>1, <1>6 DEF SessionInv, ValuesInv, Live
<1>10. BindingInv' BY <1>1 DEF BindingInv, Live
<1>11. UntouchedInv' BY <1>6 DEF UntouchedInv
<1>12. HandedInv' BY <1>1, <1>6 DEF SessionInv, HandedInv
<1>13. LeafInv' BY <1>1 DEF LeafInv
<1> QED BY <1>3, <1>4, <1>7, <1>8, <1>9, <1>10, <1>11, <1>12, <1>13 DEF SessionInv

-----------------------------------------------------------------------------
(* What calls answer.                                                      *)

\* Every check answers one of the session's codes.
LEMMA Answers ==
  ASSUME NEW view, NEW write, NEW rows, NEW cols, NEW value
  PROVE  /\ Extent(rows, cols) \in {"ok", "extent_overflow"}
         /\ Validate(view, write) \in Codes
         /\ ReadFault(view, rows, cols) \in Codes
         /\ PublishFault(value, view) \in Codes
BY DEF Extent, Validate, ReadFault, PublishFault, Codes

Unavailable ==
  {"candidate_unavailable", "candidate_incompatible", "candidate_failure",
   "allocation_failure", "unsupported_fp_environment"}

\* What a candidate may answer is that it is not available.
LEMMA Legalities ==
  ASSUME CompiledInv, NEW profile
  PROVE  /\ Legality(profile) \subseteq {"ok"} \cup Unavailable
         /\ PairLegality(profile) \subseteq {"ok"} \cup Unavailable
         /\ LeafCodes \subseteq {"ok"} \cup Unavailable
<1>1. candidate \in {"native_strict", "generated_strict", "generated_reassociate", "generated_gpu"}
  BY SessionConstantsAssumption DEF CompiledInv
<1>2. \A p : Legality(p) \subseteq {"ok"} \cup Unavailable
  BY <1>1 DEF Legality, Unavailable
<1>3. PairLegality(profile) \subseteq {"ok"} \cup Unavailable
  BY <1>2 DEF PairLegality, Unavailable
<1>4. LeafCodes \subseteq {"ok"} \cup Unavailable
  BY <1>2 DEF LeafCodes, Unavailable
<1> QED BY <1>2, <1>3, <1>4

\* The checks of a GEMM on values that were issued.
LEMMA Verdicts ==
  ASSUME NEW a, NEW b, NEW legal, legal \subseteq {"ok"} \cup Unavailable,
         a.valid, b.valid, NEW c \in GemmGuards(a, b, legal)
  PROVE  \/ c = "ok" /\ Checked(a, b)
         \/ c = "shape_mismatch" /\ a.cols # b.rows
         \/ c = "extent_overflow" /\ a.cols = b.rows /\ Extent(a.rows, b.cols) = "extent_overflow"
         \/ c \in Unavailable /\ a.cols = b.rows
<1>1. CASE a.cols # b.rows BY <1>1 DEF GemmGuards
<1>2. CASE a.cols = b.rows
  <2>1. c \in (legal \ {"ok"}) \cup
          (IF "ok" \notin legal THEN {}
           ELSE IF Extent(a.rows, b.cols) # "ok" THEN {"extent_overflow"}
           ELSE IF candidate = "generated_gpu" /\ ~GpuFits(a.rows, b.cols, a.cols)
             THEN {"candidate_incompatible"}
           ELSE {"ok"})
    BY <1>2 DEF GemmGuards
  <2>2. Extent(a.rows, b.cols) \in {"ok", "extent_overflow"} BY Answers
  <2>3. CASE c \in legal \ {"ok"} BY <1>2, <2>3
  <2>4. CASE c \notin legal \ {"ok"}
    BY <1>2, <2>1, <2>2, <2>4 DEF Unavailable, Checked
  <2> QED BY <2>3, <2>4
<1> QED BY <1>1, <1>2

\* These answers are codes of the session.
LEMMA UnavailableCodes ==
  /\ Unavailable \subseteq Codes /\ "ok" \notin Unavailable /\ "ok" \in Codes
  /\ {"shape_mismatch", "extent_overflow", "reentrant_use", "invalid_frontier"} \subseteq Codes
BY DEF Unavailable, Codes

\* What is appended comes last and leaves the rest alone.
LEMMA Appending ==
  ASSUME NEW s, IsSequence(s), NEW e
  PROVE  /\ IsSequence(Append(s, e)) /\ Len(s) \in Nat
         /\ Len(Append(s, e)) = Len(s) + 1 /\ Append(s, e)[Len(s) + 1] = e
         /\ \A i \in 1 .. Len(s) : Append(s, e)[i] = s[i]
<1>1. PICK S : s \in Seq(S) BY DEF IsSequence
<1>2. PICK T : T = S \cup {e} OBVIOUS
<1>3. s \in Seq(T) /\ e \in T BY <1>1, <1>2
<1>4. Append(s, e) \in Seq(T) BY <1>3
<1> QED BY <1>3, <1>4 DEF IsSequence

\* A successful call that moves the activation to its next operation.
LEMMA Advances ==
  ASSUME SessionInv, Live, at \in 1 .. Len(program), status.code = "ok",
         UNCHANGED <<compiled, entries, takes, results, returned, taken>>,
         at' = Settle(program, at + 1), active' = FALSE, activeFrontier' = 0,
         \/ phase' = "run" /\ at \notin plan.pairs
         \/ phase' = "second" /\ at \in plan.pairs /\ at' = at + 1,
         \/ status' = Succeeded(status, Frontier) /\ observations' = observations
         \/ status' = Retired("publications") /\ observations' = observations
         \/ /\ status' = Retired("observations")
            /\ \E e : observations' = Append(observations, e),
         \/ report' = report
         \/ report' = Reported("ok")
         \/ report' = [report EXCEPT !.issued = TRUE] /\ report.frontier = Frontier,
         \/ values' = values /\ (Producing(program, at) => at \in plan.pairs)
         \/ \E v : IsMatrix(v) /\ values' = [values EXCEPT ![at] = v],
         \/ Op.kind \in {"read", "gemm", "observe"} /\ memory' = memory
         \/ /\ Op.kind = "publish" /\ Op.res \in Resources /\ Op.lhs \in 1 .. at - 1
            /\ values[Op.lhs] = Contents(memory', Views[Op.res])
  PROVE  SessionInv'
<1>1. /\ CompiledInv /\ WellFormed(program) /\ Len(program) \in Nat
      /\ Completion(program) \in Nat /\ Frontier \in 0 .. Completion(program)
  <2>1. CompiledInv BY DEF SessionInv
  <2>2. Len(program) \in Nat /\ at \in 0 .. Len(program) BY <2>1, Known
  <2> QED BY <2>1, <2>2, Known DEF Frontier
<1>2. program' = program /\ plan' = plan BY DEF compiled
<1>3. Reaches(program, at, at') BY <1>1, ReachesNext
<1>4. ControlInv' /\ (at' <= Len(program) => Frontier < Frontier')
  BY <1>2, <1>3, MovesControl
<1>5. phase' \in {"run", "second"} OBVIOUS
<1>6. /\ LedgerInv' /\ status'.completedFrontier = Frontier
      /\ status.completedFrontier < Frontier /\ Frontier \in Nat
  BY <1>2, <1>4, <1>5, Retires
<1>7. status.completedFrontier \in Nat
  BY <1>1 DEF SessionInv, LedgerInv, IsLedger
<1>8. CompiledInv' BY <1>5, KeepsCompiled DEF Phases
<1>9. ValuesInv'
  <2>1. status.completedFrontier <= status'.completedFrontier
        /\ status'.completedFrontier \in Nat /\ Frontier <= status'.completedFrontier
    BY <1>6, <1>7
  <2> QED BY <1>2, <1>3, <2>1, MovesValues
<1>10. BindingInv'
  <2>1. \A j \in 1 .. at - 1 : values'[j] = values[j]
    <3>1. values = [i \in 1 .. Len(program) |-> values[i]] BY DEF SessionInv, ValuesInv
    <3>2. CASE values' = values BY <3>2
    <3>3. CASE \E v : IsMatrix(v) /\ values' = [values EXCEPT ![at] = v]
      <4>1. \A j \in 1 .. at - 1 : j \in 1 .. Len(program) /\ j # at BY <1>1
      <4> QED BY <3>1, <3>3, <4>1
    <3> QED BY <3>2, <3>3
  <2> QED BY <1>2, <1>3, <2>1, MovesBinding
<1>11. ReportInv'
  <2>1. /\ report \in [frontier: 0 .. Completion(program), code: Codes, issued: BOOLEAN]
        /\ report.issued => report.frontier <= status.completedFrontier
    BY DEF SessionInv, ReportInv
  <2>2. /\ report' \in [frontier: 0 .. Completion(program), code: Codes, issued: BOOLEAN]
        /\ report'.issued => report'.frontier <= Frontier
    <3>1. CASE report' = report
      <4>1. report.frontier \in Nat BY <1>1, <2>1
      <4> QED BY <1>6, <1>7, <2>1, <3>1, <4>1
    <3>2. CASE report' = Reported("ok") BY <1>1, <3>2, UnavailableCodes DEF Reported
    <3>3. CASE report' = [report EXCEPT !.issued = TRUE] /\ report.frontier = Frontier
      <4>1. report'.frontier = Frontier BY <2>1, <3>3
      <4>2. report' \in [frontier: 0 .. Completion(program), code: Codes, issued: BOOLEAN]
        BY <2>1, <3>3
      <4> QED BY <1>6, <4>1, <4>2
    <3> QED BY <3>1, <3>2, <3>3
  <2> QED BY <1>2, <1>5, <1>6, <2>2 DEF ReportInv
<1>12. UntouchedInv' BY <1>5 DEF UntouchedInv, Live
<1>13. LeafInv' BY <1>5 DEF LeafInv
<1>14. HandedInv'
  <2>1. /\ IsSequence(results) /\ IsSequence(observations) /\ ~taken
        /\ Len(results) = 0 /\ Len(observations) = status.observations
    BY DEF SessionInv, HandedInv, LedgerInv
  <2>2. IsLedger(status) BY DEF SessionInv, LedgerInv
  <2>3. CASE \/ status' = Succeeded(status, Frontier) /\ observations' = observations
             \/ status' = Retired("publications") /\ observations' = observations
    <3>1. status'.observations = status.observations
      BY <2>2, <2>3 DEF Succeeded, Retired, IsLedger
    <3> QED BY <2>1, <2>3, <3>1 DEF HandedInv
  <2>4. CASE /\ status' = Retired("observations")
             /\ \E e : observations' = Append(observations, e)
    <3>1. status'.observations = status.observations + 1
      BY <2>2, <2>4 DEF Succeeded, Retired, IsLedger
    <3>2. IsSequence(observations') /\ Len(observations') = Len(observations) + 1
      BY <2>1, <2>4, Appending
    <3> QED BY <2>1, <3>1, <3>2 DEF HandedInv
  <2> QED BY <2>3, <2>4
<1> QED BY <1>4, <1>6, <1>8, <1>9, <1>10, <1>11, <1>12, <1>13, <1>14 DEF SessionInv

-----------------------------------------------------------------------------
(* The actions.                                                            *)

\* A new session has an empty ledger.
LEMMA Fresh ==
  ASSUME CompiledInv
  PROVE  IsLedger(FreshStatus) /\ 0 \in 0 .. Completion(program)
<1>1. Completion(program) \in Nat \ {0} BY Known
<1> QED BY <1>1, UnavailableCodes DEF FreshStatus, IsLedger

\* Nothing has been handed out at first.
LEMMA EmptySequence ==
  IsSequence(<<>>) /\ Len(<<>>) = 0
<1>1. <<>> \in Seq({}) OBVIOUS
<1> QED BY <1>1 DEF IsSequence

\* A new session satisfies the invariant.
LEMMA Inits ==
  ASSUME Init
  PROVE  SessionInv
<1> USE DEF Init
<1>0. CompiledInv
  <2>1. 0 \in 0 .. EntryBudget /\ 0 \in 0 .. TakeBudget BY SessionConstantsAssumption
  <2> QED BY <2>1 DEF CompiledInv, Phases
<1>1. /\ WellFormed(program) /\ Len(program) \in Nat /\ Completion(program) \in Nat \ {0}
      /\ IsLedger(FreshStatus)
  BY <1>0, Known, Fresh
<1>2. at \in 1 .. Len(program) + 1 /\ (at <= Len(program) => ~Marker(program[at]))
  BY <1>1, Opening
<1>3. ControlInv
  <2>1. (phase \in {"leaf", "pairleaf"}) = FALSE OBVIOUS
  <2>2. active = (phase \in {"leaf", "pairleaf"}) BY <2>1, Zenon
  <2>3. activeFrontier = (IF active THEN Frontier ELSE 0) OBVIOUS
  <2> QED BY <1>2, <2>2, <2>3 DEF ControlInv
<1>4. ~Live BY DEF Live
<1>5. LedgerInv BY <1>1, <1>4 DEF LedgerInv, FreshStatus
<1>6. ReportInv BY <1>1, UnavailableCodes DEF ReportInv, NoReport
<1>7. ValuesInv
  <2>1. \A i \in 1 .. Len(program) : values[i] = NoValue OBVIOUS
  <2>2. NoValue.valid = FALSE BY DEF NoValue
  <2>3. \A i \in 1 .. Len(program) : IsValue(values[i]) /\ ~values[i].valid
    BY <2>1, <2>2, Zenon DEF IsValue
  <2>4. values = [i \in 1 .. Len(program) |-> values[i]] OBVIOUS
  <2> QED BY <1>4, <2>3, <2>4 DEF ValuesInv
<1>8. BindingInv BY <1>4 DEF BindingInv
<1>9. UntouchedInv BY DEF UntouchedInv
<1>10. HandedInv BY EmptySequence DEF HandedInv, FreshStatus
<1>11. LeafInv BY DEF LeafInv
<1> QED BY <1>0, <1>3, <1>5, <1>6, <1>7, <1>8, <1>9, <1>10, <1>11 DEF SessionInv

\* Compile: only the plan is new.
LEMMA CompilesRegion ==
  ASSUME SessionInv, Compile
  PROVE  SessionInv'
<1>1. /\ phase = "source" /\ phase' \in {"idle", "refused"}
      /\ plan' = Plan(program, IF phase' = "refused" THEN "none" ELSE optimization)
      /\ UNCHANGED <<program, args, optimization, candidate, memory, entries, takes, results,
                     returned, at, values, status, active, activeFrontier, taken,
                     observations, report>>
  <2>1. plan = Plan(program, "none") BY DEF SessionInv, CompiledInv, Compile
  <2> QED BY <2>1 DEF Compile, host, session
<1>2. CompiledInv' BY <1>1 DEF SessionInv, CompiledInv, Phases
<1>3. ControlInv'
  <2>1. (phase \in {"leaf", "pairleaf"}) = FALSE /\ (phase' \in {"leaf", "pairleaf"}) = FALSE
    BY <1>1
  <2>2. active' = (phase' \in {"leaf", "pairleaf"})
    BY <1>1, <2>1, Zenon DEF SessionInv, ControlInv
  <2>3. activeFrontier' = (IF active' THEN Frontier' ELSE 0)
    BY <1>1 DEF SessionInv, ControlInv, Frontier
  <2>4. at' \in 1 .. Len(program') + 1 /\ (at' <= Len(program') => ~Marker(program'[at']))
    BY <1>1 DEF SessionInv, ControlInv
  <2> QED BY <1>1, <2>2, <2>3, <2>4 DEF ControlInv
<1>4. ~Live /\ ~Live' BY <1>1 DEF Live
<1>5. LedgerInv' BY <1>1, <1>4 DEF SessionInv, LedgerInv, IsLedger
<1>6. ReportInv' BY <1>1 DEF SessionInv, ReportInv
<1>7. ValuesInv' BY <1>1, <1>4 DEF SessionInv, ValuesInv
<1>8. BindingInv' BY <1>4 DEF BindingInv
<1>9. UntouchedInv' BY <1>1, <1>4 DEF SessionInv, UntouchedInv
<1>10. HandedInv' BY <1>1 DEF SessionInv, HandedInv
<1>11. LeafInv' BY <1>1 DEF LeafInv
<1> QED BY <1>2, <1>3, <1>5, <1>6, <1>7, <1>8, <1>9, <1>10, <1>11 DEF SessionInv

\* Enter: a pristine session starts an activation, any other is left alone.
LEMMA Enters ==
  ASSUME SessionInv, Enter
  PROVE  SessionInv'
<1>1. /\ phase = "idle" /\ entries < EntryBudget /\ entries' = entries + 1
      /\ UNCHANGED <<program, args, optimization, candidate, plan, memory, takes, results,
                     status, active, activeFrontier, taken, observations, report>>
  BY DEF Enter, compiled, session
<1>2. CompiledInv BY DEF SessionInv
<1>3. /\ WellFormed(program) /\ Len(program) \in Nat /\ Completion(program) \in Nat \ {0}
  BY <1>2, Known
<1>4. ~Live BY <1>1 DEF Live
<1>5. entries' \in 0 .. EntryBudget BY <1>1, <1>2, SessionConstantsAssumption DEF CompiledInv
<1>6. CASE status.code = "ok" /\ Pristine
  <2>1. /\ phase' = "run" /\ at' = Settle(program, 1)
        /\ values' = [i \in 1 .. Len(program) |-> NoValue] /\ returned' = returned
    BY <1>6 DEF Enter
  <2>2. /\ ~status.completed /\ status.completedFrontier = 0
        /\ status.completedEffectFrontier = 0
        /\ status.publications = 0 /\ status.observations = 0
    BY <1>6 DEF Pristine
  <2>3. CompiledInv'
    <3>1. phase \notin {"source", "refused"} /\ phase' \notin {"source", "refused"}
      BY <1>1, <2>1
    <3>2. phase' \in Phases BY <2>1 DEF Phases
    <3> QED BY <1>1, <1>2, <1>5, <3>1, <3>2 DEF CompiledInv
  <2>4. /\ at' \in 1 .. Len(program) + 1 /\ (at' <= Len(program) => ~Marker(program[at']))
        /\ \A r : at' - 1 \notin FusedPairs(program, r)
        /\ Bindings(program)[at' - 1] = NoBinding
        /\ \A j : Producing(program, j) => ~Dominates(program, j, at')
    BY <1>3, <2>1, Opening
  <2>5. at' - 1 \notin plan.pairs BY <1>2, <2>4, Zenon DEF CompiledInv, Plan
  <2>6. active = FALSE /\ activeFrontier = 0 BY <1>1, Inactive DEF SessionInv
  <2>7. ControlInv'
    <3>1. (phase' \in {"leaf", "pairleaf"}) = FALSE BY <2>1
    <3>2. active' = (phase' \in {"leaf", "pairleaf"}) BY <1>1, <2>6, <3>1, Zenon
    <3>3. activeFrontier' = (IF active' THEN Frontier' ELSE 0) BY <1>1, <2>6
    <3> QED BY <1>1, <2>1, <2>4, <2>5, <3>2, <3>3 DEF ControlInv
  <2>8. LedgerInv'
    <3>1. IsLedger(status)' /\ IsLedger(returned)'
      BY <1>1, <2>1 DEF SessionInv, LedgerInv, IsLedger
    <3>2. at' <= Len(program') => status'.completedFrontier < Frontier'
      <4> SUFFICES ASSUME at' <= Len(program) PROVE 0 < FrontierOf(program, at')
        BY <1>1, <2>2 DEF Frontier
      <4>1. at' \in 1 .. Len(program) /\ 0 \in 0 .. at' - 1
        <5>1. \A n \in Nat : \A s \in 1 .. n + 1 : s <= n => s \in 1 .. n /\ 0 \in 0 .. s - 1
          OBVIOUS
        <5> QED BY <1>3, <2>4, <5>1, Zenon
      <4>2. FrontierOf(program, 0) \in Nat /\ FrontierOf(program, at') \in Nat
        BY <1>3, <2>4, Frontiers
      <4>3. FrontierOf(program, 0) < FrontierOf(program, at')
        BY <1>3, <2>4, <4>1, Frontiers
      <4> QED BY <4>2, <4>3
    <3>3. ~taken BY <1>6, <2>2 DEF SessionInv, LedgerInv
    <3>4. status.failedFrontier = 0 BY <1>6 DEF SessionInv, LedgerInv
    <3>5. status.completedFrontier < Completion(program) BY <1>3, <2>2
    <3> QED BY <1>1, <1>6, <2>2, <3>1, <3>2, <3>3, <3>4, <3>5 DEF LedgerInv
  <2>9. ReportInv' BY <1>1, <2>1 DEF SessionInv, ReportInv
  <2>10. ValuesInv'
    <3>1. \A i \in 1 .. Len(program) : values'[i] = NoValue BY <2>1
    <3>2. NoValue.valid = FALSE BY DEF NoValue
    <3>3. \A i \in 1 .. Len(program) : IsValue(values'[i]) /\ ~values'[i].valid
      BY <3>1, <3>2, Zenon DEF IsValue
    <3>4. values' = [i \in 1 .. Len(program) |-> values'[i]] BY <2>1
    <3> QED BY <1>1, <2>4, <3>3, <3>4 DEF ValuesInv
  <2>11. BindingInv'
    <3>1. NoBinding.value = 0 BY DEF NoBinding
    <3> QED BY <1>1, <2>4, <3>1 DEF BindingInv
  <2>12. UntouchedInv' BY <2>1 DEF UntouchedInv, Live
  <2>13. HandedInv' BY <1>1 DEF SessionInv, HandedInv
  <2>14. LeafInv' BY <2>1 DEF LeafInv
  <2> QED BY <2>3, <2>7, <2>8, <2>9, <2>10, <2>11, <2>12, <2>13, <2>14 DEF SessionInv
<1>7. CASE ~(status.code = "ok" /\ Pristine)
  <2>1. /\ UNCHANGED <<phase, at, values>>
        /\ returned' \in {status, [status EXCEPT !.code = "invalid_frontier"]}
    BY <1>7 DEF Enter
  <2>2. ~Live' BY <1>4, <2>1 DEF Live
  <2>3. CompiledInv' BY <1>1, <1>2, <1>5, <2>1 DEF CompiledInv
  <2>4. ControlInv' BY <1>1, <2>1 DEF SessionInv, ControlInv, Frontier, Op
  <2>5. LedgerInv'
    <3>1. IsLedger(status) BY DEF SessionInv, LedgerInv
    <3>2. IsLedger(returned') BY <2>1, <3>1, UnavailableCodes DEF IsLedger
    <3>3. IsLedger(status)' /\ IsLedger(returned)' BY <1>1, <3>1, <3>2 DEF IsLedger
    <3> QED BY <1>1, <2>2, <3>3 DEF SessionInv, LedgerInv
  <2>6. ReportInv' BY <1>1, <2>1 DEF SessionInv, ReportInv, Frontier
  <2>7. ValuesInv' BY <1>1, <2>1, <2>2 DEF SessionInv, ValuesInv
  <2>8. BindingInv' BY <2>2 DEF BindingInv
  <2>9. UntouchedInv' BY <1>1, <1>4, <2>1 DEF SessionInv, UntouchedInv
  <2>10. HandedInv' BY <1>1 DEF SessionInv, HandedInv
  <2>11. LeafInv' BY <1>1, <2>1 DEF LeafInv
  <2> QED BY <2>3, <2>4, <2>5, <2>6, <2>7, <2>8, <2>9, <2>10, <2>11 DEF SessionInv
<1> QED BY <1>6, <1>7

\* TakeResult: the first taker gets the observations, and retires an unused session.
LEMMA Takes ==
  ASSUME SessionInv, TakeResult
  PROVE  SessionInv'
<1>1. /\ phase = "idle" /\ takes < TakeBudget /\ takes' = takes + 1
      /\ UNCHANGED <<program, args, optimization, candidate, plan, memory, entries, returned,
                     phase, at, values, active, activeFrontier, report>>
  BY DEF TakeResult, compiled
<1>2. CompiledInv BY DEF SessionInv
<1>3. Completion(program) \in Nat \ {0} BY <1>2, Known
<1>4. ~Live /\ ~Live' BY <1>1 DEF Live
<1>5. takes' \in 0 .. TakeBudget BY <1>1, <1>2, SessionConstantsAssumption DEF CompiledInv
<1>6. /\ IsSequence(results) /\ IsSequence(observations)
      /\ taken <=> Len(results) # 0
      /\ ~taken => Len(observations) = status.observations
      /\ taken => /\ Len(observations) = 0
                  /\ Len(results[1].observations) = status.observations
                  /\ \A i \in 2 .. Len(results) : Len(results[i].observations) = 0
  BY Zenon DEF SessionInv, HandedInv
<1>7. IsLedger(status) BY DEF SessionInv, LedgerInv
<1>8. ControlInv' /\ ReportInv' /\ LeafInv' /\ BindingInv'
  <2>1. status'.completedFrontier = status.completedFrontier
    BY <1>7 DEF TakeResult, Failed, IsLedger
  <2> QED BY <1>1, <1>4, <2>1
           DEF SessionInv, ControlInv, ReportInv, LeafInv, BindingInv, Frontier, Op
<1>9. CASE taken
  <2>1. /\ UNCHANGED <<status, taken, observations>>
        /\ \E e : results' = Append(results, e) /\ e.observations = <<>>
    <3>1. [code |-> "already_complete", observations |-> Kept].observations = <<>> BY DEF Kept
    <3> QED BY <1>9, <3>1 DEF TakeResult
  <2>2. CompiledInv' BY <1>1, <1>2, <1>5, <2>1 DEF CompiledInv
  <2>3. LedgerInv' BY <1>1, <1>4, <2>1 DEF SessionInv, LedgerInv, IsLedger
  <2>4. ValuesInv' BY <1>1, <1>4, <2>1 DEF SessionInv, ValuesInv
  <2>5. UntouchedInv' BY <1>1, <1>4, <2>1 DEF SessionInv, UntouchedInv
  <2>6. HandedInv'
    <3>1. PICK e : results' = Append(results, e) /\ e.observations = <<>> BY <2>1
    <3>2. /\ IsSequence(results') /\ Len(results) \in Nat /\ Len(results') = Len(results) + 1
          /\ results'[Len(results) + 1] = e
          /\ \A i \in 1 .. Len(results) : results'[i] = results[i]
      BY <1>6, <3>1, Appending
    <3>3. Len(results) # 0 BY <1>6, <1>9
    <3>4. results'[1] = results[1] BY <3>2, <3>3
    <3>5. \A i \in 2 .. Len(results') : Len(results'[i].observations) = 0
      <4> SUFFICES ASSUME NEW i \in 2 .. Len(results')
                   PROVE  Len(results'[i].observations) = 0
        OBVIOUS
      <4>1. CASE i = Len(results) + 1 BY <3>1, <3>2, <4>1, EmptySequence
      <4>2. CASE i # Len(results) + 1
        <5>1. i \in 2 .. Len(results) /\ i \in 1 .. Len(results) BY <3>2, <4>2
        <5> QED BY <1>6, <1>9, <3>2, <5>1
      <4> QED BY <4>1, <4>2
    <3> QED BY <1>6, <1>9, <2>1, <3>2, <3>4, <3>5 DEF HandedInv
  <2> QED BY <1>8, <2>2, <2>3, <2>4, <2>5, <2>6 DEF SessionInv
<1>10. CASE ~taken
  <2>1. /\ status' = IF status.code = "ok" /\ ~status.completed
                     THEN Failed(status, "invalid_frontier", 0) ELSE status
        /\ taken' = TRUE /\ observations' = <<>>
        /\ \E e : results' = Append(results, e) /\ e.observations = observations
    <3>1. \A c : [code |-> c, observations |-> observations].observations = observations
      OBVIOUS
    <3> QED BY <1>10, <3>1 DEF TakeResult, Kept
  <2>2. /\ IsLedger(status')
        /\ status'.code # "ok" \/ status'.completed
        /\ status'.completed = status.completed /\ status'.observations = status.observations
        /\ status'.completedFrontier = status.completedFrontier
        /\ status'.completedEffectFrontier = status.completedEffectFrontier
        /\ status'.publications = status.publications
        /\ status'.failedFrontier # 0 =>
             status.failedFrontier = status'.failedFrontier /\ status'.code = status.code
    <3>1. CASE status.code = "ok" /\ ~status.completed
      <4>1. status' = [status EXCEPT !.code = "invalid_frontier", !.failedFrontier = 0]
        BY <2>1, <3>1 DEF Failed
      <4>2. status.failedFrontier \in 0 .. Completion(program) /\ 0 \in 0 .. Completion(program)
        BY <1>3, <1>7 DEF IsLedger
      <4>3. IsLedger(status') BY <1>7, <4>1, <4>2, UnavailableCodes DEF IsLedger
      <4>4. status'.code = "invalid_frontier" /\ status'.failedFrontier = 0
        BY <1>7, <4>1 DEF IsLedger
      <4> QED BY <1>7, <4>1, <4>3, <4>4 DEF IsLedger
    <3>2. CASE ~(status.code = "ok" /\ ~status.completed)
      BY <1>7, <2>1, <3>2
    <3> QED BY <3>1, <3>2
  <2>3. CompiledInv' BY <1>1, <1>2, <1>5, <2>1 DEF CompiledInv
  <2>4. LedgerInv'
    <3>1. IsLedger(status)' /\ IsLedger(returned)'
      BY <1>1, <2>2 DEF SessionInv, LedgerInv, IsLedger
    <3> QED BY <1>1, <1>4, <2>2, <3>1 DEF SessionInv, LedgerInv
  <2>5. ValuesInv' BY <1>1, <1>4, <2>2 DEF SessionInv, ValuesInv
  <2>6. UntouchedInv' BY <2>2 DEF UntouchedInv
  <2>7. HandedInv'
    <3>1. PICK e : results' = Append(results, e) /\ e.observations = observations BY <2>1
    <3>2. /\ IsSequence(results') /\ Len(results) \in Nat /\ Len(results') = Len(results) + 1
          /\ results'[Len(results) + 1] = e
      BY <1>6, <3>1, Appending
    <3>3. Len(results) = 0 /\ Len(results') = 1 /\ results'[1] = e BY <1>6, <1>10, <3>2
    <3>4. Len(results'[1].observations) = status'.observations
      BY <1>6, <1>10, <2>2, <3>1, <3>3
    <3> QED BY <2>1, <3>2, <3>3, <3>4, EmptySequence DEF HandedInv
  <2> QED BY <1>8, <2>3, <2>4, <2>5, <2>6, <2>7 DEF SessionInv
<1> QED BY <1>9, <1>10 DEF SessionInv, CompiledInv

\* Where an activation is when it makes a call.
LEMMA Here ==
  ASSUME SessionInv, NEW k, AtOp(k)
  PROVE  /\ at \in 1 .. Len(program) /\ Live /\ phase = "run" /\ status.code = "ok" /\ Op.kind = k
         /\ BeginCode(Frontier) = "ok"
         /\ active = FALSE /\ activeFrontier = 0
         /\ Op.kind # "gemm" => at \notin plan.pairs
         /\ Producing(program, at) <=> Op.kind \in {"read", "gemm"}
         /\ Op.kind \in {"read", "publish", "observe"} => Op.res \in Resources
<1>1. CompiledInv /\ WellFormed(program) /\ Len(program) \in Nat BY Known DEF SessionInv
<1>2. phase = "run" /\ at <= Len(program) /\ Op.kind = k BY DEF AtOp
<1>3. at \in 1 .. Len(program)
  <2>1. at \in 1 .. Len(program) + 1 BY DEF SessionInv, ControlInv
  <2> QED BY <1>1, <1>2, <2>1
<1>4. status.code = "ok" /\ Live BY <1>2 DEF SessionInv, LedgerInv, Live
<1>5. BeginCode(Frontier) = "ok" BY <1>2, <1>3, Begins
<1>6. active = FALSE /\ activeFrontier = 0 BY <1>2, Inactive DEF SessionInv
<1>7. Op.kind # "gemm" => at \notin plan.pairs BY <1>1, <1>2, Pairs DEF Op
<1>8. Producing(program, at) <=> Op.kind \in {"read", "gemm"} BY <1>2, <1>3 DEF Producing, Op
<1>9. Op.kind \in {"read", "publish", "observe"} => Op.res \in Resources
  <2>1. Op \in Operation BY <1>1, <1>3, Wellformed DEF Op
  <2> QED BY <1>2, <2>1 DEF Operation
<1> QED BY <1>2, <1>3, <1>4, <1>5, <1>6, <1>7, <1>8, <1>9

\* No call of an activation is refused by begin.
LEMMA Unrefused ==
  ASSUME SessionInv, NEW k, AtOp(k)
  PROVE  \A own : Outcomes(own) = own
<1>1. at \in 1 .. Len(program) /\ phase = "run" BY Here
<1> QED BY <1>1, Begins

\* ReadCall: the view's contents are issued.
LEMMA Reads ==
  ASSUME SessionInv, ReadCall
  PROVE  SessionInv'
<1>1. AtOp("read") BY DEF ReadCall
<1> DEFINE fault == ReadFault(Views[Op.res], Rows, Cols)
           own == IF fault # "ok" THEN {fault} ELSE {"ok", "allocation_failure"}
<1>2. /\ at \in 1 .. Len(program) /\ Live /\ status.code = "ok" /\ Op.kind = "read"
      /\ Outcomes(own) = own /\ active = FALSE /\ activeFrontier = 0
      /\ at \notin plan.pairs /\ Op.res \in Resources
  <2> HIDE DEF own, fault
  <2>1. Outcomes(own) = own BY <1>1, Unrefused, Zenon
  <2>2. at \in 1 .. Len(program) /\ Live /\ status.code = "ok" /\ Op.kind = "read"
    BY <1>1, Here
  <2>3. active = FALSE /\ activeFrontier = 0 BY <1>1, Here
  <2>4. at \notin plan.pairs /\ Op.res \in Resources BY <1>1, <2>2, Here
  <2> QED BY <2>1, <2>2, <2>3, <2>4, Zenon
<1>3. own \subseteq Codes BY Answers, UnavailableCodes DEF Unavailable
<1>4. PICK c \in own :
        \/ ReturnFailed(c) /\ UNCHANGED report
        \/ /\ c = "ok"
           /\ values' = [values EXCEPT ![at] = Contents(memory, Views[Op.res])]
           /\ status' = Succeeded(status, Frontier)
           /\ Continue
           /\ UNCHANGED <<compiled, host, returned, active, activeFrontier, taken,
                          observations, report>>
  BY <1>2, Zenon DEF ReadCall
<1> HIDE DEF own, fault
<1>5. CASE ReturnFailed(c) /\ UNCHANGED report BY <1>2, <1>3, <1>4, <1>5, Fails
<1>6. CASE /\ values' = [values EXCEPT ![at] = Contents(memory, Views[Op.res])]
           /\ status' = Succeeded(status, Frontier)
           /\ Continue
           /\ UNCHANGED <<compiled, host, returned, active, activeFrontier, taken,
                          observations, report>>
  <2>1. IsMatrix(Contents(memory, Views[Op.res])) BY <1>2, ContentsIsMatrix
  <2> QED BY <1>2, <1>6, <2>1, Advances DEF Continue, host
<1> QED BY <1>4, <1>5, <1>6

\* ReadForwardedCall: the retained value is issued again.
LEMMA ForwardsReads ==
  ASSUME SessionInv, ReadForwardedCall
  PROVE  SessionInv'
<1>1. AtOp("read") /\ plan.forwarded[at] # 0 BY DEF ReadForwardedCall
<1>2. /\ at \in 1 .. Len(program) /\ Live /\ status.code = "ok" /\ Op.kind = "read"
      /\ Outcomes({ForwardFault}) = {ForwardFault} /\ active = FALSE /\ activeFrontier = 0
      /\ at \notin plan.pairs /\ Op.res \in Resources
  <2>1. Outcomes({ForwardFault}) = {ForwardFault} BY <1>1, Unrefused, Zenon
  <2>2. at \in 1 .. Len(program) /\ Live /\ status.code = "ok" /\ Op.kind = "read"
    BY <1>1, Here
  <2>3. active = FALSE /\ activeFrontier = 0 BY <1>1, Here
  <2>4. at \notin plan.pairs /\ Op.res \in Resources BY <1>1, <2>2, Here
  <2> QED BY <2>1, <2>2, <2>3, <2>4, Zenon
<1>3. /\ values[plan.forwarded[at]] = Contents(memory, Views[Op.res])
      /\ ForwardFault = ReadFault(Views[Op.res], Rows, Cols)
  BY <1>1, <1>2, Retained
<1>4. ForwardFault \in Codes BY <1>3, Answers
<1>5. \/ ReturnFailed(ForwardFault) /\ UNCHANGED report
      \/ /\ values' = [values EXCEPT ![at] = values[plan.forwarded[at]]]
         /\ status' = Succeeded(status, Frontier)
         /\ Continue
         /\ UNCHANGED <<compiled, host, returned, active, activeFrontier, taken,
                        observations, report>>
  BY <1>2, Zenon DEF ReadForwardedCall
<1>6. CASE ReturnFailed(ForwardFault) /\ UNCHANGED report BY <1>2, <1>4, <1>6, Fails
<1>7. CASE /\ values' = [values EXCEPT ![at] = values[plan.forwarded[at]]]
           /\ status' = Succeeded(status, Frontier)
           /\ Continue
           /\ UNCHANGED <<compiled, host, returned, active, activeFrontier, taken,
                          observations, report>>
  <2>1. IsMatrix(values[plan.forwarded[at]]) BY <1>2, <1>3, ContentsIsMatrix
  <2> QED BY <1>2, <1>7, <2>1, Advances DEF Continue, host
<1> QED BY <1>5, <1>6, <1>7

\* The operands of a GEMM that is about to be called.
LEMMA GemmOperands ==
  ASSUME SessionInv, phase \in {"run", "leaf"}, at \in 1 .. Len(program), Op.kind = "gemm"
  PROVE  \A v \in {Op.lhs, Op.rhs} :
           v \in 1 .. at - 1 /\ v \notin plan.pairs /\ values[v].valid /\ IsMatrix(values[v])
<1>1. {Op.lhs, Op.rhs} \subseteq Operands(Op) BY DEF Operands
<1> QED BY <1>1, Issued

\* What the checks of a GEMM say of the shapes of its factors.
LEMMA GemmVerdicts ==
  ASSUME SessionInv, AtOp("gemm"), NEW c \in GemmOutcomes
  PROVE  LET a == values[Op.lhs]
             b == values[Op.rhs]
         IN  \/ c = "ok" /\ Checked(a, b)
             \/ c = "shape_mismatch" /\ a.cols # b.rows
             \/ c = "extent_overflow" /\ a.cols = b.rows /\ Extent(a.rows, b.cols) = "extent_overflow"
             \/ c \in Unavailable /\ a.cols = b.rows
<1> DEFINE a == values[Op.lhs]
           b == values[Op.rhs]
           guards == GemmGuards(a, b, Legality(Op.profile))
<1>1. /\ at \in 1 .. Len(program) /\ phase = "run" /\ Op.kind = "gemm" BY Here
<1>2. a.valid /\ b.valid BY <1>1, GemmOperands
<1>3. Legality(Op.profile) \subseteq {"ok"} \cup Unavailable
  BY Legalities DEF SessionInv
<1>4. \A d \in guards :
        \/ d = "ok" /\ Checked(a, b)
        \/ d = "shape_mismatch" /\ a.cols # b.rows
        \/ d = "extent_overflow" /\ a.cols = b.rows /\ Extent(a.rows, b.cols) = "extent_overflow"
        \/ d \in Unavailable /\ a.cols = b.rows
  BY <1>2, <1>3, Verdicts
<1>5. GemmOutcomes = IF "ok" \in guards
                     THEN guards \cup {"allocation_failure", "unsupported_fp_environment"}
                     ELSE guards
  BY DEF GemmOutcomes
<1> HIDE DEF guards, a, b
<1>6. CASE c \in guards BY <1>4, <1>6 DEF a, b
<1>7. CASE c \notin guards
  <2>1. "ok" \in guards /\ c \in {"allocation_failure", "unsupported_fp_environment"}
    BY <1>5, <1>7
  <2>2. Checked(a, b) BY <1>4, <2>1 DEF Unavailable
  <2> QED BY <2>1, <2>2 DEF Unavailable, Checked, a, b
<1> QED BY <1>6, <1>7

\* A step that only opens or closes the leaf of a call.
LEMMA Opens ==
  ASSUME SessionInv, Live, at \in 1 .. Len(program), status.code = "ok",
         UNCHANGED <<compiled, host, returned, at, values, status, taken, observations>>,
         active' = TRUE, activeFrontier' = Frontier, report' = Reported("ok"),
         \/ phase' = "leaf" /\ Op.kind = "gemm" /\ at \notin plan.pairs /\ phase = "run"
            /\ Checked(values[Op.lhs], values[Op.rhs])
         \/ /\ phase' = "pairleaf" /\ phase = "second"
            /\ values[Producer.rhs].cols = values[Op.rhs].rows
            /\ Extent(values[Producer.lhs].rows, values[Op.rhs].cols) = "ok"
  PROVE  SessionInv'
<1>1. /\ UNCHANGED <<program, args, optimization, candidate, plan, memory, entries, takes,
                     results, returned, at, values, status, taken, observations>>
      /\ phase' \in {"leaf", "pairleaf"}
  BY DEF compiled, host
<1>2. Live' BY <1>1 DEF Live
<1>3. CompiledInv' BY <1>1, KeepsCompiled DEF compiled, Phases
<1>4. CompiledInv /\ ControlInv /\ LedgerInv /\ ReportInv /\ ValuesInv /\ BindingInv /\ HandedInv
  BY DEF SessionInv
<1>5. ControlInv'
  <2>1. (phase' \in {"leaf", "pairleaf"}) = TRUE BY <1>1
  <2>2. active' = (phase' \in {"leaf", "pairleaf"}) BY <2>1, Zenon
  <2>3. activeFrontier' = (IF active' THEN Frontier' ELSE 0) BY <1>1 DEF Frontier
  <2>4. at <= Len(program) BY <1>4, Known
  <2> QED BY <1>1, <1>4, <2>2, <2>3, <2>4 DEF ControlInv, Op
<1>6. LedgerInv' BY <1>1, <1>2, <1>4 DEF LedgerInv, IsLedger, Frontier
<1>7. ReportInv'
  <2>1. Frontier \in 0 .. Completion(program)
    <3>1. Len(program) \in Nat /\ at \in 0 .. Len(program) BY <1>4, Known
    <3> QED BY <1>4, <3>1, Known DEF Frontier
  <2> QED BY <1>1, <2>1, UnavailableCodes DEF ReportInv, Reported, Frontier
<1>8. ValuesInv' BY <1>1, <1>4 DEF ValuesInv
<1>9. BindingInv' BY <1>1, <1>4 DEF BindingInv
<1>10. UntouchedInv' BY <1>2 DEF UntouchedInv
<1>11. HandedInv' BY <1>1, <1>4 DEF HandedInv
<1>12. LeafInv' BY <1>1 DEF LeafInv, Op, Producer, Checked
<1> QED BY <1>3, <1>5, <1>6, <1>7, <1>8, <1>9, <1>10, <1>11, <1>12 DEF SessionInv

\* GemmEnter: the leaf is entered with checked shapes.
LEMMA GemmsEnter ==
  ASSUME SessionInv, GemmEnter
  PROVE  SessionInv'
<1>1. AtOp("gemm") /\ at \notin plan.pairs BY DEF GemmEnter
<1>2. /\ at \in 1 .. Len(program) /\ Live /\ phase = "run" /\ status.code = "ok" /\ Op.kind = "gemm"
      /\ Outcomes(GemmOutcomes) = GemmOutcomes /\ BeginCode(Frontier) = "ok"
  <2>1. Outcomes(GemmOutcomes) = GemmOutcomes BY <1>1, Unrefused, Zenon
  <2> QED BY <1>1, <2>1, Here
<1>3. PICK c \in GemmOutcomes :
        \/ ReturnFailed(c) /\ ReportFailed(c)
        \/ /\ c = "ok"
           /\ active' = TRUE /\ activeFrontier' = Frontier
           /\ phase' = "leaf"
           /\ report' = Reported("ok")
           /\ UNCHANGED <<compiled, host, returned, at, values, status, taken, observations>>
  BY <1>2, Zenon DEF GemmEnter
<1>4. c \in Codes /\ (c = "ok" => Checked(values[Op.lhs], values[Op.rhs]))
  BY <1>1, GemmVerdicts, UnavailableCodes
<1>5. CASE ReturnFailed(c) /\ ReportFailed(c)
  <2>1. report' = Reported(c) BY <1>2, <1>5 DEF ReportFailed
  <2> QED BY <1>2, <1>4, <1>5, <2>1, Fails
<1>6. CASE /\ c = "ok"
           /\ active' = TRUE /\ activeFrontier' = Frontier
           /\ phase' = "leaf"
           /\ report' = Reported("ok")
           /\ UNCHANGED <<compiled, host, returned, at, values, status, taken, observations>>
  BY <1>1, <1>2, <1>4, <1>6, Opens
<1> QED BY <1>3, <1>5, <1>6

\* Reenter: a callback fails the session while the leaf runs.
LEMMA Reenters ==
  ASSUME SessionInv, Reenter
  PROVE  SessionInv'
<1>1. /\ UNCHANGED <<program, args, optimization, candidate, plan, memory, entries, takes,
                     results, returned, phase, at, values, active, activeFrontier, taken,
                     observations, report>>
      /\ phase = "leaf" /\ status.code = "ok"
      /\ status' = Failed(status, "reentrant_use", activeFrontier)
  BY DEF Reenter, compiled, host
<1>2. CompiledInv /\ ControlInv /\ LedgerInv /\ ReportInv /\ ValuesInv /\ BindingInv
      /\ HandedInv /\ LeafInv
  BY DEF SessionInv
<1>3. /\ at \in 1 .. Len(program) /\ Len(program) \in Nat /\ Frontier \in 0 .. Completion(program)
      /\ Completion(program) \in Nat
  <2>1. at \in 1 .. Len(program) + 1 /\ at <= Len(program) /\ Len(program) \in Nat
    BY <1>1, <1>2, Known DEF ControlInv
  <2>2. at \in 0 .. Len(program) /\ at \in 1 .. Len(program) BY <2>1
  <2> QED BY <1>2, <2>1, <2>2, Known DEF Frontier
<1>4. activeFrontier = Frontier
  <2>1. (phase \in {"leaf", "pairleaf"}) = TRUE BY <1>1
  <2>2. active BY <1>2, <2>1, Zenon DEF ControlInv
  <2> QED BY <1>2, <2>2 DEF ControlInv
<1>5. IsLedger(status) /\ status.completedFrontier < Frontier BY <1>1, <1>2, <1>3 DEF LedgerInv, Live
<1>6. status' = [status EXCEPT !.code = "reentrant_use", !.failedFrontier = Frontier]
  BY <1>1, <1>4 DEF Failed
<1>7. /\ IsLedger(status') /\ status'.code = "reentrant_use" /\ status'.failedFrontier = Frontier
      /\ status'.completedFrontier = status.completedFrontier
      /\ status'.completedEffectFrontier = status.completedEffectFrontier
      /\ status'.publications = status.publications
      /\ status'.observations = status.observations
      /\ status'.completed = status.completed
  BY <1>3, <1>5, <1>6, UnavailableCodes DEF IsLedger
<1>8. LedgerInv'
  <2>1. IsLedger(status)' /\ IsLedger(returned)' BY <1>1, <1>2, <1>7 DEF IsLedger, LedgerInv
  <2>2. Live' /\ at' <= Len(program') => status'.completedFrontier < Frontier'
    BY <1>1, <1>5, <1>7 DEF Frontier
  <2> QED BY <1>1, <1>2, <1>5, <1>7, <2>1, <2>2 DEF LedgerInv, Live
<1>9. CompiledInv' BY <1>1, <1>2 DEF CompiledInv
<1>10. ControlInv' BY <1>1, <1>2 DEF ControlInv, Frontier, Op
<1>11. ReportInv' BY <1>1, <1>2, <1>7 DEF ReportInv, Frontier
<1>12. ValuesInv' BY <1>1, <1>2, <1>7 DEF ValuesInv, Live
<1>13. BindingInv' BY <1>1, <1>2 DEF BindingInv, Live
<1>14. UntouchedInv' BY <1>7 DEF UntouchedInv
<1>15. HandedInv' BY <1>1, <1>2, <1>7 DEF HandedInv
<1>16. LeafInv' BY <1>1, <1>2 DEF LeafInv, Op, Producer
<1> QED BY <1>8, <1>9, <1>10, <1>11, <1>12, <1>13, <1>14, <1>15, <1>16 DEF SessionInv

\* A value that dominates an operation dominates the next one of its arm.
LEMMA DominatesNext ==
  ASSUME NEW prog, WellFormed(prog), NEW i \in Nat, NEW j \in Nat, Dominates(prog, j, i),
         ~Marker(prog[i + 1])
  PROVE  Dominates(prog, j, i + 1)
<1> SUFFICES ASSUME NEW arm \in Arms(prog), Within(j, arm) PROVE Within(i + 1, arm)
  BY DEF Dominates
<1>1. Within(i, arm) BY DEF Dominates
<1>2. arm[1] \in Nat /\ arm[2] \in Nat BY ArmBounds
<1>3. Marker(prog[arm[2]])
  <2>1. PICK k \in Ifs(prog) : arm = <<k, prog[k].elseAt>> \/ arm = <<prog[k].elseAt, prog[k].endAt>>
    BY Zenon DEF Arms
  <2>2. prog[prog[k].elseAt].kind = "else" /\ prog[prog[k].endAt].kind = "endif"
    BY Wellformed
  <2>3. arm[2] \in {prog[k].elseAt, prog[k].endAt} BY <2>1
  <2> QED BY <2>2, <2>3 DEF Marker
<1>4. arm[2] # i + 1 BY <1>3
<1> QED BY <1>1, <1>2, <1>4 DEF Within

\* The middle of a pair: everything it refers to but its first product was read.
LEMMA InPair ==
  ASSUME SessionInv, phase \in {"second", "pairleaf"}
  PROVE  /\ at \in 1 .. Len(program) /\ at - 1 \in 1 .. Len(program)
         /\ at - 1 \in plan.pairs /\ at \notin plan.pairs
         /\ Op.kind = "gemm" /\ Op.profile = "strict_f32" /\ Op.lhs = at - 1
         /\ Producer.kind = "gemm" /\ Producer.profile = "strict_f32"
         /\ \A v \in {Producer.lhs, Producer.rhs, Op.rhs} :
              /\ v \in 1 .. at - 2 /\ v \in 1 .. Len(program) /\ v \notin plan.pairs
              /\ IsMatrix(values[v]) /\ values[v].valid
<1>1. CompiledInv /\ WellFormed(program) /\ Len(program) \in Nat BY Known DEF SessionInv
<1>2. at \in 1 .. Len(program) + 1 /\ at <= Len(program) /\ at - 1 \in plan.pairs
  BY DEF SessionInv, ControlInv
<1> DEFINE f == at - 1
<1>3. at \in 1 .. Len(program) /\ f + 1 = at BY <1>1, <1>2
<1>4. f \in plan.pairs BY <1>2
<1>5. Op = program[f + 1] /\ Producer = program[f] BY <1>3 DEF Op, Producer
<1> HIDE DEF f
<1>6. /\ f \in 1 .. Len(program) /\ f + 1 \in 1 .. Len(program)
      /\ Eligible(program, f) /\ f + 1 \notin plan.pairs
      /\ program[f].kind = "gemm" /\ program[f].profile = "strict_f32"
      /\ program[f + 1].kind = "gemm" /\ program[f + 1].profile = "strict_f32"
      /\ program[f + 1].lhs = f
  BY <1>1, <1>4, Pairs
<1>7. ASSUME NEW v \in {Producer.lhs, Producer.rhs, Op.rhs}
      PROVE  /\ v \in 1 .. f - 1 /\ v \in 1 .. Len(program) /\ v \notin plan.pairs
             /\ IsMatrix(values[v]) /\ values[v].valid
  <2>1. program[v].kind = "read" /\ Dominates(program, v, f)
    BY <1>5, <1>6 DEF Eligible, ReadValue
  <2>2. v \in Operands(program[f]) \/ v \in Operands(program[f + 1])
    BY <1>5, <1>6 DEF Operands
  <2>3. v \in 1 .. f - 1 \/ v \in 1 .. (f + 1) - 1 BY <1>1, <1>6, <2>2, Wellformed
  <2>4. v < f BY <2>1 DEF Dominates
  <2>5. v \in 1 .. f - 1 /\ v \in 1 .. Len(program) /\ v \in Nat /\ f \in Nat
    BY <1>1, <1>6, <2>3, <2>4
  <2>6. v \notin plan.pairs BY <1>1, <2>1, Pairs
  <2>7. Dominates(program, v, at)
    <3>1. ~Marker(program[f + 1]) BY <1>6 DEF Marker
    <3>2. Dominates(program, v, f + 1) BY <1>1, <2>1, <2>5, <3>1, DominatesNext
    <3> QED BY <1>3, <3>2
  <2>8. values[v].valid
    <3>1. Producing(program, v) BY <2>1, <2>5 DEF Producing
    <3>2. Live BY DEF Live
    <3> QED BY <2>5, <2>6, <2>7, <3>1, <3>2 DEF SessionInv, ValuesInv
  <2>9. IsMatrix(values[v]) BY <2>5, <2>8, ValueFields DEF SessionInv, ValuesInv
  <2> QED BY <2>5, <2>6, <2>8, <2>9
<1>8. f - 1 = at - 2 BY <1>1, <1>3 DEF f
<1>9. f = at - 1 BY DEF f
<1> QED BY <1>3, <1>4, <1>5, <1>6, <1>7, <1>8, <1>9

\* GemmReturn: the product is issued, unless the leaf or a callback failed.
LEMMA GemmsReturn ==
  ASSUME SessionInv, GemmReturn
  PROVE  SessionInv'
<1>1. phase = "leaf" BY DEF GemmReturn
<1>2. /\ CompiledInv /\ Len(program) \in Nat /\ at \in 1 .. Len(program) /\ Live
      /\ Op.kind = "gemm" /\ at \notin plan.pairs
  <2>1. CompiledInv /\ Len(program) \in Nat BY Known DEF SessionInv
  <2>2. at \in 1 .. Len(program) + 1 /\ at <= Len(program) /\ Op.kind = "gemm" /\ at \notin plan.pairs
    BY <1>1 DEF SessionInv, ControlInv
  <2> QED BY <1>1, <2>1, <2>2 DEF Live
<1>3. PICK leaf \in LeafCodes :
        \/ ReturnFailed(IssueVerdict(leaf)) /\ report' = [report EXCEPT !.code = IssueVerdict(leaf)]
        \/ /\ IssueVerdict(leaf) = "ok"
           /\ values' = [values EXCEPT ![at] =
                   Product(values[Op.lhs], values[Op.rhs], Op.profile)]
           /\ status' = Succeeded(status, Frontier)
           /\ active' = FALSE /\ activeFrontier' = 0
           /\ report' = [report EXCEPT !.issued = TRUE]
           /\ Continue
           /\ UNCHANGED <<compiled, host, returned, taken, observations>>
  BY Zenon DEF GemmReturn
<1>4. IssueVerdict(leaf) \in Codes
  <2>1. leaf \in Codes BY <1>2, Legalities, UnavailableCodes
  <2>2. status.code \in Codes BY DEF SessionInv, LedgerInv, IsLedger
  <2> QED BY <2>1, <2>2 DEF IssueVerdict
<1>5. CASE ReturnFailed(IssueVerdict(leaf)) /\ report' = [report EXCEPT !.code = IssueVerdict(leaf)]
  BY <1>2, <1>4, <1>5, Fails
<1>6. CASE /\ IssueVerdict(leaf) = "ok"
           /\ values' = [values EXCEPT ![at] =
                   Product(values[Op.lhs], values[Op.rhs], Op.profile)]
           /\ status' = Succeeded(status, Frontier)
           /\ active' = FALSE /\ activeFrontier' = 0
           /\ report' = [report EXCEPT !.issued = TRUE]
           /\ Continue
           /\ UNCHANGED <<compiled, host, returned, taken, observations>>
  <2>1. status.code = "ok" BY <1>6 DEF IssueVerdict
  <2>2. \A v \in {Op.lhs, Op.rhs} : IsMatrix(values[v]) BY <1>1, <1>2, GemmOperands
  <2>3. IsMatrix(Product(values[Op.lhs], values[Op.rhs], Op.profile))
    <3>1. values[Op.lhs].rows \in Nat /\ values[Op.rhs].cols \in Nat BY <2>2 DEF IsMatrix
    <3> QED BY <3>1, ProductIsMatrix
  <2>4. report.frontier = Frontier BY <1>1 DEF SessionInv, ReportInv
  <2> QED BY <1>2, <1>6, <2>1, <2>3, <2>4, Advances DEF Continue, host
<1> QED BY <1>3, <1>5, <1>6

\* FusedFirst: the first frontier of a pair retires without a value.
LEMMA FusedFirsts ==
  ASSUME SessionInv, FusedFirst
  PROVE  SessionInv'
<1>1. AtOp("gemm") /\ at \in plan.pairs BY DEF FusedFirst
<1> DEFINE a == values[Op.lhs]
           b == values[Op.rhs]
           guards == PairFirstGuards(a, b, "strict_f32", FrontierOf(program, at + 1))
           own == IF "ok" \in guards
                  THEN guards \cup {"unsupported_fp_environment", "candidate_failure"}
                  ELSE guards
<1>2. \E code \in Outcomes(own) :
        \/ ReturnFailed(code) /\ ReportFailed(code)
        \/ /\ code = "ok"
           /\ status' = Succeeded(status, Frontier)
           /\ report' = Reported("ok")
           /\ at' = at + 1 /\ phase' = "second"
           /\ UNCHANGED <<compiled, host, returned, values, active, activeFrontier,
                          taken, observations>>
  BY Zenon DEF FusedFirst
<1>3. /\ at \in 1 .. Len(program) /\ Live /\ phase = "run" /\ status.code = "ok" /\ Op.kind = "gemm"
      /\ BeginCode(Frontier) = "ok" /\ active = FALSE /\ activeFrontier = 0
  BY <1>1, Here
<1>4. a.valid /\ b.valid BY <1>3, GemmOperands
<1>5. PairLegality("strict_f32") \subseteq {"ok"} \cup Unavailable
  BY Legalities DEF SessionInv
<1>6. \A c \in GemmGuards(a, b, PairLegality("strict_f32")) : c \in Codes
  BY <1>4, <1>5, Verdicts, UnavailableCodes
<1>7. guards \subseteq Codes BY <1>6, UnavailableCodes DEF PairFirstGuards
<1>8. own \subseteq Codes
  <2> HIDE DEF guards
  <2> QED BY <1>7, UnavailableCodes DEF Unavailable
<1> HIDE DEF own, guards
<1>9. Outcomes(own) = own BY <1>1, Unrefused, Zenon
<1>10. PICK c \in own :
        \/ ReturnFailed(c) /\ ReportFailed(c)
        \/ /\ status' = Succeeded(status, Frontier)
           /\ report' = Reported("ok")
           /\ at' = at + 1 /\ phase' = "second"
           /\ UNCHANGED <<compiled, host, returned, values, active, activeFrontier,
                          taken, observations>>
  BY <1>2, <1>9, Zenon
<1>11. CASE ReturnFailed(c) /\ ReportFailed(c)
  <2>1. report' = Reported(c) BY <1>3, <1>11 DEF ReportFailed
  <2> QED BY <1>3, <1>8, <1>11, <2>1, Fails
<1>12. CASE /\ status' = Succeeded(status, Frontier)
            /\ report' = Reported("ok")
            /\ at' = at + 1 /\ phase' = "second"
            /\ UNCHANGED <<compiled, host, returned, values, active, activeFrontier,
                           taken, observations>>
  <2>1. /\ CompiledInv /\ WellFormed(program) /\ at + 1 \in 1 .. Len(program)
        /\ program[at + 1].kind = "gemm" /\ Len(program) \in Nat
    BY <1>1, Known, Pairs DEF SessionInv
  <2>2. Settle(program, at + 1) = at + 1
    <3>1. ~Marker(program[at + 1]) /\ at + 1 \in 1 .. Len(program) + 1
      BY <2>1 DEF Marker
    <3> QED BY <2>1, <3>1, SettleUnfold
  <2> QED BY <1>1, <1>3, <1>12, <2>2, Advances DEF host
<1> QED BY <1>10, <1>11, <1>12

\* The second frontier is checked like a GEMM of the shape that the first
\* product has, and of the second matrix.
Shape(a, b) == [valid |-> TRUE, rows |-> a.rows, cols |-> b.cols]

\* What the checks of the second frontier say of the shapes.
LEMMA PairVerdicts ==
  ASSUME SessionInv, phase = "second", NEW c \in PairSecondOutcomes
  PROVE  LET a == values[Producer.lhs]
             b == values[Producer.rhs]
             d == values[Op.rhs]
         IN  \/ c = "ok" /\ b.cols = d.rows /\ Extent(a.rows, d.cols) = "ok"
             \/ c = "shape_mismatch" /\ b.cols # d.rows
             \/ c = "extent_overflow" /\ b.cols = d.rows /\ Extent(a.rows, d.cols) = "extent_overflow"
             \/ c \in Unavailable /\ b.cols = d.rows
<1> DEFINE a == values[Producer.lhs]
           b == values[Producer.rhs]
           d == values[Op.rhs]
           guards == GemmGuards(Shape(a, b), d, PairLegality("strict_f32"))
           fits == candidate = "generated_gpu" =>
                     a.rows * b.cols * (a.cols + d.cols) <= Gpu.pair
<1>1. d.valid BY InPair
<1>2. Shape(a, b).valid /\ Shape(a, b).rows = a.rows /\ Shape(a, b).cols = b.cols BY DEF Shape
<1>3. PairLegality("strict_f32") \subseteq {"ok"} \cup Unavailable
  BY Legalities DEF SessionInv
<1>4. PairSecondOutcomes =
        IF "ok" \notin guards THEN guards
        ELSE IF ~fits THEN (guards \ {"ok"}) \cup {"candidate_incompatible"}
        ELSE guards \cup {"allocation_failure", "unsupported_fp_environment"}
  BY Zenon DEF PairSecondOutcomes, Shape
<1> HIDE DEF a, b, d, fits
<1>5. \A e \in guards :
        \/ e = "ok" /\ Checked(Shape(a, b), d)
        \/ e = "shape_mismatch" /\ Shape(a, b).cols # d.rows
        \/ e = "extent_overflow" /\ Shape(a, b).cols = d.rows
           /\ Extent(Shape(a, b).rows, d.cols) = "extent_overflow"
        \/ e \in Unavailable /\ Shape(a, b).cols = d.rows
  BY <1>1, <1>2, <1>3, Verdicts
<1>6. \A e \in guards :
        \/ e = "ok" /\ b.cols = d.rows /\ Extent(a.rows, d.cols) = "ok"
        \/ e = "shape_mismatch" /\ b.cols # d.rows
        \/ e = "extent_overflow" /\ b.cols = d.rows /\ Extent(a.rows, d.cols) = "extent_overflow"
        \/ e \in Unavailable /\ b.cols = d.rows
  BY <1>2, <1>5 DEF Checked
<1> HIDE DEF guards
<1>7. CASE c \in guards BY <1>6, <1>7 DEF a, b, d
<1>8. CASE c \notin guards
  <2>1. /\ "ok" \in guards
        /\ c \in {"candidate_incompatible", "allocation_failure", "unsupported_fp_environment"}
    BY <1>4, <1>8
  <2>2. b.cols = d.rows BY <1>6, <2>1 DEF Unavailable
  <2> QED BY <2>1, <2>2 DEF Unavailable, a, b, d
<1> QED BY <1>7, <1>8

\* FusedSecond: the combined leaf is entered with checked shapes.
LEMMA FusedSeconds ==
  ASSUME SessionInv, FusedSecond
  PROVE  SessionInv'
<1>1. phase = "second" BY DEF FusedSecond
<1>2. at \in 1 .. Len(program) /\ Live /\ status.code = "ok"
  <2>1. at \in 1 .. Len(program) BY <1>1, InPair
  <2>2. Live BY <1>1 DEF Live
  <2> QED BY <1>1, <2>1, <2>2 DEF SessionInv, LedgerInv
<1>3. BeginCode(Frontier) = "ok" BY <1>1, <1>2, Begins
<1>4. Outcomes(PairSecondOutcomes) = PairSecondOutcomes
  BY <1>3, Zenon DEF Outcomes
<1>5. PICK c \in PairSecondOutcomes :
        \/ ReturnFailed(c) /\ ReportFailed(c)
        \/ /\ c = "ok"
           /\ active' = TRUE /\ activeFrontier' = Frontier
           /\ phase' = "pairleaf"
           /\ report' = Reported("ok")
           /\ UNCHANGED <<compiled, host, returned, at, values, status, taken, observations>>
  BY <1>4, Zenon DEF FusedSecond
<1>6. /\ c \in Codes
      /\ c = "ok" => /\ values[Producer.rhs].cols = values[Op.rhs].rows
                     /\ Extent(values[Producer.lhs].rows, values[Op.rhs].cols) = "ok"
  BY <1>1, PairVerdicts, UnavailableCodes
<1>7. CASE ReturnFailed(c) /\ ReportFailed(c)
  <2>1. report' = Reported(c) BY <1>3, <1>7 DEF ReportFailed
  <2> QED BY <1>2, <1>6, <1>7, <2>1, Fails
<1>8. CASE /\ c = "ok"
           /\ active' = TRUE /\ activeFrontier' = Frontier
           /\ phase' = "pairleaf"
           /\ report' = Reported("ok")
           /\ UNCHANGED <<compiled, host, returned, at, values, status, taken, observations>>
  BY <1>1, <1>2, <1>6, <1>8, Opens
<1> QED BY <1>5, <1>7, <1>8

\* FusedReturn: the second product is issued.
LEMMA FusedReturns ==
  ASSUME SessionInv, FusedReturn
  PROVE  SessionInv'
<1>1. phase = "pairleaf" BY DEF FusedReturn
<1>2. /\ CompiledInv /\ at \in 1 .. Len(program) /\ Live /\ Op.kind = "gemm" /\ at \notin plan.pairs
      /\ \A v \in {Producer.lhs, Producer.rhs, Op.rhs} : IsMatrix(values[v])
  BY <1>1, InPair DEF SessionInv, Live
<1>3. PICK leaf \in LeafCodes :
        \/ ReturnFailed(IssueVerdict(leaf)) /\ report' = [report EXCEPT !.code = IssueVerdict(leaf)]
        \/ /\ IssueVerdict(leaf) = "ok"
           /\ values' = [values EXCEPT ![at] =
                   Combined(values[Producer.lhs], values[Producer.rhs], values[Op.rhs])]
           /\ status' = Succeeded(status, Frontier)
           /\ active' = FALSE /\ activeFrontier' = 0
           /\ report' = [report EXCEPT !.issued = TRUE]
           /\ Continue
           /\ UNCHANGED <<compiled, host, returned, taken, observations>>
  BY Zenon DEF FusedReturn
<1>4. IssueVerdict(leaf) \in Codes
  <2>1. leaf \in Codes BY <1>2, Legalities, UnavailableCodes
  <2>2. status.code \in Codes BY DEF SessionInv, LedgerInv, IsLedger
  <2> QED BY <2>1, <2>2 DEF IssueVerdict
<1>5. CASE ReturnFailed(IssueVerdict(leaf)) /\ report' = [report EXCEPT !.code = IssueVerdict(leaf)]
  BY <1>2, <1>4, <1>5, Fails
<1>6. CASE /\ IssueVerdict(leaf) = "ok"
           /\ values' = [values EXCEPT ![at] =
                   Combined(values[Producer.lhs], values[Producer.rhs], values[Op.rhs])]
           /\ status' = Succeeded(status, Frontier)
           /\ active' = FALSE /\ activeFrontier' = 0
           /\ report' = [report EXCEPT !.issued = TRUE]
           /\ Continue
           /\ UNCHANGED <<compiled, host, returned, taken, observations>>
  <2>1. status.code = "ok" BY <1>6 DEF IssueVerdict
  <2> DEFINE a == values[Producer.lhs]
             b == values[Producer.rhs]
             d == values[Op.rhs]
             c == Product(a, b, "strict_f32")
  <2>2. a.rows \in Nat /\ b.cols \in Nat /\ d.cols \in Nat BY <1>2 DEF IsMatrix
  <2> HIDE DEF a, b, d
  <2>3. c.rows \in Nat BY <2>2, ProductIsMatrix
  <2> HIDE DEF c
  <2>4. IsMatrix(Product(c, d, "strict_f32")) BY <2>2, <2>3, ProductIsMatrix
  <2>5. IsMatrix(Combined(values[Producer.lhs], values[Producer.rhs], values[Op.rhs]))
    BY <2>4, Zenon DEF Combined, a, b, c, d
  <2>6. report.frontier = Frontier BY <1>1 DEF SessionInv, ReportInv
  <2> QED BY <1>2, <1>6, <2>1, <2>5, <2>6, Advances DEF Continue, host
<1> QED BY <1>3, <1>5, <1>6

\* PublishCall: the view holds what was published.
LEMMA Publishes ==
  ASSUME SessionInv, PublishCall
  PROVE  SessionInv'
<1>1. AtOp("publish") BY DEF PublishCall
<1> DEFINE fault == PublishFault(values[Op.lhs], Views[Op.res])
<1>2. /\ at \in 1 .. Len(program) /\ Live /\ phase = "run" /\ status.code = "ok"
      /\ Op.kind = "publish" /\ active = FALSE /\ activeFrontier = 0
      /\ ~Producing(program, at)
  BY <1>1, Here
<1>3. at \notin plan.pairs /\ Op.res \in Resources BY <1>1, <1>2, Here
<1>4. Outcomes({fault}) = {fault}
  <2> HIDE DEF fault
  <2> QED BY <1>1, Unrefused, Zenon
<1>5. \/ ReturnFailed(fault) /\ UNCHANGED report
      \/ /\ fault = "ok"
         /\ memory' = Store(memory, Views[Op.res], values[Op.lhs])
         /\ status' = Retired("publications")
         /\ Continue
         /\ UNCHANGED <<compiled, entries, takes, results, returned, values, active,
                        activeFrontier, taken, observations, report>>
  BY <1>4, Zenon DEF PublishCall
<1>6. fault \in Codes BY Answers
<1>7. Op.lhs \in 1 .. at - 1 /\ IsMatrix(values[Op.lhs])
  <2>1. Op.lhs \in Operands(Op) BY <1>2 DEF Operands
  <2> QED BY <1>2, <2>1, Issued
<1>8. CASE ReturnFailed(fault) /\ UNCHANGED report
  <2> HIDE DEF fault
  <2> QED BY <1>2, <1>6, <1>8, Fails
<1>9. CASE /\ fault = "ok"
           /\ memory' = Store(memory, Views[Op.res], values[Op.lhs])
           /\ status' = Retired("publications")
           /\ Continue
           /\ UNCHANGED <<compiled, entries, takes, results, returned, values, active,
                          activeFrontier, taken, observations, report>>
  <2>1. IsValue(values[Op.lhs]) BY <1>7 DEF IsValue
  <2>2. Contents(memory', Views[Op.res]) = values[Op.lhs] BY <1>3, <1>9, <2>1, ReadBack
  <2> HIDE DEF fault
  <2> QED BY <1>2, <1>3, <1>7, <1>9, <2>2, Advances DEF Continue
<1> QED BY <1>5, <1>8, <1>9

\* ObserveCall: one observation more is kept and counted.
LEMMA Observes ==
  ASSUME SessionInv, ObserveCall
  PROVE  SessionInv'
<1>1. AtOp("observe") BY DEF ObserveCall
<1> DEFINE fault == Validate(Views[Op.res], FALSE)
           own == IF fault # "ok" THEN {fault} ELSE {"ok", "allocation_failure"}
<1>2. own \subseteq Codes BY Answers, UnavailableCodes DEF Unavailable
<1>3. \E code \in Outcomes(own) :
        \/ ReturnFailed(code) /\ UNCHANGED report
        \/ /\ code = "ok"
           /\ observations' = Append(observations,
                   [frontier |-> Frontier, value |-> Contents(memory, Views[Op.res])])
           /\ status' = Retired("observations")
           /\ Continue
           /\ UNCHANGED <<compiled, host, returned, values, active, activeFrontier,
                          taken, report>>
  BY Zenon DEF ObserveCall
<1> HIDE DEF own, fault
<1>4. /\ at \in 1 .. Len(program) /\ Live /\ phase = "run" /\ status.code = "ok"
      /\ Op.kind = "observe" /\ active = FALSE /\ activeFrontier = 0
      /\ ~Producing(program, at)
  BY <1>1, Here
<1>5. at \notin plan.pairs BY <1>1, <1>4, Here
<1>6. Outcomes(own) = own BY <1>1, Unrefused, Zenon
<1>7. PICK c \in own :
        \/ ReturnFailed(c) /\ UNCHANGED report
        \/ /\ \E e : observations' = Append(observations, e)
           /\ status' = Retired("observations")
           /\ Continue
           /\ UNCHANGED <<compiled, host, returned, values, active, activeFrontier,
                          taken, report>>
  BY <1>3, <1>6, Zenon
<1>8. CASE ReturnFailed(c) /\ UNCHANGED report BY <1>2, <1>4, <1>8, Fails
<1>9. CASE /\ \E e : observations' = Append(observations, e)
           /\ status' = Retired("observations")
           /\ Continue
           /\ UNCHANGED <<compiled, host, returned, values, active, activeFrontier,
                          taken, report>>
  BY <1>4, <1>5, <1>9, Advances DEF Continue, host
<1> QED BY <1>7, <1>8, <1>9

\* Branch: one of the two arms is next.
LEMMA Branches ==
  ASSUME SessionInv, Branch
  PROVE  SessionInv'
<1>1. AtOp("if") BY DEF Branch
<1>2. /\ at \in 1 .. Len(program) /\ Live /\ phase = "run" /\ status.code = "ok"
      /\ Op.kind = "if" /\ active = FALSE /\ activeFrontier = 0
      /\ ~Producing(program, at)
  BY <1>1, Here
<1>3. at \notin plan.pairs BY <1>1, <1>2, Here
<1>4. /\ UNCHANGED <<program, args, optimization, candidate, plan, memory, entries, takes,
                     results, returned, phase, values, status, active, activeFrontier, taken,
                     observations, report>>
      /\ at' \in {Settle(program, at + 1), Settle(program, Op.elseAt + 1)}
  BY DEF Branch, compiled, host, session
<1>5. /\ CompiledInv /\ LedgerInv /\ ReportInv /\ HandedInv
      /\ WellFormed(program) /\ Completion(program) \in Nat
  BY Known DEF SessionInv
<1>6. Reaches(program, at, at') BY <1>2, <1>4, <1>5, ReachesNext DEF Op
<1>7. ControlInv' /\ (at' <= Len(program) => Frontier < Frontier')
  BY <1>2, <1>3, <1>4, <1>6, MovesControl
<1>8. status.completedFrontier \in Nat BY <1>5 DEF LedgerInv, IsLedger
<1>9. ValuesInv'
  <2>1. status'.completedFrontier \in Nat /\ status.completedFrontier <= status'.completedFrontier
    BY <1>4, <1>8
  <2> QED BY <1>2, <1>4, <1>6, <2>1, MovesValues
<1>10. BindingInv' BY <1>2, <1>4, <1>6, MovesBinding
<1>11. LedgerInv'
  <2>1. IsLedger(status)' /\ IsLedger(returned)' BY <1>4, <1>5 DEF LedgerInv, IsLedger
  <2>2. at' <= Len(program') => status'.completedFrontier < Frontier'
    <3> SUFFICES ASSUME at' <= Len(program) PROVE status.completedFrontier < Frontier'
      BY <1>4
    <3>1. status.completedFrontier < Frontier BY <1>2, <1>5 DEF LedgerInv
    <3>2. Frontier < Frontier' BY <1>7
    <3>3. Frontier \in Nat /\ Frontier' \in Nat
      <4>1. Len(program) \in Nat /\ at \in 0 .. Len(program)
        <5>1. Len(program) \in Nat BY <1>5, Known
        <5> QED BY <1>2, <5>1
      <4>2. at' \in 0 .. Len(program)
        <5>1. at' \in at + 1 .. Len(program) + 1 BY <1>6 DEF Reaches
        <5>2. \A n \in Nat : \A i \in 1 .. n : \A s \in i + 1 .. n + 1 : s <= n => s \in 0 .. n
          OBVIOUS
        <5> QED BY <1>2, <4>1, <5>1, <5>2, Zenon
      <4> QED BY <1>4, <4>1, <4>2, Frontiers DEF Frontier
    <3> QED BY <1>8, <3>1, <3>2, <3>3
  <2> QED BY <1>2, <1>4, <1>5, <2>1, <2>2 DEF LedgerInv, Live
<1>12. CompiledInv' BY <1>4, <1>5 DEF CompiledInv
<1>13. ReportInv' BY <1>2, <1>4, <1>5 DEF ReportInv
<1>14. UntouchedInv' BY <1>2, <1>4 DEF UntouchedInv, Live
<1>15. HandedInv' BY <1>4, <1>5 DEF HandedInv
<1>16. LeafInv' BY <1>2, <1>4 DEF LeafInv
<1> QED BY <1>7, <1>9, <1>10, <1>11, <1>12, <1>13, <1>14, <1>15, <1>16 DEF SessionInv

\* CompleteCall: the completion retires after every operation.
LEMMA CompletesAll ==
  ASSUME SessionInv, CompleteCall
  PROVE  SessionInv'
<1>1. /\ phase = "run" /\ phase' = "idle" /\ at = Len(program) + 1
      /\ status' = Succeeded([status EXCEPT !.completed = TRUE], Completion(program))
      /\ returned' = status'
      /\ UNCHANGED <<program, args, optimization, candidate, plan, memory, entries, takes,
                     results, at, values, active, activeFrontier, taken, observations, report>>
  BY DEF CompleteCall, compiled, host
<1>2. /\ CompiledInv /\ ControlInv /\ LedgerInv /\ ReportInv /\ ValuesInv /\ HandedInv
      /\ Completion(program) \in Nat \ {0} /\ Len(program) \in Nat
  BY Known DEF SessionInv
<1>3. Live BY <1>1 DEF Live
<1>4. /\ IsLedger(status) /\ status.code = "ok" /\ ~status.completed /\ ~taken
      /\ status.completedFrontier < Completion(program)
      /\ status.failedFrontier = 0
      /\ status.completedEffectFrontier <= status.completedFrontier
      /\ status.publications <= status.completedFrontier
      /\ status.observations <= status.completedFrontier
  BY <1>1, <1>2, <1>3 DEF LedgerInv
<1>5. status' = [status EXCEPT !.completed = TRUE, !.completedFrontier = Completion(program)]
  BY <1>1, <1>4 DEF Succeeded, IsLedger
<1>6. /\ status'.code = "ok" /\ status'.failedFrontier = 0
      /\ status'.completedFrontier = Completion(program) /\ status'.completed
      /\ status'.completedEffectFrontier = status.completedEffectFrontier
      /\ status'.publications = status.publications
      /\ status'.observations = status.observations
      /\ IsLedger(status')
  <2>1. Completion(program) \in 0 .. Completion(program) BY <1>2
  <2> QED BY <1>4, <1>5, <2>1 DEF IsLedger
<1>7. /\ status.completedEffectFrontier \in Nat /\ status.publications \in Nat
      /\ status.observations \in Nat /\ status.completedFrontier \in Nat
  BY <1>2, <1>4 DEF IsLedger
<1>8. ~Live' BY <1>1 DEF Live
<1>9. LedgerInv'
  <2>1. IsLedger(status)' /\ IsLedger(returned)' BY <1>1, <1>6 DEF IsLedger
  <2>2. /\ status'.completedEffectFrontier <= status'.completedFrontier
        /\ status'.publications <= status'.completedFrontier
        /\ status'.observations <= status'.completedFrontier
    BY <1>2, <1>4, <1>6, <1>7
  <2> QED BY <1>1, <1>4, <1>6, <1>8, <2>1, <2>2 DEF LedgerInv
<1>10. CompiledInv'
  <2>1. phase' \in Phases \ {"source", "refused"} BY <1>1 DEF Phases
  <2> QED BY <1>1, <1>3, <2>1, KeepsCompiled DEF compiled
<1>11. ControlInv'
  <2>1. active = FALSE /\ activeFrontier = 0 BY <1>1, <1>2, Inactive
  <2>2. (phase' \in {"leaf", "pairleaf"}) = FALSE BY <1>1
  <2>3. active' = (phase' \in {"leaf", "pairleaf"}) BY <1>1, <2>1, <2>2, Zenon
  <2>4. activeFrontier' = (IF active' THEN Frontier' ELSE 0) BY <1>1, <2>1
  <2> QED BY <1>1, <1>2, <2>3, <2>4 DEF ControlInv
<1>12. ReportInv'
  <2>1. report.frontier \in Nat BY <1>2 DEF ReportInv
  <2>2. report'.issued => report'.frontier <= status'.completedFrontier
    BY <1>1, <1>2, <1>4, <1>6, <1>7, <2>1 DEF ReportInv
  <2> QED BY <1>1, <1>2, <2>2 DEF ReportInv
<1>13. ValuesInv'
  <2>1. \A i \in 1 .. Len(program) :
          values[i].valid => FrontierOf(program, i) <= status'.completedFrontier
    <3> SUFFICES ASSUME NEW i \in 1 .. Len(program)
                 PROVE  FrontierOf(program, i) <= status'.completedFrontier
      OBVIOUS
    <3>1. i \in 0 .. Len(program) BY <1>2
    <3>2. FrontierOf(program, i) \in 0 .. Completion(program) BY <1>2, <3>1, Known
    <3> QED BY <1>2, <1>6, <3>2
  <2> QED BY <1>1, <1>2, <1>8, <2>1 DEF ValuesInv
<1>14. BindingInv' BY <1>8 DEF BindingInv
<1>15. UntouchedInv' BY <1>6 DEF UntouchedInv
<1>16. HandedInv' BY <1>1, <1>2, <1>6 DEF HandedInv
<1>17. LeafInv' BY <1>1 DEF LeafInv
<1> QED BY <1>9, <1>10, <1>11, <1>12, <1>13, <1>14, <1>15, <1>16, <1>17 DEF SessionInv

\* A step of the environment changes nothing.
LEMMA Stays ==
  ASSUME SessionInv, UNCHANGED vars
  PROVE  SessionInv'
<1>1. UNCHANGED <<program, args, optimization, candidate, plan, memory, entries, takes, results,
                  returned, phase, at, values, status, active, activeFrontier, taken,
                  observations, report>>
  BY DEF vars, compiled, host, session
<1>2. CompiledInv' BY <1>1 DEF SessionInv, CompiledInv
<1>3. ControlInv' /\ LeafInv' BY <1>1 DEF SessionInv, ControlInv, LeafInv, Frontier, Op, Producer
<1>4. LedgerInv' /\ ReportInv'
  BY <1>1 DEF SessionInv, LedgerInv, ReportInv, IsLedger, Live, Frontier
<1>5. ValuesInv' /\ BindingInv' BY <1>1 DEF SessionInv, ValuesInv, BindingInv, Live
<1>6. UntouchedInv' /\ HandedInv' BY <1>1 DEF SessionInv, UntouchedInv, HandedInv, Live
<1> QED BY <1>2, <1>3, <1>4, <1>5, <1>6 DEF SessionInv

\* Every step keeps the invariant.
LEMMA Inductive ==
  ASSUME SessionInv, [Next]_vars
  PROVE  SessionInv'
<1>1. CASE Compile \/ Enter \/ TakeResult BY <1>1, CompilesRegion, Enters, Takes
<1>2. CASE ReadCall \/ ReadForwardedCall BY <1>2, Reads, ForwardsReads
<1>3. CASE GemmEnter \/ Reenter \/ GemmReturn BY <1>3, GemmsEnter, Reenters, GemmsReturn
<1>4. CASE FusedFirst \/ FusedSecond \/ FusedReturn
  BY <1>4, FusedFirsts, FusedSeconds, FusedReturns
<1>5. CASE PublishCall \/ ObserveCall BY <1>5, Publishes, Observes
<1>6. CASE Branch \/ CompleteCall BY <1>6, Branches, CompletesAll
<1>7. CASE UNCHANGED vars BY <1>7, Stays
<1> QED BY <1>1, <1>2, <1>3, <1>4, <1>5, <1>6, <1>7, Zenon DEF Next

\* Every run of a session keeps its promises: forwarded values are current,
\* operands were issued, nothing follows a failure, the ledger is ordered and no
\* observation is lost or handed out twice, for every well-formed region, all
\* views, and every plan that is derived for it.
THEOREM SessionSound == Spec => []SessionIsSound
<1>1. Init => SessionInv BY Inits
<1>2. SessionInv /\ [Next]_vars => SessionInv' BY Inductive
<1>3. SessionInv => SessionIsSound BY Sound
<1> QED BY <1>1, <1>2, <1>3, PTL DEF Spec

-----------------------------------------------------------------------------
(* The verdict, proved for every region, plan and order of calls           *)

\* Inside an activation the session has neither failed nor completed, but for
\* the leaf of a GEMM, where a callback may have failed it.
VerdictInv ==
  /\ DOMAIN status = DOMAIN FreshStatus /\ status = [f \in DOMAIN status |-> status[f]]
  /\ phase \in {"run", "second"} => status.code = "ok"
  /\ phase \in {"run", "second", "leaf", "pairleaf"} => ~status.completed

\* Failing or succeeding at a frontier completes nothing, and only failing
\* changes the code.
LEMMA LedgerSteps ==
  ASSUME VerdictInv, NEW code, NEW frontier
  PROVE  /\ DOMAIN Failed(status, code, frontier) = DOMAIN FreshStatus
         /\ Failed(status, code, frontier) =
              [f \in DOMAIN Failed(status, code, frontier) |-> Failed(status, code, frontier)[f]]
         /\ Failed(status, code, frontier).completed = status.completed
         /\ status.code # "ok" => Failed(status, code, frontier) = status
         /\ DOMAIN Succeeded(status, frontier) = DOMAIN FreshStatus
         /\ Succeeded(status, frontier) =
              [f \in DOMAIN Succeeded(status, frontier) |-> Succeeded(status, frontier)[f]]
         /\ Succeeded(status, frontier).completed = status.completed
         /\ Succeeded(status, frontier).code = status.code
  BY DEF VerdictInv, FreshStatus, Failed, Succeeded

\* A new session has no verdict.
LEMMA VerdictInit ==
  ASSUME Init
  PROVE  VerdictInv
  BY DEF Init, VerdictInv, FreshStatus

\* A call that fails leaves the activation with its failure on record.
LEMMA FailingStep ==
  ASSUME VerdictInv, NEW code, ReturnFailed(code)
  PROVE  /\ VerdictInv'
         /\ (status.code # "ok" => status' = status) /\ status'.completed = status.completed
<1>1. status' = Failed(status, code, Frontier) /\ phase' = "idle"
  BY DEF ReturnFailed
<1> QED BY <1>1, LedgerSteps DEF VerdictInv

\* A call inside an activation keeps the invariant, and changes no verdict.
LEMMA CallStep ==
  ASSUME VerdictInv,
         \/ ReadCall \/ ReadForwardedCall \/ GemmEnter \/ Reenter \/ GemmReturn
         \/ FusedFirst \/ FusedSecond \/ FusedReturn
         \/ PublishCall \/ ObserveCall \/ Branch \/ CompleteCall
  PROVE  /\ VerdictInv'
         /\ (status.code # "ok" \/ status.completed) => status' = status
<1>1. CASE ReadCall
  <2>1. phase = "run" BY <1>1 DEF ReadCall, AtOp
  <2>2. \/ \E code : ReturnFailed(code)
        \/ status' = Succeeded(status, Frontier) /\ phase' = "run"
    BY <1>1, Zenon DEF ReadCall, Continue
  <2> QED BY <2>1, <2>2, FailingStep, LedgerSteps DEF VerdictInv
<1>2. CASE ReadForwardedCall
  <2>1. phase = "run" BY <1>2 DEF ReadForwardedCall, AtOp
  <2>2. \/ \E code : ReturnFailed(code)
        \/ status' = Succeeded(status, Frontier) /\ phase' = "run"
    BY <1>2, Zenon DEF ReadForwardedCall, Continue
  <2> QED BY <2>1, <2>2, FailingStep, LedgerSteps DEF VerdictInv
<1>3. CASE GemmEnter
  <2>1. phase = "run" BY <1>3 DEF GemmEnter, AtOp
  <2>2. \/ \E code : ReturnFailed(code)
        \/ status' = status /\ phase' = "leaf"
    BY <1>3, Zenon DEF GemmEnter
  <2> QED BY <2>1, <2>2, FailingStep DEF VerdictInv
<1>4. CASE Reenter
  <2>1. /\ phase = "leaf" /\ status.code = "ok" /\ phase' = phase
        /\ status' = Failed(status, "reentrant_use", activeFrontier)
    BY <1>4 DEF Reenter
  <2> QED BY <2>1, LedgerSteps DEF VerdictInv
<1>5. CASE GemmReturn
  <2>1. phase = "leaf" BY <1>5 DEF GemmReturn
  <2>2. \/ \E code : ReturnFailed(code)
        \/ \E leaf : IssueVerdict(leaf) = "ok" /\ status' = Succeeded(status, Frontier) /\ phase' = "run"
    BY <1>5, Zenon DEF GemmReturn, Continue
  <2>3. \/ \E code : ReturnFailed(code)
        \/ status.code = "ok" /\ status' = Succeeded(status, Frontier) /\ phase' = "run"
    BY <2>2 DEF IssueVerdict
  <2> QED BY <2>1, <2>3, FailingStep, LedgerSteps DEF VerdictInv
<1>6. CASE FusedFirst
  <2>1. phase = "run" BY <1>6 DEF FusedFirst, AtOp
  <2>2. \/ \E code : ReturnFailed(code)
        \/ status' = Succeeded(status, Frontier) /\ phase' = "second"
    BY <1>6, Zenon DEF FusedFirst
  <2> QED BY <2>1, <2>2, FailingStep, LedgerSteps DEF VerdictInv
<1>7. CASE FusedSecond
  <2>1. phase = "second" BY <1>7 DEF FusedSecond
  <2>2. \/ \E code : ReturnFailed(code)
        \/ status' = status /\ phase' = "pairleaf"
    BY <1>7, Zenon DEF FusedSecond
  <2> QED BY <2>1, <2>2, FailingStep DEF VerdictInv
<1>8. CASE FusedReturn
  <2>1. phase = "pairleaf" BY <1>8 DEF FusedReturn
  <2>2. \/ \E code : ReturnFailed(code)
        \/ \E leaf : IssueVerdict(leaf) = "ok" /\ status' = Succeeded(status, Frontier) /\ phase' = "run"
    BY <1>8, Zenon DEF FusedReturn, Continue
  <2>3. \/ \E code : ReturnFailed(code)
        \/ status.code = "ok" /\ status' = Succeeded(status, Frontier) /\ phase' = "run"
    BY <2>2 DEF IssueVerdict
  <2> QED BY <2>1, <2>3, FailingStep, LedgerSteps DEF VerdictInv
<1>9. ASSUME VerdictInv, NEW counter \in {"publications", "observations"}, phase = "run", status.code = "ok",
             status' = Retired(counter), phase' = "run"
      PROVE  VerdictInv' /\ ((status.code # "ok" \/ status.completed) => status' = status)
  BY <1>9 DEF VerdictInv, Retired, Succeeded, FreshStatus
<1>10. CASE PublishCall
  <2>1. phase = "run" BY <1>10 DEF PublishCall, AtOp
  <2>2. \/ \E code : ReturnFailed(code)
        \/ status' = Retired("publications") /\ phase' = "run"
    BY <1>10, Zenon DEF PublishCall, Continue
  <2> QED BY <2>1, <2>2, <1>9, FailingStep DEF VerdictInv
<1>11. CASE ObserveCall
  <2>1. phase = "run" BY <1>11 DEF ObserveCall, AtOp
  <2>2. \/ \E code : ReturnFailed(code)
        \/ status' = Retired("observations") /\ phase' = "run"
    BY <1>11, Zenon DEF ObserveCall, Continue
  <2> QED BY <2>1, <2>2, <1>9, FailingStep DEF VerdictInv
<1>12. CASE Branch
  <2>1. status' = status /\ phase' = phase BY <1>12 DEF Branch, session
  <2> QED BY <2>1 DEF VerdictInv
<1>13. CASE CompleteCall
  <2>1. /\ phase = "run" /\ phase' = "idle"
        /\ status' = Succeeded([status EXCEPT !.completed = TRUE], Completion(program))
    BY <1>13 DEF CompleteCall
  <2>2. ~status.completed /\ status.code = "ok"
    BY <2>1 DEF VerdictInv
  <2>3. DOMAIN status' = DOMAIN FreshStatus /\ status' = [f \in DOMAIN status' |-> status'[f]]
    BY <2>1 DEF VerdictInv, Succeeded, FreshStatus
  <2> QED BY <2>1, <2>2, <2>3 DEF VerdictInv
<1> QED BY <1>1, <1>2, <1>3, <1>4, <1>5, <1>6, <1>7, <1>8, <1>10, <1>11, <1>12, <1>13

\* What the host does between two activations keeps the verdict, too.
LEMMA HostStep ==
  ASSUME VerdictInv, Compile \/ Enter \/ TakeResult
  PROVE  /\ VerdictInv'
         /\ (status.code # "ok" \/ status.completed) => status' = status
<1>1. CASE Compile
  <2>1. status' = status /\ phase' \in {"idle", "refused"} BY <1>1 DEF Compile, session
  <2> QED BY <2>1 DEF VerdictInv
<1>2. CASE Enter
  <2>1. status' = status /\ phase = "idle" BY <1>2 DEF Enter, session
  <2>2. \/ phase' = "run" /\ status.code = "ok" /\ ~status.completed
        \/ phase' = phase
    BY <1>2 DEF Enter, Pristine
  <2> QED BY <2>1, <2>2 DEF VerdictInv
<1>3. CASE TakeResult
  <2>1. /\ phase = "idle" /\ phase' = phase
        /\ \/ status' = status
           \/ /\ status.code = "ok" /\ ~status.completed
              /\ status' = Failed(status, "invalid_frontier", 0)
    BY <1>3 DEF TakeResult
  <2> QED BY <2>1, LedgerSteps DEF VerdictInv
<1> QED BY <1>1, <1>2, <1>3

\* The first verdict stands (fail and begin, closed_host_v1.cpp:433): whatever
\* the host or a callback does, a failed or completed session stays as it is.
THEOREM VerdictStands == Spec => VerdictIsFinal
<1>1. ASSUME VerdictInv, [Next]_vars
      PROVE  /\ VerdictInv'
             /\ [(status.code # "ok" \/ status.completed) => UNCHANGED status]_vars
  <2>1. CASE UNCHANGED vars
    <3>1. status' = status /\ phase' = phase BY <2>1 DEF vars, session
    <3> QED BY <3>1, <1>1 DEF VerdictInv
  <2>2. CASE Next
    BY <2>2, <1>1, CallStep, HostStep DEF Next
  <2> QED BY <1>1, <2>1, <2>2
<1> QED BY <1>1, VerdictInit, PTL DEF Spec, VerdictIsFinal

-----------------------------------------------------------------------------
(* The source's view of a session.                                         *)

\* The values of the source: in a pair that has passed its first frontier,
\* also the product that was never materialised.
Env == [i \in 1 .. Len(program) |->
          IF Deferred(i)
          THEN Product(values[program[i].lhs], values[program[i].rhs], "strict_f32")
          ELSE values[i]]
Observed == IF taken THEN results[1].observations ELSE observations

\* The source is a region program like the session's.
LEMMA SameProgram ==
  ASSUME NEW p, NEW i, NEW j
  PROVE  /\ Source!FrontierOf(p, i) = FrontierOf(p, i)
         /\ Source!Settle(p, i) = Settle(p, i)
<1>1. Source!FrontierOf(p, i) = FrontierOf(p, i)
  BY Zenon DEF Source!FrontierOf, FrontierOf, Source!Marker, Marker, Source!Cardinality, Cardinality
<1>2. Source!Settle(p, i) = Settle(p, i)
  BY Zenon DEF Source!Settle, Settle, Source!Marker, Marker
<1> QED BY <1>1, <1>2

\* Its values and its checks are the session's.
LEMMA SameChecks ==
  ASSUME NEW a, NEW b, NEW c, NEW d
  PROVE  /\ Source!Contents(a, b) = Contents(a, b)
         /\ Source!Store(a, b, c) = Store(a, b, c)
         /\ Source!Product(a, b, c) = Product(a, b, c)
         /\ Source!Extent(a, b) = Extent(a, b)
         /\ Source!Validate(a, b) = Validate(a, b)
         /\ Source!ReadFault(a, b, c) = ReadFault(a, b, c)
         /\ Source!PublishFault(a, b) = PublishFault(a, b)
         /\ Source!Evaluate(a, b, c) = Evaluate(a, b, c)
         /\ Source!NoValue = NoValue /\ Source!InitialMemory = InitialMemory
<1>1. Source!Contents(a, b) = Contents(a, b)
  BY Zenon DEF Source!Contents, Contents, Source!Matrix, Matrix
<1>2. Source!Store(a, b, c) = Store(a, b, c) BY Zenon DEF Source!Store, Store
<1>3. Source!Product(a, b, c) = Product(a, b, c)
  BY Zenon DEF Source!Product, Product, Source!Matrix, Matrix, Source!Zero, Zero
<1>4. \A r, k : Source!Extent(r, k) = Extent(r, k) BY Zenon DEF Source!Extent, Extent
<1>5. \A v, w : Source!Validate(v, w) = Validate(v, w)
  BY <1>4, Zenon DEF Source!Validate, Validate
<1>6. Source!ReadFault(a, b, c) = ReadFault(a, b, c)
  BY <1>4, <1>5, Zenon DEF Source!ReadFault, ReadFault
<1>7. Source!PublishFault(a, b) = PublishFault(a, b)
  BY <1>5, Zenon DEF Source!PublishFault, PublishFault
<1>8. Source!Evaluate(a, b, c) = Evaluate(a, b, c) BY Zenon DEF Source!Evaluate, Evaluate
<1>9. Source!NoValue = NoValue /\ Source!InitialMemory = InitialMemory
  BY Zenon DEF Source!NoValue, NoValue, Source!InitialMemory, InitialMemory
<1> QED BY <1>1, <1>2, <1>3, <1>4, <1>5, <1>6, <1>7, <1>8, <1>9, Zenon

\* What the source knows is the same if these are.
LEMMA SourceVars ==
  ASSUME Env' = Env, Observed' = Observed, UNCHANGED <<program, args, memory, at>>,
         status'.code = status.code, status'.failedFrontier = status.failedFrontier,
         status'.publications = status.publications, status'.completed = status.completed
  PROVE  UNCHANGED Source!vars
BY Zenon DEF Source!vars, Env, Observed

\* A failure of the session is the source's failure at the same frontier.
LEMMA FailsSource ==
  ASSUME SessionInv, Live, at \in 1 .. Len(program), status.code = "ok", Op.kind # "if",
         NEW c \in Codes, c # "ok", status' = Failed(status, c, Frontier),
         UNCHANGED <<program, args, memory, at>>, Env' = Env, Observed' = Observed,
         \/ Source!Fault # "ok" /\ c = Source!Fault
         \/ Op.kind \in {"read", "observe"} /\ Source!Fault = "ok" /\ c = "allocation_failure"
         \/ Op.kind = "gemm" /\ Source!Fault # "shape_mismatch" /\ c \in Source!RealizationFault
  PROVE  Source!DoFail
<1>1. /\ ~status.completed /\ at <= Len(program) /\ IsLedger(status)
  <2>1. Len(program) \in Nat BY Known DEF SessionInv
  <2> QED BY <2>1 DEF SessionInv, LedgerInv
<1>2. /\ status'.code = c /\ status'.failedFrontier = Frontier
      /\ status'.publications = status.publications /\ status'.completed = status.completed
  BY <1>1 DEF Failed, IsLedger
<1>3. Source!Running BY <1>1, Zenon DEF Source!Running
<1>4. Source!FailWith(c) BY <1>2, SameProgram, Zenon DEF Source!FailWith, Frontier, Env, Observed
<1>5. Source!Op = Op BY Zenon DEF Source!Op, Op
<1>6. Source!AllocationFault = {"allocation_failure"} BY DEF Source!AllocationFault
<1>7. \/ Source!Fault # "ok" /\ Source!FailWith(Source!Fault)
      \/ Op.kind \in {"read", "observe"} /\ Source!Fault = "ok"
         /\ \E d \in Source!AllocationFault : Source!FailWith(d)
      \/ Op.kind = "gemm" /\ Source!Fault # "shape_mismatch"
         /\ \E d \in Source!RealizationFault : Source!FailWith(d)
  <2>1. CASE Source!Fault # "ok" /\ c = Source!Fault BY <1>4, <2>1, Zenon
  <2>2. CASE Op.kind \in {"read", "observe"} /\ Source!Fault = "ok" /\ c = "allocation_failure"
    <3>1. c \in Source!AllocationFault BY <1>6, <2>2
    <3> QED BY <1>4, <2>2, <3>1, Zenon
  <2>3. CASE Op.kind = "gemm" /\ Source!Fault # "shape_mismatch" /\ c \in Source!RealizationFault
    BY <1>4, <2>3, Zenon
  <2> QED BY <2>1, <2>2, <2>3
<1> QED BY <1>1, <1>3, <1>5, <1>7, Zenon DEF Source!DoFail

\* The values that operations refer to are those of the session, but for the
\* product in the middle of a pair.
LEMMA EnvAt ==
  ASSUME CompiledInv, NEW i \in 1 .. Len(program)
  PROVE  /\ i \notin plan.pairs => Env[i] = values[i]
         /\ ~Deferred(i) => Env[i] = values[i]
         /\ Deferred(i) =>
              Env[i] = Product(values[program[i].lhs], values[program[i].rhs], "strict_f32")
<1>1. Env[i] = IF Deferred(i)
               THEN Product(values[program[i].lhs], values[program[i].rhs], "strict_f32")
               ELSE values[i]
  BY Zenon DEF Env
<1>2. i \notin plan.pairs => ~Deferred(i) BY DEF Deferred
<1> QED BY <1>1, <1>2, Zenon

\* A step of the activation that enters no pair changes the source's values
\* where it changes the session's.
LEMMA EnvMoves ==
  ASSUME SessionInv, Live, at \in 1 .. Len(program), at \notin plan.pairs,
         program' = program, plan' = plan, phase' = "run", ControlInv',
         NEW v, values' = [values EXCEPT ![at] = v],
         at - 1 \in plan.pairs => v.valid
  PROVE  Env' = [Env EXCEPT ![at] = v]
<1>1. CompiledInv /\ Len(program) \in Nat /\ Completion(program) \in Nat
  BY Known DEF SessionInv
<1>2. values = [i \in 1 .. Len(program) |-> values[i]] BY DEF SessionInv, ValuesInv
<1>3. values'[at] = v /\ \A i \in 1 .. Len(program) : i # at => values'[i] = values[i]
  BY <1>2
<1>4. at' - 1 \notin plan.pairs /\ at' \in 1 .. Len(program) + 1 BY DEF ControlInv
<1> DEFINE d(i) == Product(values[program[i].lhs], values[program[i].rhs], "strict_f32")
           e(i) == Product(values'[program[i].lhs], values'[program[i].rhs], "strict_f32")
           D(i) == i \in plan.pairs /\ (at' = i + 1 \/ values'[i + 1].valid)
<1>5. ASSUME NEW i \in 1 .. Len(program)
      PROVE  (IF D(i) THEN e(i) ELSE values'[i]) = (IF i = at THEN v ELSE Env[i])
  <2>1. CASE i \notin plan.pairs BY <1>1, <1>3, <2>1, EnvAt
  <2>2. CASE i \in plan.pairs
    <3>1. /\ i # at /\ i + 1 \in 1 .. Len(program)
          /\ program[i].kind = "gemm"
      BY <1>1, <2>2, Pairs
    <3>2. at' # i + 1
      <4> SUFFICES ASSUME at' = i + 1 PROVE FALSE OBVIOUS
      <4>1. at' - 1 = i BY <3>1
      <4> QED BY <1>4, <2>2, <4>1
    <3>3. D(i) <=> values'[i + 1].valid BY <2>2, <3>2
    <3>4. D(i) <=> Deferred(i)
      <4>1. CASE at = i + 1
        <5>1. at - 1 = i BY <3>1, <4>1
        <5>2. values'[i + 1].valid BY <1>3, <2>2, <4>1, <5>1
        <5> QED BY <2>2, <3>3, <4>1, <5>2 DEF Deferred
      <4>2. CASE at # i + 1
        <5>1. values'[i + 1] = values[i + 1] BY <1>3, <3>1, <4>2
        <5> QED BY <2>2, <3>3, <4>2, <5>1 DEF Deferred
      <4> QED BY <4>1, <4>2
    <3>5. CASE Deferred(i)
      <4>1. i + 1 <= at
        <5>1. CASE at = i + 1 BY <1>1, <5>1
        <5>2. CASE values[i + 1].valid
          <6> SUFFICES ASSUME at < i + 1 PROVE FALSE BY <1>1, <3>1
          <6>1. FrontierOf(program, i + 1) <= status.completedFrontier
            BY <3>1, <5>2 DEF SessionInv, ValuesInv
          <6>2. status.completedFrontier < FrontierOf(program, at)
            BY <1>1 DEF SessionInv, LedgerInv, Frontier
          <6>3. FrontierOf(program, at) <= FrontierOf(program, i + 1)
            <7>1. i + 1 \in 0 .. Len(program) /\ at \in 0 .. i + 1 BY <1>1, <3>1
            <7> QED BY <1>1, <7>1, Frontiers
          <6>4. /\ FrontierOf(program, i + 1) \in Nat /\ FrontierOf(program, at) \in Nat
                /\ status.completedFrontier \in Nat
            <7>1. i + 1 \in 0 .. Len(program) /\ at \in 0 .. Len(program) BY <1>1, <3>1
            <7>2. status.completedFrontier \in Nat
              BY <1>1 DEF SessionInv, LedgerInv, IsLedger
            <7> QED BY <1>1, <7>1, <7>2, Frontiers
          <6> QED BY <6>1, <6>2, <6>3, <6>4
        <5> QED BY <3>5, <5>1, <5>2 DEF Deferred
      <4>2. \A w \in {program[i].lhs, program[i].rhs} : w \in 1 .. i - 1
        <5>1. {program[i].lhs, program[i].rhs} \subseteq Operands(program[i])
          BY <3>1 DEF Operands
        <5> QED BY <1>1, <5>1, Known, Wellformed
      <4>3. \A w \in {program[i].lhs, program[i].rhs} : values'[w] = values[w]
        <5>1. \A w \in 1 .. i - 1 : w \in 1 .. Len(program) /\ w # at BY <1>1, <4>1
        <5> QED BY <1>3, <4>2, <5>1
      <4>4. e(i) = d(i) BY <4>3
      <4>5. Env[i] = d(i) BY <1>1, <3>5, EnvAt
      <4> HIDE DEF d, e, D
      <4> QED BY <3>1, <3>4, <3>5, <4>4, <4>5
    <3>6. CASE ~Deferred(i)
      <4>1. Env[i] = values[i] BY <1>1, <3>6, EnvAt
      <4>2. values'[i] = values[i] BY <1>3, <3>1
      <4> HIDE DEF d, e, D
      <4> QED BY <3>1, <3>4, <3>6, <4>1, <4>2
    <3> QED BY <3>5, <3>6
  <2> QED BY <2>1, <2>2
<1>6. Env' = [i \in 1 .. Len(program) |-> IF D(i) THEN e(i) ELSE values'[i]]
  <2>1. Env' = [i \in 1 .. Len(program') |->
                  IF i \in plan'.pairs /\ (at' = i + 1 \/ values'[i + 1].valid)
                  THEN Product(values'[program'[i].lhs], values'[program'[i].rhs], "strict_f32")
                  ELSE values'[i]]
    BY Zenon DEF Env, Deferred
  <2> QED BY <2>1
<1> HIDE DEF d, e, D
<1>7. Env' = [i \in 1 .. Len(program) |-> IF i = at THEN v ELSE Env[i]]
  BY <1>5, <1>6, Zenon
<1>8. DOMAIN Env = 1 .. Len(program) BY Zenon DEF Env
<1>9. Env = [i \in 1 .. Len(program) |-> Env[i]] BY Zenon DEF Env
<1> HIDE DEF Env
<1> QED BY <1>7, <1>8, <1>9

\* A step that issues nothing leaves the source's values alone.
LEMMA EnvStays ==
  ASSUME SessionInv, phase = "run", at \in 1 .. Len(program), at \notin plan.pairs,
         program' = program, plan' = plan, phase' = "run", ControlInv', values' = values
  PROVE  Env' = Env
<1>1. CompiledInv BY DEF SessionInv
<1>2. values' = [values EXCEPT ![at] = values[at]]
  <2>1. values = [i \in 1 .. Len(program) |-> values[i]] BY DEF SessionInv, ValuesInv
  <2> QED BY <2>1
<1>3. at - 1 \notin plan.pairs /\ Live BY DEF SessionInv, ControlInv, Live
<1>4. Env' = [Env EXCEPT ![at] = values[at]] BY <1>2, <1>3, EnvMoves
<1>5. Env[at] = values[at] BY <1>1, EnvAt
<1>6. Env = [i \in 1 .. Len(program) |-> Env[i]] BY Zenon DEF Env
<1> HIDE DEF Env
<1> QED BY <1>4, <1>5, <1>6

\* So does a step that moves neither control nor values.
LEMMA EnvSame ==
  ASSUME UNCHANGED <<program, plan, at, values>>
  PROVE  Env' = Env
BY DEF Env, Deferred

\* The first frontier of a pair defines the source's first product.
LEMMA EnvFirst ==
  ASSUME SessionInv, phase = "run", at \in plan.pairs, at \in 1 .. Len(program),
         program' = program, plan' = plan, values' = values, at' = at + 1
  PROVE  Env' = [Env EXCEPT ![at] = Product(values[Op.lhs], values[Op.rhs], "strict_f32")]
<1>1. CompiledInv /\ Len(program) \in Nat /\ Completion(program) \in Nat /\ Live
  BY Known DEF SessionInv, Live
<1>2. at - 1 \notin plan.pairs BY DEF SessionInv, ControlInv
<1> DEFINE d(i) == Product(values[program[i].lhs], values[program[i].rhs], "strict_f32")
           D(i) == i \in plan.pairs /\ (at + 1 = i + 1 \/ values[i + 1].valid)
<1>3. ASSUME NEW i \in 1 .. Len(program), i # at
      PROVE  (IF D(i) THEN d(i) ELSE values[i]) = Env[i]
  <2>1. i \in plan.pairs => at # i + 1
    <3> SUFFICES ASSUME i \in plan.pairs, at = i + 1 PROVE FALSE OBVIOUS
    <3>1. at - 1 = i BY <1>1
    <3> QED BY <1>2, <3>1
  <2>2. at + 1 # i + 1 BY <1>1, <1>3
  <2>3. D(i) <=> Deferred(i) BY <2>1, <2>2 DEF Deferred
  <2> HIDE DEF D
  <2> QED BY <1>1, <2>3, EnvAt, Zenon
<1>4. D(at) BY <1>1
<1>5. Env' = [i \in 1 .. Len(program) |-> IF D(i) THEN d(i) ELSE values[i]]
  <2>1. Env' = [i \in 1 .. Len(program') |->
                  IF i \in plan'.pairs /\ (at' = i + 1 \/ values'[i + 1].valid)
                  THEN Product(values'[program'[i].lhs], values'[program'[i].rhs], "strict_f32")
                  ELSE values'[i]]
    BY Zenon DEF Env, Deferred
  <2> QED BY <2>1
<1>6. d(at) = Product(values[Op.lhs], values[Op.rhs], "strict_f32") BY DEF Op
<1> HIDE DEF d, D
<1>7. Env' = [i \in 1 .. Len(program) |-> IF i = at THEN d(at) ELSE Env[i]]
  <2>1. \A i \in 1 .. Len(program) :
          (IF D(i) THEN d(i) ELSE values[i]) = (IF i = at THEN d(at) ELSE Env[i])
    BY <1>3, <1>4, Zenon
  <2> QED BY <1>5, <2>1, Zenon
<1>8. Env = [i \in 1 .. Len(program) |-> Env[i]] BY Zenon DEF Env
<1> HIDE DEF Env
<1> QED BY <1>6, <1>7, <1>8

-----------------------------------------------------------------------------
(* The source's checks are those of the calls.                             *)

\* What the source's check of the next operation is.
LEMMA SourceFault ==
  /\ Source!Op = Op
  /\ Op.kind = "read" =>
       Source!Fault = ReadFault(Views[Op.res], Evaluate(Op.rows, args, Env), Evaluate(Op.cols, args, Env))
  /\ Op.kind = "gemm" =>
       Source!Fault = IF Env[Op.lhs].cols # Env[Op.rhs].rows THEN "shape_mismatch"
                      ELSE Extent(Env[Op.lhs].rows, Env[Op.rhs].cols)
  /\ Op.kind = "publish" => Source!Fault = PublishFault(Env[Op.lhs], Views[Op.res])
  /\ Op.kind = "observe" => Source!Fault = Validate(Views[Op.res], FALSE)
<1>1. Source!Op = Op BY Zenon DEF Source!Op, Op
<1>2. Source!Fault =
        CASE Op.kind = "read" ->
               Source!ReadFault(Views[Op.res], Source!Evaluate(Op.rows, args, Env),
                                Source!Evaluate(Op.cols, args, Env))
          [] Op.kind = "gemm" ->
               IF Env[Op.lhs].cols # Env[Op.rhs].rows THEN "shape_mismatch"
               ELSE Source!Extent(Env[Op.lhs].rows, Env[Op.rhs].cols)
          [] Op.kind = "publish" -> Source!PublishFault(Env[Op.lhs], Views[Op.res])
          [] Op.kind = "observe" -> Source!Validate(Views[Op.res], FALSE)
  BY Zenon DEF Source!Fault, Source!Op, Op, Env
<1> HIDE DEF Env
<1>3. /\ \A v, r, c : Source!ReadFault(v, r, c) = ReadFault(v, r, c)
      /\ \A d, e : Source!Evaluate(d, args, e) = Evaluate(d, args, e)
      /\ \A r, c : Source!Extent(r, c) = Extent(r, c)
      /\ \A v, w : Source!PublishFault(v, w) = PublishFault(v, w)
      /\ \A v, w : Source!Validate(v, w) = Validate(v, w)
  BY SameChecks, Zenon
<1> QED BY <1>1, <1>2, <1>3

\* A dimension names no deferred value.
LEMMA EnvDimensions ==
  ASSUME SessionInv, phase = "run", at \in 1 .. Len(program), NEW e \in Dimensions(Op)
  PROVE  Evaluate(e, args, Env) = Evaluate(e, args, values)
<1>1. CompiledInv /\ Len(program) \in Nat BY Known DEF SessionInv
<1>2. ASSUME e.kind \in {"rows", "columns"} PROVE Env[e.of] = values[e.of]
  <2>1. e.of \in DimensionValues(Op) BY <1>2, Zenon DEF DimensionValues
  <2>2. e.of \in 1 .. at - 1 /\ e.of \notin plan.pairs BY <2>1, Issued
  <2>3. e.of \in 1 .. Len(program) BY <1>1, <2>2
  <2> QED BY <1>1, <2>2, <2>3, EnvAt
<1>3. CASE e.kind = "rows"
  <2>1. Env[e.of] = values[e.of] BY <1>2, <1>3
  <2> QED BY <1>3, <2>1 DEF Evaluate
<1>4. CASE e.kind = "columns"
  <2>1. Env[e.of] = values[e.of] BY <1>2, <1>4
  <2> QED BY <1>4, <2>1 DEF Evaluate
<1>5. CASE e.kind \notin {"rows", "columns"}
  <2>1. e \in Dimension
    <3>1. Op \in Operation /\ Op.kind \in {"read", "if"}
      BY <1>1, Known, Wellformed DEF Op, Dimensions
    <3> QED BY <3>1 DEF Operation, Dimensions
  <2>2. e.kind \in {"literal", "shape"} BY <1>5, <2>1 DEF Dimension
  <2> HIDE DEF Env
  <2> QED BY <2>2 DEF Evaluate
<1> QED BY <1>3, <1>4, <1>5

\* A read is checked like the source's.
LEMMA FaultOfRead ==
  ASSUME SessionInv, AtOp("read")
  PROVE  Source!Fault = ReadFault(Views[Op.res], Rows, Cols)
<1>1. at \in 1 .. Len(program) /\ phase = "run" /\ Op.kind = "read" BY Here
<1>2. Op.rows \in Dimensions(Op) /\ Op.cols \in Dimensions(Op) BY <1>1 DEF Dimensions
<1>3. Evaluate(Op.rows, args, Env) = Rows /\ Evaluate(Op.cols, args, Env) = Cols
  BY <1>1, <1>2, EnvDimensions DEF Rows, Cols
<1> QED BY <1>1, <1>3, SourceFault

\* No operand is deferred, outside a pair.
LEMMA EnvOperands ==
  ASSUME SessionInv, phase \in {"run", "leaf"}, at \in 1 .. Len(program), NEW v \in Operands(Op)
  PROVE  Env[v] = values[v]
<1>1. CompiledInv /\ Len(program) \in Nat BY Known DEF SessionInv
<1>2. v \in 1 .. at - 1 /\ v \notin plan.pairs BY Issued
<1>3. v \in 1 .. Len(program) BY <1>1, <1>2
<1> QED BY <1>1, <1>2, <1>3, EnvAt

\* A GEMM is checked like the source's.
LEMMA FaultOfGemm ==
  ASSUME SessionInv, phase \in {"run", "leaf"}, at \in 1 .. Len(program), Op.kind = "gemm"
  PROVE  /\ Env[Op.lhs] = values[Op.lhs] /\ Env[Op.rhs] = values[Op.rhs]
         /\ Source!Fault = IF values[Op.lhs].cols # values[Op.rhs].rows THEN "shape_mismatch"
                           ELSE Extent(values[Op.lhs].rows, values[Op.rhs].cols)
<1>1. Op.lhs \in Operands(Op) /\ Op.rhs \in Operands(Op) BY DEF Operands
<1>2. Env[Op.lhs] = values[Op.lhs] /\ Env[Op.rhs] = values[Op.rhs] BY <1>1, EnvOperands
<1> QED BY <1>2, SourceFault

\* The second frontier of a pair is checked as if its first product were there.
LEMMA FaultInPair ==
  ASSUME SessionInv, phase \in {"second", "pairleaf"}
  PROVE  LET a == values[Producer.lhs]
             b == values[Producer.rhs]
             d == values[Op.rhs]
         IN  /\ Env[Op.lhs] = Product(a, b, "strict_f32") /\ Env[Op.rhs] = d
             /\ Source!Fault = IF b.cols # d.rows THEN "shape_mismatch"
                               ELSE Extent(a.rows, d.cols)
<1> DEFINE a == values[Producer.lhs]
           b == values[Producer.rhs]
           d == values[Op.rhs]
<1>1. CompiledInv /\ Len(program) \in Nat BY Known DEF SessionInv
<1>2. /\ at \in 1 .. Len(program) /\ at - 1 \in 1 .. Len(program) /\ at - 1 \in plan.pairs
      /\ Op.kind = "gemm" /\ Op.lhs = at - 1
      /\ Op.rhs \in 1 .. Len(program) /\ Op.rhs \notin plan.pairs
      /\ IsMatrix(a) /\ IsMatrix(b)
  BY InPair
<1>3. Env[Op.rhs] = d BY <1>1, <1>2, EnvAt
<1>4. Deferred(at - 1)
  <2>1. at = (at - 1) + 1 BY <1>1, <1>2
  <2> QED BY <1>2, <2>1, Zenon DEF Deferred
<1>5. Env[at - 1] = Product(values[program[at - 1].lhs], values[program[at - 1].rhs], "strict_f32")
  BY <1>1, <1>2, <1>4, EnvAt, Zenon
<1>6. Env[Op.lhs] = Product(a, b, "strict_f32") BY <1>2, <1>5 DEF Producer
<1>7. a.rows \in Nat /\ b.cols \in Nat BY <1>2 DEF IsMatrix
<1> HIDE DEF a, b, d
<1>8. Product(a, b, "strict_f32").rows = a.rows /\ Product(a, b, "strict_f32").cols = b.cols
  BY <1>7, ProductIsMatrix
<1>9. Source!Fault = IF b.cols # d.rows THEN "shape_mismatch" ELSE Extent(a.rows, d.cols)
  BY <1>2, <1>3, <1>6, <1>8, SourceFault
<1> QED BY <1>3, <1>6, <1>9 DEF a, b, d

-----------------------------------------------------------------------------
(* Every step of a session is a step of the source, or none.               *)

\* A call that fails with a failure of the source, or of its realization, fails the source.
LEMMA CallFails ==
  ASSUME SessionInv, Live, at \in 1 .. Len(program), status.code = "ok", Op.kind # "if",
         NEW c \in Codes, ReturnFailed(c),
         \/ Source!Fault # "ok" /\ c = Source!Fault
         \/ Op.kind \in {"read", "observe"} /\ Source!Fault = "ok" /\ c = "allocation_failure"
         \/ Op.kind = "gemm" /\ Source!Fault # "shape_mismatch" /\ c \in Source!RealizationFault
  PROVE  Source!Next
<1>1. /\ UNCHANGED <<program, args, plan, memory, results, at, values, taken, observations>>
      /\ c # "ok" /\ status' = Failed(status, c, Frontier)
  BY DEF ReturnFailed, compiled, host
<1>2. Env' = Env BY <1>1, EnvSame
<1>3. Observed' = Observed BY <1>1 DEF Observed
<1>4. Source!DoFail BY <1>1, <1>2, <1>3, FailsSource
<1> QED BY <1>4, Zenon DEF Source!Next

\* What a successful call leaves of the source's other variables.
LEMMA CallSucceeds ==
  ASSUME SessionInv, Live, at \in 1 .. Len(program), status.code = "ok",
         \/ status' = Succeeded(status, Frontier)
         \/ status' = Retired("publications")
         \/ status' = Retired("observations")
  PROVE  /\ Source!Running /\ \A k : Op.kind = k => Source!AtKind(k)
         /\ status'.code = status.code /\ status'.failedFrontier = status.failedFrontier
         /\ status'.completed = status.completed
         /\ status' = Succeeded(status, Frontier) => status'.publications = status.publications
         /\ status' = Retired("publications") => status'.publications = status.publications + 1
         /\ status' = Retired("observations") => status'.publications = status.publications
<1>1. ~status.completed /\ at <= Len(program) /\ IsLedger(status)
  <2>1. Len(program) \in Nat BY Known DEF SessionInv
  <2> QED BY <2>1 DEF SessionInv, LedgerInv
<1>2. Source!Running BY <1>1, Zenon DEF Source!Running
<1>3. \A k : Op.kind = k => Source!AtKind(k)
  BY <1>1, <1>2, SourceFault, Zenon DEF Source!AtKind
<1>4. CASE status' = Succeeded(status, Frontier)
  BY <1>1, <1>2, <1>3, <1>4 DEF Succeeded, Retired, IsLedger
<1>5. CASE status' = Retired("publications")
  BY <1>1, <1>2, <1>3, <1>5 DEF Succeeded, Retired, IsLedger
<1>6. CASE status' = Retired("observations")
  BY <1>1, <1>2, <1>3, <1>6 DEF Succeeded, Retired, IsLedger
<1> QED BY <1>4, <1>5, <1>6

\* A read that issues the view's contents is the source's read.
LEMMA SourceReads ==
  ASSUME SessionInv, AtOp("read"), ControlInv',
         ReadFault(Views[Op.res], Rows, Cols) = "ok",
         values' = [values EXCEPT ![at] = Contents(memory, Views[Op.res])],
         status' = Succeeded(status, Frontier), Continue,
         UNCHANGED <<program, args, plan, memory, results, taken, observations>>
  PROVE  Source!Next
<1>1. /\ at \in 1 .. Len(program) /\ Live /\ phase = "run" /\ status.code = "ok"
      /\ Op.kind = "read"
  BY Here
<1>2. at \notin plan.pairs BY <1>1, Here
<1>3. at - 1 \notin plan.pairs BY <1>1 DEF SessionInv, ControlInv
<1>4. phase' = "run" /\ at' = Settle(program, at + 1) BY DEF Continue
<1>5. Env' = [Env EXCEPT ![at] = Contents(memory, Views[Op.res])]
  BY <1>1, <1>2, <1>3, <1>4, EnvMoves
<1>6. Observed' = Observed BY DEF Observed
<1>7. Source!Fault = "ok" BY FaultOfRead
<1>8. /\ Source!AtKind("read")
      /\ status'.code = status.code /\ status'.failedFrontier = status.failedFrontier
      /\ status'.completed = status.completed /\ status'.publications = status.publications
  BY <1>1, CallSucceeds, Zenon
<1>9. Source!Advance BY <1>4, SameProgram, Zenon DEF Source!Advance
<1>10. Source!Contents(memory, Views[Op.res]) = Contents(memory, Views[Op.res])
  BY SameChecks, Zenon
<1>11. Source!Op = Op BY SourceFault
<1>12. Source!DoRead
  BY <1>5, <1>6, <1>7, <1>8, <1>9, <1>10, <1>11, Zenon DEF Source!DoRead, Env, Observed
<1> QED BY <1>12, Zenon DEF Source!Next

\* ReadCall is a read of the source, or its failure.
LEMMA ReadRefines ==
  ASSUME SessionInv, ControlInv', ReadCall
  PROVE  Source!Next
<1>1. AtOp("read") BY DEF ReadCall
<1> DEFINE fault == ReadFault(Views[Op.res], Rows, Cols)
           own == IF fault # "ok" THEN {fault} ELSE {"ok", "allocation_failure"}
<1>2. \E code \in Outcomes(own) :
        \/ ReturnFailed(code) /\ UNCHANGED report
        \/ /\ code = "ok"
           /\ values' = [values EXCEPT ![at] = Contents(memory, Views[Op.res])]
           /\ status' = Succeeded(status, Frontier)
           /\ Continue
           /\ UNCHANGED <<compiled, host, returned, active, activeFrontier, taken,
                          observations, report>>
  BY Zenon DEF ReadCall
<1>3. /\ at \in 1 .. Len(program) /\ Live /\ status.code = "ok" /\ Op.kind = "read"
  BY <1>1, Here
<1>4. fault \in Codes /\ own \subseteq Codes /\ Source!Fault = fault
  BY <1>1, Answers, UnavailableCodes, FaultOfRead DEF Unavailable
<1>5. \A c \in own : \/ fault # "ok" /\ c = fault
                     \/ fault = "ok" /\ c \in {"ok", "allocation_failure"}
  OBVIOUS
<1> HIDE DEF own, fault
<1>6. Outcomes(own) = own BY <1>1, Unrefused, Zenon
<1>7. PICK c \in own :
        \/ ReturnFailed(c)
        \/ /\ c = "ok"
           /\ values' = [values EXCEPT ![at] = Contents(memory, Views[Op.res])]
           /\ status' = Succeeded(status, Frontier)
           /\ Continue
           /\ UNCHANGED <<compiled, host, returned, active, activeFrontier, taken,
                          observations, report>>
  BY <1>2, <1>6, Zenon
<1>8. CASE ReturnFailed(c)
  <2>1. c # "ok" BY <1>8 DEF ReturnFailed
  <2> QED BY <1>3, <1>4, <1>5, <1>8, <2>1, CallFails
<1>9. CASE /\ c = "ok"
           /\ values' = [values EXCEPT ![at] = Contents(memory, Views[Op.res])]
           /\ status' = Succeeded(status, Frontier)
           /\ Continue
           /\ UNCHANGED <<compiled, host, returned, active, activeFrontier, taken,
                          observations, report>>
  <2>1. ReadFault(Views[Op.res], Rows, Cols) = "ok" BY <1>5, <1>9 DEF fault
  <2> QED BY <1>1, <1>9, <2>1, SourceReads DEF compiled, host
<1> QED BY <1>7, <1>8, <1>9

\* ReadForwardedCall is a read of the source, too, because the retained value is current.
LEMMA ForwardRefines ==
  ASSUME SessionInv, ControlInv', ReadForwardedCall
  PROVE  Source!Next
<1>1. AtOp("read") /\ plan.forwarded[at] # 0 BY DEF ReadForwardedCall
<1>2. /\ at \in 1 .. Len(program) /\ Live /\ status.code = "ok" /\ Op.kind = "read"
  BY <1>1, Here
<1>3. /\ values[plan.forwarded[at]] = Contents(memory, Views[Op.res])
      /\ ForwardFault = ReadFault(Views[Op.res], Rows, Cols)
  BY <1>1, <1>2, Retained
<1>4. ForwardFault \in Codes /\ Source!Fault = ForwardFault
  BY <1>1, <1>3, Answers, FaultOfRead
<1>5. Outcomes({ForwardFault}) = {ForwardFault} BY <1>1, Unrefused, Zenon
<1>6. \/ ReturnFailed(ForwardFault)
      \/ /\ ForwardFault = "ok"
         /\ values' = [values EXCEPT ![at] = values[plan.forwarded[at]]]
         /\ status' = Succeeded(status, Frontier)
         /\ Continue
         /\ UNCHANGED <<compiled, host, returned, active, activeFrontier, taken,
                        observations, report>>
  BY <1>5, Zenon DEF ReadForwardedCall
<1>7. CASE ReturnFailed(ForwardFault)
  <2>1. ForwardFault # "ok" BY <1>7 DEF ReturnFailed
  <2> QED BY <1>2, <1>4, <1>7, <2>1, CallFails
<1>8. CASE /\ ForwardFault = "ok"
           /\ values' = [values EXCEPT ![at] = values[plan.forwarded[at]]]
           /\ status' = Succeeded(status, Frontier)
           /\ Continue
           /\ UNCHANGED <<compiled, host, returned, active, activeFrontier, taken,
                          observations, report>>
  BY <1>1, <1>3, <1>8, SourceReads DEF compiled, host
<1> QED BY <1>6, <1>7, <1>8

\* A step that moves nothing the source knows.
LEMMA Stutters ==
  ASSUME UNCHANGED <<program, args, plan, memory, results, at, values, taken, observations, status>>
  PROVE  UNCHANGED Source!vars
<1>1. Env' = Env BY EnvSame
<1>2. Observed' = Observed BY DEF Observed
<1> QED BY <1>1, <1>2, SourceVars

\* The failures of a candidate are failures of the realization.
LEMMA Realization ==
  /\ Unavailable \subseteq Source!RealizationFault /\ "reentrant_use" \in Source!RealizationFault
  /\ \A c \in Source!RealizationFault : c # "ok"
  /\ Source!RealizationFault \subseteq Codes
BY DEF Unavailable, Source!RealizationFault, Codes

\* GemmEnter fails the source or is none of its steps.
LEMMA GemmEnterRefines ==
  ASSUME SessionInv, GemmEnter
  PROVE  Source!Next \/ UNCHANGED Source!vars
<1>1. AtOp("gemm") BY DEF GemmEnter
<1>2. /\ at \in 1 .. Len(program) /\ Live /\ phase = "run" /\ status.code = "ok" /\ Op.kind = "gemm"
      /\ Outcomes(GemmOutcomes) = GemmOutcomes
  <2>1. Outcomes(GemmOutcomes) = GemmOutcomes BY <1>1, Unrefused, Zenon
  <2> QED BY <1>1, <2>1, Here
<1>3. PICK c \in GemmOutcomes :
        \/ ReturnFailed(c)
        \/ UNCHANGED <<compiled, host, returned, at, values, status, taken, observations>>
  BY <1>2, Zenon DEF GemmEnter
<1> DEFINE a == values[Op.lhs]
           b == values[Op.rhs]
<1>4. \/ c = "ok"
      \/ c = "shape_mismatch" /\ a.cols # b.rows
      \/ c = "extent_overflow" /\ a.cols = b.rows /\ Extent(a.rows, b.cols) = "extent_overflow"
      \/ c \in Unavailable /\ a.cols = b.rows
  BY <1>1, GemmVerdicts
<1>5. Source!Fault = IF a.cols # b.rows THEN "shape_mismatch" ELSE Extent(a.rows, b.cols)
  BY <1>2, FaultOfGemm
<1> HIDE DEF a, b
<1>6. CASE ReturnFailed(c)
  <2>1. c # "ok" /\ c \in Codes
    BY <1>1, <1>6, GemmVerdicts, UnavailableCodes DEF ReturnFailed
  <2>2. Extent(a.rows, b.cols) # "shape_mismatch" BY DEF Extent
  <2>3. \/ Source!Fault # "ok" /\ c = Source!Fault
        \/ Source!Fault # "shape_mismatch" /\ c \in Source!RealizationFault
    BY <1>4, <1>5, <2>1, <2>2, Realization
  <2> QED BY <1>2, <1>6, <2>1, <2>3, CallFails
<1>7. CASE UNCHANGED <<compiled, host, returned, at, values, status, taken, observations>>
  BY <1>7, Stutters DEF compiled, host
<1> QED BY <1>3, <1>6, <1>7

\* The leaf of a GEMM runs where the source's checks have passed.
LEMMA LeafFault ==
  ASSUME SessionInv, phase = "leaf"
  PROVE  /\ at \in 1 .. Len(program) /\ Live /\ Op.kind = "gemm" /\ at \notin plan.pairs
         /\ Source!Fault = "ok"
         /\ Env[Op.lhs] = values[Op.lhs] /\ Env[Op.rhs] = values[Op.rhs]
<1>1. /\ at \in 1 .. Len(program) /\ Live /\ Op.kind = "gemm" /\ at \notin plan.pairs
  <2>1. CompiledInv /\ Len(program) \in Nat BY Known DEF SessionInv
  <2>2. at \in 1 .. Len(program) + 1 /\ at <= Len(program) /\ Op.kind = "gemm" /\ at \notin plan.pairs
    BY DEF SessionInv, ControlInv
  <2> QED BY <2>1, <2>2 DEF Live
<1>2. Checked(values[Op.lhs], values[Op.rhs]) BY DEF SessionInv, LeafInv
<1> QED BY <1>1, <1>2, FaultOfGemm DEF Checked

\* Reenter is a failure of the realization.
LEMMA ReenterRefines ==
  ASSUME SessionInv, Reenter
  PROVE  Source!Next
<1>1. /\ UNCHANGED <<program, args, plan, memory, results, at, values, taken, observations>>
      /\ phase = "leaf" /\ status.code = "ok"
      /\ status' = Failed(status, "reentrant_use", activeFrontier)
  BY DEF Reenter, compiled, host
<1>2. activeFrontier = Frontier
  <2>1. (phase \in {"leaf", "pairleaf"}) = TRUE BY <1>1
  <2>2. active BY <2>1, Zenon DEF SessionInv, ControlInv
  <2> QED BY <2>2 DEF SessionInv, ControlInv
<1>3. at \in 1 .. Len(program) /\ Live /\ Op.kind = "gemm" /\ Source!Fault = "ok"
  BY <1>1, LeafFault
<1>4. Env' = Env BY <1>1, EnvSame
<1>5. Observed' = Observed BY <1>1 DEF Observed
<1>6. "reentrant_use" \in Codes /\ "reentrant_use" \in Source!RealizationFault
  BY Realization
<1>7. Source!DoFail BY <1>1, <1>2, <1>3, <1>4, <1>5, <1>6, FailsSource
<1> QED BY <1>7, Zenon DEF Source!Next

\* The product a leaf computed becomes the source's.
LEMMA SourceMultiplies ==
  ASSUME SessionInv, Live, at \in 1 .. Len(program), at \notin plan.pairs, ControlInv',
         Op.kind = "gemm", status.code = "ok", Source!Fault = "ok",
         NEW v, v = Product(Env[Op.lhs], Env[Op.rhs], Op.profile), IsMatrix(v),
         values' = [values EXCEPT ![at] = v],
         status' = Succeeded(status, Frontier), Continue,
         UNCHANGED <<compiled, host, taken, observations>>
  PROVE  Source!Next
<1>1. /\ UNCHANGED <<program, args, plan, memory, results, taken, observations>>
      /\ phase' = "run" /\ at' = Settle(program, at + 1)
  BY DEF Continue, compiled, host
<1>2. v.valid BY MatrixIsValid
<1>3. Env' = [Env EXCEPT ![at] = v] BY <1>1, <1>2, EnvMoves
<1>4. Observed' = Observed BY <1>1 DEF Observed
<1>5. /\ Source!AtKind("gemm")
      /\ status'.code = status.code /\ status'.failedFrontier = status.failedFrontier
      /\ status'.completed = status.completed /\ status'.publications = status.publications
  BY CallSucceeds, Zenon
<1>6. Source!Advance BY <1>1, SameProgram, Zenon DEF Source!Advance
<1>7. v = Source!Product(Env[Op.lhs], Env[Op.rhs], Op.profile) BY SameChecks, Zenon
<1>8. Source!Op = Op BY SourceFault
<1>9. Source!DoGemm
  BY <1>1, <1>3, <1>4, <1>5, <1>6, <1>7, <1>8, Zenon DEF Source!DoGemm, Env, Observed
<1> QED BY <1>9, Zenon DEF Source!Next

\* A leaf that fails, and a session that failed while it ran.
LEMMA LeafFails ==
  ASSUME SessionInv, Live, at \in 1 .. Len(program), Op.kind = "gemm", Source!Fault = "ok",
         NEW leaf \in LeafCodes, ReturnFailed(IssueVerdict(leaf))
  PROVE  Source!Next \/ UNCHANGED Source!vars
<1>1. CASE status.code # "ok"
  <2>1. status' = status BY <1>1 DEF ReturnFailed, Failed
  <2> QED BY <2>1, Stutters DEF ReturnFailed, compiled, host
<1>2. CASE status.code = "ok"
  <2>1. IssueVerdict(leaf) = leaf BY <1>2 DEF IssueVerdict
  <2>2. leaf # "ok" BY <2>1 DEF ReturnFailed
  <2>3. leaf \in Unavailable BY <2>2, Legalities DEF SessionInv
  <2>4. leaf \in Codes /\ leaf \in Source!RealizationFault BY <2>3, Realization
  <2>5. ReturnFailed(leaf) BY <2>1
  <2> QED BY <1>2, <2>4, <2>5, CallFails
<1> QED BY <1>1, <1>2

\* GemmReturn is the source's GEMM, its failure, or nothing in a session that has failed.
LEMMA GemmReturnRefines ==
  ASSUME SessionInv, ControlInv', GemmReturn
  PROVE  Source!Next \/ UNCHANGED Source!vars
<1>1. phase = "leaf" BY DEF GemmReturn
<1>2. /\ at \in 1 .. Len(program) /\ Live /\ Op.kind = "gemm" /\ at \notin plan.pairs
      /\ Source!Fault = "ok"
      /\ Env[Op.lhs] = values[Op.lhs] /\ Env[Op.rhs] = values[Op.rhs]
  BY <1>1, LeafFault
<1> DEFINE v == Product(values[Op.lhs], values[Op.rhs], Op.profile)
<1>3. PICK leaf \in LeafCodes :
        \/ ReturnFailed(IssueVerdict(leaf))
        \/ /\ IssueVerdict(leaf) = "ok"
           /\ values' = [values EXCEPT ![at] = v]
           /\ status' = Succeeded(status, Frontier) /\ Continue
           /\ UNCHANGED <<compiled, host, taken, observations>>
  BY Zenon DEF GemmReturn
<1>4. CASE ReturnFailed(IssueVerdict(leaf)) BY <1>2, <1>4, LeafFails
<1>5. CASE /\ IssueVerdict(leaf) = "ok"
           /\ values' = [values EXCEPT ![at] = v]
           /\ status' = Succeeded(status, Frontier) /\ Continue
           /\ UNCHANGED <<compiled, host, taken, observations>>
  <2>1. status.code = "ok" BY <1>5 DEF IssueVerdict
  <2>2. \A w \in {Op.lhs, Op.rhs} : IsMatrix(values[w]) BY <1>1, <1>2, GemmOperands
  <2>3. values[Op.lhs].rows \in Nat /\ values[Op.rhs].cols \in Nat BY <2>2 DEF IsMatrix
  <2>4. IsMatrix(v) BY <2>3, ProductIsMatrix
  <2>5. v = Product(Env[Op.lhs], Env[Op.rhs], Op.profile) BY <1>2, Zenon
  <2> HIDE DEF v
  <2> QED BY <1>2, <1>5, <2>1, <2>4, <2>5, SourceMultiplies
<1> HIDE DEF v
<1> QED BY <1>3, <1>4, <1>5

\* An operation has the frontier after that of the operation before it.
LEMMA NextFrontier ==
  ASSUME NEW prog, NEW i \in Nat, ~Marker(prog[i + 1])
  PROVE  FrontierOf(prog, i + 1) = FrontierOf(prog, i) + 1
<1> DEFINE Ops(n) == {j \in 1 .. n : ~Marker(prog[j])}
<1>1. IsFiniteSet(Ops(i))
  <2>1. IsFiniteSet(1 .. i) BY FS_Interval
  <2>2. Ops(i) \subseteq 1 .. i OBVIOUS
  <2> HIDE DEF Ops
  <2> QED BY <2>1, <2>2, FS_Subset
<1>2. Ops(i + 1) = Ops(i) \cup {i + 1} /\ i + 1 \notin Ops(i) OBVIOUS
<1>3. FrontierOf(prog, i) = Cardinality(Ops(i)) /\ FrontierOf(prog, i + 1) = Cardinality(Ops(i + 1))
  BY DEF FrontierOf
<1> HIDE DEF Ops
<1> QED BY <1>1, <1>2, <1>3, FS_AddElement

\* FusedFirst is the source's first GEMM, whose product nobody computed.
LEMMA FusedFirstRefines ==
  ASSUME SessionInv, FusedFirst
  PROVE  Source!Next
<1>1. AtOp("gemm") /\ at \in plan.pairs BY DEF FusedFirst
<1> DEFINE a == values[Op.lhs]
           b == values[Op.rhs]
           guards == PairFirstGuards(a, b, "strict_f32", FrontierOf(program, at + 1))
           own == IF "ok" \in guards
                  THEN guards \cup {"unsupported_fp_environment", "candidate_failure"}
                  ELSE guards
<1>2. \E code \in Outcomes(own) :
        \/ ReturnFailed(code)
        \/ /\ code = "ok"
           /\ status' = Succeeded(status, Frontier)
           /\ at' = at + 1
           /\ UNCHANGED <<compiled, host, values, taken, observations>>
  BY Zenon DEF FusedFirst
<1>3. /\ at \in 1 .. Len(program) /\ Live /\ phase = "run" /\ status.code = "ok" /\ Op.kind = "gemm"
  BY <1>1, Here
<1>4. /\ CompiledInv /\ WellFormed(program) /\ at + 1 \in 1 .. Len(program)
      /\ program[at + 1].kind = "gemm" /\ Len(program) \in Nat /\ Op.profile = "strict_f32"
  BY <1>1, Known, Pairs DEF SessionInv, Op
<1>5. a.valid /\ b.valid BY <1>3, GemmOperands
<1>6. PairLegality("strict_f32") \subseteq {"ok"} \cup Unavailable BY <1>4, Legalities
<1>7. FrontierOf(program, at + 1) = Frontier + 1
  <2>1. ~Marker(program[at + 1]) /\ at \in Nat BY <1>3, <1>4 DEF Marker
  <2> QED BY <2>1, NextFrontier DEF Frontier
<1>8. guards = GemmGuards(a, b, PairLegality("strict_f32")) BY <1>7 DEF PairFirstGuards
<1>9. Source!Fault = IF a.cols # b.rows THEN "shape_mismatch" ELSE Extent(a.rows, b.cols)
  BY <1>3, FaultOfGemm
<1> HIDE DEF a, b, guards
<1>10. \A c \in guards :
        \/ c = "ok" /\ Checked(a, b)
        \/ c = "shape_mismatch" /\ a.cols # b.rows
        \/ c = "extent_overflow" /\ a.cols = b.rows /\ Extent(a.rows, b.cols) = "extent_overflow"
        \/ c \in Unavailable /\ a.cols = b.rows
  BY <1>5, <1>6, <1>8, Verdicts
<1>11. \A c \in own :
        \/ c = "ok" /\ Checked(a, b)
        \/ c = "shape_mismatch" /\ a.cols # b.rows
        \/ c = "extent_overflow" /\ a.cols = b.rows /\ Extent(a.rows, b.cols) = "extent_overflow"
        \/ c \in Unavailable /\ a.cols = b.rows
  <2> SUFFICES ASSUME NEW c \in own, c \notin guards PROVE c \in Unavailable /\ a.cols = b.rows
    BY <1>10
  <2>1. "ok" \in guards /\ c \in {"unsupported_fp_environment", "candidate_failure"} OBVIOUS
  <2>2. Checked(a, b) BY <1>10, <2>1 DEF Unavailable
  <2> QED BY <2>1, <2>2 DEF Unavailable, Checked
<1> HIDE DEF own
<1>12. Outcomes(own) = own BY <1>1, Unrefused, Zenon
<1>13. PICK c \in own :
        \/ ReturnFailed(c)
        \/ /\ c = "ok"
           /\ status' = Succeeded(status, Frontier)
           /\ at' = at + 1
           /\ UNCHANGED <<compiled, host, values, taken, observations>>
  BY <1>2, <1>12, Zenon
<1>14. CASE ReturnFailed(c)
  <2>1. c # "ok" BY <1>14 DEF ReturnFailed
  <2>2. c \in Codes BY <1>11, <2>1, UnavailableCodes
  <2>3. Extent(a.rows, b.cols) # "shape_mismatch" BY DEF Extent
  <2>4. \/ Source!Fault # "ok" /\ c = Source!Fault
        \/ Source!Fault # "shape_mismatch" /\ c \in Source!RealizationFault
    BY <1>9, <1>11, <2>1, <2>3, Realization
  <2> QED BY <1>3, <1>14, <2>1, <2>2, <2>4, CallFails
<1>15. CASE /\ c = "ok"
            /\ status' = Succeeded(status, Frontier)
            /\ at' = at + 1
            /\ UNCHANGED <<compiled, host, values, taken, observations>>
  <2>1. UNCHANGED <<program, args, plan, memory, results, values, taken, observations>>
    BY <1>15 DEF compiled, host
  <2>2. Source!Fault = "ok"
    <3>1. Checked(a, b) BY <1>11, <1>15 DEF Unavailable
    <3> QED BY <1>9, <3>1 DEF Checked
  <2>3. Env[Op.lhs] = values[Op.lhs] /\ Env[Op.rhs] = values[Op.rhs] BY <1>3, FaultOfGemm
  <2>4. Env' = [Env EXCEPT ![at] = Product(values[Op.lhs], values[Op.rhs], "strict_f32")]
    BY <1>1, <1>3, <1>15, <2>1, EnvFirst
  <2>5. Env' = [Env EXCEPT ![at] = Source!Product(Env[Op.lhs], Env[Op.rhs], Op.profile)]
    <3>1. Source!Product(Env[Op.lhs], Env[Op.rhs], Op.profile)
            = Product(values[Op.lhs], values[Op.rhs], "strict_f32")
      BY <1>4, <2>3, SameChecks, Zenon
    <3> QED BY <2>4, <3>1, Zenon
  <2>6. Observed' = Observed BY <2>1 DEF Observed
  <2>7. /\ Source!AtKind("gemm")
        /\ status'.code = status.code /\ status'.failedFrontier = status.failedFrontier
        /\ status'.completed = status.completed /\ status'.publications = status.publications
    BY <1>3, <1>15, CallSucceeds, Zenon
  <2>8. Settle(program, at + 1) = at + 1
    <3>1. ~Marker(program[at + 1]) /\ at + 1 \in 1 .. Len(program) + 1
      BY <1>4 DEF Marker
    <3> QED BY <1>4, <3>1, SettleUnfold
  <2>9. Source!Advance BY <1>15, <2>8, SameProgram, Zenon DEF Source!Advance
  <2>10. Source!Op = Op BY SourceFault
  <2>11. Source!DoGemm
    BY <2>1, <2>2, <2>5, <2>6, <2>7, <2>9, <2>10, Zenon DEF Source!DoGemm, Env, Observed
  <2> QED BY <2>11, Zenon DEF Source!Next
<1> QED BY <1>13, <1>14, <1>15

\* FusedSecond fails the source or is none of its steps.
LEMMA FusedSecondRefines ==
  ASSUME SessionInv, FusedSecond
  PROVE  Source!Next \/ UNCHANGED Source!vars
<1>1. phase = "second" BY DEF FusedSecond
<1>2. at \in 1 .. Len(program) /\ Live /\ status.code = "ok" /\ Op.kind = "gemm"
  <2>1. at \in 1 .. Len(program) /\ Op.kind = "gemm" BY <1>1, InPair
  <2>2. Live BY <1>1 DEF Live
  <2> QED BY <1>1, <2>1, <2>2 DEF SessionInv, LedgerInv
<1>3. BeginCode(Frontier) = "ok" BY <1>1, <1>2, Begins
<1>4. Outcomes(PairSecondOutcomes) = PairSecondOutcomes BY <1>3, Zenon DEF Outcomes
<1>5. PICK c \in PairSecondOutcomes :
        \/ ReturnFailed(c)
        \/ UNCHANGED <<compiled, host, returned, at, values, status, taken, observations>>
  BY <1>4, Zenon DEF FusedSecond
<1> DEFINE a == values[Producer.lhs]
           b == values[Producer.rhs]
           d == values[Op.rhs]
<1>6. \/ c = "ok" /\ b.cols = d.rows /\ Extent(a.rows, d.cols) = "ok"
      \/ c = "shape_mismatch" /\ b.cols # d.rows
      \/ c = "extent_overflow" /\ b.cols = d.rows /\ Extent(a.rows, d.cols) = "extent_overflow"
      \/ c \in Unavailable /\ b.cols = d.rows
  BY <1>1, PairVerdicts
<1>7. Source!Fault = IF b.cols # d.rows THEN "shape_mismatch" ELSE Extent(a.rows, d.cols)
  BY <1>1, FaultInPair
<1> HIDE DEF a, b, d
<1>8. CASE ReturnFailed(c)
  <2>1. c # "ok" BY <1>8 DEF ReturnFailed
  <2>2. c \in Codes BY <1>6, <2>1, UnavailableCodes
  <2>3. Extent(a.rows, d.cols) # "shape_mismatch" BY DEF Extent
  <2>4. \/ Source!Fault # "ok" /\ c = Source!Fault
        \/ Source!Fault # "shape_mismatch" /\ c \in Source!RealizationFault
    BY <1>6, <1>7, <2>1, <2>3, Realization
  <2> QED BY <1>2, <1>8, <2>1, <2>2, <2>4, CallFails
<1>9. CASE UNCHANGED <<compiled, host, returned, at, values, status, taken, observations>>
  BY <1>9, Stutters DEF compiled, host
<1> QED BY <1>5, <1>8, <1>9

\* FusedReturn is the source's second GEMM.
LEMMA FusedReturnRefines ==
  ASSUME SessionInv, ControlInv', FusedReturn
  PROVE  Source!Next \/ UNCHANGED Source!vars
<1>1. phase = "pairleaf" BY DEF FusedReturn
<1>2. /\ at \in 1 .. Len(program) /\ Live /\ Op.kind = "gemm" /\ at \notin plan.pairs
      /\ Op.profile = "strict_f32"
      /\ \A v \in {Producer.lhs, Producer.rhs, Op.rhs} : IsMatrix(values[v])
  BY <1>1, InPair DEF Live
<1> DEFINE a == values[Producer.lhs]
           b == values[Producer.rhs]
           d == values[Op.rhs]
           c == Product(a, b, "strict_f32")
           v == Combined(a, b, d)
<1>3. /\ Env[Op.lhs] = c /\ Env[Op.rhs] = d
      /\ Source!Fault = IF b.cols # d.rows THEN "shape_mismatch" ELSE Extent(a.rows, d.cols)
  BY <1>1, FaultInPair
<1>4. b.cols = d.rows /\ Extent(a.rows, d.cols) = "ok" BY <1>1 DEF SessionInv, LeafInv
<1>5. PICK leaf \in LeafCodes :
        \/ ReturnFailed(IssueVerdict(leaf))
        \/ /\ IssueVerdict(leaf) = "ok"
           /\ values' = [values EXCEPT ![at] = v]
           /\ status' = Succeeded(status, Frontier) /\ Continue
           /\ UNCHANGED <<compiled, host, taken, observations>>
  BY Zenon DEF FusedReturn
<1>6. a.rows \in Nat /\ b.cols \in Nat /\ d.cols \in Nat BY <1>2 DEF IsMatrix
<1>7. Source!Fault = "ok" BY <1>3, <1>4
<1>8. v = Product(c, d, "strict_f32") BY Zenon DEF Combined
<1> HIDE DEF a, b, d, v
<1>9. c.rows \in Nat BY <1>6, ProductIsMatrix
<1> HIDE DEF c
<1>10. IsMatrix(v) BY <1>6, <1>8, <1>9, ProductIsMatrix
<1>11. v = Product(Env[Op.lhs], Env[Op.rhs], Op.profile) BY <1>2, <1>3, <1>8, Zenon
<1>12. CASE ReturnFailed(IssueVerdict(leaf)) BY <1>2, <1>7, <1>12, LeafFails
<1>13. CASE /\ IssueVerdict(leaf) = "ok"
            /\ values' = [values EXCEPT ![at] = v]
            /\ status' = Succeeded(status, Frontier) /\ Continue
            /\ UNCHANGED <<compiled, host, taken, observations>>
  <2>1. status.code = "ok" BY <1>13 DEF IssueVerdict
  <2> QED BY <1>2, <1>7, <1>10, <1>11, <1>13, <2>1, SourceMultiplies
<1> QED BY <1>5, <1>12, <1>13

\* PublishCall is a publication of the source, or its failure.
LEMMA PublishRefines ==
  ASSUME SessionInv, ControlInv', PublishCall
  PROVE  Source!Next
<1>1. AtOp("publish") BY DEF PublishCall
<1> DEFINE fault == PublishFault(values[Op.lhs], Views[Op.res])
<1>2. /\ at \in 1 .. Len(program) /\ Live /\ phase = "run" /\ status.code = "ok"
      /\ Op.kind = "publish" /\ at \notin plan.pairs
  <2>1. Op.kind = "publish" /\ (Op.kind # "gemm" => at \notin plan.pairs) BY <1>1, Here
  <2>2. Op.kind # "gemm" BY <2>1
  <2> QED BY <1>1, <2>1, <2>2, Here
<1>3. Outcomes({fault}) = {fault}
  <2> HIDE DEF fault
  <2> QED BY <1>1, Unrefused, Zenon
<1>4. \/ ReturnFailed(fault)
      \/ /\ fault = "ok"
         /\ memory' = Store(memory, Views[Op.res], values[Op.lhs])
         /\ status' = Retired("publications")
         /\ Continue
         /\ UNCHANGED <<compiled, results, values, taken, observations>>
  BY <1>3, Zenon DEF PublishCall
<1>5. Env[Op.lhs] = values[Op.lhs]
  <2>1. Op.lhs \in Operands(Op) BY <1>2 DEF Operands
  <2> QED BY <1>2, <2>1, EnvOperands
<1>6. fault \in Codes /\ Source!Fault = fault BY <1>2, <1>5, Answers, SourceFault
<1>7. CASE ReturnFailed(fault)
  <2>1. fault # "ok" BY <1>7 DEF ReturnFailed
  <2> HIDE DEF fault
  <2> QED BY <1>2, <1>6, <1>7, <2>1, CallFails
<1>8. CASE /\ fault = "ok"
           /\ memory' = Store(memory, Views[Op.res], values[Op.lhs])
           /\ status' = Retired("publications")
           /\ Continue
           /\ UNCHANGED <<compiled, results, values, taken, observations>>
  <2> HIDE DEF fault
  <2>1. /\ UNCHANGED <<program, args, plan, results, values, taken, observations>>
        /\ phase' = "run" /\ at' = Settle(program, at + 1)
    BY <1>8 DEF Continue, compiled
  <2>2. Env' = Env BY <1>2, <2>1, EnvStays
  <2>3. Observed' = Observed BY <2>1 DEF Observed
  <2>4. /\ Source!AtKind("publish")
        /\ status'.code = status.code /\ status'.failedFrontier = status.failedFrontier
        /\ status'.completed = status.completed /\ status'.publications = status.publications + 1
    BY <1>2, <1>8, CallSucceeds, Zenon
  <2>5. Source!Advance BY <2>1, SameProgram, Zenon DEF Source!Advance
  <2>6. memory' = Source!Store(memory, Views[Op.res], Env[Op.lhs])
    BY <1>5, <1>8, SameChecks, Zenon
  <2>7. Source!Op = Op BY SourceFault
  <2>8. Source!Fault = "ok" BY <1>6, <1>8
  <2>9. Source!DoPublish
    BY <2>1, <2>2, <2>3, <2>4, <2>5, <2>6, <2>7, <2>8, Zenon DEF Source!DoPublish, Env, Observed
  <2> QED BY <2>9, Zenon DEF Source!Next
<1> HIDE DEF fault
<1> QED BY <1>4, <1>7, <1>8

\* ObserveCall is an observation of the source, or its failure.
LEMMA ObserveRefines ==
  ASSUME SessionInv, ControlInv', ObserveCall
  PROVE  Source!Next
<1>1. AtOp("observe") BY DEF ObserveCall
<1> DEFINE fault == Validate(Views[Op.res], FALSE)
           own == IF fault # "ok" THEN {fault} ELSE {"ok", "allocation_failure"}
           seen == [frontier |-> Frontier, value |-> Contents(memory, Views[Op.res])]
<1>2. own \subseteq Codes BY Answers, UnavailableCodes DEF Unavailable
<1>3. \E code \in Outcomes(own) :
        \/ ReturnFailed(code)
        \/ /\ code = "ok"
           /\ observations' = Append(observations, seen)
           /\ status' = Retired("observations")
           /\ Continue
           /\ UNCHANGED <<compiled, host, values, taken>>
  BY Zenon DEF ObserveCall
<1>4. /\ at \in 1 .. Len(program) /\ Live /\ phase = "run" /\ status.code = "ok"
      /\ Op.kind = "observe" /\ at \notin plan.pairs
  <2>1. Op.kind = "observe" /\ (Op.kind # "gemm" => at \notin plan.pairs) BY <1>1, Here
  <2>2. Op.kind # "gemm" BY <2>1
  <2> QED BY <1>1, <2>1, <2>2, Here
<1>5. Source!Fault = fault BY <1>4, SourceFault
<1>6. \A c \in own : \/ fault # "ok" /\ c = fault
                     \/ fault = "ok" /\ c \in {"ok", "allocation_failure"}
  OBVIOUS
<1> HIDE DEF own, fault, seen
<1>7. Outcomes(own) = own BY <1>1, Unrefused, Zenon
<1>8. PICK c \in own :
        \/ ReturnFailed(c)
        \/ /\ c = "ok"
           /\ observations' = Append(observations, seen)
           /\ status' = Retired("observations")
           /\ Continue
           /\ UNCHANGED <<compiled, host, values, taken>>
  BY <1>3, <1>7, Zenon
<1>9. CASE ReturnFailed(c)
  <2>1. c # "ok" /\ c \in Codes BY <1>2, <1>9 DEF ReturnFailed
  <2> QED BY <1>4, <1>5, <1>6, <1>9, <2>1, CallFails
<1>10. CASE /\ c = "ok"
            /\ observations' = Append(observations, seen)
            /\ status' = Retired("observations")
            /\ Continue
            /\ UNCHANGED <<compiled, host, values, taken>>
  <2>1. /\ UNCHANGED <<program, args, plan, memory, results, values, taken>>
        /\ phase' = "run" /\ at' = Settle(program, at + 1)
    BY <1>10 DEF Continue, compiled, host
  <2>2. Env' = Env BY <1>4, <2>1, EnvStays
  <2>3. ~taken BY <1>4 DEF SessionInv, LedgerInv
  <2>4. Observed = observations /\ Observed' = observations' BY <2>1, <2>3 DEF Observed
  <2>5. /\ Source!AtKind("observe")
        /\ status'.code = status.code /\ status'.failedFrontier = status.failedFrontier
        /\ status'.completed = status.completed /\ status'.publications = status.publications
    BY <1>4, <1>10, CallSucceeds, Zenon
  <2>6. Source!Advance BY <2>1, SameProgram, Zenon DEF Source!Advance
  <2>7. seen = [frontier |-> Source!FrontierOf(program, at),
                value |-> Source!Contents(memory, Views[Op.res])]
    BY SameProgram, SameChecks, Zenon DEF seen, Frontier
  <2>8. Source!Op = Op BY SourceFault
  <2>9. Source!Fault = "ok" BY <1>5, <1>6, <1>10
  <2>10. Observed' = Append(Observed, [frontier |-> Source!FrontierOf(program, at),
                                       value |-> Source!Contents(memory, Views[Op.res])])
    BY <1>10, <2>4, <2>7, Zenon
  <2>11. Source!DoObserve
    BY <2>1, <2>2, <2>5, <2>6, <2>8, <2>9, <2>10, Zenon DEF Source!DoObserve, Env, Observed
  <2> QED BY <2>11, Zenon DEF Source!Next
<1> QED BY <1>8, <1>9, <1>10

\* Branch goes where the source goes.
LEMMA BranchRefines ==
  ASSUME SessionInv, ControlInv', Branch
  PROVE  Source!Next
<1>1. AtOp("if") BY DEF Branch
<1>2. /\ at \in 1 .. Len(program) /\ Live /\ phase = "run" /\ status.code = "ok"
      /\ Op.kind = "if" /\ at \notin plan.pairs
  <2>1. Op.kind = "if" /\ (Op.kind # "gemm" => at \notin plan.pairs) BY <1>1, Here
  <2>2. Op.kind # "gemm" BY <2>1
  <2> QED BY <1>1, <2>1, <2>2, Here
<1>3. /\ UNCHANGED <<program, args, plan, memory, results, phase, values, status, taken,
                     observations>>
      /\ at' = Settle(program,
             IF Evaluate(Op.lhs, args, values) = Evaluate(Op.rhs, args, values)
             THEN at + 1 ELSE Op.elseAt + 1)
  BY DEF Branch, compiled, host, session
<1>4. Env' = Env BY <1>2, <1>3, EnvStays
<1>5. Observed' = Observed BY <1>3 DEF Observed
<1>6. Op.lhs \in Dimensions(Op) /\ Op.rhs \in Dimensions(Op) BY <1>2 DEF Dimensions
<1>7. /\ Evaluate(Op.lhs, args, Env) = Evaluate(Op.lhs, args, values)
      /\ Evaluate(Op.rhs, args, Env) = Evaluate(Op.rhs, args, values)
  BY <1>2, <1>6, EnvDimensions
<1>8. ~status.completed BY <1>2 DEF SessionInv, LedgerInv
<1>9. Source!Running BY <1>2, <1>8, Zenon DEF Source!Running
<1>10. Source!Op = Op BY SourceFault
<1>11. at <= Len(program) BY <1>1 DEF AtOp
<1>12. Source!AtKind("if") BY <1>2, <1>9, <1>10, <1>11, Zenon DEF Source!AtKind
<1>13. /\ \A d : Source!Evaluate(d, args, Env) = Evaluate(d, args, Env)
       /\ \A i : Source!Settle(program, i) = Settle(program, i)
  BY SameChecks, SameProgram, Zenon
<1>14. at' = Source!Settle(program,
               IF Source!Evaluate(Op.lhs, args, Env) = Source!Evaluate(Op.rhs, args, Env)
               THEN at + 1 ELSE Op.elseAt + 1)
  <2>1. /\ Source!Evaluate(Op.lhs, args, Env) = Evaluate(Op.lhs, args, values)
        /\ Source!Evaluate(Op.rhs, args, Env) = Evaluate(Op.rhs, args, values)
    BY <1>7, <1>13, Zenon
  <2> DEFINE l == Evaluate(Op.lhs, args, values)
             r == Evaluate(Op.rhs, args, values)
             t == IF l = r THEN at + 1 ELSE Op.elseAt + 1
  <2>2. at' = Settle(program, t) BY <1>3
  <2>3. t = IF Source!Evaluate(Op.lhs, args, Env) = Source!Evaluate(Op.rhs, args, Env)
            THEN at + 1 ELSE Op.elseAt + 1
    <3> HIDE DEF Env
    <3> QED BY <2>1
  <2> HIDE DEF t
  <2>4. Source!Settle(program, t) = Settle(program, t) BY <1>13
  <2>5. at' = Source!Settle(program, t) BY <2>2, <2>4
  <2> QED BY <2>3, <2>5, Zenon
<1>15. Source!DoShapeIf
  BY <1>3, <1>4, <1>5, <1>10, <1>12, <1>14, Zenon DEF Source!DoShapeIf, Env, Observed
<1> QED BY <1>15, Zenon DEF Source!Next

\* CompleteCall completes the source.
LEMMA CompleteRefines ==
  ASSUME SessionInv, CompleteCall
  PROVE  Source!Next
<1>1. /\ phase = "run" /\ at = Len(program) + 1
      /\ status' = Succeeded([status EXCEPT !.completed = TRUE], Completion(program))
      /\ UNCHANGED <<program, args, plan, memory, results, at, values, taken, observations>>
  BY DEF CompleteCall, compiled, host
<1>2. Live BY <1>1 DEF Live
<1>3. IsLedger(status) /\ status.code = "ok" /\ ~status.completed
  BY <1>1, <1>2 DEF SessionInv, LedgerInv
<1>4. status' = [status EXCEPT !.completed = TRUE, !.completedFrontier = Completion(program)]
  BY <1>1, <1>3 DEF Succeeded, IsLedger
<1>5. /\ status'.code = status.code /\ status'.failedFrontier = status.failedFrontier
      /\ status'.completed = TRUE /\ status'.publications = status.publications
  BY <1>3, <1>4 DEF IsLedger
<1>6. Env' = Env BY <1>1, EnvSame
<1>7. Observed' = Observed BY <1>1 DEF Observed
<1>8. Source!Running BY <1>3, Zenon DEF Source!Running
<1>9. Source!DoComplete
  BY <1>1, <1>5, <1>6, <1>7, <1>8, Zenon DEF Source!DoComplete, Env, Observed
<1> QED BY <1>9, Zenon DEF Source!Next

\* Before the first call the source knows the values of the session.
LEMMA NoneDeferred ==
  ASSUME NEW prog, WellFormed(prog), NEW r, NEW s, s = Settle(prog, 1),
         NEW vs, vs = [i \in 1 .. Len(prog) |-> NoValue]
  PROVE  [i \in 1 .. Len(prog) |->
            IF i \in FusedPairs(prog, r) /\ (s = i + 1 \/ vs[i + 1].valid)
            THEN Product(vs[prog[i].lhs], vs[prog[i].rhs], "strict_f32") ELSE vs[i]] = vs
<1>1. s - 1 \notin FusedPairs(prog, r) BY Opening
<1>2. Len(prog) \in Nat BY Wellformed
<1>3. ASSUME NEW i \in 1 .. Len(prog), i \in FusedPairs(prog, r)
      PROVE  s # i + 1 /\ ~vs[i + 1].valid
  <2>1. i + 1 \in 1 .. Len(prog) BY <1>2, <1>3, PairsApart DEF Eligible
  <2>2. vs[i + 1] = NoValue BY <2>1
  <2>3. ~vs[i + 1].valid BY <2>2 DEF NoValue
  <2>4. s # i + 1
    <3> SUFFICES ASSUME s = i + 1 PROVE FALSE OBVIOUS
    <3>1. s - 1 = i BY <2>1
    <3> QED BY <1>1, <1>3, <3>1
  <2> QED BY <2>3, <2>4
<1> QED BY <1>3

SourceInv ==
  phase = "source" => at = Settle(program, 1) /\ values = [i \in 1 .. Len(program) |-> NoValue]

\* Before the region is compiled nothing has run.
LEMMA SourceKept ==
  ASSUME SourceInv, [Next]_vars
  PROVE  SourceInv'
<1>1. CASE UNCHANGED vars BY <1>1 DEF SourceInv, vars, compiled
<1>2. CASE Next
  <2> SUFFICES phase' # "source" BY DEF SourceInv
  <2>1. CASE Compile \/ Enter \/ TakeResult BY <2>1 DEF Compile, Enter, TakeResult
  <2>2. CASE ReadCall \/ ReadForwardedCall
    BY <2>2 DEF ReadCall, ReadForwardedCall, ReturnFailed, Continue
  <2>3. CASE GemmEnter \/ Reenter \/ GemmReturn
    BY <2>3 DEF GemmEnter, Reenter, GemmReturn, ReturnFailed, Continue
  <2>4. CASE FusedFirst \/ FusedSecond \/ FusedReturn
    BY <2>4 DEF FusedFirst, FusedSecond, FusedReturn, ReturnFailed, Continue
  <2>5. CASE PublishCall \/ ObserveCall
    BY <2>5 DEF PublishCall, ObserveCall, ReturnFailed, Continue
  <2>6. CASE Branch \/ CompleteCall BY <2>6 DEF Branch, CompleteCall, AtOp
  <2> QED BY <1>2, <2>1, <2>2, <2>3, <2>4, <2>5, <2>6 DEF Next
<1> QED BY <1>1, <1>2

\* Compile: no plan changes what the source knows before the first call.
LEMMA CompileRefines ==
  ASSUME SessionInv, SourceInv, Compile
  PROVE  UNCHANGED Source!vars
<1>1. /\ phase = "source"
      /\ UNCHANGED <<program, args, memory, results, at, values, status, taken, observations>>
      /\ plan' = Plan(program, optimization) \/ plan' = plan
  BY DEF Compile, host, session
<1>2. WellFormed(program) BY Known DEF SessionInv
<1>3. at = Settle(program, 1) /\ values = [i \in 1 .. Len(program) |-> NoValue]
  BY <1>1 DEF SourceInv
<1>4. \E r : plan.pairs = FusedPairs(program, r)
  BY Zenon DEF SessionInv, CompiledInv, Plan
<1>5. \E r : plan'.pairs = FusedPairs(program, r)
  <2>1. Plan(program, optimization).pairs = FusedPairs(program, optimization) BY DEF Plan
  <2> QED BY <1>1, <1>4, <2>1, Zenon
<1> DEFINE E(pairs) == [i \in 1 .. Len(program) |->
            IF i \in pairs /\ (at = i + 1 \/ values[i + 1].valid)
            THEN Product(values[program[i].lhs], values[program[i].rhs], "strict_f32")
            ELSE values[i]]
<1>6. \A r : E(FusedPairs(program, r)) = values BY <1>2, <1>3, NoneDeferred
<1>7. Env = E(plan.pairs) BY Zenon DEF Env, Deferred
<1>8. Env' = E(plan'.pairs)
  <2>1. Env' = [i \in 1 .. Len(program') |->
                  IF i \in plan'.pairs /\ (at' = i + 1 \/ values'[i + 1].valid)
                  THEN Product(values'[program'[i].lhs], values'[program'[i].rhs], "strict_f32")
                  ELSE values'[i]]
    BY Zenon DEF Env, Deferred
  <2> QED BY <1>1, <2>1
<1> HIDE DEF E
<1>9. Env' = Env BY <1>4, <1>5, <1>6, <1>7, <1>8, Zenon
<1>10. Observed' = Observed BY <1>1 DEF Observed
<1> QED BY <1>1, <1>9, <1>10, SourceVars

\* Enter: a pristine session is where the source starts.
LEMMA EnterRefines ==
  ASSUME SessionInv, Enter
  PROVE  UNCHANGED Source!vars
<1>1. /\ phase = "idle"
      /\ UNCHANGED <<program, args, plan, memory, results, status, taken, observations>>
  BY DEF Enter, compiled, session
<1>2. UNCHANGED <<at, values>>
  <2>1. CASE status.code = "ok" /\ Pristine
    <3>1. ~Live BY <1>1 DEF Live
    <3>2. ~status.completed BY <2>1 DEF Pristine
    <3>3. at = Settle(program, 1) /\ values = [i \in 1 .. Len(program) |-> NoValue]
      BY <2>1, <3>1, <3>2 DEF SessionInv, UntouchedInv
    <3>4. at' = Settle(program, 1) /\ values' = [i \in 1 .. Len(program) |-> NoValue]
      BY <2>1 DEF Enter
    <3> QED BY <3>3, <3>4
  <2>2. CASE ~(status.code = "ok" /\ Pristine) BY <2>2 DEF Enter
  <2> QED BY <2>1, <2>2
<1> QED BY <1>1, <1>2, Stutters

\* TakeResult: the observations stay the source's; an unused session is abandoned.
LEMMA TakeRefines ==
  ASSUME SessionInv, TakeResult
  PROVE  Source!Next \/ UNCHANGED Source!vars
<1>1. /\ phase = "idle" /\ UNCHANGED <<program, args, plan, memory, at, values>>
  BY DEF TakeResult, compiled
<1>2. /\ IsSequence(results) /\ IsSequence(observations)
      /\ taken <=> Len(results) # 0
  BY Zenon DEF SessionInv, HandedInv
<1>3. Env' = Env BY <1>1, EnvSame
<1>4. CASE taken
  <2>1. /\ UNCHANGED <<status, taken, observations>> /\ \E e : results' = Append(results, e)
    BY <1>4 DEF TakeResult
  <2>2. results'[1] = results[1]
    <3>1. PICK e : results' = Append(results, e) BY <2>1
    <3>2. Len(results) \in Nat /\ \A i \in 1 .. Len(results) : results'[i] = results[i]
      BY <1>2, <3>1, Appending
    <3> QED BY <1>2, <1>4, <3>2
  <2>3. Observed' = Observed BY <1>4, <2>1, <2>2 DEF Observed
  <2> QED BY <1>1, <1>3, <2>1, <2>3, SourceVars
<1>5. CASE ~taken
  <2>1. /\ status' = IF status.code = "ok" /\ ~status.completed
                     THEN Failed(status, "invalid_frontier", 0) ELSE status
        /\ taken' = TRUE
        /\ \E e : results' = Append(results, e) /\ e.observations = observations
    <3>1. \A c : [code |-> c, observations |-> observations].observations = observations
      OBVIOUS
    <3> QED BY <1>5, <3>1 DEF TakeResult
  <2>2. results'[1].observations = observations
    <3>1. PICK e : results' = Append(results, e) /\ e.observations = observations BY <2>1
    <3>2. Len(results) = 0 BY <1>2, <1>5
    <3>3. results'[Len(results) + 1] = e BY <1>2, <3>1, Appending
    <3>4. results'[1] = e BY <3>2, <3>3
    <3> QED BY <3>1, <3>4
  <2>3. Observed' = Observed BY <1>5, <2>1, <2>2 DEF Observed
  <2>4. CASE status.code = "ok" /\ ~status.completed
    <3>1. IsLedger(status) BY DEF SessionInv, LedgerInv
    <3>2. status' = [status EXCEPT !.code = "invalid_frontier", !.failedFrontier = 0]
      BY <2>1, <2>4 DEF Failed
    <3>3. /\ status'.code = "invalid_frontier" /\ status'.failedFrontier = 0
          /\ status'.publications = status.publications /\ status'.completed = status.completed
      BY <3>1, <3>2 DEF IsLedger
    <3>4. ~Live BY <1>1 DEF Live
    <3>5. at = Settle(program, 1) /\ memory = InitialMemory
      BY <2>4, <3>4 DEF SessionInv, UntouchedInv
    <3>6. at = Source!Settle(program, 1) /\ memory = Source!InitialMemory
      BY <3>5, SameProgram, SameChecks, Zenon
    <3>7. Source!Running BY <2>4, Zenon DEF Source!Running
    <3>8. Source!DoAbandon
      BY <1>1, <1>3, <2>3, <3>3, <3>6, <3>7, Zenon DEF Source!DoAbandon, Env, Observed
    <3> QED BY <3>8, Zenon DEF Source!Next
  <2>5. CASE ~(status.code = "ok" /\ ~status.completed)
    <3>1. status' = status BY <2>1, <2>5
    <3> QED BY <1>1, <1>3, <2>3, <3>1, SourceVars
  <2> QED BY <2>4, <2>5
<1> QED BY <1>4, <1>5 DEF SessionInv, CompiledInv

\* A region starts as its source does.
LEMMA StartsAsSource ==
  ASSUME Init
  PROVE  Source!Starts(program, args) /\ SourceInv
<1>1. SessionInv BY Inits
<1>2. WellFormed(program) BY <1>1, Known DEF SessionInv
<1>3. /\ at = Settle(program, 1) /\ values = [i \in 1 .. Len(program) |-> NoValue]
      /\ plan = Plan(program, "none") /\ memory = InitialMemory /\ status = FreshStatus
      /\ taken = FALSE /\ observations = <<>>
  BY DEF Init
<1>4. Env = values
  <2>1. plan.pairs = FusedPairs(program, "none") BY <1>3 DEF Plan
  <2>2. Env = [i \in 1 .. Len(program) |->
            IF i \in FusedPairs(program, "none") /\ (at = i + 1 \/ values[i + 1].valid)
            THEN Product(values[program[i].lhs], values[program[i].rhs], "strict_f32")
            ELSE values[i]]
    BY <2>1, Zenon DEF Env, Deferred
  <2> HIDE DEF Env
  <2>3. \A r : [i \in 1 .. Len(program) |->
            IF i \in FusedPairs(program, r) /\ (at = i + 1 \/ values[i + 1].valid)
            THEN Product(values[program[i].lhs], values[program[i].rhs], "strict_f32")
            ELSE values[i]] = values
    BY <1>2, <1>3, NoneDeferred
  <2> QED BY <2>2, <2>3, Zenon
<1>5. Observed = <<>> BY <1>3 DEF Observed
<1>6. /\ status.code = "ok" /\ status.failedFrontier = 0 /\ status.publications = 0
      /\ status.completed = FALSE
  BY <1>3 DEF FreshStatus
<1>7. /\ at = Source!Settle(program, 1) /\ memory = Source!InitialMemory
      /\ Env = [i \in 1 .. Len(program) |-> Source!NoValue]
  <2>1. Source!NoValue = NoValue /\ Source!InitialMemory = InitialMemory
    BY SameChecks, Zenon
  <2>2. Source!Settle(program, 1) = Settle(program, 1) BY SameProgram, Zenon
  <2> QED BY <1>3, <1>4, <2>1, <2>2
<1>8. Source!Starts(program, args)
  BY <1>5, <1>6, <1>7, Zenon DEF Source!Starts, Env, Observed
<1> QED BY <1>3, <1>8 DEF SourceInv

\* Every step of a session is a step of the source, or none.
LEMMA Refines ==
  ASSUME SessionInv, SessionInv', SourceInv, [Next]_vars
  PROVE  [Source!Next]_(Source!vars)
<1>1. ControlInv' BY DEF SessionInv
<1>2. CASE Compile \/ Enter \/ TakeResult
  BY <1>2, CompileRefines, EnterRefines, TakeRefines, Zenon
<1>3. CASE ReadCall \/ ReadForwardedCall BY <1>1, <1>3, ReadRefines, ForwardRefines, Zenon
<1>4. CASE GemmEnter \/ Reenter \/ GemmReturn
  BY <1>1, <1>4, GemmEnterRefines, ReenterRefines, GemmReturnRefines, Zenon
<1>5. CASE FusedFirst \/ FusedSecond \/ FusedReturn
  BY <1>1, <1>5, FusedFirstRefines, FusedSecondRefines, FusedReturnRefines, Zenon
<1>6. CASE PublishCall \/ ObserveCall BY <1>1, <1>6, PublishRefines, ObserveRefines, Zenon
<1>7. CASE Branch \/ CompleteCall BY <1>1, <1>7, BranchRefines, CompleteRefines, Zenon
<1>8. CASE UNCHANGED vars
  <2>1. UNCHANGED <<program, args, plan, memory, results, at, values, taken, observations, status>>
    BY <1>8 DEF vars, compiled, host, session
  <2> QED BY <2>1, Stutters
<1> QED BY <1>2, <1>3, <1>4, <1>5, <1>6, <1>7, <1>8, Zenon DEF Next

\* A compiled region runs as its source does, whatever plan was derived for it.
THEOREM SessionImplementsSource == Spec => ImplementsSource
<1>1. Init => SessionInv /\ SourceInv /\ Source!Starts(program, args)
  BY Inits, StartsAsSource
<1>2. SessionInv /\ SourceInv /\ [Next]_vars => SessionInv' /\ SourceInv'
  BY Inductive, SourceKept
<1>3. SessionInv /\ SessionInv' /\ SourceInv /\ [Next]_vars => [Source!Next]_(Source!vars)
  BY Refines
<1> QED BY <1>1, <1>2, <1>3, PTL DEF Spec, ImplementsSource, Source!Steps
=============================================================================
