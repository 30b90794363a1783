------------------------- MODULE CpuParallelGemmProofs -------------------------
(***************************************************************************)
(* The parallel GEMM, proved for every size of pool, number of callers,    *)
(* problem and tile sizes: nothing is written before the barrier of the    *)
(* crew, B is read only when it is whole, and what a call returns is what  *)
(* it did.  On the way stands the arithmetic of the task plan: a grid      *)
(* never has more tasks than threads, and its rectangles cover the output. *)
(***************************************************************************)
EXTENDS CpuParallelGemm, TLAPS, WellFoundedInduction

-----------------------------------------------------------------------------
(* The inductive invariant                                                 *)

Packing == {"prepare", "publish"}
Working == Packing \cup {"spin", "tasks"}

\* Every request that gets past the preconditions, and the one in its place
\* when none does, has a plan whose tasks fit its threads and the pool.
PlanInv ==
  \A c \in Callers :
    /\ ValidProblem(request[c].problem)
    /\ grid[c].rows > 0 /\ grid[c].columns > 0
    /\ Tasks(grid[c]) <= request[c].threads /\ request[c].threads <= WorkerCount

\* The owner of the mutex is the caller that waits for its crew.
OwnerInv == \A c \in Callers : owner = c <=> cpc[c] = "await"

\* Whoever is busy works for the owner, and has not finished.
BusyInv ==
  \A w \in Worker : wpc[w] # "idle" =>
    owner \in Callers /\ w \in Crew(owner) /\ w \notin finished

\* Nobody works before all of the crew has arrived, or after a rejection.
PastBarrierInv ==
  /\ \A w \in Worker :
       /\ wpc[w] = "preflight" => w \notin arrived
       /\ wpc[w] \in Working => Crew(owner) \subseteq arrived /\ ~rejected[owner]
  /\ \A c \in Callers :
       /\ owner = c /\ rejected[c] => failed # {}
       /\ owner = c /\ image[c] # "untouched" => Crew(c) \subseteq arrived /\ ~rejected[c]

\* Only worker zero packs, once; the flag follows the image.
PackInv ==
  /\ \A w \in Worker :
       /\ wpc[w] \in Packing => w = 0
       /\ wpc[w] \in {"preflight", "barrier"} \cup Packing /\ w = 0 => ~packFailed[owner]
       /\ wpc[w] \in {"publish", "tasks"} => image[owner] = "complete"
  /\ \A c \in Callers :
       /\ published[c] => image[c] = "complete"
       /\ packFailed[c] => image[c] = "untouched"
       /\ \A t \in Worker : runs[c][t] > 0 => image[c] = "complete"

\* A call that has not submitted has left no trace.
FreshInv ==
  \A c \in Callers : cpc[c] = "submit" =>
    /\ image[c] = "untouched" /\ ~published[c] /\ ~packFailed[c] /\ ~rejected[c]
    /\ \A t \in Worker : runs[c][t] = 0

\* A plan has no more tasks than active workers, so worker w runs task w and
\* no other.
TaskInv ==
  \A w \in Worker :
    /\ wpc[w] \in {"preflight", "barrier", "spin"} \cup Packing => runs[owner][w] = 0
    /\ wpc[w] = "tasks" =>
         \/ task[w] = w /\ runs[owner][w] = 0
         \/ task[w] = w + ActiveOf(owner) /\ runs[owner][w] = 1
    /\ /\ owner \in Callers /\ failed = {}
       /\ w \in Crew(owner) /\ (wpc[w] = "finish" \/ w \in finished)
       => runs[owner][w] = 1

\* What is known of a call when it is about to return, and afterwards.
ReturnInv ==
  \A c \in Callers :
    /\ cpc[c] = "report" \/ (cpc[c] = "idle" /\ ret[c] = "success") =>
         \A t \in Crew(c) : runs[c][t] = 1
    /\ cpc[c] = "report" =>
         ~rejected[c] /\ 0 < ownNumber[c] /\ ownNumber[c] <= completed
    /\ cpc[c] = "idle" /\ ret[c] \notin {"success", "worker_task_failed"} =>
         image[c] = "untouched"
    /\ cpc[c] = "idle" /\ ret[c] = "success" =>
         0 < ownNumber[c] /\ ownNumber[c] <= submissionReport[c]
    /\ cpc[c] = "idle" /\ rejected[c] => ret[c] = "unsupported_fp_environment"

GemmInv ==
  /\ TypeOK /\ PlanInv /\ OwnerInv /\ BusyInv /\ PastBarrierInv /\ PackInv
  /\ FreshInv /\ TaskInv /\ ReturnInv

-----------------------------------------------------------------------------
(* The arithmetic of the plan                                              *)

\* Division with remainder.
LEMMA Division ==
  ASSUME NEW a \in Nat \ {0}, NEW t \in Nat
  PROVE  /\ t \div a \in Nat /\ t % a \in 0 .. a - 1
         /\ t = a * (t \div a) + (t % a)
  BY SMTT(10)

\* A product with a positive factor keeps an order.
LEMMA Monotone ==
  ASSUME NEW a \in Nat, NEW x \in Int, NEW y \in Int, x <= y
  PROVE  x * a <= y * a
<1>1. \A k \in Nat : k * a >= 0 OBVIOUS
<1>2. (y - x) * a >= 0 BY <1>1
<1> QED BY <1>2

\* What divides into at least one part leaves a quotient.
LEMMA Quotient ==
  ASSUME NEW a \in Nat \ {0}, NEW t \in Nat, a <= t
  PROVE  t \div a \in Nat \ {0}
<1>1. t \div a \in Nat /\ t % a \in 0 .. a - 1 /\ t = a * (t \div a) + (t % a)
  BY Division
<1>2. t \div a # 0
  <2> SUFFICES ASSUME t \div a = 0 PROVE FALSE
    OBVIOUS
  <2>1. t = a * 0 + (t % a) BY <1>1
  <2> QED BY <2>1, <1>1
<1> QED BY <1>1, <1>2

\* A nonempty set of natural numbers has a least element.
LEMMA LeastOf ==
  ASSUME NEW S \in SUBSET Nat, S # {}
  PROVE  \E x \in S : \A y \in S : x <= y
<1>1. \E x \in S : \A y \in S : ~(<<y, x>> \in OpToRel(<, Nat))
  BY NatLessThanWellFounded, WFMin
<1>2. PICK x \in S : \A y \in S : ~(<<y, x>> \in OpToRel(<, Nat))
  BY <1>1
<1>3. \A y \in S : x <= y
  <2> TAKE y \in S
  <2>1. ~(y < x) BY <1>2 DEF OpToRel
  <2> QED BY <2>1
<1> QED BY <1>3

\* The greatest common divisor exists, and divides.
LEMMA DivisorExists ==
  ASSUME NEW a \in Nat \ {0}, NEW b \in Nat \ {0}
  PROVE  /\ GreatestCommonDivisor(a, b) \in 1 .. b
         /\ a % GreatestCommonDivisor(a, b) = 0
<1> DEFINE D == {d \in 1 .. b : a % d = 0 /\ b % d = 0}
           S == {b - d : d \in D}
<1>1. 1 \in D
  <2>1. \A t \in Nat : t % 1 = 0
    <3> TAKE t \in Nat
    <3>1. 1 \in Nat \ {0} OBVIOUS
    <3>2. t % 1 \in 0 .. 1 - 1 BY <3>1, Division
    <3> QED BY <3>2
  <2> QED BY <2>1
<1>2. S \in SUBSET Nat /\ S # {}
  BY <1>1
<1>3. PICK x \in S : \A y \in S : x <= y
  BY <1>2, LeastOf
<1>4. PICK d \in D : x = b - d
  BY <1>3
<1>5. \A e \in D : e <= d
  <2> TAKE e \in D
  <2>1. b - e \in S OBVIOUS
  <2>2. b - d <= b - e BY <2>1, <1>3, <1>4
  <2> QED BY <2>2, <1>4
<1>6. \A e \in d + 1 .. b : ~(a % e = 0 /\ b % e = 0)
  <2> TAKE e \in d + 1 .. b
  <2>1. e \in 1 .. b /\ ~(e <= d) BY <1>4
  <2> QED BY <2>1, <1>5
<1>7. \E g \in 1 .. b : a % g = 0 /\ b % g = 0 /\ \A e \in g + 1 .. b : ~(a % e = 0 /\ b % e = 0)
  BY <1>4, <1>6, Zenon
<1> QED BY <1>7, Zenon DEF GreatestCommonDivisor

\* Dividing by it leaves at least one.
LEMMA DivisorBound ==
  ASSUME NEW a \in Nat \ {0}, NEW b \in Nat \ {0}
  PROVE  a \div GreatestCommonDivisor(a, b) \in Nat \ {0}
<1>1. PICK g \in 1 .. b : g = GreatestCommonDivisor(a, b) /\ a % g = 0
  BY DivisorExists
<1>2. g \in Nat \ {0} OBVIOUS
<1>3. a % g = a \/ g <= a
  <2>1. CASE a < g
    <3>1. a \div g \in Nat /\ a % g \in 0 .. g - 1 /\ a = g * (a \div g) + (a % g)
      BY <1>2, Division
    <3>2. PICK q \in Nat, r \in 0 .. g - 1 : q = a \div g /\ r = a % g /\ a = g * q + r
      BY <3>1
    <3>3. q = 0
      <4>1. \A k \in Nat : k > 0 => k * g >= g
        <5> TAKE k \in Nat
        <5>1. k > 0 => 1 * g <= k * g BY <1>2, Monotone
        <5> QED BY <5>1
      <4>2. q > 0 => q * g >= g BY <4>1
      <4>3. g * q = q * g OBVIOUS
      <4> QED BY <4>2, <4>3, <3>2, <2>1
    <3> QED BY <3>2, <3>3
  <2> QED BY <2>1
<1>4. g <= a
  BY <1>1, <1>3
<1> QED BY <1>1, <1>2, <1>4, Quotient

\* Rounding up covers all, with at least one unit.
LEMMA RoundUpBounds ==
  ASSUME NEW a \in Nat \ {0}, NEW b \in Nat \ {0}
  PROVE  DivideRoundUp(a, b) \in Nat \ {0} /\ a <= DivideRoundUp(a, b) * b
<1>1. a \div b \in Nat /\ a % b \in 0 .. b - 1 /\ a = b * (a \div b) + (a % b)
  BY Division
<1>2. PICK q \in Nat, r \in 0 .. b - 1 : q = a \div b /\ r = a % b /\ a = b * q + r
  BY <1>1
<1>3. DivideRoundUp(a, b) = q + (IF r # 0 THEN 1 ELSE 0)
  BY <1>2 DEF DivideRoundUp
<1>4. (q + 1) * b = b * q + b OBVIOUS
<1>5. q * b = b * q OBVIOUS
<1>6. CASE r # 0
  BY <1>2, <1>3, <1>4, <1>6
<1>7. CASE r = 0
  <2>1. q # 0 BY <1>2, <1>7
  <2> QED BY <2>1, <1>2, <1>3, <1>5, <1>7
<1> QED BY <1>6, <1>7

\* Every unit of work that the plan counts is there.
LEMMA PlanUnits ==
  ASSUME NEW r \in Request, ValidProblem(r.problem)
  PROVE  /\ {MacroTiles(r.problem), RowGroups(r.problem), ColumnPanels(r.problem),
             RowQuantum(r.problem)} \subseteq Nat \ {0}
         /\ r.problem.m <= RowGroups(r.problem) * RowQuantum(r.problem)
         /\ r.problem.n <= ColumnPanels(r.problem) * ColumnTile
<1> DEFINE p == r.problem
<1>1. p.m \in Nat \ {0} /\ p.n \in Nat \ {0} /\ p.k \in Nat \ {0}
  BY DEF Request, ValidProblem
<1>2. /\ MacroTileRows \in Nat \ {0} /\ RegisterTileRows \in Nat \ {0}
      /\ CacheLineFloats \in Nat \ {0} /\ ColumnTile \in Nat \ {0}
  BY PlanConstantsAssumption
<1> HIDE DEF p
<1>3. RowQuantum(p) \in Nat \ {0}
  <2>1. PICK g \in 1 .. CacheLineFloats : g = GreatestCommonDivisor(p.n, CacheLineFloats)
    BY <1>1, <1>2, DivisorExists
  <2>2. CacheLineFloats \div g \in Nat \ {0}
    BY <1>2, <2>1, Quotient
  <2>3. PICK q \in Nat \ {0} : q = CacheLineFloats \div g
    BY <2>2
  <2>4. RegisterTileRows \div GreatestCommonDivisor(RegisterTileRows, q) \in Nat \ {0}
    BY <1>2, DivisorBound
  <2>5. \A x, y \in Nat \ {0} : x * y \in Nat \ {0} OBVIOUS
  <2>6. RowQuantum(p) = (RegisterTileRows \div GreatestCommonDivisor(RegisterTileRows, q)) * q
    BY <2>1, <2>3 DEF RowQuantum, LeastCommonMultiple
  <2> QED BY <2>4, <2>5, <2>6
<1>4. MacroTiles(p) \in Nat \ {0}
  BY <1>1, <1>2, RoundUpBounds DEF MacroTiles
<1>5. RowGroups(p) \in Nat \ {0} /\ p.m <= RowGroups(p) * RowQuantum(p)
  BY <1>1, <1>3, RoundUpBounds DEF RowGroups
<1>6. ColumnPanels(p) \in Nat \ {0} /\ p.n <= ColumnPanels(p) * ColumnTile
  BY <1>1, <1>2, RoundUpBounds DEF ColumnPanels
<1> QED BY <1>3, <1>4, <1>5, <1>6 DEF p

\* The loop of plan_cpu_parallel_tasks_v1, one round of it.
Limit(p, threads) == MaximumRowTasks(p, threads)
RoundOf(p, threads, best, r) ==
  LET Candidate == Grid(r, Least(ColumnPanels(p), threads \div r))
  IN  IF r = 0 THEN Grid(Limit(p, threads), 1)
      ELSE IF Better(Candidate, best[r - 1]) THEN Candidate ELSE best[r - 1]
IsLoop(p, threads, best, k) ==
  best = [r \in 0 .. k |-> RoundOf(p, threads, best, r)]

\* The best grid is the last round of the loop.
LEMMA LoopOf ==
  ASSUME NEW p, NEW threads
  PROVE  BestGrid(p, threads) =
           IF ColumnPartitionSafe(p) /\ ColumnPanels(p) > 1
           THEN (CHOOSE f : IsLoop(p, threads, f, Limit(p, threads)))[Limit(p, threads)]
           ELSE Grid(Limit(p, threads), 1)
BY DEF BestGrid, IsLoop, RoundOf, Limit

\* The loop runs to its end.
LEMMA LoopExists ==
  ASSUME NEW p, NEW threads, NEW limit \in Nat
  PROVE  \E f : IsLoop(p, threads, f, limit)
<1> DEFINE S == {k \in Nat : ~\E f : IsLoop(p, threads, f, k)}
<1>1. SUFFICES ASSUME S # {} PROVE FALSE
  OBVIOUS
<1>2. PICK k \in S : \A j \in S : k <= j
  BY <1>1, LeastOf
<1>3. CASE k = 0
  <2> DEFINE f == [r \in 0 .. 0 |-> Grid(Limit(p, threads), 1)]
  <2>1. f = [r \in 0 .. 0 |-> RoundOf(p, threads, f, r)]
    <3>1. \A r \in 0 .. 0 : RoundOf(p, threads, f, r) = Grid(Limit(p, threads), 1)
      <4>1. RoundOf(p, threads, f, 0) = Grid(Limit(p, threads), 1)
        BY DEF RoundOf
      <4> HIDE DEF f
      <4>2. \A r \in 0 .. 0 : r = 0 OBVIOUS
      <4> QED BY <4>1, <4>2
    <3> QED BY <3>1
  <2> HIDE DEF f
  <2>2. IsLoop(p, threads, f, 0)
    BY <2>1 DEF IsLoop
  <2> QED BY <2>2, <1>3
<1>4. CASE k # 0
  <2>1. k - 1 \in Nat /\ k - 1 \notin S
    BY <1>2, <1>4
  <2>2. PICK g : IsLoop(p, threads, g, k - 1)
    BY <2>1
  <2> DEFINE f == [r \in 0 .. k |-> IF r = k THEN RoundOf(p, threads, g, k) ELSE g[r]]
  <2>3. \A r \in 0 .. k : f[r] = IF r = k THEN RoundOf(p, threads, g, k) ELSE g[r]
    OBVIOUS
  <2>4. f = [r \in 0 .. k |-> f[r]]
    OBVIOUS
  <2>5. \A r \in 0 .. k - 1 : g[r] = RoundOf(p, threads, g, r)
    <3>1. g = [r \in 0 .. k - 1 |-> RoundOf(p, threads, g, r)]
      BY <2>2 DEF IsLoop
    <3> DEFINE h == [r \in 0 .. k - 1 |-> RoundOf(p, threads, g, r)]
    <3>2. \A r \in 0 .. k - 1 : h[r] = RoundOf(p, threads, g, r)
      OBVIOUS
    <3>3. g = h BY <3>1
    <3> HIDE DEF h
    <3> QED BY <3>2, <3>3
  <2> HIDE DEF f
  <2>6. \A r \in 0 .. k : RoundOf(p, threads, f, r) = RoundOf(p, threads, g, r)
    <3> TAKE r \in 0 .. k
    <3>1. CASE r = 0
      BY <3>1 DEF RoundOf
    <3>2. CASE r # 0
      <4>1. r - 1 \in 0 .. k /\ r - 1 # k
        BY <3>2, <2>1, <1>2
      <4>2. f[r - 1] = g[r - 1]
        BY <4>1, <2>3
      <4> QED BY <4>2, <3>2, Zenon DEF RoundOf
    <3> QED BY <3>1, <3>2
  <2>7. \A r \in 0 .. k : f[r] = RoundOf(p, threads, f, r)
    <3> TAKE r \in 0 .. k
    <3>1. r # k => r \in 0 .. k - 1 BY <1>2
    <3> QED BY <3>1, <2>3, <2>5, <2>6
  <2>8. IsLoop(p, threads, f, k)
    <3>1. f = [r \in 0 .. k |-> RoundOf(p, threads, f, r)]
      BY <2>4, <2>7
    <3> QED BY <3>1 DEF IsLoop
  <2> QED BY <2>8, <1>2
<1> QED BY <1>3, <1>4

\* A grid with work for no more than the threads, and for one at least.
Fits(g, threads) ==
  /\ g \in [rows: Nat, columns: Nat] /\ g.rows > 0 /\ g.columns > 0
  /\ Tasks(g) <= threads

\* A candidate of the loop fits the threads.
LEMMA CandidateFits ==
  ASSUME NEW n \in Nat \ {0}, NEW threads \in Nat, NEW r \in 1 .. threads
  PROVE  Fits(Grid(r, Least(n, threads \div r)), threads)
<1>1. r \in Nat \ {0} /\ r <= threads OBVIOUS
<1>2. threads \div r \in Nat \ {0}
  BY <1>1, Quotient
<1>0. threads % r \in 0 .. r - 1 /\ threads = r * (threads \div r) + (threads % r)
  BY <1>1, Division
<1>3. PICK q \in Nat \ {0}, e \in 0 .. r - 1 : q = threads \div r /\ threads = r * q + e
  BY <1>0, <1>2
<1>4. PICK c \in Nat \ {0} : c = Least(n, q) /\ c <= q
  BY DEF Least
<1>5. c * r <= q * r
  BY <1>1, <1>4, Monotone
<1>6. c * r = r * c /\ q * r = r * q /\ r * q \in Nat /\ r * c \in Nat OBVIOUS
<1>7. r * c <= threads
  BY <1>3, <1>5, <1>6
<1>8. Grid(r, Least(n, threads \div r)) = Grid(r, c)
  BY <1>3, <1>4
<1>9. Fits(Grid(r, c), threads)
  <2>1. Grid(r, c).rows = r /\ Grid(r, c).columns = c /\ Grid(r, c) \in [rows: Nat, columns: Nat]
    BY <1>1 DEF Grid
  <2> QED BY <2>1, <1>1, <1>4, <1>7 DEF Fits, Tasks
<1> QED BY <1>8, <1>9

\* So does every round of the loop.
LEMMA LoopFits ==
  ASSUME NEW p, NEW threads \in Nat, ColumnPanels(p) \in Nat \ {0},
         Limit(p, threads) \in 1 .. threads,
         NEW best, IsLoop(p, threads, best, Limit(p, threads))
  PROVE  \A k \in 0 .. Limit(p, threads) : Fits(best[k], threads)
<1>1. PICK limit \in 1 .. threads : limit = Limit(p, threads)
  OBVIOUS
<1>2. \A r \in 0 .. limit : best[r] = RoundOf(p, threads, best, r)
  <2>1. best = [r \in 0 .. limit |-> RoundOf(p, threads, best, r)]
    BY <1>1 DEF IsLoop
  <2> DEFINE h == [r \in 0 .. limit |-> RoundOf(p, threads, best, r)]
  <2>2. \A r \in 0 .. limit : h[r] = RoundOf(p, threads, best, r)
    OBVIOUS
  <2>3. best = h BY <2>1
  <2> HIDE DEF h
  <2> QED BY <2>2, <2>3
<1>3. \A r \in 1 .. limit : Fits(Grid(r, Least(ColumnPanels(p), threads \div r)), threads)
  BY CandidateFits
<1>4. Fits(Grid(limit, 1), threads)
  BY DEF Fits, Grid, Tasks
<1> DEFINE S == {k \in 0 .. limit : ~Fits(best[k], threads)}
<1>5. SUFFICES ASSUME S # {} PROVE FALSE
  BY <1>1
<1>6. S \in SUBSET Nat OBVIOUS
<1>7. PICK k \in S : \A j \in S : k <= j
  BY <1>5, <1>6, LeastOf
<1>8. best[k] = RoundOf(p, threads, best, k)
  BY <1>2, <1>7
<1>9. CASE k = 0
  <2>1. best[k] = Grid(limit, 1)
    BY <1>1, <1>8, <1>9 DEF RoundOf
  <2> QED BY <2>1, <1>4, <1>7
<1>10. CASE k # 0
  <2>1. k \in 1 .. limit /\ k - 1 \in 0 .. limit /\ k - 1 \notin S
    BY <1>7, <1>10
  <2>2. Fits(best[k - 1], threads)
    BY <2>1
  <2>3. \/ best[k] = best[k - 1]
        \/ best[k] = Grid(k, Least(ColumnPanels(p), threads \div k))
    BY <1>8, <1>10, Zenon DEF RoundOf
  <2> QED BY <2>1, <2>2, <2>3, <1>3, <1>7
<1> QED BY <1>9, <1>10

\* plan_cpu_parallel_tasks_v1, for every problem, number of threads and tile
\* size: the grid it settles on has no empty side and a thread for each task.
THEOREM GridFits ==
  ASSUME NEW r \in Request, ValidProblem(r.problem), r.threads > 0
  PROVE  /\ TaskGrid(r.problem, r.threads) \in [rows: Nat, columns: Nat]
         /\ TaskGrid(r.problem, r.threads).rows > 0
         /\ TaskGrid(r.problem, r.threads).columns > 0
         /\ Tasks(TaskGrid(r.problem, r.threads)) <= r.threads
<1>1. /\ MacroTiles(r.problem) \in Nat \ {0} /\ RowGroups(r.problem) \in Nat \ {0}
      /\ ColumnPanels(r.problem) \in Nat \ {0}
  BY PlanUnits
<1>2. PICK p, threads : p = r.problem /\ threads = r.threads
  OBVIOUS
<1>3. threads \in Nat /\ threads > 0
  BY <1>2 DEF Request
<1>4. PICK limit \in 1 .. threads : limit = Limit(p, threads)
  BY <1>1, <1>2, <1>3 DEF Limit, MaximumRowTasks, Least
<1>5. Fits(Grid(limit, 1), threads)
  BY <1>3 DEF Fits, Grid, Tasks
<1>6. Fits(BestGrid(p, threads), threads)
  <2>1. CASE ColumnPartitionSafe(p) /\ ColumnPanels(p) > 1
    <3>1. PICK best : best = CHOOSE f : IsLoop(p, threads, f, limit)
      OBVIOUS
    <3>2. \E f : IsLoop(p, threads, f, limit)
      BY LoopExists
    <3>3. IsLoop(p, threads, best, limit)
      BY <3>1, <3>2
    <3>4. Fits(best[limit], threads)
      BY <3>3, <1>1, <1>2, <1>3, <1>4, LoopFits
    <3>5. BestGrid(p, threads) = best[limit]
      BY <2>1, <3>1, <1>4, LoopOf
    <3> QED BY <3>4, <3>5
  <2>2. CASE ~(ColumnPartitionSafe(p) /\ ColumnPanels(p) > 1)
    BY <2>2, <1>4, <1>5, LoopOf
  <2> QED BY <2>1, <2>2
<1>7. TaskGrid(p, threads) \in {BestGrid(p, threads), Grid(limit, 1)}
  BY <1>4 DEF TaskGrid, Limit
<1> QED BY <1>2, <1>5, <1>6, <1>7 DEF Fits

\* Parts lie end to end, from the first unit to the last.
LEMMA PartsAdjoin ==
  ASSUME NEW units \in Nat, NEW parts \in Nat \ {0}
  PROVE  /\ PartBegin(units, parts, 0) = 0 /\ PartBegin(units, parts, parts) = units
         /\ \A i \in Nat :
              /\ PartBegin(units, parts, i) \in Nat /\ PartSize(units, parts, i) \in Nat
              /\ PartBegin(units, parts, i + 1) =
                   PartBegin(units, parts, i) + PartSize(units, parts, i)
<1>1. units \div parts \in Nat /\ units % parts \in 0 .. parts - 1
      /\ units = parts * (units \div parts) + (units % parts)
  BY Division
<1>2. PICK q \in Nat, e \in 0 .. parts - 1 :
        q = units \div parts /\ e = units % parts /\ units = parts * q + e
  BY <1>1
<1>3. /\ \A i \in Nat : PartBegin(units, parts, i) = i * q + Least(i, e)
      /\ \A i \in Nat : PartSize(units, parts, i) = q + (IF i < e THEN 1 ELSE 0)
  BY <1>2 DEF PartBegin, PartSize
<1>4. PartBegin(units, parts, 0) = 0
  <2>1. 0 * q = 0 /\ Least(0, e) = 0 BY DEF Least
  <2> QED BY <2>1, <1>3
<1>5. PartBegin(units, parts, parts) = units
  <2>1. Least(parts, e) = e BY DEF Least
  <2> QED BY <2>1, <1>2, <1>3
<1>6. ASSUME NEW i \in Nat
      PROVE  /\ PartBegin(units, parts, i) \in Nat /\ PartSize(units, parts, i) \in Nat
             /\ PartBegin(units, parts, i + 1) =
                  PartBegin(units, parts, i) + PartSize(units, parts, i)
  <2>1. (i + 1) * q = i * q + q /\ i * q \in Nat OBVIOUS
  <2>2. PICK a \in Nat : a = i * q BY <2>1
  <2>3. Least(i + 1, e) = Least(i, e) + (IF i < e THEN 1 ELSE 0) /\ Least(i, e) \in Nat
    BY DEF Least
  <2>4. /\ PartBegin(units, parts, i) = a + Least(i, e)
        /\ PartBegin(units, parts, i + 1) = (a + q) + Least(i + 1, e)
        /\ PartSize(units, parts, i) = q + (IF i < e THEN 1 ELSE 0)
    BY <1>3, <2>1, <2>2
  <2> QED BY <2>3, <2>4
<1> QED BY <1>4, <1>5, <1>6

\* So every unit has a part.
LEMMA PartOf ==
  ASSUME NEW units \in Nat, NEW parts \in Nat \ {0}, NEW u \in 0 .. units - 1
  PROVE  \E i \in 0 .. parts - 1 :
           /\ PartBegin(units, parts, i) <= u
           /\ u < PartBegin(units, parts, i) + PartSize(units, parts, i)
<1> DEFINE S == {i \in 0 .. parts : PartBegin(units, parts, i) > u}
<1>1. parts \in S
  BY PartsAdjoin
<1>2. PICK k \in S : \A j \in S : k <= j
  <2>1. S \in SUBSET Nat /\ S # {} BY <1>1
  <2> QED BY <2>1, LeastOf
<1>3. k # 0
  BY <1>2, PartsAdjoin
<1>4. PICK i \in 0 .. parts - 1 : i + 1 = k /\ i \in Nat /\ i \notin S
  <2>1. k - 1 \in 0 .. parts - 1 /\ k - 1 \notin S /\ (k - 1) + 1 = k /\ k - 1 \in Nat
    BY <1>2, <1>3
  <2> QED BY <2>1
<1>5. PartBegin(units, parts, i) \in Nat /\ ~(PartBegin(units, parts, i) > u)
  BY <1>4, PartsAdjoin
<1>6. PartBegin(units, parts, k) = PartBegin(units, parts, i) + PartSize(units, parts, i)
  BY <1>4, PartsAdjoin
<1>7. PartBegin(units, parts, k) > u
  BY <1>2
<1> QED BY <1>5, <1>6, <1>7

\* And so has every row or column, of `size` to a unit.
LEMMA SliceOf ==
  ASSUME NEW units \in Nat, NEW parts \in Nat \ {0}, NEW size \in Nat \ {0},
         NEW x \in Nat, x < units * size
  PROVE  \E i \in 0 .. parts - 1 :
           /\ PartBegin(units, parts, i) * size <= x
           /\ x < (PartBegin(units, parts, i) + PartSize(units, parts, i)) * size
<1>1. x \div size \in Nat /\ x % size \in 0 .. size - 1
      /\ x = size * (x \div size) + (x % size)
  BY Division
<1>2. PICK u \in Nat, e \in 0 .. size - 1 : x = size * u + e
  BY <1>1
<1>3. size * u = u * size /\ (u + 1) * size = u * size + size /\ u * size \in Nat
  OBVIOUS
<1>4. u < units
  <2> SUFFICES ASSUME units <= u PROVE FALSE
    OBVIOUS
  <2>1. units * size <= u * size BY Monotone
  <2>2. units * size \in Nat OBVIOUS
  <2> QED BY <2>1, <2>2, <1>2, <1>3
<1>5. PICK i \in 0 .. parts - 1 :
        /\ PartBegin(units, parts, i) <= u
        /\ u < PartBegin(units, parts, i) + PartSize(units, parts, i)
  BY <1>4, PartOf
<1>6. PICK b \in Nat, s \in Nat : b = PartBegin(units, parts, i) /\ s = PartSize(units, parts, i)
  <2>1. i \in Nat OBVIOUS
  <2>2. PartBegin(units, parts, i) \in Nat /\ PartSize(units, parts, i) \in Nat
    BY <2>1, PartsAdjoin
  <2> QED BY <2>2
<1>7. b <= u /\ u + 1 <= b + s /\ b + s \in Nat
  BY <1>5, <1>6
<1>8. b * size <= u * size /\ (u + 1) * size <= (b + s) * size
  BY <1>7, Monotone
<1>9. b * size \in Nat /\ (b + s) * size \in Nat
  BY <1>7
<1>10. b * size <= x /\ x < (b + s) * size
  BY <1>2, <1>3, <1>8, <1>9
<1>11. /\ PartBegin(units, parts, i) * size <= x
       /\ x < (PartBegin(units, parts, i) + PartSize(units, parts, i)) * size
  BY <1>6, <1>10, Zenon
<1> QED BY <1>11, Zenon

\* Row and column of a task are quotient and remainder of its number.
LEMMA TaskAt ==
  ASSUME NEW rows \in Nat \ {0}, NEW columns \in Nat \ {0},
         NEW i \in 0 .. rows - 1, NEW j \in 0 .. columns - 1,
         NEW t \in Nat, t = columns * i + j
  PROVE  t \in 0 .. rows * columns - 1 /\ t \div columns = i /\ t % columns = j
<1>1. t = columns * i + j
  OBVIOUS
<1>2. t \div columns \in Nat /\ t % columns \in 0 .. columns - 1
      /\ t = columns * (t \div columns) + (t % columns)
  BY Division
<1>3. PICK q \in Nat, e \in 0 .. columns - 1 :
        q = t \div columns /\ e = t % columns /\ t = columns * q + e
  BY <1>2
<1>4. q = i
  <2>1. ASSUME NEW a \in Nat, NEW b \in Nat, a < b PROVE columns * a + columns <= columns * b
    <3>1. (a + 1) * columns <= b * columns BY <2>1, Monotone
    <3>2. (a + 1) * columns = columns * a + columns /\ b * columns = columns * b OBVIOUS
    <3> QED BY <3>1, <3>2
  <2>2. columns * q \in Nat /\ columns * i \in Nat OBVIOUS
  <2>3. CASE q < i
    <3>1. columns * q + columns <= columns * i BY <2>1, <2>3
    <3> QED BY <3>1, <2>2, <1>1, <1>3
  <2>4. CASE i < q
    <3>1. columns * i + columns <= columns * q BY <2>1, <2>4
    <3> QED BY <3>1, <2>2, <1>1, <1>3
  <2> QED BY <2>3, <2>4
<1>5. e = j
  <2>1. columns * i \in Nat OBVIOUS
  <2> QED BY <2>1, <1>1, <1>3, <1>4
<1>6. t < rows * columns
  <2>1. (i + 1) * columns <= rows * columns BY Monotone
  <2>2. (i + 1) * columns = columns * i + columns /\ columns * i \in Nat
        /\ rows * columns \in Nat
    OBVIOUS
  <2> QED BY <2>1, <2>2, <1>1
<1>7. t \in 0 .. rows * columns - 1
  <2>1. rows * columns \in Nat OBVIOUS
  <2> QED BY <2>1, <1>1, <1>6
<1> QED BY <1>3, <1>4, <1>5, <1>7

\* execute_output_partition: the rectangles of the tasks of a grid are the
\* whole output and nothing else, whatever the grid.
THEOREM GridCovers ==
  ASSUME NEW r \in Request, ValidProblem(r.problem),
         NEW g \in [rows: Nat, columns: Nat], g.rows > 0, g.columns > 0
  PROVE  UNION {Rectangle(r.problem, g, t) : t \in 0 .. Tasks(g) - 1}
           = (0 .. r.problem.m - 1) \X (0 .. r.problem.n - 1)
<1>1. PICK p : p = r.problem
  OBVIOUS
<1>2. /\ p.m \in Nat \ {0} /\ p.n \in Nat \ {0}
      /\ RowGroups(p) \in Nat /\ RowQuantum(p) \in Nat \ {0} /\ ColumnPanels(p) \in Nat
      /\ p.m <= RowGroups(p) * RowQuantum(p) /\ p.n <= ColumnPanels(p) * ColumnTile
      /\ ColumnTile \in Nat \ {0}
  <2>1. p.m \in Nat \ {0} /\ p.n \in Nat \ {0}
    BY <1>1 DEF Request, ValidProblem
  <2>2. ColumnTile \in Nat \ {0}
    BY PlanConstantsAssumption
  <2> QED BY <2>1, <2>2, <1>1, PlanUnits
<1>3. /\ g.rows \in Nat \ {0} /\ g.columns \in Nat \ {0}
      /\ Tasks(g) = g.rows * g.columns /\ Tasks(g) \in Nat
  BY DEF Tasks
<1>4. PICK m \in Nat \ {0}, n \in Nat \ {0}, Q \in Nat \ {0}, G \in Nat, C \in Nat :
        /\ m = p.m /\ n = p.n /\ Q = RowQuantum(p) /\ G = RowGroups(p) /\ C = ColumnPanels(p)
        /\ m <= G * Q /\ n <= C * ColumnTile
  BY <1>2
<1>5. ASSUME NEW t \in 0 .. Tasks(g) - 1
      PROVE  Rectangle(p, g, t) \subseteq (0 .. m - 1) \X (0 .. n - 1)
  <2>0. t \in Nat
    BY <1>3
  <2>1. t \div g.columns \in Nat /\ t % g.columns \in Nat
    <3>1. t \div g.columns \in Nat /\ t % g.columns \in 0 .. g.columns - 1
      BY <2>0, <1>3, Division
    <3> QED BY <3>1
  <2>2. PICK i \in Nat, j \in Nat : i = t \div g.columns /\ j = t % g.columns
    BY <2>1
  <2>3. RowBegin(p, g, t) \in Nat /\ RowCount(p, g, t) <= m - RowBegin(p, g, t)
        /\ RowCount(p, g, t) \in Int
    <3>1. PICK b \in Nat, s \in Nat : b = PartBegin(G, g.rows, i) /\ s = PartSize(G, g.rows, i)
      BY <1>3, PartsAdjoin
    <3>2. b * Q \in Nat /\ s * Q \in Nat OBVIOUS
    <3>3. RowBegin(p, g, t) = b * Q /\ RowCount(p, g, t) = Least(m - b * Q, s * Q)
      BY <3>1, <2>2, <1>4 DEF RowBegin, RowCount
    <3> QED BY <3>2, <3>3 DEF Least
  <2>4. ColumnBegin(p, g, t) \in Nat /\ ColumnEnd(p, g, t) <= n /\ ColumnEnd(p, g, t) \in Int
    <3>1. PICK b \in Nat, s \in Nat : b = PartBegin(C, g.columns, j) /\ s = PartSize(C, g.columns, j)
      BY <1>3, PartsAdjoin
    <3>2. b * ColumnTile \in Nat /\ (b + s) * ColumnTile \in Nat BY <1>2
    <3>3. ColumnBegin(p, g, t) = b * ColumnTile /\ ColumnEnd(p, g, t) = Least(n, (b + s) * ColumnTile)
      BY <3>1, <2>2, <1>4 DEF ColumnBegin, ColumnEnd
    <3> QED BY <3>2, <3>3 DEF Least
  <2>5. /\ RowBegin(p, g, t) .. RowBegin(p, g, t) + RowCount(p, g, t) - 1 \subseteq 0 .. m - 1
        /\ ColumnBegin(p, g, t) .. ColumnEnd(p, g, t) - 1 \subseteq 0 .. n - 1
    BY <2>3, <2>4
  <2> QED BY <2>5 DEF Rectangle
<1>6. ASSUME NEW x \in 0 .. m - 1, NEW y \in 0 .. n - 1
      PROVE  \E t \in 0 .. Tasks(g) - 1 : <<x, y>> \in Rectangle(p, g, t)
  <2>1. PICK i \in 0 .. g.rows - 1 :
          /\ PartBegin(G, g.rows, i) * Q <= x
          /\ x < (PartBegin(G, g.rows, i) + PartSize(G, g.rows, i)) * Q
    <3>1. x < G * Q
      <4>1. G * Q \in Nat OBVIOUS
      <4> QED BY <4>1, <1>4
    <3>2. x \in Nat /\ g.rows \in Nat \ {0} BY <1>3
    <3> QED BY <3>1, <3>2, SliceOf
  <2>2. PICK j \in 0 .. g.columns - 1 :
          /\ PartBegin(C, g.columns, j) * ColumnTile <= y
          /\ y < (PartBegin(C, g.columns, j) + PartSize(C, g.columns, j)) * ColumnTile
    <3>1. y < C * ColumnTile
      <4>1. C * ColumnTile \in Nat BY <1>2
      <4> QED BY <4>1, <1>4
    <3>2. y \in Nat /\ g.columns \in Nat \ {0} /\ ColumnTile \in Nat \ {0} BY <1>2, <1>3
    <3> QED BY <3>1, <3>2, SliceOf
  <2>3. PICK t \in 0 .. g.rows * g.columns - 1 : t \div g.columns = i /\ t % g.columns = j
    <3>1. PICK rows \in Nat \ {0}, columns \in Nat \ {0} : rows = g.rows /\ columns = g.columns
      BY <1>3
    <3>2. i \in 0 .. rows - 1 /\ j \in 0 .. columns - 1 BY <3>1
    <3>3. columns * i + j \in Nat BY <3>2
    <3>4. PICK t \in Nat : t = columns * i + j BY <3>3
    <3>5. t \in 0 .. rows * columns - 1
      BY <3>2, <3>4, TaskAt
    <3>6. t \div columns = i /\ t % columns = j
      BY <3>2, <3>4, TaskAt
    <3> QED BY <3>1, <3>5, <3>6, Zenon
  <2>4. x \in RowBegin(p, g, t) .. RowBegin(p, g, t) + RowCount(p, g, t) - 1
    <3>1. i \in Nat BY <1>3
    <3>2. PICK b \in Nat, s \in Nat : b = PartBegin(G, g.rows, i) /\ s = PartSize(G, g.rows, i)
      BY <3>1, <1>3, PartsAdjoin
    <3>3. b * Q \in Nat /\ s * Q \in Nat /\ (b + s) * Q = b * Q + s * Q OBVIOUS
    <3>4. RowBegin(p, g, t) = b * Q /\ RowCount(p, g, t) = Least(m - b * Q, s * Q)
      BY <3>2, <2>3, <1>4 DEF RowBegin, RowCount
    <3>5. b * Q <= x /\ x < b * Q + s * Q
      BY <3>2, <3>3, <2>1
    <3>6. PICK u \in Nat, v \in Nat : u = b * Q /\ v = s * Q
      BY <3>3
    <3>7. x \in u .. u + Least(m - u, v) - 1
      BY <3>5, <3>6 DEF Least
    <3> QED BY <3>4, <3>6, <3>7
  <2>5. y \in ColumnBegin(p, g, t) .. ColumnEnd(p, g, t) - 1
    <3>1. j \in Nat BY <1>3
    <3>2. PICK b \in Nat, s \in Nat : b = PartBegin(C, g.columns, j) /\ s = PartSize(C, g.columns, j)
      BY <3>1, <1>3, PartsAdjoin
    <3>3. b * ColumnTile \in Nat /\ (b + s) * ColumnTile \in Nat BY <1>2
    <3>4. ColumnBegin(p, g, t) = b * ColumnTile /\ ColumnEnd(p, g, t) = Least(n, (b + s) * ColumnTile)
      BY <3>2, <2>3, <1>4 DEF ColumnBegin, ColumnEnd
    <3>5. PICK u \in Nat, v \in Nat : u = b * ColumnTile /\ v = (b + s) * ColumnTile
      BY <3>3
    <3>6. u <= y /\ y < v
      BY <3>2, <3>5, <2>2
    <3>7. y \in u .. Least(n, v) - 1
      BY <3>6 DEF Least
    <3> QED BY <3>4, <3>5, <3>7
  <2>6. <<x, y>> \in Rectangle(p, g, t)
    BY <2>4, <2>5, Zenon DEF Rectangle
  <2> QED BY <2>3, <2>6, <1>3
<1>7. UNION {Rectangle(p, g, t) : t \in 0 .. Tasks(g) - 1} = (0 .. m - 1) \X (0 .. n - 1)
  <2>1. UNION {Rectangle(p, g, t) : t \in 0 .. Tasks(g) - 1} \subseteq (0 .. m - 1) \X (0 .. n - 1)
    BY <1>5
  <2>2. ASSUME NEW z \in (0 .. m - 1) \X (0 .. n - 1)
        PROVE  z \in UNION {Rectangle(p, g, t) : t \in 0 .. Tasks(g) - 1}
    <3>1. PICK x \in 0 .. m - 1, y \in 0 .. n - 1 : z = <<x, y>>
      OBVIOUS
    <3>2. PICK t \in 0 .. Tasks(g) - 1 : <<x, y>> \in Rectangle(p, g, t)
      BY <1>6
    <3> QED BY <3>1, <3>2
  <2> QED BY <2>1, <2>2
<1> QED BY <1>1, <1>4, <1>7

-----------------------------------------------------------------------------
(* The crew                                                                *)

\* In a planned call every task has a worker and every worker one task.
LEMMA OneTaskEach ==
  ASSUME TypeOK, PlanInv, NEW c \in Callers
  PROVE  /\ ActiveOf(c) = Tasks(grid[c]) /\ Tasks(grid[c]) \in Nat \ {0}
         /\ Crew(c) = TasksOf(c) /\ 0 \in Crew(c)
         /\ Crew(c) \subseteq Worker
         /\ \A w \in Crew(c) : w + ActiveOf(c) \notin TasksOf(c)
<1>1. /\ grid[c] \in [rows: Nat, columns: Nat] /\ grid[c].rows > 0 /\ grid[c].columns > 0
      /\ Tasks(grid[c]) <= request[c].threads /\ request[c].threads <= WorkerCount
  BY DEF TypeOK, PlanInv
<1>2. request[c].threads \in Nat
  BY GemmConstantsAssumption DEF TypeOK, Request, NoRequest
<1>3. Tasks(grid[c]) \in Nat \ {0}
  <2>1. \A a, b \in Nat : a > 0 /\ b > 0 => a * b \in Nat \ {0}
    OBVIOUS
  <2> QED BY <1>1, <2>1 DEF Tasks
<1>4. ActiveOf(c) = Tasks(grid[c])
  BY <1>1, <1>2, <1>3 DEF ActiveOf, Least
<1> QED BY <1>1, <1>2, <1>3, <1>4, GemmConstantsAssumption DEF Crew, TasksOf, Worker

\* A submission's crew is idle before the next one.
LEMMA NobodyBusy ==
  ASSUME BusyInv, GemmConstantsAssumption, owner = NoOne
  PROVE  \A w \in Worker : wpc[w] = "idle"
BY DEF BusyInv, GemmConstantsAssumption

-----------------------------------------------------------------------------
(* Callers                                                                 *)

\* A call starts with a plan that fits, or is refused.
LEMMA CallInv ==
  ASSUME GemmInv, NEW c \in Callers, Call(c)
  PROVE  GemmInv'
<1> USE GemmConstantsAssumption
<1>0. TypeOK /\ PlanInv /\ OwnerInv /\ BusyInv /\ PastBarrierInv /\ PackInv /\ FreshInv /\ TaskInv /\ ReturnInv
  BY DEF GemmInv
<1>1. PICK r \in Requests :
       /\ request' = [request EXCEPT ![c] =
                        IF Preconditions(r) = "success" THEN r ELSE NoRequest]
       /\ cpc' = [cpc EXCEPT ![c] =
                    IF Preconditions(r) = "success" THEN "submit" ELSE "idle"]
       /\ ret' = [ret EXCEPT ![c] =
                    IF Preconditions(r) = "success" THEN "none" ELSE Preconditions(r)]
       /\ grid' = [grid EXCEPT ![c] =
                     IF Preconditions(r) = "success"
                     THEN TaskGrid(r.problem, r.threads) ELSE Grid(1, 1)]
  BY DEF Call
<1>2. r \in Request
  BY <1>1
<1>3. /\ cpc[c] = "idle" /\ budget[c] > 0
      /\ budget' = [budget EXCEPT ![c] = @ - 1]
      /\ submissionReport' = [submissionReport EXCEPT ![c] = 0]
      /\ image' = [image EXCEPT ![c] = "untouched"]
      /\ published' = [published EXCEPT ![c] = FALSE]
      /\ packFailed' = [packFailed EXCEPT ![c] = FALSE]
      /\ rejected' = [rejected EXCEPT ![c] = FALSE]
      /\ runs' = [runs EXCEPT ![c] = [t \in Worker |-> 0]]
      /\ ownNumber' = [ownNumber EXCEPT ![c] = 0]
      /\ UNCHANGED <<stopping, owner, completed, arrived, finished, failed, wpc, task>>
  BY DEF Call, ctxVars, wVars
<1>4. Preconditions(r) \in Status \ {"none", "worker_task_failed", "unsupported_fp_environment"}
  BY <1>2 DEF Preconditions, Request, Status, TensorVerdict
<1>5. ASSUME Preconditions(r) = "success"
      PROVE  ValidProblem(r.problem) /\ r.threads > 0 /\ r.threads <= WorkerCount
  <2>1. r.threads \in Nat
    BY <1>2 DEF Request
  <2> QED BY <1>5, <2>1 DEF Preconditions
<1>6. owner # c
  BY <1>0, <1>3 DEF OwnerInv
<1>7. \A d \in Callers \ {c} :
        /\ Crew(d)' = Crew(d) /\ ActiveOf(d)' = ActiveOf(d)
        /\ request'[d] = request[d] /\ grid'[d] = grid[d] /\ cpc'[d] = cpc[d]
        /\ ret'[d] = ret[d] /\ submissionReport'[d] = submissionReport[d]
        /\ image'[d] = image[d] /\ published'[d] = published[d]
        /\ packFailed'[d] = packFailed[d] /\ rejected'[d] = rejected[d]
        /\ runs'[d] = runs[d] /\ ownNumber'[d] = ownNumber[d]
  BY <1>0, <1>1, <1>3 DEF TypeOK, Crew, ActiveOf
<1>8. /\ cpc'[c] = IF Preconditions(r) = "success" THEN "submit" ELSE "idle"
      /\ ret'[c] = IF Preconditions(r) = "success" THEN "none" ELSE Preconditions(r)
      /\ request'[c] = IF Preconditions(r) = "success" THEN r ELSE NoRequest
      /\ grid'[c] = IF Preconditions(r) = "success"
                    THEN TaskGrid(r.problem, r.threads) ELSE Grid(1, 1)
      /\ image'[c] = "untouched" /\ ~published'[c] /\ ~packFailed'[c] /\ ~rejected'[c]
      /\ \A t \in Worker : runs'[c][t] = 0
  BY <1>0, <1>1, <1>3 DEF TypeOK
<1>9. \A w \in Worker : wpc[w] # "idle" => owner \in Callers \ {c}
  BY <1>0, <1>6 DEF BusyInv
<1>10. TypeOK'
  <2>1. (request \in [Callers -> Requests \cup {NoRequest}])'
    BY <1>0, <1>1 DEF TypeOK
  <2>2. (grid \in [Callers -> [rows: Nat, columns: Nat]])'
    <3>1. grid'[c] \in [rows: Nat, columns: Nat]
      BY <1>2, <1>5, <1>8, GridFits DEF Grid
    <3> QED BY <3>1, <1>0, <1>1 DEF TypeOK
  <2>3. (cpc \in [Callers -> {"idle", "submit", "await", "report"}])' /\ (ret \in [Callers -> Status])'
    <3>1. "none" \in Status
      BY DEF Status
    <3> QED BY <3>1, <1>0, <1>1, <1>4 DEF TypeOK
  <2>4. (budget \in [Callers -> 0 .. CallBudget])'
    BY <1>0, <1>3 DEF TypeOK
  <2> QED BY <2>1, <2>2, <2>3, <2>4, <1>0, <1>3 DEF TypeOK
<1>11. PlanInv'
  <2>1. /\ ValidProblem(request'[c].problem)
        /\ grid'[c].rows > 0 /\ grid'[c].columns > 0
        /\ Tasks(grid'[c]) <= request'[c].threads /\ request'[c].threads <= WorkerCount
    <3>1. CASE Preconditions(r) = "success"
      BY <3>1, <1>2, <1>5, <1>8, GridFits
    <3>2. CASE Preconditions(r) # "success"
      <4>1. request'[c] = NoRequest /\ grid'[c] = Grid(1, 1)
        BY <3>2, <1>8
      <4> QED BY <4>1 DEF NoRequest, Grid, Tasks, ValidProblem
    <3> QED BY <3>1, <3>2
  <2> QED BY <2>1, <1>0, <1>7 DEF PlanInv
<1>12. OwnerInv'
  BY <1>0, <1>3, <1>6, <1>7, <1>8 DEF OwnerInv
<1>13. BusyInv'
  BY <1>0, <1>3, <1>7, <1>9 DEF BusyInv
<1>14. PastBarrierInv'
  <2>1. \A w \in Worker : wpc[w] \in Working => owner \in Callers \ {c}
    BY <1>9 DEF Working, Packing
  <2>2. \A w \in Worker :
       /\ wpc[w] = "preflight" => w \notin arrived
       /\ wpc[w] \in Working => Crew(owner)' \subseteq arrived /\ ~rejected'[owner]
    BY <1>0, <1>3, <1>7, <2>1 DEF PastBarrierInv
  <2> QED BY <2>2, <1>0, <1>3, <1>6, <1>7 DEF PastBarrierInv
<1>15. PackInv'
  <2>1. \A w \in Worker : wpc[w] # "idle" => image'[owner] = image[owner] /\ packFailed'[owner] = packFailed[owner]
    BY <1>7, <1>9
  <2>2. \A d \in Callers :
          /\ published'[d] => image'[d] = "complete"
          /\ packFailed'[d] => image'[d] = "untouched"
          /\ \A t \in Worker : runs'[d][t] > 0 => image'[d] = "complete"
    BY <1>0, <1>7, <1>8 DEF PackInv
  <2> QED BY <2>1, <2>2, <1>0, <1>3 DEF PackInv, Packing
<1>16. FreshInv'
  BY <1>0, <1>7, <1>8 DEF FreshInv
<1>17. TaskInv'
  <2>1. \A w \in Worker : wpc[w] # "idle" => runs'[owner] = runs[owner] /\ ActiveOf(owner)' = ActiveOf(owner)
    BY <1>3, <1>7, <1>9
  <2>2. owner \in Callers => runs'[owner] = runs[owner] /\ Crew(owner)' = Crew(owner)
    BY <1>3, <1>6, <1>7
  <2> QED BY <2>1, <2>2, <1>0, <1>3 DEF TaskInv, Packing
<1>18. ReturnInv'
  BY <1>0, <1>3, <1>4, <1>7, <1>8 DEF ReturnInv
<1> QED BY <1>10, <1>11, <1>12, <1>13, <1>14, <1>15, <1>16, <1>17, <1>18 DEF GemmInv

\* A submission finds every worker idle.
LEMMA SubmitInv ==
  ASSUME GemmInv, NEW c \in Callers, Submit(c)
  PROVE  GemmInv'
<1> USE GemmConstantsAssumption
<1>0. TypeOK /\ PlanInv /\ OwnerInv /\ BusyInv /\ PastBarrierInv /\ PackInv /\ FreshInv /\ TaskInv /\ ReturnInv
  BY DEF GemmInv
<1>1. /\ cpc[c] = "submit" /\ owner = NoOne /\ owner' = c
      /\ arrived' = {} /\ finished' = {} /\ failed' = {}
      /\ wpc' = [w \in Worker |-> IF w \in Crew(c) THEN "preflight" ELSE wpc[w]]
      /\ cpc' = [cpc EXCEPT ![c] = "await"]
      /\ UNCHANGED <<stopping, completed, task, request, budget, ret, submissionReport,
                     grid, image, published, packFailed, rejected, runs, ownNumber>>
  BY DEF Submit, jobVars, history
<1>2. Crew(c) \subseteq Worker
  BY <1>0, OneTaskEach
<1>3. \A w \in Worker : wpc'[w] = IF w \in Crew(c) THEN "preflight" ELSE "idle"
  BY <1>0, <1>1, NobodyBusy
<1>4. \A d \in Callers : Crew(d)' = Crew(d)
  BY <1>1 DEF Crew, ActiveOf
<1>5. /\ image[c] = "untouched" /\ ~packFailed[c] /\ ~rejected[c]
      /\ \A t \in Worker : runs[c][t] = 0
  BY <1>0, <1>1 DEF FreshInv
<1>6. TypeOK'
  BY <1>0, <1>1, <1>2, <1>3 DEF TypeOK
<1>7. PlanInv'
  BY <1>0, <1>1 DEF PlanInv
<1>8. OwnerInv'
  BY <1>0, <1>1 DEF OwnerInv, TypeOK
<1>9. BusyInv'
  BY <1>1, <1>3, <1>4 DEF BusyInv
<1>10. PastBarrierInv'
  BY <1>1, <1>3, <1>5 DEF PastBarrierInv, Working, Packing
<1>11. PackInv'
  BY <1>0, <1>1, <1>3, <1>5 DEF PackInv, Packing
<1>12. FreshInv'
  BY <1>0, <1>1 DEF FreshInv, TypeOK
<1>13. TaskInv'
  BY <1>1, <1>3, <1>5 DEF TaskInv, Packing
<1>14. ReturnInv'
  BY <1>0, <1>1, <1>4 DEF ReturnInv, TypeOK
<1> QED BY <1>6, <1>7, <1>8, <1>9, <1>10, <1>11, <1>12, <1>13, <1>14 DEF GemmInv

\* A submission after the stop leaves nothing behind.
LEMMA SubmitTooLateInv ==
  ASSUME GemmInv, NEW c \in Callers, SubmitTooLate(c)
  PROVE  GemmInv'
<1> USE GemmConstantsAssumption
<1>0. TypeOK /\ PlanInv /\ OwnerInv /\ BusyInv /\ PastBarrierInv /\ PackInv /\ FreshInv /\ TaskInv /\ ReturnInv
  BY DEF GemmInv
<1>1. /\ cpc[c] = "submit" /\ owner = NoOne
      /\ ret' = [ret EXCEPT ![c] = "worker_task_failed"]
      /\ cpc' = [cpc EXCEPT ![c] = "idle"]
      /\ UNCHANGED <<stopping, owner, completed, arrived, finished, failed, wpc, task,
                     request, budget, submissionReport,
                     grid, image, published, packFailed, rejected, runs, ownNumber>>
  BY DEF SubmitTooLate, ctxVars, wVars, jobVars, history
<1>2. \A d \in Callers : Crew(d)' = Crew(d)
  BY <1>1 DEF Crew, ActiveOf
<1>3. \A w \in Worker : wpc[w] = "idle"
  BY <1>0, <1>1, NobodyBusy
<1>4. TypeOK'
  BY <1>0, <1>1 DEF TypeOK, Status
<1>5. PlanInv' /\ OwnerInv' /\ FreshInv'
  BY <1>0, <1>1 DEF PlanInv, OwnerInv, FreshInv, TypeOK
<1>6. BusyInv' /\ PastBarrierInv' /\ PackInv' /\ TaskInv'
  BY <1>0, <1>1, <1>3 DEF BusyInv, PastBarrierInv, PackInv, TaskInv, Working, Packing
<1>7. ReturnInv'
  BY <1>0, <1>1, <1>2 DEF ReturnInv, TypeOK, FreshInv
<1> QED BY <1>4, <1>5, <1>6, <1>7 DEF GemmInv

\* A stop touches no submission.
LEMMA StopInv ==
  ASSUME GemmInv, Stop
  PROVE  GemmInv'
<1>1. stopping' = TRUE /\ UNCHANGED <<owner, completed, arrived, finished, failed, wpc, task, cpc,
         request, budget, ret, submissionReport, grid, image, published, packFailed,
         rejected, runs, ownNumber>>
  BY DEF Stop, wVars, callVars, jobVars, history
<1>2. /\ \A d \in Callers : Crew(d)' = Crew(d) /\ ActiveOf(d)' = ActiveOf(d)
      /\ Crew(owner)' = Crew(owner) /\ ActiveOf(owner)' = ActiveOf(owner)
  BY <1>1 DEF Crew, ActiveOf
<1> QED BY <1>1, <1>2 DEF GemmInv, TypeOK, PlanInv, OwnerInv, BusyInv, PastBarrierInv, PackInv,
          FreshInv, TaskInv, ReturnInv

\* A crew that has finished without a failure has run every task.
LEMMA CollectInv ==
  ASSUME GemmInv, NEW c \in Callers, Collect(c)
  PROVE  GemmInv'
<1> USE GemmConstantsAssumption
<1>0. TypeOK /\ PlanInv /\ OwnerInv /\ BusyInv /\ PastBarrierInv /\ PackInv /\ FreshInv /\ TaskInv /\ ReturnInv
  BY DEF GemmInv
<1>1. /\ cpc[c] = "await" /\ Crew(c) \subseteq finished
      /\ completed' = completed + 1
      /\ ownNumber' = [ownNumber EXCEPT ![c] = completed + 1]
      /\ owner' = NoOne
      /\ ret' = [ret EXCEPT ![c] = Outcome(c)]
      /\ cpc' = [cpc EXCEPT ![c] = IF Outcome(c) = "none" THEN "report" ELSE "idle"]
      /\ UNCHANGED <<stopping, arrived, finished, failed, wpc, task, request, budget,
                     submissionReport, grid, image, published, packFailed, rejected, runs>>
  BY DEF Collect, wVars, jobVars
<1>2. owner = c
  BY <1>0, <1>1 DEF OwnerInv
<1>3. \A w \in Worker : wpc[w] = "idle"
  BY <1>0, <1>1, <1>2 DEF BusyInv
<1>4. \A d \in Callers : Crew(d)' = Crew(d)
  BY <1>1 DEF Crew, ActiveOf
<1>5. Crew(c) \subseteq Worker
  BY <1>0, OneTaskEach
<1>6. failed = {} => \A t \in Crew(c) : runs[c][t] = 1
  BY <1>0, <1>1, <1>2, <1>5 DEF TaskInv
<1>7. rejected[c] => failed # {} /\ image[c] = "untouched"
  BY <1>0, <1>2 DEF PastBarrierInv, TypeOK
<1>8. /\ Outcome(c) \in {"unsupported_fp_environment", "worker_task_failed", "none"}
      /\ Outcome(c) = "unsupported_fp_environment" <=> rejected[c]
      /\ Outcome(c) = "none" => failed = {}
  BY DEF Outcome
<1>9. TypeOK'
  <2>1. (ret \in [Callers -> Status])'
    BY <1>0, <1>1, <1>8 DEF TypeOK, Status
  <2> QED BY <2>1, <1>0, <1>1 DEF TypeOK
<1>10. PlanInv'
  BY <1>0, <1>1 DEF PlanInv
<1>11. OwnerInv'
  BY <1>0, <1>1, <1>2 DEF OwnerInv, TypeOK
<1>12. FreshInv'
  BY <1>0, <1>1 DEF FreshInv, TypeOK
<1>13. BusyInv' /\ PastBarrierInv' /\ TaskInv'
  BY <1>1, <1>3 DEF BusyInv, PastBarrierInv, TaskInv, Working, Packing
<1>14. PackInv'
  BY <1>0, <1>1, <1>3 DEF PackInv, Packing
<1>15. ReturnInv'
  <2>1. /\ ret'[c] = Outcome(c) /\ ownNumber'[c] = completed + 1
        /\ cpc'[c] = IF Outcome(c) = "none" THEN "report" ELSE "idle"
        /\ completed \in Nat
    BY <1>0, <1>1 DEF TypeOK
  <2>2. \A d \in Callers \ {c} :
          ret'[d] = ret[d] /\ cpc'[d] = cpc[d] /\ ownNumber'[d] = ownNumber[d] /\ ownNumber[d] \in Nat
    BY <1>0, <1>1 DEF TypeOK
  <2>3. SUFFICES ASSUME NEW d \in Callers
        PROVE  /\ cpc'[d] = "report" \/ (cpc'[d] = "idle" /\ ret'[d] = "success") =>
                    \A t \in Crew(d) : runs[d][t] = 1
               /\ cpc'[d] = "report" =>
                    ~rejected[d] /\ 0 < ownNumber'[d] /\ ownNumber'[d] <= completed + 1
               /\ cpc'[d] = "idle" /\ ret'[d] \notin {"success", "worker_task_failed"} =>
                    image[d] = "untouched"
               /\ cpc'[d] = "idle" /\ ret'[d] = "success" =>
                    0 < ownNumber'[d] /\ ownNumber'[d] <= submissionReport[d]
               /\ cpc'[d] = "idle" /\ rejected[d] => ret'[d] = "unsupported_fp_environment"
    BY <1>1, <1>4 DEF ReturnInv
  <2>4. CASE d = c
    BY <2>1, <2>4, <1>6, <1>7, <1>8
  <2>5. CASE d # c
    BY <2>1, <2>2, <2>5, <1>0 DEF ReturnInv
  <2> QED BY <2>4, <2>5
<1> QED BY <1>9, <1>10, <1>11, <1>12, <1>13, <1>14, <1>15 DEF GemmInv

\* The report counts the caller's own submission.
LEMMA ReportInv ==
  ASSUME GemmInv, NEW c \in Callers, Report(c)
  PROVE  GemmInv'
<1> USE GemmConstantsAssumption
<1>0. TypeOK /\ PlanInv /\ OwnerInv /\ BusyInv /\ PastBarrierInv /\ PackInv /\ FreshInv /\ TaskInv /\ ReturnInv
  BY DEF GemmInv
<1>1. /\ cpc[c] = "report"
      /\ submissionReport' = [submissionReport EXCEPT ![c] = completed]
      /\ ret' = [ret EXCEPT ![c] = "success"]
      /\ cpc' = [cpc EXCEPT ![c] = "idle"]
      /\ UNCHANGED <<stopping, owner, completed, arrived, finished, failed, wpc, task, request,
                     budget, grid, image, published, packFailed, rejected, runs, ownNumber>>
  BY DEF Report, CountedSubmissions, ctxVars, wVars, jobVars, history
<1>2. /\ \A d \in Callers : Crew(d)' = Crew(d)
      /\ Crew(owner)' = Crew(owner) /\ ActiveOf(owner)' = ActiveOf(owner)
  BY <1>1 DEF Crew, ActiveOf
<1>3. TypeOK'
  BY <1>0, <1>1 DEF TypeOK, Status, TensorVerdict
<1>4. PlanInv' /\ OwnerInv' /\ FreshInv'
  BY <1>0, <1>1 DEF PlanInv, OwnerInv, FreshInv, TypeOK
<1>5. BusyInv' /\ PastBarrierInv'
  BY <1>0, <1>1, <1>2 DEF BusyInv, PastBarrierInv, Working, Packing
<1>6. PackInv' /\ TaskInv'
  BY <1>0, <1>1, <1>2 DEF PackInv, TaskInv, Packing
<1>7. ReturnInv'
  BY <1>0, <1>1, <1>2 DEF ReturnInv, TypeOK
<1> QED BY <1>3, <1>4, <1>5, <1>6, <1>7 DEF GemmInv

-----------------------------------------------------------------------------
(* Workers                                                                 *)

\* A step of a worker is a step inside the owner's call.
WorkerFrame ==
  /\ UNCHANGED <<stopping, owner, completed, cpc, request, budget, ret, submissionReport,
                 grid, ownNumber>>
  /\ \A c \in Callers : c # owner =>
       /\ image'[c] = image[c] /\ published'[c] = published[c]
       /\ packFailed'[c] = packFailed[c] /\ rejected'[c] = rejected[c]
       /\ runs'[c] = runs[c]

\* Only the owner's call changes, and it waits for its crew.
LEMMA FrameInv ==
  ASSUME GemmInv, NEW w \in Worker, wpc[w] # "idle", WorkerFrame
  PROVE  /\ owner \in Callers /\ cpc[owner] = "await"
         /\ w \in Crew(owner) /\ w \notin finished
         /\ \A c \in Callers : Crew(c)' = Crew(c)
         /\ owner' = owner /\ Crew(owner)' = Crew(owner) /\ ActiveOf(owner)' = ActiveOf(owner)
         /\ PlanInv' /\ OwnerInv' /\ FreshInv' /\ ReturnInv'
<1> USE GemmConstantsAssumption
<1>1. owner \in Callers /\ w \in Crew(owner) /\ w \notin finished
  BY DEF GemmInv, BusyInv
<1>2. cpc[owner] = "await"
  BY <1>1 DEF GemmInv, OwnerInv
<1>3. /\ \A c \in Callers : Crew(c)' = Crew(c)
      /\ owner' = owner /\ Crew(owner)' = Crew(owner) /\ ActiveOf(owner)' = ActiveOf(owner)
  BY DEF WorkerFrame, Crew, ActiveOf
<1>4. PlanInv' /\ OwnerInv'
  BY DEF GemmInv, WorkerFrame, PlanInv, OwnerInv
<1>5. FreshInv'
  BY <1>2 DEF GemmInv, WorkerFrame, FreshInv
<1>6. ReturnInv'
  <2>1. SUFFICES ASSUME NEW c \in Callers
        PROVE  /\ cpc[c] = "report" \/ (cpc[c] = "idle" /\ ret[c] = "success") =>
                    \A t \in Crew(c) : runs'[c][t] = 1
               /\ cpc[c] = "report" =>
                    ~rejected'[c] /\ 0 < ownNumber[c] /\ ownNumber[c] <= completed
               /\ cpc[c] = "idle" /\ ret[c] \notin {"success", "worker_task_failed"} =>
                    image'[c] = "untouched"
               /\ cpc[c] = "idle" /\ ret[c] = "success" =>
                    0 < ownNumber[c] /\ ownNumber[c] <= submissionReport[c]
               /\ cpc[c] = "idle" /\ rejected'[c] => ret[c] = "unsupported_fp_environment"
    BY <1>3 DEF WorkerFrame, ReturnInv
  <2>2. CASE c = owner
    BY <2>2, <1>2
  <2>3. CASE c # owner
    BY <2>3 DEF GemmInv, WorkerFrame, ReturnInv
  <2> QED BY <2>2, <2>3
<1> QED BY <1>1, <1>2, <1>3, <1>4, <1>5, <1>6

\* A worker arrives at the barrier.
LEMMA FpAcceptedInv ==
  ASSUME GemmInv, NEW w \in Worker, FpAccepted(w)
  PROVE  GemmInv'
<1>0. TypeOK /\ BusyInv /\ PastBarrierInv /\ PackInv /\ TaskInv
  BY DEF GemmInv
<1>1. /\ wpc[w] = "preflight" /\ arrived' = arrived \cup {w}
      /\ wpc' = [wpc EXCEPT ![w] = "barrier"]
      /\ UNCHANGED <<finished, failed, task, image, published, packFailed, rejected, runs>>
      /\ WorkerFrame
  BY DEF FpAccepted, callVars, jobVars, history, WorkerFrame
<1>2. /\ wpc'[w] = "barrier" /\ \A v \in Worker \ {w} : wpc'[v] = wpc[v]
  BY <1>0, <1>1 DEF TypeOK
<1>3. /\ owner \in Callers /\ w \in Crew(owner) /\ w \notin finished
      /\ \A c \in Callers : Crew(c)' = Crew(c)
      /\ owner' = owner /\ Crew(owner)' = Crew(owner) /\ ActiveOf(owner)' = ActiveOf(owner)
      /\ PlanInv' /\ OwnerInv' /\ FreshInv' /\ ReturnInv'
  BY <1>1, FrameInv
<1>4. TypeOK'
  BY <1>0, <1>1 DEF TypeOK, WorkerFrame
<1>5. BusyInv'
  BY <1>0, <1>1, <1>2, <1>3 DEF BusyInv
<1>6. PastBarrierInv'
  BY <1>0, <1>1, <1>2, <1>3 DEF PastBarrierInv, Working, Packing
<1>7. PackInv'
  BY <1>0, <1>1, <1>2, <1>3 DEF PackInv, Packing
<1>8. TaskInv'
  BY <1>0, <1>1, <1>2, <1>3 DEF TaskInv, Packing
<1> QED BY <1>3, <1>4, <1>5, <1>6, <1>7, <1>8 DEF GemmInv

\* A rejection comes before anyone has passed the barrier.
LEMMA FpRejectedInv ==
  ASSUME GemmInv, NEW w \in Worker, FpRejected(w)
  PROVE  GemmInv'
<1>0. TypeOK /\ BusyInv /\ PastBarrierInv /\ PackInv /\ TaskInv
  BY DEF GemmInv
<1>1. /\ wpc[w] = "preflight" /\ arrived' = arrived \cup {w} /\ failed' = failed \cup {w}
      /\ rejected' = [rejected EXCEPT ![owner] = TRUE]
      /\ wpc' = [wpc EXCEPT ![w] = "barrier"]
      /\ UNCHANGED <<finished, task, image, published, packFailed, runs>>
      /\ WorkerFrame
  BY DEF FpRejected, callVars, jobVars, history, WorkerFrame, GemmInv, TypeOK
<1>2. /\ wpc'[w] = "barrier" /\ \A v \in Worker \ {w} : wpc'[v] = wpc[v]
  BY <1>0, <1>1 DEF TypeOK
<1>3. /\ owner \in Callers /\ w \in Crew(owner) /\ w \notin finished
      /\ \A c \in Callers : Crew(c)' = Crew(c)
      /\ owner' = owner /\ Crew(owner)' = Crew(owner) /\ ActiveOf(owner)' = ActiveOf(owner)
      /\ PlanInv' /\ OwnerInv' /\ FreshInv' /\ ReturnInv'
  BY <1>1, FrameInv
<1>4. TypeOK'
  BY <1>0, <1>1 DEF TypeOK, WorkerFrame
<1>5. BusyInv'
  BY <1>0, <1>1, <1>2, <1>3 DEF BusyInv
<1>6. /\ \A v \in Worker : wpc'[v] \notin Working
      /\ image[owner] = "untouched"
  <2>1. w \notin arrived
    BY <1>0, <1>1 DEF PastBarrierInv
  <2> QED BY <2>1, <1>0, <1>2, <1>3 DEF PastBarrierInv, Working, Packing
<1>7. PastBarrierInv'
  BY <1>0, <1>1, <1>2, <1>3, <1>6 DEF PastBarrierInv
<1>8. PackInv'
  BY <1>0, <1>1, <1>2, <1>3 DEF PackInv, Packing
<1>9. TaskInv'
  BY <1>0, <1>1, <1>2, <1>3, <1>6 DEF TaskInv, Packing, Working
<1> QED BY <1>3, <1>4, <1>5, <1>7, <1>8, <1>9 DEF GemmInv

\* Past the barrier all have arrived, and nobody works after a failure.
LEMMA LeaveBarrierInv ==
  ASSUME GemmInv, NEW w \in Worker, LeaveBarrier(w)
  PROVE  GemmInv'
<1>0. TypeOK /\ BusyInv /\ PastBarrierInv /\ PackInv /\ TaskInv
  BY DEF GemmInv
<1>1. /\ wpc[w] = "barrier" /\ Crew(owner) \subseteq arrived
      /\ wpc' = [wpc EXCEPT ![w] =
                   IF failed # {} THEN "finish" ELSE IF w = 0 THEN "prepare" ELSE "spin"]
      /\ UNCHANGED <<arrived, finished, failed, task, image, published, packFailed, rejected, runs>>
      /\ WorkerFrame
  BY DEF LeaveBarrier, BarrierOpen, ctxVars, callVars, jobVars, history, WorkerFrame
<1>2. /\ wpc'[w] = IF failed # {} THEN "finish" ELSE IF w = 0 THEN "prepare" ELSE "spin"
      /\ \A v \in Worker \ {w} : wpc'[v] = wpc[v]
  BY <1>0, <1>1 DEF TypeOK
<1>3. /\ owner \in Callers /\ w \in Crew(owner) /\ w \notin finished
      /\ \A c \in Callers : Crew(c)' = Crew(c)
      /\ owner' = owner /\ Crew(owner)' = Crew(owner) /\ ActiveOf(owner)' = ActiveOf(owner)
      /\ PlanInv' /\ OwnerInv' /\ FreshInv' /\ ReturnInv'
  BY <1>1, FrameInv
<1>4. TypeOK'
  BY <1>0, <1>1 DEF TypeOK, WorkerFrame
<1>5. BusyInv'
  BY <1>0, <1>1, <1>2, <1>3 DEF BusyInv
<1>6. failed = {} => ~rejected[owner]
  BY <1>0, <1>3 DEF PastBarrierInv
<1>7. PastBarrierInv'
  BY <1>0, <1>1, <1>2, <1>3, <1>6 DEF PastBarrierInv, Working, Packing
<1>8. PackInv'
  BY <1>0, <1>1, <1>2, <1>3 DEF PackInv, Packing
<1>9. TaskInv'
  BY <1>0, <1>1, <1>2, <1>3 DEF TaskInv, Packing
<1> QED BY <1>3, <1>4, <1>5, <1>7, <1>8, <1>9 DEF GemmInv

\* Worker zero packs and publishes, or raises the failure flag.
LEMMA PackingInv ==
  ASSUME GemmInv, NEW w \in Worker,
         BeginPack(w) \/ EndPack(w) \/ Publish(w) \/ PackFails(w)
  PROVE  GemmInv'
<1> USE GemmConstantsAssumption
<1>0. TypeOK /\ BusyInv /\ PastBarrierInv /\ PackInv /\ TaskInv
  BY DEF GemmInv
<1>1. /\ wpc[w] \in Packing
      /\ UNCHANGED <<arrived, finished, failed, task, rejected, runs>>
      /\ WorkerFrame
  BY DEF BeginPack, EndPack, Publish, PublishPoint, PackFails, ctxVars, wVars, callVars,
         jobVars, history, WorkerFrame, Packing, GemmInv, TypeOK
<1>2. wpc'[w] \in {"prepare", "publish", "spin"} /\ \A v \in Worker \ {w} : wpc'[v] = wpc[v]
  BY <1>0, <1>1 DEF TypeOK, BeginPack, EndPack, Publish, PackFails, wVars
<1>3. /\ owner \in Callers /\ w \in Crew(owner) /\ w \notin finished
      /\ \A c \in Callers : Crew(c)' = Crew(c)
      /\ owner' = owner /\ Crew(owner)' = Crew(owner) /\ ActiveOf(owner)' = ActiveOf(owner)
      /\ PlanInv' /\ OwnerInv' /\ FreshInv' /\ ReturnInv'
  <2>1. wpc[w] # "idle" BY <1>1 DEF Packing
  <2> QED BY <1>1, <2>1, FrameInv
<1>4. TypeOK'
  <2>1. (wpc \in [Worker -> {"idle", "preflight", "barrier", "prepare", "publish",
                             "spin", "tasks", "finish"}])'
    BY <1>0 DEF TypeOK, BeginPack, EndPack, Publish, PackFails, wVars
  <2>2. (image \in [Callers -> {"untouched", "partial", "complete"}])'
    BY <1>0 DEF TypeOK, BeginPack, EndPack, Publish, PackFails
  <2>3. (published \in [Callers -> BOOLEAN])' /\ (packFailed \in [Callers -> BOOLEAN])'
    BY <1>0 DEF TypeOK, BeginPack, EndPack, Publish, PackFails
  <2> QED BY <2>1, <2>2, <2>3, <1>0, <1>1 DEF TypeOK, WorkerFrame
<1>5. BusyInv'
  BY <1>0, <1>1, <1>2, <1>3 DEF BusyInv
<1>6. w = 0 /\ Crew(owner) \subseteq arrived /\ ~rejected[owner] /\ ~packFailed[owner]
  BY <1>0, <1>1 DEF PackInv, PastBarrierInv, Working
<1>7. PastBarrierInv'
  <2>1. \A c \in Callers : c # owner => image'[c] = image[c]
    BY <1>1 DEF WorkerFrame
  <2> QED BY <2>1, <1>0, <1>1, <1>2, <1>3, <1>6 DEF PastBarrierInv, Working, Packing
<1>8. PackInv'
  <2>0. \A c \in Callers : c # owner =>
          image'[c] = image[c] /\ published'[c] = published[c] /\ packFailed'[c] = packFailed[c]
    BY <1>1 DEF WorkerFrame
  <2>1. CASE BeginPack(w)
    <3>1. /\ image[owner] = "untouched" /\ image'[owner] = "partial" /\ wpc' = wpc
          /\ UNCHANGED <<published, packFailed>>
      BY <2>1, <1>0, <1>3 DEF BeginPack, wVars, TypeOK
    <3> QED BY <2>0, <3>1, <1>0, <1>1, <1>3, <1>6 DEF PackInv
  <2>2. CASE EndPack(w)
    <3>1. /\ image[owner] = "partial" /\ image'[owner] = "complete" /\ wpc'[w] = "publish"
          /\ UNCHANGED <<published, packFailed>>
      BY <2>2, <1>0, <1>3 DEF EndPack, TypeOK
    <3> QED BY <2>0, <3>1, <1>0, <1>1, <1>2, <1>3, <1>6 DEF PackInv, Packing
  <2>3. CASE Publish(w)
    <3>1. /\ wpc[w] = "publish" /\ wpc'[w] = "spin" /\ published'[owner] = TRUE
          /\ UNCHANGED <<image, packFailed>>
      BY <2>3, <1>0, <1>3 DEF Publish, PublishPoint, TypeOK
    <3> QED BY <2>0, <3>1, <1>0, <1>1, <1>2, <1>3, <1>6 DEF PackInv, Packing
  <2>4. CASE PackFails(w)
    <3>1. /\ image[owner] = "untouched" /\ wpc'[w] = "spin" /\ packFailed'[owner] = TRUE
          /\ UNCHANGED <<image, published>>
      BY <2>4, <1>0, <1>3 DEF PackFails, TypeOK
    <3> QED BY <2>0, <3>1, <1>0, <1>1, <1>2, <1>3, <1>6 DEF PackInv, Packing
  <2> QED BY <2>1, <2>2, <2>3, <2>4
<1>9. TaskInv'
  BY <1>0, <1>1, <1>2, <1>3 DEF TaskInv, Packing
<1> QED BY <1>3, <1>4, <1>5, <1>7, <1>8, <1>9 DEF GemmInv

\* Who leaves the spin to work has seen the flag of a complete image.
LEMMA LeaveSpinInv ==
  ASSUME GemmInv, NEW w \in Worker, LeaveSpin(w)
  PROVE  GemmInv'
<1> USE GemmConstantsAssumption
<1>0. TypeOK /\ BusyInv /\ PastBarrierInv /\ PackInv /\ TaskInv
  BY DEF GemmInv
<1>1. /\ wpc[w] = "spin" /\ (packFailed[owner] \/ published[owner])
      /\ task' = [task EXCEPT ![w] = w]
      /\ \/ wpc' = [wpc EXCEPT ![w] = "finish"] /\ failed' = failed \cup {w}
         \/ wpc' = [wpc EXCEPT ![w] = "tasks"] /\ failed' = failed /\ ~packFailed[owner]
      /\ UNCHANGED <<arrived, finished, image, published, packFailed, rejected, runs>>
      /\ WorkerFrame
  BY DEF LeaveSpin, SpinDone, FirstTask, callVars, jobVars, history, WorkerFrame
<1>2. /\ \/ wpc'[w] = "finish" /\ failed' = failed \cup {w}
         \/ wpc'[w] = "tasks" /\ failed' = failed /\ published[owner]
      /\ \A v \in Worker \ {w} : wpc'[v] = wpc[v] /\ task'[v] = task[v]
      /\ task'[w] = w
  BY <1>0, <1>1 DEF TypeOK
<1>3. /\ owner \in Callers /\ w \in Crew(owner) /\ w \notin finished
      /\ \A c \in Callers : Crew(c)' = Crew(c)
      /\ owner' = owner /\ Crew(owner)' = Crew(owner) /\ ActiveOf(owner)' = ActiveOf(owner)
      /\ PlanInv' /\ OwnerInv' /\ FreshInv' /\ ReturnInv'
  BY <1>1, FrameInv
<1>4. TypeOK'
  <2>1. (wpc \in [Worker -> {"idle", "preflight", "barrier", "prepare", "publish",
                             "spin", "tasks", "finish"}])' /\ failed' \subseteq Worker
    BY <1>0, <1>1 DEF TypeOK
  <2>2. (task \in [Worker -> Nat])'
    BY <1>0, <1>1 DEF TypeOK, Worker
  <2> QED BY <2>1, <2>2, <1>0, <1>1 DEF TypeOK, WorkerFrame
<1>5. BusyInv'
  BY <1>0, <1>1, <1>2, <1>3 DEF BusyInv
<1>6. PastBarrierInv'
  BY <1>0, <1>1, <1>2, <1>3 DEF PastBarrierInv, Working, Packing
<1>7. PackInv'
  BY <1>0, <1>1, <1>2, <1>3 DEF PackInv, Packing
<1>8. TaskInv'
  BY <1>0, <1>1, <1>2, <1>3 DEF TaskInv, Packing
<1> QED BY <1>3, <1>4, <1>5, <1>6, <1>7, <1>8 DEF GemmInv

\* A worker runs the task of its own number, once.
LEMMA RunPartitionInv ==
  ASSUME GemmInv, NEW w \in Worker, RunPartition(w)
  PROVE  GemmInv'
<1> USE GemmConstantsAssumption
<1>0. TypeOK /\ PlanInv /\ BusyInv /\ PastBarrierInv /\ PackInv /\ TaskInv
  BY DEF GemmInv
<1>1. /\ wpc[w] = "tasks" /\ task[w] \in TasksOf(owner)
      /\ runs' = [runs EXCEPT ![owner][task[w]] = @ + 1]
      /\ task' = [task EXCEPT ![w] = task[w] + ActiveOf(owner)]
      /\ UNCHANGED <<arrived, finished, failed, wpc, image, published, packFailed, rejected>>
      /\ WorkerFrame
  BY DEF RunPartition, Advance, ctxVars, callVars, jobVars, history, WorkerFrame, GemmInv, TypeOK
<1>3. /\ owner \in Callers /\ w \in Crew(owner) /\ w \notin finished
      /\ \A c \in Callers : Crew(c)' = Crew(c)
      /\ owner' = owner /\ Crew(owner)' = Crew(owner) /\ ActiveOf(owner)' = ActiveOf(owner)
      /\ PlanInv' /\ OwnerInv' /\ FreshInv' /\ ReturnInv'
  BY <1>1, FrameInv
<1>2. /\ ActiveOf(owner) \in Nat \ {0} /\ w + ActiveOf(owner) \notin TasksOf(owner)
      /\ w \in Nat
  BY <1>0, <1>3, OneTaskEach DEF Worker
<1>4. task[w] = w /\ runs[owner][w] = 0
  BY <1>0, <1>1, <1>2 DEF TaskInv
<1>5. /\ runs'[owner][w] = 1
      /\ \A t \in Worker \ {w} : runs'[owner][t] = runs[owner][t]
      /\ \A c \in Callers : c # owner => runs'[c] = runs[c]
      /\ task'[w] = w + ActiveOf(owner)
      /\ \A v \in Worker \ {w} : task'[v] = task[v]
  BY <1>0, <1>1, <1>3, <1>4 DEF TypeOK
<1>6. TypeOK'
  <2>1. (runs \in [Callers -> [Worker -> Nat]])'
    BY <1>0, <1>1, <1>3, <1>4 DEF TypeOK
  <2>2. (task \in [Worker -> Nat])'
    BY <1>0, <1>1, <1>2, <1>4 DEF TypeOK
  <2> QED BY <2>1, <2>2, <1>0, <1>1 DEF TypeOK, WorkerFrame
<1>7. BusyInv' /\ PastBarrierInv'
  BY <1>0, <1>1, <1>3 DEF BusyInv, PastBarrierInv
<1>8. PackInv'
  <2>1. image[owner] = "complete"
    BY <1>0, <1>1 DEF PackInv
  <2>2. \A c \in Callers : \A t \in Worker : runs'[c][t] > 0 => image'[c] = "complete"
    BY <2>1, <1>0, <1>1, <1>5 DEF PackInv
  <2> QED BY <2>2, <1>0, <1>1, <1>3 DEF PackInv
<1>9. TaskInv'
  BY <1>0, <1>1, <1>3, <1>5 DEF TaskInv, Packing
<1> QED BY <1>3, <1>6, <1>7, <1>8, <1>9 DEF GemmInv

\* A task that fails is on record.
LEMMA PartitionFailsInv ==
  ASSUME GemmInv, NEW w \in Worker, PartitionFails(w)
  PROVE  GemmInv'
<1> USE GemmConstantsAssumption
<1>0. TypeOK /\ BusyInv /\ PastBarrierInv /\ PackInv /\ TaskInv
  BY DEF GemmInv
<1>1. /\ wpc[w] = "tasks" /\ failed' = failed \cup {w}
      /\ wpc' = [wpc EXCEPT ![w] = "finish"]
      /\ UNCHANGED <<arrived, finished, task, image, published, packFailed, rejected, runs>>
      /\ WorkerFrame
  BY DEF PartitionFails, callVars, jobVars, history, WorkerFrame
<1>2. wpc'[w] = "finish" /\ \A v \in Worker \ {w} : wpc'[v] = wpc[v]
  BY <1>0, <1>1 DEF TypeOK
<1>3. /\ owner \in Callers /\ w \in Crew(owner) /\ w \notin finished
      /\ \A c \in Callers : Crew(c)' = Crew(c)
      /\ owner' = owner /\ Crew(owner)' = Crew(owner) /\ ActiveOf(owner)' = ActiveOf(owner)
      /\ PlanInv' /\ OwnerInv' /\ FreshInv' /\ ReturnInv'
  BY <1>1, FrameInv
<1>4. TypeOK'
  BY <1>0, <1>1 DEF TypeOK, WorkerFrame
<1>5. BusyInv' /\ PastBarrierInv' /\ PackInv'
  BY <1>0, <1>1, <1>2, <1>3 DEF BusyInv, PastBarrierInv, PackInv, Working, Packing
<1>6. TaskInv'
  BY <1>0, <1>1, <1>2, <1>3 DEF TaskInv, Packing
<1> QED BY <1>3, <1>4, <1>5, <1>6 DEF GemmInv

\* A worker that has no more tasks has run its own.
LEMMA TasksDoneInv ==
  ASSUME GemmInv, NEW w \in Worker, TasksDone(w)
  PROVE  GemmInv'
<1> USE GemmConstantsAssumption
<1>0. TypeOK /\ PlanInv /\ BusyInv /\ PastBarrierInv /\ PackInv /\ TaskInv
  BY DEF GemmInv
<1>1. /\ wpc[w] = "tasks" /\ task[w] \notin TasksOf(owner)
      /\ wpc' = [wpc EXCEPT ![w] = "finish"]
      /\ UNCHANGED <<arrived, finished, failed, task, image, published, packFailed, rejected, runs>>
      /\ WorkerFrame
  BY DEF TasksDone, ctxVars, callVars, jobVars, history, WorkerFrame
<1>2. wpc'[w] = "finish" /\ \A v \in Worker \ {w} : wpc'[v] = wpc[v]
  BY <1>0, <1>1 DEF TypeOK
<1>3. /\ owner \in Callers /\ w \in Crew(owner) /\ w \notin finished
      /\ \A c \in Callers : Crew(c)' = Crew(c)
      /\ owner' = owner /\ Crew(owner)' = Crew(owner) /\ ActiveOf(owner)' = ActiveOf(owner)
      /\ PlanInv' /\ OwnerInv' /\ FreshInv' /\ ReturnInv'
  BY <1>1, FrameInv
<1>4. TypeOK'
  BY <1>0, <1>1 DEF TypeOK, WorkerFrame
<1>5. BusyInv' /\ PastBarrierInv' /\ PackInv'
  BY <1>0, <1>1, <1>2, <1>3 DEF BusyInv, PastBarrierInv, PackInv, Working, Packing
<1>6. runs[owner][w] = 1
  <2>1. w \in TasksOf(owner)
    BY <1>0, <1>3, OneTaskEach
  <2> QED BY <2>1, <1>0, <1>1 DEF TaskInv
<1>7. TaskInv'
  BY <1>0, <1>1, <1>2, <1>3, <1>6 DEF TaskInv, Packing
<1> QED BY <1>3, <1>4, <1>5, <1>7 DEF GemmInv

\* A worker that finishes is no longer busy.
LEMMA FinishInv ==
  ASSUME GemmInv, NEW w \in Worker, Finish(w)
  PROVE  GemmInv'
<1>0. TypeOK /\ BusyInv /\ PastBarrierInv /\ PackInv /\ TaskInv
  BY DEF GemmInv
<1>1. /\ wpc[w] = "finish" /\ finished' = finished \cup {w}
      /\ wpc' = [wpc EXCEPT ![w] = "idle"]
      /\ UNCHANGED <<arrived, failed, task, image, published, packFailed, rejected, runs>>
      /\ WorkerFrame
  BY DEF Finish, callVars, jobVars, history, WorkerFrame
<1>2. wpc'[w] = "idle" /\ \A v \in Worker \ {w} : wpc'[v] = wpc[v]
  BY <1>0, <1>1 DEF TypeOK
<1>3. /\ owner \in Callers /\ w \in Crew(owner) /\ w \notin finished
      /\ \A c \in Callers : Crew(c)' = Crew(c)
      /\ owner' = owner /\ Crew(owner)' = Crew(owner) /\ ActiveOf(owner)' = ActiveOf(owner)
      /\ PlanInv' /\ OwnerInv' /\ FreshInv' /\ ReturnInv'
  BY <1>1, FrameInv
<1>4. TypeOK'
  BY <1>0, <1>1 DEF TypeOK, WorkerFrame
<1>5. BusyInv'
  BY <1>0, <1>1, <1>2, <1>3 DEF BusyInv
<1>6. PastBarrierInv' /\ PackInv'
  BY <1>0, <1>1, <1>2, <1>3 DEF PastBarrierInv, PackInv, Working, Packing
<1>7. TaskInv'
  BY <1>0, <1>1, <1>2, <1>3 DEF TaskInv, Packing
<1> QED BY <1>3, <1>4, <1>5, <1>6, <1>7 DEF GemmInv

-----------------------------------------------------------------------------
(* The theorems                                                            *)

\* Initially nothing has happened.
LEMMA GemmInit ==
  ASSUME Init
  PROVE  GemmInv
<1> USE GemmConstantsAssumption DEF Init
<1>1. TypeOK
  <2>1. "none" \in Status BY DEF Status
  <2>2. Grid(1, 1) \in [rows: Nat, columns: Nat] BY DEF Grid
  <2>3. (budget \in [Callers -> 0 .. CallBudget]) /\ (request \in [Callers -> Requests \cup {NoRequest}])
    BY DEF GemmConstantsAssumption
  <2> HIDE DEF Init
  <2>4. /\ stopping \in BOOLEAN /\ owner \in Callers \cup {NoOne} /\ completed \in Nat
        /\ arrived \subseteq Worker /\ finished \subseteq Worker /\ failed \subseteq Worker
        /\ wpc \in [Worker -> {"idle", "preflight", "barrier", "prepare", "publish",
                               "spin", "tasks", "finish"}]
        /\ task \in [Worker -> Nat]
        /\ cpc \in [Callers -> {"idle", "submit", "await", "report"}]
    BY DEF Init
  <2>5. /\ grid \in [Callers -> [rows: Nat, columns: Nat]]
        /\ ret \in [Callers -> Status]
    BY <2>1, <2>2 DEF Init
  <2>6. /\ image \in [Callers -> {"untouched", "partial", "complete"}]
        /\ published \in [Callers -> BOOLEAN] /\ packFailed \in [Callers -> BOOLEAN]
        /\ rejected \in [Callers -> BOOLEAN]
        /\ submissionReport \in [Callers -> Nat]
        /\ runs \in [Callers -> [Worker -> Nat]] /\ ownNumber \in [Callers -> Nat]
    BY DEF Init
  <2> QED BY <2>3, <2>4, <2>5, <2>6 DEF TypeOK
<1>2. PlanInv
  BY DEF PlanInv, NoRequest, Grid, Tasks, ValidProblem
<1>3. OwnerInv /\ BusyInv /\ FreshInv
  BY DEF OwnerInv, BusyInv, FreshInv
<1>4. PastBarrierInv /\ PackInv /\ TaskInv
  BY DEF PastBarrierInv, PackInv, TaskInv, Working, Packing
<1>5. ReturnInv
  BY DEF ReturnInv
<1> QED BY <1>1, <1>2, <1>3, <1>4, <1>5 DEF GemmInv

\* Every step keeps the invariant.
LEMMA GemmStep ==
  ASSUME GemmInv, [Next]_vars
  PROVE  GemmInv'
<1>1. CASE \E c \in Callers : Call(c) \/ CallerStep(c)
  BY <1>1, CallInv, SubmitInv, SubmitTooLateInv, CollectInv, ReportInv DEF CallerStep
<1>2. CASE \E w \in Worker : WorkerStep(w)
  BY <1>2, FpAcceptedInv, FpRejectedInv, LeaveBarrierInv, PackingInv, LeaveSpinInv,
     RunPartitionInv, PartitionFailsInv, TasksDoneInv, FinishInv DEF WorkerStep
<1>3. CASE Stop
  BY <1>3, StopInv
<1>4. CASE UNCHANGED vars
  <2>1. UNCHANGED <<stopping, owner, completed, arrived, finished, failed, wpc, task, cpc,
          request, budget, ret, submissionReport, grid, image, published, packFailed,
          rejected, runs, ownNumber>>
    BY <1>4 DEF vars, ctxVars, wVars, callVars, jobVars, history
  <2>2. /\ \A d \in Callers : Crew(d)' = Crew(d) /\ ActiveOf(d)' = ActiveOf(d)
        /\ Crew(owner)' = Crew(owner) /\ ActiveOf(owner)' = ActiveOf(owner)
    BY <2>1 DEF Crew, ActiveOf
  <2> QED BY <2>1, <2>2 DEF GemmInv, TypeOK, PlanInv, OwnerInv, BusyInv, PastBarrierInv,
            PackInv, FreshInv, TaskInv, ReturnInv
<1> QED BY <1>1, <1>2, <1>3, <1>4 DEF Next

\* The inductive invariant holds in every reachable state.
THEOREM GemmInvariant == Spec => []GemmInv
<1> QED BY GemmInit, GemmStep, PTL DEF Spec

\* Every variable keeps its type, and the plan of a call keeps its shape
\* (the state that execute_parallel and its job hold).
THEOREM GemmTypes == Spec => []TypeOK
<1>1. GemmInv => TypeOK
  BY DEF GemmInv
<1> QED BY <1>1, GemmInvariant, PTL

\* "No workspace or output byte is touched before that barrier": whatever a
\* call has written, its whole crew had authenticated before; and execute_tasks
\* reads the packed image only when all of it has been written.
THEOREM MemoryOrdered == Spec => []MemoryIsOrdered
<1>1. GemmInv => MemoryIsOrdered
  <2> SUFFICES ASSUME GemmInv PROVE MemoryIsOrdered
    OBVIOUS
  <2>1. ASSUME NEW c \in Callers, Touched(c) PROVE image[c] # "untouched"
    BY <2>1 DEF Touched, GemmInv, PackInv
  <2>2. NothingTouchedBeforeBarrier
    BY <2>1 DEF GemmInv, PastBarrierInv, NothingTouchedBeforeBarrier
  <2>3. ImageCompleteWhenRead
    BY DEF GemmInv, PackInv, ImageCompleteWhenRead
  <2> QED BY <2>2, <2>3 DEF MemoryIsOrdered
<1> QED BY <1>1, GemmInvariant, PTL

\* What execute_parallel returns is what happened: success means that every
\* task ran once and the tasks cover the output; a refusal leaves output and
\* workspace alone; a floating-point rejection is reported as one; and the
\* submission it reports is not older than its own.
THEOREM ReturnTrue == Spec => []ReturnIsTrue
<1>1. GemmInv => ReturnIsTrue
  <2> SUFFICES ASSUME GemmInv PROVE ReturnIsTrue
    OBVIOUS
  <2>0. TypeOK /\ PlanInv /\ PackInv /\ ReturnInv
    BY DEF GemmInv
  <2>1. SuccessComputesEverything
    <3> SUFFICES ASSUME NEW c \in Callers, cpc[c] = "report" \/ (cpc[c] = "idle" /\ ret[c] = "success")
        PROVE  /\ \A t \in TasksOf(c) : runs[c][t] = 1
               /\ UNION {Rectangle(request[c].problem, grid[c], t) : t \in TasksOf(c)}
                    = (0 .. request[c].problem.m - 1) \X (0 .. request[c].problem.n - 1)
      BY DEF SuccessComputesEverything
    <3>1. \A t \in Crew(c) : runs[c][t] = 1
      BY <2>0 DEF ReturnInv
    <3>2. Crew(c) = TasksOf(c)
      BY <2>0, OneTaskEach
    <3>3. /\ request[c] \in Request /\ ValidProblem(request[c].problem)
          /\ grid[c] \in [rows: Nat, columns: Nat] /\ grid[c].rows > 0 /\ grid[c].columns > 0
      <4>1. NoRequest \in Request
        BY DEF NoRequest, Request, TensorVerdict
      <4> QED BY <4>1, <2>0, GemmConstantsAssumption DEF TypeOK, PlanInv
    <3>4. UNION {Rectangle(request[c].problem, grid[c], t) : t \in 0 .. Tasks(grid[c]) - 1}
            = (0 .. request[c].problem.m - 1) \X (0 .. request[c].problem.n - 1)
      BY <3>3, GridCovers
    <3> QED BY <3>1, <3>2, <3>4 DEF TasksOf
  <2>2. RefusalTouchesNothing
    <3> SUFFICES ASSUME NEW c \in Callers
        PROVE  /\ cpc[c] = "idle" /\ ret[c] \notin {"success", "worker_task_failed"} => ~Touched(c)
               /\ packFailed[c] => \A t \in Worker : runs[c][t] = 0
      BY DEF RefusalTouchesNothing
    <3>1. \A t \in Worker : runs[c][t] \in Nat /\ (runs[c][t] > 0 => image[c] = "complete")
      BY <2>0 DEF TypeOK, PackInv
    <3>2. image[c] = "untouched" => ~Touched(c) /\ \A t \in Worker : runs[c][t] = 0
      BY <3>1 DEF Touched
    <3> QED BY <3>2, <2>0 DEF PackInv, ReturnInv
  <2>3. FpRejectionIsReported /\ ReportCoversOwnSubmission
    BY <2>0 DEF ReturnInv, FpRejectionIsReported, ReportCoversOwnSubmission
  <2> QED BY <2>1, <2>2, <2>3 DEF ReturnIsTrue
<1> QED BY <1>1, GemmInvariant, PTL
=============================================================================
