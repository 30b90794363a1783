----------------------------- MODULE LaunchGraph -----------------------------
(***************************************************************************)
(* mc.launch and mc.graph: a launch runs at once, or is captured by the    *)
(* active graph, which finds out at its end which launches depend on which *)
(* by the arrays their kernels read and write, and runs them in an order   *)
(* of its own.  A buffer's content is a number that every kernel changes   *)
(* in a way of its own.                                                    *)
(***************************************************************************)
EXTENDS Naturals, Sequences, FiniteSets, SequencesExt

CONSTANTS
  Array,        \* arrays of the program
  BufferOf,     \* [Array -> buffer]: the memory an array or its base owns
  Device,       \* arrays that are DeviceTensors
  Kernel,       \* [name -> its parameters and operations]
  Call,         \* launches the program may make: kernel and its arrays
  MaxLaunches,  \* launches of the program
  MaxRuns       \* times a graph is executed

Buffer == {BufferOf[a] : a \in Array}

ConstantsAssumption ==
  /\ Device \subseteq Array /\ MaxLaunches \in Nat /\ MaxRuns \in Nat
  /\ \A c \in Call : c.kernel \in DOMAIN Kernel /\ c.args \in [DOMAIN Kernel[c.kernel].params -> Array]
  /\ \A a, b \in Array : BufferOf[a] = BufferOf[b] => (a \in Device <=> b \in Device)

VARIABLES
  content,  \* [Buffer -> number]
  eager,    \* what content would be had every launch run at once
  active,   \* a graph is on the stack
  nodes,    \* launches captured by the graph: kernel and arguments
  order,    \* execution_order of the analysis
  position, \* nodes executed in this run
  runs,     \* executions of the graph
  launches, \* launches so far
  early,    \* a graph cleared a device output at another moment than its launch
  phase     \* program, executing, failed

vars == <<content, eager, active, nodes, order, position, runs, launches, early, phase>>

Modulus == 9973

------------------------------------------------------------------------------
(* What a kernel does, and what the graph thinks it does. *)

Ops(node) == Kernel[node.kernel].ops
Params(node) == Kernel[node.kernel].params
Argument(node, symbol) == node.args[CHOOSE i \in DOMAIN Params(node) : Params(node)[i] = symbol]
Output(node) == BufferOf[Last(node.args)]

\* The native module: a product or a difference of two arrays or a function
\* of one, put into the last.  A product is added to its output, which the
\* executor clears before every invocation, on the host and on the device.
Product(node) == Head(Ops(node)).op = "matmul"

Native(node, memory) ==
  LET before == IF Product(node) THEN [memory EXCEPT ![Output(node)] = 0] ELSE memory
      at(i) == before[BufferOf[node.args[i]]]
      value == CASE Product(node) -> before[Output(node)] + (3 * at(1)) + (7 * at(2)) + 1
                 [] Len(node.args) = 3 -> (11 * at(1)) + (13 * at(2)) + 3
                 [] OTHER -> (5 * at(1)) + 2
  IN  [memory EXCEPT ![Output(node)] = value % Modulus]

\* _infer_read_write_sets: a store writes its tensor; every other parameter an
\* operation names is read.
WriteSymbols(ops) == {ops[i].tensor : i \in {j \in DOMAIN ops : ops[j].op = "store"}}
ReadSymbols(node) ==
  {s \in Range(Params(node)) :
     \E i \in DOMAIN Ops(node) : \E f \in DOMAIN Ops(node)[i] :
       Ops(node)[i][f] = s /\ ~(Ops(node)[i].op = "store" /\ f = "tensor")}

Owners(node, symbols) == {BufferOf[Argument(node, s)] : s \in symbols}
Reads(node) == Owners(node, ReadSymbols(node))
Writes(node) == Owners(node, WriteSymbols(Ops(node)))

\* _has_alias_overlap, for arrays resolved to the owner of their memory.
Overlap(left, right) == left \cap right # {}

Hazards(p, c) ==
  {h \in {"RAW", "WAW", "WAR"} :
     CASE h = "RAW" -> Overlap(Writes(p), Reads(c))
       [] h = "WAW" -> Overlap(Writes(p), Writes(c))
       [] h = "WAR" -> Overlap(Reads(p), Writes(c))}
Edges(ns) ==
  {e \in (DOMAIN ns) \X (DOMAIN ns) : e[1] < e[2] /\ Hazards(ns[e[1]], ns[e[2]]) # {}}

------------------------------------------------------------------------------
(* Orders. *)

Sorted(s) == SetToSortSeq(s, <)
InDegree(edges, n) == Cardinality({e \in edges : e[2] = n})

\* Nodes that are ready once `done` are finished and were not before the last.
Released(edges, done, last) ==
  {e[2] : e \in {x \in edges : x[1] = last /\ \A y \in edges : y[2] = x[2] => y[1] \in done}}

\* _stable_topological_order: first in, first out.
TopologicalOrder(ns) ==
  LET edges == Edges(ns)
      ready == Sorted({n \in DOMAIN ns : InDegree(edges, n) = 0})
      step(s, i) ==
        IF s.ready = <<>> THEN s
        ELSE LET current == Head(s.ready)
                 finished == Append(s.order, current)
             IN  [order |-> finished,
                  ready |-> Tail(s.ready) \o Sorted(Released(edges, Range(finished), current))]
  IN  FoldLeft(step, [order |-> <<>>, ready |-> ready], [i \in DOMAIN ns |-> i]).order

\* _parallelizable_levels: all that is ready is one level.
ParallelLevels(ns) ==
  LET edges == Edges(ns)
      level[n \in DOMAIN ns] ==
        LET before == {e[1] : e \in {x \in edges : x[2] = n}}
        IN  IF before = {} THEN 1
            ELSE 1 + (CHOOSE m \in {level[b] : b \in before} : \A b \in before : level[b] <= m)
  IN  level

------------------------------------------------------------------------------
(* The program. *)

\* _validate_tensor_residency and _require_device_tensor_target.
SameResidency(args) == Range(args) \subseteq Device \/ Range(args) \cap Device = {}

\* launch clears the last of more than two device tensors before it runs or
\* captures the kernel.
Clears(node) ==
  IF Len(node.args) > 2 /\ Range(node.args) \subseteq Device THEN {Output(node)} ELSE {}
Zeroed(node, memory) == [b \in Buffer |-> IF b \in Clears(node) THEN 0 ELSE memory[b]]

Launchable(node) ==
  phase = "program" /\ launches < MaxLaunches /\ SameResidency(node.args)

LaunchNow(node) ==
  /\ ~active /\ Launchable(node)
  /\ content' = Native(node, Zeroed(node, content))
  /\ eager' = Native(node, Zeroed(node, eager))
  /\ launches' = launches + 1
  /\ UNCHANGED <<active, nodes, order, position, runs, early, phase>>

\* In a graph the output is cleared at once and the launch is kept.
Capture(node) ==
  /\ active /\ Launchable(node)
  /\ content' = Zeroed(node, content)
  /\ eager' = Native(node, Zeroed(node, eager))
  /\ nodes' = Append(nodes, node)
  /\ launches' = launches + 1
  /\ UNCHANGED <<active, order, position, runs, early, phase>>
EnterGraph ==
  /\ phase = "program" /\ ~active
  /\ active' = TRUE /\ nodes' = <<>> /\ runs' = 0
  /\ UNCHANGED <<content, eager, order, position, launches, early, phase>>

\* An exception in the body, a launch of mixed residency among others: the
\* graph is popped and what it captured is dropped.
BodyRaises ==
  /\ active /\ phase = "program"
  /\ active' = FALSE /\ phase' = "failed"
  /\ UNCHANGED <<content, eager, nodes, order, position, runs, launches, early>>

\* Clearing at the capture is clearing at the launch, unless a launch reads
\* what only a later one should have cleared, or, into its own output, what an
\* earlier one has written since.
ClearedEarly(ns) ==
  \E n \in DOMAIN ns : \E b \in {BufferOf[a] : a \in Range(Front(ns[n].args))} :
    LET written == \E k \in 1..(n - 1) : Output(ns[k]) = b
    IN  IF b \in Clears(ns[n]) THEN written /\ ~Product(ns[n])
        ELSE ~written /\ \E m \in (n + 1)..Len(ns) : b \in Clears(ns[m])

\* A graph that is executed again clears no device output before a kernel.
ReadsItsOutput(node) ==
  ~Product(node) /\ \E a \in Range(Front(node.args)) : BufferOf[a] \in Clears(node)

\* The end of the body: pop, analyze, execute.
LeaveGraph ==
  /\ active /\ phase = "program"
  /\ active' = FALSE /\ phase' = "executing"
  /\ order' = TopologicalOrder(nodes) /\ position' = 0 /\ runs' = 1
  /\ early' = (early \/ ClearedEarly(nodes))
  /\ UNCHANGED <<content, eager, nodes, launches>>

ExecuteNode ==
  /\ phase = "executing" /\ position < Len(order)
  /\ \/ content' = Native(nodes[order[position + 1]], content) /\ UNCHANGED phase
     \/ phase' = "failed" /\ UNCHANGED content
  /\ position' = position + 1
  /\ UNCHANGED <<eager, active, nodes, order, runs, launches, early>>

Executed ==
  /\ phase = "executing" /\ position = Len(order)
  /\ phase' = "program"
  /\ UNCHANGED <<content, eager, active, nodes, order, position, runs, launches, early>>

\* FusionGraph.execute once more, with the analysis it has.
ExecuteAgain ==
  /\ phase = "program" /\ ~active /\ runs \in 1..(MaxRuns - 1)
  /\ phase' = "executing" /\ position' = 0 /\ runs' = runs + 1
  /\ eager' = FoldLeft(LAMBDA m, n : Native(n, Zeroed(n, m)), eager, nodes)
  /\ early' = (early \/ \E n \in Range(nodes) : ReadsItsOutput(n))
  /\ UNCHANGED <<content, active, nodes, order, launches>>

Init ==
  /\ content \in {[b \in Buffer |-> IF b = one THEN 1 ELSE 0] : one \in Buffer}
  /\ eager = content /\ active = FALSE /\ nodes = <<>> /\ order = <<>>
  /\ position = 0 /\ runs = 0 /\ launches = 0 /\ early = FALSE
  /\ phase = "program"

Next ==
  \/ \E node \in Call : LaunchNow(node) \/ Capture(node)
  \/ EnterGraph \/ BodyRaises \/ LeaveGraph \/ ExecuteNode \/ Executed \/ ExecuteAgain

Spec == Init /\ [][Next]_vars

------------------------------------------------------------------------------
(* Properties. *)

\* A graph, however its nodes were reordered and however often it ran, leaves
\* memory as the same launches would have left it one by one, unless it cleared
\* a device output at another moment than they: a launch under mc.graph()
\* clears its device output when it is captured, not when it runs.
GraphMatchesEager == (phase = "program" /\ ~active /\ ~early) => content = eager

\* The memory a kernel really touches, by what the native module does.
Touches(node) == {BufferOf[a] : a \in Range(node.args)}
Modifies(node) == {Output(node)}

\* Nodes reported as one parallel level touch nothing another of them writes,
\* and every node is executed once, after all the nodes of lower levels it
\* depends on.
LevelsAreIndependent ==
  (phase = "executing" /\ position = 0) =>
    /\ LET levels == ParallelLevels(nodes)
       IN  \A m, n \in DOMAIN nodes :
             (m # n /\ Touches(nodes[m]) \cap Modifies(nodes[n]) # {}) => levels[m] # levels[n]
    /\ Range(order) = DOMAIN nodes /\ Len(order) = Len(nodes)
=============================================================================
