------------------------------ MODULE GpuPlan ------------------------------
(***************************************************************************)
(* MatcorePlan::execute on a GPU: plain execution, the warm-up and capture *)
(* of a CUDA graph on the first call, its replay afterwards; below it the  *)
(* runtime entry points the compiled host code calls (module, function,    *)
(* stream), which consult thread-local state while a graph is captured.    *)
(* The kernels accumulate into an output that must be zeroed first.  The   *)
(* null stream clears it, the kernel runs on a stream of its own that does *)
(* not wait for the null stream: the two race.                             *)
(***************************************************************************)
EXTENDS Integers, FiniteSets, Sequences, SequencesExt

CONSTANTS
  Thread,
  Plan,          \* plans of the program
  Launches,      \* [Plan -> functions its kernel launches, in order]
  GraphMode,     \* plans made with graph_mode=True
  Address,       \* device addresses of output tensors
  Stream,        \* streams the driver can create
  MaxPooled,     \* kMaxPooledStreams
  CaptureFails,  \* cuStreamBeginCapture may fail
  MaxCalls       \* calls of execute over a behaviour

ConstantsAssumption ==
  /\ GraphMode \subseteq Plan /\ MaxPooled \in Nat /\ MaxCalls \in Nat
  /\ CaptureFails \in BOOLEAN

Nothing == "none"

VARIABLES
  pc, plan, address,  \* what each thread executes, and on which output
  step,               \* [Thread -> launches of the invocation done so far]
  override,           \* g_capture_stream_override: the plan whose stream it is
  cacheOf,            \* g_capture_module_cache: [function, active, warmup]
  stream,             \* [Thread -> stream of the launch under way]
  graph,              \* [Plan -> what its capture recorded]
  exec,               \* [Plan -> the instantiated graph, <<>> before]
  captured,           \* [Plan -> captured address, or Nothing]
  capturing,          \* plans whose stream is being captured
  pooled,             \* free_streams_ of the stream pool
  busy,               \* streams handed out
  loaded,             \* functions whose module is loaded, with a count
  nullQueue,          \* work on the null stream
  queue,              \* [Stream \cup Plan -> work on a stream]
  memory,             \* [Address -> what has accumulated since it was zeroed]
  raced,              \* outputs whose latest call had work run beside a pending memset
  calls

thread == <<pc, plan, address, step, override, cacheOf, stream>>
graphs == <<graph, exec, captured, capturing>>
device == <<nullQueue, queue, memory, raced>>
vars == <<thread, graphs, pooled, busy, loaded, device, calls>>

Function == UNION {ToSet(Launches[p]) : p \in Plan}
NoCache == [function |-> Nothing, active |-> FALSE, warmup |-> FALSE]

Init ==
  /\ pc = [t \in Thread |-> "idle"] /\ plan = [t \in Thread |-> Nothing]
  /\ address = [t \in Thread |-> Nothing] /\ step = [t \in Thread |-> 0]
  /\ override = [t \in Thread |-> Nothing] /\ cacheOf = [t \in Thread |-> NoCache]
  /\ stream = [t \in Thread |-> Nothing]
  /\ graph = [p \in Plan |-> <<>>] /\ exec = [p \in Plan |-> <<>>]
  /\ captured = [p \in Plan |-> Nothing] /\ capturing = {}
  /\ pooled = <<>> /\ busy = {}
  /\ loaded = [f \in Function |-> 0]
  /\ nullQueue = <<>> /\ queue = [s \in Stream \cup Plan |-> <<>>]
  /\ memory = [a \in Address |-> <<>>] /\ raced = {}
  /\ calls = 0

Goto(t, next) == pc' = [pc EXCEPT ![t] = next]
Zero(a) == [op |-> "zero", at |-> a]
Run(f, a) == [op |-> f, at |-> a]

------------------------------------------------------------------------------
(* execute *)

\* The tensors match the frozen metadata: a mismatch throws and changes
\* nothing.  A plan is executed by one thread at a time.
Execute(t, p, a) ==
  /\ pc[t] = "idle" /\ calls < MaxCalls
  /\ \A u \in Thread : pc[u] # "idle" => plan[u] # p /\ address[u] # a
  /\ calls' = calls + 1
  /\ plan' = [plan EXCEPT ![t] = p] /\ address' = [address EXCEPT ![t] = a]
  /\ Goto(t, IF p \in GraphMode THEN IF captured[p] # Nothing THEN "replay" ELSE "warm" ELSE "zero")
  /\ raced' = raced \ {a}
  /\ UNCHANGED <<step, override, cacheOf, stream, graphs, pooled, busy, loaded,
                 nullQueue, queue, memory>>

Return(t) ==
  /\ pc[t] = "returned"
  /\ Goto(t, "idle")
  /\ plan' = [plan EXCEPT ![t] = Nothing] /\ address' = [address EXCEPT ![t] = Nothing]
  /\ UNCHANGED <<step, override, cacheOf, stream, graphs, pooled, busy, loaded, device, calls>>

\* Fault: the graph is launched whatever the tensors are.
ReplayAllowed_Any(t) == TRUE

\* A graph has its addresses baked in.
ReplayAllowed(t) == captured[plan[t]] = address[t]

Replay(t) ==
  LET p == plan[t]
  IN /\ pc[t] = "replay"
     /\ IF ReplayAllowed(t)
          THEN /\ queue' = [queue EXCEPT ![p] = @ \o exec[p]]
               /\ Goto(t, "replayed")
          ELSE /\ UNCHANGED queue
               /\ Goto(t, "threw")
     /\ UNCHANGED <<plan, address, step, override, cacheOf, stream, graphs, pooled, busy,
                    loaded, nullQueue, memory, raced, calls>>

\* matcore_stream_synchronize of the graph's stream.
Replayed(t) ==
  /\ pc[t] = "replayed" /\ queue[plan[t]] = <<>>
  /\ Goto(t, "returned")
  /\ UNCHANGED <<plan, address, step, override, cacheOf, stream, graphs, pooled, busy,
                 loaded, device, calls>>

\* The call throws to Python.
Throw(t) ==
  /\ pc[t] = "threw"
  /\ Goto(t, "idle")
  /\ plan' = [plan EXCEPT ![t] = Nothing] /\ address' = [address EXCEPT ![t] = Nothing]
  /\ UNCHANGED <<step, override, cacheOf, stream, graphs, pooled, busy, loaded, device, calls>>

\* zeroOutputs: matcore_device_zero_raw queues a memset on the null stream.
ZeroOutputs(t) ==
  /\ pc[t] = "zero"
  /\ nullQueue' = Append(nullQueue, Zero(address[t]))
  /\ step' = [step EXCEPT ![t] = 0]
  /\ Goto(t, "invoke")
  /\ UNCHANGED <<plan, address, override, cacheOf, stream, graphs, pooled, busy, loaded,
                 queue, memory, raced, calls>>

\* matcore_set_graph_warmup(true): the cache starts empty.
StartWarmup(t) ==
  /\ pc[t] = "warm"
  /\ cacheOf' = [cacheOf EXCEPT ![t].warmup = TRUE, ![t].function = Nothing]
  /\ Goto(t, "zero")
  /\ UNCHANGED <<plan, address, step, override, stream, graphs, pooled, busy, loaded, device, calls>>

\* matcore_set_capture_stream_override, after the warm-up's end.
SetCaptureStreamOverride(t, p) ==
  /\ override' = [override EXCEPT ![t] = p]
  /\ cacheOf' = [cacheOf EXCEPT ![t].active = (p # Nothing), ![t].warmup = FALSE]

EndWarmup(t) ==
  /\ pc[t] = "invoked" /\ cacheOf[t].warmup
  /\ SetCaptureStreamOverride(t, plan[t])
  /\ Goto(t, "begin")
  /\ UNCHANGED <<plan, address, step, stream, graphs, pooled, busy, loaded, device, calls>>

\* matcore_graph_begin_capture, and zeroOutputsOnStream into the capture.
BeginCapture(t) ==
  LET p == plan[t]
  IN /\ pc[t] = "begin"
     /\ \/ /\ capturing' = capturing \cup {p}
           /\ graph' = [graph EXCEPT ![p] = <<Zero(address[t])>>]
           /\ step' = [step EXCEPT ![t] = 0]
           /\ Goto(t, "invoke")
        \/ /\ CaptureFails
           /\ Goto(t, "threw")
           /\ UNCHANGED <<capturing, graph, step>>
     /\ UNCHANGED <<plan, address, override, cacheOf, stream, exec, captured, pooled, busy,
                    loaded, device, calls>>

\* The override is reset, the capture ended and instantiated, the addresses
\* recorded.  The capture itself has executed nothing: the warm-up's result
\* stands.
EndCapture(t) ==
  LET p == plan[t]
  IN /\ pc[t] = "invoked" /\ plan[t] \in GraphMode /\ ~cacheOf[t].warmup
     /\ SetCaptureStreamOverride(t, Nothing)
     /\ capturing' = capturing \ {p}
     /\ exec' = [exec EXCEPT ![p] = graph[p]]
     /\ captured' = [captured EXCEPT ![p] = address[t]]
     /\ Goto(t, "returned")
     /\ UNCHANGED <<plan, address, step, stream, graph, pooled, busy, loaded, device, calls>>

\* The engine cannot run the kernel: warm-up and capture are undone first.
InvokeFails(t) ==
  /\ pc[t] = "invoke" /\ step[t] = 0
  /\ IF plan[t] \in GraphMode
       THEN SetCaptureStreamOverride(t, IF cacheOf[t].warmup THEN override[t] ELSE Nothing)
       ELSE UNCHANGED <<override, cacheOf>>
  /\ capturing' = capturing \ {plan[t]}
  /\ Goto(t, "threw")
  /\ UNCHANGED <<plan, address, step, stream, graph, exec, captured, pooled, busy, loaded, device, calls>>

FinishPlain(t) ==
  /\ pc[t] = "invoked" /\ plan[t] \notin GraphMode
  /\ Goto(t, "returned")
  /\ UNCHANGED <<plan, address, step, override, cacheOf, stream, graphs, pooled, busy,
                 loaded, device, calls>>

------------------------------------------------------------------------------
(* The compiled host code: for every launch load, look up, run, unload. *)

Wanted(t) == Launches[plan[t]][step[t] + 1]
InCapture(t) == override[t] # Nothing /\ cacheOf[t].active

\* mgpuModuleLoadJIT: during a capture the module of the warm-up.
ModuleLoadJIT(t) ==
  /\ pc[t] = "invoke" /\ step[t] < Len(Launches[plan[t]])
  /\ loaded' = IF InCapture(t) /\ cacheOf[t].function # Nothing THEN loaded
                 ELSE [loaded EXCEPT ![Wanted(t)] = @ + 1]
  /\ Goto(t, "function")
  /\ UNCHANGED <<plan, address, step, override, cacheOf, stream, graphs, pooled, busy,
                 device, calls>>

\* mgpuModuleGetFunction: during a capture the function of the warm-up.
FunctionOf(t) ==
  IF InCapture(t) /\ cacheOf[t].function # Nothing THEN cacheOf[t].function ELSE Wanted(t)

ModuleGetFunction(t) ==
  /\ pc[t] = "function"
  /\ cacheOf' = [cacheOf EXCEPT ![t].function = FunctionOf(t)]
  /\ Goto(t, "stream")
  /\ UNCHANGED <<plan, address, step, override, stream, graphs, pooled, busy, loaded, device, calls>>

\* GpuStreamPool::acquire: a pooled stream, or a new one.
PoolAcquire(t) ==
  \/ /\ pooled # <<>>
     /\ stream' = [stream EXCEPT ![t] = Last(pooled)]
     /\ pooled' = Front(pooled) /\ busy' = busy \cup {Last(pooled)}
  \/ /\ pooled = <<>>
     /\ \E s \in Stream \ busy :
          stream' = [stream EXCEPT ![t] = s] /\ busy' = busy \cup {s}
     /\ UNCHANGED pooled

\* GpuStreamPool::release: beyond its limit the pool destroys the stream.
PoolRelease(s) ==
  /\ busy' = busy \ {s}
  /\ pooled' = IF Len(pooled) < MaxPooled THEN Append(pooled, s) ELSE pooled

\* mgpuStreamCreate: the capture's stream, or one of the pool.
StreamCreate(t) ==
  /\ pc[t] = "stream"
  /\ \/ /\ override[t] # Nothing
        /\ stream' = [stream EXCEPT ![t] = override[t]]
        /\ UNCHANGED <<pooled, busy>>
     \/ override[t] = Nothing /\ PoolAcquire(t)
  /\ Goto(t, "launch")
  /\ UNCHANGED <<plan, address, step, override, cacheOf, graphs, loaded, device, calls>>

\* mgpuLaunchKernel: recorded by a capture, queued otherwise.
LaunchKernel(t) ==
  LET work == Run(cacheOf[t].function, address[t])
      s == stream[t]
  IN /\ pc[t] = "launch"
     /\ IF s \in capturing
          THEN graph' = [graph EXCEPT ![s] = Append(@, work)] /\ UNCHANGED queue
          ELSE queue' = [queue EXCEPT ![s] = Append(@, work)] /\ UNCHANGED graph
     /\ Goto(t, "synchronize")
     /\ UNCHANGED <<plan, address, step, override, cacheOf, stream, exec, captured, capturing,
                    pooled, busy, loaded, nullQueue, memory, raced, calls>>

\* mgpuStreamSynchronize: skipped for a stream that is being captured.
StreamIdle(t) == stream[t] \in capturing \/ queue[stream[t]] = <<>>

\* Then mgpuStreamDestroy gives the stream back, unless it is the capture's.
StreamDestroy(t) ==
  LET s == stream[t]
  IN /\ pc[t] = "synchronize" /\ StreamIdle(t)
     /\ \/ s = override[t] /\ UNCHANGED <<pooled, busy>>
        \/ s # override[t] /\ PoolRelease(s)
     /\ Goto(t, "unload")
     /\ UNCHANGED <<plan, address, step, override, cacheOf, stream, graphs, loaded, device, calls>>

\* mgpuModuleUnload leaves the module alone during warm-up and capture.
KeepsModule(t) == cacheOf[t].active \/ cacheOf[t].warmup

ModuleUnload(t) ==
  /\ pc[t] = "unload"
  /\ loaded' = IF KeepsModule(t) THEN loaded ELSE [loaded EXCEPT ![cacheOf[t].function] = @ - 1]
  /\ step' = [step EXCEPT ![t] = @ + 1]
  /\ Goto(t, IF step[t] + 1 = Len(Launches[plan[t]]) THEN "invoked" ELSE "invoke")
  /\ UNCHANGED <<plan, address, override, cacheOf, stream, graphs, pooled, busy, device, calls>>

\* ~MatcorePlan: the instantiated graph goes.
Destroy(p) ==
  /\ captured[p] # Nothing /\ \A t \in Thread : plan[t] # p
  /\ exec' = [exec EXCEPT ![p] = <<>>] /\ captured' = [captured EXCEPT ![p] = Nothing]
  /\ graph' = [graph EXCEPT ![p] = <<>>]
  /\ UNCHANGED <<thread, capturing, pooled, busy, loaded, device, calls>>

------------------------------------------------------------------------------
(* The device: streams in order, among each other in any.  The streams are *)
(* non-blocking: the null stream orders nothing but itself.                *)

Apply(work) ==
  memory' = [memory EXCEPT ![work.at] = IF work.op = "zero" THEN <<>> ELSE Append(@, work.op)]

\* A memset of this output is still on the null stream.
Clearing(a) == \E i \in DOMAIN nullQueue : nullQueue[i].at = a

DeviceNull ==
  /\ nullQueue # <<>>
  /\ Apply(Head(nullQueue)) /\ nullQueue' = Tail(nullQueue)
  /\ UNCHANGED <<thread, graphs, pooled, busy, loaded, queue, raced, calls>>

DeviceStep(s) ==
  /\ queue[s] # <<>>
  /\ LET work == Head(queue[s]) IN
     /\ Apply(work)
     /\ raced' = IF Clearing(work.at) THEN raced \cup {work.at} ELSE raced
  /\ queue' = [queue EXCEPT ![s] = Tail(@)]
  /\ UNCHANGED <<thread, graphs, pooled, busy, loaded, nullQueue, calls>>

CallStep(t) ==
  \/ Return(t) \/ Throw(t) \/ Replay(t) \/ Replayed(t) \/ ZeroOutputs(t) \/ StartWarmup(t)
  \/ EndWarmup(t) \/ BeginCapture(t) \/ EndCapture(t) \/ FinishPlain(t) \/ InvokeFails(t)
  \/ ModuleLoadJIT(t) \/ ModuleGetFunction(t) \/ StreamCreate(t) \/ LaunchKernel(t)
  \/ StreamDestroy(t) \/ ModuleUnload(t)

Next ==
  \/ \E t \in Thread : CallStep(t) \/ \E p \in Plan, a \in Address : Execute(t, p, a)
  \/ \E p \in Plan : Destroy(p)
  \/ DeviceNull \/ \E s \in Stream \cup Plan : DeviceStep(s)

Spec == Init /\ [][Next]_vars
------------------------------------------------------------------------------
(* Properties. *)

\* A call that returns has left in its output what its kernel computes from
\* zero: every launch once, in order, whether plain, warmed up or replayed,
\* unless the device ran something of the call on the output before a memset of
\* it that the null stream still held.  Whatever the null stream clears in time
\* is right, and whatever a replay clears on its own stream.
ResultIsKernel ==
  \A t \in Thread : pc[t] = "returned" /\ address[t] \notin raced =>
    memory[address[t]] = Launches[plan[t]]

\* What the engine claims: "MatcorePlan::execute() zeroes the output buffer BEFORE
\* invoking the JIT function ... since C is pre-zeroed, the result is C = A*B"
\* (mlir_engine.cpp).  It does not hold: a kernel on a stream that does not wait
\* for the null stream may run first, and the memset then clears its result.
ZeroedBeforeInvoking ==
  \A t \in Thread : pc[t] = "returned" => memory[address[t]] = Launches[plan[t]]

\* A captured graph is the kernel: the zeroing and every launch, in order.
GraphHoldsKernel ==
  \A p \in Plan : captured[p] # Nothing =>
    /\ exec[p][1].op = "zero"
    /\ [i \in 1..Len(exec[p]) - 1 |-> exec[p][i + 1].op] = Launches[p]

\* The functions of a graph that may be replayed belong to loaded modules.
GraphModulesLoaded ==
  \A p \in Plan : captured[p] # Nothing =>
    \A i \in 2..Len(exec[p]) : loaded[exec[p][i].op] > 0

\* Outside a capture nothing is redirected: a thread that has returned to
\* Python, normally or not, allocates and runs on its own streams again.
OverrideMeansCapture ==
  \A t \in Thread : pc[t] = "idle" => override[t] = Nothing /\ ~cacheOf[t].warmup

\* A stream is with one thread or in the pool, and a pooled stream is idle.
StreamsAreExclusive ==
  /\ \A t, u \in Thread : t # u /\ {pc[t], pc[u]} \subseteq {"launch", "synchronize"} => stream[t] # stream[u]
  /\ \A i \in DOMAIN pooled : pooled[i] \notin busy /\ queue[pooled[i]] = <<>>
=============================================================================
