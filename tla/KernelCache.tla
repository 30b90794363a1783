----------------------------- MODULE KernelCache -----------------------------
(***************************************************************************)
(* compileAndRun: look an execution up in the memory of the process, load  *)
(* it from the disk cache, or compile it and publish it there, then zero   *)
(* the output and invoke it.  Threads of several processes share the       *)
(* directory of a cache key; nothing locks it, so every file operation is  *)
(* a step of its own, and a process may stop between any two of them.      *)
(***************************************************************************)
EXTENDS Naturals, FiniteSets, Sequences, TLAPS

CONSTANTS
  Process,      \* processes that share one cache directory
  Thread,       \* threads that call compileAndRun
  ProcessOf,    \* [Thread -> Process]
  VersionOf,    \* [Process -> versions of the extension that is loaded]
  Kernel,       \* requests a thread may make: records, see KernelOK
  Ineligible,   \* pairs <<process, kernel>>: its host cannot execute it
  MaxCalls,     \* calls of one thread over its lifetime
  MaxCrashes,   \* processes that stop, over a behaviour
  MaxClears,    \* files removed by cache_clear, over a behaviour
  KeepObject    \* MATCORE_KEEP_CACHE_OBJECT

\* A request: the kernel and what its tensors say of themselves.
KernelOK(k) ==
  /\ k.form \in {"region", "graph", "elementwise", "matmul"}
  /\ Len(k.ops) > 0              \* operations or nodes, [kind, attrs] each
  /\ Len(k.tensors) \in 2..16    \* dtype and shape of each tensor
  /\ k.onDisk \in BOOLEAN        \* isDiskCacheSupported(target)

ConstantsAssumption ==
  /\ ProcessOf \in [Thread -> Process]
  /\ DOMAIN VersionOf = Process
  /\ \A k \in Kernel : KernelOK(k)
  /\ Ineligible \subseteq Process \X Kernel
  /\ MaxCalls \in Nat /\ MaxCrashes \in Nat /\ MaxClears \in Nat
  /\ KeepObject \in BOOLEAN

VARIABLES
  memory,    \* [Process -> [directory -> execution or NoExecution]]
  object,    \* kernel.o of each directory:  [image, by]
  library,   \* kernel.so of each directory: [image, by]
  metadata,  \* metadata.json of each directory
  pc,        \* where each thread is in its call
  request,   \* the kernel of the call, and whether it forces a compilation
  execution, \* the execution the call works with
  zeroed,    \* the output was zeroed before the entry point ran
  calls,     \* calls each thread has made
  crashes, clears

vars == <<memory, object, library, metadata, pc, request, execution, zeroed,
          calls, crashes, clears>>

files == <<object, library, metadata>>

------------------------------------------------------------------------------
(* Lowering, keys and files. *)

\* What BuildAndLower records of a kernel, by the form of the kernel: the
\* prefix of its entry point, the tensors it takes, and whether it adds to
\* what its output holds.
LowerRegion(k) == [fused |-> TRUE, arity |-> Len(k.tensors), zeroing |-> FALSE]

LowerGraph(k) ==
  [fused |-> TRUE, arity |-> Len(k.tensors),
   zeroing |-> \E i \in DOMAIN k.ops : k.ops[i].kind = "matmul"]

UnaryKinds == {"exp", "log", "sqrt", "tanh", "sigmoid", "gelu", "relu", "neg",
               "abs", "softmax", "sin", "cos", "rsqrt"}

LowerElementwise(k) ==
  [fused |-> FALSE, arity |-> IF k.ops[1].attrs \in UnaryKinds THEN 2 ELSE 3,
   zeroing |-> FALSE]

LowerMatmul(k) == [fused |-> FALSE, arity |-> 3, zeroing |-> TRUE]

Lower(k) ==
  CASE k.form = "region" -> LowerRegion(k)
    [] k.form = "graph" -> LowerGraph(k)
    [] k.form = "elementwise" -> LowerElementwise(k)
    [] OTHER -> LowerMatmul(k)

\* appendKernelStructure: every attribute of the nodes of a region or a graph,
\* but only the kind of an operation of a linear kernel.
Structure(k) ==
  IF k.form \in {"region", "graph"} THEN k.ops ELSE [i \in DOMAIN k.ops |-> k.ops[i].kind]

\* buildExecutionCacheKey: of the tensors, the first three.
CacheKey(k) ==
  <<k.name, k.target, Structure(k), [i \in DOMAIN k.tensors \cap 1..3 |-> k.tensors[i]]>>

\* Fault: the version is not hashed.
Directory_NoVersion(p, k) == <<"any", CacheKey(k)>>

\* The directory is the MD5 of the cache version and the key.
Directory(p, k) == <<VersionOf[p], CacheKey(k)>>

Directories == {Directory(p, k) : p \in Process, k \in Kernel}

\* The code a compilation of k by process p produces: another version of the
\* extension emits other code.
CodeOf(p, k) == <<VersionOf[p], k.form, k.ops, k.tensors>>

Absent == [image |-> <<>>, by |-> "nobody"]
Partial(t) == [image |-> <<"partial">>, by |-> t]
Complete(t, k) == [image |-> <<"complete", CodeOf(ProcessOf[t], k), Lower(k).fused>>, by |-> t]
IsComplete(f) == f.image # <<>> /\ f.image[1] = "complete"

NoMetadata == <<>>
BrokenMetadata == <<"broken">>
MetadataOf(k) == <<"metadata", Lower(k).arity, Lower(k).zeroing>>

NoExecution == <<>>
NoRequest == <<>>

Dir(t) == Directory(ProcessOf[t], request[t].kernel)

Denied(t) == <<ProcessOf[t], request[t].kernel>> \in Ineligible

\* Members of LoweredModule that BuildAndLower sets and that the loader
\* restores; the loader starts from the defaults of the structure.
DefaultCount == 3
DefaultZeroing == TRUE

Compiled(t, k) ==
  [code |-> CodeOf(ProcessOf[t], k), count |-> Lower(k).arity, zeroing |-> Lower(k).zeroing,
   from |-> "compiler", by |-> <<t, calls[t]>>]
Loaded(t, code, meta) ==
  [code |-> code,
   count |-> IF Len(meta) = 3 THEN meta[2] ELSE DefaultCount,
   zeroing |-> IF Len(meta) = 3 THEN meta[3] ELSE DefaultZeroing,
   from |-> "disk", by |-> <<t, calls[t]>>]

Init ==
  /\ memory = [p \in Process |-> [d \in Directories |-> NoExecution]]
  /\ object = [d \in Directories |-> Absent]
  /\ library = [d \in Directories |-> Absent]
  /\ metadata = [d \in Directories |-> NoMetadata]
  /\ pc = [t \in Thread |-> "idle"]
  /\ request = [t \in Thread |-> NoRequest]
  /\ execution = [t \in Thread |-> NoExecution]
  /\ zeroed = [t \in Thread |-> FALSE]
  /\ calls = [t \in Thread |-> 0]
  /\ crashes = 0 /\ clears = 0

------------------------------------------------------------------------------
(* The steps of a call. *)

Goto(t, next) == pc' = [pc EXCEPT ![t] = next]

\* The call ends; the observability context of the thread is reset either way.
End(t) ==
  /\ Goto(t, "idle")
  /\ execution' = [execution EXCEPT ![t] = NoExecution]
  /\ request' = [request EXCEPT ![t] = NoRequest]
  /\ zeroed' = [zeroed EXCEPT ![t] = FALSE]

Throw(t) == End(t)

Call(t) ==
  /\ pc[t] = "idle" /\ calls[t] < MaxCalls
  /\ \E k \in Kernel, force \in BOOLEAN :
       request' = [request EXCEPT ![t] = [kernel |-> k, force |-> force]]
  /\ calls' = [calls EXCEPT ![t] = @ + 1]
  /\ Goto(t, IF request'[t].force THEN "compile" ELSE "lookup")
  /\ UNCHANGED <<memory, files, execution, zeroed, crashes, clears>>

\* Under cache_mutex.
LookupMemory(t) ==
  LET hit == memory[ProcessOf[t]][Dir(t)]
  IN /\ pc[t] = "lookup"
     /\ IF hit # NoExecution
          THEN /\ execution' = [execution EXCEPT ![t] = hit]
               /\ Goto(t, "eligible")
          ELSE /\ Goto(t, "open") /\ UNCHANGED execution
     /\ UNCHANGED <<memory, files, request, zeroed, calls, crashes, clears>>

\* dlopen and dlsym.  A library that is being written or was left half written
\* does not load; the loader calls it corrupt, or reports some other error.
\* The symbol sought is the kernel's name, never with the prefix fused_.
OpenLibrary(t) ==
  LET f == library[Dir(t)]
  IN /\ pc[t] = "open"
     /\ IF IsComplete(f) /\ ~f.image[3]
          THEN /\ execution' = [execution EXCEPT ![t] = [code |-> f.image[2]]]
               /\ Goto(t, "metadata")
          ELSE /\ \/ f # Absent /\ Goto(t, "dropLibrary")
                  \/ ~IsComplete(f) /\ Goto(t, "compile")
               /\ UNCHANGED execution
     /\ request[t].kernel.onDisk
     /\ UNCHANGED <<memory, files, request, zeroed, calls, crashes, clears>>

SkipDisk(t) ==
  /\ pc[t] = "open" /\ ~request[t].kernel.onDisk
  /\ Goto(t, "compile")
  /\ UNCHANGED <<memory, files, request, execution, zeroed, calls, crashes, clears>>

\* removeDiskCacheArtifacts, first the library, then the object.
DropLibrary(t) ==
  /\ pc[t] = "dropLibrary"
  /\ library' = [library EXCEPT ![Dir(t)] = Absent]
  /\ Goto(t, "dropObject")
  /\ UNCHANGED <<memory, object, metadata, request, execution, zeroed, calls, crashes, clears>>

DropObject(t) ==
  /\ pc[t] = "dropObject"
  /\ object' = [object EXCEPT ![Dir(t)] = Absent]
  /\ Goto(t, "compile")
  /\ UNCHANGED <<memory, library, metadata, request, execution, zeroed, calls, crashes, clears>>

\* A file that is missing or does not parse leaves the defaults in place.
RestoreMetadata(t) ==
  /\ pc[t] = "metadata"
  /\ execution' = [execution EXCEPT ![t] = Loaded(t, @.code, metadata[Dir(t)])]
  /\ Goto(t, "insertLoaded")
  /\ UNCHANGED <<memory, files, request, zeroed, calls, crashes, clears>>

\* The execution that is in memory first stays.
Emplace(p, d, e) == IF memory[p][d] = NoExecution THEN e ELSE memory[p][d]

InsertLoaded(t) ==
  LET p == ProcessOf[t]
      selected == Emplace(p, Dir(t), execution[t])
  IN /\ pc[t] = "insertLoaded"
     /\ memory' = [memory EXCEPT ![p][Dir(t)] = selected]
     /\ execution' = [execution EXCEPT ![t] = selected]
     /\ Goto(t, "eligible")
     /\ UNCHANGED <<files, request, zeroed, calls, crashes, clears>>

\* validateExecutionEligibility of an execution that was found.
Eligible(t) ==
  /\ pc[t] = "eligible"
  /\ IF Denied(t)
       THEN Throw(t)
       ELSE Goto(t, "zero") /\ UNCHANGED <<execution, request, zeroed>>
  /\ UNCHANGED <<memory, files, calls, crashes, clears>>

\* BuildAndLower, the policy, eligibility, the engine and its symbols; each
\* may fail.
Compile(t) ==
  /\ pc[t] = "compile"
  /\ \/ /\ ~Denied(t)
        /\ execution' = [execution EXCEPT ![t] = Compiled(t, request[t].kernel)]
        /\ Goto(t, IF request[t].kernel.onDisk THEN "persist" ELSE "insert")
        /\ UNCHANGED <<request, zeroed>>
     \/ Throw(t)
  /\ UNCHANGED <<memory, files, calls, crashes, clears>>

\* A library that is there is not written again, not even by a forced
\* compilation.  Creating the directory may fail the call.
PersistStart(t) ==
  /\ pc[t] = "persist"
  /\ \/ /\ Goto(t, IF library[Dir(t)] # Absent THEN "insert" ELSE "removeObject")
        /\ UNCHANGED <<request, execution, zeroed>>
     \/ library[Dir(t)] = Absent /\ Throw(t)
  /\ UNCHANGED <<memory, files, calls, crashes, clears>>

RemoveOldObject(t) ==
  /\ pc[t] = "removeObject"
  /\ object' = [object EXCEPT ![Dir(t)] = Absent]
  /\ Goto(t, "dump")
  /\ UNCHANGED <<memory, library, metadata, request, execution, zeroed, calls, crashes, clears>>

\* dumpToObjectFile creates or truncates kernel.o and fills it.
DumpStart(t) ==
  /\ pc[t] = "dump"
  /\ \/ object' = [object EXCEPT ![Dir(t)] = Partial(t)]
     \/ UNCHANGED object                       \* the file cannot be opened
  /\ Goto(t, "dumping")
  /\ UNCHANGED <<memory, library, metadata, request, execution, zeroed, calls, crashes, clears>>

\* Only the file this thread created last becomes complete: a file another
\* thread removed or truncated meanwhile is that thread's.
DumpEnd(t) ==
  LET d == Dir(t)
      done == IF object[d] = Partial(t) THEN Complete(t, request[t].kernel) ELSE object[d]
  IN /\ pc[t] = "dumping"
     /\ object' = [object EXCEPT ![d] = done]
     /\ Goto(t, IF done = Absent THEN "insert" ELSE "link")
     /\ UNCHANGED <<memory, library, metadata, request, execution, zeroed, calls, crashes, clears>>

\* The linker reads kernel.o and creates kernel.so.
LinkStart(t) ==
  /\ pc[t] = "link"
  /\ IF IsComplete(object[Dir(t)])
       THEN library' = [library EXCEPT ![Dir(t)] = Partial(t)] /\ Goto(t, "linking")
       ELSE UNCHANGED library /\ Goto(t, "linkFailed")
  /\ UNCHANGED <<memory, object, metadata, request, execution, zeroed, calls, crashes, clears>>

LinkEnd(t) ==
  LET d == Dir(t)
  IN /\ pc[t] = "linking"
     /\ \/ /\ library' = [library EXCEPT ![d] = IF @ = Partial(t)
                                                  THEN Complete(t, request[t].kernel) ELSE @]
           /\ Goto(t, IF KeepObject THEN "writeMetadata" ELSE "linked")
        \/ UNCHANGED library /\ Goto(t, "linkFailed")
     /\ UNCHANGED <<memory, object, metadata, request, execution, zeroed, calls, crashes, clears>>

\* A failed link removes kernel.so, whoever wrote it, and fails the call.
LinkFailed(t) ==
  /\ pc[t] = "linkFailed"
  /\ library' = [library EXCEPT ![Dir(t)] = Absent]
  /\ Throw(t)
  /\ UNCHANGED <<memory, object, metadata, calls, crashes, clears>>

RemoveLinkedObject(t) ==
  /\ pc[t] = "linked"
  /\ object' = [object EXCEPT ![Dir(t)] = Absent]
  /\ Goto(t, "writeMetadata")
  /\ UNCHANGED <<memory, library, metadata, request, execution, zeroed, calls, crashes, clears>>

\* The stream truncates the file, then writes it; a failure is ignored.
MetadataStart(t) ==
  /\ pc[t] = "writeMetadata"
  /\ \/ metadata' = [metadata EXCEPT ![Dir(t)] = BrokenMetadata] /\ Goto(t, "writingMetadata")
     \/ UNCHANGED metadata /\ Goto(t, "insert")
  /\ UNCHANGED <<memory, object, library, request, execution, zeroed, calls, crashes, clears>>

MetadataEnd(t) ==
  /\ pc[t] = "writingMetadata"
  /\ metadata' = [metadata EXCEPT ![Dir(t)] = IF @ = BrokenMetadata
                                                THEN MetadataOf(request[t].kernel) ELSE @]
  /\ Goto(t, "insert")
  /\ UNCHANGED <<memory, object, library, request, execution, zeroed, calls, crashes, clears>>

\* A forced compilation replaces the execution in memory, any other keeps the
\* one that is there.
InsertCompiled(t) ==
  LET p == ProcessOf[t]
      selected == IF request[t].force THEN execution[t]
                                      ELSE Emplace(p, Dir(t), execution[t])
  IN /\ pc[t] = "insert"
     /\ memory' = [memory EXCEPT ![p][Dir(t)] = selected]
     /\ execution' = [execution EXCEPT ![t] = selected]
     /\ Goto(t, "zero")
     /\ UNCHANGED <<files, request, zeroed, calls, crashes, clears>>

ZeroOutputs(t) ==
  /\ pc[t] = "zero"
  /\ zeroed' = [zeroed EXCEPT ![t] = execution[t].zeroing]
  /\ Goto(t, "invoke")
  /\ UNCHANGED <<memory, files, request, execution, calls, crashes, clears>>

\* invokeCompiledKernel: the count of the execution chooses the form of the
\* call; more tensors than the caller has is an error.
Invoke(t) ==
  /\ pc[t] = "invoke"
  /\ IF execution[t].count > Len(request[t].kernel.tensors) THEN Throw(t) ELSE End(t)
  /\ UNCHANGED <<memory, files, calls, crashes, clears>>

------------------------------------------------------------------------------
(* The environment. *)

\* A process stops: its memory is gone, its files stay as they are.
Crash(p) ==
  LET mine == {t \in Thread : ProcessOf[t] = p}
  IN /\ crashes < MaxCrashes
     /\ crashes' = crashes + 1
     /\ memory' = [memory EXCEPT ![p] = [d \in Directories |-> NoExecution]]
     /\ pc' = [t \in Thread |-> IF t \in mine THEN "idle" ELSE pc[t]]
     /\ request' = [t \in Thread |-> IF t \in mine THEN NoRequest ELSE request[t]]
     /\ execution' = [t \in Thread |-> IF t \in mine THEN NoExecution ELSE execution[t]]
     /\ zeroed' = [t \in Thread |-> IF t \in mine THEN FALSE ELSE zeroed[t]]
     /\ UNCHANGED <<files, calls, clears>>

\* cache_clear of another process removes the tree file by file.
ClearFile ==
  /\ clears < MaxClears
  /\ clears' = clears + 1
  /\ \E d \in Directories :
       \/ object' = [object EXCEPT ![d] = Absent] /\ UNCHANGED <<library, metadata>>
       \/ library' = [library EXCEPT ![d] = Absent] /\ UNCHANGED <<object, metadata>>
       \/ metadata' = [metadata EXCEPT ![d] = NoMetadata] /\ UNCHANGED <<object, library>>
  /\ UNCHANGED <<memory, pc, request, execution, zeroed, calls, crashes>>

GetOrCreate(t) ==
  \/ LookupMemory(t) \/ OpenLibrary(t) \/ SkipDisk(t) \/ DropLibrary(t)
  \/ DropObject(t) \/ RestoreMetadata(t) \/ InsertLoaded(t) \/ Eligible(t)
  \/ Compile(t) \/ InsertCompiled(t)

Persist(t) ==
  \/ PersistStart(t) \/ RemoveOldObject(t) \/ DumpStart(t) \/ DumpEnd(t)
  \/ LinkStart(t) \/ LinkEnd(t) \/ LinkFailed(t) \/ RemoveLinkedObject(t)
  \/ MetadataStart(t) \/ MetadataEnd(t)

Step(t) == GetOrCreate(t) \/ Persist(t) \/ ZeroOutputs(t) \/ Invoke(t)

Next ==
  \/ \E t \in Thread : Call(t) \/ Step(t)
  \/ \E p \in Process : Crash(p)
  \/ ClearFile

Spec == Init /\ [][Next]_vars
------------------------------------------------------------------------------
(* Properties. *)

\* What a thread is about to run is the code its own version of the compiler
\* emits for the kernel it asked for, whoever published it, and never for a
\* kernel the host cannot execute.
RunsRequestedKernel ==
  \A t \in Thread : pc[t] \in {"zero", "invoke"} =>
    /\ execution[t].code = CodeOf(ProcessOf[t], request[t].kernel)
    /\ ~Denied(t)

\* A kernel that accumulates into its output runs on a zeroed output, also
\* when its metadata was lost.
AccumulatesFromZero ==
  \A t \in Thread : pc[t] = "invoke" /\ Lower(request[t].kernel).zeroing => zeroed[t]
------------------------------------------------------------------------------
(* The code that runs, for any processes, threads and kernels. *)

\* The key names only the kinds of the operations of a linear kernel, and the
\* first three tensors: kernels it confuses share a directory.  Among kernels
\* that it tells apart, one directory is for one code.
KeysIdentify ==
  \A p, q \in Process, k, l \in Kernel : Directory(p, k) = Directory(q, l) =>
    CodeOf(p, k) = CodeOf(q, l) /\ Lower(k).zeroing = Lower(l).zeroing

\* Such are kernels that differ in their name or their target.
LEMMA NamedKernels ==
  ASSUME \A k, l \in Kernel : k.name = l.name /\ k.target = l.target => k = l
  PROVE  KeysIdentify
  BY DEF KeysIdentify, Directory, CacheKey, CodeOf

\* What belongs into a directory: the code of every request that is kept
\* there, and an execution that zeroes the output of those that accumulate.
CodeIn(d, code) ==
  \A p \in Process, k \in Kernel : Directory(p, k) = d => code = CodeOf(p, k)
ZeroesIn(d, zeroing) ==
  \A p \in Process, k \in Kernel : Directory(p, k) = d /\ Lower(k).zeroing => zeroing
ExecutionIn(d, e) == CodeIn(d, e.code) /\ ZeroesIn(d, e.zeroing)

\* Every file and every execution in memory is where it belongs, whoever
\* wrote it.
StoreInv ==
  /\ DOMAIN library = Directories /\ DOMAIN metadata = Directories
  /\ DOMAIN memory = Process
  /\ \A d \in Directories :
       /\ IsComplete(library[d]) => CodeIn(d, library[d].image[2])
       /\ Len(metadata[d]) = 3 => ZeroesIn(d, metadata[d][3])
  /\ \A p \in Process :
       /\ DOMAIN memory[p] = Directories
       /\ \A d \in Directories : memory[p][d] # NoExecution => ExecutionIn(d, memory[p][d])

\* Where a call holds an execution that it loaded, found or compiled, and
\* where the host is known to run it.
Compiling == {"persist", "removeObject", "dump", "dumping", "link", "linking", "linkFailed",
              "linked", "writeMetadata", "writingMetadata", "insert"}
Admitted == Compiling \cup {"zero", "invoke"}
Holding == Admitted \cup {"insertLoaded", "eligible"}

CallInv(t) ==
  /\ pc[t] # "idle" => request[t].kernel \in Kernel
  /\ pc[t] = "metadata" => CodeIn(Dir(t), execution[t].code)
  /\ pc[t] \in Holding => ExecutionIn(Dir(t), execution[t])
  /\ pc[t] \in Admitted => ~Denied(t)
  /\ pc[t] = "invoke" /\ Lower(request[t].kernel).zeroing => zeroed[t]

ThreadInv ==
  /\ DOMAIN pc = Thread /\ DOMAIN request = Thread
  /\ DOMAIN execution = Thread /\ DOMAIN zeroed = Thread
  /\ \A t \in Thread : CallInv(t)

CacheInv == StoreInv /\ ThreadInv

\* A compilation produces what belongs into the directory of its request.
LEMMA CompiledBelongs ==
  ASSUME KeysIdentify, NEW p \in Process, NEW k \in Kernel
  PROVE  /\ Directory(p, k) \in Directories
         /\ CodeIn(Directory(p, k), CodeOf(p, k))
         /\ ZeroesIn(Directory(p, k), Lower(k).zeroing)
  BY DEF KeysIdentify, CodeIn, ZeroesIn, Directories

\* A thread that moves on, and touches no other thread.
Moves(t) ==
  /\ DOMAIN pc' = Thread /\ DOMAIN request' = Thread
  /\ DOMAIN execution' = Thread /\ DOMAIN zeroed' = Thread
  /\ \A u \in Thread \ {t} :
       /\ pc'[u] = pc[u] /\ request'[u] = request[u]
       /\ execution'[u] = execution[u] /\ zeroed'[u] = zeroed[u]

LEMMA MovingKeeps ==
  ASSUME CacheInv, NEW t \in Thread, Moves(t), CallInv(t)'
  PROVE  ThreadInv'
  <1>1. ASSUME NEW u \in Thread \ {t} PROVE CallInv(u)'
    BY <1>1 DEF CacheInv, ThreadInv, CallInv, Moves, Dir, Denied
  <1> QED BY <1>1 DEF Moves, ThreadInv

\* A call that ends leaves nothing behind.
LEMMA EndKeeps ==
  ASSUME CacheInv, NEW t \in Thread, End(t)
  PROVE  Moves(t) /\ CallInv(t)'
  BY DEF CacheInv, ThreadInv, CallInv, Moves, End, Goto, Holding, Admitted, Compiling

\* The steps that only work on the call keep the store.
LEMMA CallsKeep ==
  ASSUME ConstantsAssumption, KeysIdentify, CacheInv, NEW t \in Thread,
         \/ Call(t) \/ LookupMemory(t) \/ OpenLibrary(t) \/ SkipDisk(t) \/ RestoreMetadata(t)
         \/ Eligible(t) \/ Compile(t) \/ PersistStart(t) \/ ZeroOutputs(t) \/ Invoke(t)
  PROVE  CacheInv'
  <1> DEFINE p == ProcessOf[t]
  <1>1. p \in Process BY DEF ConstantsAssumption
  <1>2. UNCHANGED <<memory, library, metadata>>
    BY DEF Call, LookupMemory, OpenLibrary, SkipDisk, RestoreMetadata, Eligible, Compile,
           PersistStart, ZeroOutputs, Invoke, files
  <1>3. StoreInv' BY <1>2 DEF CacheInv, StoreInv
  <1>4. pc[t] # "idle" => Dir(t) \in Directories
    BY <1>1 DEF CacheInv, ThreadInv, CallInv, Dir, Directories
  <1>5. Moves(t) /\ CallInv(t)'
    <2> USE DEF CacheInv, ThreadInv, CallInv, Moves, Holding, Admitted, Compiling, Goto
    <2>1. CASE Call(t) BY <2>1 DEF Call
    <2>2. CASE LookupMemory(t)
      <3>1. Dir(t)' = Dir(t) BY <2>2 DEF LookupMemory, Dir
      <3>2. pc[t] = "lookup" BY <2>2 DEF LookupMemory
      <3>3. CASE memory[p][Dir(t)] # NoExecution
        BY <1>1, <1>4, <2>2, <3>1, <3>2, <3>3 DEF LookupMemory, StoreInv, ExecutionIn, CodeIn, ZeroesIn
      <3>4. CASE memory[p][Dir(t)] = NoExecution
        BY <2>2, <3>1, <3>4 DEF LookupMemory
      <3> QED BY <3>3, <3>4
    <2>3. CASE OpenLibrary(t)
      <3>1. Dir(t)' = Dir(t) BY <2>3 DEF OpenLibrary, Dir
      <3> QED BY <1>4, <2>3, <3>1 DEF OpenLibrary, StoreInv, CodeIn
    <2>4. CASE SkipDisk(t) BY <2>4 DEF SkipDisk, Dir
    <2>5. CASE RestoreMetadata(t)
      <3>1. Dir(t)' = Dir(t) BY <2>5 DEF RestoreMetadata, Dir
      <3>2. ExecutionIn(Dir(t), Loaded(t, execution[t].code, metadata[Dir(t)]))
        BY <1>4, <2>5 DEF RestoreMetadata, StoreInv, ExecutionIn, CodeIn, ZeroesIn, Loaded, DefaultZeroing
      <3> QED BY <2>5, <3>1, <3>2 DEF RestoreMetadata, ExecutionIn, CodeIn, ZeroesIn
    <2>6. CASE Eligible(t)
      <3>1. CASE Denied(t) BY <2>6, <3>1, EndKeeps DEF Eligible, Throw
      <3>2. CASE ~Denied(t) BY <2>6, <3>2 DEF Eligible, Dir, Denied, ExecutionIn, CodeIn, ZeroesIn
      <3> QED BY <3>1, <3>2
    <2>7. CASE Compile(t)
      <3>1. CASE Throw(t) BY <3>1, EndKeeps DEF Throw
      <3>2. CASE ~Throw(t)
        <4>1. request' = request /\ ~Denied(t) /\ pc[t] = "compile" BY <2>7, <3>2 DEF Compile
        <4>2. ExecutionIn(Dir(t), Compiled(t, request[t].kernel))
          BY <1>1, <4>1, CompiledBelongs DEF ExecutionIn, Compiled, Dir
        <4> QED BY <2>7, <3>2, <4>1, <4>2 DEF Compile, Dir, Denied, ExecutionIn, CodeIn, ZeroesIn
      <3> QED BY <3>1, <3>2
    <2>8. CASE PersistStart(t)
      <3>1. CASE Throw(t) BY <3>1, EndKeeps DEF Throw
      <3>2. CASE ~Throw(t)
        BY <2>8, <3>2 DEF PersistStart, Dir, Denied, ExecutionIn, CodeIn, ZeroesIn
      <3> QED BY <3>1, <3>2
    <2>9. CASE ZeroOutputs(t)
      <3>1. Lower(request[t].kernel).zeroing => execution[t].zeroing
        BY <1>1, <2>9 DEF ZeroOutputs, ExecutionIn, ZeroesIn, Dir
      <3> QED BY <2>9, <3>1 DEF ZeroOutputs, Dir, Denied, ExecutionIn, CodeIn, ZeroesIn
    <2>10. CASE Invoke(t) BY <2>10, EndKeeps DEF Invoke, Throw
    <2> QED BY <2>1, <2>2, <2>3, <2>4, <2>5, <2>6, <2>7, <2>8, <2>9, <2>10
  <1> QED BY <1>3, <1>5, MovingKeeps DEF CacheInv

\* The steps that write a file, or take an execution into memory.
LEMMA WritesKeep ==
  ASSUME ConstantsAssumption, KeysIdentify, CacheInv, NEW t \in Thread,
         \/ DropLibrary(t) \/ DropObject(t) \/ RemoveOldObject(t) \/ DumpStart(t) \/ DumpEnd(t)
         \/ LinkStart(t) \/ LinkEnd(t) \/ LinkFailed(t) \/ RemoveLinkedObject(t)
         \/ MetadataStart(t) \/ MetadataEnd(t)
  PROVE  CacheInv'
  <1> DEFINE p == ProcessOf[t]
             k == request[t].kernel
  <1>1. p \in Process BY DEF ConstantsAssumption
  <1>2. pc[t] # "idle" /\ k \in Kernel /\ Dir(t) = Directory(p, k)
    BY DEF CacheInv, ThreadInv, CallInv, Dir, DropLibrary, DropObject, RemoveOldObject,
           DumpStart, DumpEnd, LinkStart, LinkEnd, LinkFailed, RemoveLinkedObject,
           MetadataStart, MetadataEnd
  <1>3. Dir(t) \in Directories /\ CodeIn(Dir(t), CodeOf(p, k)) /\ ZeroesIn(Dir(t), Lower(k).zeroing)
    BY <1>1, <1>2, CompiledBelongs
  <1>4. /\ UNCHANGED memory
        /\ \/ UNCHANGED library
           \/ \E f : /\ library' = [library EXCEPT ![Dir(t)] = f]
                     /\ f \in {Absent, Partial(t), Complete(t, k), library[Dir(t)]}
        /\ \/ UNCHANGED metadata
           \/ \E f : /\ metadata' = [metadata EXCEPT ![Dir(t)] = f]
                     /\ f \in {BrokenMetadata, MetadataOf(k), metadata[Dir(t)]}
    BY DEF DropLibrary, DropObject, RemoveOldObject, DumpStart, DumpEnd, LinkStart, LinkEnd,
           LinkFailed, RemoveLinkedObject, MetadataStart, MetadataEnd
  <1>5. StoreInv'
    <2>1. DOMAIN library' = Directories /\ DOMAIN metadata' = Directories
      BY <1>4 DEF CacheInv, StoreInv
    <2>2. ASSUME NEW d \in Directories, IsComplete(library'[d])
          PROVE  CodeIn(d, library'[d].image[2])
      <3>1. CASE library'[d] = library[d] BY <2>2, <3>1 DEF CacheInv, StoreInv
      <3>2. CASE library'[d] # library[d]
        <4>1. d = Dir(t) /\ library'[d] \in {Absent, Partial(t), Complete(t, k)}
          BY <1>3, <1>4, <3>2 DEF CacheInv, StoreInv
        <4>2. ~IsComplete(Absent) /\ ~IsComplete(Partial(t)) /\ Complete(t, k).image[2] = CodeOf(p, k)
          BY DEF IsComplete, Absent, Partial, Complete
        <4> QED BY <1>3, <2>2, <4>1, <4>2
      <3> QED BY <3>1, <3>2
    <2>3. ASSUME NEW d \in Directories, Len(metadata'[d]) = 3
          PROVE  ZeroesIn(d, metadata'[d][3])
      <3>1. CASE metadata'[d] = metadata[d] BY <2>3, <3>1 DEF CacheInv, StoreInv
      <3>2. CASE metadata'[d] # metadata[d]
        <4>1. d = Dir(t) /\ metadata'[d] \in {BrokenMetadata, MetadataOf(k)}
          BY <1>3, <1>4, <3>2 DEF CacheInv, StoreInv
        <4>2. Len(BrokenMetadata) # 3 /\ MetadataOf(k)[3] = Lower(k).zeroing
          BY DEF BrokenMetadata, MetadataOf
        <4> QED BY <1>3, <2>3, <4>1, <4>2
      <3> QED BY <3>1, <3>2
    <2> QED BY <1>4, <2>1, <2>2, <2>3 DEF CacheInv, StoreInv
  <1>6. Moves(t) /\ CallInv(t)'
    <2>1. CASE LinkFailed(t) BY <2>1, EndKeeps DEF LinkFailed, Throw
    <2>2. CASE ~LinkFailed(t)
      <3>1. UNCHANGED <<request, execution, zeroed>>
        BY <2>2 DEF DropLibrary, DropObject, RemoveOldObject, DumpStart, DumpEnd, LinkStart,
           LinkEnd, RemoveLinkedObject, MetadataStart, MetadataEnd
      <3>2. /\ pc' = [pc EXCEPT ![t] = pc'[t]]
            /\ \/ pc[t] \in {"dropLibrary", "dropObject"} /\ pc'[t] \in {"dropObject", "compile"}
               \/ pc[t] \in Compiling /\ pc'[t] \in Compiling
        BY <2>2 DEF DropLibrary, DropObject, RemoveOldObject, DumpStart, DumpEnd, LinkStart,
           LinkEnd, RemoveLinkedObject, MetadataStart, MetadataEnd, Goto, Compiling, CacheInv, ThreadInv
      <3> QED BY <3>1, <3>2 DEF CacheInv, ThreadInv, CallInv, Moves, Holding, Admitted, Compiling,
                 Dir, Denied, ExecutionIn, CodeIn, ZeroesIn
    <2> QED BY <2>1, <2>2
  <1> QED BY <1>5, <1>6, MovingKeeps DEF CacheInv

LEMMA InsertsKeep ==
  ASSUME ConstantsAssumption, CacheInv, NEW t \in Thread, InsertLoaded(t) \/ InsertCompiled(t)
  PROVE  CacheInv'
  <1> DEFINE p == ProcessOf[t]
             d == Dir(t)
  <1>1. /\ p \in Process /\ d \in Directories
        /\ pc[t] \in {"insert", "insertLoaded"} /\ ExecutionIn(d, execution[t])
    BY DEF ConstantsAssumption, CacheInv, ThreadInv, CallInv, Dir, Directories, InsertLoaded,
           InsertCompiled, Holding, Admitted, Compiling
  <1>2. PICK e : /\ e \in {execution[t], memory[p][d]} /\ (e = memory[p][d] => ExecutionIn(d, e))
                 /\ memory' = [memory EXCEPT ![p][d] = e]
                 /\ execution' = [execution EXCEPT ![t] = e]
    <2>1. ExecutionIn(d, Emplace(p, d, execution[t]))
      BY <1>1 DEF Emplace, CacheInv, StoreInv
    <2>2. CASE InsertLoaded(t) BY <1>1, <2>1, <2>2 DEF InsertLoaded, Emplace
    <2>3. CASE InsertCompiled(t) BY <1>1, <2>1, <2>3 DEF InsertCompiled, Emplace
    <2> QED BY <2>2, <2>3
  <1>3. ExecutionIn(d, e) BY <1>1, <1>2
  <1>4. UNCHANGED <<library, metadata, request, zeroed>> BY DEF InsertLoaded, InsertCompiled, files
  <1>5. StoreInv' BY <1>1, <1>2, <1>3, <1>4 DEF CacheInv, StoreInv
  <1>6. /\ pc' = [pc EXCEPT ![t] = pc'[t]]
        /\ \/ pc[t] = "insertLoaded" /\ pc'[t] = "eligible"
           \/ pc[t] = "insert" /\ pc'[t] = "zero"
    BY DEF InsertLoaded, InsertCompiled, Goto, CacheInv, ThreadInv
  <1>7. Moves(t) /\ CallInv(t)'
    BY <1>1, <1>2, <1>3, <1>4, <1>6 DEF CacheInv, ThreadInv, CallInv, Moves, Holding, Admitted,
       Compiling, Dir, Denied, ExecutionIn, CodeIn, ZeroesIn
  <1> QED BY <1>5, <1>7, MovingKeeps DEF CacheInv

\* A process that stops, and another that clears the cache.
LEMMA EnvironmentKeeps ==
  ASSUME CacheInv, (\E p \in Process : Crash(p)) \/ ClearFile
  PROVE  CacheInv'
  <1>1. ASSUME NEW p \in Process, Crash(p) PROVE CacheInv'
    <2>1. StoreInv' BY <1>1 DEF Crash, files, CacheInv, StoreInv
    <2>2. ThreadInv'
      BY <1>1 DEF Crash, CacheInv, ThreadInv, CallInv, Holding, Admitted, Compiling, Dir, Denied,
         ExecutionIn, CodeIn, ZeroesIn
    <2> QED BY <2>1, <2>2 DEF CacheInv
  <1>2. CASE ClearFile
    <2>1. UNCHANGED <<memory, pc, request, execution, zeroed>> BY <1>2 DEF ClearFile
    <2>2. ThreadInv'
      BY <2>1 DEF CacheInv, ThreadInv, CallInv, Dir, Denied
    <2>3. PICK d \in Directories :
            /\ library' \in {library, [library EXCEPT ![d] = Absent]}
            /\ metadata' \in {metadata, [metadata EXCEPT ![d] = NoMetadata]}
      BY <1>2 DEF ClearFile
    <2>4. ~IsComplete(Absent) /\ Len(NoMetadata) # 3 BY DEF IsComplete, Absent, NoMetadata
    <2>5. StoreInv' BY <2>1, <2>3, <2>4 DEF CacheInv, StoreInv
    <2> QED BY <2>2, <2>5 DEF CacheInv
  <1> QED BY <1>1, <1>2

\* Whatever processes share the cache, stop or clear it, a thread runs the code
\* of its own version for the kernel it asked for, on a host that can run it,
\* and an output that is added to is zeroed first.
THEOREM RequestedKernelRuns ==
  ASSUME ConstantsAssumption, KeysIdentify
  PROVE  Spec => [](RunsRequestedKernel /\ AccumulatesFromZero)
  <1>1. Init => CacheInv
    BY DEF Init, CacheInv, StoreInv, ThreadInv, CallInv, Holding, Admitted, Compiling,
           IsComplete, Absent, NoMetadata
  <1>2. CacheInv /\ [Next]_vars => CacheInv'
    <2> SUFFICES ASSUME CacheInv, [Next]_vars PROVE CacheInv' OBVIOUS
    <2>1. ASSUME NEW t \in Thread, Call(t) \/ Step(t) PROVE CacheInv'
      BY <2>1, CallsKeep, WritesKeep, InsertsKeep DEF Step, GetOrCreate, Persist
    <2>2. CASE UNCHANGED vars
      BY <2>2 DEF vars, CacheInv, StoreInv, ThreadInv, CallInv, Dir, Denied
    <2> QED BY <2>1, <2>2, EnvironmentKeeps DEF Next
  <1>3. CacheInv => RunsRequestedKernel /\ AccumulatesFromZero
    BY DEF CacheInv, ThreadInv, CallInv, RunsRequestedKernel, AccumulatesFromZero,
           ExecutionIn, CodeIn, Holding, Admitted, Dir, ConstantsAssumption
  <1> QED BY <1>1, <1>2, <1>3, PTL DEF Spec
=============================================================================
