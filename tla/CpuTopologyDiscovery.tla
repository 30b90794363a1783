------------------------ MODULE CpuTopologyDiscovery ------------------------
(* Discovery of the topology, from the files of Linux or the relations of     *)
(* Windows, one read at a time while CPUs go off-line and come back.          *)
EXTENDS CpuTopology

CONSTANTS
    Machine,      \* core, package and node of every CPU that is present
    MaxPlugs,     \* how often a CPU comes or goes during the discovery
    MaxErrors     \* how many reads fail or cannot be parsed

VARIABLES
    os,           \* "linux" or "windows"
    online,       \* CPUs on line now
    seen,         \* sets of CPUs that were on line during the discovery
    pc,           \* next read
    todo,         \* what is left to read in this stage
    listed,       \* the CPUs the record is about
    cpu,          \* logical_processors
    nodes,        \* numa_nodes
    caches,       \* cache_groups
    complete,
    plugs, errors

vars == <<os, online, seen, pc, todo, listed, cpu, nodes, caches, complete, plugs, errors>>

Present == DOMAIN Machine
Nodes == {Machine[c].node : c \in Present}
Empty == [c \in {} |-> 0]
Unmapped == [core |-> UnknownId, package |-> UnknownId, node |-> UnknownId, thread |-> UnknownId]
Mates(c, s) == {d \in s : SameCore(Machine[c], Machine[d])}
PackageMates(c, s) == {d \in s : Machine[c].package = Machine[d].package}

Init ==
    /\ os \in {"linux", "windows"}
    /\ online \in SUBSET Present \ {{}} /\ seen = {online}
    /\ pc = "online" /\ todo = {} /\ listed = {} /\ cpu = Empty /\ nodes = Empty /\ caches = {}
    /\ complete = TRUE /\ plugs = 0 /\ errors = 0

\* A CPU goes or comes back; the last one stays.
Hotplug ==
    /\ plugs < MaxPlugs /\ pc # "done"
    /\ \E c \in Present :
        /\ online' = IF c \in online THEN online \ {c} ELSE online \cup {c}
        /\ online' # {}
    /\ seen' = seen \cup {online'}
    /\ plugs' = plugs + 1
    /\ UNCHANGED <<os, pc, todo, listed, cpu, nodes, caches, complete, errors>>

\* A read that may fail: ok tells whether it did not.
Read(ok) ==
    \/ ok = TRUE /\ UNCHANGED errors
    \/ ok = FALSE /\ errors < MaxErrors /\ errors' = errors + 1

Stage(next, rest, all) ==
    IF rest = {} THEN pc' = next /\ todo' = all ELSE pc' = pc /\ todo' = rest

-----------------------------------------------------------------------------
(* Linux.                                                                    *)

\* cpu/online, or the directories of all CPUs when it cannot be read.
ReadOnline ==
    /\ os = "linux" /\ pc = "online"
    /\ \E ok \in BOOLEAN :
        /\ Read(ok)
        /\ complete' = ok
        /\ IF ok THEN listed' = online ELSE listed' \in {Present, {}}
    /\ pc' = "node" /\ todo' = Nodes
    /\ UNCHANGED <<os, online, seen, cpu, nodes, caches, plugs>>

\* node<n>/cpulist
ReadNode ==
    /\ os = "linux" /\ pc = "node"
    /\ LET n == Min(todo)
       IN  \E ok \in BOOLEAN :
            /\ Read(ok)
            /\ nodes' = [m \in DOMAIN nodes \cup {n} |->
                   IF m # n THEN nodes[m]
                   ELSE IF ok THEN {c \in online : Machine[c].node = n} ELSE {}]
            /\ complete' = (complete /\ ok)
            /\ IF listed = {} THEN Stage("finish", todo \ {n}, {}) ELSE Stage("cpu", todo \ {n}, listed)
    /\ UNCHANGED <<os, online, seen, listed, cpu, caches, plugs>>

NodeOf(c) == LET of == {n \in DOMAIN nodes : c \in nodes[n]}
             IN  IF of = {} THEN UnknownId ELSE Max(of)

\* cpu<n>/topology, which an off-line CPU does not have.
ReadCpu ==
    /\ os = "linux" /\ pc = "cpu"
    /\ LET c == Min(todo)
       IN  \E ok \in BOOLEAN :
            /\ Read(ok)
            /\ LET there == ok /\ c \in online
                   read == [core |-> IF there THEN Machine[c].core ELSE UnknownId,
                            package |-> IF there THEN Machine[c].package ELSE UnknownId,
                            node |-> NodeOf(c), thread |-> UnknownId]
                   all == [d \in DOMAIN cpu \cup {c} |-> IF d = c THEN read ELSE cpu[d]]
               IN  /\ cpu' = IF todo = {c} THEN WithThreads(all) ELSE all
                   /\ complete' = (complete /\ there /\ NodeOf(c) # UnknownId)
            /\ Stage("cache", todo \ {c}, listed)
    /\ UNCHANGED <<os, online, seen, listed, nodes, caches, plugs>>

\* cpu<n>/cache: a private and a shared cache.
ReadCache ==
    /\ os = "linux" /\ pc = "cache"
    /\ LET c == Min(todo)
       IN  \E ok \in BOOLEAN :
            /\ Read(ok)
            /\ complete' = (complete /\ ok /\ c \in online)
            /\ caches' = IF ok /\ c \in online
                 THEN caches \cup {[level |-> 1, shared |-> Mates(c, online)],
                                   [level |-> 2, shared |-> PackageMates(c, online)]}
                 ELSE caches
            /\ Stage("finish", todo \ {c}, {})
    /\ UNCHANGED <<os, online, seen, listed, cpu, nodes, plugs>>

-----------------------------------------------------------------------------
(* Windows.                                                                  *)

\* GetActiveProcessorCount: the CPUs are taken to be the first ones.
CountActive ==
    /\ os = "windows" /\ pc = "online"
    /\ listed' = 0..(Cardinality(online) - 1)
    /\ cpu' = [c \in listed' |-> Unmapped]
    /\ pc' = "query" /\ todo' = {"cores", "packages", "nodes", "caches"}
    /\ UNCHANGED <<os, online, seen, nodes, caches, complete, plugs, errors>>

Groups(kind) ==
    CASE kind = "cores" -> {Mates(c, online) : c \in online}
      [] kind = "packages" -> {PackageMates(c, online) : c \in online}
      [] kind = "nodes" -> {{d \in online : Machine[d].node = Machine[c].node} : c \in online}
      [] kind = "caches" -> {Mates(c, online) : c \in online}

GroupOf(groups, c) == CHOOSE g \in groups : c \in g

\* A relation names only listed CPUs, each once; the id of a core or a package
\* is its first CPU, the thread its rank.
Assigned(kind, groups) ==
    [c \in listed |->
        IF c \notin UNION groups THEN cpu[c]
        ELSE LET g == GroupOf(groups, c)
             IN  CASE kind = "cores" ->
                        [cpu[c] EXCEPT !.core = Min(g), !.thread = Cardinality({d \in g : d < c})]
                   [] kind = "packages" -> [cpu[c] EXCEPT !.package = Min(g)]
                   [] OTHER -> [cpu[c] EXCEPT !.node = Machine[Min(g)].node]]

QueryOrder == <<"cores", "packages", "nodes", "caches">>

QueryRelation ==
    /\ os = "windows" /\ pc = "query"
    /\ LET kind == SelectSeq(QueryOrder, LAMBDA k : k \in todo)[1]
           groups == Groups(kind)
       IN  \E ok \in BOOLEAN :
            /\ Read(ok)
            /\ LET good == ok /\ UNION groups \subseteq listed
               IN  /\ complete' = (complete /\ good)
                   /\ cpu' = IF good /\ kind # "caches" THEN Assigned(kind, groups) ELSE cpu
                   /\ caches' = IF ok /\ kind = "caches"
                        THEN {[level |-> 1, shared |-> g] : g \in groups} ELSE caches
            /\ Stage("normalize", todo \ {kind}, {})
    /\ UNCHANGED <<os, online, seen, listed, nodes, plugs>>

\* normalize_windows_cpu_topology_v1
Normalize ==
    /\ os = "windows" /\ pc = "normalize"
    /\ complete' = (complete /\ \A c \in listed : UnknownId \notin
           {cpu[c].core, cpu[c].package, cpu[c].node, cpu[c].thread})
    /\ nodes' = [n \in {cpu[c].node : c \in listed} |-> {c \in listed : cpu[c].node = n}]
    /\ pc' = "finish"
    /\ UNCHANGED <<os, online, seen, todo, listed, cpu, caches, plugs, errors>>

-----------------------------------------------------------------------------
Topology == [complete |-> complete, cpu |-> cpu, nodes |-> nodes, caches |-> caches]

Finish ==
    /\ pc = "finish"
    /\ complete' = (complete /\ Valid(Topology))
    /\ pc' = "done"
    /\ UNCHANGED <<os, online, seen, todo, listed, cpu, nodes, caches, plugs, errors>>

Next ==
    \/ Hotplug
    \/ ReadOnline \/ ReadNode \/ ReadCpu \/ ReadCache
    \/ CountActive \/ QueryRelation \/ Normalize
    \/ Finish

Spec == Init /\ [][Next]_vars

-----------------------------------------------------------------------------
(* A topology that calls itself complete is the one the machine had at one    *)
(* moment of the discovery, although it was read file by file or relation by  *)
(* relation while CPUs came and went: CPUs, cores, ranks and nodes agree.     *)
Is(s) ==
    /\ DOMAIN cpu = s
    /\ \A c \in s : /\ cpu[c].node = Machine[c].node
                    /\ cpu[c].thread = Cardinality({d \in Mates(c, s) : d < c})
                    /\ {d \in s : SameCore(cpu[c], cpu[d])} = Mates(c, s)
    /\ \A n \in DOMAIN nodes : nodes[n] = {c \in s : Machine[c].node = n}
CompleteTopologyWasReal == pc = "done" /\ complete => \E s \in seen : Is(s)

(* On a machine that does not change and whose files can be read, discovery   *)
(* finds a complete topology, also when a node has no CPU on line; Windows    *)
(* has to number its CPUs without gaps.                                       *)
QuietMachineIsDiscovered ==
    pc = "done" /\ plugs = 0 /\ errors = 0
        /\ (os = "windows" => online = 0..(Cardinality(online) - 1)) => complete
=============================================================================
