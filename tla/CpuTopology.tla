----------------------------- MODULE CpuTopology -----------------------------
(* The CPU topology record, its validation, its restriction to a set of       *)
(* logical CPUs and the placement of workers on it.  The sorted lists without *)
(* duplicates of the record are sets here; a cache group is a level and the   *)
(* CPUs that share it.                                                        *)
EXTENDS Integers, Sequences, SequencesExt, FiniteSetsExt

UnknownId == -1
Refused(why) == [ok |-> FALSE, why |-> why]

SameCore(x, y) == x.package = y.package /\ x.core = y.core
Cores(t) == {<<t.cpu[c].package, t.cpu[c].core>> : c \in DOMAIN t.cpu}

\* Rank of a CPU among the listed CPUs of its core.
ThreadIndex(cpu, c) == Cardinality({d \in DOMAIN cpu : d < c /\ SameCore(cpu[d], cpu[c])})

WithThreads(cpu) == [c \in DOMAIN cpu |-> [cpu[c] EXCEPT !.thread = ThreadIndex(cpu, c)]]

CpusMapped(t) ==
    t.complete => \A c \in DOMAIN t.cpu :
        UnknownId \notin {t.cpu[c].core, t.cpu[c].package, t.cpu[c].node, t.cpu[c].thread}
NodesAgree(t) ==
    /\ \A n \in DOMAIN t.nodes : \A c \in t.nodes[n] : c \in DOMAIN t.cpu /\ t.cpu[c].node = n
    /\ \A c \in DOMAIN t.cpu : t.cpu[c].node # UnknownId =>
           t.cpu[c].node \in DOMAIN t.nodes /\ c \in t.nodes[t.cpu[c].node]

CachesAgree(t) == \A g \in t.caches : g.shared # {} /\ g.shared \subseteq DOMAIN t.cpu

Nonempty(t) == t.complete => DOMAIN t.cpu # {} /\ DOMAIN t.nodes # {} /\ t.caches # {}
Valid(t) == CpusMapped(t) /\ NodesAgree(t) /\ CachesAgree(t) /\ Nonempty(t)
Projected(t, allowed) == WithThreads([c \in allowed |-> t.cpu[c]])

RestrictTo(t, allowed) ==
    IF ~Valid(t) \/ ~t.complete THEN Refused("invalid_topology")
    ELSE IF allowed = {} THEN Refused("empty_cpu_set")
    ELSE IF ~(allowed \subseteq DOMAIN t.cpu) THEN Refused("unavailable_cpu_id")
    ELSE LET left == {n \in DOMAIN t.nodes : t.nodes[n] \cap allowed # {}}
             r == [complete |-> TRUE, cpu |-> Projected(t, allowed),
                   nodes |-> [n \in left |-> t.nodes[n] \cap allowed],
                   caches |-> {[g EXCEPT !.shared = g.shared \cap allowed] :
                                  g \in {h \in t.caches : h.shared \cap allowed # {}}}]
         IN  IF Valid(r) THEN [ok |-> TRUE, topology |-> r] ELSE Refused("invalid_topology")

-----------------------------------------------------------------------------
(* Placement.                                                                *)

RECURSIVE LexLess(_, _)
LexLess(x, y) == x # <<>> /\ (x[1] < y[1] \/ (x[1] = y[1] /\ LexLess(Tail(x), Tail(y))))

Order(t, c) == <<t.cpu[c].node, t.cpu[c].package, t.cpu[c].core, t.cpu[c].thread, c>>
Secondary(t, c) == IF t.cpu[c].thread = 0 THEN 0 ELSE 1

Candidates(t, smt, nodes) ==
    LET base == {c \in DOMAIN t.cpu : /\ t.cpu[c].node \in nodes
                                      /\ smt = "physical_only" => t.cpu[c].thread = 0}
        Key(c) == (IF smt = "prefer_physical" THEN <<Secondary(t, c)>> ELSE <<>>) \o Order(t, c)
    IN  SetToSortSeq(base, LAMBDA c, d : LexLess(Key(c), Key(d)))

\* One CPU of each (node, package) bucket after the other: the n-th ones of all
\* buckets, in the order of the buckets, before the next ones.
Scatter(t, seq) ==
    LET Bucket(c) == <<t.cpu[c].node, t.cpu[c].package>>
        Position(j) == Cardinality({k \in 1..(j - 1) : Bucket(seq[k]) = Bucket(seq[j])})
        Key(j) == <<Position(j)>> \o Bucket(seq[j])
        order == SetToSortSeq(DOMAIN seq, LAMBDA j, k : LexLess(Key(j), Key(k)))
    IN  [j \in DOMAIN order |-> seq[order[j]]]

LocalFirst(t, seq, node) ==
    SelectSeq(seq, LAMBDA c : t.cpu[c].node = node) \o SelectSeq(seq, LAMBDA c : t.cpu[c].node # node)

AllowedNodes(t, req) ==
    IF req.cross THEN DOMAIN t.nodes
    ELSE IF req.node # UnknownId THEN {req.node} ELSE {Min(DOMAIN t.nodes)}

Ordered(t, req) ==
    LET seq == Candidates(t, req.smt, AllowedNodes(t, req))
    IN  IF req.affinity = "local_first" /\ req.cross THEN LocalFirst(t, seq, req.node)
        ELSE IF req.affinity = "scatter" THEN Scatter(t, seq) ELSE seq

RequestValid(t, req) ==
    /\ req.workers > 0
    /\ req.node # UnknownId => req.node \in DOMAIN t.nodes
    /\ req.affinity = "local_first" => req.node # UnknownId

Placement(t, req) ==
    IF ~Valid(t) \/ ~t.complete THEN Refused("invalid_topology")
    ELSE IF ~RequestValid(t, req) THEN Refused("invalid_request")
    ELSE IF Len(Ordered(t, req)) < req.workers
         THEN IF ~req.cross /\ Len(Candidates(t, req.smt, DOMAIN t.nodes)) >= req.workers
              THEN Refused("cross_numa_disallowed") ELSE Refused("insufficient_cpus")
    ELSE LET cpus == SubSeq(Ordered(t, req), 1, req.workers)
         IN  [ok |-> TRUE, cpus |-> cpus, nodes |-> {t.cpu[c].node : c \in Range(cpus)}]
=============================================================================
