-------------------------- MODULE ContextPlacement --------------------------
(* matcore_runtime_cpu_execution_context_create_v1: what is discovered of the *)
(* host, the CPUs the workers are bound to, the evidence the planner gets and *)
(* the report.  The scheduler moves the creator and the host may change the   *)
(* CPUs of the process between the reads.                                     *)
EXTENDS CpuTopology

CONSTANTS
    Host,         \* topology of the machine
    Masks,        \* sets of CPUs the process may be given
    Options,      \* [affinity, numa, smt, threads] that are asked for
    MaxMoves,     \* bound on the moves of the creator and changes of the mask
    MaxJobs       \* bound on the submissions of a context

VARIABLES
    mask,         \* CPUs the process may use now
    creator,      \* CPU the creating thread runs on now
    moves,
    step,         \* what the call does next
    options,
    affinity,     \* ThreadAffinityInventoryV1: the CPUs read, {} when incomplete
    current,      \* CurrentLogicalCpuV1: UnknownId when it could not be read
    selection,    \* ContextPlacementV1
    submissions,  \* completed_submissions of the worker pool
    baseline,     \* validation_submission_baseline
    jobs,         \* submissions the owner of the handle made
    handle,       \* *context: the placement evidence of the context, or <<>>
    report        \* the report, <<>> while empty

vars == <<mask, creator, moves, step, options, affinity, current, selection,
          submissions, baseline, jobs, handle, report>>

Init ==
    /\ mask \in Masks /\ creator \in mask /\ moves = 0
    /\ step = "affinity" /\ options \in Options
    /\ affinity = {} /\ current = UnknownId /\ selection = <<>>
    /\ submissions = 0 /\ baseline = 0 /\ jobs = 0
    /\ handle = <<>> /\ report = <<>>

-----------------------------------------------------------------------------
(* The host.                                                                 *)

Creating == step \in {"affinity", "cpu", "select", "bind"}

Migrate ==
    /\ Creating /\ moves < MaxMoves /\ moves' = moves + 1
    /\ creator' \in mask \ {creator}
    /\ UNCHANGED <<mask, step, options, affinity, current, selection, submissions,
                   baseline, jobs, handle, report>>

ChangeMask ==
    /\ Creating /\ moves < MaxMoves /\ moves' = moves + 1
    /\ mask' \in Masks \ {mask} /\ creator' \in mask'
    /\ UNCHANGED <<step, options, affinity, current, selection, submissions,
                   baseline, jobs, handle, report>>

-----------------------------------------------------------------------------
(* select_context_placement_v1.                                              *)

Cores1(t, c) == <<t.cpu[c].package, t.cpu[c].core>>
ExplicitAffinity(o) ==
    o.affinity # "none" \/ o.numa = "local_first" \/ o.smt = "physical_only"

PlacementAffinity(o) ==
    IF o.numa = "local_first" /\ o.affinity = "none" THEN "local_first"
    ELSE IF o.affinity = "scatter" THEN "scatter" ELSE "compact"

Capacity(t, o) == IF o.smt = "allow_smt" THEN Cardinality(DOMAIN t.cpu) ELSE Cardinality(Cores(t))

\* logical_cpu_numa_node_v1 within the CPUs that were read, not the machine.
CreatorNode(t, o) ==
    IF o.numa # "local_first" THEN Min(DOMAIN t.nodes)
    ELSE IF current \notin DOMAIN t.cpu THEN UnknownId
    ELSE t.cpu[current].node

Spread_Free(t, o) == FALSE            \* fault: unbound workers on any number of nodes
Spread(t, o) == ~ExplicitAffinity(o) /\ Cardinality(DOMAIN t.nodes) > 1

Selection(o) ==
    LET r == RestrictTo(Host, affinity)
    IN  IF ~r.ok THEN r
        ELSE IF Spread(r.topology, o) THEN Refused("multi_node")
        ELSE IF o.numa = "local_first" /\ CreatorNode(r.topology, o) = UnknownId
             THEN Refused("creator")
        ELSE LET p == Placement(r.topology,
                        [workers |-> Min({o.threads, Capacity(r.topology, o)}),
                         affinity |-> PlacementAffinity(o), smt |-> o.smt, cross |-> FALSE,
                         node |-> CreatorNode(r.topology, o)])
             IN  IF ~p.ok THEN p
                 ELSE [ok |-> TRUE, available |-> r.topology, plan |-> p,
                       workers |-> Len(p.cpus),
                       cpus |-> IF ExplicitAffinity(o) THEN p.cpus ELSE <<>>,
                       induced |-> o.affinity = "none" /\ ExplicitAffinity(o),
                       creator |-> current, node |-> CreatorNode(r.topology, o)]
NodeTopology(s) == RestrictTo(s.available, s.available.nodes[Min(s.plan.nodes)])

Evidence(s, applied) ==
    LET local == NodeTopology(s)
    IN  [complete |-> local.ok /\ (s.cpus # <<>> => applied),
         nodes |-> s.plan.nodes,
         logical |-> Cardinality(DOMAIN local.topology.cpu),
         physical |-> Cardinality(Cores(local.topology))]

-----------------------------------------------------------------------------
(* The call.                                                                 *)

\* discover_current_thread_affinity_v1; it may be incomplete.
DiscoverAffinity ==
    /\ step = "affinity" /\ step' = "cpu"
    /\ affinity' \in {mask, {}}
    /\ UNCHANGED <<mask, creator, moves, options, current, selection, submissions,
                   baseline, jobs, handle, report>>

DiscoverCpu ==
    /\ step = "cpu" /\ step' = "select"
    /\ current' \in {creator, UnknownId}
    /\ UNCHANGED <<mask, creator, moves, options, affinity, selection, submissions,
                   baseline, jobs, handle, report>>

Select ==
    /\ step = "select"
    /\ selection' = IF affinity = {} THEN Refused("affinity") ELSE Selection(options)
    /\ step' = IF selection'.ok THEN "bind" ELSE "refused"
    /\ UNCHANGED <<mask, creator, moves, options, affinity, current, submissions,
                   baseline, jobs, handle, report>>

\* Workers that can be bound to their CPUs; all of them or no context.
Bindable == Range(selection.cpus) \subseteq mask
Reported(s) == IF s >= baseline THEN s - baseline ELSE 0

\* populate_context_report_v1
ContextReport(s) ==
    [complete |-> TRUE, workers |-> selection.workers, generation |-> Reported(s),
     available |-> Cardinality(affinity), creator |-> selection.creator, node |-> selection.node]

\* populate_failed_affinity_report_v1
FailedReport ==
    [complete |-> FALSE, workers |-> 0, generation |-> 0,
     available |-> Cardinality(affinity), creator |-> selection.creator, node |-> selection.node]

BindFails ==
    /\ step = "bind" /\ selection.cpus # <<>> /\ ~Bindable
    /\ step' = "refused" /\ report' = FailedReport
    /\ UNCHANGED <<mask, creator, moves, options, affinity, current, selection,
                   submissions, baseline, jobs, handle>>

\* No thread, an unsupported floating-point environment or no memory.
CreateFails ==
    /\ step = "bind" /\ Bindable
    /\ step' = "refused"
    /\ UNCHANGED <<mask, creator, moves, options, affinity, current, selection,
                   submissions, baseline, jobs, handle, report>>

\* One submission checks the floating-point environment of the workers, others
\* the variants; they are not the owner's.
Create ==
    /\ step = "bind" /\ Bindable
    /\ Evidence(selection, TRUE).complete
    /\ step' = "ready"
    /\ submissions' \in {1, 2}
    /\ baseline' = submissions'
    /\ handle' = Evidence(selection, TRUE)
    /\ report' = [ContextReport(0) EXCEPT !.generation = 0]
    /\ UNCHANGED <<mask, creator, moves, options, affinity, current, selection, jobs>>

Submit ==
    /\ step = "ready" /\ jobs < MaxJobs
    /\ jobs' = jobs + 1 /\ submissions' = submissions + 1
    /\ UNCHANGED <<mask, creator, moves, step, options, affinity, current, selection,
                   baseline, handle, report>>

Query ==
    /\ step = "ready"
    /\ report' = ContextReport(submissions)
    /\ UNCHANGED <<mask, creator, moves, step, options, affinity, current, selection,
                   submissions, baseline, jobs, handle>>

Next ==
    \/ Migrate \/ ChangeMask
    \/ DiscoverAffinity \/ DiscoverCpu \/ Select
    \/ BindFails \/ CreateFails \/ Create
    \/ Submit \/ Query

Spec == Init /\ [][Next]_vars

-----------------------------------------------------------------------------
(* Where the workers of a context may run: their CPUs, or without binding     *)
(* every CPU the process had when the mask was read.                          *)
Reach == IF selection.cpus # <<>> THEN Range(selection.cpus) ELSE affinity
Ready == step = "ready"

(* All workers of a context, bound or not, stay on one NUMA node, as no page  *)
(* of theirs is placed on another, and on the creator's node when that was    *)
(* asked for, however the creator moved during the call.                      *)
WorkersStayOnOneNode ==
    Ready => /\ Cardinality({Host.cpu[c].node : c \in Reach}) = 1
             /\ options.numa = "local_first" =>
                    \A c \in Reach : Host.cpu[c].node = Host.cpu[current].node

(* Workers that were promised a physical core each are all bound and share    *)
(* none, also when the mask of the process hides the first thread of a core.  *)
CoresAreNotShared ==
    Ready /\ options.smt = "physical_only" =>
        /\ Len(selection.cpus) = selection.workers
        /\ \A i, j \in DOMAIN selection.cpus :
              i # j => ~SameCore(Host.cpu[selection.cpus[i]], Host.cpu[selection.cpus[j]])

(* The capacity the planner is told of is that of the node of the workers:    *)
(* every CPU it counts is one whose memory is local to them.                  *)
CapacityIsLocal ==
    Ready => LET local == {c \in affinity : Host.cpu[c].node \in handle.nodes}
             IN  /\ handle.logical = Cardinality(local)
                 /\ handle.physical = Cardinality({Cores1(Host, c) : c \in local})
                 /\ handle.logical >= selection.workers
=============================================================================
