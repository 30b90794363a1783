---------------------------- MODULE GpuDataStaging ----------------------------
(***************************************************************************)
(* The pass that stages host buffers around a kernel launch: which values  *)
(* a launch captures, which of them live on the device already, which it   *)
(* may write, and the sequence of device operations put before and after    *)
(* it.  The sequence is then run, with its copies asynchronous, and the     *)
(* buffers compared with what the launch would have done to them directly.  *)
(***************************************************************************)
EXTENDS Integers, Sequences, SequencesExt, FiniteSets, Functions

CONSTANTS
  Args,      \* buffers that are arguments of the function
  Outer,     \* a view of OuterOf made outside the launch
  OuterOf,
  Inner,     \* sequence: the views made inside, by their position
  ViewKinds, \* subset of {"subview", "cast", "metadata"}
  MaxOps     \* operations of a launch

Cells == {0, 1}
Outside == Args \cup {Outer}

ConstantsAssumption ==
  /\ OuterOf \in Args /\ Outer \notin Args /\ MaxOps \in Nat /\ MaxOps <= Len(Inner)
  /\ ViewKinds \subseteq {"subview", "cast", "metadata"}

VARIABLES
  body,     \* operations of the launch: [kind, src, dst]
  resident, \* arguments with matcore.device_resident
  program, next, \* operations the pass put in place, and the one to run next
  queue,    \* asynchronous operations the device has still to do
  memory,   \* token in each cell of each argument
  device,   \* the staged copy of each captured value: [live, cells]
  faulted   \* the device touched a buffer that is not allocated

vars == <<body, resident, program, next, queue, memory, device, faulted>>

------------------------------------------------------------------------------
(* Launches. *)

Visible(p) == Outside \cup {Inner[i] : i \in 1..p - 1}
IsView(op) == op.kind \in ViewKinds
WriteKinds == {"store", "copy"}

\* A position's operation; a view defines the value of its position.
OpsAt(p) ==
  [kind : ViewKinds, src : Visible(p), dst : {Inner[p]}]
    \cup {[kind |-> "store", src |-> d, dst |-> d] : d \in Visible(p)}
    \cup [kind : {"copy"}, src : Visible(p), dst : Visible(p)]

Defined(b) == Outside \cup {op.dst : op \in {b[i] : i \in {j \in DOMAIN b : IsView(b[j])}}}
WellFormed(b) == \A i \in DOMAIN b : {b[i].src} \cup (IF IsView(b[i]) THEN {} ELSE {b[i].dst})
                                        \subseteq Defined(SubSeq(b, 1, i - 1))
Bodies ==
  LET prefixes[n \in 0..MaxOps] ==
        IF n = 0 THEN {<<>>}
        ELSE {b \in {Append(a, op) : a \in prefixes[n - 1], op \in OpsAt(n)} : WellFormed(b)}
  IN {b \in UNION {prefixes[n] : n \in 1..MaxOps} : ~IsView(b[Len(b)])}

\* traceToFuncArg, for a value made outside: the argument it is a view of
TraceToFuncArg(v) == IF v = Outer THEN OuterOf ELSE v
CellsOf(v) == IF v = Outer THEN {0} ELSE Cells

\* isDeviceResident
IsDeviceResident(v) == TraceToFuncArg(v) \in resident

\* collectCapturedMemrefs
Captured(b) == {v \in Outside : \E i \in DOMAIN b : v \in {b[i].src, b[i].dst}}

\* buildAliasSet: views of the value inside the launch, and views of those
AliasSet_Direct(b, v) == {v} \cup {b[i].dst : i \in {j \in DOMAIN b : IsView(b[j]) /\ b[j].src = v}}
AliasSet(b, v) ==
  FoldLeft(LAMBDA aliases, op : IF IsView(op) /\ op.src \in aliases THEN aliases \cup {op.dst} ELSE aliases,
           {v}, b)

\* isWrittenInsideLaunch
IsWrittenInsideLaunch(b, v) ==
  \E i \in DOMAIN b : b[i].kind \in WriteKinds /\ b[i].dst \in AliasSet(b, v)

\* stageDataForLaunch: the operations before and after the launch
Op(kind, v) == [kind |-> kind, value |-> v]
Each(kinds, values) == \* for every value in turn, these operations
  FlattenSeq([i \in 1..Len(values) |-> [k \in 1..Len(kinds) |-> Op(kinds[k], values[i])]])
StageData(b) ==
  LET staged == SetToSeq({v \in Captured(b) : ~IsDeviceResident(v)})
      written == SelectSeq(staged, LAMBDA v : IsWrittenInsideLaunch(b, v))
      wait == <<Op("wait", Outer)>>
  IN IF staged = <<>> THEN <<Op("launch", Outer)>>
     ELSE Each(<<"alloc", "upload">>, staged) \o wait \o <<Op("launch", Outer)>>
          \o Each(<<"download">>, written) \o wait \o Each(<<"free">>, staged) \o wait

------------------------------------------------------------------------------
(* What a launch does to memory.  Its places are captured values.           *)

\* The values that are views of a captured one, and the cells each covers.
Footprint(b, root) ==
  LET narrow(cells, op) == IF op.kind = "subview" /\ cells # {0} THEN {1} ELSE cells
  IN FoldLeft(LAMBDA seen, op :
                IF IsView(op) /\ op.src \in DOMAIN seen
                THEN [u \in DOMAIN seen \cup {op.dst} |->
                        IF u = op.dst THEN narrow(seen[op.src], op) ELSE seen[u]]
                ELSE seen,
              [u \in {root} |-> CellsOf(root)], b)

Place(b, v) ==
  LET root == CHOOSE r \in Outside : v \in DOMAIN Footprint(b, r)
  IN [root |-> root, cells |-> Footprint(b, root)[v]]

\* Cells of all places after one operation; At(r) names the place a captured value stands for.
Step(b, i, At(_), cells) ==
  LET op == b[i]
      to == Place(b, op.dst)
      from == Place(b, op.src)
      first == CHOOSE c \in from.cells : \A d \in from.cells : c <= d
      token == IF op.kind = "store" THEN i ELSE cells[At(from.root)][first]
  IN IF IsView(op) THEN cells
     ELSE [cells EXCEPT ![At(to.root)] = [c \in Cells |-> IF c \in to.cells THEN token ELSE @[c]]]

Run(b, At(_), cells) ==
  FoldLeft(LAMBDA state, i : Step(b, i, At, state), cells, [i \in 1..Len(b) |-> i])

Fresh == [a \in Args |-> [c \in Cells |-> -(c + 1)]]
Direct(b) == Run(b, TraceToFuncArg, Fresh)

\* Two captured values of one buffer would be staged as two buffers: such launches are left out.
Disjoint(b) == ~({OuterOf, Outer} \subseteq Captured(b)) \/ OuterOf \in resident

------------------------------------------------------------------------------
(* Running what the pass emitted. *)

NoCopy == [live |-> FALSE, cells |-> [c \in Cells |-> 0]]

Init ==
  /\ resident \in SUBSET Args /\ body \in Bodies /\ Disjoint(body)
  /\ program = StageData(body) /\ next = 1 /\ queue = <<>>
  /\ memory = Fresh /\ device = [v \in Outside |-> NoCopy] /\ faulted = FALSE

Current == program[next]

\* gpu.alloc, gpu.memcpy and gpu.dealloc are put on the stream of the token.
Enqueue ==
  /\ next <= Len(program) /\ Current.kind \in {"alloc", "upload", "download", "free"}
  /\ queue' = Append(queue, Current) /\ next' = next + 1
  /\ UNCHANGED <<body, resident, program, memory, device, faulted>>

Wait ==
  /\ next <= Len(program) /\ Current.kind = "wait" /\ queue = <<>> /\ next' = next + 1
  /\ UNCHANGED <<body, resident, program, queue, memory, device, faulted>>

\* The stream does its next operation.
Device ==
  /\ queue # <<>> /\ queue' = Tail(queue)
  /\ LET op == Head(queue)
         v == op.value
         a == TraceToFuncArg(v)
     IN /\ faulted' = (faulted \/ (op.kind # "alloc" /\ ~device[v].live))
        /\ device' = [device EXCEPT ![v] =
             CASE op.kind = "alloc" -> [NoCopy EXCEPT !.live = TRUE]
               [] op.kind = "upload" -> [@ EXCEPT !.cells = memory[a]]
               [] op.kind = "free" -> NoCopy
               [] OTHER -> @]
        /\ memory' = IF op.kind = "download"
                     THEN [memory EXCEPT ![a] =
                            [c \in Cells |-> IF c \in CellsOf(v) THEN device[v].cells[c] ELSE @[c]]]
                     ELSE memory
  /\ UNCHANGED <<body, resident, program, next>>

\* The launch returns when the kernel has run; operands are those the pass put in.
Launch ==
  /\ next <= Len(program) /\ Current.kind = "launch" /\ next' = next + 1
  /\ LET staged(v) == ~IsDeviceResident(v)
         at(v) == IF staged(v) THEN v ELSE TraceToFuncArg(v)
         places == [p \in Outside |->
                      IF staged(p) THEN device[p].cells
                      ELSE memory[TraceToFuncArg(p)]]
         after == Run(body, at, places)
     IN /\ device' = [v \in Outside |-> IF staged(v) /\ device[v].live THEN [device[v] EXCEPT !.cells = after[v]]
                                        ELSE device[v]]
        /\ memory' = [a \in Args |-> IF a \in resident THEN after[a] ELSE memory[a]]
        /\ faulted' = (faulted \/ \E v \in Captured(body) : staged(v) /\ ~device[v].live)
  /\ UNCHANGED <<body, resident, program, queue>>

Next == Enqueue \/ Wait \/ Device \/ Launch
Spec == Init /\ [][Next]_vars

------------------------------------------------------------------------------
(* Properties. *)

Finished == next > Len(program) /\ queue = <<>>

\* When the staged launch has run, every buffer of the caller holds what the launch would have left
\* in it: what it wrote, through whatever views, came back and nothing else was disturbed
\* (isWrittenInsideLaunch, stageDataForLaunch).
HostSeesTheLaunch == Finished => memory = Direct(body)

\* The device never touches a staged buffer before it is allocated or after it is freed, and in the
\* end none is left (the waits of stageDataForLaunch).
StagedBuffersAreLive == ~faulted /\ (Finished => \A v \in Outside : ~device[v].live)
==============================================================================
