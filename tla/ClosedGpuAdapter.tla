-------------------------- MODULE ClosedGpuAdapter --------------------------
(***************************************************************************)
(* The two GPU candidate adapters of a closed region                       *)
(* (compiler/lib/runtime/closed_cuda_candidate_v1.cpp and                  *)
(* closed_rocdl_candidate_v1.cpp).                                         *)
(*                                                                         *)
(* A session calls an adapter and blocks until a thread made for the call  *)
(* has finished.  That thread takes driver resources for a frame, queues   *)
(* work on them, and must not let go of anything the device may still use: *)
(* when completion cannot be proved the frame is kept for ever on a        *)
(* lock-free list and the adapter refuses all later calls.                 *)
(*                                                                         *)
(* The driver is external: every call to it may fail, and a failed         *)
(* transfer or launch may have been queued all the same.                   *)
(***************************************************************************)
EXTENDS Naturals, Sequences, NaturalsInduction, WellFoundedInduction, TLAPS

CONSTANTS
  Adapters,       \* the adapters to consider, a subset of {"cuda", "rocdl"}
  Sessions,       \* host threads that call the adapter
  Traits,         \* sets of traits a request may have
  NoFrame,        \* the null pointer
  CallBudget      \* bound: calls of each session

Routes == {"available", "single", "pair"}

\* What may be true of a request: defects, in the sense of the checks below,
\* ("null" a missing pointer, "view" a misaligned or overlapping range), and "noK", a contraction over nothing, which has no operand to copy.
Trait == {"overflow", "shape", "incompatible", "null", "view", "grid", "empty",
          "image", "noN", "noK", "override"}
Frames == Sessions \X (1 .. CallBudget)

GpuConstantsAssumption ==
  /\ Adapters \subseteq {"cuda", "rocdl"}
  /\ Traits \subseteq SUBSET Trait
  /\ CallBudget \in Nat \ {0}
  /\ NoFrame \notin Frames

VARIABLES
  adapter,        \* which of the two the sessions call
  poisoned,       \* the flag of the adapter
  quarantineHead, \* head of the list of frames kept for ever
  quarantineNext, \* quarantineNext of each frame
  (* each session and the thread it waits for *)
  pc, calls, route, traits, result,
  ip,             \* position in the script of driver calls
  live,           \* driver resources the frame owns
  workMayBePending,
  written,        \* whether the caller's output has been written
  (* the device *)
  busy,           \* frames with work the device has not finished
  released        \* history: resources given back, for each frame

adapterVars == <<poisoned, quarantineHead, quarantineNext>>
vars == <<adapter, adapterVars, pc, calls, route, traits, result, ip, live,
          workMayBePending, written, busy, released>>

Frame(s) == <<s, calls[s]>>

-----------------------------------------------------------------------------
(* Checks of the request.  Each adapter and route reports the first defect  *)
(* in an order of its own; an empty output ends the call with ok.           *)

CudaSingleChecks == <<
  <<"overflow", "extent_overflow">>, <<"shape", "shape_mismatch">>,
  <<"null", "invalid_view">>, <<"incompatible", "candidate_incompatible">>,
  <<"view", "invalid_view">>, <<"grid", "candidate_incompatible">>, <<"empty", "ok">>,
  <<"image", "candidate_unavailable">> >>
CudaPairChecks == <<
  <<"shape", "shape_mismatch">>, <<"incompatible", "candidate_incompatible">>,
  <<"overflow", "extent_overflow">>, <<"null", "invalid_view">>,
  <<"view", "invalid_view">>, <<"image", "candidate_unavailable">>, <<"empty", "ok">>,
  <<"noN", "candidate_incompatible">> >>

\* The ROCm adapter checks a request on the caller's thread, before it looks
\* at the poison flag ...
RocdlSingleChecks == <<
  <<"shape", "shape_mismatch">>, <<"overflow", "candidate_incompatible">>,
  <<"incompatible", "candidate_incompatible">>, <<"null", "invalid_view">>,
  <<"view", "invalid_view">> >>

RocdlPairChecks == <<
  <<"shape", "shape_mismatch">>, <<"incompatible", "candidate_incompatible">>,
  <<"overflow", "candidate_incompatible">>, <<"null", "invalid_view">>,
  <<"view", "invalid_view">> >>

\* ... and the rest on the worker, once a device has been selected.
RocdlSingleLateChecks == << <<"empty", "ok">> >>
RocdlPairLateChecks == <<
  <<"image", "candidate_unavailable">>, <<"empty", "ok">>,
  <<"noN", "candidate_incompatible">> >>

CallerChecks(a, r) ==
  CASE r = "available" \/ a = "cuda" -> <<>>
    [] a = "rocdl" /\ r = "single" -> RocdlSingleChecks
    [] a = "rocdl" /\ r = "pair"   -> RocdlPairChecks

WorkerChecks(a, r) ==
  CASE a = "cuda"  /\ r = "single" -> CudaSingleChecks
    [] a = "cuda"  /\ r = "pair"   -> CudaPairChecks
    [] a = "rocdl" /\ r = "single" -> RocdlSingleLateChecks
    [] a = "rocdl" /\ r = "pair"   -> RocdlPairLateChecks

Found(checks, defects) == {i \in DOMAIN checks : checks[i][1] \in defects}

FirstVerdict(checks, defects) ==
  LET first == CHOOSE i \in Found(checks, defects) :
                 \A j \in Found(checks, defects) : i <= j
  IN checks[first][2]

-----------------------------------------------------------------------------
(* Scripts: the driver calls of each route in order.                        *)

\* Copies to staging memory; the frame is not yet known to the driver.
Stage == [kind |-> "stage", res |-> "staging", codes |-> {"allocation_failure"}]
Query == [kind |-> "query", res |-> "none", codes |-> {"candidate_failure"}]
Acquire(r) == [kind |-> "acquire", res |-> r, codes |-> {"candidate_failure"}]
AcquireMemory(r, codes) == [kind |-> "acquire", res |-> r, codes |-> codes]
CopyIn == [kind |-> "copyIn", res |-> "none", codes |-> {"candidate_failure"}]
Launch == [kind |-> "launch", res |-> "none", codes |-> {"candidate_failure"}]
CopyOut == [kind |-> "copyOut", res |-> "none", codes |-> {"candidate_failure"}]
Synchronize == [kind |-> "sync", res |-> "none", codes |-> {"candidate_failure"}]
MarkPending == [kind |-> "mark", res |-> "none", codes |-> {}]

\* An out-of-memory answer of cuMemAlloc has a code of its own.
CudaMemory(r) == AcquireMemory(r, {"allocation_failure", "candidate_failure"})
RocdlMemory(r) == AcquireMemory(r, {"allocation_failure"})

CudaSingle == <<Stage, Query, Acquire("context"), Acquire("modules"),
  CudaMemory("memory"), CopyIn, Launch, Synchronize, CopyOut>>

CudaPair == <<Stage, Query, Acquire("context"), Acquire("modules"),
  CudaMemory("memory"), CopyIn, Launch, Synchronize, CopyOut>>

\* Mutant: only the launches are marked as possibly pending.
RocdlSingle_LateMark == <<Stage, Acquire("stream"), Acquire("modules"),
  RocdlMemory("memory"), CopyIn, MarkPending, Launch, CopyOut, Synchronize>>
RocdlSingle == <<Stage, Acquire("stream"), Acquire("modules"),
  RocdlMemory("memory"), MarkPending, CopyIn, Launch, CopyOut, Synchronize>>

RocdlPair == <<Stage, Acquire("stream"), Acquire("modules"),
  RocdlMemory("memory"), MarkPending, CopyIn, Launch, CopyOut, Synchronize>>

Script(a, r) ==
  CASE a = "cuda"  /\ r = "single" -> CudaSingle
    [] a = "cuda"  /\ r = "pair"   -> CudaPair
    [] a = "rocdl" /\ r = "single" -> RocdlSingle
    [] a = "rocdl" /\ r = "pair"   -> RocdlPair

Item(s) == Script(adapter, route[s])[ip[s]]

-----------------------------------------------------------------------------
(* The caller: isolated() and the entry points.                             *)

Init ==
  /\ adapter \in Adapters
  /\ poisoned = FALSE
  /\ quarantineHead = NoFrame
  /\ quarantineNext = [f \in Frames |-> NoFrame]
  /\ pc = [s \in Sessions |-> "idle"]
  /\ calls = [s \in Sessions |-> 0]
  /\ route = [s \in Sessions |-> "available"]
  /\ traits = [s \in Sessions |-> {}]
  /\ result = [s \in Sessions |-> "ok"]
  /\ ip = [s \in Sessions |-> 1]
  /\ live = [s \in Sessions |-> {}]
  /\ workMayBePending = [s \in Sessions |-> FALSE]
  /\ written = [s \in Sessions |-> FALSE]
  /\ busy = {}
  /\ released = [f \in Frames |-> {}]

Return(s, code) ==
  /\ pc' = [pc EXCEPT ![s] = "idle"]
  /\ result' = [result EXCEPT ![s] = code]

\* The call of a candidate or of its availability test, up to isolated().
Call(s, r, t) ==
  LET checks == CallerChecks(adapter, r) IN
  /\ pc[s] = "idle" /\ calls[s] < CallBudget
  /\ calls' = [calls EXCEPT ![s] = @ + 1]
  /\ route' = [route EXCEPT ![s] = r]
  /\ traits' = [traits EXCEPT ![s] = t]
  /\ ip' = [ip EXCEPT ![s] = 1]
  /\ live' = [live EXCEPT ![s] = {}]
  /\ workMayBePending' = [workMayBePending EXCEPT ![s] = FALSE]
  /\ written' = [written EXCEPT ![s] = FALSE]
  /\ IF Found(checks, t) # {}
     THEN Return(s, FirstVerdict(checks, t))
     ELSE /\ pc' = [pc EXCEPT ![s] = "isolated"]
          /\ UNCHANGED result
  /\ UNCHANGED <<adapter, adapterVars, busy, released>>

callVars == <<adapter, calls, route, traits>>

\* What isolated() refuses before it makes a thread.
Refused(a, p, t) ==
  IF p THEN "candidate_failure"
  ELSE IF a = "rocdl" /\ "override" \in t THEN "candidate_unavailable" ELSE "none"

Isolated(s) ==
  LET refused == Refused(adapter, poisoned, traits[s]) IN
  /\ pc[s] = "isolated"
  /\ IF refused # "none" THEN Return(s, refused)
     ELSE /\ pc' = [pc EXCEPT ![s] = "discover"]
          /\ UNCHANGED result
  /\ UNCHANGED <<callVars, adapterVars, ip, live, workMayBePending, written,
                 busy, released>>

\* No thread, or a thread that cannot set the default FP environment.
WorkerFails(s) ==
  /\ pc[s] = "discover"
  /\ \E code \in {"allocation_failure", "candidate_failure",
                  "unsupported_fp_environment"} : Return(s, code)
  /\ UNCHANGED <<callVars, adapterVars, ip, live, workMayBePending, written,
                 busy, released>>

\* discover(): the flag is read again on the worker; no driver, no device, or
\* none of the qualified architecture.
Discovered(a, p) ==
  IF p THEN {IF a = "cuda" THEN "candidate_unavailable" ELSE "candidate_failure"}
  ELSE {"ok", "candidate_unavailable"}
         \cup IF a = "cuda" THEN {"candidate_incompatible"} ELSE {}

Discover(s) ==
  LET checks == WorkerChecks(adapter, route[s]) IN
  /\ pc[s] = "discover"
  /\ \E code \in Discovered(adapter, poisoned) :
       IF code # "ok" \/ route[s] = "available" THEN Return(s, code)
       ELSE IF Found(checks, traits[s]) # {}
       THEN Return(s, FirstVerdict(checks, traits[s]))
       ELSE /\ pc' = [pc EXCEPT ![s] = "script"]
            /\ UNCHANGED result
  /\ UNCHANGED <<callVars, adapterVars, ip, live, workMayBePending, written,
                 busy, released>>

-----------------------------------------------------------------------------
(* The driver calls.                                                        *)

\* A copy of an operand that has no elements is left out.
Skipped(s) == Item(s).kind = "copyIn" /\ "noK" \in traits[s] /\ route[s] = "single"

\* Where a failed call goes: before the driver knows the frame there is
\* nothing to undo.
OnFailure(s) ==
  IF adapter = "cuda"
  THEN IF "context" \in live[s] THEN "finishSync" ELSE "idle"
  ELSE IF Item(s).kind = "stage" THEN "idle" ELSE "failed"

\* After the last call of the script.
Advance(s) ==
  /\ ip' = [ip EXCEPT ![s] = @ + 1]
  /\ IF ip[s] < Len(Script(adapter, route[s])) THEN UNCHANGED <<pc, result>>
     ELSE /\ pc' = [pc EXCEPT ![s] = IF adapter = "cuda" THEN "finishSync" ELSE "release"]
          /\ result' = [result EXCEPT ![s] = "ok"]

DriverSucceeds(s) ==
  LET i == Item(s) IN
  /\ pc[s] = "script"
  /\ Advance(s)
  /\ live' = IF i.kind = "acquire" THEN [live EXCEPT ![s] = @ \cup {i.res}] ELSE live
  /\ workMayBePending' =
       CASE i.kind = "mark" -> [workMayBePending EXCEPT ![s] = TRUE]
         [] i.kind = "sync" -> [workMayBePending EXCEPT ![s] = FALSE]
         [] OTHER -> workMayBePending
  /\ \/ /\ i.kind \in {"copyIn", "launch"} /\ ~Skipped(s)
        /\ busy' = busy \cup {Frame(s)}
     \/ /\ i.kind = "copyOut" /\ adapter = "rocdl"
        /\ busy' = busy \cup {Frame(s)}
     \/ /\ i.kind \in {"stage", "query", "acquire", "mark"} \/ Skipped(s)
        /\ UNCHANGED busy
     \/ /\ i.kind = "sync" \/ (i.kind = "copyOut" /\ adapter = "cuda")
        /\ Frame(s) \notin busy
        /\ UNCHANGED busy
  /\ UNCHANGED <<callVars, adapterVars, written, released>>

\* A failed transfer, launch or wait is no proof that nothing was queued.
DriverFails(s) ==
  LET i == Item(s) IN
  /\ pc[s] = "script" /\ ~Skipped(s)
  /\ \E code \in i.codes : result' = [result EXCEPT ![s] = code]
  /\ pc' = [pc EXCEPT ![s] = OnFailure(s)]
  /\ busy' \in IF i.kind \in {"copyIn", "launch", "copyOut"}
               THEN {busy, busy \cup {Frame(s)}} ELSE {busy}
  /\ UNCHANGED <<callVars, adapterVars, ip, live, workMayBePending, written,
                 released>>

\* The device finishes what a frame queued.
DeviceCompletes(f) ==
  /\ f \in busy
  /\ busy' = busy \ {f}
  /\ UNCHANGED <<callVars, adapterVars, pc, result, ip, live,
                 workMayBePending, written, released>>

-----------------------------------------------------------------------------
(* Cleanup.  Some of what is given back may be refused by the driver.       *)

GiveBack(s, kept) ==
  /\ live' = [live EXCEPT ![s] = kept]
  /\ released' = [released EXCEPT ![Frame(s)] = @ \cup (live[s] \ kept)]

\* Resources::finish, first its synchronization ...
FinishSync(s) ==
  /\ pc[s] = "finishSync"
  /\ \/ /\ Frame(s) \notin busy
        /\ pc' = [pc EXCEPT ![s] = "finishFree"]
        /\ UNCHANGED poisoned
     \/ /\ pc' = [pc EXCEPT ![s] = "finishPop"]       \* completion unproved
        /\ poisoned' = TRUE
  /\ UNCHANGED <<callVars, quarantineHead, quarantineNext, result, ip, live,
                 workMayBePending, written, busy, released>>

\* ... then memory, modules and context of a quiescent frame ...
FinishFree(s) ==
  /\ pc[s] = "finishFree"
  /\ \E kept \in SUBSET live[s], poppedClean \in BOOLEAN :
       LET okay == kept = {} /\ poppedClean IN
       /\ GiveBack(s, kept)
       /\ poisoned' = (poisoned \/ ~okay)
       /\ pc' = [pc EXCEPT ![s] = IF okay THEN "deliver" ELSE "quarantine"]
  /\ UNCHANGED <<callVars, quarantineHead, quarantineNext, result, ip,
                 workMayBePending, written, busy>>

\* ... or only the context stack of the thread.
FinishPop(s) ==
  /\ pc[s] = "finishPop"
  /\ pc' = [pc EXCEPT ![s] = "quarantine"]
  /\ UNCHANGED <<callVars, adapterVars, result, ip, live, workMayBePending,
                 written, busy, released>>

\* The ROCm adapter's lambda failed(): prove completion if work was queued.
Failed(s) ==
  /\ pc[s] = "failed"
  /\ \/ /\ workMayBePending[s] => Frame(s) \notin busy
        /\ pc' = [pc EXCEPT ![s] = "release"]
        /\ workMayBePending' = [workMayBePending EXCEPT ![s] = FALSE]
     \/ /\ workMayBePending[s]
        /\ pc' = [pc EXCEPT ![s] = "quarantine"]
        /\ UNCHANGED workMayBePending
  /\ UNCHANGED <<callVars, adapterVars, result, ip, live, written, busy,
                 released>>

\* release(): memory, modules and stream.
Release(s) ==
  /\ pc[s] = "release"
  /\ \E kept \in SUBSET live[s] :
       /\ GiveBack(s, kept)
       /\ pc' = [pc EXCEPT ![s] = IF kept = {} THEN "deliver" ELSE "quarantine"]
  /\ UNCHANGED <<callVars, adapterVars, result, ip, workMayBePending, written,
                 busy>>

\* The code reported for a frame whose cleanup failed.  The ROCm adapter keeps
\* the code of an earlier failure.
QuarantineCode(a, code) ==
  IF a = "cuda" \/ code = "ok" THEN "candidate_failure" ELSE code
QuarantinePoison(p) == TRUE

\* quarantine(): the flag, then the load of the head ...
Quarantine(s) ==
  /\ pc[s] = "quarantine"
  /\ poisoned' = QuarantinePoison(poisoned)
  /\ quarantineNext' = [quarantineNext EXCEPT ![Frame(s)] = quarantineHead]
  /\ result' = [result EXCEPT ![s] = QuarantineCode(adapter, @)]
  /\ pc' = [pc EXCEPT ![s] = "link"]
  /\ UNCHANGED <<callVars, quarantineHead, ip, live, workMayBePending, written,
                 busy, released>>
LinkSucceeds(expected, head) == expected = head
Reloaded(expected, head) == head

\* ... and the compare-and-exchange, which reloads the head when it loses.
Link(s) ==
  LET f == Frame(s) IN
  /\ pc[s] = "link"
  /\ IF LinkSucceeds(quarantineNext[f], quarantineHead)
     THEN /\ quarantineHead' = f
          /\ pc' = [pc EXCEPT ![s] = "idle"]
          /\ UNCHANGED quarantineNext
     ELSE /\ quarantineNext' = [quarantineNext EXCEPT ![f] = Reloaded(@, quarantineHead)]
          /\ UNCHANGED <<quarantineHead, pc>>
  /\ UNCHANGED <<callVars, poisoned, result, ip, live, workMayBePending,
                 written, busy, released>>
Delivers(code) == code = "ok"

\* The caller's output is written last, when nothing can fail any more.
Deliver(s) ==
  /\ pc[s] = "deliver"
  /\ written' = [written EXCEPT ![s] = Delivers(result[s])]
  /\ pc' = [pc EXCEPT ![s] = "idle"]
  /\ UNCHANGED <<callVars, adapterVars, result, ip, live, workMayBePending,
                 busy, released>>

-----------------------------------------------------------------------------
Step(s) ==
  \/ Isolated(s) \/ WorkerFails(s) \/ Discover(s) \/ DriverSucceeds(s)
  \/ DriverFails(s) \/ FinishSync(s) \/ FinishFree(s) \/ FinishPop(s)
  \/ Failed(s) \/ Release(s) \/ Quarantine(s) \/ Link(s) \/ Deliver(s)

Next ==
  \/ \E s \in Sessions : Step(s)
  \/ \E s \in Sessions, r \in Routes, t \in Traits : Call(s, r, t)
  \/ \E f \in Frames : DeviceCompletes(f)

Spec == Init /\ [][Next]_vars
-----------------------------------------------------------------------------
(* Properties                                                               *)

\* The frames that can be reached from the head of the list: those in every
\* set that has the head and the successor of each of its members.
Linked(head, next, S) ==
  /\ head \in Frames => head \in S
  /\ \A f \in S : next[f] \in Frames => next[f] \in S
Reached(head, next) == {f \in Frames : \A S \in SUBSET Frames : Linked(head, next, S) => f \in S}
Quarantined == Reached(quarantineHead, quarantineNext)

InCall(f) == f[2] = calls[f[1]] /\ pc[f[1]] # "idle"

\* A frame with work the device has not finished still exists, held by its
\* call or by the list, and nothing of it has been given back to the driver:
\* the comment at Resources::finish, "retain this frame, the private context,
\* device memory, and host staging".
DeviceUseIsBacked ==
  \A f \in busy : released[f] = {} /\ (InCall(f) \/ f \in Quarantined)

\* What a finished call has not given back is kept reachable, whoever else
\* was linking a frame at the same time: nothing is leaked by a lost update
\* of the list head or by an early return.
NothingIsLost ==
  \A s \in Sessions :
    pc[s] = "idle" /\ live[s] # {} => Frame(s) \in Quarantined

\* The list holds a frame only while the flag refuses new calls.
QuarantineImpliesPoison == Quarantined # {} => poisoned

\* The output of a call is written only when it reports success, that is after
\* execution, transfers and cleanup: no failure leaves partial output.
OutputOnlyOnSuccess ==
  \A s \in Sessions : written[s] => result[s] = "ok" /\ live[s] = {}

\* Success means that the caller has its product: a finished call reports ok
\* only if it wrote the output or if there was no element to write, and a
\* request with a defect is never answered with ok before that is known.
SuccessIsDelivered ==
  \A s \in Sessions :
    pc[s] = "idle" /\ calls[s] > 0 /\ route[s] # "available" /\ result[s] = "ok"
      => /\ written[s] \/ "empty" \in traits[s]
         /\ traits[s] \cap {"overflow", "shape", "incompatible", "null", "view"} = {}

-----------------------------------------------------------------------------
(* Proof that they hold for any number of sessions and calls.               *)

Behind == {"script", "finishSync", "finishFree", "finishPop", "failed", "release",
           "quarantine", "link", "deliver"}
Places == {"idle", "isolated", "discover"} \cup Behind

TypeInv ==
  /\ adapter \in Adapters /\ poisoned \in BOOLEAN
  /\ quarantineHead \in Frames \cup {NoFrame}
  /\ quarantineNext \in [Frames -> Frames \cup {NoFrame}]
  /\ pc \in [Sessions -> Places] /\ calls \in [Sessions -> 0 .. CallBudget]
  /\ route \in [Sessions -> Routes] /\ DOMAIN traits = Sessions
  /\ result = [s \in Sessions |-> result[s]] /\ ip \in [Sessions -> Nat]
  /\ live = [s \in Sessions |-> live[s]] /\ workMayBePending \in [Sessions -> BOOLEAN]
  /\ written \in [Sessions -> BOOLEAN] /\ busy \subseteq Frames
  /\ DOMAIN released = Frames

\* The call of a frame has ended, or not begun.
Ended(f) == f[2] < calls[f[1]] \/ (f[2] = calls[f[1]] /\ pc[f[1]] = "idle")
Ahead(f) == f[2] > calls[f[1]]

\* Only frames of ended calls are on the list, and then the flag is set.
ListInv ==
  /\ \A f \in Quarantined : Ended(f)
  /\ Quarantined # {} => poisoned

\* A frame the device uses has begun, has given nothing back, and is on the list when
\* its call has ended.
BusyInv ==
  \A f \in Frames :
    /\ f \in busy => released[f] = {} /\ ~Ahead(f)
    /\ f \in busy /\ Ended(f) => f \in Quarantined
    /\ Ahead(f) => released[f] = {}

\* Inside a script: what the frame owns and whether the device may have work of
\* it, by the position.
ScriptInv(s) ==
  /\ ip[s] \in 1 .. 9 /\ released[Frame(s)] = {}
  /\ Frame(s) \in busy => ip[s] >= 6
  /\ adapter = "cuda" =>
       /\ ip[s] <= 3 => live[s] = {}
       /\ ip[s] >= 4 => "context" \in live[s]
  /\ adapter = "rocdl" =>
       /\ ip[s] = 1 => live[s] = {}
       /\ ip[s] >= 6 => workMayBePending[s]

\* Wherever a call is.
CallInv(s) ==
  /\ pc[s] # "idle" =>
       calls[s] >= 1 /\ ~written[s] /\ Found(CallerChecks(adapter, route[s]), traits[s]) = {}
  /\ pc[s] \in {"isolated", "discover"} =>
       ip[s] = 1 /\ live[s] = {} /\ Frame(s) \notin busy /\ released[Frame(s)] = {}
  /\ pc[s] \in Behind =>
       route[s] # "available" /\ Found(WorkerChecks(adapter, route[s]), traits[s]) = {}
  /\ pc[s] = "script" => ScriptInv(s)
  /\ pc[s] = "failed" => (Frame(s) \in busy => workMayBePending[s])
  /\ pc[s] \in {"finishFree", "release", "deliver"} => Frame(s) \notin busy
  /\ pc[s] = "deliver" => live[s] = {}
  /\ pc[s] = "link" => poisoned /\ result[s] # "ok"

\* When it has ended.
Defects == {"overflow", "shape", "incompatible", "null", "view"}
Delivered(s) ==
  calls[s] > 0 /\ route[s] # "available" /\ result[s] = "ok" =>
    (written[s] \/ "empty" \in traits[s]) /\ traits[s] \cap Defects = {}
EndInv(s) ==
  pc[s] = "idle" =>
    /\ live[s] # {} => Frame(s) \in Quarantined
    /\ written[s] => result[s] = "ok" /\ live[s] = {}
    /\ Delivered(s)

AdapterInv ==
  /\ TypeInv /\ ListInv /\ BusyInv
  /\ \A s \in Sessions : CallInv(s) /\ EndInv(s)

-----------------------------------------------------------------------------
(* The list.                                                                *)

\* The frames reached are linked, and in every set that is.
LEMMA ReachedLinked ==
  ASSUME NEW head, NEW next
  PROVE  /\ Reached(head, next) \in SUBSET Frames /\ Linked(head, next, Reached(head, next))
         /\ \A S \in SUBSET Frames : Linked(head, next, S) => Reached(head, next) \subseteq S
<1>1. head \in Frames => head \in Reached(head, next) BY DEF Reached, Linked
<1>2. ASSUME NEW f \in Reached(head, next), next[f] \in Frames
      PROVE  next[f] \in Reached(head, next)
  BY <1>2 DEF Reached, Linked
<1> QED BY <1>1, <1>2 DEF Reached, Linked

\* A frame that is not on the list may point anywhere.
LEMMA PointerIsFree ==
  ASSUME NEW head, NEW next, NEW f \in Frames \ Reached(head, next), NEW other,
         \A g \in Frames \ {f} : other[g] = next[g]
  PROVE  Reached(head, other) = Reached(head, next)
<1> DEFINE Q == Reached(head, next)
           R == Reached(head, other)
<1>1. /\ Q \in SUBSET Frames /\ Linked(head, next, Q)
      /\ \A S \in SUBSET Frames : Linked(head, next, S) => Q \subseteq S
  BY ReachedLinked
<1>2. /\ R \in SUBSET Frames /\ Linked(head, other, R)
      /\ \A S \in SUBSET Frames : Linked(head, other, S) => R \subseteq S
  BY ReachedLinked
<1>3. f \notin Q OBVIOUS
<1> HIDE DEF Q, R
<1>4. Linked(head, other, Q) BY <1>1, <1>3 DEF Linked
<1>5. R \subseteq Q BY <1>1, <1>2, <1>4
<1>6. Linked(head, next, R) BY <1>2, <1>3, <1>5 DEF Linked
<1>7. Q = R BY <1>1, <1>2, <1>5, <1>6
<1> QED BY <1>7 DEF Q, R

\* A frame that points to the head becomes the head.
LEMMA PushKeepsList ==
  ASSUME NEW head, NEW next, NEW f \in Frames, next[f] = head
  PROVE  Reached(f, next) = Reached(head, next) \cup {f}
<1> DEFINE Q == Reached(head, next)
           R == Reached(f, next)
<1>1. /\ Q \in SUBSET Frames /\ Linked(head, next, Q)
      /\ \A S \in SUBSET Frames : Linked(head, next, S) => Q \subseteq S
  BY ReachedLinked
<1>2. /\ R \in SUBSET Frames /\ Linked(f, next, R)
      /\ \A S \in SUBSET Frames : Linked(f, next, S) => R \subseteq S
  BY ReachedLinked
<1> HIDE DEF Q, R
<1>3. Linked(f, next, Q \cup {f}) BY <1>1 DEF Linked
<1>4. R \subseteq Q \cup {f} BY <1>1, <1>2, <1>3
<1>5. f \in R /\ Linked(head, next, R) BY <1>2 DEF Linked
<1>6. R = Q \cup {f} BY <1>1, <1>2, <1>4, <1>5
<1> QED BY <1>6 DEF Q, R

LEMMA SameList ==
  ASSUME UNCHANGED <<quarantineHead, quarantineNext>>
  PROVE  Quarantined' = Quarantined
BY DEF Quarantined

LEMMA EmptyList ==
  ASSUME NEW head, head \notin Frames, NEW next
  PROVE  Reached(head, next) = {}
<1>1. Linked(head, next, {}) BY DEF Linked
<1> QED BY <1>1 DEF Reached

-----------------------------------------------------------------------------
(* Checks.                                                                  *)

\* The verdict is that of the first defect found.
LEMMA FirstFound ==
  ASSUME NEW checks, NEW n \in Nat, DOMAIN checks = 1 .. n, NEW defects, Found(checks, defects) # {}
  PROVE  \E i \in Found(checks, defects) :
           /\ FirstVerdict(checks, defects) = checks[i][2]
           /\ \A j \in Found(checks, defects) : i <= j
<1> DEFINE F == Found(checks, defects)
<1>1. F \subseteq Nat /\ F # {} BY DEF Found
<1> HIDE DEF F
<1>2. \E k \in F : \A j \in F : ~(<<j, k>> \in OpToRel(<, Nat))
  BY <1>1, NatLessThanWellFounded, WFMin
<1>3. PICK k \in F : \A j \in F : ~(<<j, k>> \in OpToRel(<, Nat)) BY <1>2
<1>4. ASSUME NEW j \in F PROVE k <= j
  <2>1. j \in Nat /\ k \in Nat BY <1>1
  <2>2. ~(j < k) BY <1>3, <2>1 DEF OpToRel
  <2> QED BY <2>1, <2>2
<1>5. PICK i : i = CHOOSE k0 \in F : \A j \in F : k0 <= j OBVIOUS
<1>6. i \in F /\ \A j \in F : i <= j BY <1>3, <1>4, <1>5
<1>7. FirstVerdict(checks, defects) = checks[i][2] BY <1>5 DEF FirstVerdict, F
<1> QED BY <1>6, <1>7 DEF F

\* A request found without defect has none, and one that is answered with ok
\* without having run was empty and had no defect before.
LEMMA ChecksAreComplete ==
  ASSUME NEW a \in {"cuda", "rocdl"}, NEW r \in {"single", "pair"}, NEW t,
         Found(CallerChecks(a, r), t) = {}
  PROVE  /\ Found(WorkerChecks(a, r), t) = {} => t \cap Defects = {}
         /\ (Found(WorkerChecks(a, r), t) # {} /\ FirstVerdict(WorkerChecks(a, r), t) = "ok") =>
              "empty" \in t /\ t \cap Defects = {}
<1> DEFINE W == WorkerChecks(a, r)
<1>1. a = "rocdl" => t \cap Defects = {}
  <2>1. ASSUME a = "rocdl", r = "single" PROVE t \cap Defects = {}
    <3>1. CallerChecks(a, r) = RocdlSingleChecks BY <2>1 DEF CallerChecks
    <3>2. DOMAIN RocdlSingleChecks = 1 .. 5 BY DEF RocdlSingleChecks
    <3>3. \A i \in 1 .. 5 : RocdlSingleChecks[i][1] \notin t BY <3>1, <3>2 DEF Found
    <3> QED BY <3>3 DEF RocdlSingleChecks, Defects
  <2>2. ASSUME a = "rocdl", r = "pair" PROVE t \cap Defects = {}
    <3>1. CallerChecks(a, r) = RocdlPairChecks BY <2>2 DEF CallerChecks
    <3>2. DOMAIN RocdlPairChecks = 1 .. 5 BY DEF RocdlPairChecks
    <3>3. \A i \in 1 .. 5 : RocdlPairChecks[i][1] \notin t BY <3>1, <3>2 DEF Found
    <3> QED BY <3>3 DEF RocdlPairChecks, Defects
  <2> QED BY <2>1, <2>2
<1>2. CASE a = "cuda" /\ r = "single"
  <2>1. W = CudaSingleChecks BY <1>2 DEF WorkerChecks
  <2>2. DOMAIN CudaSingleChecks = 1 .. 8 BY DEF CudaSingleChecks
  <2>3. ASSUME \A i \in 1 .. 6 : CudaSingleChecks[i][1] \notin t PROVE t \cap Defects = {}
    BY <2>3 DEF CudaSingleChecks, Defects
  <2>4. ASSUME Found(W, t) # {}, FirstVerdict(W, t) = "ok"
        PROVE  "empty" \in t /\ \A i \in 1 .. 6 : CudaSingleChecks[i][1] \notin t
    <3>1. PICK i \in Found(W, t) :
            CudaSingleChecks[i][2] = "ok" /\ \A j \in Found(W, t) : i <= j
      BY <2>1, <2>2, <2>4, FirstFound
    <3>2. i \in 1 .. 8 /\ CudaSingleChecks[i][1] \in t BY <2>1, <2>2 DEF Found
    <3>3. i = 7 BY <3>1, <3>2 DEF CudaSingleChecks
    <3>4. CudaSingleChecks[7][1] = "empty" BY DEF CudaSingleChecks
    <3> QED BY <2>1, <2>2, <3>1, <3>2, <3>3, <3>4 DEF Found
  <2>5. Found(W, t) = {} => \A i \in 1 .. 6 : CudaSingleChecks[i][1] \notin t
    BY <2>1, <2>2 DEF Found
  <2> QED BY <2>3, <2>4, <2>5
<1>3. CASE a = "cuda" /\ r = "pair"
  <2>1. W = CudaPairChecks BY <1>3 DEF WorkerChecks
  <2>2. DOMAIN CudaPairChecks = 1 .. 8 BY DEF CudaPairChecks
  <2>3. ASSUME \A i \in 1 .. 6 : CudaPairChecks[i][1] \notin t PROVE t \cap Defects = {}
    BY <2>3 DEF CudaPairChecks, Defects
  <2>4. ASSUME Found(W, t) # {}, FirstVerdict(W, t) = "ok"
        PROVE  "empty" \in t /\ \A i \in 1 .. 6 : CudaPairChecks[i][1] \notin t
    <3>1. PICK i \in Found(W, t) :
            CudaPairChecks[i][2] = "ok" /\ \A j \in Found(W, t) : i <= j
      BY <2>1, <2>2, <2>4, FirstFound
    <3>2. i \in 1 .. 8 /\ CudaPairChecks[i][1] \in t BY <2>1, <2>2 DEF Found
    <3>3. i = 7 BY <3>1, <3>2 DEF CudaPairChecks
    <3>4. CudaPairChecks[7][1] = "empty" BY DEF CudaPairChecks
    <3> QED BY <2>1, <2>2, <3>1, <3>2, <3>3, <3>4 DEF Found
  <2>5. Found(W, t) = {} => \A i \in 1 .. 6 : CudaPairChecks[i][1] \notin t
    BY <2>1, <2>2 DEF Found
  <2> QED BY <2>3, <2>4, <2>5
<1>4. CASE a = "rocdl" /\ r = "single"
  <2>1. W = RocdlSingleLateChecks BY <1>4 DEF WorkerChecks
  <2>2. ASSUME Found(W, t) # {} PROVE "empty" \in t
    BY <2>1, <2>2 DEF Found, RocdlSingleLateChecks
  <2> QED BY <1>1, <1>4, <2>2
<1>5. CASE a = "rocdl" /\ r = "pair"
  <2>1. W = RocdlPairLateChecks BY <1>5 DEF WorkerChecks
  <2>2. DOMAIN RocdlPairLateChecks = 1 .. 3 BY DEF RocdlPairLateChecks
  <2>3. ASSUME Found(W, t) # {}, FirstVerdict(W, t) = "ok" PROVE "empty" \in t
    <3>1. PICK i \in Found(W, t) : RocdlPairLateChecks[i][2] = "ok"
      BY <2>1, <2>2, <2>3, FirstFound
    <3>2. i \in 1 .. 3 /\ RocdlPairLateChecks[i][1] \in t BY <2>1, <2>2 DEF Found
    <3> QED BY <3>1, <3>2 DEF RocdlPairLateChecks
  <2> QED BY <1>1, <1>5, <2>3
<1> QED BY <1>2, <1>3, <1>4, <1>5

\* The checks on the caller's thread answer no request with ok.
LEMMA CallerRefuses ==
  ASSUME NEW a \in {"cuda", "rocdl"}, NEW r \in Routes, NEW t, Found(CallerChecks(a, r), t) # {}
  PROVE  r # "available" /\ FirstVerdict(CallerChecks(a, r), t) # "ok"
<1>1. ~(r = "available" \/ a = "cuda")
  <2> SUFFICES ASSUME r = "available" \/ a = "cuda" PROVE FALSE OBVIOUS
  <2>1. CallerChecks(a, r) = <<>> BY DEF CallerChecks
  <2> QED BY <2>1 DEF Found
<1>2. CASE r = "single"
  <2>1. CallerChecks(a, r) = RocdlSingleChecks BY <1>1, <1>2 DEF CallerChecks
  <2>2. DOMAIN RocdlSingleChecks = 1 .. 5 BY DEF RocdlSingleChecks
  <2>3. PICK i \in Found(CallerChecks(a, r), t) :
          FirstVerdict(CallerChecks(a, r), t) = RocdlSingleChecks[i][2]
    BY <2>1, <2>2, FirstFound
  <2>4. i \in 1 .. 5 BY <2>1, <2>2 DEF Found
  <2> QED BY <1>1, <2>3, <2>4 DEF RocdlSingleChecks
<1>3. CASE r = "pair"
  <2>1. CallerChecks(a, r) = RocdlPairChecks BY <1>1, <1>3 DEF CallerChecks
  <2>2. DOMAIN RocdlPairChecks = 1 .. 5 BY DEF RocdlPairChecks
  <2>3. PICK i \in Found(CallerChecks(a, r), t) :
          FirstVerdict(CallerChecks(a, r), t) = RocdlPairChecks[i][2]
    BY <2>1, <2>2, FirstFound
  <2>4. i \in 1 .. 5 BY <2>1, <2>2 DEF Found
  <2> QED BY <1>1, <2>3, <2>4 DEF RocdlPairChecks
<1> QED BY <1>1, <1>2, <1>3 DEF Routes

-----------------------------------------------------------------------------
(* Steps of one session.                                                    *)

\* Of the other sessions a step leaves everything alone, their frames with it.
Local(s) ==
  /\ adapter' = adapter /\ calls' = calls /\ route' = route /\ traits' = traits
  /\ \A u \in Sessions \ {s} :
       /\ pc'[u] = pc[u] /\ result'[u] = result[u] /\ ip'[u] = ip[u] /\ live'[u] = live[u]
       /\ workMayBePending'[u] = workMayBePending[u] /\ written'[u] = written[u]
  /\ busy' \subseteq busy \cup {Frame(s)}
  /\ \A f \in Frames \ {Frame(s)} : released'[f] = released[f]
  /\ poisoned => poisoned'

\* The list may take the frame of a call that ends.
ListMoves(s) ==
  /\ Quarantined \subseteq Quarantined' /\ Quarantined' \subseteq Quarantined \cup {Frame(s)}
  /\ Frame(s) \in Quarantined' => pc'[s] = "idle"
  /\ Quarantined' # {} => poisoned'

\* The frame of a call is one, and no other frame of its session.
LEMMA FrameIsOne ==
  ASSUME GpuConstantsAssumption, TypeInv, NEW s \in Sessions, calls[s] >= 1
  PROVE  Frame(s) \in Frames /\ Frame(s)[1] = s /\ Frame(s)[2] = calls[s]
BY DEF GpuConstantsAssumption, TypeInv, Frame, Frames

LEMMA FrameForm ==
  ASSUME NEW f \in Frames
  PROVE  f[1] \in Sessions /\ f[2] \in 1 .. CallBudget /\ f = <<f[1], f[2]>>
BY DEF Frames

LEMMA FramesKept ==
  ASSUME GpuConstantsAssumption, AdapterInv, NEW s \in Sessions, pc[s] # "idle",
         Local(s), ListMoves(s),
         Frame(s) \in busy' =>
           released'[Frame(s)] = {} /\ (pc'[s] = "idle" => Frame(s) \in Quarantined')
  PROVE  ListInv' /\ BusyInv'
<1>1. PICK g : g = Frame(s) OBVIOUS
<1>2. /\ g \in Frames /\ g[1] = s /\ g[2] = calls[s] /\ calls[s] \in Nat
      /\ Local(s) /\ ListMoves(s)
  BY <1>1, FrameIsOne DEF AdapterInv, CallInv, TypeInv, GpuConstantsAssumption
<1>3. ASSUME NEW f \in Frames, f # g
      PROVE  (Ended(f)' <=> Ended(f)) /\ (Ahead(f)' <=> Ahead(f))
  BY <1>1, <1>3, FrameForm DEF Local, Ended, Ahead, Frame
<1>4. ~Ahead(g)' /\ (Ended(g)' <=> pc'[s] = "idle")
  BY <1>2 DEF Local, Ended, Ahead
<1>5. Quarantined \subseteq Frames BY DEF Quarantined, Reached
<1>6. ListInv'
  <2>1. ASSUME NEW f \in Quarantined' PROVE Ended(f)'
    <3>1. CASE f = g BY <1>1, <1>4, <2>1, <3>1 DEF ListMoves
    <3>2. CASE f # g
      <4>1. f \in Quarantined BY <1>1, <2>1, <3>2 DEF ListMoves
      <4> QED BY <1>3, <1>5, <3>2, <4>1 DEF AdapterInv, ListInv
    <3> QED BY <3>1, <3>2
  <2> QED BY <2>1 DEF ListInv, ListMoves
<1>7. ASSUME NEW f \in Frames
      PROVE  /\ f \in busy' => released'[f] = {} /\ ~Ahead(f)'
             /\ f \in busy' /\ Ended(f)' => f \in Quarantined'
             /\ Ahead(f)' => released'[f] = {}
  <2>1. CASE f = g BY <1>1, <1>4, <2>1
  <2>2. CASE f # g
    BY <1>1, <1>3, <2>2 DEF Local, ListMoves, AdapterInv, BusyInv
  <2> QED BY <2>1, <2>2
<1> QED BY <1>6, <1>7 DEF BusyInv

\* So each action is judged by what it does to its own session.
LEMMA OneSession ==
  ASSUME GpuConstantsAssumption, AdapterInv, TypeInv', NEW s \in Sessions, pc[s] # "idle",
         Local(s), ListMoves(s), CallInv(s)', EndInv(s)',
         Frame(s) \in busy' =>
           released'[Frame(s)] = {} /\ (pc'[s] = "idle" => Frame(s) \in Quarantined')
  PROVE  AdapterInv'
<1>1. ListInv' /\ BusyInv' BY FramesKept
<1>2. Frame(s) \in Frames /\ Frame(s)[1] = s
  BY FrameIsOne DEF AdapterInv, CallInv
<1>3. ASSUME NEW u \in Sessions, u # s PROVE CallInv(u)' /\ EndInv(u)'
  <2>1. /\ adapter' = adapter /\ pc'[u] = pc[u] /\ calls'[u] = calls[u] /\ route'[u] = route[u]
        /\ traits'[u] = traits[u] /\ result'[u] = result[u] /\ ip'[u] = ip[u]
        /\ live'[u] = live[u] /\ workMayBePending'[u] = workMayBePending[u]
        /\ written'[u] = written[u] /\ Frame(u)' = Frame(u)
        /\ (poisoned => poisoned') /\ Quarantined \subseteq Quarantined'
    BY <1>3 DEF Local, ListMoves, Frame
  <2>2. Frame(u) # Frame(s) BY <1>3 DEF Frame
  <2>3. Frame(u) \in busy' => Frame(u) \in busy BY <2>2 DEF Local
  <2>4. pc[u] # "idle" => released'[Frame(u)] = released[Frame(u)]
    BY <2>2, FrameIsOne DEF Local, AdapterInv, CallInv
  <2>5. CallInv(u) /\ EndInv(u) BY DEF AdapterInv
  <2>6. CallInv(u)' BY <2>1, <2>3, <2>4, <2>5 DEF CallInv, ScriptInv, Behind
  <2>7. EndInv(u)' BY <2>1, <2>5 DEF EndInv, Delivered
  <2> QED BY <2>6, <2>7
<1> QED BY <1>1, <1>3 DEF AdapterInv

\* The list as it is fits as long as nobody's flag falls.
LEMMA ListStays ==
  ASSUME GpuConstantsAssumption, AdapterInv, NEW s \in Sessions, pc[s] # "idle",
         Quarantined' = Quarantined, poisoned => poisoned'
  PROVE  ListMoves(s) /\ Frame(s) \notin Quarantined
<1>1. Frame(s) \notin Quarantined
  <2>1. ~Ended(Frame(s))
    BY FrameIsOne DEF AdapterInv, CallInv, TypeInv, GpuConstantsAssumption, Ended
  <2> QED BY <2>1 DEF AdapterInv, ListInv
<1> QED BY <1>1 DEF ListMoves, AdapterInv, ListInv

-----------------------------------------------------------------------------
(* Before the driver is called.                                             *)

\* A new call has a frame of its own, which nobody has used.
LEMMA CallKeeps ==
  ASSUME GpuConstantsAssumption, AdapterInv, NEW s \in Sessions, NEW r \in Routes, NEW t \in Traits,
         Call(s, r, t)
  PROVE  AdapterInv'
<1> DEFINE checks == CallerChecks(adapter, r)
<1>1. /\ pc[s] = "idle" /\ calls[s] < CallBudget /\ calls[s] \in Nat /\ calls'[s] = calls[s] + 1
      /\ route'[s] = r /\ traits'[s] = t /\ ip'[s] = 1 /\ live'[s] = {} /\ written'[s] = FALSE
      /\ UNCHANGED <<adapter, poisoned, quarantineHead, quarantineNext, busy, released>>
  BY DEF Call, adapterVars, AdapterInv, TypeInv, GpuConstantsAssumption
<1>2. \/ /\ Found(checks, t) # {} /\ pc' = [pc EXCEPT ![s] = "idle"]
         /\ result' = [result EXCEPT ![s] = FirstVerdict(checks, t)]
      \/ /\ Found(checks, t) = {} /\ pc' = [pc EXCEPT ![s] = "isolated"] /\ result' = result
  BY DEF Call, Return
<1>3. TypeInv'
  <2>1. TypeInv BY DEF AdapterInv
  <2>2. /\ pc' \in [Sessions -> Places] /\ result' = [u \in Sessions |-> result'[u]]
    BY <1>2, <2>1 DEF TypeInv, Places
  <2>3. /\ calls' \in [Sessions -> 0 .. CallBudget] /\ route' \in [Sessions -> Routes]
        /\ DOMAIN traits' = Sessions /\ ip' \in [Sessions -> Nat]
    BY <1>1, <2>1 DEF Call, TypeInv, GpuConstantsAssumption
  <2>4. /\ live' = [u \in Sessions |-> live'[u]] /\ workMayBePending' \in [Sessions -> BOOLEAN]
        /\ written' \in [Sessions -> BOOLEAN]
    BY <2>1 DEF Call, TypeInv
  <2> QED BY <1>1, <2>1, <2>2, <2>3, <2>4 DEF TypeInv
<1>4. Quarantined' = Quarantined BY <1>1, SameList
<1>5. \A u \in Sessions \ {s} :
        /\ pc'[u] = pc[u] /\ calls'[u] = calls[u] /\ route'[u] = route[u] /\ traits'[u] = traits[u]
        /\ result'[u] = result[u] /\ ip'[u] = ip[u] /\ live'[u] = live[u]
        /\ workMayBePending'[u] = workMayBePending[u] /\ written'[u] = written[u]
  BY <1>2 DEF Call, AdapterInv, TypeInv
<1>6. ASSUME NEW f \in Frames
      PROVE  /\ Ended(f) => Ended(f)'
             /\ Ahead(f)' => Ahead(f)
             /\ Ended(f)' => Ended(f) \/ f = <<s, calls[s] + 1>>
  BY <1>1, <1>5, FrameForm DEF Ended, Ahead
<1>7. Frame(s)' = <<s, calls[s] + 1>> /\ <<s, calls[s] + 1>> \in Frames /\ Ahead(<<s, calls[s] + 1>>)
  BY <1>1 DEF Frame, Frames, Ahead, GpuConstantsAssumption
<1>8. Frame(s)' \notin busy /\ released[Frame(s)'] = {}
  BY <1>7 DEF AdapterInv, BusyInv
<1>9. ListInv'
  <2>1. \A f \in Quarantined : f \in Frames BY DEF Quarantined, Reached
  <2> QED BY <1>1, <1>4, <1>6, <2>1 DEF AdapterInv, ListInv
<1>10. BusyInv' BY <1>1, <1>4, <1>6, <1>7, <1>8 DEF AdapterInv, BusyInv
<1>11. CallInv(s)' BY <1>1, <1>2, <1>8 DEF CallInv, Behind, AdapterInv, TypeInv
<1>12. EndInv(s)'
  <2>1. ASSUME pc'[s] = "idle" PROVE Delivered(s)'
    <3>1. Found(checks, t) # {} /\ result'[s] = FirstVerdict(checks, t)
      BY <1>2, <2>1 DEF AdapterInv, TypeInv
    <3>2. result'[s] # "ok"
      BY <3>1, CallerRefuses DEF AdapterInv, TypeInv, GpuConstantsAssumption
    <3> QED BY <3>2 DEF Delivered
  <2> QED BY <1>1, <2>1 DEF EndInv
<1>13. ASSUME NEW u \in Sessions, u # s PROVE CallInv(u)' /\ EndInv(u)'
  <2>1. CallInv(u) /\ EndInv(u) BY DEF AdapterInv
  <2>2. CallInv(u)' BY <1>1, <1>5, <1>13, <2>1 DEF CallInv, ScriptInv, Behind, Frame
  <2>3. EndInv(u)' BY <1>1, <1>4, <1>5, <1>13, <2>1 DEF EndInv, Delivered, Frame
  <2> QED BY <2>2, <2>3
<1> QED BY <1>3, <1>9, <1>10, <1>11, <1>12, <1>13 DEF AdapterInv

\* What a step before the driver's calls leaves alone.
Quiet == UNCHANGED <<adapter, poisoned, quarantineHead, quarantineNext, calls, route, traits, ip,
                     live, workMayBePending, written, busy, released>>

LEMMA QuietKeeps ==
  ASSUME GpuConstantsAssumption, AdapterInv, NEW s \in Sessions, Quiet, TypeInv',
         pc[s] \in {"isolated", "discover"},
         \A u \in Sessions \ {s} : pc'[u] = pc[u] /\ result'[u] = result[u],
         CallInv(s)', pc'[s] = "idle" => Delivered(s)'
  PROVE  AdapterInv'
<1>1. CallInv(s) BY DEF AdapterInv
<1>2. Local(s) BY DEF Quiet, Local
<1>3. ListMoves(s) BY ListStays, SameList DEF Quiet
<1>4. Frame(s)' = Frame(s) BY DEF Frame, Quiet
<1>5. Frame(s) \notin busy' /\ live'[s] = {} /\ ~written'[s]
  BY <1>1 DEF CallInv, Quiet
<1>6. EndInv(s)' BY <1>5 DEF EndInv
<1> QED BY <1>2, <1>3, <1>5, <1>6, OneSession

LEMMA BeforeDriver ==
  ASSUME GpuConstantsAssumption, AdapterInv, NEW s \in Sessions,
         Isolated(s) \/ WorkerFails(s) \/ Discover(s)
  PROVE  AdapterInv'
<1>1. Quiet BY DEF Isolated, WorkerFails, Discover, callVars, adapterVars, Quiet
<1>2. CallInv(s) /\ adapter \in {"cuda", "rocdl"} /\ route[s] \in Routes
  BY DEF AdapterInv, TypeInv, GpuConstantsAssumption
<1>3. CASE Isolated(s)
  <2>1. /\ pc[s] = "isolated"
        /\ \/ pc' = [pc EXCEPT ![s] = "discover"] /\ result' = result
           \/ /\ pc' = [pc EXCEPT ![s] = "idle"]
              /\ \E c \in {"candidate_failure", "candidate_unavailable"} :
                   result' = [result EXCEPT ![s] = c]
    BY <1>3, <1>2 DEF Isolated, Return, Refused
  <2>2. TypeInv' BY <1>1, <2>1 DEF Quiet, AdapterInv, TypeInv, Places
  <2>3. CallInv(s)'
    BY <1>1, <1>2, <2>1 DEF Quiet, CallInv, Frame, Behind, AdapterInv, TypeInv
  <2>4. pc'[s] = "idle" => Delivered(s)' BY <2>1 DEF Delivered, AdapterInv, TypeInv
  <2> QED BY <1>1, <2>1, <2>2, <2>3, <2>4, QuietKeeps DEF AdapterInv, TypeInv
<1>4. CASE WorkerFails(s)
  <2>1. /\ pc[s] = "discover" /\ pc' = [pc EXCEPT ![s] = "idle"]
        /\ \E c : c # "ok" /\ result' = [result EXCEPT ![s] = c]
    BY <1>4 DEF WorkerFails, Return
  <2>2. TypeInv' BY <1>1, <2>1 DEF Quiet, AdapterInv, TypeInv, Places
  <2>3. CallInv(s)'
    BY <1>1, <1>2, <2>1 DEF Quiet, CallInv, Frame, Behind, AdapterInv, TypeInv
  <2>4. Delivered(s)' BY <2>1 DEF Delivered, AdapterInv, TypeInv
  <2> QED BY <1>1, <2>1, <2>2, <2>3, <2>4, QuietKeeps DEF AdapterInv, TypeInv
<1>5. CASE Discover(s)
  <2> DEFINE W == WorkerChecks(adapter, route[s])
  <2>1. /\ pc[s] = "discover"
        /\ \/ /\ pc' = [pc EXCEPT ![s] = "idle"]
              /\ \E c : /\ result' = [result EXCEPT ![s] = c]
                        /\ \/ c # "ok" \/ route[s] = "available"
                           \/ /\ Found(W, traits[s]) # {} /\ c = FirstVerdict(W, traits[s])
                              /\ route[s] # "available"
           \/ /\ pc' = [pc EXCEPT ![s] = "script"] /\ result' = result
              /\ route[s] # "available" /\ Found(W, traits[s]) = {}
    BY <1>5 DEF Discover, Return
  <2>2. TypeInv' BY <1>1, <2>1 DEF Quiet, AdapterInv, TypeInv, Places, Behind
  <2>3. CallInv(s)'
    <3>1. CASE pc'[s] = "idle" BY <3>1 DEF CallInv, Behind
    <3>2. CASE pc'[s] = "script"
      <4>1. route[s] # "available" /\ Found(W, traits[s]) = {}
        BY <2>1, <3>2 DEF AdapterInv, TypeInv
      <4>2. /\ calls[s] >= 1 /\ ~written[s] /\ ip[s] = 1 /\ live[s] = {}
            /\ Frame(s) \notin busy /\ released[Frame(s)] = {}
            /\ Found(CallerChecks(adapter, route[s]), traits[s]) = {}
        BY <1>2, <2>1 DEF CallInv
      <4>3. ScriptInv(s)' BY <1>1, <4>2 DEF Quiet, ScriptInv, Frame
      <4> QED BY <1>1, <3>2, <4>1, <4>2, <4>3 DEF Quiet, CallInv
    <3> QED BY <2>1, <3>1, <3>2 DEF AdapterInv, TypeInv
  <2>4. pc'[s] = "idle" => Delivered(s)'
    <3> SUFFICES ASSUME pc'[s] = "idle", route[s] # "available", result'[s] = "ok"
                 PROVE  "empty" \in traits[s] /\ traits[s] \cap Defects = {}
      BY <1>1 DEF Quiet, Delivered
    <3>1. Found(W, traits[s]) # {} /\ FirstVerdict(W, traits[s]) = "ok"
      BY <2>1 DEF AdapterInv, TypeInv
    <3>2. Found(CallerChecks(adapter, route[s]), traits[s]) = {} BY <1>2, <2>1 DEF CallInv
    <3> QED BY <1>2, <3>1, <3>2, ChecksAreComplete DEF Routes
  <2> QED BY <1>1, <2>1, <2>2, <2>3, <2>4, QuietKeeps DEF AdapterInv, TypeInv
<1> QED BY <1>3, <1>4, <1>5

-----------------------------------------------------------------------------
(* The driver's calls.                                                      *)

\* What the calls of a script are, by their position.
Kinds == [cuda |-> <<"stage", "query", "acquire", "acquire", "acquire", "copyIn", "launch",
                     "sync", "copyOut">>,
          rocdl |-> <<"stage", "acquire", "acquire", "acquire", "mark", "copyIn", "launch",
                      "copyOut", "sync">>]

LEMMA ScriptCalls ==
  ASSUME NEW a \in {"cuda", "rocdl"}, NEW r \in {"single", "pair"}
  PROVE  /\ Len(Script(a, r)) = 9
         /\ \A i \in 1 .. 9 :
              /\ Script(a, r)[i].kind = Kinds[a][i] /\ "ok" \notin Script(a, r)[i].codes
              /\ Kinds[a][i] = "mark" => Script(a, r)[i].codes = {}
         /\ a = "cuda" => Script(a, r)[3].res = "context"
<1>1. CASE a = "cuda"
  <2>1. Script(a, r) = CudaSingle BY <1>1 DEF Script, CudaPair, CudaSingle
  <2>2. Len(CudaSingle) = 9 BY DEF CudaSingle
  <2>3. \A i \in 1 .. 9 : CudaSingle[i].kind = Kinds.cuda[i]
    BY DEF CudaSingle, Kinds, Stage, Query, Acquire, CudaMemory, AcquireMemory, CopyIn, Launch,
       CopyOut, Synchronize
  <2>4. \A i \in 1 .. 9 : "ok" \notin CudaSingle[i].codes
    BY DEF CudaSingle, Stage, Query, Acquire, CudaMemory, AcquireMemory, CopyIn, Launch,
       CopyOut, Synchronize
  <2>5. \A i \in 1 .. 9 : Kinds.cuda[i] # "mark" BY DEF Kinds
  <2>6. CudaSingle[3].res = "context" BY DEF CudaSingle, Acquire
  <2> QED BY <1>1, <2>1, <2>2, <2>3, <2>4, <2>5, <2>6
<1>2. CASE a = "rocdl"
  <2>1. Script(a, r) = RocdlSingle BY <1>2 DEF Script, RocdlPair, RocdlSingle
  <2>2. Len(RocdlSingle) = 9 BY DEF RocdlSingle
  <2>3. \A i \in 1 .. 9 : RocdlSingle[i].kind = Kinds.rocdl[i]
    BY DEF RocdlSingle, Kinds, Stage, Acquire, RocdlMemory, AcquireMemory, CopyIn, Launch,
       CopyOut, Synchronize, MarkPending
  <2>4. \A i \in 1 .. 9 : "ok" \notin RocdlSingle[i].codes
    BY DEF RocdlSingle, Stage, Acquire, RocdlMemory, AcquireMemory, CopyIn, Launch,
       CopyOut, Synchronize, MarkPending
  <2>5. \A i \in 1 .. 9 : Kinds.rocdl[i] = "mark" => RocdlSingle[i].codes = {}
    BY DEF Kinds, RocdlSingle, MarkPending
  <2> QED BY <1>2, <2>1, <2>2, <2>3, <2>4, <2>5
<1> QED BY <1>1, <1>2

LEMMA DriverSucceedsKeeps ==
  ASSUME GpuConstantsAssumption, AdapterInv, NEW s \in Sessions, DriverSucceeds(s)
  PROVE  AdapterInv'
<1> DEFINE kind == Kinds[adapter][ip[s]]
<1>1. /\ pc[s] = "script" /\ adapter \in {"cuda", "rocdl"} /\ route[s] \in {"single", "pair"}
      /\ ip[s] \in 1 .. 9 /\ ScriptInv(s) /\ CallInv(s)
  BY DEF DriverSucceeds, AdapterInv, TypeInv, CallInv, ScriptInv, Behind, Routes,
     GpuConstantsAssumption
<1>2. Item(s).kind = kind /\ Len(Script(adapter, route[s])) = 9
  BY <1>1, ScriptCalls DEF Item
<1>3. /\ UNCHANGED <<adapter, poisoned, quarantineHead, quarantineNext, calls, route, traits,
                     written, released>>
      /\ ip' = [ip EXCEPT ![s] = ip[s] + 1]
      /\ \/ ip[s] < 9 /\ pc' = pc /\ result' = result
         \/ /\ ip[s] = 9 /\ result' = [result EXCEPT ![s] = "ok"]
            /\ pc' = [pc EXCEPT ![s] = IF adapter = "cuda" THEN "finishSync" ELSE "release"]
      /\ live' = IF kind = "acquire" THEN [live EXCEPT ![s] = live[s] \cup {Item(s).res}] ELSE live
      /\ kind = "mark" => workMayBePending' = [workMayBePending EXCEPT ![s] = TRUE]
      /\ kind = "sync" => workMayBePending' = [workMayBePending EXCEPT ![s] = FALSE]
      /\ kind \notin {"mark", "sync"} => workMayBePending' = workMayBePending
  BY <1>1, <1>2 DEF DriverSucceeds, Advance, callVars, adapterVars
<1>4. /\ busy' \in {busy, busy \cup {Frame(s)}}
      /\ busy' # busy => ip[s] >= 6
      /\ kind = "sync" => Frame(s) \notin busy'
  <2>1. kind \in {"copyIn", "launch", "copyOut"} => ip[s] >= 6
    BY <1>1 DEF Kinds
  <2> QED BY <1>2, <2>1 DEF DriverSucceeds, Skipped
<1>5. TypeInv'
  <2>1. Frame(s) \in Frames BY <1>1, FrameIsOne DEF AdapterInv, CallInv
  <2>2. busy' \subseteq Frames BY <1>4, <2>1 DEF AdapterInv, TypeInv
  <2>3. live' = [u \in Sessions |-> live'[u]] /\ workMayBePending' \in [Sessions -> BOOLEAN]
    BY <1>3 DEF AdapterInv, TypeInv
  <2>4. /\ pc' \in [Sessions -> Places] /\ ip' \in [Sessions -> Nat]
        /\ result' = [u \in Sessions |-> result'[u]]
    BY <1>3 DEF AdapterInv, TypeInv, Places, Behind
  <2> QED BY <1>3, <2>2, <2>3, <2>4 DEF AdapterInv, TypeInv
<1>6. Local(s) BY <1>3, <1>4 DEF Local, AdapterInv, TypeInv
<1>7. ListMoves(s) BY <1>1, <1>3, SameList, ListStays
<1>8. Frame(s)' = Frame(s) BY <1>3 DEF Frame
<1>9. Frame(s) \in busy' => ip[s] >= 6
  BY <1>1, <1>4 DEF ScriptInv
<1>10. CallInv(s)'
  <2>1. CASE ip[s] < 9
    <3>1. ip'[s] = ip[s] + 1 BY <1>3 DEF AdapterInv, TypeInv
    <3>2. adapter = "cuda" =>
            /\ ip'[s] <= 3 => live'[s] = {}
            /\ ip'[s] >= 4 => "context" \in live'[s]
      <4> SUFFICES ASSUME adapter = "cuda"
                   PROVE  /\ ip'[s] <= 3 => live'[s] = {}
                          /\ ip'[s] >= 4 => "context" \in live'[s]
        OBVIOUS
      <4>1. ip[s] \in {1, 2} => kind # "acquire" BY DEF Kinds
      <4>2. ip[s] = 3 => kind = "acquire" /\ Item(s).res = "context"
        BY <1>1, ScriptCalls DEF Kinds, Item
      <4> QED BY <1>1, <1>3, <3>1, <4>1, <4>2 DEF ScriptInv, AdapterInv, TypeInv
    <3>3. adapter = "rocdl" =>
            /\ ip'[s] = 1 => live'[s] = {}
            /\ ip'[s] >= 6 => workMayBePending'[s]
      <4> SUFFICES ASSUME adapter = "rocdl", ip'[s] >= 6 PROVE workMayBePending'[s]
        BY <1>1, <3>1
      <4>1. ip[s] = 5 => kind = "mark" BY DEF Kinds
      <4>2. ip[s] \in 6 .. 8 => kind \notin {"mark", "sync"} BY DEF Kinds
      <4> QED BY <1>1, <1>3, <2>1, <3>1, <4>1, <4>2 DEF ScriptInv, AdapterInv, TypeInv
    <3>4. ScriptInv(s)'
      BY <1>1, <1>3, <1>8, <1>9, <2>1, <3>1, <3>2, <3>3 DEF ScriptInv
    <3> QED BY <1>1, <1>3, <2>1, <3>4 DEF CallInv, Behind
  <2>2. CASE ip[s] = 9
    <3>1. adapter = "rocdl" => kind = "sync" BY <2>2 DEF Kinds
    <3>2. pc'[s] = IF adapter = "cuda" THEN "finishSync" ELSE "release"
      BY <1>1, <1>3, <2>2 DEF AdapterInv, TypeInv
    <3> QED BY <1>1, <1>3, <1>4, <1>8, <3>1, <3>2 DEF CallInv, Behind
  <2> QED BY <1>1, <2>1, <2>2
<1>11. pc'[s] # "idle" BY <1>1, <1>3 DEF AdapterInv, TypeInv
<1>12. EndInv(s)' BY <1>11 DEF EndInv
<1>13. released'[Frame(s)] = {} BY <1>1, <1>3 DEF ScriptInv
<1> QED BY <1>1, <1>5, <1>6, <1>7, <1>10, <1>11, <1>12, <1>13, OneSession

LEMMA DriverFailsKeeps ==
  ASSUME GpuConstantsAssumption, AdapterInv, NEW s \in Sessions, DriverFails(s)
  PROVE  AdapterInv'
<1> DEFINE kind == Kinds[adapter][ip[s]]
<1>1. /\ pc[s] = "script" /\ adapter \in {"cuda", "rocdl"} /\ route[s] \in {"single", "pair"}
      /\ ip[s] \in 1 .. 9 /\ ScriptInv(s) /\ CallInv(s)
  BY DEF DriverFails, AdapterInv, TypeInv, CallInv, ScriptInv, Behind, Routes,
     GpuConstantsAssumption
<1>2. /\ Item(s).kind = kind /\ "ok" \notin Item(s).codes
      /\ kind = "mark" => Item(s).codes = {}
  BY <1>1, ScriptCalls DEF Item
<1>3. /\ UNCHANGED <<adapter, poisoned, quarantineHead, quarantineNext, calls, route, traits, ip,
                     live, workMayBePending, written, released>>
      /\ \E code \in Item(s).codes : result' = [result EXCEPT ![s] = code]
      /\ pc' = [pc EXCEPT ![s] = OnFailure(s)]
  BY DEF DriverFails, callVars, adapterVars
<1>4. kind # "mark" /\ result'[s] # "ok"
  BY <1>2, <1>3 DEF AdapterInv, TypeInv
<1>5. /\ busy' \in {busy, busy \cup {Frame(s)}}
      /\ busy' # busy => ip[s] >= 6
  <2>1. kind \in {"copyIn", "launch", "copyOut"} => ip[s] >= 6
    BY <1>1 DEF Kinds
  <2> QED BY <1>2, <2>1 DEF DriverFails
<1>6. Frame(s) \in busy' => ip[s] >= 6
  BY <1>1, <1>5 DEF ScriptInv
<1>7. /\ OnFailure(s) = "idle" => live[s] = {} /\ Frame(s) \notin busy'
      /\ OnFailure(s) = "failed" => (Frame(s) \in busy' => workMayBePending[s])
      /\ OnFailure(s) \in {"idle", "finishSync", "failed"}
  <2>1. CASE adapter = "cuda"
    BY <1>1, <1>6, <2>1 DEF OnFailure, ScriptInv
  <2>2. CASE adapter = "rocdl"
    <3>1. kind = "stage" => ip[s] = 1 BY <1>1, <2>2 DEF Kinds
    <3> QED BY <1>1, <1>2, <1>6, <2>2, <3>1 DEF OnFailure, ScriptInv
  <2> QED BY <1>1, <2>1, <2>2
<1>8. TypeInv'
  <2>1. Frame(s) \in Frames BY <1>1, FrameIsOne DEF AdapterInv, CallInv
  <2> QED BY <1>3, <1>5, <1>7, <2>1 DEF AdapterInv, TypeInv, Places, Behind
<1>9. Local(s) BY <1>3, <1>5 DEF Local, AdapterInv, TypeInv
<1>10. ListMoves(s) BY <1>1, <1>3, SameList, ListStays
<1>11. Frame(s)' = Frame(s) /\ pc'[s] = OnFailure(s)
  BY <1>3 DEF Frame, AdapterInv, TypeInv
<1>12. CallInv(s)'
  BY <1>1, <1>3, <1>7, <1>11 DEF CallInv, Behind
<1>13. EndInv(s)'
  <2>1. ~written[s] BY <1>1 DEF CallInv
  <2> QED BY <1>3, <1>4, <1>7, <1>11, <2>1 DEF EndInv, Delivered
<1>14. released'[Frame(s)] = {} BY <1>1, <1>3 DEF ScriptInv
<1> QED BY <1>1, <1>7, <1>8, <1>9, <1>10, <1>11, <1>12, <1>13, <1>14, OneSession

\* The device may finish at any time.
LEMMA DeviceKeeps ==
  ASSUME GpuConstantsAssumption, AdapterInv, NEW f \in Frames, DeviceCompletes(f)
  PROVE  AdapterInv'
<1>1. /\ busy' \subseteq busy
      /\ UNCHANGED <<adapter, poisoned, quarantineHead, quarantineNext, calls, route, traits, pc,
                     result, ip, live, workMayBePending, written, released>>
  BY DEF DeviceCompletes, callVars, adapterVars
<1>2. Quarantined' = Quarantined BY <1>1, SameList
<1>3. TypeInv' BY <1>1 DEF AdapterInv, TypeInv
<1>4. ListInv' BY <1>1, <1>2 DEF AdapterInv, ListInv, Ended
<1>5. BusyInv' BY <1>1, <1>2 DEF AdapterInv, BusyInv, Ended, Ahead
<1>6. ASSUME NEW s \in Sessions PROVE CallInv(s)' /\ EndInv(s)'
  <2>1. CallInv(s) /\ EndInv(s) BY DEF AdapterInv
  <2>2. CallInv(s)' BY <1>1, <2>1 DEF CallInv, ScriptInv, Frame
  <2>3. EndInv(s)' BY <1>1, <1>2, <2>1 DEF EndInv, Delivered, Frame
  <2> QED BY <2>2, <2>3
<1> QED BY <1>3, <1>4, <1>5, <1>6 DEF AdapterInv

-----------------------------------------------------------------------------
(* Cleanup.                                                                 *)

\* A step of the cleanup that does not end the call: what was queued is queued, and what
\* is given back is given back for a frame the device has left.
LEMMA CleanupKeeps ==
  ASSUME GpuConstantsAssumption, AdapterInv, TypeInv', NEW s \in Sessions, pc[s] \in Behind,
         Local(s), UNCHANGED <<written, busy>>, Quarantined' = Quarantined,
         pc'[s] \in Behind \ {"script"},
         Frame(s) \in busy => released'[Frame(s)] = {},
         pc'[s] = "failed" => (Frame(s) \in busy => workMayBePending'[s]),
         pc'[s] \in {"finishFree", "release", "deliver"} => Frame(s) \notin busy,
         pc'[s] = "deliver" => live'[s] = {},
         pc'[s] = "link" => poisoned' /\ result'[s] # "ok"
  PROVE  AdapterInv'
<1>1. CallInv(s) BY DEF AdapterInv
<1>2. pc[s] # "idle" /\ pc'[s] # "idle" BY DEF Behind
<1>3. /\ adapter' = adapter /\ calls' = calls /\ route' = route /\ traits' = traits
      /\ (poisoned => poisoned')
  BY DEF Local
<1>4. ListMoves(s) BY <1>2, <1>3, ListStays
<1>5. Frame(s)' = Frame(s) BY <1>3 DEF Frame
<1>6. CallInv(s)' BY <1>1, <1>2, <1>3, <1>5 DEF CallInv, Behind
<1>7. EndInv(s)' BY <1>2 DEF EndInv
<1> QED BY <1>2, <1>4, <1>6, <1>7, OneSession

\* What a frame in use has given back: nothing.
LEMMA InUse ==
  ASSUME GpuConstantsAssumption, AdapterInv, NEW s \in Sessions, pc[s] # "idle"
  PROVE  Frame(s) \in Frames /\ (Frame(s) \in busy => released[Frame(s)] = {})
<1>1. Frame(s) \in Frames BY FrameIsOne DEF AdapterInv, CallInv
<1> QED BY <1>1 DEF AdapterInv, BusyInv

LEMMA FinishSyncKeeps ==
  ASSUME GpuConstantsAssumption, AdapterInv, NEW s \in Sessions, FinishSync(s) \/ FinishPop(s)
  PROVE  AdapterInv'
<1>1. /\ pc[s] \in {"finishSync", "finishPop"}
      /\ UNCHANGED <<adapter, quarantineHead, quarantineNext, calls, route, traits, result, ip, live,
                     workMayBePending, written, busy, released>>
      /\ poisoned' \in {poisoned, TRUE}
  BY DEF FinishSync, FinishPop, callVars, adapterVars
<1>2. \E p \in {"finishFree", "finishPop", "quarantine"} :
        pc' = [pc EXCEPT ![s] = p] /\ (p = "finishFree" => Frame(s) \notin busy)
  BY DEF FinishSync, FinishPop
<1>3. TypeInv BY DEF AdapterInv
<1>4. /\ pc'[s] \in {"finishFree", "finishPop", "quarantine"}
      /\ pc'[s] = "finishFree" => Frame(s) \notin busy
      /\ \A u \in Sessions \ {s} : pc'[u] = pc[u]
  BY <1>2, <1>3 DEF TypeInv
<1>5. TypeInv' BY <1>1, <1>2, <1>3 DEF TypeInv, Places, Behind
<1>6. Local(s) BY <1>1, <1>3, <1>4 DEF Local, TypeInv
<1>7. Frame(s) \in busy => released'[Frame(s)] = {} BY <1>1, InUse
<1>8. Quarantined' = Quarantined BY <1>1, SameList
<1>9. pc[s] \in Behind /\ pc'[s] \in Behind \ {"script"} BY <1>1, <1>4 DEF Behind
<1> QED BY <1>1, <1>4, <1>5, <1>6, <1>7, <1>8, <1>9, CleanupKeeps

LEMMA FailedKeeps ==
  ASSUME GpuConstantsAssumption, AdapterInv, NEW s \in Sessions, Failed(s)
  PROVE  AdapterInv'
<1>1. /\ pc[s] = "failed"
      /\ UNCHANGED <<adapter, poisoned, quarantineHead, quarantineNext, calls, route, traits, result,
                     ip, live, written, busy, released>>
  BY DEF Failed, callVars, adapterVars
<1>2. TypeInv /\ CallInv(s) BY DEF AdapterInv
<1>3. /\ \E p \in {"release", "quarantine"} :
           pc' = [pc EXCEPT ![s] = p] /\ (p = "release" => Frame(s) \notin busy)
      /\ workMayBePending' \in {workMayBePending, [workMayBePending EXCEPT ![s] = FALSE]}
  BY <1>1, <1>2 DEF Failed, CallInv
<1>4. /\ pc'[s] \in {"release", "quarantine"} /\ (pc'[s] = "release" => Frame(s) \notin busy)
      /\ \A u \in Sessions \ {s} :
           pc'[u] = pc[u] /\ workMayBePending'[u] = workMayBePending[u]
  BY <1>2, <1>3 DEF TypeInv
<1>5. TypeInv'
  <2>1. pc' \in [Sessions -> Places] BY <1>2, <1>3 DEF TypeInv, Places, Behind
  <2>2. workMayBePending' \in [Sessions -> BOOLEAN] BY <1>2, <1>3 DEF TypeInv
  <2> QED BY <1>1, <1>2, <2>1, <2>2 DEF TypeInv
<1>6. Local(s) BY <1>1, <1>4 DEF Local
<1>7. Frame(s) \in busy => released'[Frame(s)] = {} BY <1>1, InUse
<1>8. Quarantined' = Quarantined BY <1>1, SameList
<1>9. pc[s] \in Behind /\ pc'[s] \in Behind \ {"script"} BY <1>1, <1>4 DEF Behind
<1> QED BY <1>1, <1>4, <1>5, <1>6, <1>7, <1>8, <1>9, CleanupKeeps

\* Only a frame the device has left gives anything back.
LEMMA GivesBack ==
  ASSUME GpuConstantsAssumption, AdapterInv, NEW s \in Sessions, NEW kept,
         FinishFree(s) \/ Release(s), GiveBack(s, kept)
  PROVE  /\ Frame(s) \notin busy /\ live' = [live EXCEPT ![s] = kept]
         /\ DOMAIN released' = Frames
         /\ \A f \in Frames \ {Frame(s)} : released'[f] = released[f]
<1>1. CallInv(s) /\ TypeInv BY DEF AdapterInv
<1>2. Frame(s) \notin busy BY <1>1 DEF FinishFree, Release, CallInv
<1> QED BY <1>1, <1>2 DEF GiveBack, TypeInv

LEMMA ReleaseKeeps ==
  ASSUME GpuConstantsAssumption, AdapterInv, NEW s \in Sessions, FinishFree(s) \/ Release(s)
  PROVE  AdapterInv'
<1>1. /\ pc[s] \in {"finishFree", "release"}
      /\ UNCHANGED <<adapter, quarantineHead, quarantineNext, calls, route, traits, result, ip,
                     workMayBePending, written, busy>>
  BY DEF FinishFree, Release, callVars, adapterVars
<1>2. TypeInv BY DEF AdapterInv
<1>3. PICK p \in {"deliver", "quarantine"}, kept \in SUBSET live[s] :
        /\ pc' = [pc EXCEPT ![s] = p] /\ GiveBack(s, kept) /\ (p = "deliver" => kept = {})
        /\ poisoned' \in BOOLEAN /\ (poisoned => poisoned')
  <2>1. CASE FinishFree(s)
    <3>1. PICK kept \in SUBSET live[s], poppedClean \in BOOLEAN :
            LET okay == kept = {} /\ poppedClean IN
            /\ GiveBack(s, kept)
            /\ poisoned' = (poisoned \/ ~okay)
            /\ pc' = [pc EXCEPT ![s] = IF okay THEN "deliver" ELSE "quarantine"]
      BY <2>1 DEF FinishFree
    <3>2. CASE kept = {} /\ poppedClean BY <1>2, <3>1, <3>2 DEF TypeInv
    <3>3. CASE ~(kept = {} /\ poppedClean) BY <3>1, <3>3
    <3> QED BY <3>2, <3>3
  <2>2. CASE Release(s)
    <3>1. PICK kept \in SUBSET live[s] :
            /\ GiveBack(s, kept)
            /\ pc' = [pc EXCEPT ![s] = IF kept = {} THEN "deliver" ELSE "quarantine"]
      BY <2>2 DEF Release
    <3> QED BY <1>2, <2>2, <3>1 DEF Release, adapterVars, TypeInv
  <2> QED BY <2>1, <2>2
<1>4. /\ Frame(s) \notin busy /\ live' = [live EXCEPT ![s] = kept]
      /\ DOMAIN released' = Frames
      /\ \A f \in Frames \ {Frame(s)} : released'[f] = released[f]
  BY <1>3, GivesBack
<1>5. /\ pc'[s] = p /\ live'[s] = kept
      /\ \A u \in Sessions \ {s} : pc'[u] = pc[u] /\ live'[u] = live[u]
  BY <1>2, <1>3, <1>4 DEF TypeInv
<1>6. TypeInv' BY <1>1, <1>2, <1>3, <1>4 DEF TypeInv, Places, Behind
<1>7. Local(s) BY <1>1, <1>3, <1>4, <1>5 DEF Local
<1>8. Quarantined' = Quarantined BY <1>1, SameList
<1>9. pc[s] \in Behind /\ pc'[s] \in Behind \ {"script"} BY <1>1, <1>5 DEF Behind
<1> QED BY <1>1, <1>3, <1>4, <1>5, <1>6, <1>7, <1>8, <1>9, CleanupKeeps

\* The flag is set before the frame is linked, and its pointer moves nobody's.
LEMMA QuarantineKeeps ==
  ASSUME GpuConstantsAssumption, AdapterInv, NEW s \in Sessions, Quarantine(s)
  PROVE  AdapterInv'
<1>1. /\ pc[s] = "quarantine" /\ poisoned' = TRUE /\ pc' = [pc EXCEPT ![s] = "link"]
      /\ quarantineNext' = [quarantineNext EXCEPT ![Frame(s)] = quarantineHead]
      /\ result' = [result EXCEPT ![s] = QuarantineCode(adapter, result[s])]
      /\ UNCHANGED <<adapter, quarantineHead, calls, route, traits, ip, live, workMayBePending,
                     written, busy, released>>
  BY DEF Quarantine, callVars, QuarantinePoison
<1>2. TypeInv BY DEF AdapterInv
<1>3. Frame(s) \in Frames /\ (Frame(s) \in busy => released[Frame(s)] = {}) BY <1>1, InUse
<1>4. Frame(s) \notin Quarantined
  <2>1. ~Ended(Frame(s))
    BY <1>1, FrameIsOne DEF AdapterInv, CallInv, TypeInv, GpuConstantsAssumption, Ended
  <2> QED BY <2>1 DEF AdapterInv, ListInv
<1>5. Quarantined' = Quarantined
  <2>1. PICK f : f = Frame(s) OBVIOUS
  <2>2. f \in Frames \ Reached(quarantineHead, quarantineNext) BY <1>3, <1>4, <2>1 DEF Quarantined
  <2>3. \A g \in Frames \ {f} : quarantineNext'[g] = quarantineNext[g]
    BY <1>1, <1>2, <2>1 DEF TypeInv
  <2>4. Reached(quarantineHead, quarantineNext') = Reached(quarantineHead, quarantineNext)
    BY <2>2, <2>3, PointerIsFree
  <2> QED BY <1>1, <2>4 DEF Quarantined
<1>6. QuarantineCode(adapter, result[s]) # "ok" BY DEF QuarantineCode
<1>7. /\ pc'[s] = "link" /\ result'[s] # "ok"
      /\ \A u \in Sessions \ {s} : pc'[u] = pc[u] /\ result'[u] = result[u]
  BY <1>1, <1>2, <1>6 DEF TypeInv
<1>8. TypeInv' BY <1>1, <1>2, <1>3 DEF TypeInv, Places, Behind
<1>9. Local(s) BY <1>1, <1>7 DEF Local
<1>10. pc[s] \in Behind /\ pc'[s] \in Behind \ {"script"} BY <1>1, <1>7 DEF Behind
<1> QED BY <1>1, <1>3, <1>5, <1>7, <1>8, <1>9, <1>10, CleanupKeeps

\* The exchange puts the frame in front of the others, or looks again.
LEMMA LinkKeeps ==
  ASSUME GpuConstantsAssumption, AdapterInv, NEW s \in Sessions, Link(s)
  PROVE  AdapterInv'
<1>1. /\ pc[s] = "link"
      /\ UNCHANGED <<adapter, poisoned, calls, route, traits, result, ip, live, workMayBePending,
                     written, busy, released>>
  BY DEF Link, callVars
<1>2. TypeInv /\ CallInv(s) BY DEF AdapterInv
<1>3. PICK f : f = Frame(s) OBVIOUS
<1>4. f \in Frames /\ (f \in busy => released[f] = {}) BY <1>1, <1>3, InUse
<1>5. CASE quarantineNext[f] = quarantineHead
  <2>1. quarantineHead' = f /\ quarantineNext' = quarantineNext /\ pc' = [pc EXCEPT ![s] = "idle"]
    BY <1>3, <1>5 DEF Link, LinkSucceeds
  <2>2. Quarantined' = Quarantined \cup {f}
    BY <1>4, <1>5, <2>1, PushKeepsList DEF Quarantined
  <2>3. TypeInv' BY <1>1, <1>2, <1>4, <2>1 DEF TypeInv, Places
  <2>4. pc'[s] = "idle" BY <1>2, <2>1 DEF TypeInv
  <2>5. Local(s) BY <1>1, <1>2, <2>1 DEF Local, TypeInv
  <2>6. ListMoves(s) BY <1>1, <1>2, <1>3, <2>2, <2>4 DEF ListMoves, CallInv
  <2>7. Frame(s)' = f BY <1>1, <1>3 DEF Frame
  <2>8. CallInv(s)' BY <2>4 DEF CallInv, Behind
  <2>9. EndInv(s)' BY <1>1, <1>2, <2>2, <2>7 DEF EndInv, Delivered, CallInv
  <2> QED BY <1>1, <1>3, <1>4, <2>2, <2>3, <2>5, <2>6, <2>8, <2>9, OneSession
<1>6. CASE quarantineNext[f] # quarantineHead
  <2>1. /\ quarantineNext' = [quarantineNext EXCEPT ![f] = quarantineHead]
        /\ UNCHANGED <<quarantineHead, pc>>
    BY <1>3, <1>6 DEF Link, LinkSucceeds, Reloaded
  <2>2. f \notin Quarantined
    <3>1. ~Ended(f)
      BY <1>1, <1>2, <1>3, FrameIsOne DEF CallInv, TypeInv, GpuConstantsAssumption, Ended
    <3> QED BY <3>1 DEF AdapterInv, ListInv
  <2>3. Quarantined' = Quarantined
    <3>1. f \in Frames \ Reached(quarantineHead, quarantineNext) BY <1>4, <2>2 DEF Quarantined
    <3>2. \A g \in Frames \ {f} : quarantineNext'[g] = quarantineNext[g]
      BY <1>2, <2>1 DEF TypeInv
    <3>3. Reached(quarantineHead, quarantineNext') = Reached(quarantineHead, quarantineNext)
      BY <3>1, <3>2, PointerIsFree
    <3> QED BY <2>1, <3>3 DEF Quarantined
  <2>4. TypeInv' BY <1>1, <1>2, <1>4, <2>1 DEF TypeInv
  <2>5. Local(s) BY <1>1, <2>1 DEF Local
  <2>6. poisoned' /\ result'[s] # "ok" BY <1>1, <1>2 DEF CallInv
  <2>7. pc[s] \in Behind /\ pc'[s] \in Behind \ {"script"} /\ pc'[s] = "link"
    BY <1>1, <2>1 DEF Behind
  <2>8. Frame(s) \in busy => released'[Frame(s)] = {} BY <1>1, <1>3, <1>4
  <2> QED BY <1>1, <2>3, <2>4, <2>5, <2>6, <2>7, <2>8, CleanupKeeps
<1> QED BY <1>5, <1>6

\* The output is delivered when nothing is left to undo.
LEMMA DeliverKeeps ==
  ASSUME GpuConstantsAssumption, AdapterInv, NEW s \in Sessions, Deliver(s)
  PROVE  AdapterInv'
<1>1. /\ pc[s] = "deliver" /\ pc' = [pc EXCEPT ![s] = "idle"]
      /\ written' = [written EXCEPT ![s] = (result[s] = "ok")]
      /\ UNCHANGED <<adapter, poisoned, quarantineHead, quarantineNext, calls, route, traits, result,
                     ip, live, workMayBePending, busy, released>>
  BY DEF Deliver, Delivers, callVars, adapterVars
<1>2. TypeInv /\ CallInv(s) BY DEF AdapterInv
<1>3. TypeInv' BY <1>1, <1>2 DEF TypeInv, Places
<1>4. pc'[s] = "idle" /\ written'[s] = (result[s] = "ok") BY <1>1, <1>2 DEF TypeInv
<1>5. Local(s) BY <1>1, <1>2 DEF Local, TypeInv
<1>6. ListMoves(s) BY <1>1, SameList, ListStays
<1>7. Frame(s) \notin busy /\ live[s] = {} BY <1>1, <1>2 DEF CallInv
<1>8. CallInv(s)' BY <1>4 DEF CallInv, Behind
<1>9. traits[s] \cap Defects = {}
  <2>1. /\ Found(CallerChecks(adapter, route[s]), traits[s]) = {}
        /\ Found(WorkerChecks(adapter, route[s]), traits[s]) = {}
        /\ adapter \in {"cuda", "rocdl"} /\ route[s] \in {"single", "pair"}
    BY <1>1, <1>2 DEF CallInv, Behind, TypeInv, GpuConstantsAssumption, Routes
  <2> QED BY <2>1, ChecksAreComplete
<1>10. EndInv(s)' BY <1>1, <1>4, <1>7, <1>9 DEF EndInv, Delivered
<1> QED BY <1>1, <1>3, <1>5, <1>6, <1>7, <1>8, <1>10, OneSession

-----------------------------------------------------------------------------
LEMMA AdapterStarts ==
  ASSUME GpuConstantsAssumption, Init
  PROVE  AdapterInv
<1>1. TypeInv
  <2>1. /\ pc \in [Sessions -> Places] /\ calls \in [Sessions -> 0 .. CallBudget]
        /\ route \in [Sessions -> Routes] /\ ip \in [Sessions -> Nat]
    BY DEF Init, GpuConstantsAssumption, Places, Routes
  <2>2. /\ DOMAIN traits = Sessions /\ result = [s \in Sessions |-> result[s]]
        /\ live = [s \in Sessions |-> live[s]] /\ workMayBePending \in [Sessions -> BOOLEAN]
        /\ written \in [Sessions -> BOOLEAN]
    BY DEF Init
  <2>3. /\ quarantineNext \in [Frames -> Frames \cup {NoFrame}] /\ DOMAIN released = Frames
        /\ adapter \in Adapters /\ poisoned \in BOOLEAN /\ busy \subseteq Frames
        /\ quarantineHead \in Frames \cup {NoFrame}
    BY DEF Init
  <2> QED BY <2>1, <2>2, <2>3 DEF TypeInv
<1>2. Quarantined = {}
  <2>1. quarantineHead \notin Frames BY DEF Init, GpuConstantsAssumption
  <2> QED BY <2>1, EmptyList DEF Quarantined
<1>3. ListInv /\ BusyInv BY <1>2 DEF Init, ListInv, BusyInv
<1>4. ASSUME NEW s \in Sessions PROVE CallInv(s) /\ EndInv(s)
  BY DEF Init, CallInv, EndInv, Delivered, Behind
<1> QED BY <1>1, <1>3, <1>4 DEF AdapterInv

LEMMA AdapterStep ==
  ASSUME GpuConstantsAssumption, AdapterInv, [Next]_vars
  PROVE  AdapterInv'
<1>1. ASSUME NEW s \in Sessions, Step(s) PROVE AdapterInv'
  BY <1>1, BeforeDriver, DriverSucceedsKeeps, DriverFailsKeeps, FinishSyncKeeps, FailedKeeps,
     ReleaseKeeps, QuarantineKeeps, LinkKeeps, DeliverKeeps DEF Step
<1>2. CASE UNCHANGED vars
  <2>1. UNCHANGED <<adapter, poisoned, quarantineHead, quarantineNext, calls, route, traits, pc,
                    result, ip, live, workMayBePending, written, busy, released>>
    BY <1>2 DEF vars, adapterVars
  <2>2. Quarantined' = Quarantined BY <2>1, SameList
  <2>3. TypeInv' /\ ListInv' /\ BusyInv'
    BY <2>1, <2>2 DEF AdapterInv, TypeInv, ListInv, BusyInv, Ended, Ahead
  <2>4. ASSUME NEW s \in Sessions PROVE CallInv(s)' /\ EndInv(s)'
    <3>1. CallInv(s) /\ EndInv(s) BY DEF AdapterInv
    <3>2. CallInv(s)' BY <2>1, <3>1 DEF CallInv, ScriptInv, Frame
    <3>3. EndInv(s)' BY <2>1, <2>2, <3>1 DEF EndInv, Delivered, Frame
    <3> QED BY <3>2, <3>3
  <2> QED BY <2>3, <2>4 DEF AdapterInv
<1> QED BY <1>1, <1>2, CallKeeps, DeviceKeeps DEF Next

\* Resources::finish, isolated() and quarantine() of the two adapters, for any number of
\* sessions and calls and any requests: whatever the driver refuses, a frame the device may
\* still use exists and has given nothing back, frames linked without a lock are never
\* lost, a poisoned adapter takes no further call, and an output is written by the call
\* that reports it, and by no other.
THEOREM FramesAreKept ==
  ASSUME GpuConstantsAssumption
  PROVE  Spec => [](/\ DeviceUseIsBacked /\ NothingIsLost /\ QuarantineImpliesPoison
                    /\ OutputOnlyOnSuccess /\ SuccessIsDelivered)
<1>1. Init => AdapterInv BY AdapterStarts
<1>2. AdapterInv /\ [Next]_vars => AdapterInv' BY AdapterStep
<1>3. ASSUME AdapterInv
      PROVE  /\ DeviceUseIsBacked /\ NothingIsLost /\ QuarantineImpliesPoison
             /\ OutputOnlyOnSuccess /\ SuccessIsDelivered
  <2>1. DeviceUseIsBacked
    <3>1. ASSUME NEW f \in busy PROVE released[f] = {} /\ (InCall(f) \/ f \in Quarantined)
      <4>1. f \in Frames /\ calls[f[1]] \in Nat /\ f[2] \in Nat
        BY <1>3, <3>1, FrameForm DEF AdapterInv, TypeInv, GpuConstantsAssumption
      <4>2. Ended(f) \/ Ahead(f) \/ InCall(f) BY <4>1 DEF Ended, Ahead, InCall
      <4> QED BY <1>3, <3>1, <4>1, <4>2 DEF AdapterInv, BusyInv
    <3> QED BY <3>1 DEF DeviceUseIsBacked
  <2>2. NothingIsLost BY <1>3 DEF AdapterInv, EndInv, NothingIsLost
  <2>3. QuarantineImpliesPoison BY <1>3 DEF AdapterInv, ListInv, QuarantineImpliesPoison
  <2>4. OutputOnlyOnSuccess
    <3>1. ASSUME NEW s \in Sessions, written[s] PROVE result[s] = "ok" /\ live[s] = {}
      <4>1. CallInv(s) /\ EndInv(s) BY <1>3 DEF AdapterInv
      <4> QED BY <3>1, <4>1 DEF CallInv, EndInv
    <3> QED BY <3>1 DEF OutputOnlyOnSuccess
  <2>5. SuccessIsDelivered
    BY <1>3 DEF AdapterInv, EndInv, Delivered, Defects, SuccessIsDelivered
  <2> QED BY <2>1, <2>2, <2>3, <2>4, <2>5
<1> QED BY <1>1, <1>2, <1>3, PTL DEF Spec
=============================================================================
