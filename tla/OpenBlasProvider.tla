--------------------------- MODULE OpenBlasProvider ---------------------------
(***************************************************************************)
(* The adapter to OpenBLAS (cpu_openblas.cpp): identity frozen by the first *)
(* caller, one conformance probe per process, and executions that save,    *)
(* set and restore a thread count which is global to the process.          *)
(*                                                                         *)
(* Threads call execute_openblas_gemm_f32_v1 or ask for the conformance    *)
(* report; each call of the provider is a step of its own, because nothing *)
(* but the policy mutex keeps two threads from interleaving them.          *)
(***************************************************************************)
EXTENDS Naturals, FiniteSets

CONSTANTS
  Thread,
  Counts,        \* thread counts callers ask for
  HostThreads,   \* thread count of the process before anyone sets it
  Procs,         \* what the provider reports as its maximum
  Provider,      \* behaviours of the linked provider, see below
  MaxCalls       \* bound: calls per thread

Nobody == "nobody"

ProviderConstantsAssumption ==
  /\ Nobody \notin Thread
  /\ HostThreads \in Nat \ {0} /\ Procs \in Nat /\ MaxCalls \in Nat
  /\ Counts \subseteq Nat
  /\ Provider \subseteq {"good", "wrongResult", "ignoresCount", "losesCount", "changesControl"}

VARIABLES
  provider,   \* how this provider behaves
  count,      \* the provider's process-wide thread count
  mutex,      \* owner of openblas_policy_mutex
  once,       \* openblas_conformance_once: "fresh", "running" or "done"
  report,     \* openblas_conformance_report
  info,       \* maximum_reported_threads, frozen by the first caller
  bound,      \* threads whose affinity is one CPU
  fp,         \* floating-point environment of each thread is compatible
  pc, want,   \* where each thread is, and the thread count it asks for
  before, previous,   \* thread counts a thread read and must put back
  status,     \* result of the last call
  ran,        \* thread counts during each product
  calls       \* calls made

vars == <<provider, count, mutex, once, report, info, bound, fp, pc, want, before,
          previous, status, ran, calls>>
local == <<want, before, previous, calls>>
world == <<provider, bound>>

NoReport == [attempted |-> FALSE, conformant |-> FALSE]

Init ==
  /\ provider \in Provider
  /\ count = HostThreads
  /\ mutex = Nobody /\ once = "fresh"
  /\ report = NoReport
  /\ info = 0
  /\ bound \in SUBSET Thread
  /\ fp = [t \in Thread |-> TRUE]
  /\ pc = [t \in Thread |-> "idle"]
  /\ want = [t \in Thread |-> 0]
  /\ before = [t \in Thread |-> 0] /\ previous = [t \in Thread |-> 0]
  /\ status = [t \in Thread |-> "none"]
  /\ ran = {}
  /\ calls = [t \in Thread |-> 0]

Goto(t, where) == pc' = [pc EXCEPT ![t] = where]
Return(t, result) ==
  /\ status' = [status EXCEPT ![t] = result]
  /\ Goto(t, "idle")

-----------------------------------------------------------------------------
(* The provider                                                            *)

\* openblas_set_num_threads_local: returns the old count, and changes the
\* count of the whole process.  A bad provider ignores or loses it.
SetCount(t, n) ==
  count' = CASE provider = "ignoresCount" -> count
             [] provider = "losesCount" /\ n # 1 -> n + 1
             [] OTHER -> n

\* openblas_get_num_procs, on first use, follows the affinity of the caller.
ReportedProcs(t) == IF t \in bound THEN 1 ELSE Procs

Identity(p) == p \in {"good", "wrongResult", "ignoresCount", "losesCount", "changesControl"}

-----------------------------------------------------------------------------
(* Calls                                                                   *)

\* openblas_provider_info_v1: a static initialised once.
FreezeInfo(t) == info' = IF info = 0 THEN ReportedProcs(t) ELSE info

\* execute_openblas_gemm_f32_v1 up to the conformance report.  The problem is
\* well-formed: malformed ones return before anything else happens.
\* Mutant: executions with several threads are admitted.
Execute_ManyThreads(t, n) ==
  /\ pc[t] = "idle" /\ calls[t] < MaxCalls
  /\ calls' = [calls EXCEPT ![t] = @ + 1]
  /\ want' = [want EXCEPT ![t] = n]
  /\ LET max == IF info = 0 THEN ReportedProcs(t) ELSE info
     IN CASE n = 0 -> Return(t, "invalid_thread_count") /\ UNCHANGED info
          [] n # 0 /\ n > max -> Return(t, "invalid_thread_count") /\ FreezeInfo(t)
          [] n # 0 /\ n <= max /\ ~fp[t] ->
               Return(t, "unsupported_fp_environment") /\ FreezeInfo(t)
          [] OTHER -> Goto(t, "report") /\ FreezeInfo(t) /\ UNCHANGED status
  /\ UNCHANGED <<world, count, mutex, once, report, fp, before, previous, ran>>
Execute(t, n) ==
  /\ pc[t] = "idle" /\ calls[t] < MaxCalls
  /\ calls' = [calls EXCEPT ![t] = @ + 1]
  /\ want' = [want EXCEPT ![t] = n]
  /\ LET max == IF info = 0 THEN ReportedProcs(t) ELSE info
     IN CASE n = 0 -> Return(t, "invalid_thread_count") /\ UNCHANGED info
          [] n # 0 /\ n > max -> Return(t, "invalid_thread_count") /\ FreezeInfo(t)
          [] n # 0 /\ n <= max /\ (n # 1 \/ ~fp[t]) ->
               Return(t, "unsupported_fp_environment") /\ FreezeInfo(t)
          [] OTHER -> Goto(t, "report") /\ FreezeInfo(t) /\ UNCHANGED status
  /\ UNCHANGED <<world, count, mutex, once, report, fp, before, previous, ran>>

\* A caller that only wants the report (the planner's discovery).
Discover(t) ==
  /\ pc[t] = "idle" /\ calls[t] < MaxCalls
  /\ calls' = [calls EXCEPT ![t] = @ + 1]
  /\ want' = [want EXCEPT ![t] = 0]
  /\ FreezeInfo(t)
  /\ Goto(t, "report")
  /\ UNCHANGED <<world, count, mutex, once, report, fp, before, previous, status, ran>>
ReportOrDefer(t) ==
  /\ pc[t] = "report"
  /\ IF once # "done" /\ ~fp[t] THEN Return(t, "deferred")
     ELSE Goto(t, "once") /\ UNCHANGED status
  /\ UNCHANGED <<world, count, mutex, once, report, info, fp, local, ran>>

\* std::call_once: one thread runs the probe, the others wait until it is done.
EnterOnce(t) ==
  /\ pc[t] = "once" /\ once = "fresh"
  /\ once' = "running" /\ Goto(t, "probeLock")
  /\ UNCHANGED <<world, count, mutex, report, info, fp, local, status, ran>>
PassOnce(t) ==
  /\ pc[t] = "once" /\ once = "done"
  /\ IF want[t] = 0 THEN Return(t, "reported")
     ELSE IF ~report.conformant THEN Return(t, "provider_conformance_failed")
     ELSE Goto(t, "lock") /\ UNCHANGED status
  /\ UNCHANGED <<world, count, mutex, once, report, info, fp, local, ran>>

\* The probe: lock, read, set to one, check that it took, multiply, put back.
ProbeLock(t) ==
  /\ pc[t] = "probeLock" /\ mutex = Nobody
  /\ mutex' = t
  /\ before' = [before EXCEPT ![t] = count]
  /\ previous' = [previous EXCEPT ![t] = count]
  /\ Goto(t, IF Identity(provider) /\ fp[t] THEN "probeSet" ELSE "probeEnd")
  /\ UNCHANGED <<world, count, once, report, info, fp, want, calls, status, ran>>
ProbeSet(t) ==
  /\ pc[t] = "probeSet"
  /\ SetCount(t, 1) /\ Goto(t, "probeRun")
  /\ UNCHANGED <<world, mutex, once, report, info, fp, local, status, ran>>
ProbeRun(t) ==
  /\ pc[t] = "probeRun"
  /\ ran' = IF count = 1 THEN ran \cup {<<count, 1>>} ELSE ran
  /\ Goto(t, "probeRestore")
  /\ UNCHANGED <<world, count, mutex, once, report, info, fp, local, status>>
ProbeRestore(t) ==
  /\ pc[t] = "probeRestore"
  /\ SetCount(t, previous[t]) /\ Goto(t, "probeEnd")
  /\ UNCHANGED <<world, mutex, once, report, info, fp, local, status, ran>>
\* The verdict: results, one thread, thread count put back, control state preserved.
Conforms(t) ==
  /\ fp[t] /\ Identity(provider)
  /\ provider \notin {"wrongResult", "changesControl"}
  /\ provider = "ignoresCount" => before[t] = 1
  /\ count = before[t]
ProbeEnd(t) ==
  /\ pc[t] = "probeEnd"
  /\ report' = [attempted |-> TRUE, conformant |-> Conforms(t)]
  /\ mutex' = (IF mutex = t THEN Nobody ELSE mutex)
  /\ once' = "done" /\ Goto(t, "once")
  /\ UNCHANGED <<world, count, info, fp, local, status, ran>>
Lock(t) ==
  /\ pc[t] = "lock" /\ mutex = Nobody
  /\ mutex' = t
  /\ before' = [before EXCEPT ![t] = count]
  /\ previous' = [previous EXCEPT ![t] = count]
  /\ Goto(t, "set")
  /\ UNCHANGED <<world, count, once, report, info, fp, want, calls, status, ran>>
Set(t) ==
  /\ pc[t] = "set"
  /\ SetCount(t, want[t]) /\ Goto(t, "check")
  /\ UNCHANGED <<world, mutex, once, report, info, fp, local, status, ran>>
Check(t) ==
  /\ pc[t] = "check"
  /\ Goto(t, IF count = want[t] THEN "multiply" ELSE "restore")
  /\ status' = [status EXCEPT ![t] = IF count = want[t] THEN "running" ELSE "invalid_thread_count"]
  /\ UNCHANGED <<world, count, mutex, once, report, info, fp, local, ran>>
Multiply(t) ==
  /\ pc[t] = "multiply"
  /\ ran' = ran \cup {<<count, want[t]>>}
  /\ Goto(t, "restore")
  /\ UNCHANGED <<world, count, mutex, once, report, info, fp, local, status>>
Restore(t) ==
  /\ pc[t] = "restore"
  /\ SetCount(t, previous[t]) /\ Goto(t, "finish")
  /\ UNCHANGED <<world, mutex, once, report, info, fp, local, status, ran>>
\* Whatever the provider did to the control state is put back; the result says
\* whether it had to be.
Finish(t) ==
  /\ pc[t] = "finish"
  /\ mutex' = (IF mutex = t THEN Nobody ELSE mutex)
  /\ Return(t, IF count # before[t] \/ provider = "changesControl"
               THEN "provider_state_violation"
               ELSE IF status[t] = "running" THEN "success" ELSE status[t])
  /\ UNCHANGED <<world, count, once, report, info, fp, local, ran>>

\* Between calls a thread changes its floating-point environment.
ChangeEnvironment(t) ==
  /\ pc[t] = "idle" /\ calls[t] < MaxCalls
  /\ fp' = [fp EXCEPT ![t] = ~@]
  /\ UNCHANGED <<world, count, mutex, once, report, info, pc, local, status, ran>>

Step(t) ==
  \/ ReportOrDefer(t) \/ EnterOnce(t) \/ PassOnce(t)
  \/ ProbeLock(t) \/ ProbeSet(t) \/ ProbeRun(t) \/ ProbeRestore(t) \/ ProbeEnd(t)
  \/ Lock(t) \/ Set(t) \/ Check(t) \/ Multiply(t) \/ Restore(t) \/ Finish(t)

Next ==
  \E t \in Thread :
    \/ \E n \in Counts : Execute(t, n)
    \/ Discover(t) \/ ChangeEnvironment(t) \/ Step(t)
Spec == Init /\ [][Next]_vars

-----------------------------------------------------------------------------
\* Every product ran with the thread count its caller asked for, which is one:
\* nobody changes the process-wide count during somebody else's product
\* (openblas_policy_mutex).
ProductsRunAsAsked == \A r \in ran : r[1] = r[2] /\ r[1] = 1

\* With a provider that honours its own interface, the thread count of the
\* process is as the host left it whenever no call is between set and restore.
CountRestored ==
  (provider # "losesCount" /\ \A t \in Thread : pc[t] \notin {"probeRun", "probeRestore", "check",
                                                "multiply", "restore"})
  => count = HostThreads

\* The verdict kept for the life of the process is about the provider, never
\* about the floating-point environment of the thread that asked first, and
\* never about another thread's change of the count.
VerdictIsAboutProvider ==
  once = "done" => report.conformant = (provider \in {"good", "losesCount", "ignoresCount"} /\
                                        (provider # "good" => HostThreads = 1))

\* A success was computed by a provider found conformant, in a compatible
\* environment.  Two defects the probe cannot see, in a process whose count is
\* one anyway: a provider that loses a count other than one, or ignores it.
SuccessIsConformant ==
  \A t \in Thread : status[t] = "success" =>
    /\ report.conformant
    /\ provider = "good" \/ (provider \in {"losesCount", "ignoresCount"} /\ HostThreads = 1)
===============================================================================
