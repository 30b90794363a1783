------------------------ MODULE MCCpuExecutionContext ------------------------
(* Instances of CpuExecutionContext for TLC: the jobs that callers submit.  *)
EXTENDS CpuExecutionContext

AllPass == [w \in Worker |-> "success"]
Outcomes(a, b, c) == [t \in Task |-> IF t = 0 THEN a ELSE IF t = 1 THEN b ELSE c]

Plain(n, act, f) ==
  [tasks |-> n, active |-> act, policy |-> "native_only", preflight |-> FALSE,
   pre |-> AllPass, out |-> f]

Checked(n, act, g, f) == [Plain(n, act, f) EXCEPT !.preflight = TRUE, !.pre = g]

Fine == Outcomes("success", "success", "success")

\* Both workers; the later task of worker 0 and the task of worker 1 fail
\* with different statuses.
TwoFailures == Plain(3, 2, Outcomes("success", "callback_failed", "resource_exhausted"))

\* One active worker, so the other one is inactive and may wake up late.
OneActive == Plain(2, 1, Outcomes("success", "resource_exhausted", "success"))

\* Worker 1 fails its preflight while worker 0 passes.
PreflightFails ==
  Checked(2, 2, [w \in Worker |-> IF w = 1 THEN "callback_failed" ELSE "success"], Fine)

PreflightPasses == Checked(3, 2, AllPass, Outcomes("success", "success", "callback_failed"))

\* Tasks that call shutdown() and run_tasks() on their own context.
CallsBack == Plain(3, 2, Outcomes("stop", "reenter", "success"))

Rejected == {[Plain(2, 2, Fine) EXCEPT !.policy = "external_provider_active"],
             [Plain(2, 1, Fine) EXCEPT !.policy = "unknown"],
             Plain(1, 2, Fine)}

MCJobs == {TwoFailures, OneActive, PreflightFails, PreflightPasses, CallsBack}
          \cup Rejected
MCLiveJobs == {OneActive, PreflightFails, CallsBack}
=============================================================================
