------------------------ MODULE RuntimeCapabilities ------------------------
(***************************************************************************)
(* What stands between a launch and a GPU: the preflight check with its    *)
(* cache and its timed commands, the claim one GPU backend holds for the   *)
(* life of the process, the lazy probes of the drivers, and the            *)
(* registration of the runtime symbols.                                    *)
(***************************************************************************)
EXTENDS Integers

CONSTANTS
  Thread,        \* host threads that launch kernels
  Requests,      \* targets the program asks for
  Disabled,      \* MATCORE_DISABLE_GPU=1
  Usable,        \* backends whose driver library and device are there
  HipComplete,   \* libamdhip64 has every symbol the runtime needs
  DeviceTensors, \* the program also makes DeviceTensors
  PipeCapacity,  \* what a pipe holds before a write blocks
  MaxOutput,     \* longest output of a command, in the same unit
  MaxCalls       \* launches over a behaviour

Backend == {"nvidia", "amd"}

ConstantsAssumption ==
  /\ Requests \subseteq Backend \cup {"cpu"} /\ Usable \subseteq Backend
  /\ Disabled \in BOOLEAN /\ HipComplete \in BOOLEAN /\ DeviceTensors \in BOOLEAN
  /\ PipeCapacity \in Nat \ {0} /\ MaxOutput \in Nat /\ MaxCalls \in Nat

VARIABLES
  claim,     \* g_gpu_backend_claim
  probed,    \* backends whose probe is over
  found,     \* backends the probe found usable
  probing,   \* [Backend -> thread inside the probe's mutex, or "none"]
  cached,    \* [Backend -> preflight_cache: "none", "pass" or "advisory"]
  fresh,     \* backends whose cache entry is younger than 30 s
  pc,        \* [Thread -> where the launch is]
  target,    \* [Thread -> target of the launch]
  command,   \* [Thread -> the running command and the pipe behind it]
  verdict,   \* [Thread -> preflight result being built]
  outcome,   \* [Thread -> how the last launch ended]
  touched,   \* drivers initialised in this process
  symbols,   \* backends whose mgpu symbols were registered
  calls

cache == <<cached, fresh>>
probe == <<probed, found, probing>>
vars == <<claim, probe, cache, pc, target, command, verdict, outcome, touched, symbols, calls>>

NoCommand == [name |-> "none", child |-> "none", left |-> 0, inPipe |-> 0,
              exit |-> "none", late |-> FALSE, onTime |-> FALSE]

Init ==
  /\ claim = "none"
  /\ probed = {} /\ found = {} /\ probing = [b \in Backend |-> "none"]
  /\ cached = [b \in Backend |-> "none"] /\ fresh = {}
  /\ pc = [t \in Thread |-> "idle"]
  /\ target = [t \in Thread |-> "cpu"]
  /\ command = [t \in Thread |-> NoCommand]
  /\ verdict = [t \in Thread |-> "pass"]
  /\ outcome = [t \in Thread |-> "none"]
  /\ touched = {} /\ symbols = {} /\ calls = 0

Goto(t, next) == pc' = [pc EXCEPT ![t] = next]

\* The launch is over, run or refused.
End(t, why) ==
  /\ Goto(t, "idle")
  /\ outcome' = [outcome EXCEPT ![t] = why]

Launch(t, b) ==
  /\ pc[t] = "idle" /\ calls < MaxCalls
  /\ calls' = calls + 1
  /\ target' = [target EXCEPT ![t] = b]
  /\ outcome' = [outcome EXCEPT ![t] = "none"]
  /\ verdict' = [verdict EXCEPT ![t] = "pass"]
  /\ Goto(t, IF b \in Backend THEN "preflight" ELSE "eligible")
  /\ UNCHANGED <<claim, probe, cache, command, touched, symbols>>

------------------------------------------------------------------------------
(* gpuPreflightCheck *)

\* The first command of a check: nvidia-smi, or rocm-smi with rocminfo behind
\* it; then the kernel log.
FirstCommand(b) == IF b = "nvidia" THEN "nvidia-smi" ELSE "rocm-smi"

StartCommand(t, name, late) ==
  command' = [command EXCEPT ![t] = [NoCommand EXCEPT !.name = name, !.child = "running", !.late = late]]

Preflight(t) ==
  LET b == target[t]
  IN /\ pc[t] = "preflight"
     /\ IF Disabled
          THEN /\ End(t, "disabled")
               /\ UNCHANGED <<command, verdict>>
          ELSE IF b \in fresh /\ cached[b] # "none"
          THEN /\ verdict' = [verdict EXCEPT ![t] = cached[b]]
               /\ Goto(t, "eligible")
               /\ UNCHANGED <<command, outcome>>
          ELSE /\ StartCommand(t, FirstCommand(b), FALSE)
               /\ Goto(t, "command")
               /\ UNCHANGED <<verdict, outcome>>
     /\ UNCHANGED <<claim, probe, cache, target, touched, symbols, calls>>

\* The child runs the command to its end, collecting what it says; then it
\* writes the exit code and the output into the pipe.
ChildRuns(t, exit, output) ==
  /\ pc[t] = "command" /\ command[t].child = "running"
  /\ command' = [command EXCEPT ![t].child = "writing", ![t].exit = exit, ![t].left = 1 + output,
                                ![t].onTime = ~command[t].late]
  /\ UNCHANGED <<claim, probe, cache, pc, target, verdict, outcome, touched, symbols, calls>>

ChildWrites(t) ==
  /\ pc[t] = "command" /\ command[t].child = "writing"
  /\ command[t].inPipe < PipeCapacity
  /\ command' = [command EXCEPT ![t].inPipe = @ + 1, ![t].left = @ - 1,
                                ![t].child = IF command[t].left = 1 THEN "exited" ELSE "writing"]
  /\ UNCHANGED <<claim, probe, cache, pc, target, verdict, outcome, touched, symbols, calls>>

\* Three seconds are over.  A write that is not held up takes no such time.
DeadlinePasses(t) ==
  /\ pc[t] = "command" /\ ~command[t].late
  /\ ~(command[t].child = "writing" /\ command[t].inPipe < PipeCapacity)
  /\ command' = [command EXCEPT ![t].late = TRUE]
  /\ UNCHANGED <<claim, probe, cache, pc, target, verdict, outcome, touched, symbols, calls>>

\* runPopenCommandWithDeadline, the parent: it waits for the child's exit, or
\* kills it at the deadline, and reads the pipe only after the exit.
Reap(t) ==
  /\ pc[t] = "command"
  /\ \/ /\ command[t].child = "exited"
        /\ command' = [command EXCEPT ![t].inPipe = 0]
     \/ /\ command[t].child # "exited" /\ command[t].late
        /\ command' = [command EXCEPT ![t].inPipe = 0, ![t].exit = "timed out"]
  /\ Goto(t, "decide")

Collect(t) ==
  /\ Reap(t)
  /\ UNCHANGED <<claim, probe, cache, target, verdict, outcome, touched, symbols, calls>>

\* The pipe or the fork fails: the command counts as not completed.
ForkFails(t) ==
  /\ pc[t] = "command" /\ command[t].child = "running"
  /\ command' = [command EXCEPT ![t].exit = "failed"]
  /\ Goto(t, "decide")
  /\ UNCHANGED <<claim, probe, cache, target, verdict, outcome, touched, symbols, calls>>

\* What follows the management tool: a failure, the second tool, or the log.
DecideTool(t) ==
  LET c == command[t]
  IN /\ pc[t] = "decide" /\ c.name # "dmesg"
     /\ \/ /\ c.exit = "ok"
           /\ StartCommand(t, "dmesg", FALSE) /\ Goto(t, "command")
           /\ UNCHANGED outcome
        \/ /\ c.exit # "ok" /\ c.name = "rocm-smi"
           /\ StartCommand(t, "rocminfo", c.late) /\ Goto(t, "command")
           /\ UNCHANGED outcome
        \/ /\ c.exit # "ok" /\ c.name # "rocm-smi"
           /\ command' = [command EXCEPT ![t] = NoCommand]
           /\ End(t, "preflight failed")
     /\ UNCHANGED <<claim, probe, cache, target, verdict, touched, symbols, calls>>

\* preflight_cache and its time stamp.
Remember(b, result) ==
  /\ cached' = [cached EXCEPT ![b] = result]
  /\ fresh' = fresh \cup {b}

\* kernelLogAdvisory: a timeout, a refusal or an error in the log is an advice,
\* a command that fails otherwise is none.  The result is cached.
DecideLog(t, alarming) ==
  LET c == command[t]
      result == IF c.exit = "timed out" \/ alarming THEN "advisory" ELSE "pass"
  IN /\ pc[t] = "decide" /\ c.name = "dmesg"
     /\ verdict' = [verdict EXCEPT ![t] = result]
     /\ Remember(target[t], result)
     /\ command' = [command EXCEPT ![t] = NoCommand]
     /\ Goto(t, "eligible")
     /\ UNCHANGED <<claim, probe, target, outcome, touched, symbols, calls>>

\* Thirty seconds are over.
Expire(b) ==
  /\ b \in fresh
  /\ fresh' = fresh \ {b}
  /\ UNCHANGED <<claim, probe, cached, pc, target, command, verdict, outcome, touched, symbols, calls>>

------------------------------------------------------------------------------
(* CanExecuteOnHost and the probes *)

\* compare_exchange: the first backend keeps the claim.
AcquireGpuBackendClaim(b) == claim \in {"none", b} /\ claim' = b

\* The claim's denial reason names the backend that has it.
Eligible(t) ==
  LET b == target[t]
  IN /\ pc[t] = "eligible"
     /\ \/ /\ b = "cpu"
           /\ \/ Goto(t, "register") /\ UNCHANGED outcome
              \/ End(t, "no such feature")
           /\ UNCHANGED claim
        \/ /\ b \in Backend
           /\ AcquireGpuBackendClaim(b)
           /\ Goto(t, "probe")
           /\ UNCHANGED outcome
        \/ /\ b \in Backend /\ claim \notin {"none", b}
           /\ End(t, "claimed")
           /\ UNCHANGED claim
     /\ UNCHANGED <<probe, cache, target, command, verdict, touched, symbols, calls>>

EnterProbe(t) ==
  /\ pc[t] = "probe" /\ probing[target[t]] = "none"
  /\ probing' = [probing EXCEPT ![target[t]] = t]
  /\ Goto(t, IF target[t] = "nvidia" THEN "probeNvidia" ELSE "probeRocm")
  /\ UNCHANGED <<claim, probed, found, cache, target, command, verdict, outcome, touched, symbols, calls>>

\* The probe that is not over yet asks for the claim again, then opens the
\* driver; without the claim the backend counts as absent.
ProbeBackend(t, b) ==
  LET first == b \notin probed
      allowed == first /\ claim \in {"none", b}
  IN /\ claim' = IF allowed THEN b ELSE claim
     /\ probed' = probed \cup {b}
     /\ found' = IF allowed THEN found \cup ({b} \cap Usable) ELSE found
     /\ touched' = IF allowed THEN touched \cup {b} ELSE touched
     /\ probing' = [probing EXCEPT ![b] = "none"]
     /\ Goto(t, "found")
     /\ UNCHANGED <<cache, target, command, verdict, outcome, symbols, calls>>

ProbeNvidiaIfNeeded(t) == pc[t] = "probeNvidia" /\ ProbeBackend(t, "nvidia")

ProbeRocmIfNeeded(t) == pc[t] = "probeRocm" /\ ProbeBackend(t, "amd")

Found(t) ==
  /\ pc[t] = "found"
  /\ IF target[t] \in found
       THEN Goto(t, "register") /\ UNCHANGED outcome
       ELSE End(t, "unavailable")
  /\ UNCHANGED <<claim, probe, cache, target, command, verdict, touched, symbols, calls>>

------------------------------------------------------------------------------
(* registerGpuRuntimeSymbols, and the buffers of DeviceTensor *)

\* Fault: the claim is free again.
ReleaseGpuBackendClaim_Real == claim' = "none"

\* releaseGpuBackendClaim does nothing.
ReleaseGpuBackendClaim == UNCHANGED claim

\* registerAmdRuntimeSymbols loads the HIP runtime; failing that the claim is
\* "released" and the engine has no symbols.
RegisterAmd(t) ==
  /\ pc[t] = "register" /\ target[t] = "amd" /\ claim = "amd"
  /\ touched' = touched \cup {"amd"}
  /\ IF HipComplete
       THEN symbols' = symbols \cup {"amd"} /\ End(t, "ran") /\ UNCHANGED claim
       ELSE UNCHANGED symbols /\ End(t, "not registered") /\ ReleaseGpuBackendClaim
  /\ UNCHANGED <<probe, cache, target, command, verdict, calls>>

RegisterGpuRuntimeSymbols(t) ==
  /\ pc[t] = "register" /\ target[t] # "amd"
  /\ target[t] = "nvidia" => claim = "nvidia"
  /\ symbols' = symbols \cup ({target[t]} \cap Backend)
  /\ End(t, "ran")
  /\ UNCHANGED <<claim, probe, cache, target, command, verdict, touched, calls>>

\* to_device: matcore_device_alloc enters the CUDA context, and asks nobody.
DeviceAlloc(t) ==
  /\ DeviceTensors /\ pc[t] = "idle" /\ "nvidia" \in Usable
  /\ touched' = touched \cup {"nvidia"}
  /\ UNCHANGED <<claim, probe, cache, pc, target, command, verdict, outcome, symbols, calls>>

------------------------------------------------------------------------------
ChildStep(t) ==
  \/ ChildWrites(t) \/ DeadlinePasses(t)
  \/ \E exit \in {"ok", "failed"}, n \in 0..MaxOutput : ChildRuns(t, exit, n)

CallStep(t) ==
  \/ Preflight(t) \/ Collect(t) \/ ForkFails(t) \/ DecideTool(t)
  \/ \E alarming \in BOOLEAN : DecideLog(t, alarming)
  \/ Eligible(t) \/ EnterProbe(t) \/ ProbeNvidiaIfNeeded(t) \/ ProbeRocmIfNeeded(t)
  \/ Found(t) \/ RegisterAmd(t) \/ RegisterGpuRuntimeSymbols(t)

Next ==
  \/ \E t \in Thread :
       \/ \E b \in Requests : Launch(t, b)
       \/ CallStep(t) \/ ChildStep(t) \/ DeviceAlloc(t)
  \/ \E b \in Backend : Expire(b)

Spec == Init /\ [][Next]_vars
------------------------------------------------------------------------------
(* Properties. *)

\* One vendor's symbols and one vendor's driver, at most, in the life of the
\* process: the claim decides which, whatever the threads ask for.
OneBackend == symbols \subseteq {claim} /\ touched \subseteq {claim}

\* What was found of a backend is what is there; a probe that lost the claim
\* never makes an absent backend of one that was claimed.
ProbeIsTrue ==
  \A b \in Backend : b \in probed => (b \in found <=> b \in Usable)

\* A command that is reported as timed out had not ended by its deadline.
TimeoutMeansLate ==
  \A t \in Thread : pc[t] = "decide" /\ command[t].exit = "timed out" => ~command[t].onTime

\* What the admission of launches promises, all together.
AdmissionIsSound == OneBackend /\ ProbeIsTrue /\ TimeoutMeansLate
=============================================================================
