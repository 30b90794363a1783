------------------------------- MODULE MCShared -------------------------------
(* The components that threads and processes share, side by side: nested contexts, the GPU    *)
(* adapters, the kernel cache, the memory pool, the OpenBLAS provider, the objects of the      *)
(* closed host's ABI, the admission of launches and execution plans.  A behaviour is one of    *)
(* them, named by part; the admission is RuntimeCapabilities itself, the others are instances. *)
(* The theorems about admission, nested contexts and OpenBLAS stand with them here, and at the *)
(* end that a behaviour of a part is one of its component, so that the composition keeps what  *)
(* the components promise.                                                                     *)
EXTENDS RuntimeCapabilities, FiniteSets, Sequences, TLC, TLAPS

------------------------------------------------------------------------------
(* The admission of launches, for any number of threads and launches. *)

\* Behind the claim: a launch that got it still has it.
Claimed == {"probe", "probeNvidia", "probeRocm", "found", "register"}
ClaimInv ==
  \A t \in Thread :
    /\ pc[t] \in Claimed /\ target[t] \in Backend => claim = target[t]
    /\ pc[t] \in Claimed \ {"register"} => target[t] \in Backend
    /\ pc[t] = "probeNvidia" => target[t] = "nvidia"
    /\ pc[t] = "probeRocm" => target[t] = "amd"

Places == {"idle", "preflight", "command", "decide", "eligible"} \cup Claimed
TypesInv ==
  /\ claim \in Backend \cup {"none"} /\ pc \in [Thread -> Places]
  /\ target \in [Thread -> Backend \cup {"cpu"}]
  /\ touched \subseteq Backend /\ symbols \subseteq Backend
  /\ probed \subseteq Backend /\ found \subseteq probed

BackendInv == TypesInv /\ ClaimInv /\ OneBackend /\ ProbeIsTrue

\* The steps that only talk to commands leave all of it alone.
LEMMA CommandStepsKeep ==
  ASSUME BackendInv, NEW t \in Thread,
         \/ Preflight(t) \/ Collect(t) \/ ForkFails(t) \/ DecideTool(t) \/ ChildStep(t)
         \/ \E alarming \in BOOLEAN : DecideLog(t, alarming)
  PROVE  BackendInv'
  <1>1. UNCHANGED <<claim, probed, found, target, touched, symbols>>
    BY DEF Preflight, Collect, ForkFails, DecideTool, ChildStep, ChildWrites, DeadlinePasses,
           ChildRuns, DecideLog, probe
  <1>2. /\ pc' \in [Thread -> Places]
        /\ \A u \in Thread : pc'[u] \in Claimed => pc'[u] = pc[u]
    BY DEF BackendInv, TypesInv, Preflight, Collect, Reap, ForkFails, DecideTool, ChildStep,
           ChildWrites, DeadlinePasses, ChildRuns, DecideLog, Goto, End, Claimed, Places
  <1>3. TypesInv' BY <1>1, <1>2 DEF BackendInv, TypesInv
  <1>4. ClaimInv' BY <1>1, <1>2 DEF BackendInv, ClaimInv, Claimed
  <1> QED BY <1>1, <1>3, <1>4 DEF BackendInv, OneBackend, ProbeIsTrue

\* The probe of the claimed backend.
LEMMA ProbeKeeps ==
  ASSUME BackendInv, NEW t \in Thread, NEW b \in Backend, target[t] = b,
         pc[t] \in {"probeNvidia", "probeRocm"}, ProbeBackend(t, b)
  PROVE  BackendInv'
  <1>1. claim = b BY DEF BackendInv, ClaimInv, Claimed
  <1>2. UNCHANGED <<claim, target, symbols>> /\ pc' = [pc EXCEPT ![t] = "found"]
    BY <1>1 DEF ProbeBackend, Goto
  <1>3. TypesInv'
    BY <1>1, <1>2 DEF BackendInv, TypesInv, ProbeBackend, Places, Claimed
  <1>4. ClaimInv' BY <1>2 DEF BackendInv, TypesInv, ClaimInv, Claimed
  <1>5. OneBackend' BY <1>1, <1>2 DEF BackendInv, OneBackend, ProbeBackend
  <1>6. ProbeIsTrue'
    <2> SUFFICES ASSUME NEW d \in Backend, d \in probed' PROVE d \in found' <=> d \in Usable
      BY DEF ProbeIsTrue
    <2>1. CASE b \in probed
      BY <2>1 DEF ProbeBackend, BackendInv, ProbeIsTrue
    <2>2. CASE b \notin probed /\ d = b
      BY <1>1, <2>2 DEF ProbeBackend, BackendInv, TypesInv
    <2>3. CASE b \notin probed /\ d # b
      BY <1>1, <2>3 DEF ProbeBackend, BackendInv, ProbeIsTrue
    <2> QED BY <2>1, <2>2, <2>3
  <1> QED BY <1>3, <1>4, <1>5, <1>6 DEF BackendInv

\* The claim, the probe and the registration.
LEMMA GpuStepsKeep ==
  ASSUME BackendInv, NEW t \in Thread,
         \/ Eligible(t) \/ EnterProbe(t) \/ ProbeNvidiaIfNeeded(t) \/ ProbeRocmIfNeeded(t)
         \/ Found(t) \/ RegisterAmd(t) \/ RegisterGpuRuntimeSymbols(t)
  PROVE  BackendInv'
  <1>1. CASE Eligible(t)
    <2>1. UNCHANGED <<probed, found, target, touched, symbols>>
      BY <1>1 DEF Eligible, probe
    <2>2. claim' \in {claim, target[t]} /\ (claim' # claim => claim = "none" /\ target[t] \in Backend)
      BY <1>1 DEF Eligible, AcquireGpuBackendClaim
    <2>3. /\ pc' \in [Thread -> Places]
          /\ \A u \in Thread \ {t} : pc'[u] = pc[u]
          /\ \/ pc'[t] = "probe" /\ claim' = target[t] /\ target[t] \in Backend
             \/ pc'[t] = "register" /\ target[t] = "cpu"
             \/ pc'[t] = "idle"
      BY <1>1 DEF Eligible, AcquireGpuBackendClaim, Goto, End, BackendInv, TypesInv, Places, Claimed
    <2>4. "cpu" \notin Backend /\ "none" \notin Backend BY DEF Backend
    <2>5. TypesInv' BY <2>1, <2>2, <2>3 DEF BackendInv, TypesInv
    <2>6. ClaimInv' BY <2>1, <2>2, <2>3, <2>4 DEF BackendInv, ClaimInv, Claimed
    <2>7. OneBackend' BY <2>1, <2>2, <2>4 DEF BackendInv, OneBackend, TypesInv
    <2> QED BY <2>1, <2>5, <2>6, <2>7 DEF BackendInv, ProbeIsTrue
  <1>2. CASE EnterProbe(t) \/ Found(t)
    <2>1. UNCHANGED <<claim, probed, found, target, touched, symbols>>
      BY <1>2 DEF EnterProbe, Found, probe
    <2>2. TypesInv' BY <1>2, <2>1 DEF BackendInv, TypesInv, EnterProbe, Found, Goto, End, Places, Claimed
    <2>3. ClaimInv'
      BY <1>2, <2>1 DEF BackendInv, TypesInv, ClaimInv, EnterProbe, Found, Goto, End, Claimed, Backend
    <2> QED BY <2>1, <2>2, <2>3 DEF BackendInv, OneBackend, ProbeIsTrue
  <1>3. CASE ProbeNvidiaIfNeeded(t)
    <2>1. target[t] = "nvidia" BY <1>3 DEF ProbeNvidiaIfNeeded, BackendInv, ClaimInv
    <2> QED BY <1>3, <2>1, ProbeKeeps DEF ProbeNvidiaIfNeeded, Backend
  <1>4. CASE ProbeRocmIfNeeded(t)
    <2>1. target[t] = "amd" BY <1>4 DEF ProbeRocmIfNeeded, BackendInv, ClaimInv
    <2> QED BY <1>4, <2>1, ProbeKeeps DEF ProbeRocmIfNeeded, Backend
  <1>5. CASE RegisterAmd(t) \/ RegisterGpuRuntimeSymbols(t)
    <2>1. UNCHANGED <<claim, probed, found, target>> /\ pc' = [pc EXCEPT ![t] = "idle"]
      BY <1>5 DEF RegisterAmd, RegisterGpuRuntimeSymbols, ReleaseGpuBackendClaim, probe, Goto, End
    <2>2. TypesInv'
      BY <1>5, <2>1 DEF BackendInv, TypesInv, RegisterAmd, RegisterGpuRuntimeSymbols, Backend, Places
    <2>3. ClaimInv' BY <2>1 DEF BackendInv, TypesInv, ClaimInv, Claimed
    <2>4. OneBackend'
      BY <1>5, <2>1 DEF BackendInv, TypesInv, OneBackend, RegisterAmd,
         RegisterGpuRuntimeSymbols, Backend
    <2> QED BY <2>1, <2>2, <2>3, <2>4 DEF BackendInv, ProbeIsTrue
  <1> QED BY <1>1, <1>2, <1>3, <1>4, <1>5

\* The claim and what hangs on it, as long as no DeviceTensor is made.
LEMMA BackendInvariance ==
  ASSUME ConstantsAssumption, ~DeviceTensors PROVE Spec => []BackendInv
  <1>0. Requests \subseteq Backend \cup {"cpu"} BY DEF ConstantsAssumption
  <1>1. Init => BackendInv
    BY DEF Init, BackendInv, TypesInv, ClaimInv, OneBackend, ProbeIsTrue, Places, Claimed
  <1>2. BackendInv /\ [Next]_vars => BackendInv'
    <2> SUFFICES ASSUME BackendInv, [Next]_vars PROVE BackendInv' OBVIOUS
    <2>1. ASSUME NEW t \in Thread, NEW b \in Requests, Launch(t, b) PROVE BackendInv'
      <3>1. UNCHANGED <<claim, probed, found, touched, symbols>>
        BY <2>1 DEF Launch, probe
      <3>2. TypesInv'
        BY <1>0, <2>1, <3>1 DEF BackendInv, TypesInv, Launch, Goto, Places
      <3>3. ClaimInv'
        BY <2>1, <3>1 DEF BackendInv, TypesInv, ClaimInv, Launch, Goto, Claimed
      <3> QED BY <3>1, <3>2, <3>3 DEF BackendInv, OneBackend, ProbeIsTrue
    <2>2. ASSUME NEW t \in Thread, CallStep(t) \/ ChildStep(t) PROVE BackendInv'
      BY <2>2, CommandStepsKeep, GpuStepsKeep DEF CallStep
    <2>3. ASSUME NEW t \in Thread, DeviceAlloc(t) PROVE BackendInv'
      BY <2>3 DEF DeviceAlloc
    <2>4. CASE (\E b \in Backend : Expire(b)) \/ UNCHANGED vars
      BY <2>4 DEF Expire, vars, probe, BackendInv, TypesInv, ClaimInv, OneBackend, ProbeIsTrue
    <2> QED BY <2>1, <2>2, <2>3, <2>4 DEF Next
  <1> QED BY <1>1, <1>2, PTL DEF Spec

\* In a program without DeviceTensors, whatever its threads launch, at most one
\* vendor's driver is initialised and at most its symbols are registered, and
\* a probe never mistakes a backend.  (matcore_device_alloc asks nobody.)
THEOREM OneVendor ==
  ASSUME ConstantsAssumption, ~DeviceTensors
  PROVE  Spec => [](OneBackend /\ ProbeIsTrue)
  <1>1. BackendInv => OneBackend /\ ProbeIsTrue BY DEF BackendInv
  <1> QED BY <1>1, BackendInvariance, PTL

\* A command and the pipe behind it: what is in the pipe and what is still to
\* be written never exceeds the exit code and the longest output, and a
\* command that ended in time is not late while it writes.
Command ==
  [name: {"none", "nvidia-smi", "rocm-smi", "rocminfo", "dmesg"},
   child: {"none", "running", "writing", "exited"}, left: Int, inPipe: Int,
   exit: {"none", "ok", "failed", "timed out"}, late: BOOLEAN, onTime: BOOLEAN]
Orderly(c) ==
  /\ c.child \in {"running", "writing", "exited"}
  /\ c.child = "running" => ~c.onTime /\ c.inPipe = 0
  /\ c.child = "writing" => c.left >= 1 /\ c.inPipe + c.left <= 1 + MaxOutput /\ ~(c.onTime /\ c.late)
  /\ c.exit # "timed out"
CommandInv ==
  /\ command \in [Thread -> Command]
  /\ \A t \in Thread : pc[t] = "command" => Orderly(command[t])
  /\ TimeoutMeansLate

\* The child ends the command.
LEMMA AfterEnd ==
  ASSUME MaxOutput \in Nat, NEW r \in Command, Orderly(r), r.child = "running", NEW x \in {"ok", "failed"},
         NEW n \in 1 .. 1 + MaxOutput, NEW b \in BOOLEAN, b = ~r.late, NEW d,
         d = [r EXCEPT !.child = "writing", !.exit = x, !.left = n, !.onTime = b]
  PROVE  d \in Command /\ Orderly(d)
  <1>1. n \in Int OBVIOUS
  <1>2. /\ d \in Command /\ d.child = "writing" /\ d.exit = x /\ d.left = n
        /\ d.inPipe = r.inPipe /\ d.onTime = b /\ d.late = r.late
    BY <1>1 DEF Command
  <1>3. d.inPipe = 0 BY <1>2 DEF Orderly
  <1>4. 0 + n <= 1 + MaxOutput /\ n >= 1 OBVIOUS
  <1>5. d.left >= 1 /\ d.inPipe + d.left <= 1 + MaxOutput BY <1>2, <1>3, <1>4, Zenon
  <1>6. ~(d.onTime /\ d.late) /\ d.exit # "timed out" BY <1>2
  <1> QED BY <1>2, <1>5, <1>6, Zenon DEF Orderly

\* What is written moves from what is left into the pipe.
LEMMA WriteMoves ==
  ASSUME MaxOutput \in Nat, NEW i \in Int, NEW j \in Int, i >= 1, j + i <= 1 + MaxOutput, i # 1,
         NEW m, NEW n, m = j + 1, n = i - 1
  PROVE  n >= 1 /\ m + n <= 1 + MaxOutput
  OBVIOUS

\* The child writes.
LEMMA AfterWrite ==
  ASSUME MaxOutput \in Nat, NEW r \in Command, Orderly(r), r.child = "writing",
         NEW i \in Int, NEW j \in Int, i = r.left, j = r.inPipe,
         NEW m \in Int, NEW n \in Int, m = j + 1, n = i - 1,
         NEW x \in {"writing", "exited"}, x = "writing" => i # 1,
         NEW d, d = [r EXCEPT !.inPipe = m, !.left = n, !.child = x]
  PROVE  d \in Command /\ Orderly(d)
  <1>1. /\ d \in Command /\ d.child = x /\ d.exit = r.exit /\ d.left = n
        /\ d.inPipe = m /\ d.onTime = r.onTime /\ d.late = r.late
    BY DEF Command
  <1>2. i >= 1 /\ j + i <= 1 + MaxOutput /\ ~(r.onTime /\ r.late) /\ r.exit # "timed out"
    BY Zenon DEF Orderly
  <1>3. x = "writing" => n >= 1 /\ m + n <= 1 + MaxOutput
    BY <1>2, WriteMoves, Zenon
  <1>4. d.child = "writing" => d.left >= 1 /\ d.inPipe + d.left <= 1 + MaxOutput
    BY <1>1, <1>3, Zenon
  <1> QED BY <1>1, <1>2, <1>4, Zenon DEF Orderly

\* The deadline passes, never in the middle of a write that the pipe takes.
LEMMA AfterDeadline ==
  ASSUME MaxOutput \in Nat, PipeCapacity \in Nat, PipeCapacity > MaxOutput,
         NEW r \in Command, Orderly(r), ~(r.child = "writing" /\ r.inPipe < PipeCapacity),
         NEW i \in Int, NEW j \in Int, i = r.left, j = r.inPipe, NEW d, d = [r EXCEPT !.late = TRUE]
  PROVE  d \in Command /\ Orderly(d)
  <1>1. /\ d \in Command /\ d.child = r.child /\ d.exit = r.exit
        /\ d.inPipe = r.inPipe /\ d.onTime = r.onTime
    BY DEF Command
  <1>3. ~(i >= 1 /\ j + i <= 1 + MaxOutput /\ ~(j < PipeCapacity)) OBVIOUS
  <1>2. r.child # "writing" BY <1>3, Zenon DEF Orderly
  <1> QED BY <1>1, <1>2 DEF Orderly

\* The parent reads the pipe.
LEMMA AfterRead ==
  ASSUME NEW r \in Command, Orderly(r), NEW m \in Int, NEW d, d = [r EXCEPT !.inPipe = m]
  PROVE  d \in Command /\ d.exit # "timed out"
  BY DEF Command, Orderly

\* The parent gives the command up at the deadline.
LEMMA AfterTimeout ==
  ASSUME NEW r \in Command, Orderly(r), r.late, r.child # "exited",
         NEW m \in Int, NEW d, d = [r EXCEPT !.inPipe = m, !.exit = "timed out"]
  PROVE  d \in Command /\ ~d.onTime
  <1>1. d \in Command /\ d.onTime = r.onTime BY DEF Command
  <1>2. ~r.onTime BY DEF Command, Orderly
  <1> QED BY <1>1, <1>2

\* The parent has no child.
LEMMA AfterFailure ==
  ASSUME NEW r \in Command, NEW d, d = [r EXCEPT !.exit = "failed"]
  PROVE  d \in Command /\ d.exit # "timed out"
  BY DEF Command

\* A command starts in order.
LEMMA AfterStart ==
  ASSUME NEW r \in Command, ~r.onTime, r.inPipe = 0, r.exit = "none",
         NEW n \in {"nvidia-smi", "rocm-smi", "rocminfo", "dmesg"}, NEW late \in BOOLEAN,
         NEW d, d = [r EXCEPT !.name = n, !.child = "running", !.late = late]
  PROVE  d \in Command /\ Orderly(d)
  <1>1. /\ d \in Command /\ d.child = "running" /\ d.onTime = r.onTime
        /\ d.inPipe = r.inPipe /\ d.exit = r.exit
    BY DEF Command
  <1> QED BY <1>1, Zenon DEF Orderly

\* There is no command at first.
LEMMA NoCommandType == NoCommand \in Command /\ ~NoCommand.onTime /\ NoCommand.inPipe = 0 /\ NoCommand.exit = "none"
  BY DEF NoCommand, Command

\* A thread that starts a command keeps all of it.
LEMMA StartKeeps ==
  ASSUME CommandInv, NEW t \in Thread, NEW n \in {"nvidia-smi", "rocm-smi", "rocminfo", "dmesg"},
         NEW late \in BOOLEAN, StartCommand(t, n, late), Goto(t, "command"), pc \in [Thread -> Places]
  PROVE  CommandInv'
  <1>1. PICK c : c = [NoCommand EXCEPT !.name = n, !.child = "running", !.late = late]
    BY Zenon
  <1>2. c \in Command /\ Orderly(c) BY <1>1, NoCommandType, AfterStart, Zenon
  <1>3. command' = [command EXCEPT ![t] = c] BY <1>1, Zenon DEF StartCommand
  <1>4. command' \in [Thread -> Command] /\ command'[t] = c BY <1>2, <1>3 DEF CommandInv
  <1>5. \A u \in Thread \ {t} : command'[u] = command[u] /\ pc'[u] = pc[u]
    BY <1>3 DEF Goto, CommandInv
  <1>6. pc'[t] = "command" BY DEF Goto
  <1> QED BY <1>2, <1>4, <1>5, <1>6, Zenon DEF CommandInv, TimeoutMeansLate

\* A step that leaves the commands alone, and starts or judges none.
LEMMA NoCommandKeeps ==
  ASSUME CommandInv, UNCHANGED command,
         \A u \in Thread : pc'[u] \in {"command", "decide"} => pc'[u] = pc[u]
  PROVE  CommandInv'
  BY DEF CommandInv, TimeoutMeansLate

\* The steps of the child and of the parent that waits for it.
LEMMA ChildKeeps ==
  ASSUME ConstantsAssumption, PipeCapacity > MaxOutput, CommandInv, pc \in [Thread -> Places],
         NEW t \in Thread, ChildStep(t) \/ Collect(t) \/ ForkFails(t)
  PROVE  CommandInv'
  <1>0. /\ pc[t] = "command" /\ command \in [Thread -> Command] /\ MaxOutput \in Nat
        /\ PipeCapacity \in Nat
    BY Zenon DEF CommandInv, ConstantsAssumption, ChildStep, ChildRuns, ChildWrites, DeadlinePasses, Collect,
       Reap, ForkFails
  <1>1. PICK r \in Command : r = command[t] /\ Orderly(r)
    BY <1>0, Zenon DEF CommandInv
  <1>8. PICK i \in Int, j \in Int : i = r.left /\ j = r.inPipe
    <2>1. r.left \in Int /\ r.inPipe \in Int BY DEF Command
    <2> QED BY <2>1, Zenon
  <1>2. ASSUME NEW d \in Command, command' = [command EXCEPT ![t] = d],
               pc' = [pc EXCEPT ![t] = pc'[t]],
               pc'[t] = "command" => Orderly(d),
               pc'[t] = "decide" => (d.exit = "timed out" => ~d.onTime)
        PROVE  CommandInv'
    <2>1. command' \in [Thread -> Command] /\ command'[t] = d BY <1>0, <1>2
    <2>2. \A u \in Thread \ {t} : command'[u] = command[u] /\ pc'[u] = pc[u] BY <1>0, <1>2
    <2> QED BY <1>2, <2>1, <2>2, Zenon DEF CommandInv, TimeoutMeansLate
  <1>3. ASSUME NEW exit \in {"ok", "failed"}, NEW n \in 0..MaxOutput, ChildRuns(t, exit, n)
        PROVE  CommandInv'
    <2>1. PICK m \in 1 .. 1 + MaxOutput : m = 1 + n BY <1>0
    <2>2. PICK b \in BOOLEAN : b = ~r.late BY Zenon
    <2>3. PICK d : d = [r EXCEPT !.child = "writing", !.exit = exit, !.left = m, !.onTime = b]
      BY Zenon
    <2>4. r.child = "running" BY <1>1, <1>3, Zenon DEF ChildRuns
    <2>5. d \in Command /\ Orderly(d) BY <1>0, <1>1, <2>2, <2>3, <2>4, AfterEnd, Zenon
    <2>6. pc' = pc /\ command' = [command EXCEPT ![t] = d]
      BY <1>0, <1>1, <1>3, <2>1, <2>2, <2>3 DEF ChildRuns
    <2> QED BY <1>0, <1>2, <2>5, <2>6
  <1>4. CASE ChildWrites(t)
    <2>1. PICK x \in {"writing", "exited"} : x = IF r.left = 1 THEN "exited" ELSE "writing"
      BY Zenon
    <2>2. PICK m \in Int, n \in Int : m = j + 1 /\ n = i - 1 OBVIOUS
    <2>3. PICK d : d = [r EXCEPT !.inPipe = m, !.left = n, !.child = x] BY Zenon
    <2>4. r.child = "writing" /\ (x = "writing" => i # 1)
      BY <1>1, <1>8, <1>4, <2>1, Zenon DEF ChildWrites
    <2>5. d \in Command /\ Orderly(d) BY <1>0, <1>1, <1>8, <2>2, <2>3, <2>4, AfterWrite, ZenonT(90)
    <2>6. pc' = pc /\ command' = [command EXCEPT ![t] = d]
      BY <1>0, <1>1, <1>8, <1>4, <2>1, <2>2, <2>3 DEF ChildWrites
    <2> QED BY <1>0, <1>2, <2>5, <2>6
  <1>5. CASE DeadlinePasses(t)
    <2>1. PICK d : d = [r EXCEPT !.late = TRUE] BY Zenon
    <2>2. ~(r.child = "writing" /\ r.inPipe < PipeCapacity)
      BY <1>1, <1>5, Zenon DEF DeadlinePasses
    <2>3. d \in Command /\ Orderly(d) BY <1>0, <1>1, <1>8, <2>1, <2>2, AfterDeadline, Zenon
    <2>4. pc' = pc /\ command' = [command EXCEPT ![t] = d]
      BY <1>0, <1>1, <1>5, <2>1 DEF DeadlinePasses
    <2> QED BY <1>0, <1>2, <2>3, <2>4
  <1>6. CASE Collect(t)
    <2>1. pc' = [pc EXCEPT ![t] = "decide"] /\ pc'[t] = "decide"
      BY <1>6 DEF Collect, Reap, Goto
    <2>2. PICK m \in Int : m = 0 OBVIOUS
    <2>3. CASE command' = [command EXCEPT ![t].inPipe = 0]
      <3>1. PICK d : d = [r EXCEPT !.inPipe = m] BY Zenon
      <3>2. command' = [command EXCEPT ![t] = d] BY <1>0, <1>1, <2>2, <2>3, <3>1
      <3>3. d \in Command /\ d.exit # "timed out" BY <1>1, <3>1, AfterRead, Zenon
      <3> QED BY <1>2, <2>1, <3>2, <3>3
    <2>4. CASE /\ command[t].child # "exited" /\ command[t].late
               /\ command' = [command EXCEPT ![t].inPipe = 0, ![t].exit = "timed out"]
      <3>1. PICK d : d = [r EXCEPT !.inPipe = m, !.exit = "timed out"] BY Zenon
      <3>2. command' = [command EXCEPT ![t] = d] BY <1>0, <1>1, <2>2, <2>4, <3>1
      <3>3. d \in Command /\ ~d.onTime BY <1>1, <2>4, <3>1, AfterTimeout, Zenon
      <3> QED BY <1>2, <2>1, <3>2, <3>3
    <2> QED BY <1>6, <2>3, <2>4, Zenon DEF Collect, Reap
  <1>7. CASE ForkFails(t)
    <2>1. PICK d : d = [r EXCEPT !.exit = "failed"] BY Zenon
    <2>2. /\ pc' = [pc EXCEPT ![t] = "decide"] /\ pc'[t] = "decide"
          /\ command' = [command EXCEPT ![t] = d]
      BY <1>0, <1>1, <1>7, <2>1 DEF ForkFails, Goto
    <2>3. d \in Command /\ d.exit # "timed out" BY <1>1, <2>1, AfterFailure, Zenon
    <2> QED BY <1>2, <2>2, <2>3
  <1> QED BY <1>3, <1>4, <1>5, <1>6, <1>7, Zenon DEF ChildStep

\* In a program without DeviceTensors, and with commands whose output a pipe
\* holds: one vendor, true probes, and a command is called late only if it
\* was.  (With a longer output the child waits for a reader that reads only
\* after its exit.)
THEOREM SoundAdmission ==
  ASSUME ConstantsAssumption, ~DeviceTensors, PipeCapacity > MaxOutput
  PROVE  Spec => []AdmissionIsSound
  <1>0. NoCommand \in Command BY NoCommandType
  <1>1. Init => CommandInv
    BY <1>0 DEF Init, CommandInv, TimeoutMeansLate
  <1>2. BackendInv /\ CommandInv /\ [Next]_vars => CommandInv'
    <2> SUFFICES ASSUME BackendInv, CommandInv, [Next]_vars PROVE CommandInv' OBVIOUS
    <2>0. pc \in [Thread -> Places] /\ target \in [Thread -> Backend \cup {"cpu"}]
      BY DEF BackendInv, TypesInv
    <2>1. ASSUME NEW t \in Thread, ChildStep(t) \/ Collect(t) \/ ForkFails(t) PROVE CommandInv'
      BY <2>0, <2>1, ChildKeeps
    <2>2. ASSUME NEW t \in Thread, Preflight(t) PROVE CommandInv'
      <3>1. CASE StartCommand(t, FirstCommand(target[t]), FALSE) /\ Goto(t, "command")
        <4>1. FirstCommand(target[t]) \in {"nvidia-smi", "rocm-smi", "rocminfo", "dmesg"}
          BY DEF FirstCommand
        <4> QED BY <2>0, <3>1, <4>1, StartKeeps
      <3>2. CASE UNCHANGED command /\ (Goto(t, "eligible") \/ Goto(t, "idle"))
        BY <2>0, <3>2, NoCommandKeeps DEF Goto
      <3> QED BY <2>2, <3>1, <3>2 DEF Preflight, End
    <2>3. ASSUME NEW t \in Thread, DecideTool(t) PROVE CommandInv'
      <3>0. command[t] \in Command BY DEF CommandInv
      <3>1. CASE StartCommand(t, "dmesg", FALSE) /\ Goto(t, "command")
        BY <2>0, <3>1, StartKeeps
      <3>2. CASE StartCommand(t, "rocminfo", command[t].late) /\ Goto(t, "command")
        BY <2>0, <3>0, <3>2, StartKeeps DEF Command
      <3>3. CASE command' = [command EXCEPT ![t] = NoCommand] /\ Goto(t, "idle")
        BY <1>0, <2>0, <3>3 DEF CommandInv, TimeoutMeansLate, Goto
      <3> QED BY <2>3, <3>1, <3>2, <3>3 DEF DecideTool, End
    <2>4. ASSUME NEW t \in Thread, NEW alarming \in BOOLEAN, DecideLog(t, alarming) PROVE CommandInv'
      BY <1>0, <2>0, <2>4 DEF DecideLog, CommandInv, TimeoutMeansLate, Goto
    <2>5. ASSUME NEW t \in Thread,
                 \/ Eligible(t) \/ EnterProbe(t) \/ ProbeNvidiaIfNeeded(t) \/ ProbeRocmIfNeeded(t)
                 \/ Found(t) \/ RegisterAmd(t) \/ RegisterGpuRuntimeSymbols(t) \/ DeviceAlloc(t)
                 \/ \E b \in Requests : Launch(t, b)
          PROVE  CommandInv'
      <3>1. UNCHANGED command
        BY <2>5 DEF Eligible, EnterProbe, ProbeNvidiaIfNeeded, ProbeRocmIfNeeded, ProbeBackend,
           Found, RegisterAmd, RegisterGpuRuntimeSymbols, DeviceAlloc, Launch
      <3>2. \A u \in Thread : pc'[u] \in {"command", "decide"} => pc'[u] = pc[u]
        BY <2>0, <2>5 DEF Eligible, EnterProbe, ProbeNvidiaIfNeeded, ProbeRocmIfNeeded, ProbeBackend,
           Found, RegisterAmd, RegisterGpuRuntimeSymbols, DeviceAlloc, Launch, Goto, End
      <3> QED BY <3>1, <3>2, NoCommandKeeps
    <2>6. CASE (\E b \in Backend : Expire(b)) \/ UNCHANGED vars
      BY <2>6, NoCommandKeeps DEF Expire, vars
    <2> QED BY <2>1, <2>2, <2>3, <2>4, <2>5, <2>6 DEF Next, CallStep
  <1>3. CommandInv => TimeoutMeansLate BY DEF CommandInv
  <1>4. BackendInv => OneBackend /\ ProbeIsTrue BY DEF BackendInv
  <1>5. Spec => []BackendInv BY BackendInvariance
  <1> QED BY <1>1, <1>2, <1>3, <1>4, <1>5, PTL DEF Spec, AdmissionIsSound

------------------------------------------------------------------------------
(* The parts. *)

CONSTANTS Parts, t1, t2, None, NoFrame,
          Contexts, Callers, WorkerCount, MaySubmit,                 \* the nested contexts
          ValueHandles, BlockHandles, Storages, Block, Observed,     \* the owned objects
          Counts, HostThreads, Procs, Provider                       \* the OpenBLAS provider

Threads == {t1, t2}

\* Two contexts of two workers: the tasks of the first submit to the second, and every task
\* tries its own context as well.
TwoWorkers == [c \in {1, 2} |-> 2]
Ordered == [c \in {1, 2} |-> {d \in {1, 2} : d >= c}]

\* Kernels of each kind the loader treats differently.
Op(kind, attrs) == [kind |-> kind, attrs |-> attrs]
Matmul == [name |-> "matmul", target |-> "x86-auto", form |-> "matmul",
           ops |-> <<Op("load", "a"), Op("matmul", "a b"), Op("store", "c")>>,
           tensors |-> [i \in 1..3 |-> "f32-2x2"], onDisk |-> TRUE]
Fused == [name |-> "net_fused", target |-> "nvidia-dgpu", form |-> "graph",
          ops |-> <<Op("matmul", "a b"), Op("elementwise", "relu")>>,
          tensors |-> [i \in 1..4 |-> "f32-2x2"], onDisk |-> TRUE]
Amd == [Matmul EXCEPT !.target = "amd-igpu", !.onDisk = FALSE]
TwoProcesses == t1 :> "p1" @@ t2 :> "p2"
OneProcess == t1 :> "p1" @@ t2 :> "p1"
TwoVersions == "p1" :> "v9" @@ "p2" :> "v10"
OneVersion == "p1" :> "v10" @@ "p2" :> "v10"

\* A captured plan of one launch and a plain one of two.
PlanLaunches == ("graphPlan" :> <<"f">>) @@ ("plainPlan" :> <<"g", "h">>)

VARIABLE part   \* which component runs

------------------------------------------------------------------------------
(* Execution contexts whose tasks submit to each other. *)
VARIABLES nestedPc, nestedTarget, nestedAsked, nestedHolder, nestedRemaining
nestedVars == <<nestedPc, nestedTarget, nestedAsked, nestedHolder, nestedRemaining>>
Nested == INSTANCE NestedContexts WITH pc <- nestedPc, target <- nestedTarget,
  asked <- nestedAsked, holder <- nestedHolder, remaining <- nestedRemaining

(* Nested contexts, for any number of contexts, callers and workers. *)

\* What the proof needs besides: where a thread goes is a context, and a
\* context nobody holds has nothing left to do.
PlacesInv ==
  /\ nestedPc \in [Nested!Threads -> {"idle", "parked", "task", "lock", "wait", "done"}]
  /\ nestedTarget \in [Nested!Threads -> Contexts \cup {None}]
  /\ nestedHolder \in [Contexts -> Nested!Threads \cup {None}]
  /\ nestedRemaining \in [Contexts -> SUBSET Nested!Workers]
  /\ \A t \in Nested!Threads : nestedPc[t] \in {"lock", "wait"} => nestedTarget[t] \in Contexts
IdleInv == \A c \in Contexts : nestedHolder[c] = None => nestedRemaining[c] = {}
NestInv == PlacesInv /\ IdleInv /\ Nested!WorkBelongsToHolder

\* A worker's home is a context.
LEMMA HomeIsContext == ASSUME NEW w \in Nested!Workers PROVE Nested!Home(w) \in Contexts
  BY DEF Nested!Workers, Nested!Home

\* A step of a thread that submits keeps the invariant.
LEMMA ProceedKeeps ==
  ASSUME Nested!ConstantsAssumption, NestInv, NEW t \in Nested!Threads, Nested!Proceed(t)
  PROVE  NestInv'
  <1> USE DEF Nested!ConstantsAssumption, NestInv, Nested!Threads
  <1>0. nestedTarget[t] \in Contexts /\ t # None
    BY DEF Nested!Proceed, Nested!Lock, Nested!Return, PlacesInv
  <1>1. CASE Nested!Lock(t)
    <2>1. PlacesInv' BY <1>0, <1>1 DEF Nested!Lock, PlacesInv
    <2>2. IdleInv' BY <1>0, <1>1 DEF Nested!Lock, IdleInv, PlacesInv
    <2>3. \A u \in Nested!Threads : nestedPc'[u] = "wait" => nestedHolder'[nestedTarget'[u]] = u
      BY <1>0, <1>1 DEF Nested!Lock, PlacesInv, Nested!WorkBelongsToHolder
    <2>4. \A w \in Nested!Workers :
            nestedPc'[w] # "parked" => nestedHolder'[Nested!Home(w)] # None /\ w \in nestedRemaining'[Nested!Home(w)]
      BY <1>0, <1>1, HomeIsContext DEF Nested!Lock, PlacesInv, Nested!WorkBelongsToHolder
    <2> QED BY <2>1, <2>2, <2>3, <2>4 DEF Nested!WorkBelongsToHolder
  <1>2. CASE Nested!Return(t)
    <2>1. PlacesInv' BY <1>0, <1>2 DEF Nested!Return, PlacesInv
    <2>2. IdleInv' BY <1>0, <1>2 DEF Nested!Return, IdleInv, PlacesInv
    <2>3. \A u \in Nested!Threads : nestedPc'[u] = "wait" => nestedHolder'[nestedTarget'[u]] = u
      BY <1>0, <1>2 DEF Nested!Return, PlacesInv, Nested!WorkBelongsToHolder
    <2>4. \A w \in Nested!Workers :
            nestedPc'[w] # "parked" => nestedHolder'[Nested!Home(w)] # None /\ w \in nestedRemaining'[Nested!Home(w)]
      BY <1>0, <1>2, HomeIsContext DEF Nested!Return, PlacesInv, Nested!WorkBelongsToHolder
    <2> QED BY <2>1, <2>2, <2>3, <2>4 DEF Nested!WorkBelongsToHolder
  <1> QED BY <1>1, <1>2 DEF Nested!Proceed

\* So does every step, and it holds at first.
LEMMA NestStarts == ASSUME Nested!ConstantsAssumption, Nested!Init PROVE NestInv
  BY DEF Nested!ConstantsAssumption, Nested!Threads, Nested!Init, NestInv, PlacesInv, IdleInv,
     Nested!WorkBelongsToHolder

LEMMA NestKeeps ==
  ASSUME Nested!ConstantsAssumption, NestInv, [Nested!Next]_(Nested!vars)
  PROVE  NestInv'
  <1> USE DEF Nested!ConstantsAssumption, Nested!Threads, NestInv
  <1>1. ASSUME NEW k \in Callers, NEW c \in Contexts, Nested!Submit(k, c) PROVE NestInv'
    BY <1>1 DEF Nested!Submit, PlacesInv, IdleInv, Nested!WorkBelongsToHolder
  <1>2. ASSUME NEW w \in Nested!Workers, Nested!Wake(w) PROVE NestInv'
    BY <1>2, HomeIsContext DEF Nested!Wake, PlacesInv, IdleInv, Nested!WorkBelongsToHolder
  <1>3. ASSUME NEW w \in Nested!Workers, Nested!EndTask(w) PROVE NestInv'
    <2>1. PlacesInv' BY <1>3, HomeIsContext DEF Nested!EndTask, PlacesInv
    <2>2. IdleInv' BY <1>3, HomeIsContext DEF Nested!EndTask, PlacesInv, IdleInv
    <2>3. Nested!WorkBelongsToHolder'
      BY <1>3, HomeIsContext DEF Nested!EndTask, PlacesInv, Nested!WorkBelongsToHolder
    <2> QED BY <2>1, <2>2, <2>3
  <1>4. ASSUME NEW w \in Nested!Workers, NEW c \in Contexts, Nested!Nest(w, c) PROVE NestInv'
    BY <1>4 DEF Nested!Nest, PlacesInv, IdleInv, Nested!WorkBelongsToHolder
  <1>5. ASSUME NEW t \in Nested!Threads, Nested!Proceed(t) PROVE NestInv'
    BY <1>5, ProceedKeeps
  <1>6. CASE UNCHANGED Nested!vars
    BY <1>6 DEF Nested!vars, PlacesInv, IdleInv, Nested!WorkBelongsToHolder
  <1> QED BY <1>1, <1>2, <1>3, <1>4, <1>5, <1>6 DEF Nested!Next, Nested!Work

\* Whatever the contexts, the workers and who submits to whom: a context is
\* its holder's until the holder's tasks have ended.
THEOREM HolderOwnsWorkers ==
  ASSUME Nested!ConstantsAssumption PROVE Nested!Spec => []Nested!WorkBelongsToHolder
  <1>1. NestInv => Nested!WorkBelongsToHolder BY DEF NestInv
  <1> QED BY <1>1, NestStarts, NestKeeps, PTL DEF Nested!Spec

------------------------------------------------------------------------------
(* The GPU adapters: two sessions that contend, or one with every kind of request. *)
VARIABLES gpuAdapter, gpuPoisoned, gpuQuarantineHead, gpuQuarantineNext, gpuPc, gpuCalls,
          gpuRoute, gpuTraits, gpuResult, gpuIp, gpuLive, gpuWorkMayBePending, gpuWritten,
          gpuBusy, gpuReleased
gpuVars == <<gpuAdapter, gpuPoisoned, gpuQuarantineHead, gpuQuarantineNext, gpuPc, gpuCalls,
             gpuRoute, gpuTraits, gpuResult, gpuIp, gpuLive, gpuWorkMayBePending, gpuWritten,
             gpuBusy, gpuReleased>>
Gpu == INSTANCE ClosedGpuAdapter WITH Adapters <- {"cuda", "rocdl"}, Sessions <- Threads,
  Traits <- {{}}, CallBudget <- 1, adapter <- gpuAdapter, poisoned <- gpuPoisoned,
  quarantineHead <- gpuQuarantineHead, quarantineNext <- gpuQuarantineNext, pc <- gpuPc,
  calls <- gpuCalls, route <- gpuRoute, traits <- gpuTraits, result <- gpuResult, ip <- gpuIp,
  live <- gpuLive, workMayBePending <- gpuWorkMayBePending, written <- gpuWritten,
  busy <- gpuBusy, released <- gpuReleased
Cuda == INSTANCE ClosedGpuAdapter WITH Adapters <- {"cuda"}, Sessions <- Threads,
  Traits <- {{}}, CallBudget <- 1, adapter <- gpuAdapter, poisoned <- gpuPoisoned,
  quarantineHead <- gpuQuarantineHead, quarantineNext <- gpuQuarantineNext, pc <- gpuPc,
  calls <- gpuCalls, route <- gpuRoute, traits <- gpuTraits, result <- gpuResult, ip <- gpuIp,
  live <- gpuLive, workMayBePending <- gpuWorkMayBePending, written <- gpuWritten,
  busy <- gpuBusy, released <- gpuReleased
Request == INSTANCE ClosedGpuAdapter WITH Adapters <- {"cuda", "rocdl"}, Sessions <- {t1},
  Traits <- {{t, u} : t, u \in Gpu!Trait} \cup {{}}, CallBudget <- 2, adapter <- gpuAdapter,
  poisoned <- gpuPoisoned, quarantineHead <- gpuQuarantineHead,
  quarantineNext <- gpuQuarantineNext, pc <- gpuPc, calls <- gpuCalls, route <- gpuRoute,
  traits <- gpuTraits, result <- gpuResult, ip <- gpuIp, live <- gpuLive,
  workMayBePending <- gpuWorkMayBePending, written <- gpuWritten, busy <- gpuBusy,
  released <- gpuReleased
GpuIdle ==
  /\ gpuAdapter = "idle" /\ gpuPoisoned = "idle" /\ gpuQuarantineHead = "idle"
  /\ gpuQuarantineNext = "idle" /\ gpuPc = "idle" /\ gpuCalls = "idle" /\ gpuRoute = "idle"
  /\ gpuTraits = "idle" /\ gpuResult = "idle" /\ gpuIp = "idle" /\ gpuLive = "idle"
  /\ gpuWorkMayBePending = "idle" /\ gpuWritten = "idle" /\ gpuBusy = "idle"
  /\ gpuReleased = "idle"

------------------------------------------------------------------------------
(* The kernel cache: processes of two versions, two threads of one process, or hosts of which one cannot run a kernel. *)
VARIABLES cacheMemory, cacheObject, cacheLibrary, cacheMetadata, cachePc, cacheRequest,
          cacheExecution, cacheZeroed, cacheCalls, cacheCrashes, cacheClears
cacheVars == <<cacheMemory, cacheObject, cacheLibrary, cacheMetadata, cachePc, cacheRequest,
               cacheExecution, cacheZeroed, cacheCalls, cacheCrashes, cacheClears>>
Versions == INSTANCE KernelCache WITH Process <- {"p1", "p2"}, Thread <- Threads,
  ProcessOf <- TwoProcesses, VersionOf <- TwoVersions, Kernel <- {Matmul}, Ineligible <- {},
  MaxCalls <- 2, MaxCrashes <- 0, MaxClears <- 2, KeepObject <- FALSE, memory <- cacheMemory,
  object <- cacheObject, library <- cacheLibrary, metadata <- cacheMetadata, pc <- cachePc,
  request <- cacheRequest, execution <- cacheExecution, zeroed <- cacheZeroed,
  calls <- cacheCalls, crashes <- cacheCrashes, clears <- cacheClears
Cache == INSTANCE KernelCache WITH Process <- {"p1", "p2"}, Thread <- Threads,
  ProcessOf <- OneProcess, VersionOf <- TwoVersions, Kernel <- {Matmul, Amd},
  Ineligible <- {<<p, Amd>> : p \in {"p1", "p2"}}, MaxCalls <- 2, MaxCrashes <- 0,
  MaxClears <- 0, KeepObject <- TRUE, memory <- cacheMemory, object <- cacheObject,
  library <- cacheLibrary, metadata <- cacheMetadata, pc <- cachePc, request <- cacheRequest,
  execution <- cacheExecution, zeroed <- cacheZeroed, calls <- cacheCalls,
  crashes <- cacheCrashes, clears <- cacheClears
Hosts == INSTANCE KernelCache WITH Process <- {"p1", "p2"}, Thread <- Threads,
  ProcessOf <- TwoProcesses, VersionOf <- OneVersion, Kernel <- {Matmul, Fused},
  Ineligible <- {<<"p2", Matmul>>}, MaxCalls <- 1, MaxCrashes <- 1, MaxClears <- 0,
  KeepObject <- FALSE, memory <- cacheMemory, object <- cacheObject, library <- cacheLibrary,
  metadata <- cacheMetadata, pc <- cachePc, request <- cacheRequest,
  execution <- cacheExecution, zeroed <- cacheZeroed, calls <- cacheCalls,
  crashes <- cacheCrashes, clears <- cacheClears
CacheIdle ==
  /\ cacheMemory = "idle" /\ cacheObject = "idle" /\ cacheLibrary = "idle"
  /\ cacheMetadata = "idle" /\ cachePc = "idle" /\ cacheRequest = "idle"
  /\ cacheExecution = "idle" /\ cacheZeroed = "idle" /\ cacheCalls = "idle"
  /\ cacheCrashes = "idle" /\ cacheClears = "idle"

------------------------------------------------------------------------------
(* The memory pool of the device. *)
VARIABLES poolMutex, poolFreeLists, poolSizes, poolEntries, poolOrder, poolPooledBytes,
          poolLive, poolHandles, poolNextId, poolPc, poolWant, poolBlock, poolEvent,
          poolVictims, poolHandle, poolAwaited, poolTried, poolDriver, poolQueue, poolSignalled,
          poolEvents, poolHolders, poolTenure, poolAcquisitions
poolVars == <<poolMutex, poolFreeLists, poolSizes, poolEntries, poolOrder, poolPooledBytes,
              poolLive, poolHandles, poolNextId, poolPc, poolWant, poolBlock, poolEvent,
              poolVictims, poolHandle, poolAwaited, poolTried, poolDriver, poolQueue,
              poolSignalled, poolEvents, poolHolders, poolTenure, poolAcquisitions>>
Pool == INSTANCE GpuMemoryPool WITH Thread <- Threads, Block <- {"x", "y"}, Size <- {1, 2},
  Stream <- {"s1"}, MaxPooled <- 2, EventsFail <- FALSE, MaxAcquisitions <- 2, MaxWork <- 2,
  MaxEvents <- 0, mutex <- poolMutex, freeLists <- poolFreeLists, sizes <- poolSizes,
  entries <- poolEntries, order <- poolOrder, pooledBytes <- poolPooledBytes, live <- poolLive,
  handles <- poolHandles, nextId <- poolNextId, pc <- poolPc, want <- poolWant,
  block <- poolBlock, event <- poolEvent, victims <- poolVictims, handle <- poolHandle,
  awaited <- poolAwaited, tried <- poolTried, driver <- poolDriver, queue <- poolQueue,
  signalled <- poolSignalled, events <- poolEvents, holders <- poolHolders,
  tenure <- poolTenure, acquisitions <- poolAcquisitions
SmallPool == INSTANCE GpuMemoryPool WITH Thread <- Threads, Block <- {"x", "y"}, Size <- {1},
  Stream <- {"s1"}, MaxPooled <- 1, EventsFail <- FALSE, MaxAcquisitions <- 2, MaxWork <- 2,
  MaxEvents <- 0, mutex <- poolMutex, freeLists <- poolFreeLists, sizes <- poolSizes,
  entries <- poolEntries, order <- poolOrder, pooledBytes <- poolPooledBytes, live <- poolLive,
  handles <- poolHandles, nextId <- poolNextId, pc <- poolPc, want <- poolWant,
  block <- poolBlock, event <- poolEvent, victims <- poolVictims, handle <- poolHandle,
  awaited <- poolAwaited, tried <- poolTried, driver <- poolDriver, queue <- poolQueue,
  signalled <- poolSignalled, events <- poolEvents, holders <- poolHolders,
  tenure <- poolTenure, acquisitions <- poolAcquisitions

------------------------------------------------------------------------------
(* The OpenBLAS provider, honest or with a defect, and two threads that call it. *)
VARIABLES blasProvider, blasCount, blasMutex, blasOnce, blasReport, blasInfo, blasBound, blasFp,
          blasPc, blasWant, blasBefore, blasPrevious, blasStatus, blasRan, blasCalls
blasVars == <<blasProvider, blasCount, blasMutex, blasOnce, blasReport, blasInfo, blasBound,
              blasFp, blasPc, blasWant, blasBefore, blasPrevious, blasStatus, blasRan,
              blasCalls>>
Blas == INSTANCE OpenBlasProvider WITH provider <- blasProvider, count <- blasCount, mutex <- blasMutex,
  once <- blasOnce, report <- blasReport, info <- blasInfo, bound <- blasBound, fp <- blasFp,
  pc <- blasPc, want <- blasWant, before <- blasBefore, previous <- blasPrevious,
  status <- blasStatus, ran <- blasRan, calls <- blasCalls
BlasIdle ==
  /\ blasProvider = "idle" /\ blasCount = "idle" /\ blasMutex = "idle" /\ blasOnce = "idle"
  /\ blasReport = "idle" /\ blasInfo = "idle" /\ blasBound = "idle" /\ blasFp = "idle"
  /\ blasPc = "idle" /\ blasWant = "idle" /\ blasBefore = "idle" /\ blasPrevious = "idle"
  /\ blasStatus = "idle" /\ blasRan = "idle" /\ blasCalls = "idle"

(* The provider, for any number of threads, calls and counts. *)

Probing   == {"probeLock", "probeSet", "probeRun", "probeRestore", "probeEnd"}
Executing == {"lock", "set", "check", "multiply", "restore", "finish"}
Locked    == (Probing \cup Executing) \ {"probeLock", "lock"}

BlasTypeInv ==
  /\ blasProvider \in Provider /\ blasCount \in Nat /\ blasInfo \in Nat
  /\ blasMutex \in Thread \cup {Blas!Nobody}
  /\ blasOnce \in {"fresh", "running", "done"}
  /\ blasFp \in [Thread -> BOOLEAN]
  /\ blasPc \in [Thread -> {"idle", "report", "once"} \cup Probing \cup Executing]
  /\ blasWant \in [Thread -> Nat] /\ blasBefore \in [Thread -> Nat]
  /\ blasPrevious \in [Thread -> Nat]
  /\ blasStatus \in [Thread -> {"none", "invalid_thread_count", "unsupported_fp_environment",
                            "deferred", "reported", "provider_conformance_failed",
                            "running", "provider_state_violation", "success"}]

\* Who is where: the mutex has one holder, the probe one runner; a call that
\* got past the report asks for one thread of a conformant provider.
BlasPlaceInv ==
  /\ \A t \in Thread :
       /\ blasMutex = t <=> blasPc[t] \in Locked
       /\ blasPc[t] \in Probing => blasOnce = "running"
       /\ blasPc[t] \in Executing => blasOnce = "done" /\ blasReport.conformant /\ blasWant[t] = 1
       /\ blasPc[t] # "idle" => blasWant[t] \in {0, 1}
       /\ blasPc[t] \in Probing => blasFp[t]
       /\ blasPc[t] = "once" => blasFp[t] \/ blasOnce = "done"
  /\ \A t, u \in Thread : blasPc[t] \in Probing /\ blasPc[u] \in Probing => t = u

\* Setting the count to one and back leaves it as it was; and what the count
\* is in between.
Harmless == blasProvider # "losesCount" \/ HostThreads = 1
CountInCall == IF blasProvider = "ignoresCount" THEN HostThreads ELSE 1

\* What the count is, wherever the holder of the mutex is.
BlasCountInv ==
  /\ blasMutex = Blas!Nobody /\ (blasOnce # "done" \/ Harmless) => blasCount = HostThreads
  /\ \A t \in Thread :
       /\ blasMutex = t => blasBefore[t] = HostThreads /\ blasPrevious[t] = HostThreads
       /\ blasPc[t] \in {"probeSet", "set", "finish"} => blasCount = HostThreads
       /\ blasPc[t] \in {"probeRun", "probeRestore", "check", "multiply", "restore"} =>
            blasCount = CountInCall
       /\ blasPc[t] = "probeEnd" =>
            blasCount = IF Harmless THEN HostThreads ELSE HostThreads + 1

BlasSuccessInv == \A t \in Thread : blasStatus[t] = "success" => blasOnce = "done"

BlasInv ==
  /\ BlasTypeInv /\ BlasPlaceInv /\ BlasCountInv /\ BlasSuccessInv
  /\ Blas!ProductsRunAsAsked /\ Blas!VerdictIsAboutProvider /\ Blas!SuccessIsConformant

\* A caller found fit to execute has found an honest provider.
LEMMA ConformantProvider ==
  ASSUME BlasInv, NEW t \in Thread, blasPc[t] \in Executing
  PROVE  /\ Harmless /\ blasProvider \in {"good", "losesCount", "ignoresCount"} /\ CountInCall = 1
         /\ blasOnce = "done" /\ blasReport.conformant /\ blasWant[t] = 1
<1>1. blasOnce = "done" /\ blasReport.conformant /\ blasWant[t] = 1
  BY DEF BlasInv, BlasPlaceInv
<1>2. /\ blasProvider \in {"good", "losesCount", "ignoresCount"}
      /\ blasProvider # "good" => HostThreads = 1
  BY <1>1 DEF BlasInv, Blas!VerdictIsAboutProvider
<1> QED BY <1>1, <1>2 DEF Harmless, CountInCall

------------------------------------------------------------------------------
(* Every step of a caller keeps the invariant. *)

\* A caller gets past the report only in a compatible environment or after the verdict.
LEMMA ReportOrDeferKeeps ==
  ASSUME Blas!ProviderConstantsAssumption, BlasInv, NEW t \in Thread, Blas!ReportOrDefer(t)
  PROVE  BlasInv'
<1> USE DEF Probing, Executing, Locked, Blas!ProviderConstantsAssumption
<1>0. BlasTypeInv /\ BlasPlaceInv /\ BlasCountInv /\ BlasSuccessInv /\ Blas!ProductsRunAsAsked
      /\ Blas!VerdictIsAboutProvider /\ Blas!SuccessIsConformant
  BY DEF BlasInv
<1>1. BlasTypeInv'
  <2>1. CASE blasOnce # "done" /\ ~blasFp[t]
    BY <1>0, <2>1 DEF Blas!ReportOrDefer, Blas!Goto, Blas!Return, Blas!local, Blas!world, BlasTypeInv
  <2>2. CASE ~(blasOnce # "done" /\ ~blasFp[t])
    BY <1>0, <2>2 DEF Blas!ReportOrDefer, Blas!Goto, Blas!Return, Blas!local, Blas!world, BlasTypeInv
  <2> QED BY <2>1, <2>2
<1>2. BlasPlaceInv'
  BY <1>0 DEF Blas!ReportOrDefer, Blas!Goto, Blas!Return, Blas!local, Blas!world, BlasTypeInv,
     BlasPlaceInv
<1>3. BlasCountInv'
  BY <1>0 DEF Blas!ReportOrDefer, Blas!Goto, Blas!Return, Blas!local, Blas!world, BlasTypeInv,
     BlasPlaceInv, BlasCountInv, Harmless,
     CountInCall
<1>4. BlasSuccessInv' /\ Blas!ProductsRunAsAsked' /\ Blas!VerdictIsAboutProvider'
      /\ Blas!SuccessIsConformant'
  BY <1>0 DEF Blas!ReportOrDefer, Blas!Goto, Blas!Return, Blas!local, Blas!world, BlasTypeInv,
     BlasPlaceInv, BlasSuccessInv,
     Blas!ProductsRunAsAsked, Blas!VerdictIsAboutProvider, Blas!SuccessIsConformant
<1> QED BY <1>1, <1>2, <1>3, <1>4 DEF BlasInv

\* std::call_once admits one prober.
LEMMA EnterOnceKeeps ==
  ASSUME Blas!ProviderConstantsAssumption, BlasInv, NEW t \in Thread, Blas!EnterOnce(t)
  PROVE  BlasInv'
<1> USE DEF Probing, Executing, Locked, Blas!ProviderConstantsAssumption
<1>0. BlasTypeInv /\ BlasPlaceInv /\ BlasCountInv /\ BlasSuccessInv /\ Blas!ProductsRunAsAsked
      /\ Blas!VerdictIsAboutProvider /\ Blas!SuccessIsConformant
  BY DEF BlasInv
<1>1. BlasTypeInv'
  BY <1>0 DEF Blas!EnterOnce, Blas!Goto, Blas!local, Blas!world, BlasTypeInv
<1>2. BlasPlaceInv'
  BY <1>0 DEF Blas!EnterOnce, Blas!Goto, Blas!local, Blas!world, BlasTypeInv, BlasPlaceInv
<1>3. BlasCountInv'
  BY <1>0 DEF Blas!EnterOnce, Blas!Goto, Blas!local, Blas!world, BlasTypeInv, BlasPlaceInv,
     BlasCountInv, Harmless, CountInCall
<1>4. BlasSuccessInv' /\ Blas!ProductsRunAsAsked' /\ Blas!VerdictIsAboutProvider'
      /\ Blas!SuccessIsConformant'
  BY <1>0 DEF Blas!EnterOnce, Blas!Goto, Blas!local, Blas!world, BlasTypeInv, BlasPlaceInv,
     BlasSuccessInv, Blas!ProductsRunAsAsked,
     Blas!VerdictIsAboutProvider, Blas!SuccessIsConformant
<1> QED BY <1>1, <1>2, <1>3, <1>4 DEF BlasInv

\* A caller passes with the verdict.
LEMMA PassOnceKeeps ==
  ASSUME Blas!ProviderConstantsAssumption, BlasInv, NEW t \in Thread, Blas!PassOnce(t)
  PROVE  BlasInv'
<1> USE DEF Probing, Executing, Locked, Blas!ProviderConstantsAssumption
<1>0. BlasTypeInv /\ BlasPlaceInv /\ BlasCountInv /\ BlasSuccessInv /\ Blas!ProductsRunAsAsked
      /\ Blas!VerdictIsAboutProvider /\ Blas!SuccessIsConformant
  BY DEF BlasInv
<1>1. BlasTypeInv'
  <2>1. CASE blasWant[t] = 0
    BY <1>0, <2>1 DEF Blas!PassOnce, Blas!Goto, Blas!Return, Blas!local, Blas!world, BlasTypeInv
  <2>2. CASE blasWant[t] # 0 /\ ~blasReport.conformant
    BY <1>0, <2>2 DEF Blas!PassOnce, Blas!Goto, Blas!Return, Blas!local, Blas!world, BlasTypeInv
  <2>3. CASE blasWant[t] # 0 /\ blasReport.conformant
    BY <1>0, <2>3 DEF Blas!PassOnce, Blas!Goto, Blas!Return, Blas!local, Blas!world, BlasTypeInv
  <2> QED BY <2>1, <2>2, <2>3
<1>2. BlasPlaceInv'
  BY <1>0 DEF Blas!PassOnce, Blas!Goto, Blas!Return, Blas!local, Blas!world, BlasTypeInv, BlasPlaceInv
<1>3. BlasCountInv'
  BY <1>0 DEF Blas!PassOnce, Blas!Goto, Blas!Return, Blas!local, Blas!world, BlasTypeInv,
     BlasPlaceInv, BlasCountInv, Harmless,
     CountInCall
<1>4. BlasSuccessInv' /\ Blas!ProductsRunAsAsked' /\ Blas!VerdictIsAboutProvider'
      /\ Blas!SuccessIsConformant'
  BY <1>0 DEF Blas!PassOnce, Blas!Goto, Blas!Return, Blas!local, Blas!world, BlasTypeInv,
     BlasPlaceInv, BlasSuccessInv,
     Blas!ProductsRunAsAsked, Blas!VerdictIsAboutProvider, Blas!SuccessIsConformant
<1> QED BY <1>1, <1>2, <1>3, <1>4 DEF BlasInv

\* The prober finds the host's count.
LEMMA ProbeLockKeeps ==
  ASSUME Blas!ProviderConstantsAssumption, BlasInv, NEW t \in Thread, Blas!ProbeLock(t)
  PROVE  BlasInv'
<1> USE DEF Probing, Executing, Locked, Blas!ProviderConstantsAssumption
<1>0. BlasTypeInv /\ BlasPlaceInv /\ BlasCountInv /\ BlasSuccessInv /\ Blas!ProductsRunAsAsked
      /\ Blas!VerdictIsAboutProvider /\ Blas!SuccessIsConformant
  BY DEF BlasInv
<1>1. BlasTypeInv'
  BY <1>0 DEF Blas!ProbeLock, Blas!Goto, Blas!world, BlasTypeInv
<1>2. BlasPlaceInv'
  BY <1>0 DEF Blas!ProbeLock, Blas!Goto, Blas!world, BlasTypeInv, BlasPlaceInv
<1>3. BlasCountInv'
  <2>1. /\ blasPc[t] = "probeLock" /\ blasMutex = Blas!Nobody /\ blasOnce = "running" /\ blasFp[t]
        /\ blasCount = HostThreads /\ UNCHANGED <<blasCount, blasProvider, blasOnce>>
    BY <1>0 DEF Blas!ProbeLock, Blas!world, BlasPlaceInv, BlasCountInv
  <2>2. /\ blasMutex' = t /\ blasBefore'[t] = HostThreads /\ blasPrevious'[t] = HostThreads
        /\ blasPc'[t] \in {"probeSet", "probeEnd"} /\ \A u \in Thread \ {t} : blasPc'[u] = blasPc[u]
    BY <1>0, <2>1 DEF Blas!ProbeLock, Blas!Goto, BlasTypeInv
  <2>3. blasPc'[t] = "probeSet"
    BY <1>0, <2>1 DEF Blas!ProbeLock, Blas!Goto, BlasTypeInv, Blas!Identity
  <2>4. \A u \in Thread : blasPc[u] \notin Locked
    BY <1>0, <2>1 DEF BlasPlaceInv
  <2> QED BY <2>1, <2>2, <2>3, <2>4 DEF BlasCountInv
<1>4. BlasSuccessInv' /\ Blas!ProductsRunAsAsked' /\ Blas!VerdictIsAboutProvider'
      /\ Blas!SuccessIsConformant'
  BY <1>0 DEF Blas!ProbeLock, Blas!Goto, Blas!world, BlasTypeInv, BlasPlaceInv, BlasSuccessInv,
     Blas!ProductsRunAsAsked,
     Blas!VerdictIsAboutProvider, Blas!SuccessIsConformant
<1> QED BY <1>1, <1>2, <1>3, <1>4 DEF BlasInv

\* The prober sets the count under the mutex.
LEMMA ProbeSetKeeps ==
  ASSUME Blas!ProviderConstantsAssumption, BlasInv, NEW t \in Thread, Blas!ProbeSet(t)
  PROVE  BlasInv'
<1> USE DEF Probing, Executing, Locked, Blas!ProviderConstantsAssumption
<1>0. BlasTypeInv /\ BlasPlaceInv /\ BlasCountInv /\ BlasSuccessInv /\ Blas!ProductsRunAsAsked
      /\ Blas!VerdictIsAboutProvider /\ Blas!SuccessIsConformant
  BY DEF BlasInv
<1>1. BlasTypeInv'
  BY <1>0 DEF Blas!ProbeSet, Blas!Goto, Blas!SetCount, Blas!local, Blas!world, BlasTypeInv
<1>2. BlasPlaceInv'
  BY <1>0 DEF Blas!ProbeSet, Blas!Goto, Blas!SetCount, Blas!local, Blas!world, BlasTypeInv,
     BlasPlaceInv
<1>3. BlasCountInv'
  BY <1>0 DEF Blas!ProbeSet, Blas!Goto, Blas!SetCount, Blas!local, Blas!world, BlasTypeInv,
     BlasPlaceInv, BlasCountInv, Harmless,
     CountInCall
<1>4. BlasSuccessInv' /\ Blas!ProductsRunAsAsked' /\ Blas!VerdictIsAboutProvider'
      /\ Blas!SuccessIsConformant'
  BY <1>0 DEF Blas!ProbeSet, Blas!Goto, Blas!SetCount, Blas!local, Blas!world, BlasTypeInv,
     BlasPlaceInv, BlasSuccessInv,
     Blas!ProductsRunAsAsked, Blas!VerdictIsAboutProvider, Blas!SuccessIsConformant
<1> QED BY <1>1, <1>2, <1>3, <1>4 DEF BlasInv

\* The probe's product runs with one thread or not at all.
LEMMA ProbeRunKeeps ==
  ASSUME Blas!ProviderConstantsAssumption, BlasInv, NEW t \in Thread, Blas!ProbeRun(t)
  PROVE  BlasInv'
<1> USE DEF Probing, Executing, Locked, Blas!ProviderConstantsAssumption
<1>0. BlasTypeInv /\ BlasPlaceInv /\ BlasCountInv /\ BlasSuccessInv /\ Blas!ProductsRunAsAsked
      /\ Blas!VerdictIsAboutProvider /\ Blas!SuccessIsConformant
  BY DEF BlasInv
<1>1. BlasTypeInv'
  BY <1>0 DEF Blas!ProbeRun, Blas!Goto, Blas!local, Blas!world, BlasTypeInv
<1>2. BlasPlaceInv'
  BY <1>0 DEF Blas!ProbeRun, Blas!Goto, Blas!local, Blas!world, BlasTypeInv, BlasPlaceInv
<1>3. BlasCountInv'
  BY <1>0 DEF Blas!ProbeRun, Blas!Goto, Blas!local, Blas!world, BlasTypeInv, BlasPlaceInv,
     BlasCountInv, Harmless, CountInCall
<1>4. BlasSuccessInv' /\ Blas!ProductsRunAsAsked' /\ Blas!VerdictIsAboutProvider'
      /\ Blas!SuccessIsConformant'
  BY <1>0 DEF Blas!ProbeRun, Blas!Goto, Blas!local, Blas!world, BlasTypeInv, BlasPlaceInv,
     BlasSuccessInv, Blas!ProductsRunAsAsked,
     Blas!VerdictIsAboutProvider, Blas!SuccessIsConformant
<1> QED BY <1>1, <1>2, <1>3, <1>4 DEF BlasInv

\* The prober puts the count back.
LEMMA ProbeRestoreKeeps ==
  ASSUME Blas!ProviderConstantsAssumption, BlasInv, NEW t \in Thread, Blas!ProbeRestore(t)
  PROVE  BlasInv'
<1> USE DEF Probing, Executing, Locked, Blas!ProviderConstantsAssumption
<1>0. BlasTypeInv /\ BlasPlaceInv /\ BlasCountInv /\ BlasSuccessInv /\ Blas!ProductsRunAsAsked
      /\ Blas!VerdictIsAboutProvider /\ Blas!SuccessIsConformant
  BY DEF BlasInv
<1>1. BlasTypeInv'
  BY <1>0 DEF Blas!ProbeRestore, Blas!Goto, Blas!SetCount, Blas!local, Blas!world, BlasTypeInv
<1>2. BlasPlaceInv'
  BY <1>0 DEF Blas!ProbeRestore, Blas!Goto, Blas!SetCount, Blas!local, Blas!world, BlasTypeInv,
     BlasPlaceInv
<1>3. BlasCountInv'
  BY <1>0
     DEF Blas!ProbeRestore, Blas!Goto, Blas!SetCount, Blas!local, Blas!world, BlasTypeInv,
        BlasPlaceInv, BlasCountInv, Harmless,
     CountInCall
<1>4. BlasSuccessInv' /\ Blas!ProductsRunAsAsked' /\ Blas!VerdictIsAboutProvider'
      /\ Blas!SuccessIsConformant'
  BY <1>0 DEF Blas!ProbeRestore, Blas!Goto, Blas!SetCount, Blas!local, Blas!world, BlasTypeInv,
     BlasPlaceInv, BlasSuccessInv,
     Blas!ProductsRunAsAsked, Blas!VerdictIsAboutProvider, Blas!SuccessIsConformant
<1> QED BY <1>1, <1>2, <1>3, <1>4 DEF BlasInv

\* The verdict depends on the provider alone.
LEMMA ProbeEndKeeps ==
  ASSUME Blas!ProviderConstantsAssumption, BlasInv, NEW t \in Thread, Blas!ProbeEnd(t)
  PROVE  BlasInv'
<1> USE DEF Probing, Executing, Locked, Blas!ProviderConstantsAssumption
<1>0. BlasTypeInv /\ BlasPlaceInv /\ BlasCountInv /\ BlasSuccessInv /\ Blas!ProductsRunAsAsked
      /\ Blas!VerdictIsAboutProvider /\ Blas!SuccessIsConformant
  BY DEF BlasInv
<1>1. BlasTypeInv'
  BY <1>0 DEF Blas!ProbeEnd, Blas!Goto, Blas!local, Blas!world, BlasTypeInv
<1>2. BlasPlaceInv'
  BY <1>0 DEF Blas!ProbeEnd, Blas!Goto, Blas!local, Blas!world, BlasTypeInv, BlasPlaceInv
<1>3. BlasCountInv'
  BY <1>0 DEF Blas!ProbeEnd, Blas!Goto, Blas!local, Blas!world, BlasTypeInv, BlasPlaceInv,
     BlasCountInv, Harmless, CountInCall
<1>4. Blas!VerdictIsAboutProvider'
  <2>1. blasPc[t] = "probeEnd" /\ blasFp[t] /\ blasMutex = t /\ blasBefore[t] = HostThreads
    BY <1>0 DEF Blas!ProbeEnd, BlasPlaceInv, BlasCountInv
  <2>2. blasCount = (IF Harmless THEN HostThreads ELSE HostThreads + 1) /\ HostThreads \in Nat
    BY <1>0, <2>1 DEF BlasCountInv
  <2>3. blasProvider' = blasProvider /\ blasReport'.conformant = Blas!Conforms(t)
    BY DEF Blas!ProbeEnd, Blas!world
  <2>4. blasProvider \in {"good", "wrongResult", "ignoresCount", "losesCount", "changesControl"}
    BY <1>0 DEF BlasTypeInv
  <2>5. blasCount = blasBefore[t] <=> Harmless
    BY <2>1, <2>2
  <2>6. Blas!Identity(blasProvider) /\ blasFp[t]
    BY <2>1, <2>4 DEF Blas!Identity
  <2>7. Blas!Conforms(t) <=> /\ blasProvider \in {"good", "losesCount", "ignoresCount"}
                             /\ blasProvider # "good" => HostThreads = 1
    <3>1. (blasProvider \notin {"wrongResult", "changesControl"})
            <=> blasProvider \in {"good", "losesCount", "ignoresCount"}
      BY <2>4
    <3>2. Blas!Conforms(t) <=> /\ blasProvider \in {"good", "losesCount", "ignoresCount"}
                               /\ blasProvider = "ignoresCount" => HostThreads = 1
                               /\ Harmless
      BY <3>1, <2>1, <2>5, <2>6 DEF Blas!Conforms
    <3> QED BY <3>2 DEF Harmless
  <2>8. Blas!Conforms(t) = (/\ blasProvider \in {"good", "losesCount", "ignoresCount"}
                            /\ blasProvider # "good" => HostThreads = 1)
    <3>1. Blas!Conforms(t) \in BOOLEAN
      BY DEF Blas!Conforms
    <3> QED BY <3>1, <2>7
  <2> QED BY <2>3, <2>8 DEF Blas!VerdictIsAboutProvider
<1>5. Blas!SuccessIsConformant'
  <2>1. \A u \in Thread : blasStatus'[u] # "success"
    <3>1. blasOnce = "running" /\ blasStatus' = blasStatus
      BY <1>0 DEF Blas!ProbeEnd, BlasPlaceInv
    <3> QED BY <3>1, <1>0 DEF BlasSuccessInv
  <2> QED BY <2>1 DEF Blas!SuccessIsConformant
<1>6. BlasSuccessInv' /\ Blas!ProductsRunAsAsked'
  BY <1>0 DEF Blas!ProbeEnd, Blas!Goto, Blas!local, Blas!world, BlasTypeInv, BlasPlaceInv,
     BlasSuccessInv, Blas!ProductsRunAsAsked
<1> QED BY <1>1, <1>2, <1>3, <1>4, <1>5, <1>6 DEF BlasInv

\* An execution finds the host's count.
LEMMA LockKeeps ==
  ASSUME Blas!ProviderConstantsAssumption, BlasInv, NEW t \in Thread, Blas!Lock(t)
  PROVE  BlasInv'
<1> USE DEF Probing, Executing, Locked, Blas!ProviderConstantsAssumption
<1>0. BlasTypeInv /\ BlasPlaceInv /\ BlasCountInv /\ BlasSuccessInv /\ Blas!ProductsRunAsAsked
      /\ Blas!VerdictIsAboutProvider /\ Blas!SuccessIsConformant
  BY DEF BlasInv
<1>1. BlasTypeInv'
  BY <1>0 DEF Blas!Lock, Blas!Goto, Blas!world, BlasTypeInv
<1>2. BlasPlaceInv'
  BY <1>0 DEF Blas!Lock, Blas!Goto, Blas!world, BlasTypeInv, BlasPlaceInv
<1>3. BlasCountInv'
  <2>1. /\ blasPc[t] = "lock" /\ blasMutex = Blas!Nobody /\ UNCHANGED <<blasCount, blasProvider,
                                                                        blasOnce>>
    BY DEF Blas!Lock, Blas!world
  <2>2. blasCount = HostThreads
    BY <1>0, <2>1, ConformantProvider DEF BlasCountInv
  <2>3. /\ blasMutex' = t /\ blasBefore'[t] = HostThreads /\ blasPrevious'[t] = HostThreads
        /\ blasPc'[t] = "set" /\ \A u \in Thread \ {t} : blasPc'[u] = blasPc[u]
    BY <1>0, <2>2 DEF Blas!Lock, Blas!Goto, BlasTypeInv
  <2>4. \A u \in Thread : blasPc[u] \notin Locked
    BY <1>0, <2>1 DEF BlasPlaceInv
  <2> QED BY <2>1, <2>2, <2>3, <2>4 DEF BlasCountInv
<1>4. BlasSuccessInv' /\ Blas!ProductsRunAsAsked' /\ Blas!VerdictIsAboutProvider'
      /\ Blas!SuccessIsConformant'
  BY <1>0 DEF Blas!Lock, Blas!Goto, Blas!world, BlasTypeInv, BlasPlaceInv, BlasSuccessInv,
     Blas!ProductsRunAsAsked,
     Blas!VerdictIsAboutProvider, Blas!SuccessIsConformant
<1> QED BY <1>1, <1>2, <1>3, <1>4 DEF BlasInv

\* An execution sets the count under the mutex.
LEMMA SetKeeps ==
  ASSUME Blas!ProviderConstantsAssumption, BlasInv, NEW t \in Thread, Blas!Set(t)
  PROVE  BlasInv'
<1> USE DEF Probing, Executing, Locked, Blas!ProviderConstantsAssumption
<1>0. BlasTypeInv /\ BlasPlaceInv /\ BlasCountInv /\ BlasSuccessInv /\ Blas!ProductsRunAsAsked
      /\ Blas!VerdictIsAboutProvider /\ Blas!SuccessIsConformant
  BY DEF BlasInv
<1>1. BlasTypeInv'
  BY <1>0 DEF Blas!Set, Blas!Goto, Blas!SetCount, Blas!local, Blas!world, BlasTypeInv
<1>2. BlasPlaceInv'
  BY <1>0 DEF Blas!Set, Blas!Goto, Blas!SetCount, Blas!local, Blas!world, BlasTypeInv, BlasPlaceInv
<1>3. BlasCountInv'
  BY <1>0
     DEF Blas!Set, Blas!Goto, Blas!SetCount, Blas!local, Blas!world, BlasTypeInv, BlasPlaceInv,
        BlasCountInv, Harmless, CountInCall
<1>4. BlasSuccessInv' /\ Blas!ProductsRunAsAsked' /\ Blas!VerdictIsAboutProvider'
      /\ Blas!SuccessIsConformant'
  BY <1>0
     DEF Blas!Set, Blas!Goto, Blas!SetCount, Blas!local, Blas!world, BlasTypeInv, BlasPlaceInv,
        BlasSuccessInv, Blas!ProductsRunAsAsked,
     Blas!VerdictIsAboutProvider, Blas!SuccessIsConformant
<1> QED BY <1>1, <1>2, <1>3, <1>4 DEF BlasInv

\* It goes on only if the provider took the count.
LEMMA CheckKeeps ==
  ASSUME Blas!ProviderConstantsAssumption, BlasInv, NEW t \in Thread, Blas!Check(t)
  PROVE  BlasInv'
<1> USE DEF Probing, Executing, Locked, Blas!ProviderConstantsAssumption
<1>0. BlasTypeInv /\ BlasPlaceInv /\ BlasCountInv /\ BlasSuccessInv /\ Blas!ProductsRunAsAsked
      /\ Blas!VerdictIsAboutProvider /\ Blas!SuccessIsConformant
  BY DEF BlasInv
<1>1. BlasTypeInv'
  <2>1. CASE blasCount = blasWant[t]
    BY <1>0, <2>1 DEF Blas!Check, Blas!Goto, Blas!local, Blas!world, BlasTypeInv
  <2>2. CASE blasCount # blasWant[t]
    BY <1>0, <2>2 DEF Blas!Check, Blas!Goto, Blas!local, Blas!world, BlasTypeInv
  <2> QED BY <2>1, <2>2
<1>2. BlasPlaceInv'
  BY <1>0 DEF Blas!Check, Blas!Goto, Blas!local, Blas!world, BlasTypeInv, BlasPlaceInv
<1>3. BlasCountInv'
  BY <1>0 DEF Blas!Check, Blas!Goto, Blas!local, Blas!world, BlasTypeInv, BlasPlaceInv,
     BlasCountInv, Harmless, CountInCall
<1>4. BlasSuccessInv' /\ Blas!ProductsRunAsAsked' /\ Blas!VerdictIsAboutProvider'
      /\ Blas!SuccessIsConformant'
  BY <1>0 DEF Blas!Check, Blas!Goto, Blas!local, Blas!world, BlasTypeInv, BlasPlaceInv,
     BlasSuccessInv, Blas!ProductsRunAsAsked,
     Blas!VerdictIsAboutProvider, Blas!SuccessIsConformant
<1> QED BY <1>1, <1>2, <1>3, <1>4 DEF BlasInv

\* Its product runs with the count it asked for.
LEMMA MultiplyKeeps ==
  ASSUME Blas!ProviderConstantsAssumption, BlasInv, NEW t \in Thread, Blas!Multiply(t)
  PROVE  BlasInv'
<1> USE DEF Probing, Executing, Locked, Blas!ProviderConstantsAssumption
<1>0. BlasTypeInv /\ BlasPlaceInv /\ BlasCountInv /\ BlasSuccessInv /\ Blas!ProductsRunAsAsked
      /\ Blas!VerdictIsAboutProvider /\ Blas!SuccessIsConformant
  BY DEF BlasInv
<1>1. BlasTypeInv'
  BY <1>0 DEF Blas!Multiply, Blas!Goto, Blas!local, Blas!world, BlasTypeInv
<1>2. BlasPlaceInv'
  BY <1>0 DEF Blas!Multiply, Blas!Goto, Blas!local, Blas!world, BlasTypeInv, BlasPlaceInv
<1>3. BlasCountInv'
  BY <1>0 DEF Blas!Multiply, Blas!Goto, Blas!local, Blas!world, BlasTypeInv, BlasPlaceInv,
     BlasCountInv, Harmless, CountInCall
<1>4. Blas!ProductsRunAsAsked'
  <2>1. blasPc[t] = "multiply" /\ blasRan' = blasRan \cup {<<blasCount, blasWant[t]>>}
    BY DEF Blas!Multiply
  <2>2. blasCount = 1 /\ blasWant[t] = 1
    BY <1>0, <2>1, ConformantProvider DEF BlasCountInv
  <2> QED BY <1>0, <2>1, <2>2 DEF Blas!ProductsRunAsAsked
<1>5. BlasSuccessInv' /\ Blas!VerdictIsAboutProvider' /\ Blas!SuccessIsConformant'
  BY <1>0
     DEF Blas!Multiply, Blas!Goto, Blas!local, Blas!world, BlasTypeInv, BlasPlaceInv,
        BlasSuccessInv, Blas!VerdictIsAboutProvider,
     Blas!SuccessIsConformant
<1> QED BY <1>1, <1>2, <1>3, <1>4, <1>5 DEF BlasInv

\* It puts the count back.
LEMMA RestoreKeeps ==
  ASSUME Blas!ProviderConstantsAssumption, BlasInv, NEW t \in Thread, Blas!Restore(t)
  PROVE  BlasInv'
<1> USE DEF Probing, Executing, Locked, Blas!ProviderConstantsAssumption
<1>0. BlasTypeInv /\ BlasPlaceInv /\ BlasCountInv /\ BlasSuccessInv /\ Blas!ProductsRunAsAsked
      /\ Blas!VerdictIsAboutProvider /\ Blas!SuccessIsConformant
  BY DEF BlasInv
<1>1. BlasTypeInv'
  BY <1>0 DEF Blas!Restore, Blas!Goto, Blas!SetCount, Blas!local, Blas!world, BlasTypeInv
<1>2. BlasPlaceInv'
  BY <1>0 DEF Blas!Restore, Blas!Goto, Blas!SetCount, Blas!local, Blas!world, BlasTypeInv,
     BlasPlaceInv
<1>3. BlasCountInv'
  <2>1. /\ blasPc[t] = "restore" /\ blasMutex = t /\ blasPrevious[t] = HostThreads
        /\ UNCHANGED <<blasProvider, blasOnce, blasMutex, blasBefore, blasPrevious>>
    BY <1>0 DEF Blas!Restore, Blas!world, Blas!local, BlasPlaceInv, BlasCountInv
  <2>2. /\ Harmless /\ CountInCall = 1 /\ blasCount = CountInCall
        /\ Blas!SetCount(t, blasPrevious[t])
    BY <1>0, <2>1, ConformantProvider DEF Blas!Restore, BlasCountInv
  <2>3. blasCount' = HostThreads
    BY <2>1, <2>2 DEF CountInCall, Blas!SetCount, Harmless
  <2>4. blasPc'[t] = "finish" /\ \A u \in Thread \ {t} : blasPc'[u] = blasPc[u]
        /\ blasPc[u] \notin Locked
    BY <1>0, <2>1 DEF Blas!Restore, Blas!Goto, BlasTypeInv, BlasPlaceInv
  <2> QED BY <1>0, <2>1, <2>3, <2>4 DEF BlasCountInv
<1>4. BlasSuccessInv' /\ Blas!ProductsRunAsAsked' /\ Blas!VerdictIsAboutProvider'
      /\ Blas!SuccessIsConformant'
  BY <1>0 DEF Blas!Restore, Blas!Goto, Blas!SetCount, Blas!local, Blas!world, BlasTypeInv,
     BlasPlaceInv, BlasSuccessInv,
     Blas!ProductsRunAsAsked, Blas!VerdictIsAboutProvider, Blas!SuccessIsConformant
<1> QED BY <1>1, <1>2, <1>3, <1>4 DEF BlasInv

\* It succeeds only after a conformant run.
LEMMA FinishKeeps ==
  ASSUME Blas!ProviderConstantsAssumption, BlasInv, NEW t \in Thread, Blas!Finish(t)
  PROVE  BlasInv'
<1> USE DEF Probing, Executing, Locked, Blas!ProviderConstantsAssumption
<1>0. BlasTypeInv /\ BlasPlaceInv /\ BlasCountInv /\ BlasSuccessInv /\ Blas!ProductsRunAsAsked
      /\ Blas!VerdictIsAboutProvider /\ Blas!SuccessIsConformant
  BY DEF BlasInv
<1>1. BlasTypeInv'
  <2>1. CASE blasCount # blasBefore[t] \/ blasProvider = "changesControl"
    BY <1>0, <2>1 DEF Blas!Finish, Blas!Goto, Blas!Return, Blas!local, Blas!world, BlasTypeInv
  <2>2. CASE ~(blasCount # blasBefore[t] \/ blasProvider = "changesControl")
        /\ blasStatus[t] = "running"
    BY <1>0, <2>2 DEF Blas!Finish, Blas!Goto, Blas!Return, Blas!local, Blas!world, BlasTypeInv
  <2>3. CASE ~(blasCount # blasBefore[t] \/ blasProvider = "changesControl")
        /\ blasStatus[t] # "running"
    BY <1>0, <2>3 DEF Blas!Finish, Blas!Goto, Blas!Return, Blas!local, Blas!world, BlasTypeInv
  <2> QED BY <2>1, <2>2, <2>3
<1>2. BlasPlaceInv'
  BY <1>0 DEF Blas!Finish, Blas!Return, Blas!local, Blas!world, Blas!Goto, BlasTypeInv, BlasPlaceInv
<1>3. BlasCountInv'
  BY <1>0
     DEF Blas!Finish, Blas!Return, Blas!local, Blas!world, Blas!Goto, BlasTypeInv, BlasPlaceInv,
        BlasCountInv, Harmless, CountInCall
<1>4. Blas!SuccessIsConformant'
  <2>1. /\ blasReport.conformant /\ blasReport' = blasReport /\ blasProvider' = blasProvider
        /\ \/ blasProvider = "good"
           \/ blasProvider \in {"losesCount", "ignoresCount"} /\ HostThreads = 1
    <3>1. blasPc[t] = "finish" /\ blasReport' = blasReport
          /\ blasProvider' = blasProvider BY DEF Blas!Finish, Blas!world
    <3>2. /\ blasReport.conformant /\ Harmless /\ CountInCall = 1
          /\ blasProvider \in {"good", "losesCount", "ignoresCount"}
      BY <3>1, ConformantProvider
    <3> QED BY <3>1, <3>2 DEF Harmless, CountInCall
  <2> QED BY <2>1 DEF Blas!SuccessIsConformant
<1>5. BlasSuccessInv' /\ Blas!ProductsRunAsAsked' /\ Blas!VerdictIsAboutProvider'
  BY <1>0
     DEF Blas!Finish, Blas!Return, Blas!local, Blas!world, Blas!Goto, BlasTypeInv, BlasPlaceInv,
        BlasSuccessInv, Blas!ProductsRunAsAsked,
     Blas!VerdictIsAboutProvider
<1> QED BY <1>1, <1>2, <1>3, <1>4, <1>5 DEF BlasInv

\* Discovery of the planner changes no count.
LEMMA DiscoverKeeps ==
  ASSUME Blas!ProviderConstantsAssumption, BlasInv, NEW t \in Thread, Blas!Discover(t)
  PROVE  BlasInv'
<1> USE DEF Probing, Executing, Locked, Blas!ProviderConstantsAssumption
<1>0. BlasTypeInv /\ BlasPlaceInv /\ BlasCountInv /\ BlasSuccessInv /\ Blas!ProductsRunAsAsked
      /\ Blas!VerdictIsAboutProvider /\ Blas!SuccessIsConformant
  BY DEF BlasInv
<1>1. BlasTypeInv'
  BY <1>0 DEF Blas!Discover, Blas!FreezeInfo, Blas!ReportedProcs, Blas!Goto, Blas!world, BlasTypeInv
<1>2. BlasPlaceInv'
  BY <1>0 DEF Blas!Discover, Blas!FreezeInfo, Blas!ReportedProcs, Blas!Goto, Blas!world,
     BlasTypeInv, BlasPlaceInv
<1>3. BlasCountInv'
  BY <1>0 DEF Blas!Discover, Blas!FreezeInfo, Blas!ReportedProcs, Blas!Goto, Blas!world,
     BlasTypeInv, BlasPlaceInv, BlasCountInv,
     Harmless, CountInCall
<1>4. BlasSuccessInv' /\ Blas!ProductsRunAsAsked' /\ Blas!VerdictIsAboutProvider'
      /\ Blas!SuccessIsConformant'
  BY <1>0 DEF Blas!Discover, Blas!FreezeInfo, Blas!ReportedProcs, Blas!Goto, Blas!world,
     BlasTypeInv, BlasPlaceInv, BlasSuccessInv,
     Blas!ProductsRunAsAsked, Blas!VerdictIsAboutProvider, Blas!SuccessIsConformant
<1> QED BY <1>1, <1>2, <1>3, <1>4 DEF BlasInv

\* Between calls a thread may change its environment.
LEMMA ChangeEnvironmentKeeps ==
  ASSUME Blas!ProviderConstantsAssumption, BlasInv, NEW t \in Thread, Blas!ChangeEnvironment(t)
  PROVE  BlasInv'
<1> USE DEF Probing, Executing, Locked, Blas!ProviderConstantsAssumption
<1>0. BlasTypeInv /\ BlasPlaceInv /\ BlasCountInv /\ BlasSuccessInv /\ Blas!ProductsRunAsAsked
      /\ Blas!VerdictIsAboutProvider /\ Blas!SuccessIsConformant
  BY DEF BlasInv
<1>1. BlasTypeInv'
  BY <1>0 DEF Blas!ChangeEnvironment, Blas!local, Blas!world, BlasTypeInv
<1>2. BlasPlaceInv'
  BY <1>0 DEF Blas!ChangeEnvironment, Blas!local, Blas!world, BlasTypeInv, BlasPlaceInv
<1>3. BlasCountInv'
  BY <1>0
     DEF Blas!ChangeEnvironment, Blas!local, Blas!world, BlasTypeInv, BlasPlaceInv, BlasCountInv,
        Harmless, CountInCall
<1>4. BlasSuccessInv' /\ Blas!ProductsRunAsAsked' /\ Blas!VerdictIsAboutProvider'
      /\ Blas!SuccessIsConformant'
  BY <1>0
     DEF Blas!ChangeEnvironment, Blas!local, Blas!world, BlasTypeInv, BlasPlaceInv, BlasSuccessInv,
        Blas!ProductsRunAsAsked,
     Blas!VerdictIsAboutProvider, Blas!SuccessIsConformant
<1> QED BY <1>1, <1>2, <1>3, <1>4 DEF BlasInv

\* Only requests for one thread get to the report.
LEMMA ExecuteKeeps ==
  ASSUME Blas!ProviderConstantsAssumption, BlasInv, NEW t \in Thread, NEW n \in Counts,
     Blas!Execute(t, n)
  PROVE  BlasInv'
<1> USE DEF Probing, Executing, Locked, Blas!ProviderConstantsAssumption
<1>0. BlasTypeInv /\ BlasPlaceInv /\ BlasCountInv /\ BlasSuccessInv /\ Blas!ProductsRunAsAsked
      /\ Blas!VerdictIsAboutProvider /\ Blas!SuccessIsConformant
  BY DEF BlasInv
<1>1. /\ blasPc[t] = "idle" /\ n \in Nat
      /\ blasWant' = [blasWant EXCEPT ![t] = n]
      /\ UNCHANGED <<blasProvider, blasCount, blasMutex, blasOnce, blasReport, blasFp, blasBefore,
                     blasPrevious, blasRan>>
  BY DEF Blas!Execute, Blas!world
<1>2. \/ /\ blasPc' = [blasPc EXCEPT ![t] = "idle"]
         /\ \/ blasStatus' = [blasStatus EXCEPT ![t] = "invalid_thread_count"]
            \/ blasStatus' = [blasStatus EXCEPT ![t] = "unsupported_fp_environment"]
      \/ n = 1 /\ blasPc' = [blasPc EXCEPT ![t] = "report"] /\ blasStatus' = blasStatus
  <2>1. PICK max \in Nat : max = IF blasInfo = 0 THEN Blas!ReportedProcs(t) ELSE blasInfo
    BY <1>0 DEF BlasTypeInv, Blas!ReportedProcs
  <2>2. CASE n = 0
    BY <2>1, <2>2 DEF Blas!Execute, Blas!Return, Blas!Goto
  <2>3. CASE n # 0 /\ n > max
    BY <2>1, <2>3 DEF Blas!Execute, Blas!Return, Blas!Goto
  <2>4. CASE n # 0 /\ n <= max /\ (n # 1 \/ ~blasFp[t])
    BY <2>1, <2>4 DEF Blas!Execute, Blas!Return, Blas!Goto
  <2>5. CASE n # 0 /\ ~(n > max) /\ ~(n <= max /\ (n # 1 \/ ~blasFp[t]))
    BY <2>1, <2>5 DEF Blas!Execute, Blas!Return, Blas!Goto
  <2> QED BY <2>2, <2>3, <2>4, <2>5
<1>3. BlasTypeInv'
  <2>1. blasInfo' \in Nat
    BY <1>0 DEF Blas!Execute, Blas!FreezeInfo, Blas!ReportedProcs, BlasTypeInv
  <2> QED BY <2>1, <1>0, <1>1, <1>2 DEF BlasTypeInv
<1>4. BlasPlaceInv'
  BY <1>0, <1>1, <1>2 DEF BlasTypeInv, BlasPlaceInv
<1>5. BlasCountInv'
  BY <1>0, <1>1, <1>2 DEF BlasTypeInv, BlasPlaceInv, BlasCountInv, Harmless, CountInCall
<1>6. BlasSuccessInv' /\ Blas!ProductsRunAsAsked' /\ Blas!VerdictIsAboutProvider'
      /\ Blas!SuccessIsConformant'
  BY <1>0, <1>1, <1>2
     DEF BlasTypeInv, BlasSuccessInv, Blas!ProductsRunAsAsked, Blas!VerdictIsAboutProvider,
        Blas!SuccessIsConformant
<1> QED BY <1>3, <1>4, <1>5, <1>6 DEF BlasInv

\* execute_openblas_gemm_f32_v1 and the conformance probe, for any number of
\* threads, calls and thread counts: a product runs with the count its caller
\* asked for, the host finds its own count back, and the verdict and every
\* success are about the provider (openblas_policy_mutex, call_once).
THEOREM ProviderIsolation ==
  ASSUME Blas!ProviderConstantsAssumption
  PROVE  Blas!Spec => [](/\ Blas!ProductsRunAsAsked /\ Blas!CountRestored
                         /\ Blas!VerdictIsAboutProvider /\ Blas!SuccessIsConformant)
<1>1. Blas!Init => BlasInv
  <2> SUFFICES ASSUME Blas!Init PROVE BlasInv
    OBVIOUS
  <2> USE DEF Blas!Init, Probing, Executing, Locked, Blas!ProviderConstantsAssumption
  <2>1. BlasTypeInv BY DEF BlasTypeInv
  <2>2. BlasPlaceInv /\ BlasCountInv /\ BlasSuccessInv BY DEF BlasPlaceInv, BlasCountInv,
     BlasSuccessInv
  <2>3. Blas!ProductsRunAsAsked /\ Blas!VerdictIsAboutProvider /\ Blas!SuccessIsConformant
    BY DEF Blas!ProductsRunAsAsked, Blas!VerdictIsAboutProvider, Blas!SuccessIsConformant
  <2> QED BY <2>1, <2>2, <2>3 DEF BlasInv
<1>2. BlasInv /\ [Blas!Next]_Blas!vars => BlasInv'
  <2> SUFFICES ASSUME BlasInv, [Blas!Next]_Blas!vars PROVE BlasInv'
    OBVIOUS
  <2>1. ASSUME NEW t \in Thread, \E n \in Counts : Blas!Execute(t, n) PROVE BlasInv'
    BY <2>1, ExecuteKeeps
  <2>2. ASSUME NEW t \in Thread, Blas!Step(t) PROVE BlasInv'
    BY <2>2, ReportOrDeferKeeps, EnterOnceKeeps, PassOnceKeeps, ProbeLockKeeps, ProbeSetKeeps,
       ProbeRunKeeps, ProbeRestoreKeeps, ProbeEndKeeps, LockKeeps, SetKeeps, CheckKeeps,
       MultiplyKeeps, RestoreKeeps, FinishKeeps DEF Blas!Step
  <2>3. CASE UNCHANGED Blas!vars
    BY <2>3 DEF Blas!vars, BlasInv, BlasTypeInv, BlasPlaceInv, BlasCountInv, Harmless, CountInCall,
       BlasSuccessInv,
       Blas!ProductsRunAsAsked, Blas!VerdictIsAboutProvider, Blas!SuccessIsConformant
  <2> QED BY <2>1, <2>2, <2>3, DiscoverKeeps, ChangeEnvironmentKeeps DEF Blas!Next
<1>3. BlasInv => Blas!CountRestored
  <2> SUFFICES ASSUME BlasInv, blasProvider # "losesCount",
                      \A t \in Thread : blasPc[t] \notin {"probeRun", "probeRestore", "check",
                                                      "multiply", "restore"}
      PROVE  blasCount = HostThreads
    BY DEF Blas!CountRestored
  <2>1. CASE blasMutex = Blas!Nobody
    BY <2>1 DEF BlasInv, BlasCountInv, Harmless
  <2>2. CASE blasMutex \in Thread
    <3>1. blasPc[blasMutex] \in {"probeSet", "probeEnd", "set", "finish"}
      BY <2>2 DEF BlasInv, BlasPlaceInv, Locked, Probing, Executing
    <3> QED BY <2>2, <3>1 DEF BlasInv, BlasCountInv, Harmless
  <2> QED BY <2>1, <2>2 DEF BlasInv, BlasTypeInv
<1>4. BlasInv => Blas!ProductsRunAsAsked /\ Blas!VerdictIsAboutProvider /\ Blas!SuccessIsConformant
  BY DEF BlasInv
<1> QED BY <1>1, <1>2, <1>3, <1>4, PTL DEF Blas!Spec

------------------------------------------------------------------------------
(* The values and observation blocks of the closed host, owned by two threads. *)
VARIABLES ownerOwner, ownerPoints, ownerRefs, ownerLife, ownerTodo, ownerWriting
ownerVars == <<ownerOwner, ownerPoints, ownerRefs, ownerLife, ownerTodo, ownerWriting>>
Ownership == INSTANCE ValueOwnership WITH owner <- ownerOwner,
  points <- ownerPoints, refs <- ownerRefs, life <- ownerLife, todo <- ownerTodo,
  writing <- ownerWriting
OwnerIdle ==
  /\ ownerOwner = "idle" /\ ownerPoints = "idle" /\ ownerRefs = "idle" /\ ownerLife = "idle"
  /\ ownerTodo = "idle" /\ ownerWriting = "idle"

------------------------------------------------------------------------------
(* The admission of a launch: preflight, probe, claim and registration. *)
capsVars == vars
Slow == INSTANCE RuntimeCapabilities WITH HipComplete <- TRUE, DeviceTensors <- TRUE,
  PipeCapacity <- 1, MaxCalls <- 2

------------------------------------------------------------------------------
(* Execution plans, captured and plain. *)
VARIABLES planPc, planPlan, planAddress, planStep, planOverride, planCacheOf, planStream,
          planGraph, planExec, planCaptured, planCapturing, planPooled, planBusy, planLoaded,
          planNullQueue, planQueue, planMemory, planRaced, planCalls
planVars == <<planPc, planPlan, planAddress, planStep, planOverride, planCacheOf, planStream,
              planGraph, planExec, planCaptured, planCapturing, planPooled, planBusy,
              planLoaded, planNullQueue, planQueue, planMemory, planRaced,
              planCalls>>
Planned == INSTANCE GpuPlan WITH Thread <- Threads, Plan <- {"graphPlan", "plainPlan"},
  Launches <- PlanLaunches, GraphMode <- {"graphPlan"}, Address <- {"a", "b"},
  Stream <- {"s1", "s2"}, MaxPooled <- 1, CaptureFails <- FALSE,
  MaxCalls <- 2, pc <- planPc, plan <- planPlan, address <- planAddress, step <- planStep,
  override <- planOverride, cacheOf <- planCacheOf, stream <- planStream, graph <- planGraph,
  exec <- planExec, captured <- planCaptured, capturing <- planCapturing, pooled <- planPooled,
  busy <- planBusy, loaded <- planLoaded, nullQueue <- planNullQueue, queue <- planQueue,
  memory <- planMemory, raced <- planRaced, calls <- planCalls
Failing == INSTANCE GpuPlan WITH Thread <- Threads, Plan <- {"graphPlan", "plainPlan"},
  Launches <- PlanLaunches, GraphMode <- {"graphPlan"}, Address <- {"a", "b"},
  Stream <- {"s1", "s2"}, MaxPooled <- 1, CaptureFails <- TRUE,
  MaxCalls <- 2, pc <- planPc, plan <- planPlan, address <- planAddress, step <- planStep,
  override <- planOverride, cacheOf <- planCacheOf, stream <- planStream, graph <- planGraph,
  exec <- planExec, captured <- planCaptured, capturing <- planCapturing, pooled <- planPooled,
  busy <- planBusy, loaded <- planLoaded, nullQueue <- planNullQueue, queue <- planQueue,
  memory <- planMemory, raced <- planRaced, calls <- planCalls

------------------------------------------------------------------------------
\* The constants of every instance are ones the code can be built and called with.
ASSUME InstanceAssumption ==
  /\ Nested!ConstantsAssumption /\ Gpu!GpuConstantsAssumption /\ Cuda!GpuConstantsAssumption
  /\ Request!GpuConstantsAssumption /\ Versions!ConstantsAssumption
  /\ Cache!ConstantsAssumption /\ Hosts!ConstantsAssumption /\ Pool!ConstantsAssumption
  /\ SmallPool!ConstantsAssumption /\ Blas!ProviderConstantsAssumption
  /\ ConstantsAssumption
  /\ Slow!ConstantsAssumption /\ Planned!ConstantsAssumption /\ Ownership!ConstantsAssumption
  /\ Failing!ConstantsAssumption

sharedVars == <<part, nestedVars, gpuVars, cacheVars, poolVars, blasVars, ownerVars, capsVars,
                planVars>>

SharedInit ==
  /\ part \in Parts
  /\ Nested!Init
  /\ CASE part = "adapter" -> Gpu!Init
       [] part = "cuda" -> Cuda!Init
       [] part = "requests" -> Request!Init
       [] OTHER -> GpuIdle
  /\ CASE part = "versions" -> Versions!Init
       [] part = "cache" -> Cache!Init
       [] part = "hosts" -> Hosts!Init
       [] OTHER -> CacheIdle
  /\ CASE part = "smallPool" -> SmallPool!Init
       [] OTHER -> Pool!Init
  /\ IF part = "openblas" THEN Blas!Init ELSE BlasIdle
  /\ IF part = "ownership" THEN Ownership!Init ELSE OwnerIdle
  /\ CASE part = "slowCommands" -> Slow!Init
       [] OTHER -> Init
  /\ CASE part = "failingPlan" -> Failing!Init
       [] OTHER -> Planned!Init

SharedNext ==
  \/ part = "nested" /\ Nested!Next /\ UNCHANGED <<part, gpuVars, cacheVars, poolVars, blasVars,
       ownerVars, capsVars, planVars>>
  \/ part = "adapter" /\ Gpu!Next /\ UNCHANGED <<part, nestedVars, cacheVars, poolVars,
       blasVars, ownerVars, capsVars, planVars>>
  \/ part = "cuda" /\ Cuda!Next /\ UNCHANGED <<part, nestedVars, cacheVars, poolVars, blasVars,
       ownerVars, capsVars, planVars>>
  \/ part = "requests" /\ Request!Next /\ UNCHANGED <<part, nestedVars, cacheVars, poolVars,
       blasVars, ownerVars, capsVars, planVars>>
  \/ part = "versions" /\ Versions!Next /\ UNCHANGED <<part, nestedVars, gpuVars, poolVars,
       blasVars, ownerVars, capsVars, planVars>>
  \/ part = "cache" /\ Cache!Next /\ UNCHANGED <<part, nestedVars, gpuVars, poolVars, blasVars,
       ownerVars, capsVars, planVars>>
  \/ part = "hosts" /\ Hosts!Next /\ UNCHANGED <<part, nestedVars, gpuVars, poolVars, blasVars,
       ownerVars, capsVars, planVars>>
  \/ part = "pool" /\ Pool!Next /\ UNCHANGED <<part, nestedVars, gpuVars, cacheVars, blasVars,
       ownerVars, capsVars, planVars>>
  \/ part = "smallPool" /\ SmallPool!Next /\ UNCHANGED <<part, nestedVars, gpuVars, cacheVars,
       blasVars, ownerVars, capsVars, planVars>>
  \/ part = "openblas" /\ Blas!Next /\ UNCHANGED <<part, nestedVars, gpuVars, cacheVars,
       poolVars, ownerVars, capsVars, planVars>>
  \/ part = "ownership" /\ Ownership!Next /\ UNCHANGED <<part, nestedVars, gpuVars, cacheVars,
       poolVars, blasVars, capsVars, planVars>>
  \/ part = "admission" /\ Next /\ UNCHANGED <<part, nestedVars, gpuVars, cacheVars, poolVars,
       blasVars, ownerVars, planVars>>
  \/ part = "slowCommands" /\ Slow!Next /\ UNCHANGED <<part, nestedVars, gpuVars, cacheVars,
       poolVars, blasVars, ownerVars, planVars>>
  \/ part = "plan" /\ Planned!Next /\ UNCHANGED <<part, nestedVars, gpuVars, cacheVars,
       poolVars, blasVars, ownerVars, capsVars>>
  \/ part = "failingPlan" /\ Failing!Next /\ UNCHANGED <<part, nestedVars, gpuVars, cacheVars,
       poolVars, blasVars, ownerVars, capsVars>>

SharedSpec == SharedInit /\ [][SharedNext]_sharedVars

\* A thread inside a call is scheduled again, a worker too, the device runs what is queued and
\* time passes.  Nobody has to call, no command has to end and no device has to complete.
Fairness ==
  /\ \A w \in Nested!Workers : WF_nestedVars(part = "nested" /\ Nested!Work(w))
  /\ \A t \in Nested!Threads : WF_nestedVars(part = "nested" /\ Nested!Proceed(t))
  /\ \A t \in Threads :
       /\ WF_gpuVars(part = "cuda" /\ Cuda!Step(t))
       /\ WF_cacheVars(part = "hosts" /\ Hosts!Step(t))
       /\ WF_poolVars(part = "smallPool" /\ SmallPool!PoolStep(t))
       /\ WF_capsVars(part = "slowCommands" /\ Slow!CallStep(t))
       /\ WF_capsVars(part = "slowCommands" /\ Slow!DeadlinePasses(t))
       /\ WF_capsVars(part = "slowCommands" /\ Slow!ChildWrites(t))
       /\ WF_planVars(part = "failingPlan" /\ Failing!CallStep(t))
  /\ WF_poolVars(part = "smallPool" /\ SmallPool!DeviceStep("s1"))
  /\ WF_planVars(part = "failingPlan" /\ Failing!DeviceNull)
  /\ \A s \in {"s1", "s2", "graphPlan", "plainPlan"} : WF_planVars(part = "failingPlan" /\ Failing!DeviceStep(s))

FairSpec == SharedSpec /\ Fairness

------------------------------------------------------------------------------
\* A worker runs a task only for the caller that holds its context, however tasks nest.
WorkBelongsToHolder == part = "nested" => Nested!WorkBelongsToHolder

\* A frame the device still uses exists and has given nothing back; what a finished call could
\* not release stays reachable, although frames are linked without a lock, and only while new
\* calls are refused; the output is written when the call succeeds and then only; and a call
\* succeeds only when the product was delivered.
FramesOutliveTheDevice ==
  /\ part = "adapter" =>
       /\ Gpu!DeviceUseIsBacked /\ Gpu!NothingIsLost /\ Gpu!QuarantineImpliesPoison
       /\ Gpu!OutputOnlyOnSuccess
  /\ part = "requests" => Request!SuccessIsDelivered

\* What a thread is about to run is the code its own version of the compiler emits for the
\* kernel it asked for, on a host that can run it, whoever published the file; a kernel that
\* accumulates starts from zero, also when its metadata was lost.
RunsRequestedKernel ==
  /\ part = "versions" => Versions!RunsRequestedKernel /\ Versions!AccumulatesFromZero
  /\ part = "cache" => Cache!RunsRequestedKernel /\ Cache!AccumulatesFromZero
  /\ part = "hosts" => Hosts!RunsRequestedKernel /\ Hosts!AccumulatesFromZero

\* No two holders have one block, none is pooled and held, lost, or handed out while work of
\* an earlier holder is queued; the tables of the pool agree.
OneHolder ==
  part = "pool" =>
    Pool!OneHolder /\ Pool!PoolConsistent /\ Pool!NoBlockLost /\ Pool!NoReuseWhileQueued

\* The thread count of the provider is process-wide: every product runs with the count its
\* caller asked for, the host's count is back once nobody calls, and a success or a verdict is
\* about the provider and not about the other caller.
ProviderCallsAreIsolated ==
  part = "openblas" =>
    /\ Blas!ProductsRunAsAsked /\ Blas!CountRestored
    /\ Blas!VerdictIsAboutProvider /\ Blas!SuccessIsConformant

\* The hand-written reference counts: what a thread owns is alive, each object is deleted
\* once, and nothing is left when no thread owns anything.
OwnershipIsExact ==
  part = "ownership" =>
    Ownership!OwnedIsAlive /\ Ownership!DeletedOnce /\ Ownership!NothingLeaks

\* A call that returns has left what its kernel computes from zero, captured, warmed up,
\* replayed or plain, unless its kernel overtook the memset of the null stream; a graph that
\* may be replayed is the kernel and its modules are loaded; nothing of the capture is left
\* behind, and a stream is with one thread.
ResultIsKernel ==
  part = "plan" =>
    /\ Planned!ResultIsKernel /\ Planned!GraphHoldsKernel /\ Planned!GraphModulesLoaded
    /\ Planned!OverrideMeansCapture /\ Planned!StreamsAreExclusive

\* Where a thread is inside a call of the component.
Inside(t) ==
  CASE part = "nested" -> nestedPc[t] \in {"lock", "wait"}
    [] part = "cuda" -> gpuPc[t] # "idle"
    [] part = "hosts" -> cachePc[t] # "idle"
    [] part = "smallPool" -> poolPc[t] # "idle"
    [] part = "slowCommands" -> pc[t] # "idle"
    [] part = "failingPlan" -> planPc[t] # "idle"
    [] OTHER -> FALSE

\* Every call returns, whoever holds the mutex, the claim or the stream it needs, and although a
\* command hangs, a capture fails, a process dies or a device stops.
EveryCallReturns == \A t \in Threads : Inside(t) ~> ~Inside(t)
------------------------------------------------------------------------------
(* The composition: a behaviour of one part is a behaviour of its component. *)

\* In the behaviours whose part is the nested contexts, work belongs to a holder, however
\* many contexts, callers and workers there are and whoever submits to whom.
THEOREM SharedWorkBelongsToHolder == SharedSpec => []WorkBelongsToHolder
  <1>0. Nested!ConstantsAssumption BY InstanceAssumption
  <1> DEFINE Inv == part = "nested" => NestInv
  <1>1. SharedInit => Inv
    BY <1>0, NestStarts DEF SharedInit
  <1>2. ASSUME Inv, [SharedNext]_sharedVars PROVE Inv'
    <2>1. part' = part /\ (part = "nested" => [Nested!Next]_(Nested!vars))
      <3>1. CASE SharedNext BY <3>1 DEF SharedNext
      <3>2. CASE UNCHANGED sharedVars
        BY <3>2 DEF sharedVars, nestedVars, Nested!vars
      <3> QED BY <1>2, <3>1, <3>2
    <2> QED BY <1>0, <1>2, <2>1, NestKeeps
  <1>3. Inv => WorkBelongsToHolder BY DEF NestInv, WorkBelongsToHolder
  <1> QED BY <1>1, <1>2, <1>3, PTL DEF SharedSpec

LEMMA PoolRuns ==
  SharedSpec => (part = "pool" /\ Pool!Spec /\ [](part = "pool")) \/ [](~(part = "pool"))
  <1>1. ASSUME part = "pool", [SharedNext]_sharedVars
        PROVE (part = "pool")' /\ [Pool!Next]_(Pool!vars)
    <2>1. CASE SharedNext
      BY <1>1, <2>1 DEF SharedNext
    <2>2. CASE UNCHANGED sharedVars
      BY <1>1, <2>2
      DEF sharedVars, poolVars, Pool!vars, Pool!pool, Pool!gpu, Pool!table, Pool!locals
    <2> QED BY <1>1, <2>1, <2>2
  <1>2. ASSUME ~(part = "pool"), [SharedNext]_sharedVars PROVE (~(part = "pool"))'
    BY <1>2 DEF SharedNext, sharedVars
  <1>3. part = "pool" /\ SharedInit => Pool!Init
    BY Zenon DEF SharedInit
  <1> QED BY <1>1, <1>2, <1>3, PTL DEF SharedSpec, Pool!Spec

\* The pool as the run has it: one holder of a block, no block lost or reused under queued
\* work, and tables that agree, at every acquisition, release and eviction.
THEOREM SharedOneHolder == SharedSpec => []OneHolder
  <1>1. Pool!ConstantsAssumption BY InstanceAssumption
  <1>2. Pool!Spec => [](Pool!OneHolder /\ Pool!NoBlockLost) BY <1>1, Pool!BlocksHeldOnce
  <1>3. Pool!Spec => []Pool!NoReuseWhileQueued BY <1>1, Pool!FencesProtect
  <1>4. Pool!Spec => []Pool!PoolConsistent BY <1>1, Pool!TablesAgree
  <1>5. ASSUME part = "pool" => Pool!OneHolder /\ Pool!PoolConsistent /\ Pool!NoBlockLost
                                /\ Pool!NoReuseWhileQueued
        PROVE  OneHolder
    BY <1>5 DEF OneHolder
  <1> QED BY PoolRuns, <1>2, <1>3, <1>4, <1>5, PTL

LEMMA AdapterRuns ==
  SharedSpec => (part = "adapter" /\ Gpu!Spec /\ [](part = "adapter")) \/ [](~(part = "adapter"))
  <1>1. ASSUME part = "adapter", [SharedNext]_sharedVars
        PROVE (part = "adapter")' /\ [Gpu!Next]_(Gpu!vars)
    <2>1. CASE SharedNext
      BY <1>1, <2>1 DEF SharedNext
    <2>2. CASE UNCHANGED sharedVars
      BY <1>1, <2>2 DEF sharedVars, gpuVars, Gpu!vars, Gpu!adapterVars
    <2> QED BY <1>1, <2>1, <2>2
  <1>2. ASSUME ~(part = "adapter"), [SharedNext]_sharedVars PROVE (~(part = "adapter"))'
    BY <1>2 DEF SharedNext, sharedVars
  <1>3. part = "adapter" /\ SharedInit => Gpu!Init
    BY DEF SharedInit
  <1> QED BY <1>1, <1>2, <1>3, PTL DEF SharedSpec, Gpu!Spec

LEMMA RequestsRun ==
  SharedSpec => (part = "requests" /\ Request!Spec /\ [](part = "requests"))
                \/ [](~(part = "requests"))
  <1>1. ASSUME part = "requests", [SharedNext]_sharedVars
        PROVE (part = "requests")' /\ [Request!Next]_(Request!vars)
    <2>1. CASE SharedNext
      BY <1>1, <2>1 DEF SharedNext
    <2>2. CASE UNCHANGED sharedVars
      BY <1>1, <2>2 DEF sharedVars, gpuVars, Request!vars, Request!adapterVars
    <2> QED BY <1>1, <2>1, <2>2
  <1>2. ASSUME ~(part = "requests"), [SharedNext]_sharedVars PROVE (~(part = "requests"))'
    BY <1>2 DEF SharedNext, sharedVars
  <1>3. part = "requests" /\ SharedInit => Request!Init
    BY DEF SharedInit
  <1> QED BY <1>1, <1>2, <1>3, PTL DEF SharedSpec, Request!Spec

\* The adapters as the run has them: frames the device uses are kept and never lost, outputs
\* are written by the call that reports them, and success is a delivered product.
THEOREM SharedFrames == SharedSpec => []FramesOutliveTheDevice
  <1>1. Gpu!GpuConstantsAssumption /\ Request!GpuConstantsAssumption BY InstanceAssumption
  <1>2. Gpu!Spec => [](/\ Gpu!DeviceUseIsBacked /\ Gpu!NothingIsLost /\ Gpu!QuarantineImpliesPoison
                       /\ Gpu!OutputOnlyOnSuccess /\ Gpu!SuccessIsDelivered)
    BY <1>1, Gpu!FramesAreKept
  <1>3. Request!Spec => [](
          /\ Request!DeviceUseIsBacked /\ Request!NothingIsLost /\ Request!QuarantineImpliesPoison
          /\ Request!OutputOnlyOnSuccess /\ Request!SuccessIsDelivered)
    BY <1>1, Request!FramesAreKept
  <1>4. ASSUME part = "adapter" => /\ Gpu!DeviceUseIsBacked /\ Gpu!NothingIsLost
                                   /\ Gpu!QuarantineImpliesPoison /\ Gpu!OutputOnlyOnSuccess,
               part = "requests" => Request!SuccessIsDelivered
        PROVE  FramesOutliveTheDevice
    BY <1>4 DEF FramesOutliveTheDevice
  <1> QED BY AdapterRuns, RequestsRun, <1>2, <1>3, <1>4, PTL

LEMMA BlasRuns ==
  SharedSpec => (part = "openblas" /\ Blas!Spec /\ [](part = "openblas")) \/ [](~(part = "openblas"))
  <1>1. ASSUME part = "openblas", [SharedNext]_sharedVars
        PROVE (part = "openblas")' /\ [Blas!Next]_(Blas!vars)
    <2>1. CASE SharedNext
      BY <1>1, <2>1 DEF SharedNext
    <2>2. CASE UNCHANGED sharedVars
      BY <1>1, <2>2 DEF sharedVars, blasVars, Blas!vars
    <2> QED BY <1>1, <2>1, <2>2
  <1>2. ASSUME ~(part = "openblas"), [SharedNext]_sharedVars PROVE (~(part = "openblas"))'
    BY <1>2 DEF SharedNext, sharedVars
  <1>3. part = "openblas" /\ SharedInit => Blas!Init
    BY DEF SharedInit
  <1> QED BY <1>1, <1>2, <1>3, PTL DEF SharedSpec, Blas!Spec

\* The provider as the run has it: every product runs with the count its caller asked for,
\* the host's count is back once nobody calls, and verdicts are about the provider.
THEOREM SharedProviderCalls == SharedSpec => []ProviderCallsAreIsolated
  <1>1. Blas!ProviderConstantsAssumption BY InstanceAssumption
  <1>2. Blas!Spec => [](/\ Blas!ProductsRunAsAsked /\ Blas!CountRestored
                        /\ Blas!VerdictIsAboutProvider /\ Blas!SuccessIsConformant)
    BY <1>1, ProviderIsolation
  <1>3. ASSUME part = "openblas" => /\ Blas!ProductsRunAsAsked /\ Blas!CountRestored
                                    /\ Blas!VerdictIsAboutProvider /\ Blas!SuccessIsConformant
        PROVE  ProviderCallsAreIsolated
    BY <1>3 DEF ProviderCallsAreIsolated
  <1> QED BY BlasRuns, <1>2, <1>3, PTL

LEMMA OwnersRun ==
  SharedSpec => (part = "ownership" /\ Ownership!Spec /\ [](part = "ownership"))
                \/ [](~(part = "ownership"))
  <1>1. ASSUME part = "ownership", [SharedNext]_sharedVars
        PROVE (part = "ownership")' /\ [Ownership!Next]_(Ownership!vars)
    <2>1. CASE SharedNext
      BY <1>1, <2>1 DEF SharedNext
    <2>2. CASE UNCHANGED sharedVars
      BY <1>1, <2>2 DEF sharedVars, ownerVars, Ownership!vars
    <2> QED BY <1>1, <2>1, <2>2
  <1>2. ASSUME ~(part = "ownership"), [SharedNext]_sharedVars PROVE (~(part = "ownership"))'
    BY <1>2 DEF SharedNext, sharedVars
  <1>3. part = "ownership" /\ SharedInit => Ownership!Init
    BY DEF SharedInit
  <1> QED BY <1>1, <1>2, <1>3, PTL DEF SharedSpec, Ownership!Spec

\* The reference counts as the run has them: what a thread owns is alive, each object is
\* deleted once, and nothing is left when no thread owns anything.
THEOREM SharedOwnership == SharedSpec => []OwnershipIsExact
  <1>1. Ownership!ConstantsAssumption BY InstanceAssumption
  <1>2. Ownership!Spec => [](Ownership!OwnedIsAlive /\ Ownership!DeletedOnce
                             /\ Ownership!NothingLeaks)
    BY <1>1, Ownership!OwnershipIsCounted
  <1>3. ASSUME part = "ownership" => Ownership!OwnedIsAlive /\ Ownership!DeletedOnce
                                     /\ Ownership!NothingLeaks
        PROVE  OwnershipIsExact
    BY <1>3 DEF OwnershipIsExact
  <1> QED BY OwnersRun, <1>2, <1>3, PTL

LEMMA VersionsRun ==
  SharedSpec => (part = "versions" /\ Versions!Spec /\ [](part = "versions")) \/ [](~(part = "versions"))
  <1>1. ASSUME part = "versions", [SharedNext]_sharedVars
        PROVE (part = "versions")' /\ [Versions!Next]_(Versions!vars)
    <2>1. CASE SharedNext
      BY <1>1, <2>1 DEF SharedNext
    <2>2. CASE UNCHANGED sharedVars
      BY <1>1, <2>2 DEF sharedVars, cacheVars, Versions!vars
    <2> QED BY <1>1, <2>1, <2>2
  <1>2. ASSUME ~(part = "versions"), [SharedNext]_sharedVars PROVE (~(part = "versions"))'
    BY <1>2 DEF SharedNext, sharedVars
  <1>3. part = "versions" /\ SharedInit => Versions!Init
    BY Zenon DEF SharedInit
  <1> QED BY <1>1, <1>2, <1>3, PTL DEF SharedSpec, Versions!Spec

LEMMA CacheRuns ==
  SharedSpec => (part = "cache" /\ Cache!Spec /\ [](part = "cache")) \/ [](~(part = "cache"))
  <1>1. ASSUME part = "cache", [SharedNext]_sharedVars
        PROVE (part = "cache")' /\ [Cache!Next]_(Cache!vars)
    <2>1. CASE SharedNext
      BY <1>1, <2>1 DEF SharedNext
    <2>2. CASE UNCHANGED sharedVars
      BY <1>1, <2>2 DEF sharedVars, cacheVars, Cache!vars
    <2> QED BY <1>1, <2>1, <2>2
  <1>2. ASSUME ~(part = "cache"), [SharedNext]_sharedVars PROVE (~(part = "cache"))'
    BY <1>2 DEF SharedNext, sharedVars
  <1>3. part = "cache" /\ SharedInit => Cache!Init
    BY Zenon DEF SharedInit
  <1> QED BY <1>1, <1>2, <1>3, PTL DEF SharedSpec, Cache!Spec

LEMMA HostsRun ==
  SharedSpec => (part = "hosts" /\ Hosts!Spec /\ [](part = "hosts")) \/ [](~(part = "hosts"))
  <1>1. ASSUME part = "hosts", [SharedNext]_sharedVars
        PROVE (part = "hosts")' /\ [Hosts!Next]_(Hosts!vars)
    <2>1. CASE SharedNext
      BY <1>1, <2>1 DEF SharedNext
    <2>2. CASE UNCHANGED sharedVars
      BY <1>1, <2>2 DEF sharedVars, cacheVars, Hosts!vars
    <2> QED BY <1>1, <2>1, <2>2
  <1>2. ASSUME ~(part = "hosts"), [SharedNext]_sharedVars PROVE (~(part = "hosts"))'
    BY <1>2 DEF SharedNext, sharedVars
  <1>3. part = "hosts" /\ SharedInit => Hosts!Init
    BY Zenon DEF SharedInit
  <1> QED BY <1>1, <1>2, <1>3, PTL DEF SharedSpec, Hosts!Spec

\* The kernel cache as the runs have it, of two versions of the compiler, of one process and of
\* two hosts: the code that runs is the requested kernel's, and it starts from zero.
THEOREM SharedKernelRuns == SharedSpec => []RunsRequestedKernel
  <1>1. Versions!ConstantsAssumption /\ Cache!ConstantsAssumption /\ Hosts!ConstantsAssumption
    BY InstanceAssumption
  <1>2. Versions!Spec => [](Versions!RunsRequestedKernel /\ Versions!AccumulatesFromZero)
    <2>1. Versions!KeysIdentify BY Versions!NamedKernels
    <2> QED BY <1>1, <2>1, Versions!RequestedKernelRuns
  <1>3. Cache!Spec => [](Cache!RunsRequestedKernel /\ Cache!AccumulatesFromZero)
    <2>1. Matmul.target # Amd.target BY DEF Matmul, Amd
    <2>2. Cache!KeysIdentify BY <2>1, Cache!NamedKernels
    <2> QED BY <1>1, <2>2, Cache!RequestedKernelRuns
  <1>4. Hosts!Spec => [](Hosts!RunsRequestedKernel /\ Hosts!AccumulatesFromZero)
    <2>1. Matmul.name # Fused.name BY DEF Matmul, Fused
    <2>2. Hosts!KeysIdentify BY <2>1, Hosts!NamedKernels
    <2> QED BY <1>1, <2>2, Hosts!RequestedKernelRuns
  <1>5. ASSUME part = "versions" => Versions!RunsRequestedKernel /\ Versions!AccumulatesFromZero,
               part = "cache" => Cache!RunsRequestedKernel /\ Cache!AccumulatesFromZero,
               part = "hosts" => Hosts!RunsRequestedKernel /\ Hosts!AccumulatesFromZero
        PROVE  RunsRequestedKernel
    BY <1>5 DEF RunsRequestedKernel
  <1> QED BY VersionsRun, CacheRuns, HostsRun, <1>2, <1>3, <1>4, <1>5, PTL
==============================================================================
