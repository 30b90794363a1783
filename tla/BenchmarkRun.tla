---------------------------- MODULE BenchmarkRun ----------------------------
(* run_benchmarks_v1 of matcore-bench: one measurement of each shape with the *)
(* modes of caching, allocation, packing and validation.  A product is known  *)
(* by the left input it was computed from; time is counted in ticks, and the  *)
(* clock and the runner behind the interface GemmRunnerV1 choose freely.      *)
EXTENDS Integers, Sequences, SequencesExt, FiniteSetsExt

CONSTANTS
    Options,       \* the command lines under study
    Plans,         \* what runner.plan may answer
    Times,         \* ticks one execution may take, as the clock reports them
    Floor,         \* options.timer_floor_nanoseconds
    MaxReps,       \* kMaximumAggregateRepetitions
    ColdBytes,     \* kColdCacheBytes
    Limit,         \* the largest unsigned integer
    MaxFaults      \* how many executions of the runner may go wrong

BenchmarkAssumption ==
    /\ Times \subseteq Nat /\ Floor \in Nat \ {0} /\ MaxReps \in Nat \ {0}
    /\ ColdBytes \in Nat /\ Limit \in Nat /\ MaxFaults \in Nat

VARIABLES
    opt,        \* the options
    shape,      \* how many shapes have been started
    phase,      \* where run_benchmarks_v1 is
    plan,       \* result.plan
    estimate,   \* result.estimated_memory_bytes
    base,       \* bytes of the buffers that live as long as the shape
    oneShot,    \* bytes of the one-shot output and workspace
    peak,       \* the most bytes that were live at once
    image,      \* left input the prepared workspace was made for
    index,      \* invocation_index
    lastLhs,    \* left input of the last execution
    out,        \* left input whose product the active output holds
    left,       \* invocations left in the phase
    round,      \* number of the probe, of the calibration or of the sample
    probe,      \* fastest probe
    reps,       \* repetitions
    cal,        \* ticks per execution of the calibration that met the target
    samples,    \* ticks per execution of the samples
    faults,     \* executions that went wrong
    wrongIn,    \* the phases they went wrong in
    report      \* the results

vars == <<opt, shape, phase, plan, estimate, base, oneShot, peak, image, index,
          lastLhs, out, left, round, probe, reps, cal, samples, faults, wrongIn, report>>

Nothing == -1                       \* no product, or a wrong one
Float == 4
MaxAlignBytes == 16
Target == 2 * Floor
Shape == opt.shapes[shape]
Work(s) == s[1] * s[2] * s[3]
RoundUp(v, a) == ((v + a - 1) \div a) * a

-----------------------------------------------------------------------------
ShapeCounts(s) == (\A d \in 1..3 : s[d] > 0) /\ Work(s) <= Limit

OptionsValid(o) ==
    /\ \A j \in DOMAIN o.shapes : ShapeCounts(o.shapes[j])
    /\ o.threads > 0 /\ o.measured > 0 /\ o.sequence > 0
    /\ o.alignment >= Float /\ \E p \in 0..8 : o.alignment = 2^p
    /\ o.memory > 0
    /\ o.packing \in {"prepack_b", "exclude"} => o.allocation = "reuse"
    /\ o.packing = "exclude" => o.sequence = 1

\* AlignedBuffer pays twice the alignment and one maximal alignment on top.
Aligned(bytes, a) == IF bytes = 0 THEN 0 ELSE bytes + 2 * a + MaxAlignBytes

LhsStride(s, o) == RoundUp(s[1] * s[3] * Float, o.alignment)
LhsBytes(s, o) == LhsStride(s, o) * (o.sequence - 1) + s[1] * s[3] * Float
OutputBytes(s, o) == Aligned(s[1] * s[2] * Float, o.alignment)
WorkspaceBytes(p) == Aligned(p.workspace, p.alignment)

\* Every partial sum is checked against the width of the integer; as all of
\* them are at most the total, that is one comparison.
Required(s, p, o) ==
    Aligned(LhsBytes(s, o), o.alignment) + Aligned(s[3] * s[2] * Float, o.alignment)
        + OutputBytes(s, o) + WorkspaceBytes(p)
        + (IF o.packing = "prepack_b" THEN Aligned(p.prepacked, p.alignment) ELSE 0)
        + (IF o.cache = "cold" THEN ColdBytes ELSE 0)

MemoryFits(s, p, o) == Required(s, p, o) <= Min({Limit, o.memory})

PlanUsable(p, o) ==
    /\ p.legal
    /\ o.variant # "auto" => p.variant = o.variant
    /\ \E e \in 0..8 : p.alignment = 2^e
    /\ o.packing = "prepack_b" => p.supports

Allocated(s, p, o) ==
    Aligned(LhsBytes(s, o), o.alignment) + Aligned(s[3] * s[2] * Float, o.alignment)
        + (IF o.allocation = "reuse" THEN OutputBytes(s, o) + WorkspaceBytes(p) ELSE 0)
        + (IF o.packing = "prepack_b" THEN Aligned(p.prepacked, p.alignment) ELSE 0)
        + (IF o.cache = "cold" THEN ColdBytes ELSE 0)

\* Whether a plan supports a prepacked operand is not compared.
SamePlan(p, q) == \A field \in DOMAIN p \ {"supports"} : p[field] = q[field]

-----------------------------------------------------------------------------
Init ==
    /\ opt \in Options
    /\ shape = 0 /\ phase = "options" /\ plan = Nothing /\ estimate = 0 /\ base = 0
    /\ oneShot = 0 /\ peak = 0 /\ image = Nothing /\ index = 0 /\ lastLhs = 0
    /\ out = Nothing /\ left = 0 /\ round = 0 /\ probe = 0 /\ reps = 0 /\ cal = 0
    /\ samples = <<>> /\ faults = 0 /\ wrongIn = {} /\ report = <<>>

Measuring == <<lastLhs, out, left, round, probe, reps, cal, samples, faults, wrongIn>>
Fail(why) == phase' = why
StartShape == phase' = "plan" /\ shape' = shape + 1

ValidateOptions ==
    /\ phase = "options"
    /\ IF OptionsValid(opt) THEN StartShape ELSE Fail("rejected") /\ UNCHANGED shape
    /\ UNCHANGED <<opt, plan, estimate, base, oneShot, peak, image, index, report>>
    /\ UNCHANGED Measuring

\* Plan the shape, check the memory it needs, allocate and fill the inputs.
PlanShape ==
    /\ phase = "plan"
    /\ \E p \in Plans :
        IF PlanUsable(p, opt) /\ MemoryFits(Shape, p, opt)
        THEN /\ plan' = p
             /\ estimate' = Required(Shape, p, opt)
             /\ base' = Allocated(Shape, p, opt)
             /\ peak' = Allocated(Shape, p, opt)
             /\ phase' = "prepare"
        ELSE Fail("rejected") /\ UNCHANGED <<plan, estimate, base, peak>>
    /\ oneShot' = 0 /\ image' = Nothing /\ index' = 0 /\ lastLhs' = 0 /\ out' = Nothing
    /\ left' = 0 /\ round' = 0 /\ probe' = 0 /\ reps' = 0 /\ cal' = 0 /\ samples' = <<>>
    /\ wrongIn' = {}
    /\ UNCHANGED <<opt, shape, faults, report>>

Enter(p, n) == phase' = p /\ left' = n

Prepare ==
    /\ phase = "prepare"
    /\ \/ /\ opt.packing \in {"prepack_b", "exclude"}
          /\ image' = 0
          /\ Enter("warmup", opt.warmup * opt.sequence)
       \/ /\ opt.packing \in {"prepack_b", "exclude"}
          /\ Fail("runner") /\ UNCHANGED <<image, left>>
       \/ /\ opt.packing = "include"
          /\ Enter("warmup", opt.warmup * opt.sequence) /\ UNCHANGED image
    /\ UNCHANGED <<opt, shape, plan, estimate, base, oneShot, peak, index, lastLhs, out,
                   round, probe, reps, cal, samples, faults, wrongIn, report>>

-----------------------------------------------------------------------------
(* One invocation.                                                           *)

Invoking == {"warmup", "probe", "calibrate", "validate", "timed"}
Active == index % opt.sequence
Released(held) == 0

\* reset() both buffers, then allocate: what is live at the worst moment.
OneShotPeak(p) == base + Released(oneShot) + OutputBytes(Shape, opt) + WorkspaceBytes(p)

\* What execute leaves in the output: a packed-B image does not depend on the
\* left input, the complete image of the other modes does.
Executed(img, right) ==
    IF ~right THEN Nothing
    ELSE IF opt.packing = "prepack_b" THEN Active ELSE img

Passes(product, lhs) == product = lhs
LastLhs(active) == active

Fault(right) ==
    IF right THEN wrongIn
    ELSE wrongIn \cup
         {IF phase = "timed" /\ left = 1 /\ round + 1 = opt.measured THEN "final" ELSE phase}

\* The one-shot plan is made again and has to be the plan of the shape.
Invoke ==
    /\ phase \in Invoking /\ left > 0
    /\ \E p \in Plans, right \in BOOLEAN :
        /\ opt.allocation = "reuse" => p = plan
        /\ ~right => faults < MaxFaults
        /\ IF opt.allocation = "include" /\ ~SamePlan(p, plan)
           THEN /\ Fail("drift") /\ oneShot' = 0
                /\ UNCHANGED <<peak, image, out, lastLhs, index, left, faults, wrongIn>>
           ELSE /\ IF opt.allocation = "include"
                   THEN /\ oneShot' = OutputBytes(Shape, opt) + WorkspaceBytes(p)
                        /\ peak' = Max({peak, OneShotPeak(p)})
                   ELSE UNCHANGED <<oneShot, peak>>
                /\ image' = IF opt.packing = "include" THEN Active ELSE image
                /\ out' = Executed(image', right)
                /\ lastLhs' = LastLhs(Active)
                /\ index' = index + 1
                /\ left' = left - 1
                /\ faults' = faults + (IF right THEN 0 ELSE 1)
                /\ wrongIn' = Fault(right)
                /\ IF phase = "validate" /\ ~Passes(out', lastLhs')
                   THEN Fail("incorrect") ELSE UNCHANGED phase
    /\ UNCHANGED <<opt, shape, plan, estimate, base, round, probe, reps, cal, samples, report>>

\* A preparation or an execution that reports failure ends the run.
InvokeFails ==
    /\ phase \in Invoking /\ left > 0
    /\ Fail("runner")
    /\ UNCHANGED <<opt, shape, plan, estimate, base, oneShot, peak, image, index, report>>
    /\ UNCHANGED Measuring

-----------------------------------------------------------------------------
(* The phases between the invocations.                                       *)

Batch == reps * opt.sequence
Elapsed(t, n) == Max({1, t * n})
FixedDuring == <<opt, shape, plan, estimate, base, oneShot, peak, image, index, lastLhs, out,
                 faults, wrongIn, report>>

WarmedUp ==
    /\ phase = "warmup" /\ left = 0
    /\ Enter("probe", opt.sequence)
    /\ round' = 0
    /\ UNCHANGED <<probe, reps, cal, samples>> /\ UNCHANGED FixedDuring
Margin(r) == IF r <= MaxReps \div 2 THEN 2 * r ELSE r

\* validation before or after the timed samples
Calibrated(r) ==
    /\ reps' = r
    /\ round' = 0
    /\ IF opt.placement = "before" THEN Enter("validate", opt.measured * r * opt.sequence)
       ELSE Enter("timed", r * opt.sequence)

\* One probe, or the fastest of three when it is hot and close to the floor.
Probed ==
    /\ phase = "probe" /\ left = 0
    /\ \E t \in Times :
        LET ns == IF round = 0 THEN Elapsed(t, opt.sequence)
                  ELSE Min({probe, Elapsed(t, opt.sequence)})
        IN  /\ probe' = ns
            /\ IF opt.cache = "hot" /\ round < 2 /\ (round > 0 \/ ns < 8 * Target)
               THEN Enter("probe", opt.sequence) /\ round' = round + 1 /\ UNCHANGED reps
               ELSE IF opt.cache = "hot" /\ ns < Target
               THEN LET r == Min({MaxReps, (Target + ns - 1) \div ns})
                    IN  reps' = r /\ round' = 0 /\ Enter("calibrate", r * opt.sequence)
               ELSE Calibrated(1)
    /\ UNCHANGED <<cal, samples>> /\ UNCHANGED FixedDuring

Calibrate ==
    /\ phase = "calibrate" /\ left = 0
    /\ \E t \in Times :
        LET ns == Elapsed(t, Batch)
            multiplier == Max({2, (Target + ns - 1) \div ns})
        IN  IF ns >= Target THEN Calibrated(Margin(reps)) /\ cal' = t
            ELSE /\ cal' = 0
                 /\ IF reps > MaxReps \div multiplier THEN Calibrated(Margin(MaxReps))
                    ELSE IF round = 3 THEN Calibrated(Margin(reps * multiplier))
                    ELSE /\ reps' = reps * multiplier /\ round' = round + 1
                         /\ Enter("calibrate", reps * multiplier * opt.sequence)
    /\ UNCHANGED <<probe, samples>> /\ UNCHANGED FixedDuring

\* A sample ends; the last one is followed by the check of the final output.
Sampled ==
    /\ phase = "timed" /\ left = 0
    /\ \E t \in Times : samples' = Append(samples, t)
    /\ round' = round + 1
    /\ IF round + 1 < opt.measured THEN Enter("timed", Batch) ELSE Enter("verify", 0)
    /\ UNCHANGED <<probe, reps, cal>> /\ UNCHANGED FixedDuring

AfterVerify == IF opt.placement = "after" THEN "validate" ELSE "summary"

VerifyFinal_AfterReplay ==          \* fault: the replay comes before the check
    /\ phase = "verify"
    /\ IF opt.placement = "after" /\ round < opt.measured + 1
       THEN Enter("validate", opt.measured * Batch) /\ round' = opt.measured + 1
       ELSE /\ UNCHANGED round
            /\ IF Passes(out, lastLhs) THEN Enter("summary", 0)
               ELSE Fail("incorrect") /\ UNCHANGED left
    /\ UNCHANGED <<probe, reps, cal, samples>> /\ UNCHANGED FixedDuring

VerifyFinal ==
    /\ phase = "verify"
    /\ IF Passes(out, lastLhs) THEN Enter(AfterVerify, IF opt.placement = "after" THEN opt.measured * Batch ELSE 0)
       ELSE Fail("incorrect") /\ UNCHANGED left
    /\ UNCHANGED <<round, probe, reps, cal, samples>> /\ UNCHANGED FixedDuring

Validated ==
    /\ phase = "validate" /\ left = 0
    /\ IF opt.placement = "before" THEN Enter("timed", Batch) ELSE Enter("summary", 0)
    /\ UNCHANGED <<round, probe, reps, cal, samples>> /\ UNCHANGED FixedDuring

\* summarize_timings_v1
Sorted(s) == SortSeq(s, <)
Median(s) == Sorted(s)[Len(s) \div 2 + 1]
P95(s) == Sorted(s)[Min({(95 * Len(s) + 99) \div 100, Len(s)})]
TimingValid(s, executions) ==
    /\ \A j \in DOMAIN s : s[j] > 0
    /\ \A j \in DOMAIN s : s[j] * executions >= Floor

Summarize ==
    /\ phase = "summary"
    /\ report' = Append(report,
           [shape |-> Shape, valid |-> TimingValid(samples, Batch),
            median |-> Median(samples), p95 |-> P95(samples)])
    /\ oneShot' = 0
    /\ IF shape < Len(opt.shapes) THEN StartShape ELSE phase' = "done" /\ UNCHANGED shape
    /\ UNCHANGED <<opt, plan, estimate, base, peak, image, index>> /\ UNCHANGED Measuring

Next ==
    \/ ValidateOptions \/ PlanShape \/ Prepare \/ Invoke \/ InvokeFails \/ WarmedUp
    \/ Probed \/ Calibrate \/ Sampled \/ VerifyFinal \/ Validated \/ Summarize

Spec == Init /\ [][Next]_vars

-----------------------------------------------------------------------------
TypeOK ==
    /\ phase \in Invoking \cup {"options", "plan", "prepare", "verify", "summary", "done",
                                "rejected", "runner", "drift", "incorrect"}
    /\ left \in Nat /\ index \in Nat /\ reps \in 0..MaxReps /\ Len(samples) <= opt.measured
    /\ image \in -1..(opt.sequence - 1) /\ out \in -1..(opt.sequence - 1)

(* The bytes that are live at any moment stay within the bound that           *)
(* checked_memory_requirement_v1 compared with --max-memory-mib, in one-shot  *)
(* allocation too, where each invocation allocates its own pair of buffers.   *)
MemoryWithinEstimate == peak <= estimate

(* A runner that computes what it is given is never called incorrect: each    *)
(* output is compared with the product of the input it was computed from and  *)
(* the prepared image is the image of that input, in every mode.              *)
HonestRunnerPasses == phase = "incorrect" => faults > 0

(* A shape enters the report only when the final timed output and every       *)
(* output of the untimed replay were right, wherever the replay is placed.    *)
ReportedIsAuthenticated == phase = "summary" => wrongIn \cap {"final", "validate"} = {}

(* The calibration leaves a margin: after a calibration that met the target,  *)
(* and room for the extra factor, samples up to four times as fast still       *)
(* reach the floor and are not rejected.                                      *)
CalibrationKeepsItsMargin ==
    \A t \in {s \in Times : s > 0 /\ 4 * s >= cal} :
        phase = "timed" /\ cal > 0 /\ reps <= MaxReps \div 2 => TimingValid(<<t>>, Batch)

=============================================================================
