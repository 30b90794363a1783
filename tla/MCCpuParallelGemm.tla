-------------------------- MODULE MCCpuParallelGemm --------------------------
(* Instances of CpuParallelGemm for TLC: the calls that callers make.       *)
EXTENDS CpuParallelGemm

Problem(m, n, k, align) == [m |-> m, n |-> n, k |-> k, align |-> align]
Fine(p, t) == [problem |-> p, threads |-> t, nested |-> FALSE, usable |-> TRUE,
               tensors |-> "success"]

\* With tiles of 4 rows, cache lines of 4 floats and column tiles of 4:
TwoBands   == Problem(8, 3, 1, 1)    \* two row tasks
TwoColumns == Problem(4, 8, 3, 4)    \* two column tasks
OneTask    == Problem(2, 3, 1, 1)    \* reduced to one worker
OddBand    == Problem(12, 4, 3, 4)   \* its second band starts off alignment
ThreeBands == Problem(12, 8, 4, 4)   \* three row tasks

Good == {Fine(TwoBands, 2), Fine(TwoColumns, 3), Fine(OneTask, 3),
         Fine(OddBand, 2), Fine(ThreeBands, 3)}
Bad  == {Fine(TwoBands, 0), Fine(TwoBands, 4), Fine(Problem(0, 1, 1, 1), 1),
         [Fine(TwoBands, 2) EXCEPT !.nested = TRUE],
         [Fine(TwoBands, 2) EXCEPT !.usable = FALSE],
         [Fine(TwoBands, 2) EXCEPT !.tensors = "alias_violation"]}

MCRequests     == Good \cup Bad

\* The tile sizes of the code: 264 rows in three bands of 88, K = 33.
MCCodeRequests == {Fine(Problem(264, 100, 33, 16), 3)}
=============================================================================
