---------------------------- MODULE MCBatchWorker ----------------------------
(* Two overlapping batches of up to two runs, and two runs to share.          *)
EXTENDS BatchWorker, TLC

CONSTANTS r1, r2, j1, j2

MCRuns == {r1, r2}
MCJobs == {j1, j2}

Alike == Permutations(MCRuns) \cup Permutations(MCJobs)
==============================================================================
