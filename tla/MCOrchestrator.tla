--------------------------- MODULE MCOrchestrator ---------------------------
(* One campaign with one or two contacts and room for two batches at a time. *)
EXTENDS Orchestrator, TLC

CONSTANTS k1, k2, j1, j2

Alike == Permutations({k1, k2}) \cup Permutations({j1, j2})
==============================================================================
