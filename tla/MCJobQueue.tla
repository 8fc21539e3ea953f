---------------------------- MODULE MCJobQueue ------------------------------
(* Small instances of JobQueue for TLC. *)
EXTENDS JobQueue, TLC

CONSTANTS k1, k2, j1, j2, w1, w2, r1, r2

TwoKeys == {k1, k2}
OneKey == {k1}
TwoJobs == {j1, j2}
OneJob == {j1}
TwoExecutors == {w1, w2}
OneExecutor == {w1}
TwoReapers == {r1, r2}
OneReaper == {r1}

Symmetry ==
  UNION {Permutations(S) : S \in {Keys, JobId, Executors, Reapers}}
=============================================================================
