\* Every kind of fault, the reap inside the BLMOVE-to-SETNX window included.
CONSTANTS
  k1 = k1  k2 = k2  j1 = j1  j2 = j2  w1 = w1  w2 = w2  r1 = r1  r2 = r2
  NoKey = NoKey
  NoEntry = NoEntry
  Keys <- OneKey
  JobId <- TwoJobs
  Executors <- TwoExecutors
  Reapers <- TwoReapers
  Steps = {}
  MaxAttempts = 2
  MaxCrashes = 1
  MaxLateRenewals = 1
  MaxWindowReaps = 1
  MaxFaults = 3
SPECIFICATION Spec
SYMMETRY Symmetry
INVARIANTS OneEntryPerJob AtMostOneOwner NoJobLost AttemptsAccounted
\* A bounded instance stops once its identities are used up.
CHECK_DEADLOCK FALSE
