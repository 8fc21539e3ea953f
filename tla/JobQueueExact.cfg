\* No reap inside the BLMOVE-to-SETNX window: the contract holds exactly.  Every
\* job may fail and be tried again; one executor crashes or outlives its claim.
CONSTANTS
  k1 = k1  k2 = k2  j1 = j1  j2 = j2  w1 = w1  w2 = w2  r1 = r1  r2 = r2
  NoKey = NoKey
  NoEntry = NoEntry
  Keys <- TwoKeys
  JobId <- TwoJobs
  Executors <- TwoExecutors
  Reapers <- OneReaper
  Steps = {s1}
  MaxAttempts = 2
  MaxCrashes = 1
  MaxLateRenewals = 1
  MaxWindowReaps = 0
  MaxFaults = 1
SPECIFICATION FairSpec
INVARIANTS DedupeExact NoCheckpointLeak
PROPERTY ImplementsLifecycle
\* A bounded instance stops once its identities are used up.
CHECK_DEADLOCK FALSE
