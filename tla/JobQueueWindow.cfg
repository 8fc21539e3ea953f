\* One reap inside the window: the dedupe set no longer covers what is queued.
CONSTANTS
  k1 = k1  k2 = k2  j1 = j1  j2 = j2  w1 = w1  w2 = w2  r1 = r1  r2 = r2
  NoKey = NoKey
  NoEntry = NoEntry
  Keys <- OneKey
  JobId <- TwoJobs
  Executors <- TwoExecutors
  Reapers <- OneReaper
  Steps = {}
  MaxAttempts = 2
  MaxCrashes = 0
  MaxLateRenewals = 0
  MaxWindowReaps = 1
  MaxFaults = 3
SPECIFICATION Spec
INVARIANT DedupeExact
CHECK_DEADLOCK FALSE
