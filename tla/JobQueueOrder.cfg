\* Two jobs, one worker, nothing goes wrong: which one is dispatched first?
CONSTANTS
  k1 = k1  k2 = k2  j1 = j1  j2 = j2  w1 = w1  w2 = w2  r1 = r1  r2 = r2
  NoKey = NoKey
  NoEntry = NoEntry
  Keys <- TwoKeys
  JobId <- TwoJobs
  Executors <- OneExecutor
  Reapers <- OneReaper
  Steps = {}
  MaxAttempts = 2
  MaxCrashes = 0
  MaxLateRenewals = 0
  MaxWindowReaps = 0
  MaxFaults = 3
SPECIFICATION Spec
PROPERTY DispatchesInOrder
CHECK_DEADLOCK FALSE
