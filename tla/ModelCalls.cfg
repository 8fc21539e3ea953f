\* Two jobs share one slot and one claim loop, the first with two branches side
\* by side.  One branch calls a model that never answers, the other two queue
\* for one that does.  Two contexts end at any time.
CONSTANTS
  h1 = h1  h2 = h2  b1 = b1  b2 = b2  l1 = l1  m1 = m1  m2 = m2
  NoHandler = NoHandler
  NoBranch = NoBranch
  NoLane = NoLane
  Handlers <- TwoHandlers
  Branches <- TwoBranches
  Loops <- OneLoop
  Calls <- ThreeCalls
  Models <- TwoModels
  ModelOf <- FirstStuck
  Stuck <- OneStuck
  MaxAborts = 2
  Size = 1
SPECIFICATION CallsFairSpec
INVARIANTS HeldUnlessWaiting AdmissionBounded
PROPERTIES HealthyJobsEnd
\* The jobs end, or wait for a stuck model for ever.
CHECK_DEADLOCK FALSE
