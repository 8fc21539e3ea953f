\* A greeting and two turns, a window of three messages, one fault: a job not
\* enqueued, an attempt that fails (its last) or loses its claim, or a death.
CONSTANTS
  Inputs = 2
  MaxHistoryMessages = 3
  MaxAttempts = 1
  MaxFaults = 1
  MaxOverlaps = 0
SPECIFICATION FairSpec
INVARIANTS MemoryKept ShownOncePerClaim
PROPERTY RepliesPersist
\* The conversation ends when every input is answered.
CHECK_DEADLOCK FALSE
