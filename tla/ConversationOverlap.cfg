\* Two compactions overlap: what does the room forget?
CONSTANTS
  Inputs = 2
  MaxHistoryMessages = 3
  MaxAttempts = 1
  MaxFaults = 1
  MaxOverlaps = 1
SPECIFICATION Spec
INVARIANT MemoryKept
\* The conversation ends when every input is answered.
CHECK_DEADLOCK FALSE
