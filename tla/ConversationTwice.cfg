\* A lease runs out just after its reply was delivered.
CONSTANTS
  Inputs = 2
  MaxHistoryMessages = 3
  MaxAttempts = 1
  MaxFaults = 1
  MaxOverlaps = 0
SPECIFICATION Spec
INVARIANT ShownOnce
\* The conversation ends when every input is answered.
CHECK_DEADLOCK FALSE
