\* Four calls of either priority to two models, up to three waiting in one
\* lane.
CONSTANTS
  c1 = c1  c2 = c2  c3 = c3  c4 = c4  m1 = m1  m2 = m2
  NoLane = NoLane
  Calls <- FourCalls
  Keys <- TwoModels
SPECIFICATION Spec
SYMMETRY Symmetry
INVARIANTS LanesOwned
PROPERTIES HandoffsInTurn
\* Every call returns, and then nothing is left to do.
CHECK_DEADLOCK FALSE
