CONSTANTS
  CPU <- MCCPU2
  Addr = {a1, a2, a3}
  NULL_IDX = NULL_IDX
  L1Ways <- MCL1Ways
  L2Ways <- MCL2Ways
  HomeWays = 1
  ExclusiveHome = FALSE
  Debug = FALSE
SPECIFICATION Spec
SYMMETRY Symmetry
INVARIANTS OtherAssertsHold DirtyDataHeld
