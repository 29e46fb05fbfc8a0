CONSTANTS
  CPU <- MCCPU3
  Addr = {a1, a2, a3}
  NULL_IDX = NULL_IDX
  L1Ways <- MCL1Ways
  L2Ways <- MCL2Ways
  HomeWays = 1
  ExclusiveHome = TRUE
  Debug = TRUE
SPECIFICATION Spec
SYMMETRY Symmetry
INVARIANTS TypeOK SingleWriter HomeDirectoryExact L2DirectoryExact AssertsHold
PROPERTY LossJustified
