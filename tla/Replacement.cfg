CONSTANTS
  Associativity = 4
  Tag = {t1, t2, t3, t4, t5}
  CPU <- MCCPU
  Private <- MCPrivate
  Common <- MCCommon
  Assoc <- MCAssoc
  InvalidateModified <- MCInvalidateModified
SPECIFICATION MCSpec
SYMMETRY Symmetry
INVARIANTS ReplacementFollowsUse ExclusionExact NewestKept CleanIncluded
