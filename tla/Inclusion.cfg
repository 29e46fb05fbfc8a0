CONSTANTS
  Associativity = 1
  Tag = {t1}
  CPU <- MCCPU
  Private <- MCPrivate
  Common <- MCCommon
  Assoc <- MCAssoc
  InvalidateModified <- MCInvalidateModified
SPECIFICATION MCSpec
INVARIANT InclusionKept
