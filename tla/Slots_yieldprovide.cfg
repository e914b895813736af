SPECIFICATION Spec
CONSTANTS
  Labels <- TwoLabels
  CacheKeys <- OneKey
  Templates <- MCTemplates
  MaxRenders = 2
  None = None
  A = A
  B = B
  K = K
  MaxOps = 4
  YieldInProvide = TRUE
  SlotInCache = FALSE
INVARIANTS
  NoRawPlaceholder
CHECK_DEADLOCK FALSE
