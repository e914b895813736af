SPECIFICATION Spec
CONSTANTS
  Labels <- TwoLabels
  CacheKeys <- OneKey
  Templates <- MCTemplates
  MaxRenders = 2
  None = None
  A = A
  B = B
  K = K
  MaxOps = 6
  YieldInProvide = FALSE
  SlotInCache = FALSE
SYMMETRY LabelSymmetry
INVARIANTS
  NoRawPlaceholder
  PrintsReference
  PartialPrints
PROPERTIES
  InteractionNotStored
CHECK_DEADLOCK FALSE
