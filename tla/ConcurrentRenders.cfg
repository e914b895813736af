SPECIFICATION Spec
CONSTANTS
  w1 = w1
  w2 = w2
  Workers <- TwoWorkers
  Shared = "shared"
  Collectors <- AllCollectors
  Templates <- MCTemplates
  Nodes <- MCNodes
  Kind <- MCKind
  Body <- MCBody
  Chain <- MCChain
  Partial = "lib"
  Embedded = "card"
  TraitBlocks <- MCTraitBlocks
  NoKey = "none"
  CacheKeys = {"k"}
  Tags = {"s", "t"}
  MaxRenders = 1
  MaxHits = 2
  MaxHost = 1
  MaxNest = 3
SYMMETRY WorkerSymmetry
INVARIANTS
  EnteredIsMeasured
  SourcesAreThere
  MergedIsShared
  InvalidatedIsGone
PROPERTIES
  CountersGrow
CHECK_DEADLOCK FALSE
