SPECIFICATION Spec
CONSTANTS
  Off = "off"
  Strategies = {"off"}
  MaxDepth = 3
  MaxOpen = 3
  MaxWrites = 1
INVARIANTS
  KeysDoNotCollide
CHECK_DEADLOCK FALSE
