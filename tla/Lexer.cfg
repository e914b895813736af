SPECIFICATION Spec
CONSTANTS
  MaxPieces = 4
  Inputs <- Templates
INVARIANTS
  DoorsStartLines
  EveryByteOnce
PROPERTIES
  ScanEnds
CHECK_DEADLOCK FALSE
