SPECIFICATION Spec
CONSTANTS
  Off = "off"
  Strategies = {"off", "html"}
  MaxDepth = 3
  MaxOpen = 3
  MaxWrites = 3
INVARIANTS
  LinesIndentedOnce
  EscapedExactlyOnce
  CallerOnlyInItsMacro
  SandboxWhileOpen
PROPERTIES
  RegistersReturn
CHECK_DEADLOCK FALSE
