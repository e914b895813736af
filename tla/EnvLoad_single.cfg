SPECIFICATION Spec
CONSTANTS
  page = page
  base = base
  lib = lib
  part = part
  extra = extra
  v1 = v1
  v2 = v2
  g1 = g1
  g2 = g2
  None = None
  Goroutines <- OneGoroutine
  Names <- AllNames
  Page = page
  Parent <- ExtendsBase
  Import <- ImportsLib
  Include <- IncludesPart
  Optional <- WantsExtra
  Absent <- WithoutExtra
  Members <- UnitOfAll
  UnitText <- CompiledFromFirst
  Texts <- TwoTexts
  MaxEdits = 2
  MaxRenders = 3
  Outages = FALSE
PROPERTIES
  CompiledServesWalk
CHECK_DEADLOCK FALSE
