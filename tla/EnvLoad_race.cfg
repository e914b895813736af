SPECIFICATION Spec
CONSTANTS
  page = page
  base = base
  lib = lib
  part = part
  extra = extra
  v1 = v1
  v2 = v2
  g1 = g1
  g2 = g2
  None = None
  Goroutines <- TwoGoroutines
  Names <- PageLib
  Page = page
  Parent <- ExtendsLib
  Import <- ImportsLib
  Include <- NoHead
  Optional <- NoHead
  Absent <- NothingAbsent
  Members <- UnitOfPageLib
  UnitText <- CompiledFromFirst
  Texts <- TwoTexts
  MaxEdits = 1
  MaxRenders = 1
  Outages = TRUE
INVARIANTS
  LoadedFromItsModule
  VerdictSound
  CompositionFollowsHeads
PROPERTIES
  EveryRenderEnds
CHECK_DEADLOCK FALSE
