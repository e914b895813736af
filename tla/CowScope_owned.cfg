SPECIFICATION Spec
CONSTANTS
  a = a
  b = b
  k = k
  m = m
  s = s
  g = g
  h = h
  f1 = f1
  f2 = f2
  Absent = Absent
  MaxRenders = 2
  Names <- TwoNames
  Keys <- OneKey
  Scalars <- OneScalar
  Arrays <- NestedHeap
  MaxDepth = 2
  MaxHops = 2
  HostSlots <- NestedArgument
  HostVars <- ArgumentVars
  AliasStores = FALSE
  KeyEffects = FALSE
INVARIANTS
  TypeOK
  FrameAliasShared
  HostUntouched
  UnsharedUnique
  OwnedInPlace
PROPERTIES
  WriteReachesNoAlias
CHECK_DEADLOCK FALSE
