SPECIFICATION Spec
CONSTANTS
  a = a
  b = b
  k = k
  m = m
  s = s
  g = g
  h = h
  f1 = f1
  f2 = f2
  Absent = Absent
  MaxRenders = 1
  Names <- TwoNames
  Keys <- TwoKeys
  Scalars <- OneScalar
  Arrays <- PairHeap
  MaxDepth = 2
  MaxHops = 1
  HostSlots <- PairArgument
  HostVars <- ArgumentVars
  AliasStores = FALSE
  KeyEffects = FALSE
PROPERTIES
  ValueSemantics
CHECK_DEADLOCK FALSE
