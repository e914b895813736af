SPECIFICATION Spec
CONSTANTS
  a = a
  b = b
  k = k
  m = m
  s = s
  g = g
  h = h
  f1 = f1
  f2 = f2
  Absent = Absent
  MaxRenders = 1
  Names <- TwoNames
  Keys <- OneKey
  Scalars <- OneScalar
  Arrays <- NestedHeap
  MaxDepth = 1
  MaxHops = 1
  HostSlots <- NestedArgument
  HostVars <- ArgumentVars
  AliasStores = TRUE
  KeyEffects = FALSE
INVARIANTS
  HostUntouched
CHECK_DEADLOCK FALSE
