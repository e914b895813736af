SPECIFICATION Spec
CONSTANTS
  Width = 5
  Mantissa = 3
  MaxDepth = 9
  MaxInline = 6
  HostTypes <- OneHostType
  HostSignatures <- NoSignatures
  HostFields <- OneField
INVARIANTS
  NumbersExact
  KeysAgree
  NothingLost
  TextFits
PROPERTIES
  ParsesBack
  AcceptedTemplatesAreTyped
  RefusedTemplatesFail
  ReuseIsUnseen
  LoweringIsUnseen
  ComposedAsWritten
  OrderingsAgree
CHECK_DEADLOCK FALSE
