CONSTANTS
  s1 = s1
  c1 = c1
  e1 = e1
  anna = anna
  bela = bela
  NoEpc = NoEpc
  Slots <- OneSlot
  Cabinets <- OneCabinet
  CabinetOf <- InC1
  Epcs <- OneTag
  TagOf <- Tags
  ForeignEpcs = {}
  PatchStatuses = {}
  PatchEpcs = {}
  MaxQty = 2
  MaxConsumed = 1
  MaxOps = 3
  StartQty = 1
  Operators <- TwoOperators
  Answers <- AnswersOnly
SPECIFICATION SesSpec
PROPERTIES
  AnsweredOnce
