CONSTANTS
  s1 = s1
  s2 = s2
  c1 = c1
  e1 = e1
  e2 = e2
  NoEpc = NoEpc
  Slots <- TwoSlots
  Cabinets <- OneCabinet
  CabinetOf <- InC1
  Epcs <- TwoTags
  ForeignEpcs = {}
  PatchStatuses <- NoPatch
  PatchEpcs <- NoPatch
  MaxQty = 2
  MaxConsumed = 2
  MaxOps = 3
SPECIFICATION Spec
SYMMETRY SlotsAndTagsAlike
INVARIANTS
  TypeOK
  PendingMatchesSlot
  CabinetAlertIsCurrent
PROPERTIES
  BackInStockOnlyByReturn
  ImplementsCustody
