CONSTANTS
  s1 = s1
  c1 = c1
  e1 = e1
  NoEpc = NoEpc
  Slots <- OneSlot
  Cabinets <- OneCabinet
  CabinetOf <- InC1
  Epcs <- OneTag
  ForeignEpcs = {}
  PatchStatuses = {}
  PatchEpcs = {}
  MaxQty = 2
  MaxConsumed = 1
  MaxOps = 4
  MaxTxns = 3
SPECIFICATION LedgerSpec
INVARIANTS
  ReturnsNeverExceedTakeOuts
