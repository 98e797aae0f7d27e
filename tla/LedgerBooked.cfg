CONSTANTS
  s1 = s1
  c1 = c1
  e1 = e1
  NoEpc = NoEpc
  Slots <- OneSlot
  Cabinets <- OneCabinet
  CabinetOf <- InC1
  Epcs <- OneTag
  ForeignEpcs = {}
  PatchStatuses <- EditorStatuses
  PatchEpcs <- EditorEpcs
  MaxQty = 1
  MaxConsumed = 2
  MaxOps = 3
  MaxTxns = 3
SPECIFICATION LedgerSpec
INVARIANTS
  LedgerTypeOK
  AnswersAreBooked
  AuditTrail
  PendingIsAnswerable
