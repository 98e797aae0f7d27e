CONSTANTS
  e1 = e1
  x1 = x1
  NoTag = NoTag
  Epcs <- OneTag
  Others <- Passing
  AppearCount = 2
  DisappearCount = 2
  Grace = 1
  TickEvery = 1
  MaxAge = 3
  MaxReads = 1
  MaxDelay = 2
  MaxQty = 1
  MaxConsumed = 1
  Faults <- AllFaults
  MaxRestarts = 2
SPECIFICATION FairFlowSpec
INVARIANTS
  FlowTypeOK
  SlotFollowsTag
  EarlyOnlyWhileHeldUp
PROPERTIES
  AbsenceReachesSlot
  PresenceReachesSlot
