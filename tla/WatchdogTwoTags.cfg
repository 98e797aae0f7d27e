CONSTANTS
  e1 = e1
  e2 = e2
  Epcs <- TwoTags
  AppearCount = 2
  DisappearCount = 3
  Grace = 2
  TickEvery = 2
  MaxAge = 7
SPECIFICATION FairSpec
INVARIANTS
  DisappearOnlyAfterSilence
PROPERTIES
  AbsenceIsNoticed
  PresenceIsNoticed
