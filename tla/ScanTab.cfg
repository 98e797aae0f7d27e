CONSTANTS
  a1 = a1
  a2 = a2
  NoOne = NoOne
  Assets <- TwoAssets
  Pages <- BothPages
  MaxSent = 2
  MaxReads = 3
SPECIFICATION TabSpec
INVARIANTS
  TabTypeOK
  ReplacedAtMostOnce
  TakeOutNamesItsAsset
  SilentOnlyWhileAsking
PROPERTIES
  NoOldRowIsTaken
  FallbackTakesTheRead
