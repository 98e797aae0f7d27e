CONSTANTS
  e1 = e1
  e2 = e2
  o1 = o1
  o2 = o2
  s1 = s1
  c1 = c1
  NoEpc = NoEpc
  NoAsset = NoAsset
  NoRequest = NoRequest
  Operators <- TwoOperators
  Slots <- OneSlot
  Cabinets <- OneCabinet
  Epcs <- TwoTags
  CustomCodes = {}
  MaxAssets = 1
  MaxCode = 1
  MaxRows = 3
SPECIFICATION DeskSpec
SYMMETRY Alike
INVARIANTS
  DeskTypeOK
  TagMeansOneThing
  LogTellsAsset
  LoansAlternate
