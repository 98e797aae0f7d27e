CONSTANTS
  o1 = o1
  o2 = o2
  s1 = s1
  s2 = s2
  NoBom = NoBom
  NoImport = NoImport
  Operators <- TwoOperators
  Slots <- TwoSlots
  Files <- FourFiles
  Key <- Upper
  Numerals <- Digits
  Value <- DigitValue
  MaxParts = 3
  MaxQty = 1
  MaxKits = 2
SPECIFICATION BomSpec
SYMMETRY Alike
INVARIANTS
  BomTypeOK
  SavedAsWritten
  VerdictsTellPicking
