SPECIFICATION Spec
CONSTANTS
  p1 = p1
  p2 = p2
  p3 = p3
  a = a
  b = b
  Str <- MCStr
  Null = Null
  Text <- MCText
  MaxNames = 2
  SectionBytes = {0, 1, 2, 3, 6, 7, 8, 10, 11, 13}
  MaxEntries = 2
  MaxFunctions = 2
  MaxGlobals = 1
  MaxCustom = 1
  Group = 2
  Word = 5
  Half = 3
  MaxBytes = 4
SYMMETRY MCSymmetry
INVARIANTS
  TypeOK
  StringsOwned
  ImportsFirst
  ExportsFound
  CrashOnlyShort
  NumbersHold
PROPERTY SectionsInOrder
