SPECIFICATION Spec
CONSTANTS
  a1 = a1
  a2 = a2
  a3 = a3
  a4 = a4
  a5 = a5
  s1 = s1
  s2 = s2
  s3 = s3
  m1 = m1
  m2 = m2
  Address <- MCAddress
  Simple <- MCSimple
  Structure <- MCStructure
  Module <- MCModule
  Unused = Unused
  NoAddress = NoAddress
  MaxTypes = 3
  MaxArgs = 2
  MaxSaneTypes = 4
  SignatureChar = {"v", "i", "I", "(", ")", " ", "?"}
  MaxLength = 5
SYMMETRY MCSymmetry
INVARIANTS
  TypeOK
  PointerEquivalence
  TypesKept
  SignaturesHold
PROPERTY ImplementsTable
