SPECIFICATION Spec
CONSTANTS
  PageSize = 2
  Word = 8
  LimitPages = 2
  DefaultMax = 4
  a1 = a1
  a2 = a2
  Address <- MCAddress
  Null = Null
  ElementSize = {1, 2}
  Offset <- MCOffset
  HeapOffset <- MCHeapOffset
  MaxDepth = 5
SYMMETRY MCSymmetry
INVARIANTS
  TypeOK
  MemoryAtHand
  OutsideOnlyBySwift
PROPERTY GrowTold
