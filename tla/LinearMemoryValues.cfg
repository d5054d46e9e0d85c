SPECIFICATION Spec
CONSTANTS
  PageSize = 2
  Word = 8
  LimitPages = 3
  DefaultMax = 4
  a1 = a1
  a2 = a2
  Address <- MCAddress
  Null = Null
  ElementSize = {1, 2}
  Offset <- MCOffset
  HeapOffset <- MCOffset
  MaxDepth = 3
INVARIANT InBounds
