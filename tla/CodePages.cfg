SPECIFICATION Spec
CONSTANTS
  p1 = p1
  p2 = p2
  p3 = p3
  f1 = f1
  i1 = i1
  Page <- MCPage
  Func <- MCFunc
  Import <- MCImport
  NoPage = NoPage
  NoPc = NoPc
  NoFunc = NoFunc
  AlignLines = 8
  HeaderLines = 1
  Threshold = 4
  Operands = {2}
  Targets = {3}
  MaxNesting = 1
SYMMETRY PageSymmetry
INVARIANTS
  TypeOK
  PagesUnshared
  PagesCounted
  CompiledCodeKept
  RoomForBridge
PROPERTY OnlyThrowLosesPages
CHECK_DEADLOCK FALSE
