SPECIFICATION Spec
CONSTANTS
  s = s
  a = a
  b = b
  p = p
  Func <- MCFunc
  Import = {p}
  Body <- MCBody
  Malformed = {}
  Elements = {b, p}
  Start = NoFunc
  First = p
  NoFunc = NoFunc
  AllocFails = FALSE
  MaxDepth = 5
  Byte = 1
  Width = 3
  Single = 2
  Double = 5
INVARIANTS
  NoWildCall
