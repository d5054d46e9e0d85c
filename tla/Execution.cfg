SPECIFICATION Spec
CONSTANTS
  s = s
  a = a
  b = b
  p = p
  Func <- MCFunc
  Import = {p}
  Body <- MCBody
  Malformed = {}
  Elements = {b, p}
  Start = s
  First = p
  NoFunc = NoFunc
  AllocFails = TRUE
  MaxDepth = 8
  Byte = 1
  Width = 3
  Single = 2
  Double = 5
INVARIANTS
  TypeOK
  EntriesHaveCode
  StartFirst
  StartOnce
  BaseRestored
  WildOnlyAfterFailure
  OperatorsHold
