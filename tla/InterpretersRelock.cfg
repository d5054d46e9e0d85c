SPECIFICATION Spec
CONSTANTS
  t1 = t1
  t2 = t2
  i1 = i1
  i2 = i2
  n1 = n1
  c1 = c1
  h1 = h1
  h2 = h2
  Thread <- OneThread
  Interp <- OneInterp
  Name <- MCName
  Context = {c1}
  ContextOf <- MCContextOf
  Handler = {h1}
  NoThread = NoThread
  NoName = NoName
  NoHandler = NoHandler
  Users <- OneUsers
  Imports <- RelockImports
  MaxDepth = 3
  MaxId = 2
INVARIANT NoRelock
