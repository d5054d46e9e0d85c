SPECIFICATION FairSpec
CONSTANTS
  t1 = t1
  t2 = t2
  i1 = i1
  i2 = i2
  n1 = n1
  c1 = c1
  h1 = h1
  h2 = h2
  Thread <- MCThread
  Interp <- MCInterp
  Name <- MCName
  Context = {c1}
  ContextOf <- MCContextOf
  Handler = {h1, h2}
  NoThread = NoThread
  NoName = NoName
  NoHandler = NoHandler
  Users <- MCUsers
  Imports <- MCImports
  MaxDepth = 3
  MaxId = 2
INVARIANTS
  TypeOK
  RelockOnlyInStart
PROPERTIES
  BlocksMatch
  HandlerKept
  ImplementsRegistry
  LockReleased

