SPECIFICATION Spec
CONSTANTS
  Args <- WideArgs
  Locals <- MCLocals
  Results <- MCResults
  Consts <- MCConsts
  ConstSlots = 1
  BlockTypes <- MCBlockTypes
  CallTypes <- MCCallTypes
  Operators <- MCOperators
  Conversions <- MCConversions
  Globals <- MCGlobals
  CondLabels <- MCCondLabels
  MaxConstantTableSize = 2
  MaxFunctionSlots = 10
  MaxStackHeight = 5
  MaxUsage = 3
  MaxDepth = 2
  MaxDead = 1
INVARIANT StillAllocated
CHECK_DEADLOCK FALSE
