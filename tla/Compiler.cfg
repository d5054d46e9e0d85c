SPECIFICATION Spec
CONSTANTS
  Args <- MCArgs
  Locals <- MCLocals
  Results <- MCResults
  Consts <- MCConsts
  ConstSlots = 1
  BlockTypes <- MCBlockTypes
  CallTypes <- MCCallTypes
  Operators <- MCOperators
  Conversions <- MCConversions
  Globals <- MCGlobals
  CondLabels <- MCCondLabels
  MaxConstantTableSize = 2
  MaxFunctionSlots = 9
  MaxStackHeight = 4
  MaxUsage = 3
  MaxDepth = 2
  MaxDead = 1
INVARIANTS TypeOK ValuesRight UsageCounted RegistersHeld BlocksStartInSlots
CHECK_DEADLOCK FALSE
