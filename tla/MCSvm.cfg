CONSTANTS
  Programs <- MCPrograms
  Data <- MCData
  StackSize = 3
  Conts = 4
  IntBits = 4
SPECIFICATION Spec
INVARIANTS TypeOK StackWithin LabelsUnique RightValue
PROPERTY Ends
CHECK_DEADLOCK FALSE
