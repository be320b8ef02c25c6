\* The instance of MCEnvironment.cfg, for the comment of scheme_set_var.
CONSTANTS
  x = x
  y = y
  u = u
  v = v
  Vars <- MCVars
  Vals <- MCVals
  Wild = Wild
  Void = Void
  Junk = Junk
  NoVar = NoVar
  b1 = b1
  b2 = b2
  b3 = b3
  Blocks <- MCBlocks
  Slots = 1
  GlobalSlots = 1
  MaxFrames = 2
  ParamLists <- MCParamLists
  ArgLists <- MCArgLists
SYMMETRY BlockSymmetry
SPECIFICATION Spec
PROPERTIES
  VoidMeansUnbound
CHECK_DEADLOCK FALSE
