\* Two variables, two frames, a block more than there are frames; every new
\* binding past the first of the global frame makes a frame grow.
CONSTANTS
  x = x
  y = y
  u = u
  v = v
  Vars <- MCVars
  Vals <- MCVals
  Wild = Wild
  Void = Void
  Junk = Junk
  NoVar = NoVar
  b1 = b1
  b2 = b2
  b3 = b3
  Blocks <- MCBlocks
  Slots = 1
  GlobalSlots = 1
  MaxFrames = 2
  ParamLists <- MCParamLists
  ArgLists <- MCArgLists
SYMMETRY BlockSymmetry
SPECIFICATION Spec
INVARIANTS
  TypeOK
  SlotsFit
  BlocksHeld
PROPERTIES
  DefinedIsFound
  ImplementsScopes
CHECK_DEADLOCK FALSE
