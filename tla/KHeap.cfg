\* Three pages of 3 units: callers ask for blocks that leave rests of 1 and 0 units of
\* a page, and for one that fits no page but two that kfree has joined.
CONSTANTS
  PageUnits = 3
  MaxPages = 3
  Sizes = {2, 3, 4}
SPECIFICATION Spec
INVARIANTS
  TypeOK
  BlocksTile
  ListSorted
PROPERTIES
  NullOnlyWhenFull
  ImplementsAllocator
  CallsReturn
CHECK_DEADLOCK FALSE
