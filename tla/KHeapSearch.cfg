\* The comment of lib/malloc.c:128: two pages of 4 units.
CONSTANTS
  PageUnits = 4
  MaxPages = 2
  Sizes = {2, 3, 5}
SPECIFICATION Spec
PROPERTIES
  SearchReturns
CHECK_DEADLOCK FALSE
