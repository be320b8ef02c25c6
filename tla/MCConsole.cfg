\* A screen of three lines of two cells, one hidden cell, two characters.
CONSTANTS
  Cols = 2
  Lines = 3
  PageCells = 7
  Chars = {"a", "b"}
  Blank = " "
SPECIFICATION Spec
INVARIANTS
  PointerAtCursor
PROPERTIES
  ImplementsTerminal
