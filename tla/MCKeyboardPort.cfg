\* A buffer of three characters, so that lines fit, fill it and exceed it,
\* and what an earlier line left is longer than the next.
CONSTANTS
  a = a
  A = A
  b = b
  letter = letter
  other = other
  dead = dead
  enter = enter
  NUL = NUL
  CR = CR
  NL = NL
  Keys <- MCKeys
  Chars <- MCChars
  KeyMap <- MCKeyMap
  ShiftMap <- MCShiftMap
  Size = 3
  Overrun = 1
SPECIFICATION Spec
INVARIANTS
  TypeOK
PROPERTIES
  ImplementsLineInput
