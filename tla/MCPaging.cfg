\* Page tables of 4 entries; the heap and the stack share no table at first
\* and meet in one, the slots run over two. Ten frames of memory, so that the
\* frames run out in some behaviours and the regions meet in others.
CONSTANTS
  PtEntries = 4
  BitmapBits = 14
  PageFrames = 10
  TextEnd = 4
  HeapStart = 8
  StackStart = 15
  SlotsStart = 20
  SlotsEnd = 25

SPECIFICATION Spec
INVARIANTS
  TypeOK
  RegionsApart
  FramesApart
  FramesAccounted
  MappedIsOwned
PROPERTIES
  ImplementsAddressSpace
