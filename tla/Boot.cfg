CONSTANTS
  SegBlocks = 40
  LastSector = 18
  TrackSectors = 18
  SplitTlb = TRUE
  MaxErrors = 3
SPECIFICATION Spec
INVARIANTS RunsItself SystemAsOnDisk ScreenMapped
PROPERTY Boots
CHECK_DEADLOCK FALSE
