CONSTANTS
  MaxWidth = 3
  MaxHeight = 2
  MaxRegions = 2
  MaxRects = 3
SPECIFICATION Spec
INVARIANT HostMirrors
CHECK_DEADLOCK FALSE
