SPECIFICATION Spec
CONSTANTS
  PD_ENTRIES = 2
  PAGE_SIZE = 8
  PHY_PAGES = 8
  DESCRIPTIONS <- MCDescriptions
  DUMPS <- MCDumps
  VADDRS <- MCVaddrs
  LINE_SIZE = 4
  None = None
INVARIANTS TypeOK  DataPlaced ReadInside DumpWhole
CHECK_DEADLOCK FALSE
