SPECIFICATION Spec
CONSTANTS
  INIT_ALLOCATED = 2
  SHRINK_MIN = 2
  ADDR_DIGITS = 3
  WORD_DIGITS = 3
  MAX_LINES = 4
  PD_ENTRIES = 2
  PAGE_SIZE = 16
  PHY_PAGES = 8
  COMMANDS <- MCCommands
  FILES <- MCFiles
  Unset = Unset
  None = None
INVARIANTS TypeOK ListingHolds CommandsKept LegalCommands UndefinedOnly RoundTrip
CHECK_DEADLOCK FALSE
