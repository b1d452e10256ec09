SPECIFICATION EmuSpec
CONSTANTS
  LINES <- MCLines
  WAYS <- MCWays
  WORDS_PER_LINE = 2
  BLOCKS = 16
  ADDRS <- MCAddrs
  ACCESSES = {"INSTRUCTION", "DATA"}
  CACHES = {}
  BYTES <- MCBytes
  WORDS <- MCWords
  MEMORIES <- MCMemories
  Garbage <- MCGarbage
  None = None
  PD_ENTRIES = 2
  PAGE_SIZE = 16
  PHY_PAGES = 16
  COMMANDS <- MCCommands
INVARIANT ReadAnswers
CHECK_DEADLOCK FALSE
