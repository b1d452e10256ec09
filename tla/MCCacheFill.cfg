SPECIFICATION FillSpec
CONSTANTS
  LINES <- MCLines
  WAYS <- MCWays
  WORDS_PER_LINE = 2
  BLOCKS = 17
  ADDRS = {0, 128}
  ACCESSES = {"DATA"}
  CACHES = {"L1_DCACHE"}
  BYTES = {}
  WORDS <- MCWords
  MEMORIES <- MCMemories
  Garbage <- MCGarbage
  None = None
INVARIANTS HitCoherent PresentFound
PROPERTY OneYounger
CHECK_DEADLOCK FALSE
