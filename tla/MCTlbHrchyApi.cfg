CONSTANTS
  VPNS = {0, 2, 8, 10}
  PPNS <- MCPpns
  walk <- MCWalk
  L1_LINES = 2
  L2_LINES = 8
  TAG_1_MOD = 6
  TAG_2_MOD = 2
  Garbage1 <- MCApiGarbage
  Garbage2 <- MCApiGarbage
  None = None
SPECIFICATION ApiSpec
INVARIANTS Coherence AnswerCorrect
PROPERTY MissClearsAliases
