CONSTANTS
  VPNS = {0, 1, 2, 3}
  walk <- MCWalk
  TLB_LINES = 3
  Garbage <- MCGarbage
  None = None
SPECIFICATION ApiSpec
INVARIANTS AllLinesListed AnswerCorrect
