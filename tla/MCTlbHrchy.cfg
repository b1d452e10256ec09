CONSTANTS
  VPNS = {0, 1, 2, 8, 10, 16}
  PPNS <- MCPpns
  walk <- MCWalk
  L1_LINES = 2
  L2_LINES = 8
  TAG_1_MOD = 9
  TAG_2_MOD = 3
  Garbage1 <- MCGarbage
  Garbage2 <- MCGarbage
  None = None
SPECIFICATION Spec
INVARIANTS TypeOK Inclusion
PROPERTY FlatSpec
