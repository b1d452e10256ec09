CONSTANTS
  VPNS = {0, 1, 2, 3, 4}
  walk <- MCWalk
  TLB_LINES = 3
  Garbage <- MCGarbage
  None = None
SPECIFICATION Spec
INVARIANTS TypeOK UniqueTags FreeLinesFirst
PROPERTIES LruSpec FlatSpec
