CONSTANTS
  NODES = {n1, n2, n3, n4}
  VALUES = {0, 1}
  NULL = NULL
  Wild = Wild
  Idle = Idle
SPECIFICATION FairSpec
INVARIANT Linked
PROPERTIES NodesStay ClearEmpties ClearEnds SequenceSpec
CHECK_DEADLOCK FALSE
