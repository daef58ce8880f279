SPECIFICATION Spec
CONSTANTS
  p1 = p1
  p2 = p2
  b1 = b1
  b2 = b2
  b3 = b3
  b4 = b4
  Proc = {p1, p2}
  Block = {b1, b2, b3, b4}
  Value = {0, 1}
  Torn = Torn
  NoBuf = NoBuf
  MAXOPBLOCKS = 2
  LOGSIZE = 5
  LogBlocks = 5
  OpBlocks = 1
SYMMETRY Symmetry
INVARIANTS ReadsLatest QuiescentIsDurable NoPanic NoLostWakeup
PROPERTY ImplementsStore
