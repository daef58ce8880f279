SPECIFICATION Spec
CONSTANTS
  Proc = {p1, p2}
  NInodes = 4
  Name = {"a", "b"}
  Setups <- TwoSetups
  NINODE = 3
  MaxLink = 2
  NoProc = NoProc
SYMMETRY Symmetry
INVARIANTS TableExact CacheCoherent NoDangling
