SPECIFICATION Spec
CONSTANTS
  p1 = p1
  p2 = p2
  f1 = f1
  f2 = f2
  f3 = f3
  i1 = i1
  i2 = i2
  NoProc = NoProc
  Proc = {p1, p2}
  File = {f1, f2, f3}
  Inode = {i1, i2}
  ip <- Inodes
  NBLOCKS = 4
  BPB = 1
  BSIZE = 2
  NDIRECT = 1
  MAXOPBLOCKS = 6
  Amount = {1, 3}
  MaxCalls = 4
SYMMETRY Symmetry
INVARIANTS BlocksExact ContentExact OffsetExact TransactionFits
CHECK_DEADLOCK FALSE
