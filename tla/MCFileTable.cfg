SPECIFICATION Spec
CONSTANTS
  Proc = {p1, p2}
  Page = {g1, g2}
  NFILE = 3
  NOFILE = 2
  initproc = p1
  NoProc = NoProc
  NoPage = NoPage
SYMMETRY Symmetry
INVARIANTS FilesExact ObjectsExact
