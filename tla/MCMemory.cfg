SPECIFICATION Spec
CONSTANTS
  p0 = p0
  p1 = p1
  Proc = {p0, p1}
  initproc = p0
  NPAGES = 17
  PGSIZE = 2
  NPTE = 3
  ADDRS = 64
  Delta <- Deltas
  Phdr <- Headers
  MaxPhnum = 2
  MAXARG = 2
INVARIANTS PagesExact MappedExactly
PROPERTIES ForkCopies ExecImage
