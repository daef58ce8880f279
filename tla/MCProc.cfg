SPECIFICATION Spec
CONSTANTS
  c1 = c1
  c2 = c2
  NPROC = 3
  CPU = {c1, c2}
  MaxPid = 3
  KillPids = {0, 2}
  Masks = {1}
  Tracers = {3}
SYMMETRY Symmetry
INVARIANTS StacksSafe NoMissedZombie FamilyTree
PROPERTY LegalTransitions
