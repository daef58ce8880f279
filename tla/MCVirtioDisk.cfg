SPECIFICATION Spec
CONSTANTS
  Proc = {p1, p2, p3, p4}
  NUM = 8
  Laps = 2
  Intr = Intr
  None = None
INVARIANTS RequestsExact NoLostWakeup
SYMMETRY Symmetry
