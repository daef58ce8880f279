SPECIFICATION Spec
CONSTANTS
  User = {u1, u2, u3}
  Block = {k1, k2, k3, k4}
  NBUF = 2
  Value = {0, 1}
  NoBlock = NoBlock
  NoUser = NoUser
  MaxPins = 1
SYMMETRY Symmetry
INVARIANTS BuffersExact ReadsLatest NoLostWakeup
