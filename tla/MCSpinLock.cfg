SPECIFICATION Spec
CONSTANTS
  CPU = {c1, c2}
  Thread = {t1, t2}
  Outer = {wait_lock}
  Order <- Nesting
  NoCpu = NoCpu
  NoLock = NoLock
SYMMETRY Symmetry
INVARIANTS LocksSafe InterruptsRight
