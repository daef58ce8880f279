SPECIFICATION Spec
CONSTANTS
  Reader = {r1, r2}
  Writer = {w1}
  Byte = {0, 1}
  PIPESIZE = 2
  Laps = 2
  ReadLen = {1, 2}
  WriteLen = {0, 4}
  MaxOps = 1
  None = None
INVARIANT CallsSafe
PROPERTIES EofAtEnd CallsReturn ImplementsChannel
CHECK_DEADLOCK FALSE
