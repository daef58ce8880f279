SPECIFICATION Spec
CONSTANTS
  MAXARGS = 3
  NPROC = 7
  NOFILE = 6
  Lines <- TwoLines
  MaxFaults = 1
INVARIANTS ParsesTheLine DescriptorsExact PromptAfterForeground
PROPERTY PromptReturns
CHECK_DEADLOCK FALSE
