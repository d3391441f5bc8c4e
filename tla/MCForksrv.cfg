SPECIFICATION FairSpec
CONSTANTS
  MaxGen = 2
  MaxRun = 2
  MaxFaults = 1
  PipeCap = 2
  Inherit = TRUE
INVARIANTS TraceIsOwn StatusIsOwn DeadServerNoticed
PROPERTIES ServerEnds RunReturns
CHECK_DEADLOCK FALSE
