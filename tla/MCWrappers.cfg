SPECIFICATION Spec
CONSTANTS
  N = 2
  MaxFd = 1
  b1 = b1
  b2 = b2
  Blocks <- MCBlocks
  L = 3
  SizeLimit = 3
  MaxCalls = 3
INVARIANTS Followed UtmpFollowed LabelsFollowBytes CompareDecides
SYMMETRY MCSymmetry
CHECK_DEADLOCK FALSE
