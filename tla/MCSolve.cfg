SPECIFICATION Spec
CONSTANTS
  Offsets = {0, 1, 2}
  Bytes = {0, 1}
  Sites = {"a", "b", "c"}
  l = l
  Labels = {l}
  Contents = {0, 1}
  None = None
  Conds <- MCConds
  Val <- MCVal
  LocalMax = 2
  GepMax = 1
INVARIANTS SolutionFlips NestedFollowsPath NestedStaysLocal
CHECK_DEADLOCK FALSE
