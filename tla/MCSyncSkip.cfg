SPECIFICATION Spec
CONSTANTS
  Nodes = {main}
  NoNode = NoNode
  MaxFiles = 3
  Period = 2
INVARIANT SeedsSynced
CHECK_DEADLOCK FALSE
