SPECIFICATION Spec
CONSTANTS
  N = 2
  Base = 2
  Seeds <- MCSeeds
  Consts = {1}
  Cells = 2
  Sizes = {1, 2}
  MaxSteps = 6
INVARIANTS TypeOK Interned LabelsRight
PROPERTY RoundTrip
CHECK_DEADLOCK FALSE
