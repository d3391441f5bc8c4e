SPECIFICATION FilterFairSpec
CONSTANTS
  Solvers = {j1, j2}
  Pcs = {1}
  Width = 2
  MaxBranches = 3
PROPERTIES TurnedDownWasTried MapsSettle
