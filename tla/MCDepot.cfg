SPECIFICATION FairSpec
CONSTANTS
  b1 = b1
  b2 = b2
  b3 = b3
  b4 = b4
  Bufs = {b1, b2, b3}
  NoBuf = NoBuf
  Size <- MCSize
  Savers = {s1, s2}
  Takers = {t1, t2}
  Kinds = {"Normal"}
  MaxInputs = 3
  Seeds <- NoSeeds
  Restart = TRUE
  FirstId = 0
INVARIANTS NoHole ExclusiveTake ProgressBehind
PROPERTIES EventuallyScanned ImplementsQueue
