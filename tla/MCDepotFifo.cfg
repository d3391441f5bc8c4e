SPECIFICATION Spec
CONSTANTS
  b1 = b1
  b2 = b2
  b3 = b3
  b4 = b4
  Bufs = {b1, b2, b3, b4}
  NoBuf = NoBuf
  Size <- MCSize
  Savers = {s1, s2}
  Takers = {t1}
  Kinds = {"Normal"}
  MaxInputs = 4
  Seeds <- OneSeed
  Restart = FALSE
  FirstId = 0
INVARIANT NothingLost
