SPECIFICATION CallsSpec
CONSTANTS
  Prog = {f, g}
  Custom = {c}
  Discard = {d}
  Labels = {0, 1}
  MaxDepth = 3
SYMMETRY ProgSymmetry
INVARIANTS
  ArgumentsOfThisCall
  ResultOfThisCall
  ContextsAgree
  ContextIsPath
