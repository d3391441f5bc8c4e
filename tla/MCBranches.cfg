SPECIFICATION Spec
CONSTANTS
  Executors = {e1, e2}
  Edges = {1, 2}
  Counts = {1, 5}
  Statuses = {"Normal", "Error"}
INVARIANTS SeenWasFound
PROPERTIES EdgeStaysTouched Settles
