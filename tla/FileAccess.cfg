CONSTANTS
  Exports = {e1}
  Fetches = {f1}
  Workers = {w1, w2}
  JobTries = 3
  None = None
SPECIFICATION Spec
INVARIANTS
  HandedOverInOrder
PROPERTIES
  PromisedExportsEnd
CHECK_DEADLOCK FALSE
