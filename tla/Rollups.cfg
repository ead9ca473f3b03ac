CONSTANTS
  Buckets = {b1, b2}
  Main = b1
  Runs = {r1, r2, r3}
  MaxFigure = 1
  MaxChanges = 3
SYMMETRY Symmetry
SPECIFICATION RollSpec
INVARIANTS
  SettledIsRight
PROPERTIES
  AloneReplacesTheDay
  DestinationSweepsKeep
  ChecksAreTrue
CHECK_DEADLOCK FALSE
