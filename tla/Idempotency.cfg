CONSTANTS
  Keys = {k1, k2}
  Bodies = {b1, b2}
  Calls = {c1, c2, c3, c4}
  None = None
SYMMETRY Symmetry
SPECIFICATION Spec
INVARIANTS
  OneOwner
  AnsweredOnceAndRecorded
PROPERTIES
  OnlyItsOwnerFreesAKey
  KeepsLease
CHECK_DEADLOCK FALSE
