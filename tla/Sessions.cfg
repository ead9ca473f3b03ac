CONSTANTS
  Sessions = {s1}
  Requests = {r1, r2, r3, r4}
  Instances = {i1}
  MaxEpoch = 1
  None = None
SYMMETRY Symmetry
SPECIFICATION Spec
INVARIANTS
  OutdatedIsShutOut
  SecondFactorFirst
PROPERTIES
  SecondFactorStays
CHECK_DEADLOCK FALSE
