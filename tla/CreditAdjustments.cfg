CONSTANTS
  Adjustments = {a1, a2}
  Staff = {alice, bob}
  Approvers = {alice, bob}
  NoOne = NoOne
  Amounts = {1, 2}
  Threshold = 1
  Keys = {k1, k2}
  NoKey = NoKey
  Requests = {r1, r2}
  NoAdjustment = NoAdjustment
SYMMETRY Symmetry
SPECIFICATION Spec
INVARIANTS
  MovesAtMostOnce
  LargeNeedsSecondPerson
  MovesAreAudited
  AppliedHasMoved
PROPERTIES
  RejectionIsFinal
  KeepsPromise
