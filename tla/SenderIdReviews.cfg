CONSTANTS
  Items = {i1}
  Decisions = {d1}
  Workers = {w1, w2}
  MaxFilings = 2
SPECIFICATION FairSpec
INVARIANTS
  ApprovalsRestOnThisFiling
PROPERTIES
  ReviewCatchesUp
