CONSTANTS
  Accounts = {a1, a2}
  Threshold = 1
  BatchSize = 2
  Retries = {t1}
  Workers = {w1}
  Calls = {c1}
  MaxFaults = 1
SPECIFICATION FairSpec
INVARIANTS
  SentMeansSent
  OnceUnlessInDoubt
  CountedLargeWaits
  StatusIsTrue
PROPERTIES
  CancelIsFinal
  WorkersFinish
CHECK_DEADLOCK FALSE
