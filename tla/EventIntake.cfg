SPECIFICATION Spec
CONSTANTS
  Events = {e1}
  Kinds = {"auth.signin", "senderid.submitted", "payment.failed", "usage.recorded"}
  Deliveries = {d1, d2}
  Workers = {w1, w2}
  Retries = {"retry"}
  JobTries = 2
  SweepLimit = 3
  Spike = 1
  MaxFaults = 2
INVARIANTS ProcessedMeansHandled AttemptsCoverEffects
PROPERTY NothingForgotten
CHECK_DEADLOCK FALSE
