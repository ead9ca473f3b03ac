SPECIFICATION NightSpec
CONSTANTS
  Deployed = 3
  Horizon = 6
  Concurrency = 2
  MAX_CATCH_UP_DAYS = 2
  MAX_HISTORY_DAYS = 3
  RECENT_DAYS_LEFT_ALONE = 3
  MaxFaults = 1
INVARIANTS NoDayLost
PROPERTY EveryDayFinalised
CHECK_DEADLOCK FALSE
