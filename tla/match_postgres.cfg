SPECIFICATION RuntimeSpec
CONSTANTS
  Backend = "postgres"
  Requests = {r1, r2}
  Handlers = {r1}
  Monitor = Monitor
  Scheduled = TRUE
  AutoTick = FALSE
  AutoStart = FALSE
  MaxStarts = 2
  Direct = {direct}
  Debounced = debounced
  MaxCaptures = 2
INVARIANT RuntimeTypeOK LiveMatchWasStarted OneLoop NoRecomputeIsLost
PROPERTY WindowEndIsStored SchedulerFollowsMatch BoardCatchesUp
