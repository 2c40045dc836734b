SPECIFICATION MatchSpec
CONSTANTS
  Backend = "postgres"
  Requests = {r1, r2}
  Monitor = Monitor
  Scheduled = TRUE
  AutoTick = TRUE
  MaxStarts = 2
PROPERTY FinishedIsFinal
