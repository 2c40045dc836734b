SPECIFICATION AllSpec
CONSTANTS
  Backend = "postgres"
  Requests = {r1}
  Monitor = Monitor
  Scheduled = FALSE
  AutoTick = TRUE
  MaxStarts = 2
  Teams = {t1, t2}
  Owners = {t1}
  Challenges = {c1}
  Maintained = {c1}
  Advancers = {a1}
  Cancellable = {}
  Prefixes = {x}
  EnvPrefix = x
  StoreMayFail = FALSE
  MaxTick = 2
  Submitters = {s1}
  MaxBatch = 1
  MaxRequests = 1
PROPERTY ImplementsFlagGame NoCaptureInMaintenance
CHECK_DEADLOCK FALSE
