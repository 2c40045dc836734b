SPECIFICATION EngineSpec
CONSTANTS
  Backend = "postgres"
  Requests = {}
  Monitor = Monitor
  Scheduled = TRUE
  AutoTick = FALSE
  MaxStarts = 1
  Teams = {t1, t2}
  Owners = {t1}
  Challenges = {c1}
  Maintained = {}
  Advancers = {a1}
  Cancellable = {a1}
  Prefixes = {x}
  EnvPrefix = x
  StoreMayFail = FALSE
  MaxTick = 2
PROPERTY TimedOutTickFails
