SPECIFICATION EngineSpec
CONSTANTS
  Backend = "memory"
  Requests = {r1, r2}
  Monitor = Monitor
  Scheduled = FALSE
  AutoTick = TRUE
  MaxStarts = 2
  Teams = {t1, t2}
  Owners = {t1}
  Challenges = {c1}
  Maintained = {}
  Advancers = {a1, a2}
  Cancellable = {a1}
  Prefixes = {x}
  EnvPrefix = x
  StoreMayFail = FALSE
  MaxTick = 2
PROPERTY TickFinalized ImplementsLifecycle
CHECK_DEADLOCK FALSE
