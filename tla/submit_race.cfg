SPECIFICATION AllSpec
CONSTANTS
  Backend = "memory"
  Requests = {r1}
  Monitor = Monitor
  Scheduled = FALSE
  AutoTick = TRUE
  MaxStarts = 2
  Teams = {t1, t2}
  Owners = {t1}
  Challenges = {c1}
  Maintained = {}
  Advancers = {a1}
  Cancellable = {}
  Prefixes = {x}
  EnvPrefix = x
  StoreMayFail = FALSE
  MaxTick = 2
  Submitters = {s1, s2}
  MaxBatch = 2
  MaxRequests = 1
INVARIANT OneEventPerCapture CapturedInItsTick AnswersMatchRecord
PROPERTY ValidFlagNotRefused
SYMMETRY RequestSymmetry
CHECK_DEADLOCK FALSE
