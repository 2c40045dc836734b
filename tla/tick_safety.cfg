SPECIFICATION EngineSafety
CONSTANTS
  Backend = "postgres"
  Requests = {}
  Monitor = Monitor
  Scheduled = TRUE
  AutoTick = TRUE
  MaxStarts = 1
  Teams = {t1, t2}
  Owners = {t1, t2}
  Challenges = {c1}
  Maintained = {}
  Advancers = {a1, a2}
  Cancellable = {a1}
  Prefixes = {x, y}
  EnvPrefix = x
  StoreMayFail = TRUE
  MaxTick = 2
SYMMETRY TeamSymmetry
INVARIANT OneTickAtATime OneFlagPerTargetTick CompletedTickIssuedAll
PROPERTY TickOutcomeFinal FlagsOnlyInTheirTick
