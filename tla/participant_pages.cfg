SPECIFICATION Spec
CONSTANTS
    Services = {web, db}
    NoService = none
    MaxEvents = 1
    MaxRequests = 2
    Players = {me, ally}
    Me = me
    Tabs = {t1, t2}
    MaxMoves = 1
    MaxCalls = 2
    Flags = {right, wrong}
    GoodFlags = {right}
    MaxBatches = 2
    StreamLimit = 2
    Limits = {2, 3}
    MaxHighlights = 1
    MaxRows = 3
    MaxFetches = 2
    MaxEdits = 1
INVARIANT ParticipantTypeOK
INVARIANT DialogsFit
INVARIANT UnlocksAreEarned
INVARIANT AccountIsSound
INVARIANT NoFlagVanishes
INVARIANT PageIsSound
INVARIANT PageIsCurrent
PROPERTY RowsCatchUp
CHECK_DEADLOCK FALSE
