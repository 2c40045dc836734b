SPECIFICATION Spec
CONSTANTS
    ChangeSets = {{"deployments"}, {"gateway"}, {"access"}, {"operations"}, {"metrics"}}
    MaxChanges = 1
    MaxActions = 2
    MaxWrites = 3
    MaxEdits = 2
INVARIANT OrganizerTypeOK
INVARIANT ReportsAreTrue
INVARIANT PeersAreShown
INVARIANT CardIsTrue
 
 
INVARIANT ValidationsAreCurrent
CHECK_DEADLOCK FALSE
