SPECIFICATION Spec
CONSTANTS
    MaxInFlight = 2
    QueueSize = 1
    MaxEvents = 1
    MaxActions = 2
INVARIANT PanelTypeOK
INVARIANT OwnActionShown
INVARIANT OnlyLostFramesMakeItStale
INVARIANT ShownTickIsAudited
PROPERTY ControlsReturn
CHECK_DEADLOCK FALSE
