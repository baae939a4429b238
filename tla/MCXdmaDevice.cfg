CONSTANTS
    ChannelMax = 1
    UserMax = 1
    NumBars = 2
    ConfigBarPos = 1
    MaxProbes = 1
    MaxResets = 2
SPECIFICATION Spec
INVARIANTS TypeOK NothingLeftBehind HandlersHaveDevice NodesHaveDevice UnmaskedHasHandler Recovered
PROPERTIES EventSeen
CHECK_DEADLOCK FALSE
