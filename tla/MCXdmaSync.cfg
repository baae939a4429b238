CONSTANTS
    Requests = {r1, r2}
    DescMax = 2
    MaxDescs = 2
    MaxResets = 1
SPECIFICATION Spec
INVARIANTS TypeOK CountedIsMoved ListIsLive HardwareOnHead OfflineIsQuiet
PROPERTIES CompletionIsSeen SubmitReturns ServiceImplemented
CHECK_DEADLOCK FALSE
