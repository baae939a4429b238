CONSTANTS
    a = a
    b = b
    Iocbs = {a, b}
    MaxSegs <- MCMaxSegs
    DescMax = 3
    MaxDescs = 2
    MaxUsed = 3
    MaxFaults = 1
SPECIFICATION Spec
INVARIANTS TypeOK RingIntact ReportedIsMoved ListedIsLive
PROPERTIES AioCompletes
CHECK_DEADLOCK FALSE
