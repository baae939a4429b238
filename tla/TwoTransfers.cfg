CONSTANTS
    a = a
    b = b
    Iocbs = {a, b}
    MaxSegs <- MCMaxSegs
    DescMax = 3
    MaxDescs = 3
    MaxUsed = 6
    MaxFaults = 0
SPECIFICATION Spec
INVARIANT TwoTransfersSuffice
CHECK_DEADLOCK FALSE
