SPECIFICATION Spec
CONSTANTS
    NULL = NULL
    Conns = {c1, c2, c3}
    MessageSize = 2
    BufferSize = 4
    MaxSegment = 4
    MaxMessages = 2
    MsgKind <- MCMsgKind
    SndBuf = 1
SYMMETRY Symmetry
CHECK_DEADLOCK FALSE
INVARIANTS
    OneClient
