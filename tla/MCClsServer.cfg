SPECIFICATION Spec
CONSTANTS
    NULL = NULL
    Conns = {c1, c2}
    MessageSize = 2
    BufferSize = 4
    MaxSegment = 5
    MaxMessages = 3
    MsgKind <- MCMsgKind
    SndBuf = 1
SYMMETRY Symmetry
CHECK_DEADLOCK FALSE
INVARIANTS
    TypeOK
    BufferFits
    ServedClientIsOpen
    ExactlyOnce
    RepliesAccounted
