SPECIFICATION Spec
CONSTANTS
    Bits = 3
    Divide = 3
    DelayCount = 3
    Hold = 6
    MaxCommands = 2
    MaxPresses = 2
INVARIANTS
    TypeOK
    ConfiguredFirst
    WordsWhole
    SettlesFirst
PROPERTIES
    ComesBack
    IdleRequestsServed
