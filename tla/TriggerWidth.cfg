SPECIFICATION Spec
CONSTANTS
    WordSize = 4
    Settings <- MCSettings
INVARIANTS
    WidthIsGateLength
