SPECIFICATION Spec
CONSTANTS
    WordSize = 4
    Settings <- MCSettings
INVARIANTS
    TypeOK
    ExactWindow
    GatePinShowsGate
PROPERTIES
    WindowEnds
