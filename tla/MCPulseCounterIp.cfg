SPECIFICATION Spec
CONSTANTS
    WordSize = 8
    MaxPulses = 2
    TriggerLevels = {FALSE}
    MaxCommands = 4
    Settings <- MCSettings
INVARIANTS
    TypeOK
    ClearIsSeen
    CountIsRecent
    WritesLand
PROPERTIES
    CommandsEnd
