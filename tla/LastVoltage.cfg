SPECIFICATION Spec
CONSTANTS
    Bits = 3
    Divide = 3
    DelayCount = 3
    Hold = 6
    MaxCommands = 2
    MaxPresses = 0
PROPERTIES
    LastVoltageOut
