SPECIFICATION Spec
CONSTANTS
    TickMod = 6
    ByteMod = 3
    EoiByte = 1
    SleepTicks = 3
    StackRoom = 48
    MinGap = 13
PROPERTY SleepAlwaysEnds
CHECK_DEADLOCK FALSE
