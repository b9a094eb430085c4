SPECIFICATION Spec
CONSTANTS
    TickMod = 6
    ByteMod = 3
    EoiByte = 1
    SleepTicks = 3
    StackRoom = 48
    MinGap = 13
INVARIANTS
    TypeOK
    LostOnlyIfStruck
    NotStruckLeaving
PROPERTIES
    NoNesting
    SleepsLongEnough
    NoTickLost
    TickAcknowledged
    SleepEnds
    IdleOverruns
CHECK_DEADLOCK FALSE
