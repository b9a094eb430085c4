SPECIFICATION Spec
CONSTANTS
    Buses = {{}, {1}, {0, 1, 2, 3, 4, 5, 6, 7}}
    Slots = {{}, {0, 2}, {0, 1, 2, 3, 4}}
    Funcs = {{}, {0, 1}, {0, 1, 2}}
INVARIANT FieldPlaces
CHECK_DEADLOCK FALSE
