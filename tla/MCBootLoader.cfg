SPECIFICATION Spec
CONSTANTS
    Pages = 7
    PoolPages = {1, 3, 4, 5, 6}
    Initial <- MCInitial
    Segments <- MCSegments
    Sizes = {0, 9}
    MaxChanges = 1
    MaxFailures = 1
    MaxEntries = 3
    ConfigTables <- MCConfigTables
INVARIANTS
    MenuShowsEntry
    KernelIntact
    HandedPagesReserved
    ServicesExited
    MapHandedOver
    RsdpHanded
CHECK_DEADLOCK FALSE
