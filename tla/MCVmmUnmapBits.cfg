SPECIFICATION Spec
CONSTANTS
    Radix = 3
    Limit = 12
    Pml4Page = 1
    Page <- MCPage
    MemoryMaps <- MCMemoryMaps
    ClientPages <- MCClientPages
    ClientFlags <- MCClientFlags
PROPERTY UnmapKeepsOtherBits
CHECK_DEADLOCK FALSE
