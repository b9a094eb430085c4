SPECIFICATION Spec
CONSTANTS
    Radix = 3
    Limit = 12
    Pml4Page = 1
    Page <- MCPage
    MemoryMaps <- MCMemoryMaps
    ClientPages <- MCClientPages
    ClientFlags <- MCClientFlags
INVARIANT NoUsableMemoryReported
CHECK_DEADLOCK FALSE
