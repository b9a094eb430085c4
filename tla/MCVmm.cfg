SPECIFICATION Spec
CONSTANTS
    Radix = 3
    Limit = 12
    Pml4Page = 1
    Page <- MCPage
    MemoryMaps <- MCMemoryMaps
    ClientPages <- MCClientPages
    ClientFlags <- MCClientFlags
INVARIANTS
    TypeOK
    LargestSegment
    AllocatorExact
    TreeWellFormed
    LocalsFresh
    TablesMapped
    TablesWritable
    IdentityMapped
    TlbCoherent
    FaultsBeyondLimit
PROPERTIES
    BootEnds
    CallsReturn
    RefinesAddressSpace
CHECK_DEADLOCK FALSE
