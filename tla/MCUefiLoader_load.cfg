SPECIFICATION UefiSpec
CONSTANTS
    Files <- CleanFiles
    Bases = {4, 8}
    PageCells = 4
    EntryBytes = 2
    MemoryTop = 28
    NumCpus = 3
    Handles = 2
INVARIANTS
    ImageIsLoaded
    StaysInAllocation
    BootsOnHypervisor
    EntryIsJoined
    NothingLeaks
PROPERTIES
    UefiImplementsVirtualization
    LoaderEnds
CHECK_DEADLOCK FALSE
