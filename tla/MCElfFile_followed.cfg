SPECIFICATION Spec
CONSTANTS
    Files <- FollowedFiles
    Bases = {4, 8}
    PageCells = 4
    EntryBytes = 2
    MemoryTop = 28
INVARIANTS
    ImageIsLoaded
