SPECIFICATION Spec
CONSTANTS
    LargePages = 3
    PagesPerLarge = 2
    ModulePages = 4
    EptFirst = 1
    EptCount = 3
    FirstUnprotected = 0
    UnprotectedPages = 1
    Capacity = 5
    MemoryTypes <- Types
    Uncacheable = "uncacheable"
    WriteBack = "write_back"
    MtrrCount = 3
    PageBits = 3
    MtrrSettings <- Settings
INVARIANTS
    MapsToItself
    TypesFollowMtrrs
    ModuleIsIsolated
    FindSucceeds
    TablesSuffice
