SPECIFICATION Spec
CONSTANTS
    Fanout = 4
    PageDirectories = 2
    ModulePages = 14
    FirstTable = 1
    ModuleBases = {32}
    OsPageTables <- HugePage
INVARIANTS
    HostReachesModule
