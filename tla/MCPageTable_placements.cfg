SPECIFICATION Spec
CONSTANTS
    Fanout = 4
    PageDirectories = 2
    ModulePages = 14
    FirstTable = 1
    ModuleBases <- Bases
    OsPageTables <- SmallPages
INVARIANTS
    TablesAreMapped
    HostReachesModule
