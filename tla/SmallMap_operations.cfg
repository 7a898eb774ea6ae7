SPECIFICATION Spec
CONSTANTS
    Objects = {a, b}
    Keys = {1, 2, 3, 4}
    Values = {v, w}
    Capacity = 3
    Raw = Raw
    NotFound = NotFound
    CopiesPairs = FALSE
INVARIANTS
    TypeOK
    StorageIsSorted
    SearchIsExact
PROPERTIES
    ImplementsMap
    OperationsReturn
