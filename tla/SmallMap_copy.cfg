\* A map that holds pairs is copied.
SPECIFICATION Spec
CONSTANTS
    Objects = {a, b}
    Keys = {1, 2}
    Values = {v}
    Capacity = 2
    Raw = Raw
    NotFound = NotFound
    CopiesPairs = TRUE
PROPERTIES
    ImplementsMap
