\* Two CPUs have no TSS, as in UEFI; anything may fail, faults included.
SPECIFICATION Spec
CONSTANTS
    NumCpus = 4
    MaxCpus = 4
    HasTss <- OuterTss
    CallerIf <- LastDisabled
    MayFail <- FallibleOperations
INVARIANTS
    TypeOK
    OwnResources
    InStorage
    GuestStateIsOwn
    InterruptSafety
    FailureRestores
    NoOtherFault
PROPERTIES
    LaunchedIsIsolated
    ImplementsVirtualization
    LoadSucceeds
    ExitsResume
