SPECIFICATION Spec
CONSTANTS
    Half = 512
    Page = 16
    LimitLow = 256
    GdtEntries = 10
    Unrelated = 9
    OperatingSystems <- Systems
    Processors <- Machines
    HostTss = 3100
    GuestTss = 4200
INVARIANT
    CapturedIsKept
