\* A launch fails where the OS has no TSS.
SPECIFICATION Spec
CONSTANTS
    NumCpus = 3
    MaxCpus = 3
    HasTss <- NoTss
    CallerIf <- LastDisabled
    MayFail <- ReportedFailures
INVARIANTS
    NoFault
