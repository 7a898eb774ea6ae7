SPECIFICATION Spec
CONSTANTS
    Callers <- MCCallers
    GuestStates <- MCGuestStates
    Instructions <- MCInstructions
    Length <- MCLength
    Cpuid <- MCCpuid
    HypervisorName <- MCHypervisorName
    Errors <- MCErrors
    ValidXcr0 <- MCValidXcr0
    CodeEnd = 23
    Clobbered = {9}
    StackEnd = 2000
    Frame = 800
    LaunchStackEnd = 1800
INVARIANTS
    StackIsSound
    NoFault
    InterruptsAreOff
PROPERTY
    ImplementsGuest
