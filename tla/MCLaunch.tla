------------------------------ MODULE MCLaunch ------------------------------
(***************************************************************************)
(* Instances of Launch for TLC.                                            *)
(***************************************************************************)
EXTENDS Launch

\* The first and the last CPU have a TSS, and the two between them have not; or
\* none has, as in UEFI.
OuterTss == {0, NumCpus - 1}
NoTss == {}

\* The last CPU is called with interrupts disabled, as an application processor is.
LastDisabled == [c \in Cpus |-> IF c = NumCpus - 1 THEN 0 ELSE 1]

\* The failures the code reports.
ReportedFailures == FallibleOperations \ {"vmlaunch", "feature_control"}

=============================================================================
