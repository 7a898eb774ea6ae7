--------------------------- MODULE Virtualization ---------------------------
(***************************************************************************)
(* What loading the hypervisor promises to the operating system: the CPUs  *)
(* enter a virtual machine one after the other, in the order of their      *)
(* identifiers, none leaves it again, and the load reports success only    *)
(* when all of them have.  A failed load may leave a prefix of the CPUs    *)
(* virtualized: the code has no way to take a CPU out of its VM.           *)
(***************************************************************************)
EXTENDS Integers

CONSTANT NumCpus
VARIABLES virtualized, outcome

Cpus == 0 .. NumCpus - 1

Init == virtualized = {} /\ outcome = "none"

\* CPU n becomes virtual when exactly the CPUs below it are.
Virtualize ==
    /\ outcome = "none"
    /\ \E n \in Cpus : /\ virtualized = 0 .. n - 1
                       /\ virtualized' = 0 .. n
    /\ UNCHANGED outcome

Succeed ==
    /\ outcome = "none"
    /\ virtualized = Cpus
    /\ outcome' = "success"
    /\ UNCHANGED virtualized

Fail ==
    /\ outcome = "none"
    /\ outcome' = "failure"
    /\ UNCHANGED virtualized

Next == Virtualize \/ Succeed \/ Fail

Spec == Init /\ [][Next]_<<virtualized, outcome>>

=============================================================================
