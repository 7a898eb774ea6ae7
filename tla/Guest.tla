------------------------------- MODULE Guest -------------------------------
(***************************************************************************)
(* What a CPU promises the operating system that calls the entry point and *)
(* becomes a guest: the call returns success with every other register as  *)
(* it was, or an error; afterwards the guest runs undisturbed, and an      *)
(* instruction that leaves it is completed with the effect the processor   *)
(* would give it, the presence of the hypervisor in the results of cpuid   *)
(* apart.                                                                  *)
(*                                                                         *)
(* A word is the set of its bits that are set.                             *)
(***************************************************************************)
EXTENDS Integers

CONSTANTS
    Callers,        \* the registers the operating system may call with
    GuestStates,    \* the registers a guest may have
    Instructions,   \* the instructions that leave a guest
    Length,         \* their lengths in bytes
    Cpuid(_, _),    \* what the processor answers for a leaf and a subleaf
    HypervisorName, \* the words of "ZppZppZppZpp"
    Errors          \* error codes, other than success

VARIABLES
    state,     \* "calling", "refused", "running", or "exiting"
    regs,      \* the registers, as the operating system sees them
    osxsave,   \* CR4.OSXSAVE
    xcr0,
    instr      \* the instruction that left the guest

vars == <<state, regs, osxsave, xcr0, instr>>

Low(w) == w \cap 0 .. 31

Init ==
    /\ state = "calling" /\ instr = "none"
    /\ regs \in Callers /\ osxsave \in {0, 1} /\ xcr0 = {0}

\* The entry point returns success, in a guest.
Start ==
    /\ state = "calling" /\ state' = "running"
    /\ regs' = [regs EXCEPT !.rax = {}]
    /\ UNCHANGED <<osxsave, xcr0, instr>>

\* The entry point returns an error.
Refuse ==
    /\ state = "calling" /\ state' = "refused"
    /\ \E e \in Errors : regs' = [regs EXCEPT !.rax = e]
    /\ UNCHANGED <<osxsave, xcr0, instr>>

Run ==
    /\ state = "running"
    /\ regs' \in GuestStates /\ osxsave' \in {0, 1}
    /\ UNCHANGED <<state, xcr0, instr>>

Leave ==
    /\ state = "running" /\ state' = "exiting"
    /\ instr' \in Instructions
    /\ UNCHANGED <<regs, osxsave, xcr0>>

\* The answer to cpuid: leaf 1 has the hypervisor present bit, and leaf
\* 0x40000000 the name.
Answer(leaf, subleaf) ==
    LET a == Cpuid(leaf, subleaf)
    IN  CASE leaf = {0}  -> [a EXCEPT !.rcx = @ \cup {31}]
          [] leaf = {30} -> [a EXCEPT !.rbx = HypervisorName.rbx,
                                      !.rcx = HypervisorName.rcx,
                                      !.rdx = HypervisorName.rdx]
          [] OTHER       -> a

\* The instruction is completed and the guest goes on behind it.
Complete ==
    LET a == Answer(Low(regs.rax), Low(regs.rcx))
        next == [regs EXCEPT !.rip = @ + Length[instr]]
    IN  /\ state = "exiting" /\ state' = "running"
        /\ instr' = "none"
        /\ regs' = IF instr = "cpuid"
                   THEN [next EXCEPT !.rax = Low(a.rax), !.rbx = Low(a.rbx),
                                     !.rcx = Low(a.rcx), !.rdx = Low(a.rdx)]
                   ELSE next
        /\ xcr0' = IF instr = "xsetbv"
                   THEN Low(regs.rax) \cup {b + 32 : b \in Low(regs.rdx)}
                   ELSE xcr0
        /\ UNCHANGED osxsave

Next == Start \/ Refuse \/ Run \/ Leave \/ Complete

Safety == Init /\ [][Next]_vars

\* The call returns, and every instruction that left the guest is completed.
Spec == Safety /\ WF_vars(Start \/ Refuse) /\ WF_vars(Complete)

=============================================================================
