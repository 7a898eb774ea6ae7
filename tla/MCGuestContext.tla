--------------------------- MODULE MCGuestContext ---------------------------
(***************************************************************************)
(* Model checking GuestContext: operands on both sides of every test of    *)
(* the handler, with bits in the upper halves that it must drop.           *)
(***************************************************************************)
EXTENDS GuestContext

Regs(a, b, c, d) == [rax |-> a, rbx |-> b, rcx |-> c, rdx |-> d]

\* Leaves 0, 1, 0x40000000 and 1 with a bit of the upper half; subleaf 1 with a
\* bit of the upper half; an operand of xsetbv with bits in both halves of edx.
Operands == { Regs({}, {32}, {}, {}),
              Regs({0}, {}, {0, 33}, {63}),
              Regs({30}, {1}, {32}, {}),
              Regs({0, 32}, {}, {}, {0}),
              Regs({0, 1}, {}, {40}, {2, 35}) }

OsRegs(o, rsp, rip, intr, rest) ==
    [rax |-> o.rax, rbx |-> o.rbx, rcx |-> o.rcx, rdx |-> o.rdx, rdi |-> 3, rsi |-> 4,
     rsp |-> rsp, rip |-> rip, intr |-> intr, cs |-> "os", rest |-> rest]

MCCallers == {OsRegs(Regs({5}, {6}, {7}, {8}), 4000, 20, intr, "caller") : intr \in {0, 1}}

MCGuestStates ==
    {OsRegs(o, IF intr = 0 THEN 3 ELSE 3000, 20, intr, "guest") :
        o \in Operands, intr \in {0, 1}}

MCInstructions == {"cpuid", "xsetbv", "invd", "vmcall"}

MCLength == [cpuid |-> 2, xsetbv |-> 3, invd |-> 2, vmcall |-> 3]

\* The processor's answers depend on the leaf and on the subleaf.
MCCpuid(leaf, subleaf) == Regs(leaf, subleaf, {4}, IF subleaf = {} THEN {31} ELSE {})

MCHypervisorName == [rbx |-> {1, 3}, rcx |-> {4, 5}, rdx |-> {6}]

MCValidXcr0(w) == 0 \in w

MCErrors == {{0}}

=============================================================================
