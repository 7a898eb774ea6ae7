---------------------------- MODULE GuestContext ----------------------------
(***************************************************************************)
(* The registers of a CPU from the call of _start through vm_launch and    *)
(* every VM exit.  Control passes through saved contexts: _start captures  *)
(* the caller's, launch_on_cpu sends it to a private stack, vm_launch      *)
(* captures its own context, to which every VM exit returns, and turns the *)
(* caller's into the one that executes vmlaunch; vm_exit_entry captures    *)
(* the guest's into the place the handler reads it from, and the handler   *)
(* returns to the guest by restoring it at vmresume.                       *)
(*                                                                         *)
(* A context is found by its address, as in the code.  Addresses of data   *)
(* count words of 8 bytes.  The operating system's code has natural        *)
(* addresses, counted in bytes; a place in the hypervisor's code is a      *)
(* negative number.  A register is the set of its bits that are set;       *)
(* `rest' stands for rbp, r8 to r15, the xmm registers, the fxsave area    *)
(* and mxcsr.  Code the compiler produced leaves Clobbered in what it may  *)
(* use.                                                                    *)
(*                                                                         *)
(* How a launch fails is the subject of Launch: here main returns an error *)
(* or not, and vmlaunch, vmresume and vmread, for which the VMCS is        *)
(* current, succeed.                                                       *)
(***************************************************************************)
EXTENDS Integers

CONSTANTS
    Callers, GuestStates, Instructions, Length, Cpuid(_, _), HypervisorName,
    Errors,           \* see Guest
    ValidXcr0(_),     \* the values the processor accepts in XCR0
    CodeEnd,          \* bound: the guest's instructions lie below it
    Clobbered,        \* a word that compiled code left in a register
    StackEnd,         \* the end of the stack the CPU is given
    Frame,            \* rsp of vm_launch, as the compiler lays it out
    LaunchStackEnd    \* the end of host_vm_launch_stack, in the frame

\* sizeof(context), and of host_vm_launch_stack, in words.
ContextSize == 116
LaunchStackSize == 672

\* Places in the code of the hypervisor.
Start == -1            \* _start
LaunchOnCpu == -2      \* launch_on_cpu
PrivateStack == -3     \* launch_on_cpu_private_stack
VmLaunch == -4         \* vm_launch
AfterCapture == -5     \* behind capture_context in vm_launch
Vmlaunch == -6         \* the vmlaunch wrapper
VmExitEntry == -7      \* vm_exit_entry
ZppVmExit == -8        \* zpp_vm_exit
Vmresume == -9         \* the vmresume wrapper
Inside == -10          \* behind zpp_x64_capture_context_into_stack
Fault == -11           \* an exception, for which there is no handler

StackTop == StackEnd - ContextSize
Even(a) == a % 2 = 0

\* alignas(0x10) on the stacks and contexts, and the layout of the frame.
ASSUME LayoutAssumption ==
    /\ {StackEnd, Frame, LaunchStackEnd} \subseteq Nat
    /\ Even(StackEnd) /\ Even(LaunchStackEnd) /\ Even(Frame)
    /\ Frame =< LaunchStackEnd - LaunchStackSize
    /\ LaunchStackEnd < StackTop

Words == SUBSET (0 .. 63)
Low(w) == w \cap 0 .. 31

\* What `rest' may hold.
Rests == {"host"} \cup {c.rest : c \in Callers \cup GuestStates}

\* The registers a context holds.
Contexts ==
    [rax : Words, rbx : Words, rcx : Words, rdx : Words, rdi : Int, rsi : Int,
     rsp : Int, rip : Int, intr : {0, 1}, cs : {"os", "host"}, rest : Rests]

\* A caller is 16 byte aligned at its call instruction; its stack is not ours.
ASSUME CallerAssumption ==
    /\ Callers \subseteq Contexts
    /\ \A c \in Callers : /\ Even(c.rsp) /\ c.rsp > StackEnd + 2 * ContextSize
                          /\ c.rip \in Nat /\ c.cs = "os"
ASSUME GuestAssumption ==
    /\ GuestStates \subseteq Contexts
    /\ \A g \in GuestStates : g.rip \in Nat /\ g.cs = "os"
ASSUME InstructionAssumption ==
    /\ Length \in [Instructions -> Nat] /\ CodeEnd \in Nat
    /\ Instructions \cap {"call", "none"} = {}
ASSUME WordAssumption == Clobbered \in Words /\ Errors \subseteq Words

VARIABLES
    mode,       \* "host": the hypervisor runs; "guest"; "os": the launch failed
    regs,       \* the registers a context holds
    osxsave,    \* CR4.OSXSAVE
    gdt,        \* the GDT in GDTR
    xcr0,
    pushed,     \* the return address of the call of _start, and where it is
    contexts,   \* the contexts in memory, by address
    frame,      \* the local variables of vm_launch
    vmcs,
    trapped     \* history: what the CPU was doing, and with which registers, when
                \* it entered the hypervisor

vars == <<mode, regs, osxsave, gdt, xcr0, pushed, contexts, frame, vmcs, trapped>>

ZeroVmcs == [host_rip |-> 0, host_rsp |-> 0, host_osxsave |-> 0, guest_rip |-> 0,
             guest_rsp |-> 0, guest_intr |-> 0, guest_cs |-> "os",
             guest_osxsave |-> 0, reason |-> "none"]

ZeroFrame == [at |-> 0, guest_context |-> 0, host_rsp |-> 0, vm_exit_flag |-> FALSE]

\* The operating system has executed call _start.
Init ==
    /\ mode = "host" /\ gdt = "os" /\ osxsave \in {0, 1} /\ xcr0 = {0}
    /\ \E c \in Callers :
          /\ regs = [c EXCEPT !.rip = Start, !.rsp = c.rsp - 1]
          /\ pushed = [at |-> c.rsp - 1, rip |-> c.rip]
          /\ trapped = [instr |-> "call", regs |-> c, osxsave |-> osxsave, xcr0 |-> {0}]
    /\ contexts = << >>
    /\ frame = ZeroFrame
    /\ vmcs = ZeroVmcs

At(place) == mode = "host" /\ regs.rip = place

-----------------------------------------------------------------------------
(***************************************************************************)
(* Contexts.                                                               *)
(***************************************************************************)

\* capture_context: the registers, with the return address as rip and the
\* stack pointer after the return.
Captured(r, rip) == [r EXCEPT !.rip = rip]

\* zpp_x64_capture_context_into_stack, called with the stack pointer at a, where
\* the context is stored.
CapturedIntoStack(r, a) == [r EXCEPT !.rip = Inside, !.rsp = a]

\* Memory s with context c stored at address a.
Stored(s, a, c) == [b \in DOMAIN s \cup {a} |-> IF b = a THEN c ELSE s[b]]
Store(a, c) == Stored(contexts, a, c)

\* The word at address a of the caller's stack.
Load(a) == IF a = pushed.at THEN pushed.rip ELSE Fault

\* The host GDT has the host's code segment; the intermediate one has those
\* of the operating system's.
Loadable(g, cs) == (g = "host") <=> (cs = "host")

\* restore_context(c): iretq faults on a code segment that is not in the GDT.
Restore(c, g) == IF Loadable(g, c.cs) THEN c ELSE [regs EXCEPT !.rip = Fault]

\* A context as constructed.
ZeroContext == [rax |-> {}, rbx |-> {}, rcx |-> {}, rdx |-> {}, rdi |-> 0, rsi |-> 0,
                rsp |-> 0, rip |-> 0, intr |-> 0, cs |-> "os", rest |-> "host"]

Clobber(r) == [r EXCEPT !.rax = Clobbered, !.rbx = Clobbered, !.rcx = Clobbered,
                        !.rdx = Clobbered, !.rest = "host"]

-----------------------------------------------------------------------------
(***************************************************************************)
(* The launch.                                                             *)
(***************************************************************************)

\* _start: the caller's context is captured below its stack, returns to the
\* caller's return address, and is passed to launch_on_cpu.
StartCalled ==
    LET a == regs.rsp - 117
        c == CapturedIntoStack(regs, a)
    IN  /\ At(Start)
        /\ contexts' = Store(a, [c EXCEPT !.rip = Load(a + 117), !.rsp = a + 118])
        /\ regs' = [Clobber(regs) EXCEPT !.rip = LaunchOnCpu, !.rdi = a, !.rsp = a - 1]
        /\ UNCHANGED <<mode, osxsave, gdt, xcr0, pushed, frame, vmcs, trapped>>

\* Mutant: no call instruction is simulated.
LaunchOnPrivateStackUnaligned ==
    LET a == regs.rdi
        c == [contexts[a] EXCEPT !.rip = PrivateStack, !.rsp = StackTop, !.rsi = StackTop]
    IN  /\ At(LaunchOnCpu)
        /\ contexts' = Stored(Store(a, c), StackTop, contexts[a])
        /\ regs' = Restore(c, gdt)
        /\ UNCHANGED <<mode, osxsave, gdt, xcr0, pushed, frame, vmcs, trapped>>

\* launch_on_cpu: the context is copied to the top of the private stack, and
\* the original is changed to continue there.
LaunchOnPrivateStack ==
    LET a == regs.rdi
        c == [contexts[a] EXCEPT !.rip = PrivateStack, !.rsp = StackTop - 1, !.rsi = StackTop]
    IN  /\ At(LaunchOnCpu)
        /\ contexts' = Stored(Store(a, c), StackTop, contexts[a])
        /\ regs' = Restore(c, gdt)
        /\ UNCHANGED <<mode, osxsave, gdt, xcr0, pushed, frame, vmcs, trapped>>

\* main returns an error, with the guards run: launch_on_cpu_private_stack
\* puts it into the caller's context and restores that.
MainFails ==
    /\ At(PrivateStack)
    /\ \E e \in Errors :
          LET c == [contexts[regs.rsi] EXCEPT !.rax = e]
          IN  contexts' = Store(regs.rsi, c) /\ regs' = Restore(c, gdt)
    /\ mode' = "os"
    /\ UNCHANGED <<osxsave, gdt, xcr0, pushed, frame, vmcs, trapped>>

\* Mutant: the flags of the guest are the host's.
MainSucceedsHostFlags ==
    LET c == contexts[regs.rsi]
    IN  /\ At(PrivateStack)
        /\ gdt' = "intermediate"
        /\ frame' = [frame EXCEPT !.guest_context = regs.rsi]
        /\ vmcs' = [vmcs EXCEPT !.guest_intr = 0, !.guest_cs = c.cs,
                                !.guest_osxsave = osxsave, !.host_osxsave = osxsave]
        /\ regs' = [Clobber(regs) EXCEPT !.rip = VmLaunch, !.rsp = Frame, !.intr = 0]
        /\ UNCHANGED <<mode, osxsave, xcr0, pushed, contexts, trapped>>

\* main up to vm_launch: interrupts are off, the intermediate GDT is loaded and
\* setup_vmcs has written the selectors, the flags and CR4.
MainSucceeds ==
    LET c == contexts[regs.rsi]
    IN  /\ At(PrivateStack)
        /\ gdt' = "intermediate"
        /\ frame' = [frame EXCEPT !.guest_context = regs.rsi]
        /\ vmcs' = [vmcs EXCEPT !.guest_intr = c.intr, !.guest_cs = c.cs,
                                !.guest_osxsave = osxsave, !.host_osxsave = osxsave]
        /\ regs' = [Clobber(regs) EXCEPT !.rip = VmLaunch, !.rsp = Frame, !.intr = 0]
        /\ UNCHANGED <<mode, osxsave, xcr0, pushed, contexts, trapped>>

\* vm_launch up to capture_context: the contexts of the guest and of the host
\* are at the end of host_vm_launch_stack, the guest's first.
CaptureHost ==
    LET c == contexts[frame.guest_context]
        host_rsp == LaunchStackEnd - 2 * ContextSize
        host == Captured(regs, AfterCapture)
    IN  /\ At(VmLaunch)
        /\ contexts' = Stored(Store(host_rsp, ZeroContext), host_rsp + ContextSize, host)
        /\ vmcs' = [vmcs EXCEPT !.host_rip = VmExitEntry, !.host_rsp = host_rsp,
                                !.guest_rip = c.rip, !.guest_rsp = c.rsp]
        /\ frame' = [frame EXCEPT !.at = regs.rsp, !.host_rsp = host_rsp,
                                  !.vm_exit_flag = FALSE]
        /\ regs' = host
        /\ UNCHANGED <<mode, osxsave, gdt, xcr0, pushed, trapped>>

\* Mutant: the context keeps the caller's flags.
LaunchGuestKeepingFlags ==
    LET h == frame.host_rsp + ContextSize
        host == [contexts[h] EXCEPT !.cs = "host"]
        guest == [contexts[frame.guest_context] EXCEPT !.rip = Vmlaunch, !.rax = {}]
    IN  /\ At(AfterCapture) /\ ~frame.vm_exit_flag
        /\ contexts' = Stored(Store(frame.guest_context, guest), h, host)
        /\ frame' = [frame EXCEPT !.vm_exit_flag = TRUE]
        /\ regs' = Restore(guest, gdt)
        /\ UNCHANGED <<mode, osxsave, gdt, xcr0, pushed, vmcs, trapped>>

\* The rest of vm_launch: from now on the host context returns to the handler,
\* and the caller's context continues at vmlaunch with interrupts off.
LaunchGuest ==
    LET h == frame.host_rsp + ContextSize
        host == [contexts[h] EXCEPT !.cs = "host"]
        guest == [contexts[frame.guest_context] EXCEPT
                     !.rip = Vmlaunch, !.intr = host.intr, !.rax = {}]
    IN  /\ At(AfterCapture) /\ ~frame.vm_exit_flag
        /\ contexts' = Stored(Store(frame.guest_context, guest), h, host)
        /\ frame' = [frame EXCEPT !.vm_exit_flag = TRUE]
        /\ regs' = Restore(guest, gdt)
        /\ UNCHANGED <<mode, osxsave, gdt, xcr0, pushed, vmcs, trapped>>

-----------------------------------------------------------------------------
(***************************************************************************)
(* The processor: VM entry and VM exit, and the guest between them.        *)
(***************************************************************************)

\* The CPU is in the guest.
NotTrapped == [instr |-> "none"]

\* VM entry: the rest of the registers is the guest's already.
Enter ==
    /\ mode' = "guest" /\ gdt' = "os"
    /\ regs' = [regs EXCEPT !.rip = vmcs.guest_rip, !.rsp = vmcs.guest_rsp,
                            !.intr = vmcs.guest_intr, !.cs = vmcs.guest_cs]
    /\ osxsave' = vmcs.guest_osxsave
    /\ trapped' = NotTrapped
    /\ UNCHANGED <<xcr0, pushed, contexts, frame, vmcs>>

EnterByVmlaunch == At(Vmlaunch) /\ Enter
EnterByVmresume == At(Vmresume) /\ Enter

GuestRuns ==
    /\ mode = "guest"
    /\ regs' \in GuestStates /\ osxsave' \in {0, 1}
    /\ UNCHANGED <<mode, gdt, xcr0, pushed, contexts, frame, vmcs, trapped>>

\* context.rax | (context.rdx << 32)
Joined(c) == c.rax \cup {b + 32 : b \in Low(c.rdx)}

\* Guests have zeros in the upper half of rax when they execute cpuid or
\* xsetbv, as a write to eax leaves them, and xsetbv has an operand that the
\* processor accepts; without CR4.OSXSAVE it does not leave the guest.
Executes(instr) ==
    /\ instr \in {"cpuid", "xsetbv"} => regs.rax = Low(regs.rax)
    /\ instr = "xsetbv" => /\ osxsave = 1 /\ Low(regs.rcx) = {}
                           /\ ValidXcr0(Joined(regs))

\* VM exit: rsp, rip, rflags, the segments and CR4 go to the VMCS and come from
\* its host state; the other registers stay.
Exit(instr) ==
    /\ mode = "guest" /\ regs.rip < CodeEnd /\ Executes(instr)
    /\ mode' = "host" /\ gdt' = "host"
    /\ vmcs' = [vmcs EXCEPT !.guest_rip = regs.rip, !.guest_rsp = regs.rsp,
                            !.guest_intr = regs.intr, !.guest_cs = regs.cs,
                            !.guest_osxsave = osxsave, !.reason = instr]
    /\ regs' = [regs EXCEPT !.rip = vmcs.host_rip, !.rsp = vmcs.host_rsp,
                            !.intr = 0, !.cs = "host"]
    /\ osxsave' = vmcs.host_osxsave
    /\ trapped' = [instr |-> instr, regs |-> regs, osxsave |-> osxsave, xcr0 |-> xcr0]
    /\ UNCHANGED <<xcr0, pushed, contexts, frame>>

-----------------------------------------------------------------------------
(***************************************************************************)
(* The VM exit.                                                            *)
(***************************************************************************)

\* vm_exit_entry: rsp is the address of the guest's context, behind which the
\* host's is.
CaptureGuest ==
    LET a == regs.rsp
    IN  /\ At(VmExitEntry)
        /\ contexts' = Store(a, CapturedIntoStack(regs, a))
        /\ regs' = [regs EXCEPT !.rip = ZppVmExit, !.rdi = a + ContextSize, !.rsp = a - 1]
        /\ UNCHANGED <<mode, osxsave, gdt, xcr0, pushed, frame, vmcs, trapped>>

\* zpp_vm_exit
RestoreHost ==
    /\ At(ZppVmExit)
    /\ regs' = Restore(contexts[regs.rdi], gdt)
    /\ UNCHANGED <<mode, osxsave, gdt, xcr0, pushed, contexts, frame, vmcs, trapped>>

\* The handler runs for the exit that has been captured.
Handling(reason) == At(AfterCapture) /\ frame.vm_exit_flag /\ vmcs.reason = reason

GuestsContext == contexts[frame.host_rsp]

\* The end of the handler, for context c: the guest continues behind the
\* instruction, and the context at vmresume.
Resume(c) ==
    LET resumed == [c EXCEPT !.rip = Vmresume]
    IN  /\ vmcs' = [vmcs EXCEPT !.guest_rip = @ + Length[vmcs.reason]]
        /\ contexts' = Store(frame.host_rsp, resumed)
        /\ regs' = Restore(resumed, gdt)
        /\ UNCHANGED <<mode, gdt, pushed, frame, trapped>>

\* cpuid: the results, which have 32 bits, are assigned to the registers of 64
\* bits; the leaf is compared with all of rax.
HandleCpuid ==
    LET c == GuestsContext
        a == Cpuid(Low(c.rax), Low(c.rcx))
        b == CASE c.rax = {0}  -> [a EXCEPT !.rcx = @ \cup {31}]
               [] c.rax = {30} -> [a EXCEPT !.rbx = HypervisorName.rbx,
                                            !.rcx = HypervisorName.rcx,
                                            !.rdx = HypervisorName.rdx]
               [] OTHER        -> a
    IN  /\ Handling("cpuid")
        /\ Resume([c EXCEPT !.rax = Low(b.rax), !.rbx = Low(b.rbx),
                            !.rcx = Low(b.rcx), !.rdx = Low(b.rdx)])
        /\ UNCHANGED <<osxsave, xcr0>>

\* Mutant: CR4.OSXSAVE is taken to be set as it is in the guest.
HandleXsetbvWithoutCr4 ==
    LET c == GuestsContext
    IN  /\ Handling("xsetbv")
        /\ IF osxsave = 1 /\ Low(c.rcx) = {} /\ ValidXcr0(Joined(c))
           THEN xcr0' = Joined(c) /\ Resume(c)
           ELSE /\ regs' = [regs EXCEPT !.rip = Fault]
                /\ UNCHANGED <<mode, gdt, xcr0, pushed, contexts, frame, vmcs, trapped>>
        /\ UNCHANGED osxsave

\* xsetbv, with CR4.OSXSAVE set in the CR4 the VM exit loaded; the processor
\* refuses it otherwise, and for an invalid operand.
HandleXsetbv ==
    LET c == GuestsContext
        cr4 == IF osxsave = 0 THEN 1 ELSE osxsave
    IN  /\ Handling("xsetbv")
        /\ osxsave' = cr4
        /\ IF cr4 = 1 /\ Low(c.rcx) = {} /\ ValidXcr0(Joined(c))
           THEN xcr0' = Joined(c) /\ Resume(c)
           ELSE /\ regs' = [regs EXCEPT !.rip = Fault]
                /\ UNCHANGED <<mode, gdt, xcr0, pushed, contexts, frame, vmcs, trapped>>

HandleInvd == Handling("invd") /\ Resume(GuestsContext) /\ UNCHANGED <<osxsave, xcr0>>

\* Any other instruction is skipped.
HandleOther ==
    /\ \E instr \in Instructions \ {"cpuid", "xsetbv", "invd"} : Handling(instr)
    /\ Resume(GuestsContext)
    /\ UNCHANGED <<osxsave, xcr0>>

-----------------------------------------------------------------------------
\* A step of the hypervisor, or into the guest.
Host ==
    \/ StartCalled \/ LaunchOnPrivateStack \/ MainFails \/ MainSucceeds
    \/ CaptureHost \/ LaunchGuest \/ EnterByVmlaunch
    \/ CaptureGuest \/ RestoreHost
    \/ HandleCpuid \/ HandleXsetbv \/ HandleInvd \/ HandleOther \/ EnterByVmresume

\* The launch failed and the operating system goes on without the hypervisor.
Refused == mode = "os" /\ UNCHANGED vars

Next == Host \/ GuestRuns \/ (\E instr \in Instructions : Exit(instr)) \/ Refused

Safety == Init /\ [][Next]_vars

\* The hypervisor's code is executed; the guest may do nothing.
Spec == Safety /\ WF_vars(Host)

-----------------------------------------------------------------------------
(***************************************************************************)
(* Properties.                                                             *)
(***************************************************************************)
\* The places of contexts: the caller's stack, the top of the private stack,
\* and the two of host_vm_launch_stack.
Places == {pushed.at - 117, StackTop, LaunchStackEnd - 2 * ContextSize,
           LaunchStackEnd - ContextSize}

\* The variables have their types, and contexts are only stored in their places.
TypeOK ==
    /\ mode \in {"host", "guest", "os"} /\ regs \in Contexts
    /\ gdt \in {"os", "intermediate", "host"}
    /\ osxsave \in {0, 1} /\ xcr0 \in Words
    /\ \E s \in SUBSET Places : contexts \in [s -> Contexts]
    /\ frame.guest_context \in Places \cup {0} /\ frame.vm_exit_flag \in BOOLEAN
    /\ trapped.instr \in Instructions \cup {"call", "none"}

\* The registers and every saved context are complete (TypeOK).
\* Functions are entered with the stack pointer 8 bytes off a multiple of 16,
\* as movdqa and fxsave on aligned variables need it; no context that may still
\* be restored lies where the stack of the running code grows; and every VM
\* exit finds the frame of vm_launch.
StackIsSound ==
    /\ TypeOK
    /\ mode = "host" =>
          /\ regs.rip \in {LaunchOnCpu, PrivateStack, ZppVmExit} => ~Even(regs.rsp)
          /\ \A a \in DOMAIN contexts :
                /\ Even(a)
                /\ a < StackEnd /\ regs.rsp < StackEnd => regs.rsp =< a
                /\ \A b \in DOMAIN contexts : a < b => a + ContextSize =< b
          /\ regs.rip = AfterCapture => regs.rsp = frame.at

\* No exception is raised in the hypervisor, which could not handle it: iretq
\* finds its code segment whichever GDT is loaded, and xsetbv has CR4.OSXSAVE
\* although each VM exit loads the CR4 of the launch.
NoFault == regs.rip # Fault

\* While the hypervisor's GDT or the intermediate one is loaded, up to the
\* instruction that enters the guest, interrupts are off.
InterruptsAreOff == mode = "host" /\ gdt # "os" => regs.intr = 0

\* What the operating system sees: while the hypervisor runs, what it had when
\* the hypervisor was entered.
SeenState == CASE mode = "guest" -> "running"
               [] mode = "os" -> "refused"
               [] mode = "host" /\ trapped.instr = "call" -> "calling"
               [] OTHER -> "exiting"
SeenRegs == IF mode = "host" THEN trapped.regs ELSE regs
SeenOsxsave == IF mode = "host" THEN trapped.osxsave ELSE osxsave
SeenXcr0 == IF mode = "host" THEN trapped.xcr0 ELSE xcr0
SeenInstr == IF mode = "host" /\ trapped.instr # "call" THEN trapped.instr ELSE "none"

Promise == INSTANCE Guest WITH
    state <- SeenState, regs <- SeenRegs, osxsave <- SeenOsxsave, xcr0 <- SeenXcr0,
    instr <- SeenInstr

\* The way through the saved contexts is invisible to the operating system:
\* its call returns with its registers, and every instruction that leaves the
\* guest is completed as Guest says, whatever the registers held.
ImplementsGuest == Promise!Spec

\* Its part without fairness, for the proof.
ImplementsGuestSafety == Promise!Safety

=============================================================================
