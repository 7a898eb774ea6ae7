------------------------------- MODULE Launch -------------------------------
(***************************************************************************)
(* The launch protocol of the hypervisor.                                  *)
(*                                                                         *)
(* zpp_load_elf (the loader) calls the entry point of the module on one    *)
(* CPU after the other.  Each call runs _start, launch_on_cpu and          *)
(* hypervisor::main on that CPU, and either comes back with the CPU inside *)
(* a virtual machine (rax = 0) or with an error code in rax.  CPUs that    *)
(* were launched earlier run the operating system as guests meanwhile, and *)
(* enter and leave the VM exit handler at any moment.                      *)
(*                                                                         *)
(* Every launch works on the same global object g_state.hypervisor: the    *)
(* captured registers, the slot counters and the addresses of the regions  *)
(* are members that the next CPU overwrites.  The module keeps each of     *)
(* these members, and represents the value of a machine register by where  *)
(* it comes from: the operating system's value of CPU c, the tables of an  *)
(* intermediate slot, or the hypervisor's own tables.                      *)
(***************************************************************************)
EXTENDS Integers, FiniteSets

CONSTANTS
    NumCpus,     \* what number_of_cpus() reports to the loader
    MaxCpus,     \* hypervisor::max_cpus, the size of every per-CPU array
    HasTss,      \* the CPUs whose TR selects a present TSS (none in UEFI)
    CallerIf,    \* CallerIf[c]: the interrupt flag of the caller on CPU c
    MayFail      \* the operations whose failure the environment may cause

Cpus == 0 .. NumCpus - 1

FallibleOperations ==
    { "alloc", "cpus", "affinity", "restore_affinity", "p2v", "ept",
      "feature_control", "vmxon", "vmclear", "vmptrld", "vmlaunch" }

ASSUME NumCpusAssumption == NumCpus \in Nat \ {0}
ASSUME MaxCpusAssumption == MaxCpus \in Nat \ {0}
ASSUME HasTssAssumption == HasTss \subseteq Cpus
ASSUME CallerIfAssumption == CallerIf \in [Cpus -> {0, 1}]
ASSUME MayFailAssumption == MayFail \subseteq FallibleOperations

(***************************************************************************)
(* Register values and table addresses, by origin.                         *)
(***************************************************************************)
Os(c) == [kind |-> "os", of |-> c]                     \* the OS's value on CPU c
Adjusted(v) == [kind |-> "vmx", of |-> v.of]           \* cr0/cr4 with the VMX fixed bits
Intermediate(k) == [kind |-> "intermediate", of |-> k] \* slot k of unprotected_memory
Host == [kind |-> "host", of |-> 0]                    \* host_cr3, host_gdt, host_tss, epml4
Null == [kind |-> "null", of |-> 0]                    \* a zero-initialised member

Slots == 0 .. NumCpus      \* indices into the per-CPU arrays
NoSlot == -1

Values ==
    [kind : {"os", "vmx", "intermediate", "host", "null"}, of : Slots]

VARIABLES
    loader,   \* where zpp_load_elf is: "load", "call", "wait" or "done"
    cpu,      \* its loop variable i
    result,   \* what it returned: "none" so far, "success" or "failure"
    pc,       \* pc[c]: where CPU c is in the code of the module
    ret,      \* ret[c]: the error code main returned on CPU c
    guards,   \* guards[c]: the active scope guards of main and enter_root_mode
    reg,      \* reg[c]: the machine registers of CPU c
    frame,    \* frame[c]: the saved values in the frames of the launch on CPU c:
              \* rflags.if of the caller context, cr0/cr4 of enter_root_mode
    stack,    \* stack[c]: the index of the private stack CPU c runs on
    created,  \* the static flag of state::create_once
    hv,       \* the members of g_state.hypervisor a launch writes
    gdt,      \* gdt[k]: whose OS GDT was copied into intermediate_gdt[k]
    vmcs      \* vmcs[k]: the contents of the region vmx_vmcs[k]

loaderVars == <<loader, cpu, result>>
cpuVars == <<pc, ret, guards, reg, frame, stack>>
moduleVars == <<created, hv, gdt, vmcs>>
vars == <<loader, cpu, result, pc, ret, guards, reg, frame, stack,
          created, hv, gdt, vmcs>>

-----------------------------------------------------------------------------
(***************************************************************************)
(* Initial state.                                                          *)
(***************************************************************************)

\* The registers of CPU c while only the operating system uses it: vmxon is the
\* VMXON region of a CPU in VMX operation, vmcs its current VMCS, by slot.
OsRegisters(c) ==
    [ cr3 |-> Os(c), gdtr |-> Os(c), tr |-> Os(c), cr |-> Os(c),
      intr |-> CallerIf[c], vmxon |-> NoSlot, vmcs |-> NoSlot ]

\* g_state_storage before the object is constructed in it.
ZeroStorage ==
    [ available_stack_index |-> 0, next_virtual_processor |-> 0,
      guest_cr |-> Null, guest_cr3 |-> Null, gdtr |-> Null, os_tr |-> Null,
      guest_gdt_pointer |-> Null, guest_tr |-> Null,
      host_cr3 |-> Null, host_cr |-> Null, ept |-> Null,
      vmx_physical |-> 0, vmcs_physical |-> 0 ]

\* Mutant: the initialiser of next_virtual_processor is missing.
NewHypervisorUninitialised == ZeroStorage

\* The member initialisers of class hypervisor.
NewHypervisor == [ZeroStorage EXCEPT !.next_virtual_processor = 1]

\* A VMCS region after vmclear.
ClearVmcs ==
    [ vpid |-> 0, ept |-> Null, host_cr3 |-> Null, host_gdtr |-> Null,
      host_cr |-> Null, host_stack |-> NoSlot,
      guest_cr3 |-> Null, guest_gdtr |-> Null, guest_tr |-> Null,
      guest_cr |-> Null, guest_intr |-> 0 ]

Init ==
    /\ loader = "load" /\ cpu = 0 /\ result = "none"
    /\ pc = [c \in Cpus |-> "idle"]
    /\ ret = [c \in Cpus |-> "none"]
    /\ guards = [c \in Cpus |-> {}]
    /\ reg = [c \in Cpus |-> OsRegisters(c)]
    /\ frame = [c \in Cpus |-> [intr |-> 0, cr |-> Null]]
    /\ stack = [c \in Cpus |-> NoSlot]
    /\ created = FALSE
    /\ hv = ZeroStorage
    /\ gdt = [k \in Slots |-> NoSlot]
    /\ vmcs = [k \in Slots |-> ClearVmcs]

-----------------------------------------------------------------------------
(***************************************************************************)
(* The loader.  call_on_cpu blocks until the entry point has returned on   *)
(* the CPU: the loader's thread itself migrates to it (sched_setaffinity,  *)
(* KeSetSystemAffinityThread), or waits for the application processor.     *)
(***************************************************************************)
LoaderReturns(r) == loader' = "done" /\ result' = r /\ UNCHANGED cpu

\* elf.load and number_of_cpus; a failed allocation or a zero count is -1.
LoadElf ==
    /\ loader = "load"
    /\ \/ /\ loader' = "call"
          /\ UNCHANGED <<cpu, result>>
       \/ /\ {"alloc", "cpus"} \cap MayFail # {}
          /\ LoaderReturns("failure")
    /\ UNCHANGED <<cpuVars, moduleVars>>

\* call_on_cpu moves to CPU i and calls the entry point there, or fails to move.
CallOnCpu ==
    /\ loader = "call"
    /\ cpu < NumCpus
    /\ \/ /\ loader' = "wait"
          /\ pc' = [pc EXCEPT ![cpu] = "entry"]
          /\ UNCHANGED <<cpu, result>>
       \/ /\ "affinity" \in MayFail
          /\ LoaderReturns("failure")
          /\ UNCHANGED pc
    /\ UNCHANGED <<ret, guards, reg, frame, stack, moduleVars>>

\* Mutant: the result of call_on_cpu is not tested.
JoinIgnoringResult ==
    /\ loader = "wait"
    /\ pc[cpu] \in {"guest", "returned"}
    /\ loader' = "call"
    /\ cpu' = cpu + 1
    /\ UNCHANGED <<result, cpuVars, moduleVars>>

\* The entry point came back on CPU i, as a guest (rax = 0) or with an error;
\* the affinity is restored, and the loop goes on only after a success.
Join ==
    /\ loader = "wait"
    /\ pc[cpu] \in {"guest", "returned"}
    /\ \/ /\ ret[cpu] = "success"
          /\ loader' = "call"
          /\ cpu' = cpu + 1
          /\ UNCHANGED result
       \/ /\ ret[cpu] # "success" \/ "restore_affinity" \in MayFail
          /\ LoaderReturns("failure")
    /\ UNCHANGED <<cpuVars, moduleVars>>

\* Mutant: the loop stops before the last CPU.
LoadDoneEarly ==
    /\ loader = "call"
    /\ cpu = NumCpus - 1
    /\ LoaderReturns("success")
    /\ UNCHANGED <<cpuVars, moduleVars>>

\* The loop has ended: return 0.
LoadDone ==
    /\ loader = "call"
    /\ cpu = NumCpus
    /\ LoaderReturns("success")
    /\ UNCHANGED <<cpuVars, moduleVars>>

-----------------------------------------------------------------------------
(***************************************************************************)
(* Control of a CPU inside the module.                                     *)
(***************************************************************************)
Goto(c, from, to) == pc[c] = from /\ pc' = [pc EXCEPT ![c] = to]

\* main returns e: the scope guards run before it does.
Fail(c, from, e) ==
    /\ Goto(c, from, "unwind")
    /\ ret' = [ret EXCEPT ![c] = e]

\* A fault that nothing in the module handles: the CPU is lost to its caller.
Fault(c, from) == Goto(c, from, "fault")

\* Mutant: every launch uses the first slot.
SlotShared == 0

\* The per-CPU array slot of the launch in progress.
Slot == hv.next_virtual_processor - 1

PushGuard(c, g) == guards' = [guards EXCEPT ![c] = @ \cup {g}]

\* Mutant: the stack index is incremented before it is used.
EntryIncrementsFirst(c) ==
    LET object == IF created THEN hv ELSE NewHypervisor
    IN  /\ Goto(c, "entry", "main")
        /\ frame' = [frame EXCEPT ![c].intr = reg[c].intr]
        /\ created' = TRUE
        /\ stack' = [stack EXCEPT ![c] = object.available_stack_index + 1]
        /\ hv' = [object EXCEPT !.available_stack_index = @ + 1]
        /\ UNCHANGED <<loaderVars, ret, guards, reg, gdt, vmcs>>

\* _start captures the caller context; zpp_hypervisor_main constructs the
\* global object once; launch_on_cpu takes the next stack and jumps onto it.
Entry(c) ==
    LET object == IF created THEN hv ELSE NewHypervisor
    IN  /\ Goto(c, "entry", "main")
        /\ frame' = [frame EXCEPT ![c].intr = reg[c].intr]
        /\ created' = TRUE
        /\ stack' = [stack EXCEPT ![c] = object.available_stack_index]
        /\ hv' = [object EXCEPT !.available_stack_index = @ + 1]
        /\ UNCHANGED <<loaderVars, ret, guards, reg, gdt, vmcs>>

\* Mutant: the registers are captured on the first CPU only.
InitializeRegistersOnce(c) ==
    /\ Goto(c, "main", IF c = 0 THEN "host" ELSE "gdt")
    /\ PushGuard(c, "interrupts")
    /\ reg' = [reg EXCEPT ![c].intr = 0]
    /\ hv' = IF c # 0 THEN hv
             ELSE [hv EXCEPT !.guest_cr = reg[c].cr, !.guest_cr3 = reg[c].cr3,
                             !.gdtr = reg[c].gdtr, !.os_tr = reg[c].tr]
    /\ UNCHANGED <<loaderVars, ret, frame, stack, created, gdt, vmcs>>

\* main disables interrupts and captures the registers into the object.
InitializeRegisters(c) ==
    /\ Goto(c, "main", IF c = 0 THEN "host" ELSE "gdt")
    /\ PushGuard(c, "interrupts")
    /\ reg' = [reg EXCEPT ![c].intr = 0]
    /\ hv' = [hv EXCEPT !.guest_cr = reg[c].cr, !.guest_cr3 = reg[c].cr3,
                        !.gdtr = reg[c].gdtr, !.os_tr = reg[c].tr]
    /\ UNCHANGED <<loaderVars, ret, frame, stack, created, gdt, vmcs>>

\* The first CPU builds the host page table, the physical to virtual map of
\* the module (which may be too small), the host IDT and the host GDT.
InitializeHost(c) ==
    /\ hv' = [hv EXCEPT !.host_cr3 = Host]
    /\ \/ Goto(c, "host", "gdt") /\ UNCHANGED ret
       \/ "p2v" \in MayFail /\ Fail(c, "host", "physical_to_virtual_capacity_error")
    /\ UNCHANGED <<loaderVars, guards, reg, frame, stack, created, gdt, vmcs>>

\* initialize_intermediate_gdt and load_intermediate_gdt: the OS GDT is copied
\* into the slot; a TSS is added to the copy, and TR loaded, if the OS has none.
InitializeIntermediateGdt(c) ==
    LET present == hv.gdtr.of \in HasTss
        guest_gdt == IF present THEN hv.gdtr ELSE Intermediate(Slot)
        guest_tr == IF present THEN hv.os_tr ELSE Intermediate(Slot)
    IN  /\ Goto(c, "gdt", "cr3")
        /\ PushGuard(c, "gdt")
        /\ gdt' = [gdt EXCEPT ![Slot] = hv.gdtr.of]
        /\ hv' = [hv EXCEPT !.guest_gdt_pointer = guest_gdt, !.guest_tr = guest_tr]
        /\ reg' = [reg EXCEPT ![c] =
               [@ EXCEPT !.gdtr = Intermediate(Slot),
                         !.tr = IF guest_tr # hv.os_tr THEN guest_tr ELSE reg[c].tr]]
        /\ UNCHANGED <<loaderVars, ret, frame, stack, created, vmcs>>

\* Switch to the host page table.
SwitchCr3(c) ==
    /\ Goto(c, "cr3", IF c = 0 THEN "ept" ELSE "vmx")
    /\ PushGuard(c, "cr3")
    /\ reg' = [reg EXCEPT ![c].cr3 = hv.host_cr3]
    /\ UNCHANGED <<loaderVars, ret, frame, stack, moduleVars>>

\* The first CPU reads the MTRRs, builds the EPT and takes the module out of
\* it, running out of EPT pages if the module needs too many.
InitializeEpt(c) ==
    /\ \/ /\ Goto(c, "ept", "vmx")
          /\ hv' = [hv EXCEPT !.ept = Host]
          /\ UNCHANGED ret
       \/ /\ "ept" \in MayFail
          /\ Fail(c, "ept", "out_of_ept_entries")
          /\ UNCHANGED hv
    /\ UNCHANGED <<loaderVars, guards, reg, frame, stack, created, gdt, vmcs>>

\* initialize_vmx: the regions of the slot and the VMX-compatible cr0 and cr4.
InitializeVmx(c) ==
    /\ Goto(c, "vmx", "cr")
    /\ hv' = [hv EXCEPT !.vmx_physical = Slot, !.vmcs_physical = Slot,
                        !.host_cr = Adjusted(hv.guest_cr)]
    /\ UNCHANGED <<loaderVars, ret, guards, reg, frame, stack, created, gdt, vmcs>>

\* Mutant: no guard restores cr0 and cr4.
EnterRootModeUnguarded(c) ==
    /\ Goto(c, "cr", "vmxon")
    /\ frame' = [frame EXCEPT ![c].cr = reg[c].cr]
    /\ reg' = [reg EXCEPT ![c].cr = hv.host_cr]
    /\ UNCHANGED <<loaderVars, ret, guards, stack, moduleVars>>

\* enter_root_mode: back up cr0 and cr4 in locals, write the VMX values.
EnterRootMode(c) ==
    /\ Goto(c, "cr", "vmxon")
    /\ PushGuard(c, "cr")
    /\ frame' = [frame EXCEPT ![c].cr = reg[c].cr]
    /\ reg' = [reg EXCEPT ![c].cr = hv.host_cr]
    /\ UNCHANGED <<loaderVars, ret, stack, moduleVars>>

\* vmxon; it faults where IA32_FEATURE_CONTROL forbids it, which no code tests.
Vmxon(c) ==
    /\ \/ /\ Goto(c, "vmxon", "vmclear")
          /\ PushGuard(c, "vmx")
          /\ reg' = [reg EXCEPT ![c].vmxon = hv.vmx_physical]
          /\ UNCHANGED ret
       \/ /\ "vmxon" \in MayFail
          /\ Fail(c, "vmxon", "vmxon_failed")
          /\ UNCHANGED <<guards, reg>>
       \/ /\ "feature_control" \in MayFail
          /\ Fault(c, "vmxon")
          /\ UNCHANGED <<ret, guards, reg>>
    /\ UNCHANGED <<loaderVars, frame, stack, moduleVars>>

Vmclear(c) ==
    /\ \/ /\ Goto(c, "vmclear", "vmptrld")
          /\ vmcs' = [vmcs EXCEPT ![hv.vmcs_physical] = ClearVmcs]
          /\ UNCHANGED ret
       \/ /\ "vmclear" \in MayFail
          /\ Fail(c, "vmclear", "vmclear_failed")
          /\ UNCHANGED vmcs
    /\ UNCHANGED <<loaderVars, guards, reg, frame, stack, created, hv, gdt>>

\* vmptrld; then enter_root_mode cancels its guards, and main takes over the
\* one that turns VMX off.
Vmptrld(c) ==
    /\ \/ /\ Goto(c, "vmptrld", "vmcs")
          /\ reg' = [reg EXCEPT ![c].vmcs = hv.vmcs_physical]
          /\ guards' = [guards EXCEPT ![c] = @ \ {"cr"}]
          /\ UNCHANGED ret
       \/ /\ "vmptrld" \in MayFail
          /\ Fail(c, "vmptrld", "vmptrld_failed")
          /\ UNCHANGED <<guards, reg>>
    /\ UNCHANGED <<loaderVars, frame, stack, moduleVars>>

\* setup_vmcs writes the shared members into the current VMCS.
SetupVmcs(c) ==
    /\ Goto(c, "vmcs", "launch")
    /\ vmcs' = [vmcs EXCEPT ![reg[c].vmcs] =
           [ vpid |-> hv.next_virtual_processor, ept |-> hv.ept,
             host_cr3 |-> hv.host_cr3, host_gdtr |-> Host, host_cr |-> hv.host_cr,
             host_stack |-> @.host_stack,
             guest_cr3 |-> hv.guest_cr3, guest_gdtr |-> hv.guest_gdt_pointer,
             guest_tr |-> hv.guest_tr, guest_cr |-> hv.host_cr,
             guest_intr |-> frame[c].intr ]]
    /\ UNCHANGED <<loaderVars, ret, guards, reg, frame, stack, created, hv, gdt>>

\* Mutant: next_virtual_processor is not incremented.
VmLaunchSameProcessor(c) ==
    /\ Goto(c, "launch", "vmlaunch")
    /\ vmcs' = [vmcs EXCEPT ![reg[c].vmcs].host_stack = stack[c]]
    /\ ret' = [ret EXCEPT ![c] = "success"]
    /\ UNCHANGED <<loaderVars, guards, reg, frame, stack, created, hv, gdt>>

\* vm_launch: the VM exit stack lies on the private stack; rax becomes 0, and
\* restore_context jumps to vmlaunch with interrupts still disabled.
VmLaunch(c) ==
    /\ Goto(c, "launch", "vmlaunch")
    /\ vmcs' = [vmcs EXCEPT ![reg[c].vmcs].host_stack = stack[c]]
    /\ hv' = [hv EXCEPT !.next_virtual_processor = @ + 1]
    /\ ret' = [ret EXCEPT ![c] = "success"]
    /\ UNCHANGED <<loaderVars, guards, reg, frame, stack, created, gdt>>

\* VM entry loads the guest state of the current VMCS.
EnterGuest(c, from) ==
    LET v == vmcs[reg[c].vmcs]
    IN  /\ Goto(c, from, "guest")
        /\ reg' = [reg EXCEPT ![c] =
               [@ EXCEPT !.cr3 = v.guest_cr3, !.gdtr = v.guest_gdtr,
                         !.tr = v.guest_tr, !.cr = v.guest_cr, !.intr = v.guest_intr]]

\* The vmlaunch instruction.  After a failure the wrapper executes ret with
\* the caller's stack pointer, which the host page table does not map.
Vmlaunch(c) ==
    /\ \/ EnterGuest(c, "vmlaunch")
       \/ /\ "vmlaunch" \in MayFail
          /\ Fault(c, "vmlaunch")
          /\ UNCHANGED reg
    /\ UNCHANGED <<loaderVars, ret, guards, frame, stack, moduleVars>>

-----------------------------------------------------------------------------
(***************************************************************************)
(* VM exits of a launched CPU.                                             *)
(***************************************************************************)

\* The guest executes an instruction that exits: its state is saved into the
\* VMCS and the host state loaded; vm_exit_entry restores the host context on
\* the stack of the VMCS.
VmExit(c) ==
    LET v == vmcs[reg[c].vmcs]
    IN  /\ Goto(c, "guest", "vmm")
        /\ vmcs' = [vmcs EXCEPT ![reg[c].vmcs] =
               [@ EXCEPT !.guest_cr3 = reg[c].cr3, !.guest_gdtr = reg[c].gdtr,
                         !.guest_tr = reg[c].tr, !.guest_cr = reg[c].cr,
                         !.guest_intr = reg[c].intr]]
        /\ reg' = [reg EXCEPT ![c] =
               [@ EXCEPT !.cr3 = v.host_cr3, !.gdtr = v.host_gdtr, !.tr = Host,
                         !.cr = v.host_cr, !.intr = 0]]
        /\ stack' = [stack EXCEPT ![c] = v.host_stack]
        /\ UNCHANGED <<loaderVars, ret, guards, frame, created, hv, gdt>>

\* Mutant: the VMM code returns, and main with it.
VmResumeReturns(c) ==
    /\ Goto(c, "vmm", "unwind")
    /\ UNCHANGED <<loaderVars, ret, guards, reg, frame, stack, moduleVars>>

\* The VMM code emulates the instruction, advances rip and resumes the guest.
VmResume(c) ==
    /\ EnterGuest(c, "vmm")
    /\ UNCHANGED <<loaderVars, ret, guards, frame, stack, moduleVars>>

-----------------------------------------------------------------------------
(***************************************************************************)
(* Unwinding: the scope guards of main and enter_root_mode run in the      *)
(* reverse order of their declaration.                                     *)
(***************************************************************************)
GuardNames == {"interrupts", "gdt", "cr3", "cr", "vmx"}

\* Mutant: the guard that enables interrupts is declared after the one for
\* the GDT.
RankInterruptsLater == [g \in GuardNames |->
           CASE g = "gdt" -> 1
             [] g = "interrupts" -> 2
             [] g = "cr3" -> 3
             [] g = "cr" -> 4
             [] g = "vmx" -> 5]

\* Mutant: vmxoff runs after cr0 and cr4 were restored.
RankVmxFirst == [g \in GuardNames |->
           CASE g = "interrupts" -> 1
             [] g = "gdt" -> 2
             [] g = "cr3" -> 3
             [] g = "vmx" -> 4
             [] g = "cr" -> 5]

\* The declaration order of the guards.
Rank == [g \in GuardNames |->
           CASE g = "interrupts" -> 1
             [] g = "gdt" -> 2
             [] g = "cr3" -> 3
             [] g = "cr" -> 4
             [] g = "vmx" -> 5]

\* The guard g of CPU c is the next one to run, and leaves the set.
Unwind(c, g) ==
    /\ pc[c] = "unwind"
    /\ g \in guards[c]
    /\ \A h \in guards[c] : Rank[h] =< Rank[g]
    /\ guards' = [guards EXCEPT ![c] = @ \ {g}]
    /\ UNCHANGED <<loaderVars, ret, frame, stack, moduleVars>>

TurnOffVmx(c) ==
    /\ Unwind(c, "vmx")
    /\ reg' = [reg EXCEPT ![c].vmxon = NoSlot]
    /\ UNCHANGED pc

\* Clearing CR4.VMXE in VMX operation is a general protection fault.
RestoreCr(c) ==
    /\ Unwind(c, "cr")
    /\ IF reg[c].vmxon = NoSlot
       THEN reg' = [reg EXCEPT ![c].cr = frame[c].cr] /\ UNCHANGED pc
       ELSE Fault(c, "unwind") /\ UNCHANGED reg

\* The guard reads the shared member guest_cr3.
RestoreCr3(c) ==
    /\ Unwind(c, "cr3")
    /\ reg' = [reg EXCEPT ![c].cr3 = hv.guest_cr3]
    /\ UNCHANGED pc

\* load_os_gdt: TR is reloaded from the OS GDT if initialize_intermediate_gdt
\* changed it, which faults because the OS has no present TSS there.
RestoreGdt(c) ==
    /\ Unwind(c, "gdt")
    /\ reg' = [reg EXCEPT ![c].gdtr = hv.gdtr]
    /\ IF hv.guest_tr # hv.os_tr THEN Fault(c, "unwind") ELSE UNCHANGED pc

\* enable_interrupts, whatever the flag was before.
RestoreInterrupts(c) ==
    /\ Unwind(c, "interrupts")
    /\ reg' = [reg EXCEPT ![c].intr = 1]
    /\ UNCHANGED pc

\* launch_on_cpu_private_stack: the error code goes into rax and the caller
\* context, with its rflags, is restored.
ReturnError(c) ==
    /\ guards[c] = {}
    /\ Goto(c, "unwind", "returned")
    /\ reg' = [reg EXCEPT ![c].intr = frame[c].intr]
    /\ UNCHANGED <<loaderVars, ret, guards, frame, stack, moduleVars>>

-----------------------------------------------------------------------------
(***************************************************************************)
(* The system.                                                             *)
(***************************************************************************)
LoaderStep == LoadElf \/ CallOnCpu \/ Join \/ LoadDone

LaunchStep(c) ==
    \/ Entry(c) \/ InitializeRegisters(c) \/ InitializeHost(c)
    \/ InitializeIntermediateGdt(c) \/ SwitchCr3(c) \/ InitializeEpt(c)
    \/ InitializeVmx(c) \/ EnterRootMode(c) \/ Vmxon(c) \/ Vmclear(c)
    \/ Vmptrld(c) \/ SetupVmcs(c) \/ VmLaunch(c) \/ Vmlaunch(c)

UnwindStep(c) ==
    \/ TurnOffVmx(c) \/ RestoreCr(c) \/ RestoreCr3(c) \/ RestoreGdt(c)
    \/ RestoreInterrupts(c) \/ ReturnError(c)

\* The load has ended, or waits for ever for a CPU that is lost; the guests need
\* not execute anything more.
Finished == (loader = "done" \/ \E c \in Cpus : pc[c] = "fault") /\ UNCHANGED vars

Next ==
    \/ LoaderStep
    \/ \E c \in Cpus : LaunchStep(c) \/ UnwindStep(c) \/ VmExit(c) \/ VmResume(c)
    \/ Finished

(***************************************************************************)
(* Fairness.  A CPU that executes the code of the module, and the thread   *)
(* that executes the loader, take their next step.  The thread's return    *)
(* from the entry point is interrupted by VM exits, each of which retires  *)
(* one of its instructions (rip += vm_exit_instruction_length), so it is   *)
(* strongly fair.  Nothing makes a guest execute an instruction that exits.*)
(***************************************************************************)
Fairness ==
    /\ WF_vars(LoadElf) /\ WF_vars(CallOnCpu) /\ SF_vars(Join) /\ WF_vars(LoadDone)
    /\ \A c \in Cpus : WF_vars(LaunchStep(c)) /\ WF_vars(UnwindStep(c))
                         /\ WF_vars(VmResume(c))

Spec == Init /\ [][Next]_vars /\ Fairness

-----------------------------------------------------------------------------
(***************************************************************************)
(* Properties.                                                             *)
(***************************************************************************)
LaunchPcs ==
    { "entry", "main", "host", "gdt", "cr3", "ept", "vmx", "cr", "vmxon", "vmclear",
      "vmptrld", "vmcs", "launch", "vmlaunch" }

Launched == {"guest", "vmm"}

Errors ==
    { "physical_to_virtual_capacity_error", "out_of_ept_entries", "vmxon_failed",
      "vmclear_failed", "vmptrld_failed" }

SlotOrNone == Slots \cup {NoSlot}

Registers ==
    [ cr3 : Values, gdtr : Values, tr : Values, cr : Values, intr : {0, 1},
      vmxon : SlotOrNone, vmcs : SlotOrNone ]

Hypervisor ==
    [ available_stack_index : Nat, next_virtual_processor : Nat,
      guest_cr : Values, guest_cr3 : Values, gdtr : Values, os_tr : Values,
      guest_gdt_pointer : Values, guest_tr : Values,
      host_cr3 : Values, host_cr : Values, ept : Values,
      vmx_physical : Slots, vmcs_physical : Slots ]

Vmcs ==
    [ vpid : Nat, ept : Values, host_cr3 : Values, host_gdtr : Values,
      host_cr : Values, host_stack : SlotOrNone,
      guest_cr3 : Values, guest_gdtr : Values, guest_tr : Values,
      guest_cr : Values, guest_intr : {0, 1} ]

\* Every variable has its type: in particular no launch indexes the per-CPU
\* arrays with a slot below zero or past the one of the last CPU.
TypeOK ==
    /\ loader \in {"load", "call", "wait", "done"}
    /\ cpu \in Slots
    /\ result \in {"none", "success", "failure"}
    /\ pc \in [Cpus -> LaunchPcs \cup Launched \cup {"idle", "unwind", "returned", "fault"}]
    /\ ret \in [Cpus -> Errors \cup {"none", "success"}]
    /\ guards \in [Cpus -> SUBSET GuardNames]
    /\ reg \in [Cpus -> Registers]
    /\ frame \in [Cpus -> [intr : {0, 1}, cr : Values]]
    /\ stack \in [Cpus -> SlotOrNone]
    /\ created \in BOOLEAN
    /\ hv \in Hypervisor
    /\ gdt \in [Slots -> SlotOrNone]
    /\ vmcs \in [Slots -> Vmcs]

\* Each CPU has a stack, a VMXON region, a VMCS region and a virtual processor
\* id of its own, although all launches take them from counters in one object;
\* the id is never 0, which VM entry rejects, and VM exits of a CPU arrive on
\* the stack it was launched on.
OwnResources ==
    /\ \A c \in Cpus : pc[c] \in Launched =>
          /\ vmcs[reg[c].vmcs].vpid # 0
          /\ vmcs[reg[c].vmcs].host_stack = stack[c]
    /\ \A c, d \in Cpus : c # d =>
          /\ stack[c] # NoSlot => stack[c] # stack[d]
          /\ reg[c].vmxon # NoSlot => reg[c].vmxon # reg[d].vmxon
          /\ reg[c].vmcs # NoSlot => reg[c].vmcs # reg[d].vmcs
          /\ {pc[c], pc[d]} \subseteq Launched =>
                vmcs[reg[c].vmcs].vpid # vmcs[reg[d].vmcs].vpid

\* "Stack storage for the hypervisor, each CPU has its own stack" (hypervisor.h):
\* the slots in use lie inside the arrays of size max_cpus.
InStorage ==
    \A c \in Cpus : /\ stack[c] < MaxCpus
                    /\ reg[c].vmxon < MaxCpus
                    /\ reg[c].vmcs < MaxCpus

\* The CPU whose descriptors are in the table a GDTR value refers to.
GdtOwner(v) ==
    CASE v.kind = "os" -> v.of
      [] v.kind = "intermediate" -> gdt[v.of]
      [] OTHER -> NoSlot

\* A guest runs with the registers its own CPU had when its launch was called,
\* although setup_vmcs reads them from members every launch overwrites; its
\* GDT holds its own descriptors, TR is a TSS in that GDT, and the EPT and the
\* host page table it runs under were built.
GuestStateIsOwn ==
    \A c \in Cpus : pc[c] = "guest" =>
        /\ reg[c].cr3 = Os(c)
        /\ reg[c].cr = Adjusted(Os(c))
        /\ reg[c].intr = CallerIf[c]
        /\ GdtOwner(reg[c].gdtr) = c
        /\ reg[c].tr = IF c \in HasTss THEN Os(c) ELSE reg[c].gdtr
        /\ vmcs[reg[c].vmcs].ept = Host
        /\ vmcs[reg[c].vmcs].host_cr3 = Host

\* Whenever an interrupt can be delivered on a CPU that is not a guest, the
\* CPU has the page table, GDT and TR of the operating system, and VMX is off.
InterruptSafety ==
    \A c \in Cpus : reg[c].intr = 1 /\ pc[c] # "guest" =>
        reg[c] = [OsRegisters(c) EXCEPT !.intr = 1]

\* A launch that returns an error has restored every register of its caller,
\* whichever step failed, and has left VMX operation.
FailureRestores ==
    \A c \in Cpus : pc[c] = "returned" =>
        /\ reg[c] = OsRegisters(c)
        /\ ret[c] \in Errors

\* "On failure this function will restore the context with an error code at
\* caller_context.rax" (hypervisor.h): no launch, successful or not, loses its
\* CPU to a fault.
NoFault == \A c \in Cpus : pc[c] # "fault"

\* A launch that has failed loses its CPU only to the ltr of load_os_gdt, where
\* there is no TSS to go back to and every other guard but the last has run; one
\* that has not only to a vmxon or vmlaunch the processor does not allow.
NoOtherFault ==
    \A c \in Cpus : pc[c] = "fault" =>
        IF ret[c] \in Errors
        THEN c \notin HasTss /\ guards[c] = {"interrupts"}
        ELSE \/ ret[c] = "none" /\ "feature_control" \in MayFail
             \/ ret[c] = "success" /\ "vmlaunch" \in MayFail

\* No step of another CPU or of the loader changes the registers, the VMCS or
\* the intermediate GDT of a CPU that is a guest or handles a VM exit.
LaunchedIsIsolated ==
    [][\A c \in Cpus : pc[c] \in Launched /\ pc'[c] = pc[c] =>
          LET k == reg[c].vmcs
          IN  /\ reg'[c] = reg[c] /\ stack'[c] = stack[c]
              /\ vmcs'[k] = vmcs[k]
              /\ gdt'[k] = gdt[k]]_vars

\* Every VM exit is followed by a resume of the guest.
ExitsResume == \A c \in Cpus : pc[c] = "vmm" ~> pc[c] = "guest"

\* Unless a step fails, which the loader reports, or a CPU is lost to a fault, the
\* load ends in success with every CPU a guest (or handling one of its exits) for
\* ever, although the loader's own thread is a guest that is interrupted by exits.
LoadSucceeds ==
    \/ <>[](result = "success" /\ \A c \in Cpus : pc[c] \in Launched)
    \/ <>(result = "failure" \/ \E c \in Cpus : pc[c] = "fault")

(***************************************************************************)
(* What the load promises: see Virtualization.                             *)
(***************************************************************************)
Abstract == INSTANCE Virtualization
    WITH virtualized <- {c \in Cpus : pc[c] \in Launched}, outcome <- result

\* The launch protocol implements Virtualization: CPUs are virtualized one after
\* the other and for ever, and success is reported only when every CPU is, even
\* where a launch can lose its CPU to a fault.  That the load ends is LoadSucceeds.
ImplementsVirtualization == Abstract!Spec

=============================================================================
