------------------------------ MODULE VmEntry ------------------------------
(***************************************************************************)
(* What becomes of the state of a CPU when the operating system on it is   *)
(* put into a virtual machine: initialize_registers captures it, the GDTs  *)
(* are prepared, setup_vmcs writes it to the VMCS, vmlaunch checks the     *)
(* VMCS and loads the guest from it, VM exits store it and load the host.  *)
(*                                                                         *)
(* Launch has the order of these steps on several CPUs and their failures; *)
(* this module has one CPU, the first, and the values: descriptors,        *)
(* selectors, segment registers and control bits.  A register no code      *)
(* computes with is a name: the operating system's value, the host's, zero *)
(* or what a VM exit resets it to.  What vmlaunch checks and what a VM     *)
(* entry and a VM exit load and store is the processor's.                  *)
(***************************************************************************)
EXTENDS Segments

CONSTANTS
    OperatingSystems,   \* what a CPU may be running: its GDT and registers
    Processors,         \* what the processor may support
    HostTss, GuestTss   \* the addresses of host_tss and of a guest_tss

CodeAndData == {"cs", "ds", "es", "fs", "gs", "ss"}
Segs == CodeAndData \cup {"tr", "ldtr"}

\* The VMX MSRs that initialize_vmx_msrs reads; not every processor has the
\* second, third and fourth group.
VmxMsrs == {"basic", "secondary", "true", "vm_functions"}

Limit(entries) == 8 * entries - 1

\* What segment register s has in use: a present entry of the GDT, which the CPU
\* accepted when it was loaded, in ring 0.  A limit that counts pages covers
\* the rest of the last one, as that of a flat segment does.
InUse(o, s) ==
    LET x == o.selector[s]
        d == o.gdt[Index(x)]
        wide == d.system /\ Index(x) + 1 \in DOMAIN o.gdt
    IN  /\ TableIndicator(x) = 0 /\ Index(x) \in DOMAIN o.gdt /\ d.present
        /\ d.granularity => d.limit % Page = Page - 1
        /\ s = "cs" => /\ ~d.system /\ d.type \in {9, 11, 13, 15} /\ d.code_64_bit
                       /\ ~d.default_operation_size
        /\ s = "ss" => ~d.system /\ d.type \in {3, 7}
        /\ s \in {"cs", "ss"} => d.privilege_level = 0 /\ Rpl(x) = 0
        /\ s \in {"ds", "es", "fs", "gs"} =>
              ~d.system /\ d.type % 2 = 1 /\ (d.type \in 0 .. 11 => d.privilege_level >= Rpl(x))
        /\ s = "tr" => wide /\ d.type = tss_busy
        /\ s = "ldtr" => wide /\ d.type = ldt

\* An operating system, or the firmware, in 64-bit mode and in ring 0.
IsOperatingSystem(o) ==
    /\ \E n \in 1 .. GdtEntries : o.gdt \in [0 .. n - 1 -> Entries]
    /\ o.selector \in [Segs -> 0 .. Limit(GdtEntries)]
    /\ o.fs_base \in Nat /\ o.gs_base \in Nat
    /\ \A s \in Segs : o.selector[s] # 0 => InUse(o, s)
    /\ o.selector["cs"] # 0

\* A 64-bit processor: what it demands it allows, and a control that needs another
\* comes with it.
IsProcessor(p) ==
    /\ \A c \in {"pin", "primary", "secondary", "exit", "entry"} : p[c].low \subseteq p[c].high
    /\ "host_address_space_size" \in p.exit.high /\ "ia_32e_mode_guest" \in p.entry.high
    /\ "mode_based_execute_control" \in p.secondary.high => "enable_ept" \in p.secondary.high
    /\ p.cr.fixed_0 \subseteq p.cr.fixed_1

ASSUME TssAssumption == HostTss \in Nat /\ GuestTss \in Nat
ASSUME OperatingSystemsAssumption == \A o \in OperatingSystems : IsOperatingSystem(o)
ASSUME ProcessorsAssumption == \A p \in Processors : IsProcessor(p)

\* VMX operation allows the bits of cr0 and cr4 that are in use.
ASSUME CrAssumption == \A o \in OperatingSystems, p \in Processors : o.cr \subseteq p.cr.fixed_1

VARIABLES
    os,      \* the operating system's GDT, selectors, FS and GS base, cr0 and cr4
    cap,     \* the processor: its MSRs, the controls, cr0 and cr4 bits it allows,
             \* whether it drops reserved bits of access rights that are written
    pc,
    cpu,     \* the registers of the CPU
    gdt,     \* the GDTs: "os", "intermediate" and "host"
    hv,      \* the members of the hypervisor
    vmcs     \* the VMCS: guest state, host state and controls

vars == <<os, cap, pc, cpu, gdt, hv, vmcs>>

-----------------------------------------------------------------------------
(***************************************************************************)
(* Initial state.                                                          *)
(***************************************************************************)

\* A GDT register and a segment register that hold zeros.
NoTable == [table |-> "none", limit |-> 0]
NoSegment == Loaded(EmptyGdt, 0)

OsEntries == (CHOOSE n \in 0 .. GdtEntries : DOMAIN os.gdt = 0 .. n - 1)

\* The registers while only the operating system uses the CPU.
OsRegisters ==
    [ seg |-> [s \in Segs |->
                  LET r == Loaded(os.gdt, os.selector[s])
                  IN  CASE s = "fs" -> [r EXCEPT !.base = os.fs_base]
                        [] s = "gs" -> [r EXCEPT !.base = os.gs_base]
                        [] OTHER -> r],
      gdtr |-> [table |-> "os", limit |-> Limit(OsEntries)],
      cr |-> os.cr, cr3 |-> "os", idtr |-> "os", debug |-> "os", sysenter |-> "os" ]

ZeroRegisters ==
    [ seg |-> [s \in Segs |-> NoSegment], gdtr |-> NoTable, cr |-> {},
      cr3 |-> "zero", idtr |-> "zero", debug |-> "zero", sysenter |-> "zero" ]

NewHypervisor ==
    [ guest_cr |-> {}, guest_cr3 |-> "zero", debug |-> "zero", ia32_fs_base |-> 0,
      ia32_gs_base |-> 0, gdtr |-> NoTable, idtr |-> "zero", guest_ldtr |-> 0,
      os_tr |-> 0, guest_tr |-> 0, guest_gdt |-> NoTable, intermediate_gdt_limit |-> 0,
      host_cr |-> {}, next_virtual_processor |-> 1 ]

\* The VMCS after vmclear.
ClearVmcs ==
    [ guest |-> ZeroRegisters, host |-> ZeroRegisters,
      vpid |-> 0, eptp |-> [memory_type |-> "uc", page_walk_length |-> 1],
      pin |-> {}, primary |-> {}, secondary |-> {}, exit |-> {}, entry |-> {} ]

Init ==
    /\ os \in OperatingSystems
    /\ cap \in Processors
    /\ pc = "main"
    /\ cpu = OsRegisters
    /\ gdt = [os |-> os.gdt, intermediate |-> EmptyGdt, host |-> EmptyGdt]
    /\ hv = NewHypervisor
    /\ vmcs = ClearVmcs

-----------------------------------------------------------------------------
(***************************************************************************)
(* main, up to the VMCS.                                                   *)
(***************************************************************************)
Goto(from, to) == pc = from /\ pc' = to

\* Mutant: the task register is not captured.
InitializeRegistersNoTr ==
    /\ Goto("main", "host_gdt")
    /\ hv' = [hv EXCEPT
                 !.guest_cr = cpu.cr, !.guest_cr3 = cpu.cr3, !.debug = cpu.debug,
                 !.ia32_fs_base = cpu.seg["fs"].base, !.ia32_gs_base = cpu.seg["gs"].base,
                 !.gdtr = cpu.gdtr, !.idtr = cpu.idtr,
                 !.guest_ldtr = cpu.seg["ldtr"].selector]
    /\ UNCHANGED <<os, cap, cpu, gdt, vmcs>>

\* The registers are captured.
InitializeRegisters ==
    /\ Goto("main", "host_gdt")
    /\ hv' = [hv EXCEPT
                 !.guest_cr = cpu.cr, !.guest_cr3 = cpu.cr3, !.debug = cpu.debug,
                 !.ia32_fs_base = cpu.seg["fs"].base, !.ia32_gs_base = cpu.seg["gs"].base,
                 !.gdtr = cpu.gdtr, !.idtr = cpu.idtr,
                 !.guest_ldtr = cpu.seg["ldtr"].selector, !.os_tr = cpu.seg["tr"].selector]
    /\ UNCHANGED <<os, cap, cpu, gdt, vmcs>>

InitializeHostGdt ==
    /\ Goto("host_gdt", "intermediate_gdt")
    /\ gdt' = [gdt EXCEPT !["host"] = HostGdt(HostTss)]
    /\ UNCHANGED <<os, cap, cpu, hv, vmcs>>

\* The GDT a GDT register addresses.
Table(r) == gdt[r.table]

\* The limit of a GDT with two more entries.
GrownLimit(limit) == limit + 2 * 8

\* The selector of an entry, in 16 bits.
SelectorOf(index) == (8 * index) % (8 * GdtEntries)

\* The operating system's GDT is copied.  If its task register selects a present
\* TSS the guest keeps its GDT, else it gets the copy, with a TSS behind it.
InitializeIntermediateGdt ==
    LET copy == CopiedInto(gdt["intermediate"], Table(hv.gdtr))
        limit == GrownLimit(hv.gdtr.limit)
        tr_index == (hv.gdtr.limit + 1) \div 8
    IN  /\ Goto("intermediate_gdt", "load_gdt")
        /\ IF from_memory(copy, hv.os_tr).present
           THEN /\ gdt' = [gdt EXCEPT !["intermediate"] = copy]
                /\ hv' = [hv EXCEPT !.guest_gdt = hv.gdtr, !.guest_tr = hv.os_tr,
                                    !.intermediate_gdt_limit = hv.gdtr.limit]
           ELSE /\ gdt' = [gdt EXCEPT !["intermediate"] = WithTss(copy, tr_index, GuestTss)]
                /\ hv' = [hv EXCEPT !.guest_gdt = [table |-> "intermediate", limit |-> limit],
                                    !.guest_tr = SelectorOf(tr_index),
                                    !.intermediate_gdt_limit = limit]
        /\ UNCHANGED <<os, cap, cpu, vmcs>>

\* lgdt of a table, and ltr of a selector of it; ltr may fault.
LoadGdt(from, to, r, tr) ==
    /\ cpu' = [cpu EXCEPT !.gdtr = r,
                          !.seg["tr"] = IF hv.guest_tr # hv.os_tr /\ LtrAccepts(Table(r), tr)
                                        THEN Loaded(MadeBusy(Table(r), tr), tr) ELSE @]
    /\ IF hv.guest_tr = hv.os_tr THEN Goto(from, to) /\ UNCHANGED gdt
       ELSE IF LtrAccepts(Table(r), tr)
       THEN Goto(from, to) /\ gdt' = [gdt EXCEPT ![r.table] = MadeBusy(@, tr)]
       ELSE Goto(from, "fault") /\ UNCHANGED gdt
    /\ UNCHANGED <<os, cap, hv, vmcs>>

\* Mutant: the TSS that was added is not loaded.
LoadIntermediateGdtNoLtr ==
    /\ Goto("load_gdt", "vmx_msrs")
    /\ cpu' = [cpu EXCEPT !.gdtr = [table |-> "intermediate",
                                    limit |-> hv.intermediate_gdt_limit % (8 * GdtEntries)]]
    /\ UNCHANGED <<os, cap, gdt, hv, vmcs>>

\* load_intermediate_gdt; the limit has 16 bits.
LoadIntermediateGdt ==
    LoadGdt("load_gdt", "vmx_msrs",
            [table |-> "intermediate", limit |-> hv.intermediate_gdt_limit % (8 * GdtEntries)],
            hv.guest_tr)

\* The switch to the host page table, and initialize_vmx_msrs: reading an MSR
\* that the processor does not have faults.
InitializeVmxMsrs ==
    /\ Goto("vmx_msrs", IF VmxMsrs \subseteq cap.msrs THEN "vmx" ELSE "fault")
    /\ cpu' = [cpu EXCEPT !.cr3 = "host"]
    /\ UNCHANGED <<os, cap, gdt, hv, vmcs>>

\* Control register bits adjusted to what VMX operation allows and needs.
AdjustedCr(bits) == (bits \cap cap.cr.fixed_1) \cup cap.cr.fixed_0

\* initialize_vmx, and enter_root_mode when it succeeds: cr0, cr4 are adjusted,
\* and the VMCS is cleared and made current.
EnterRootMode ==
    /\ Goto("vmx", "setup_vmcs")
    /\ hv' = [hv EXCEPT !.host_cr = AdjustedCr(hv.guest_cr)]
    /\ cpu' = [cpu EXCEPT !.cr = AdjustedCr(hv.guest_cr)]
    /\ vmcs' = ClearVmcs
    /\ UNCHANGED <<os, cap, gdt>>

\* main fails after the GDT was loaded: enter_root_mode puts cr0 and cr4 back,
\* the guard of main cr3.
MainFails ==
    /\ Goto("vmx", "restore_gdt")
    /\ hv' = [hv EXCEPT !.host_cr = AdjustedCr(hv.guest_cr)]
    /\ cpu' = [cpu EXCEPT !.cr3 = hv.guest_cr3]
    /\ UNCHANGED <<os, cap, gdt, vmcs>>

\* The guard of the GDT, load_os_gdt, and the return to the caller.
LoadOsGdt == LoadGdt("restore_gdt", "returned", hv.gdtr, hv.os_tr)

-----------------------------------------------------------------------------
(***************************************************************************)
(* setup_vmcs.                                                             *)
(***************************************************************************)

\* Controls limited to what the MSR allows, with what it demands.
adjust_msr(msr, value) == (value \cap msr.high) \cup msr.low

\* What vmwrite stores for access rights.
Written(rights) == IF cap.drops THEN [rights EXCEPT !.limit_high = 0] ELSE rights

\* The selectors the guest gets: those of the caller's context, which are still
\* in the registers, and the captured ones.
GuestSelector(s) ==
    CASE s = "tr" -> hv.guest_tr
      [] s = "ldtr" -> hv.guest_ldtr
      [] OTHER -> cpu.seg[s].selector

\* Mutant: the GS base is the one of the descriptor.
GuestSegmentOfDescriptor(s) ==
    LET d == from_memory(gdt["intermediate"], GuestSelector(s))
    IN  [selector |-> GuestSelector(s), limit |-> d.limit,
         base |-> context_dependent_base(d), rights |-> Written(vmx_access_rights(d))]

\* A segment of the guest, from its descriptor in the intermediate GDT; only the
\* GS base is the captured one.
GuestSegment(s) ==
    LET d == from_memory(gdt["intermediate"], GuestSelector(s))
    IN  [selector |-> GuestSelector(s), limit |-> d.limit,
         base |-> IF s = "gs" THEN hv.ia32_gs_base ELSE context_dependent_base(d),
         rights |-> Written(vmx_access_rights(d))]

\* The guest state area; nothing is written to the fields of SYSENTER.
GuestState ==
    [ seg |-> [s \in Segs |-> GuestSegment(s)], gdtr |-> hv.guest_gdt, idtr |-> hv.idtr,
      cr |-> hv.host_cr, cr3 |-> hv.guest_cr3, debug |-> hv.debug, sysenter |-> "zero" ]

\* Mutant: the task register of the guest is used for the host.
HostStateGuestTr ==
    [ZeroRegisters EXCEPT
        !.seg = [@ EXCEPT !["cs"].selector = host_cs, !["tr"].selector = hv.guest_tr,
                          !["tr"].base = HostTss],
        !.gdtr = [table |-> "host", limit |-> Limit(GdtEntries)],
        !.idtr = "host", !.cr = hv.host_cr, !.cr3 = "host"]

\* The host state area.  The host's fs_data and gs_data, its data segments and
\* SYSENTER are not told apart from zeros; the limit is the one a VM exit sets.
HostState ==
    [ZeroRegisters EXCEPT
        !.seg = [@ EXCEPT !["cs"].selector = host_cs, !["tr"].selector = host_tr,
                          !["tr"].base = HostTss],
        !.gdtr = [table |-> "host", limit |-> Limit(GdtEntries)],
        !.idtr = "host", !.cr = hv.host_cr, !.cr3 = "host"]

\* Mutant: the secondary controls are written and not enabled.
primary_controlsWithoutSecondary == {"enable_msr_bitmaps"}

\* The controls that are asked for.
primary_controls == {"enable_msr_bitmaps", "enable_secondary_controls"}
secondary_controls ==
    {"enable_ept", "enable_rdtscp", "enable_vpid", "enable_invpcid",
     "enable_xsaves_xrstors", "mode_based_execute_control"}
exit_controls == {"host_address_space_size"}
entry_controls == {"ia_32e_mode_guest"}

\* The EPT pointer: tables of four levels in write back memory.
EptPointer == [memory_type |-> "wb", page_walk_length |-> 4]

SetupVmcs ==
    /\ Goto("setup_vmcs", "vmlaunch")
    /\ vmcs' = [ guest |-> GuestState, host |-> HostState,
                 vpid |-> hv.next_virtual_processor, eptp |-> EptPointer,
                 pin |-> adjust_msr(cap.pin, {}),
                 primary |-> adjust_msr(cap.primary, primary_controls),
                 secondary |-> adjust_msr(cap.secondary, secondary_controls),
                 exit |-> adjust_msr(cap.exit, exit_controls),
                 entry |-> adjust_msr(cap.entry, entry_controls) ]
    /\ UNCHANGED <<os, cap, cpu, gdt, hv>>

-----------------------------------------------------------------------------
(***************************************************************************)
(* What the processor checks when a VM is entered.                         *)
(***************************************************************************)

\* The secondary controls count only if the primary ones enable them.
EffectiveSecondary ==
    IF "enable_secondary_controls" \in vmcs.primary THEN vmcs.secondary ELSE {}

ControlsAreValid ==
    /\ \A c \in {"pin", "primary", "exit", "entry"} :
          cap[c].low \subseteq vmcs[c] /\ vmcs[c] \subseteq cap[c].high
    /\ "enable_secondary_controls" \in vmcs.primary =>
          cap.secondary.low \subseteq vmcs.secondary /\ vmcs.secondary \subseteq cap.secondary.high
    /\ "enable_vpid" \in EffectiveSecondary => vmcs.vpid # 0
    /\ "enable_ept" \in EffectiveSecondary =>
          vmcs.eptp = [memory_type |-> "wb", page_walk_length |-> 4]
    /\ "mode_based_execute_control" \in EffectiveSecondary => "enable_ept" \in EffectiveSecondary

CrIsValid(cr) == cap.cr.fixed_0 \subseteq cr /\ cr \subseteq cap.cr.fixed_1

HostIsValid ==
    /\ \A s \in {"cs", "tr"} :
          LET x == vmcs.host.seg[s].selector IN x # 0 /\ TableIndicator(x) = 0 /\ Rpl(x) = 0
    /\ CrIsValid(vmcs.host.cr)
    /\ "host_address_space_size" \in vmcs.exit

\* The reserved bits of the access rights and the limit of a segment in use.
FormatIsValid(r) ==
    /\ r.rights.limit_high = 0 /\ r.rights.present
    /\ r.limit % Page # Page - 1 => ~r.rights.granularity
    /\ r.limit >= 16 * LimitLow => r.rights.granularity

CodeIsValid(cs, ss) ==
    /\ ~cs.rights.unusable /\ FormatIsValid(cs)
    /\ ~cs.rights.system /\ cs.rights.type \in {9, 11, 13, 15}
    /\ cs.rights.type \in {9, 11} => cs.rights.privilege_level = ss.rights.privilege_level
    /\ cs.rights.code_64_bit => ~cs.rights.default_operation_size
    /\ cs.base < Half

StackIsValid(cs, ss) ==
    /\ Rpl(ss.selector) = Rpl(cs.selector)
    /\ ss.rights.privilege_level = Rpl(ss.selector)
    /\ ss.rights.unusable \/
          /\ FormatIsValid(ss) /\ ~ss.rights.system /\ ss.rights.type \in {3, 7}
          /\ ss.base < Half

DataIsValid(r) ==
    r.rights.unusable \/
        /\ FormatIsValid(r) /\ ~r.rights.system /\ r.rights.type % 2 = 1
        /\ r.rights.type \in 0 .. 11 => r.rights.privilege_level >= Rpl(r.selector)

TaskIsValid(tr) ==
    /\ ~tr.rights.unusable /\ FormatIsValid(tr) /\ TableIndicator(tr.selector) = 0
    /\ tr.rights.system /\ tr.rights.type = tss_busy

LdtIsValid(r) ==
    r.rights.unusable \/
        /\ FormatIsValid(r) /\ TableIndicator(r.selector) = 0
        /\ r.rights.system /\ r.rights.type = ldt

GuestIsValid ==
    LET seg == vmcs.guest.seg
    IN  /\ CodeIsValid(seg["cs"], seg["ss"]) /\ StackIsValid(seg["cs"], seg["ss"])
        /\ \A s \in {"ds", "es", "fs", "gs"} : DataIsValid(seg[s])
        /\ \A s \in {"ds", "es"} : ~seg[s].rights.unusable => seg[s].base < Half
        /\ TaskIsValid(seg["tr"]) /\ LdtIsValid(seg["ldtr"])
        /\ CrIsValid(vmcs.guest.cr)
        /\ vmcs.guest.gdtr.limit < 8 * GdtEntries
        /\ "ia_32e_mode_guest" \in vmcs.entry

\* iretq to a code segment of a GDT, with a null or a present stack segment.
IretAccepts(table, cs, ss) ==
    LET c == from_memory(table, cs)
        s == from_memory(table, ss)
    IN  /\ c.present /\ ~c.system /\ c.type >= 8 /\ c.code_64_bit
        /\ ss # 0 => s.present /\ ~s.system /\ s.type \in {2, 3, 6, 7}

-----------------------------------------------------------------------------
(***************************************************************************)
(* The virtual machine.                                                    *)
(***************************************************************************)

\* VM entry: the debug registers are loaded only if the control is set.
EnterGuest ==
    cpu' = [vmcs.guest EXCEPT
               !.debug = IF "load_debug_controls" \in vmcs.entry THEN @ ELSE cpu.debug]

\* restore_context, which ends with iretq and leaves the data segments alone,
\* goes to vmlaunch with the caller's cs and ss.
Vmlaunch ==
    /\ IF ~IretAccepts(Table(cpu.gdtr), cpu.seg["cs"].selector, cpu.seg["ss"].selector)
       THEN Goto("vmlaunch", "fault") /\ UNCHANGED cpu
       ELSE IF ControlsAreValid /\ HostIsValid /\ GuestIsValid
       THEN Goto("vmlaunch", "guest") /\ EnterGuest
       ELSE Goto("vmlaunch", "rejected") /\ UNCHANGED cpu
    /\ UNCHANGED <<os, cap, gdt, hv, vmcs>>

\* The guest leaves: its registers are stored, the debug registers only if the
\* control is set; these are reset and the others are the host's.
VmExit ==
    /\ Goto("guest", "host")
    /\ vmcs' = [vmcs EXCEPT !.guest =
                   [cpu EXCEPT !.debug = IF "save_debug_controls" \in vmcs.exit THEN @
                                         ELSE vmcs.guest.debug]]
    /\ cpu' = [vmcs.host EXCEPT !.debug = "reset"]
    /\ UNCHANGED <<os, cap, gdt, hv>>

\* vm_exit_entry goes on with the host's cs and a null ss; the handler ends
\* with vmresume.
Vmresume ==
    /\ IF ~IretAccepts(Table(cpu.gdtr), host_cs, 0)
       THEN Goto("host", "fault") /\ UNCHANGED cpu
       ELSE Goto("host", "guest") /\ EnterGuest
    /\ UNCHANGED <<os, cap, gdt, hv, vmcs>>

Stopped == pc \in {"returned", "fault", "rejected"} /\ UNCHANGED vars

Next ==
    \/ InitializeRegisters \/ InitializeHostGdt \/ InitializeIntermediateGdt
    \/ LoadIntermediateGdt \/ InitializeVmxMsrs \/ EnterRootMode \/ MainFails
    \/ LoadOsGdt \/ SetupVmcs \/ Vmlaunch \/ VmExit \/ Vmresume \/ Stopped

Spec == Init /\ [][Next]_vars

-----------------------------------------------------------------------------
(***************************************************************************)
(* Properties.                                                             *)
(***************************************************************************)
TypeOK ==
    /\ pc \in {"main", "host_gdt", "intermediate_gdt", "load_gdt", "vmx_msrs", "vmx",
               "setup_vmcs", "vmlaunch", "guest", "host", "restore_gdt", "returned",
               "rejected", "fault"}
    /\ \A r \in {cpu, vmcs.guest, vmcs.host} :
          /\ DOMAIN r = DOMAIN ZeroRegisters
          /\ r.gdtr.table \in {"os", "intermediate", "host", "none"} /\ r.gdtr.limit \in Nat
          /\ \A s \in Segs : r.seg[s].selector \in 0 .. Limit(GdtEntries) /\ r.seg[s].base \in Nat
    /\ \A t \in {"intermediate", "host"} : DOMAIN gdt[t] = DOMAIN EmptyGdt
    /\ hv.guest_tr \in 0 .. Limit(GdtEntries)

HasTss == from_memory(os.gdt, os.selector["tr"]).present

\* A TSS fits behind the operating system's GDT.
Room == OsEntries + 2 =< GdtEntries

\* The VMCS that setup_vmcs writes passes every check of the processor, for each
\* operating system, unless the processor keeps the reserved bits that
\* vmx_access_rights leaves set, or a TSS is missing and the GDT is full.
EntryIsAccepted == pc = "rejected" => ~cap.drops \/ ~(HasTss \/ Room)

\* No instruction of the launch or of an exit faults: ltr finds a TSS it may load,
\* each iretq a code segment in the GDT in use.  The exceptions are an MSR the
\* processor does not have and, when a launch fails, a task register of zero.
NoFault ==
    pc = "fault" => \/ ~(VmxMsrs \subseteq cap.msrs)
                    \/ cpu.gdtr.table = "os" /\ os.selector["tr"] = 0

\* The GDT of the guest has every descriptor of the operating system under the
\* same selector, and a busy TSS, both halves inside the limit, where the task
\* register of the guest has it from.
DescriptorsAreKept ==
    pc = "guest" =>
        LET table == Table(cpu.gdtr)
            entries == 0 .. (cpu.gdtr.limit + 1) \div 8 - 1
            tr == cpu.seg["tr"]
        IN  /\ \A k \in DOMAIN os.gdt : k \in entries /\ table[k] = os.gdt[k]
            /\ {Index(tr.selector), Index(tr.selector) + 1} \subseteq entries
            /\ from_memory(table, tr.selector).type = tss_busy
            /\ base_extended(from_memory(table, tr.selector)) = tr.base

\* A segment register is the operating system's, except for a limit that counts
\* pages: setup_vmcs writes the number in the descriptor, not the limit in bytes.
SegmentIsKept(s) ==
    LET r == OsRegisters.seg[s]
    IN  /\ cpu.seg[s].selector = r.selector /\ cpu.seg[s].rights = r.rights
        /\ s # "fs" => cpu.seg[s].base = r.base
        /\ ~r.rights.granularity => cpu.seg[s].limit = r.limit

\* The operating system finds its state again: in the guest, at the launch and
\* after every exit, its descriptors and registers, all but the FS base, SYSENTER
\* and the debug registers; and after a launch that failed, all of it.
StateIsKept ==
    /\ TypeOK /\ DescriptorsAreKept
    /\ pc = "guest" =>
          /\ \A s \in CodeAndData \cup {"ldtr"} : SegmentIsKept(s)
          /\ HasTss => SegmentIsKept("tr") /\ cpu.gdtr = OsRegisters.gdtr
          /\ cpu.cr3 = "os" /\ cpu.idtr = "os" /\ os.cr \subseteq cpu.cr
    /\ pc = "returned" => cpu = OsRegisters /\ gdt["os"] = os.gdt

\* The handler runs on the hypervisor's tables only, and its task register has
\* a TSS of the host GDT, at the address of host_tss.
HostIsSound ==
    pc = "host" =>
        LET d == from_memory(Table(cpu.gdtr), cpu.seg["tr"].selector)
        IN  /\ cpu.gdtr.table = "host" /\ cpu.cr3 = "host" /\ cpu.idtr = "host"
            /\ d.present /\ d.system /\ d.type \in {tss_available, tss_busy}
            /\ base_extended(d) = cpu.seg["tr"].base /\ cpu.seg["tr"].base = HostTss

\* The exits the handler would wrongly skip, and the instructions the operating
\* system may be using that a VM disables unless a control enables them.
UnwantedExits == {"external_interrupt_exiting", "hlt_exiting", "unconditional_io_exiting"}
GuestInstructions == {"enable_rdtscp", "enable_invpcid", "enable_xsaves_xrstors"}

\* The processor has what the hypervisor asks for to keep the guest apart.
CanConfine ==
    /\ {"enable_secondary_controls", "enable_msr_bitmaps"} \subseteq cap.primary.high
    /\ {"enable_ept", "enable_vpid"} \subseteq cap.secondary.high

\* On such a processor the guest runs, at the launch and after every exit, behind
\* the EPT, with the MSR bitmap and with the processor id of its launch, which is
\* not the host's; and on any processor that has secondary controls, with the
\* instructions the processor has.  It has the exits the handler does not expect
\* only where the processor demands them.
GuestIsConfined ==
    pc = "guest" =>
        /\ CanConfine =>
              /\ {"enable_ept", "enable_vpid"} \subseteq EffectiveSecondary
              /\ "enable_msr_bitmaps" \in vmcs.primary
              /\ vmcs.eptp = EptPointer
              /\ vmcs.vpid = hv.next_virtual_processor /\ vmcs.vpid # 0
        /\ "enable_secondary_controls" \in cap.primary.high =>
              cap.secondary.high \cap GuestInstructions \subseteq EffectiveSecondary
        /\ (vmcs.pin \cup vmcs.primary) \cap UnwantedExits \subseteq cap.pin.low \cup cap.primary.low

\* What initialize_registers captures for the guest is what the guest has: the FS
\* and the GS base, cr3, the IDT and, after exits too, the debug registers.
CapturedIsKept ==
    pc = "guest" =>
        /\ cpu.seg["fs"].base = hv.ia32_fs_base /\ cpu.seg["gs"].base = hv.ia32_gs_base
        /\ cpu.cr3 = hv.guest_cr3 /\ cpu.idtr = hv.idtr /\ cpu.debug = hv.debug

=============================================================================
