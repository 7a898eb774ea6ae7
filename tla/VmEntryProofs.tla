--------------------------- MODULE VmEntryProofs ---------------------------
(***************************************************************************)
(* Proofs about VmEntry, for every 64-bit operating system and processor   *)
(* that IsOperatingSystem and IsProcessor describe, every size of the      *)
(* units of a descriptor and every address of the two TSSs.                *)
(*                                                                         *)
(* The properties compare registers that were captured, copied and loaded  *)
(* several steps apart, so none of them is inductive.  ValuesInv has, for  *)
(* each step of the launch, the value of every variable as a function of   *)
(* the operating system and the processor alone; the properties are then   *)
(* facts about the GDT that the guest's segments were read from.           *)
(***************************************************************************)
EXTENDS VmEntry, TLAPS

\* The selector of the guest's task register, and whether ltr loads it.
GuestTr == IF HasTss THEN os.selector["tr"] ELSE SelectorOf(OsEntries)
Added == GuestTr # os.selector["tr"]

OsGdtr == [table |-> "os", limit |-> Limit(OsEntries)]
GuestGdtr ==
    IF HasTss THEN OsGdtr
    ELSE [table |-> "intermediate", limit |-> GrownLimit(Limit(OsEntries))]
LaunchGdtr == [table |-> "intermediate", limit |-> GuestGdtr.limit % (8 * GdtEntries)]

\* The intermediate GDT after initialize_intermediate_gdt, and after ltr.
Prepared ==
    LET copy == CopiedInto(EmptyGdt, os.gdt)
    IN  IF HasTss THEN copy ELSE WithTss(copy, OsEntries, GuestTss)
Intermediate == IF Added THEN MadeBusy(Prepared, GuestTr) ELSE Prepared

GdtOf(p) ==
    [os |-> os.gdt,
     intermediate |-> IF p \in {"main", "host_gdt", "intermediate_gdt"} THEN EmptyGdt
                      ELSE IF p = "load_gdt" THEN Prepared ELSE Intermediate,
     host |-> IF p \in {"main", "host_gdt"} THEN EmptyGdt ELSE HostGdt(HostTss)]

\* The members of the hypervisor after the registers were captured.
HvOf(p) ==
    LET first == p \in {"host_gdt", "intermediate_gdt"}
    IN  [ guest_cr |-> os.cr, guest_cr3 |-> "os", debug |-> "os", ia32_fs_base |-> os.fs_base,
          ia32_gs_base |-> os.gs_base, gdtr |-> OsGdtr, idtr |-> "os",
          guest_ldtr |-> os.selector["ldtr"], os_tr |-> os.selector["tr"],
          guest_tr |-> IF first THEN 0 ELSE GuestTr,
          guest_gdt |-> IF first THEN NoTable ELSE GuestGdtr,
          intermediate_gdt_limit |-> IF first THEN 0 ELSE GuestGdtr.limit,
          host_cr |-> IF first \/ p \in {"load_gdt", "vmx_msrs", "vmx"} THEN {} ELSE AdjustedCr(os.cr),
          next_virtual_processor |-> 1 ]

\* The registers during the launch.
LaunchRegisters(gdtr, cr, cr3) ==
    [ seg |-> IF Added THEN [OsRegisters.seg EXCEPT !["tr"] = Loaded(Intermediate, GuestTr)]
              ELSE OsRegisters.seg,
      gdtr |-> gdtr, cr |-> cr, cr3 |-> cr3, idtr |-> "os", debug |-> "os", sysenter |-> "os" ]

\* A segment of the guest, as setup_vmcs has it from the intermediate GDT.
SelectorIn(s) == IF s = "tr" THEN GuestTr ELSE os.selector[s]
DescriptorIn(s) == from_memory(Intermediate, SelectorIn(s))
SegmentIn(s) ==
    [selector |-> SelectorIn(s), limit |-> DescriptorIn(s).limit,
     base |-> IF s = "gs" THEN os.gs_base ELSE context_dependent_base(DescriptorIn(s)),
     rights |-> Written(vmx_access_rights(DescriptorIn(s)))]

GuestRegisters(debug) ==
    [ seg |-> [s \in Segs |-> SegmentIn(s)], gdtr |-> GuestGdtr, idtr |-> "os",
      cr |-> AdjustedCr(os.cr), cr3 |-> "os", debug |-> debug, sysenter |-> "zero" ]

HostRegisters(debug) ==
    [ seg |-> [s \in Segs |->
                  IF s = "cs" THEN [NoSegment EXCEPT !.selector = host_cs]
                  ELSE IF s = "tr" THEN [NoSegment EXCEPT !.selector = host_tr, !.base = HostTss]
                  ELSE NoSegment],
      gdtr |-> [table |-> "host", limit |-> Limit(GdtEntries)], cr |-> AdjustedCr(os.cr),
      cr3 |-> "host", idtr |-> "host", debug |-> debug, sysenter |-> "zero" ]

VmcsWith(debug) ==
    [ guest |-> GuestRegisters(debug), host |-> HostRegisters("zero"),
      vpid |-> 1, eptp |-> EptPointer,
      pin |-> adjust_msr(cap.pin, {}),
      primary |-> adjust_msr(cap.primary, primary_controls),
      secondary |-> adjust_msr(cap.secondary, secondary_controls),
      exit |-> adjust_msr(cap.exit, exit_controls),
      entry |-> adjust_msr(cap.entry, entry_controls) ]

\* The places before the GDT is loaded, after it, and with the VMCS written.
BeforeLoad == {"main", "host_gdt", "intermediate_gdt", "load_gdt"}
Launching == {"vmx_msrs", "vmx", "setup_vmcs", "restore_gdt"}
AfterSetup == {"vmlaunch", "rejected", "guest", "host"}

PlaceInv ==
    /\ os \in OperatingSystems /\ cap \in Processors
    /\ pc \in BeforeLoad \cup Launching \cup AfterSetup \cup {"returned", "fault"}

GdtInv == gdt = GdtOf(pc)

HvInv ==
    /\ pc = "main" => hv = NewHypervisor
    /\ pc \notin {"main", "fault"} => hv = HvOf(pc)
    /\ pc = "fault" => hv.guest_tr = GuestTr

CpuInv ==
    /\ pc \in BeforeLoad \cup {"returned"} => cpu = OsRegisters
    /\ pc = "vmx_msrs" => cpu = LaunchRegisters(LaunchGdtr, os.cr, "os")
    /\ pc = "vmx" => cpu = LaunchRegisters(LaunchGdtr, os.cr, "host")
    /\ pc \in {"setup_vmcs", "vmlaunch", "rejected"} =>
          cpu = LaunchRegisters(LaunchGdtr, AdjustedCr(os.cr), "host")
    /\ pc = "restore_gdt" => cpu = LaunchRegisters(LaunchGdtr, os.cr, "os")
    /\ pc = "guest" => \E d : cpu = GuestRegisters(d)
    /\ pc = "host" => cpu = HostRegisters("reset")

VmcsInv ==
    /\ pc \notin AfterSetup => vmcs = ClearVmcs
    /\ pc \in AfterSetup => \E d : vmcs = VmcsWith(d)

\* What the instructions and the checks of the processor decided.
DecidedInv ==
    /\ pc = "fault" =>
          \/ ~(VmxMsrs \subseteq cap.msrs) /\ cpu = LaunchRegisters(LaunchGdtr, os.cr, "host")
          \/ os.selector["tr"] = 0 /\ cpu = LaunchRegisters(OsGdtr, os.cr, "os")
    /\ pc = "returned" => ~Added
    /\ pc = "rejected" => EntryIsAccepted
    /\ pc \in {"guest", "host"} =>
          /\ HasTss \/ Room
          /\ \A s \in Segs : SegmentIn(s).rights.limit_high = 0

ValuesInv == PlaceInv /\ GdtInv /\ HvInv /\ CpuInv /\ VmcsInv /\ DecidedInv

-----------------------------------------------------------------------------
(***************************************************************************)
(* The operating system's GDT and the copy of it.                          *)
(***************************************************************************)

\* The GDT of the operating system has OsEntries entries.
LEMMA OsGdtShape ==
  ASSUME os \in OperatingSystems
  PROVE  /\ OsEntries \in 1 .. GdtEntries
         /\ os.gdt \in [0 .. OsEntries - 1 -> Entries]
<1>1. PICK n \in 1 .. GdtEntries : os.gdt \in [0 .. n - 1 -> Entries]
  BY OperatingSystemsAssumption DEF IsOperatingSystem
<1>2. DOMAIN os.gdt = 0 .. n - 1
  BY <1>1
<1>3. \A m \in 0 .. GdtEntries : DOMAIN os.gdt = 0 .. m - 1 => m = n
  BY <1>2, GdtEntriesAssumption
<1>4. OsEntries = n
  BY <1>2, <1>3, GdtEntriesAssumption DEF OsEntries
<1> QED
  BY <1>1, <1>4

\* A task register that is not zero has a TSS.
LEMMA TssIsPresent ==
  ASSUME os \in OperatingSystems
  PROVE  HasTss <=> os.selector["tr"] # 0
<1>1. os.selector["tr"] # 0 => InUse(os, "tr")
  BY OperatingSystemsAssumption DEF IsOperatingSystem, Segs
<1>2. CASE os.selector["tr"] = 0
  BY <1>2 DEF HasTss, from_memory, Zero
<1>3. CASE os.selector["tr"] # 0
  <2>1. /\ TableIndicator(os.selector["tr"]) = 0
        /\ Index(os.selector["tr"]) \in DOMAIN os.gdt
        /\ os.gdt[Index(os.selector["tr"])].present
    BY <1>1, <1>3 DEF InUse
  <2>2. os.gdt[Index(os.selector["tr"])] \in Entries
    BY <2>1, OsGdtShape
  <2>3. from_memory(os.gdt, os.selector["tr"]).present
    BY <1>3, <2>1, <2>2 DEF from_memory, EntryAt, Entries
  <2> QED
    BY <1>3, <2>3 DEF HasTss
<1> QED
  BY <1>2, <1>3

\* Where the guest's task register is when the operating system has no TSS.
LEMMA GuestTrValue ==
  ASSUME os \in OperatingSystems
  PROVE  /\ HasTss => GuestTr = os.selector["tr"]
         /\ ~HasTss /\ OsEntries < GdtEntries => GuestTr = 8 * OsEntries /\ GuestTr # 0
         /\ ~HasTss /\ OsEntries = GdtEntries => GuestTr = 0
         /\ Added <=> ~HasTss /\ OsEntries < GdtEntries
<1>1. OsEntries \in 1 .. GdtEntries /\ GdtEntries \in Nat
  BY OsGdtShape, GdtEntriesAssumption
<1>2. \A x \in Nat, m \in Nat \ {0} : x < m => x % m = x
  OBVIOUS
<1>3. \A m \in Nat \ {0} : m % m = 0
  OBVIOUS
<1>4. CASE OsEntries < GdtEntries
  <2>1. 8 * OsEntries \in Nat /\ 8 * GdtEntries \in Nat \ {0} /\ 8 * OsEntries < 8 * GdtEntries
    BY <1>1, <1>4
  <2>2. SelectorOf(OsEntries) = 8 * OsEntries
    BY <1>2, <2>1 DEF SelectorOf
  <2> QED
    BY <1>1, <1>4, <2>2, TssIsPresent DEF GuestTr, Added
<1>5. CASE OsEntries = GdtEntries
  <2>1. 8 * GdtEntries \in Nat \ {0}
    BY <1>1
  <2>2. SelectorOf(OsEntries) = 0
    BY <1>3, <1>5, <2>1 DEF SelectorOf
  <2> QED
    BY <1>1, <1>5, <2>2, TssIsPresent DEF GuestTr, Added
<1> QED
  BY <1>1, <1>4, <1>5

\* The entries of the TSS that is added.
AddedTss == [basic_value(TaskStateSegment(GuestTss)) EXCEPT !.type = tss_busy]
AddedUpper == extended_value(TaskStateSegment(GuestTss))

\* The prepared GDT has the operating system's entries, and behind them the TSS.
LEMMA PreparedGdt ==
  ASSUME os \in OperatingSystems
  PROVE  /\ DOMAIN Prepared = 0 .. GdtEntries - 1
         /\ \A k \in 0 .. OsEntries - 1 : Prepared[k] = os.gdt[k]
         /\ Added => Prepared[OsEntries] = basic_value(TaskStateSegment(GuestTss))
         /\ Added /\ Room => Prepared[OsEntries + 1] = AddedUpper
<1>1. OsEntries \in 1 .. GdtEntries /\ GdtEntries \in Nat /\ DOMAIN os.gdt = 0 .. OsEntries - 1
  BY OsGdtShape, GdtEntriesAssumption
<1> DEFINE copy == CopiedInto(EmptyGdt, os.gdt)
<1>2. copy = [k \in 0 .. GdtEntries - 1 |-> IF k \in 0 .. OsEntries - 1 THEN os.gdt[k] ELSE Zero]
  BY <1>1 DEF CopiedInto, EmptyGdt
<1>3. CASE HasTss
  BY <1>1, <1>2, <1>3, GuestTrValue DEF Prepared
<1>4. CASE ~HasTss
  <2>1. Prepared = WithTss(copy, OsEntries, GuestTss)
    BY <1>4 DEF Prepared
  <2>2. Prepared = [e \in 0 .. GdtEntries - 1 |->
                       CASE e = OsEntries -> basic_value(TaskStateSegment(GuestTss))
                         [] e = OsEntries + 1 -> AddedUpper
                         [] OTHER -> copy[e]]
    BY <1>2, <2>1 DEF WithTss, AddedUpper
  <2>3. DOMAIN Prepared = 0 .. GdtEntries - 1
    BY <2>2
  <2>4. \A k \in 0 .. OsEntries - 1 : Prepared[k] = os.gdt[k]
    BY <1>1, <1>2, <2>2
  <2>5. Added => Prepared[OsEntries] = basic_value(TaskStateSegment(GuestTss))
    BY <1>1, <2>2, GuestTrValue
  <2>6. Room => Prepared[OsEntries + 1] = AddedUpper
    BY <1>1, <2>2 DEF Room
  <2> QED
    BY <2>3, <2>4, <2>5, <2>6
<1> QED
  BY <1>3, <1>4

\* The same after ltr has made the TSS busy.
LEMMA IntermediateGdt ==
  ASSUME os \in OperatingSystems
  PROVE  /\ DOMAIN Intermediate = 0 .. GdtEntries - 1
         /\ \A k \in 0 .. OsEntries - 1 : Intermediate[k] = os.gdt[k]
         /\ Added => Index(GuestTr) = OsEntries /\ TableIndicator(GuestTr) = 0 /\ Rpl(GuestTr) = 0
         /\ Added => Intermediate[OsEntries] = AddedTss
         /\ Added /\ Room => Intermediate[OsEntries + 1] = AddedUpper
<1>1. OsEntries \in 1 .. GdtEntries /\ GdtEntries \in Nat
  BY OsGdtShape, GdtEntriesAssumption
<1>2. CASE ~Added
  BY <1>1, <1>2, PreparedGdt DEF Intermediate
<1>3. CASE Added
  <2>1. GuestTr = 8 * OsEntries /\ OsEntries < GdtEntries
    BY <1>3, GuestTrValue
  <2>2. Index(GuestTr) = OsEntries /\ TableIndicator(GuestTr) = 0 /\ Rpl(GuestTr) = 0
    BY <1>1, <2>1 DEF Index, TableIndicator, Rpl
  <2>3. Intermediate = [Prepared EXCEPT ![OsEntries].type = tss_busy]
    BY <1>3, <2>2 DEF Intermediate, MadeBusy
  <2>4. Intermediate = [Prepared EXCEPT ![OsEntries] = [Prepared[OsEntries] EXCEPT !.type = tss_busy]]
    BY <2>3
  <2>5. OsEntries \in DOMAIN Prepared /\ OsEntries \notin 0 .. OsEntries - 1
        /\ OsEntries + 1 # OsEntries /\ (Room => OsEntries + 1 \in DOMAIN Prepared)
    BY <1>1, <2>1, PreparedGdt DEF Room
  <2>6. DOMAIN Intermediate = 0 .. GdtEntries - 1
    BY <2>4, PreparedGdt
  <2>7. \A k \in 0 .. OsEntries - 1 : Intermediate[k] = os.gdt[k]
    BY <1>1, <2>1, <2>4, <2>5, PreparedGdt
  <2>8. Intermediate[OsEntries] = AddedTss
    BY <1>3, <2>4, <2>5, PreparedGdt DEF AddedTss
  <2>9. Room => Intermediate[OsEntries + 1] = AddedUpper
    BY <1>1, <1>3, <2>1, <2>4, <2>5, PreparedGdt
  <2> QED
    BY <2>2, <2>6, <2>7, <2>8, <2>9
<1> QED
  BY <1>2, <1>3

\* A descriptor in use, read from the operating system's GDT: the entry, with the
\* upper half of its base from the next.
LEMMA OsDescriptor ==
  ASSUME os \in OperatingSystems, NEW s \in Segs, os.selector[s] # 0
  PROVE  LET x == os.selector[s]
             e == os.gdt[Index(x)]
         IN  /\ InUse(os, s) /\ e \in Entries /\ x \in Nat
             /\ TableIndicator(x) = 0 /\ Index(x) \in 0 .. OsEntries - 1
             /\ from_memory(os.gdt, x) = [e EXCEPT !.upper = EntryAt(os.gdt, Index(x) + 1).upper]
             /\ e.system => /\ s \in {"tr", "ldtr"} /\ Index(x) + 1 \in 0 .. OsEntries - 1
                            /\ EntryAt(os.gdt, Index(x) + 1).upper = os.gdt[Index(x) + 1].upper
<1> DEFINE x == os.selector[s]
           e == os.gdt[Index(x)]
<1>1. InUse(os, s) /\ x \in 0 .. Limit(GdtEntries)
  BY OperatingSystemsAssumption DEF IsOperatingSystem
<1>2. x \in Nat
  BY <1>1, GdtEntriesAssumption DEF Limit
<1>3. DOMAIN os.gdt = 0 .. OsEntries - 1 /\ os.gdt \in [0 .. OsEntries - 1 -> Entries]
  BY OsGdtShape
<1>4. TableIndicator(x) = 0 /\ Index(x) \in 0 .. OsEntries - 1
  BY <1>1, <1>3 DEF InUse
<1>5. e \in Entries
  BY <1>3, <1>4
<1>6. from_memory(os.gdt, x) = [e EXCEPT !.upper = EntryAt(os.gdt, Index(x) + 1).upper]
  BY <1>3, <1>4 DEF from_memory, EntryAt
<1>7. ASSUME e.system
      PROVE  /\ s \in {"tr", "ldtr"} /\ Index(x) + 1 \in 0 .. OsEntries - 1
             /\ EntryAt(os.gdt, Index(x) + 1).upper = os.gdt[Index(x) + 1].upper
  <2>1. s \in {"tr", "ldtr"}
    BY <1>1, <1>7 DEF InUse, Segs, CodeAndData
  <2>2. Index(x) + 1 \in DOMAIN os.gdt
    BY <1>1, <2>1 DEF InUse
  <2> QED
    BY <1>3, <2>1, <2>2 DEF EntryAt
<1> QED
  BY <1>1, <1>2, <1>4, <1>5, <1>6, <1>7

\* The guest's segment has the same entry, from the intermediate GDT.
LEMMA GuestDescriptor ==
  ASSUME os \in OperatingSystems, NEW s \in Segs, os.selector[s] # 0
  PROVE  LET x == os.selector[s]
             e == os.gdt[Index(x)]
         IN  /\ SelectorIn(s) = x
             /\ \E u : /\ DescriptorIn(s) = [e EXCEPT !.upper = u]
                       /\ e.system => u = os.gdt[Index(x) + 1].upper
<1> DEFINE x == os.selector[s]
           e == os.gdt[Index(x)]
           u == EntryAt(Intermediate, Index(x) + 1).upper
<1>1. SelectorIn(s) = x
  BY TssIsPresent, GuestTrValue DEF SelectorIn
<1>2. /\ TableIndicator(x) = 0 /\ Index(x) \in 0 .. OsEntries - 1
      /\ e.system => Index(x) + 1 \in 0 .. OsEntries - 1
  BY OsDescriptor
<1>3. OsEntries \in 1 .. GdtEntries /\ GdtEntries \in Nat
  BY OsGdtShape, GdtEntriesAssumption
<1>4. \A k \in 0 .. OsEntries - 1 : EntryAt(Intermediate, k) = os.gdt[k]
  BY <1>3, IntermediateGdt DEF EntryAt
<1>5. DescriptorIn(s) = [e EXCEPT !.upper = u]
  BY <1>1, <1>2, <1>4 DEF DescriptorIn, from_memory
<1>6. e.system => u = os.gdt[Index(x) + 1].upper
  BY <1>2, <1>4
<1> QED
  BY <1>1, <1>5, <1>6

\* Without a selector there is no segment.
LEMMA NoDescriptor ==
  ASSUME os \in OperatingSystems, NEW s \in Segs, os.selector[s] = 0, s = "tr" => HasTss
  PROVE  /\ SelectorIn(s) = 0 /\ DescriptorIn(s) = Zero
         /\ from_memory(os.gdt, os.selector[s]) = Zero
BY TssIsPresent, GuestTrValue DEF SelectorIn, DescriptorIn, from_memory

\* The segments of the guest have what those of the operating system have.
LEMMA SegmentsAgree ==
  ASSUME os \in OperatingSystems, NEW s \in Segs, s = "tr" => HasTss
  PROVE  LET d == DescriptorIn(s)
             o == from_memory(os.gdt, os.selector[s])
         IN  /\ SelectorIn(s) = os.selector[s]
             /\ d.limit = o.limit /\ d.granularity = o.granularity
             /\ vmx_access_rights(d) = vmx_access_rights(o)
             /\ context_dependent_base(d) = context_dependent_base(o)
             /\ d.limit \in 0 .. 16 * LimitLow - 1 /\ context_dependent_base(d) \in Nat
<1> DEFINE x == os.selector[s]
           e == os.gdt[Index(x)]
           d == DescriptorIn(s)
           o == from_memory(os.gdt, x)
<1> USE HalfAssumption, LimitAssumption
<1>1. CASE x = 0
  <2>1. d = Zero /\ o = Zero /\ SelectorIn(s) = x
    BY <1>1, NoDescriptor
  <2>2. d.limit \in 0 .. 16 * LimitLow - 1
    BY <2>1 DEF Zero
  <2>3. context_dependent_base(d) \in Nat
    BY <2>1 DEF Zero, context_dependent_base, base_extended
  <2> QED
    BY <2>1, <2>2, <2>3
<1>2. CASE x # 0
  <2>1. SelectorIn(s) = x
    BY <1>2, GuestDescriptor
  <2>2. PICK u : d = [e EXCEPT !.upper = u] /\ (e.system => u = os.gdt[Index(x) + 1].upper)
    BY <1>2, GuestDescriptor
  <2>3. PICK v : o = [e EXCEPT !.upper = v] /\ (e.system => v = os.gdt[Index(x) + 1].upper)
    BY <1>2, OsDescriptor
  <2>4. /\ e \in Entries
        /\ e.system => os.gdt[Index(x) + 1] \in Entries
    BY <1>2, OsDescriptor, OsGdtShape
  <2>5. /\ d.limit = e.limit /\ d.base = e.base /\ d.system = e.system /\ d.upper = u
        /\ d.granularity = e.granularity
    BY <2>2, <2>4 DEF Entries
  <2>6. /\ o.limit = e.limit /\ o.base = e.base /\ o.system = e.system /\ o.upper = v
        /\ o.granularity = e.granularity
    BY <2>3, <2>4 DEF Entries
  <2>7. vmx_access_rights(d) = vmx_access_rights(e)
    BY <2>2, <2>4 DEF Entries, vmx_access_rights
  <2>8. vmx_access_rights(o) = vmx_access_rights(e)
    BY <2>3, <2>4 DEF Entries, vmx_access_rights
  <2>9. context_dependent_base(d) = context_dependent_base(o)
    BY <2>2, <2>3, <2>5, <2>6 DEF context_dependent_base, base_extended
  <2>10. e.limit \in 0 .. 16 * LimitLow - 1 /\ e.base \in Nat
    BY <2>4 DEF Entries
  <2>11. e.system => u \in Nat
    BY <2>2, <2>4 DEF Entries
  <2>12. \A a \in Nat, b \in Nat : a + b * Half \in Nat
    OBVIOUS
  <2>13. context_dependent_base(d) \in Nat
    BY <2>5, <2>10, <2>11, <2>12 DEF context_dependent_base, base_extended
  <2> QED
    BY <2>1, <2>5, <2>6, <2>7, <2>8, <2>9, <2>10, <2>13
<1> QED
  BY <1>1, <1>2

\* The TSS that is added, read back: present, busy, and at its address.
LEMMA AddedDescriptor ==
  ASSUME os \in OperatingSystems, Added
  PROVE  LET d == DescriptorIn("tr")
         IN  /\ d.limit = 103 /\ d.type = tss_busy /\ d.system /\ d.present /\ ~d.granularity
             /\ context_dependent_base(d) \in Nat
             /\ Room => base_extended(d) = GuestTss
<1> DEFINE d == DescriptorIn("tr")
           u == EntryAt(Intermediate, OsEntries + 1).upper
<1> USE HalfAssumption, LimitAssumption, TssAssumption, UnrelatedAssumption
<1>1. OsEntries \in 1 .. GdtEntries /\ GdtEntries \in Nat /\ OsEntries < GdtEntries /\ GuestTr # 0
  BY OsGdtShape, GdtEntriesAssumption, GuestTrValue
<1>2. d = [AddedTss EXCEPT !.upper = u]
  BY <1>1, IntermediateGdt DEF DescriptorIn, SelectorIn, from_memory, EntryAt
<1>3. /\ AddedTss.limit = 103 /\ AddedTss.type = tss_busy /\ AddedTss.system /\ AddedTss.present
      /\ ~AddedTss.granularity /\ AddedTss.base = GuestTss % Half
      /\ DOMAIN AddedTss = DOMAIN Zero
  BY DEF AddedTss, basic_value, TaskStateSegment, Descriptor, Zero
<1>4. /\ d.limit = 103 /\ d.type = tss_busy /\ d.system /\ d.present /\ ~d.granularity
      /\ d.base = GuestTss % Half /\ d.upper = u
  BY <1>2, ZenonT(40) DEF AddedTss, basic_value, TaskStateSegment, Descriptor, Zero
<1>5. Room => u = GuestTss \div Half
  <2>1. ASSUME Room PROVE u = AddedUpper.upper
    BY <1>1, <2>1, IntermediateGdt DEF Room, EntryAt
  <2>2. AddedUpper.upper = GuestTss \div Half
    BY DEF AddedUpper, extended_value, TaskStateSegment, Descriptor, Zero
  <2> QED
    BY <2>1, <2>2
<1>6. GuestTss % Half \in Nat /\ GuestTss \div Half \in Nat
      /\ GuestTss = (GuestTss % Half) + (GuestTss \div Half) * Half
  OBVIOUS
<1>7. Room => base_extended(d) = GuestTss
  BY <1>4, <1>5, <1>6 DEF base_extended
<1>8. u \in Nat
  <2>1. CASE Room
    BY <2>1, <1>5, <1>6
  <2>2. CASE ~Room
    <3>1. EntryAt(Intermediate, OsEntries + 1) = Foreign
      BY <1>1, <2>2, IntermediateGdt DEF EntryAt, Room
    <3> QED
      BY <3>1 DEF Foreign, Zero
  <2> QED
    BY <2>1, <2>2
<1>9. \A a \in Nat, b \in Nat : a + b * Half \in Nat
  OBVIOUS
<1>10. context_dependent_base(d) \in Nat
  BY <1>4, <1>6, <1>8, <1>9 DEF context_dependent_base, base_extended
<1> QED
  BY <1>4, <1>7, <1>10

-----------------------------------------------------------------------------
(***************************************************************************)
(* ValuesInv is an invariant.                                              *)
(***************************************************************************)

\* The values depend on the operating system and the processor only.
LEMMA ValuesAreConstant ==
  ASSUME UNCHANGED <<os, cap>>
  PROVE  /\ HasTss' = HasTss /\ Room' = Room /\ Added' = Added /\ GuestTr' = GuestTr
         /\ OsGdtr' = OsGdtr /\ GuestGdtr' = GuestGdtr /\ LaunchGdtr' = LaunchGdtr
         /\ OsRegisters' = OsRegisters /\ AdjustedCr(os.cr)' = AdjustedCr(os.cr)
         /\ \A p : GdtOf(p)' = GdtOf(p) /\ HvOf(p)' = HvOf(p)
         /\ \A g, c, t : LaunchRegisters(g, c, t)' = LaunchRegisters(g, c, t)
         /\ \A s : SegmentIn(s)' = SegmentIn(s)
         /\ \A d : /\ GuestRegisters(d)' = GuestRegisters(d)
                   /\ HostRegisters(d)' = HostRegisters(d) /\ VmcsWith(d)' = VmcsWith(d)
<1>1. HasTss' = HasTss /\ OsEntries' = OsEntries /\ OsRegisters' = OsRegisters
      /\ AdjustedCr(os.cr)' = AdjustedCr(os.cr)
  BY DEF HasTss, OsEntries, OsRegisters, AdjustedCr
<1>2. Room' = Room /\ GuestTr' = GuestTr /\ OsGdtr' = OsGdtr
  BY <1>1 DEF Room, GuestTr, OsGdtr
<1>3. Added' = Added /\ GuestGdtr' = GuestGdtr /\ Prepared' = Prepared
  BY <1>1, <1>2 DEF Added, GuestGdtr, Prepared
<1>4. LaunchGdtr' = LaunchGdtr /\ Intermediate' = Intermediate
  BY <1>2, <1>3 DEF LaunchGdtr, Intermediate
<1>5. \A p : GdtOf(p)' = GdtOf(p) /\ HvOf(p)' = HvOf(p)
  BY <1>1, <1>2, <1>3, <1>4 DEF GdtOf, HvOf
<1>6. \A g, c, t : LaunchRegisters(g, c, t)' = LaunchRegisters(g, c, t)
  BY <1>1, <1>2, <1>3, <1>4 DEF LaunchRegisters
<1>7. \A s : SegmentIn(s)' = SegmentIn(s)
  BY <1>2, <1>4 DEF SegmentIn, SelectorIn, DescriptorIn, Written
<1>8. \A d : GuestRegisters(d)' = GuestRegisters(d) /\ HostRegisters(d)' = HostRegisters(d)
  BY <1>1, <1>3, <1>7 DEF GuestRegisters, HostRegisters
<1>9. \A d : VmcsWith(d)' = VmcsWith(d)
  BY <1>8 DEF VmcsWith
<1> QED
  BY <1>1, <1>2, <1>3, <1>4, <1>5, <1>6, <1>7, <1>8, <1>9

\* Initially only the operating system has used the CPU.
LEMMA ValuesInvInit == Init => ValuesInv
<1> SUFFICES ASSUME Init PROVE ValuesInv
  OBVIOUS
<1> USE DEF Init, BeforeLoad, Launching, AfterSetup
<1>1. PlaceInv /\ GdtInv
  BY DEF PlaceInv, GdtInv, GdtOf
<1>2. HvInv /\ CpuInv /\ VmcsInv /\ DecidedInv
  BY DEF HvInv, CpuInv, VmcsInv, DecidedInv
<1> QED
  BY <1>1, <1>2 DEF ValuesInv

\* The registers are captured: those of the operating system.
LEMMA InitializeRegistersValues ==
  ASSUME ValuesInv, InitializeRegisters
  PROVE  ValuesInv'
<1> USE DEF BeforeLoad, Launching, AfterSetup
<1>1. pc = "main" /\ pc' = "host_gdt" /\ UNCHANGED <<os, cap, cpu, gdt, vmcs>>
  BY DEF InitializeRegisters, Goto
<1>2. cpu = OsRegisters /\ hv = NewHypervisor
  BY <1>1 DEF ValuesInv, CpuInv, HvInv
<1>3. hv' = HvOf("host_gdt")
  <2>1. /\ cpu.cr = os.cr /\ cpu.cr3 = "os" /\ cpu.debug = "os" /\ cpu.gdtr = OsGdtr
        /\ cpu.idtr = "os"
    BY <1>2 DEF OsRegisters, OsGdtr
  <2>2. /\ cpu.seg["fs"].base = os.fs_base /\ cpu.seg["gs"].base = os.gs_base
        /\ cpu.seg["ldtr"].selector = os.selector["ldtr"]
        /\ cpu.seg["tr"].selector = os.selector["tr"]
    BY <1>2 DEF OsRegisters, Segs, CodeAndData, Loaded
  <2>3. hv' = [NewHypervisor EXCEPT
                 !.guest_cr = os.cr, !.guest_cr3 = "os", !.debug = "os",
                 !.ia32_fs_base = os.fs_base, !.ia32_gs_base = os.gs_base,
                 !.gdtr = OsGdtr, !.idtr = "os",
                 !.guest_ldtr = os.selector["ldtr"], !.os_tr = os.selector["tr"]]
    BY <1>2, <2>1, <2>2 DEF InitializeRegisters
  <2> QED
    BY <2>3, ZenonT(40) DEF NewHypervisor, HvOf
<1>4. PlaceInv' /\ GdtInv'
  BY <1>1, ValuesAreConstant DEF ValuesInv, PlaceInv, GdtInv, GdtOf
<1>5. HvInv' /\ CpuInv' /\ VmcsInv' /\ DecidedInv'
  BY <1>1, <1>2, <1>3, ValuesAreConstant DEF ValuesInv, HvInv, CpuInv, VmcsInv, DecidedInv
<1> QED
  BY <1>4, <1>5 DEF ValuesInv

\* The host GDT is written.
LEMMA InitializeHostGdtValues ==
  ASSUME ValuesInv, InitializeHostGdt
  PROVE  ValuesInv'
<1> USE DEF BeforeLoad, Launching, AfterSetup
<1>1. pc = "host_gdt" /\ pc' = "intermediate_gdt" /\ UNCHANGED <<os, cap, cpu, hv, vmcs>>
  BY DEF InitializeHostGdt, Goto
<1>2. gdt' = GdtOf("intermediate_gdt")
  BY <1>1 DEF InitializeHostGdt, ValuesInv, GdtInv, GdtOf
<1>3. hv = HvOf("intermediate_gdt")
  BY <1>1 DEF ValuesInv, HvInv, HvOf
<1>4. PlaceInv' /\ GdtInv'
  BY <1>1, <1>2, ValuesAreConstant DEF ValuesInv, PlaceInv, GdtInv
<1>5. HvInv' /\ CpuInv' /\ VmcsInv' /\ DecidedInv'
  BY <1>1, <1>3, ValuesAreConstant DEF ValuesInv, HvInv, CpuInv, VmcsInv, DecidedInv
<1> QED
  BY <1>4, <1>5 DEF ValuesInv

\* The copy has a present TSS where the task register selects one exactly when the
\* operating system has.
LEMMA CopyHasTss ==
  ASSUME os \in OperatingSystems
  PROVE  from_memory(CopiedInto(EmptyGdt, os.gdt), os.selector["tr"]).present <=> HasTss
<1> DEFINE copy == CopiedInto(EmptyGdt, os.gdt)
           x == os.selector["tr"]
           e == os.gdt[Index(x)]
<1>1. CASE x = 0
  BY <1>1 DEF HasTss, from_memory
<1>2. CASE x # 0
  <2>1. e \in Entries /\ TableIndicator(x) = 0 /\ Index(x) \in 0 .. OsEntries - 1 /\ e.present
    BY <1>2, OsDescriptor DEF Segs, InUse
  <2>2. HasTss /\ Prepared = copy
    BY <1>2, TssIsPresent DEF Prepared
  <2>3. EntryAt(copy, Index(x)) = e
    BY <2>1, <2>2, PreparedGdt, OsGdtShape, GdtEntriesAssumption DEF EntryAt
  <2>4. from_memory(copy, x).present
    BY <1>2, <2>1, <2>3 DEF from_memory, Entries
  <2> QED
    BY <2>2, <2>4
<1> QED
  BY <1>1, <1>2

\* The intermediate GDT is prepared.
LEMMA InitializeIntermediateGdtValues ==
  ASSUME ValuesInv, InitializeIntermediateGdt
  PROVE  ValuesInv'
<1> USE DEF BeforeLoad, Launching, AfterSetup
<1>1. /\ pc = "intermediate_gdt" /\ pc' = "load_gdt" /\ UNCHANGED <<os, cap, cpu, vmcs>>
      /\ os \in OperatingSystems
  BY DEF InitializeIntermediateGdt, Goto, ValuesInv, PlaceInv
<1>2. hv = HvOf("intermediate_gdt") /\ gdt = GdtOf("intermediate_gdt")
  BY <1>1 DEF ValuesInv, HvInv, GdtInv
<1>3. gdt["intermediate"] = EmptyGdt /\ hv.gdtr = OsGdtr /\ Table(hv.gdtr) = os.gdt
      /\ hv.gdtr.limit = Limit(OsEntries) /\ hv.os_tr = os.selector["tr"]
  BY <1>2 DEF GdtOf, HvOf, OsGdtr, Table
<1>4. (hv.gdtr.limit + 1) \div 8 = OsEntries
  <2>1. OsEntries \in Nat
    BY <1>1, OsGdtShape, GdtEntriesAssumption
  <2> QED
    BY <1>3, <2>1 DEF Limit
<1>5. gdt' = GdtOf("load_gdt") /\ hv' = HvOf("load_gdt")
  <2>1. CASE HasTss
    <3>1. /\ gdt' = [gdt EXCEPT !["intermediate"] = Prepared]
          /\ hv' = [hv EXCEPT !.guest_gdt = OsGdtr, !.guest_tr = os.selector["tr"],
                              !.intermediate_gdt_limit = OsGdtr.limit]
      BY <1>1, <1>3, <2>1, CopyHasTss DEF InitializeIntermediateGdt, Prepared
    <3>2. gdt' = GdtOf("load_gdt")
      BY <1>2, <3>1 DEF GdtOf
    <3>3. GuestTr = os.selector["tr"] /\ GuestGdtr = OsGdtr
      BY <2>1 DEF GuestTr, GuestGdtr
    <3>4. hv' = HvOf("load_gdt")
      BY <1>2, <3>1, <3>3, ZenonT(40) DEF HvOf
    <3> QED
      BY <3>2, <3>4
  <2>2. CASE ~HasTss
    <3>1. /\ gdt' = [gdt EXCEPT !["intermediate"] = Prepared]
          /\ hv' = [hv EXCEPT !.guest_gdt = GuestGdtr, !.guest_tr = GuestTr,
                              !.intermediate_gdt_limit = GuestGdtr.limit]
      <4>1. GuestGdtr = [table |-> "intermediate", limit |-> GrownLimit(hv.gdtr.limit)]
            /\ GuestTr = SelectorOf(OsEntries)
            /\ Prepared = WithTss(CopiedInto(gdt["intermediate"], Table(hv.gdtr)), OsEntries, GuestTss)
        BY <1>3, <2>2 DEF GuestGdtr, GuestTr, Prepared
      <4>2. GuestGdtr.limit = GrownLimit(hv.gdtr.limit)
        BY <4>1
      <4> QED
        BY <1>1, <1>3, <1>4, <2>2, <4>1, <4>2, CopyHasTss DEF InitializeIntermediateGdt
    <3>2. gdt' = GdtOf("load_gdt")
      BY <1>2, <3>1 DEF GdtOf
    <3>3. hv' = HvOf("load_gdt")
      BY <1>2, <3>1, ZenonT(40) DEF HvOf
    <3> QED
      BY <3>2, <3>3
  <2> QED
    BY <2>1, <2>2
<1>6. PlaceInv' /\ GdtInv'
  BY <1>1, <1>5, ValuesAreConstant DEF ValuesInv, PlaceInv, GdtInv
<1>7. HvInv' /\ CpuInv' /\ VmcsInv' /\ DecidedInv'
  BY <1>1, <1>5, ValuesAreConstant DEF ValuesInv, HvInv, CpuInv, VmcsInv, DecidedInv
<1> QED
  BY <1>6, <1>7 DEF ValuesInv

\* ltr accepts the TSS that was added.
LEMMA AddedTssIsLoaded ==
  ASSUME os \in OperatingSystems, Added
  PROVE  LtrAccepts(Prepared, GuestTr)
<1>1. OsEntries \in 1 .. GdtEntries /\ GdtEntries \in Nat /\ OsEntries < GdtEntries /\ GuestTr # 0
  BY OsGdtShape, GdtEntriesAssumption, GuestTrValue
<1>2. Index(GuestTr) = OsEntries /\ TableIndicator(GuestTr) = 0
  BY IntermediateGdt
<1>3. EntryAt(Prepared, OsEntries) = basic_value(TaskStateSegment(GuestTss))
  BY <1>1, PreparedGdt DEF EntryAt
<1> DEFINE u == EntryAt(Prepared, OsEntries + 1).upper
<1>4. from_memory(Prepared, GuestTr) = [basic_value(TaskStateSegment(GuestTss)) EXCEPT !.upper = u]
  BY <1>1, <1>2, <1>3 DEF from_memory
<1> QED
  BY <1>4 DEF LtrAccepts, basic_value, TaskStateSegment, Descriptor, Zero, tss_available

\* The intermediate GDT is loaded, and the TSS that was added.
LEMMA LoadIntermediateGdtValues ==
  ASSUME ValuesInv, LoadIntermediateGdt
  PROVE  ValuesInv'
<1> USE DEF BeforeLoad, Launching, AfterSetup
<1>1. pc = "load_gdt" /\ UNCHANGED <<os, cap, hv, vmcs>> /\ os \in OperatingSystems
  BY DEF LoadIntermediateGdt, LoadGdt, Goto, ValuesInv, PlaceInv
<1>2. hv = HvOf("load_gdt") /\ gdt = GdtOf("load_gdt") /\ cpu = OsRegisters
  BY <1>1 DEF ValuesInv, HvInv, GdtInv, CpuInv
<1>3. /\ hv.guest_tr = GuestTr /\ hv.os_tr = os.selector["tr"]
      /\ [table |-> "intermediate", limit |-> hv.intermediate_gdt_limit % (8 * GdtEntries)] = LaunchGdtr
      /\ Table(LaunchGdtr) = Prepared /\ LaunchGdtr.table = "intermediate"
  BY <1>2 DEF HvOf, GdtOf, Table, LaunchGdtr
<1>4. Added <=> hv.guest_tr # hv.os_tr
  BY <1>3 DEF Added
<1>5. /\ pc' = "vmx_msrs"
      /\ gdt' = [gdt EXCEPT !["intermediate"] = Intermediate]
      /\ cpu' = [cpu EXCEPT !.gdtr = LaunchGdtr,
                            !.seg["tr"] = IF Added THEN Loaded(Intermediate, GuestTr) ELSE @]
  <2>1. CASE Added
    <3>1. LtrAccepts(Prepared, GuestTr) /\ Intermediate = MadeBusy(Prepared, GuestTr)
      BY <1>1, <2>1, AddedTssIsLoaded DEF Intermediate
    <3>2. MadeBusy(gdt["intermediate"], GuestTr) = Intermediate
      BY <1>2, <3>1 DEF GdtOf
    <3> QED
      BY <1>3, <1>4, <2>1, <3>1, <3>2 DEF LoadIntermediateGdt, LoadGdt, Goto
  <2>2. CASE ~Added
    <3>1. Intermediate = Prepared /\ gdt = [gdt EXCEPT !["intermediate"] = Prepared]
      BY <1>2, <2>2 DEF Intermediate, GdtOf
    <3> QED
      BY <1>3, <1>4, <2>2, <3>1 DEF LoadIntermediateGdt, LoadGdt, Goto
  <2> QED
    BY <2>1, <2>2
<1>6. gdt' = GdtOf("vmx_msrs") /\ hv = HvOf("vmx_msrs")
  BY <1>2, <1>5 DEF GdtOf, HvOf
<1>7. cpu' = LaunchRegisters(LaunchGdtr, os.cr, "os")
  BY <1>2, <1>5 DEF OsRegisters, LaunchRegisters
<1>8. PlaceInv' /\ GdtInv'
  BY <1>1, <1>5, <1>6, ValuesAreConstant DEF ValuesInv, PlaceInv, GdtInv
<1>9. HvInv' /\ CpuInv' /\ VmcsInv' /\ DecidedInv'
  BY <1>1, <1>5, <1>6, <1>7, ValuesAreConstant DEF ValuesInv, HvInv, CpuInv, VmcsInv, DecidedInv
<1> QED
  BY <1>8, <1>9 DEF ValuesInv

\* The MSRs are read in the host page table, or one of them faults.
LEMMA InitializeVmxMsrsValues ==
  ASSUME ValuesInv, InitializeVmxMsrs
  PROVE  ValuesInv'
<1> USE DEF BeforeLoad, Launching, AfterSetup
<1>1. /\ pc = "vmx_msrs" /\ pc' = (IF VmxMsrs \subseteq cap.msrs THEN "vmx" ELSE "fault")
      /\ UNCHANGED <<os, cap, gdt, hv, vmcs>>
  BY DEF InitializeVmxMsrs, Goto
<1>2. cpu' = LaunchRegisters(LaunchGdtr, os.cr, "host")
  BY <1>1 DEF InitializeVmxMsrs, ValuesInv, CpuInv, LaunchRegisters
<1>3. gdt = GdtOf("vmx") /\ gdt = GdtOf("fault") /\ hv = HvOf("vmx") /\ hv.guest_tr = GuestTr
  BY <1>1 DEF ValuesInv, HvInv, GdtInv, GdtOf, HvOf
<1>4. PlaceInv' /\ GdtInv'
  BY <1>1, <1>3, ValuesAreConstant DEF ValuesInv, PlaceInv, GdtInv
<1>5. HvInv' /\ CpuInv' /\ VmcsInv' /\ DecidedInv'
  BY <1>1, <1>2, <1>3, ValuesAreConstant DEF ValuesInv, HvInv, CpuInv, VmcsInv, DecidedInv
<1> QED
  BY <1>4, <1>5 DEF ValuesInv

\* VMX operation is entered with the adjusted cr0 and cr4.
LEMMA EnterRootModeValues ==
  ASSUME ValuesInv, EnterRootMode
  PROVE  ValuesInv'
<1> USE DEF BeforeLoad, Launching, AfterSetup
<1>1. pc = "vmx" /\ pc' = "setup_vmcs" /\ UNCHANGED <<os, cap, gdt>> /\ vmcs' = ClearVmcs
  BY DEF EnterRootMode, Goto
<1>2. hv = HvOf("vmx") /\ hv.guest_cr = os.cr
  BY <1>1 DEF ValuesInv, HvInv, HvOf
<1>3. cpu' = LaunchRegisters(LaunchGdtr, AdjustedCr(os.cr), "host")
  BY <1>1, <1>2 DEF EnterRootMode, ValuesInv, CpuInv, LaunchRegisters
<1>4. gdt = GdtOf("setup_vmcs")
  BY <1>1 DEF ValuesInv, GdtInv, GdtOf
<1>5. hv' = HvOf("setup_vmcs")
  BY <1>2 DEF EnterRootMode, HvOf
<1>6. PlaceInv' /\ GdtInv'
  BY <1>1, <1>4, ValuesAreConstant DEF ValuesInv, PlaceInv, GdtInv
<1>7. HvInv' /\ CpuInv' /\ VmcsInv' /\ DecidedInv'
  BY <1>1, <1>3, <1>5, ValuesAreConstant DEF ValuesInv, HvInv, CpuInv, VmcsInv, DecidedInv
<1> QED
  BY <1>6, <1>7 DEF ValuesInv

\* The launch fails, and cr3 is restored.
LEMMA MainFailsValues ==
  ASSUME ValuesInv, MainFails
  PROVE  ValuesInv'
<1> USE DEF BeforeLoad, Launching, AfterSetup
<1>1. pc = "vmx" /\ pc' = "restore_gdt" /\ UNCHANGED <<os, cap, gdt, vmcs>>
  BY DEF MainFails, Goto
<1>2. hv = HvOf("vmx") /\ hv.guest_cr = os.cr /\ hv.guest_cr3 = "os"
  BY <1>1 DEF ValuesInv, HvInv, HvOf
<1>3. cpu' = LaunchRegisters(LaunchGdtr, os.cr, "os")
  BY <1>1, <1>2 DEF MainFails, ValuesInv, CpuInv, LaunchRegisters
<1>4. gdt = GdtOf("restore_gdt")
  BY <1>1 DEF ValuesInv, GdtInv, GdtOf
<1>5. hv' = HvOf("restore_gdt")
  BY <1>2 DEF MainFails, HvOf
<1>6. PlaceInv' /\ GdtInv'
  BY <1>1, <1>4, ValuesAreConstant DEF ValuesInv, PlaceInv, GdtInv
<1>7. HvInv' /\ CpuInv' /\ VmcsInv' /\ DecidedInv'
  BY <1>1, <1>3, <1>5, ValuesAreConstant DEF ValuesInv, HvInv, CpuInv, VmcsInv, DecidedInv
<1> QED
  BY <1>6, <1>7 DEF ValuesInv

\* The operating system's GDT is put back; there is no task register to put back
\* when a TSS was added, and ltr faults.
LEMMA LoadOsGdtValues ==
  ASSUME ValuesInv, LoadOsGdt
  PROVE  ValuesInv'
<1> USE DEF BeforeLoad, Launching, AfterSetup
<1>1. pc = "restore_gdt" /\ UNCHANGED <<os, cap, hv, vmcs>> /\ os \in OperatingSystems
  BY DEF LoadOsGdt, LoadGdt, Goto, ValuesInv, PlaceInv
<1>2. hv = HvOf("restore_gdt") /\ gdt = GdtOf("restore_gdt")
      /\ cpu = LaunchRegisters(LaunchGdtr, os.cr, "os")
  BY <1>1 DEF ValuesInv, HvInv, GdtInv, CpuInv
<1>3. hv.guest_tr = GuestTr /\ hv.os_tr = os.selector["tr"] /\ hv.gdtr = OsGdtr
  BY <1>2 DEF HvOf
<1>4. gdt = GdtOf("returned") /\ gdt = GdtOf("fault") /\ hv = HvOf("returned")
  BY <1>2 DEF GdtOf, HvOf
<1>5. CASE Added
  <2>1. os.selector["tr"] = 0
    BY <1>1, <1>5, GuestTrValue, TssIsPresent
  <2>2. ~LtrAccepts(Table(OsGdtr), os.selector["tr"])
    BY <2>1 DEF LtrAccepts, from_memory, Zero, tss_available
  <2>3. /\ pc' = "fault" /\ UNCHANGED gdt
        /\ cpu' = [cpu EXCEPT !.gdtr = OsGdtr, !.seg["tr"] = @]
    BY <1>3, <1>5, <2>2 DEF LoadOsGdt, LoadGdt, Goto, Added
  <2>4. cpu' = LaunchRegisters(OsGdtr, os.cr, "os")
    BY <1>2, <2>3 DEF LaunchRegisters, OsRegisters
  <2>5. PlaceInv' /\ GdtInv'
    BY <1>1, <1>4, <2>3, ValuesAreConstant DEF ValuesInv, PlaceInv, GdtInv
  <2>6. HvInv' /\ CpuInv' /\ VmcsInv' /\ DecidedInv'
    BY <1>1, <1>3, <2>1, <2>3, <2>4, ValuesAreConstant
    DEF ValuesInv, HvInv, CpuInv, VmcsInv, DecidedInv
  <2> QED
    BY <2>5, <2>6 DEF ValuesInv
<1>6. CASE ~Added
  <2>1. /\ pc' = "returned" /\ UNCHANGED gdt
        /\ cpu' = [cpu EXCEPT !.gdtr = OsGdtr, !.seg["tr"] = @]
    BY <1>3, <1>6 DEF LoadOsGdt, LoadGdt, Goto, Added
  <2>2. cpu' = OsRegisters
    BY <1>2, <1>6, <2>1 DEF LaunchRegisters, OsRegisters, OsGdtr
  <2>3. PlaceInv' /\ GdtInv'
    BY <1>1, <1>4, <2>1, ValuesAreConstant DEF ValuesInv, PlaceInv, GdtInv
  <2>4. HvInv' /\ CpuInv' /\ VmcsInv' /\ DecidedInv'
    BY <1>1, <1>4, <1>6, <2>1, <2>2, ValuesAreConstant
    DEF ValuesInv, HvInv, CpuInv, VmcsInv, DecidedInv
  <2> QED
    BY <2>3, <2>4 DEF ValuesInv
<1> QED
  BY <1>5, <1>6

\* setup_vmcs writes the captured values.
LEMMA SetupVmcsValues ==
  ASSUME ValuesInv, SetupVmcs
  PROVE  ValuesInv'
<1> USE DEF BeforeLoad, Launching, AfterSetup
<1>1. pc = "setup_vmcs" /\ pc' = "vmlaunch" /\ UNCHANGED <<os, cap, cpu, gdt, hv>>
  BY DEF SetupVmcs, Goto
<1>2. hv = HvOf("setup_vmcs") /\ gdt = GdtOf("setup_vmcs")
      /\ cpu = LaunchRegisters(LaunchGdtr, AdjustedCr(os.cr), "host")
  BY <1>1 DEF ValuesInv, HvInv, GdtInv, CpuInv
<1>3. /\ hv.guest_tr = GuestTr /\ hv.guest_ldtr = os.selector["ldtr"] /\ hv.ia32_gs_base = os.gs_base
      /\ hv.host_cr = AdjustedCr(os.cr) /\ hv.guest_gdt = GuestGdtr /\ hv.idtr = "os"
      /\ hv.guest_cr3 = "os" /\ hv.debug = "os" /\ hv.next_virtual_processor = 1
  BY <1>2 DEF HvOf
<1>4. gdt["intermediate"] = Intermediate
  BY <1>2 DEF GdtOf
<1>5. \A s \in Segs \ {"tr", "ldtr"} : cpu.seg[s].selector = os.selector[s]
  BY <1>2 DEF LaunchRegisters, OsRegisters, Loaded
<1>6. \A s \in Segs : GuestSelector(s) = SelectorIn(s)
  BY <1>3, <1>5 DEF GuestSelector, SelectorIn
<1>7. \A s \in Segs : GuestSegment(s) = SegmentIn(s)
  BY <1>3, <1>4, <1>6 DEF GuestSegment, SegmentIn, DescriptorIn
<1>8. GuestState = GuestRegisters("os")
  BY <1>3, <1>7 DEF GuestState, GuestRegisters
<1>9. HostState = HostRegisters("zero")
  <2> DEFINE none == [s \in Segs |-> NoSegment]
             seg == [none EXCEPT !["cs"].selector = host_cs, !["tr"].selector = host_tr,
                                 !["tr"].base = HostTss]
  <2>1. "cs" \in Segs /\ "tr" \in Segs
    BY DEF Segs, CodeAndData
  <2>2. seg = HostRegisters("zero").seg
    BY <2>1 DEF HostRegisters
  <2>3. HostState = [seg |-> seg, gdtr |-> [table |-> "host", limit |-> Limit(GdtEntries)],
                     cr |-> hv.host_cr, cr3 |-> "host", idtr |-> "host", debug |-> "zero",
                     sysenter |-> "zero"]
    <3> HIDE DEF seg
    <3>1. ZeroRegisters = [ seg |-> none, gdtr |-> NoTable, cr |-> {},
                            cr3 |-> "zero", idtr |-> "zero", debug |-> "zero", sysenter |-> "zero" ]
      BY DEF ZeroRegisters
    <3>2. HostState = [ZeroRegisters EXCEPT !.seg = seg,
                          !.gdtr = [table |-> "host", limit |-> Limit(GdtEntries)],
                          !.idtr = "host", !.cr = hv.host_cr, !.cr3 = "host"]
      BY <3>1 DEF HostState, seg
    <3> QED
      BY <3>1, <3>2
  <2> QED
    BY <1>3, <2>2, <2>3 DEF HostRegisters
<1>10. vmcs' = VmcsWith("os")
  BY <1>3, <1>8, <1>9 DEF SetupVmcs, VmcsWith
<1>11. hv = HvOf("vmlaunch") /\ gdt = GdtOf("vmlaunch")
  BY <1>2 DEF HvOf, GdtOf
<1>12. PlaceInv' /\ GdtInv'
  BY <1>1, <1>11, ValuesAreConstant DEF ValuesInv, PlaceInv, GdtInv
<1>13. HvInv' /\ CpuInv' /\ VmcsInv' /\ DecidedInv'
  BY <1>1, <1>2, <1>10, <1>11, ValuesAreConstant DEF ValuesInv, HvInv, CpuInv, VmcsInv, DecidedInv
<1> QED
  BY <1>12, <1>13 DEF ValuesInv

\* A segment of the guest that has a selector: what the operating system loaded.
LEMMA UsedSegment ==
  ASSUME os \in OperatingSystems, NEW s \in Segs, os.selector[s] # 0
  PROVE  LET d == DescriptorIn(s)
             x == os.selector[s]
         IN  /\ SelectorIn(s) = x /\ d.present /\ d.limit \in 0 .. 16 * LimitLow - 1
             /\ d.granularity \in BOOLEAN /\ d.type \in 0 .. 15
             /\ d.system \in BOOLEAN
             /\ TableIndicator(x) = 0
             /\ d.granularity => d.limit % Page = Page - 1
             /\ ~d.system => context_dependent_base(d) \in 0 .. Half - 1
             /\ s = "cs" => /\ ~d.system /\ d.type \in {9, 11, 13, 15} /\ d.code_64_bit
                            /\ ~d.default_operation_size
             /\ s = "ss" => ~d.system /\ d.type \in {3, 7}
             /\ s \in {"cs", "ss"} => d.privilege_level = 0 /\ Rpl(x) = 0
             /\ s \in {"ds", "es", "fs", "gs"} =>
                   ~d.system /\ d.type % 2 = 1 /\ (d.type \in 0 .. 11 => d.privilege_level >= Rpl(x))
             /\ s = "tr" => d.system /\ d.type = tss_busy
             /\ s = "ldtr" => d.system /\ d.type = ldt
<1> DEFINE x == os.selector[s]
           e == os.gdt[Index(x)]
           d == DescriptorIn(s)
<1>1. PICK u : d = [e EXCEPT !.upper = u]
  BY GuestDescriptor
<1>2. e \in Entries /\ InUse(os, s) /\ SelectorIn(s) = x
  BY OsDescriptor, GuestDescriptor
<1>3. /\ d.present = e.present /\ d.limit = e.limit /\ d.granularity = e.granularity
      /\ d.type = e.type /\ d.system = e.system /\ d.base = e.base /\ d.code_64_bit = e.code_64_bit
      /\ d.default_operation_size = e.default_operation_size
      /\ d.privilege_level = e.privilege_level
  BY <1>1, <1>2 DEF Entries
<1>4. /\ e.limit \in 0 .. 16 * LimitLow - 1 /\ e.granularity \in BOOLEAN /\ e.type \in 0 .. 15
      /\ e.system \in BOOLEAN /\ e.base \in 0 .. Half - 1
  BY <1>2 DEF Entries
<1>5. ~d.system => context_dependent_base(d) \in 0 .. Half - 1
  BY <1>3, <1>4 DEF context_dependent_base
<1>6. d.present /\ TableIndicator(x) = 0 /\ (d.granularity => d.limit % Page = Page - 1)
  BY <1>2, <1>3 DEF InUse
<1>7. /\ s = "cs" => /\ ~d.system /\ d.type \in {9, 11, 13, 15} /\ d.code_64_bit
                     /\ ~d.default_operation_size
      /\ s = "ss" => ~d.system /\ d.type \in {3, 7}
      /\ s \in {"cs", "ss"} => d.privilege_level = 0 /\ Rpl(x) = 0
  BY <1>2, <1>3 DEF InUse
<1>8. s \in {"ds", "es", "fs", "gs"} =>
          ~d.system /\ d.type % 2 = 1 /\ (d.type \in 0 .. 11 => d.privilege_level >= Rpl(x))
  BY <1>2, <1>3 DEF InUse
<1>9. /\ s = "tr" => d.system /\ d.type = tss_busy
      /\ s = "ldtr" => d.system /\ d.type = ldt
  BY <1>2, <1>3 DEF InUse
<1> QED
  BY <1>2, <1>3, <1>4, <1>5, <1>6, <1>7, <1>8, <1>9

\* The rights of a segment of the guest are those of its descriptor, and its limit
\* and its selector too.
LEMMA SegmentFields ==
  ASSUME NEW s \in Segs
  PROVE  LET r == SegmentIn(s)
             d == DescriptorIn(s)
         IN  /\ r.selector = SelectorIn(s) /\ r.limit = d.limit
             /\ s # "gs" => r.base = context_dependent_base(d)
             /\ r.rights.type = d.type /\ r.rights.system = d.system
             /\ r.rights.privilege_level = d.privilege_level /\ r.rights.present = d.present
             /\ r.rights.code_64_bit = d.code_64_bit
             /\ r.rights.default_operation_size = d.default_operation_size
             /\ r.rights.granularity = d.granularity /\ r.rights.unusable = ~d.present
             /\ cap.drops => r.rights.limit_high = 0
             /\ ~cap.drops => r.rights.limit_high = d.limit \div LimitLow
BY DEF SegmentIn, Written, vmx_access_rights

\* The iretq before vmlaunch goes to the operating system's code segment, which the
\* intermediate GDT has too.
LEMMA IretToVmlaunch ==
  ASSUME os \in OperatingSystems
  PROVE  IretAccepts(Intermediate, os.selector["cs"], os.selector["ss"])
<1>1. os.selector["cs"] # 0 /\ "cs" \in Segs /\ "ss" \in Segs
  BY OperatingSystemsAssumption DEF IsOperatingSystem, Segs, CodeAndData
<1>2. LET c == from_memory(Intermediate, os.selector["cs"])
      IN  c.present /\ ~c.system /\ c.type >= 8 /\ c.code_64_bit
  BY <1>1, UsedSegment DEF DescriptorIn
<1>3. os.selector["ss"] # 0 =>
        LET c == from_memory(Intermediate, os.selector["ss"])
        IN  c.present /\ ~c.system /\ c.type \in {2, 3, 6, 7}
  BY <1>1, UsedSegment DEF DescriptorIn
<1> QED
  BY <1>2, <1>3 DEF IretAccepts

\* The format of a segment in use is valid if the processor drops reserved bits.
LEMMA ValidFormat ==
  ASSUME os \in OperatingSystems, cap.drops, NEW s \in Segs, SelectorIn(s) # 0
  PROVE  FormatIsValid(SegmentIn(s)) /\ ~SegmentIn(s).rights.unusable
<1> USE LimitAssumption
<1>1. CASE os.selector[s] # 0
  <2>1. LET d == DescriptorIn(s)
        IN  /\ d.present /\ d.limit \in 0 .. 16 * LimitLow - 1
            /\ d.granularity => d.limit % Page = Page - 1
            /\ d.granularity \in BOOLEAN
    BY <1>1, UsedSegment
  <2>2. ~(DescriptorIn(s).limit >= 16 * LimitLow)
    BY <2>1
  <2> QED
    BY <2>1, <2>2, SegmentFields DEF FormatIsValid
<1>2. CASE os.selector[s] = 0
  <2>1. s = "tr" /\ Added
    BY <1>2 DEF SelectorIn, Added
  <2>2. LET d == DescriptorIn(s) IN d.limit = 103 /\ d.present /\ ~d.granularity
    BY <2>1, AddedDescriptor
  <2>3. DescriptorIn(s).limit >= 16 * LimitLow => FALSE
    BY <2>2, TssLimitAssumption
  <2> QED
    BY <2>1, <2>2, <2>3, SegmentFields DEF FormatIsValid
<1> QED
  BY <1>1, <1>2

\* setup_vmcs asks for controls the processor allows, with what it demands.
LEMMA ValidControls ==
  ASSUME cap \in Processors, NEW d, vmcs = VmcsWith(d)
  PROVE  ControlsAreValid /\ HostIsValid
<1> USE DEF VmcsWith
<1>1. IsProcessor(cap)
  BY ProcessorsAssumption
<1>2. /\ vmcs.pin = adjust_msr(cap.pin, {}) /\ vmcs.primary = adjust_msr(cap.primary, primary_controls)
      /\ vmcs.secondary = adjust_msr(cap.secondary, secondary_controls)
      /\ vmcs.exit = adjust_msr(cap.exit, exit_controls)
      /\ vmcs.entry = adjust_msr(cap.entry, entry_controls)
      /\ vmcs.vpid = 1 /\ vmcs.eptp = EptPointer /\ vmcs.host = HostRegisters("zero")
  OBVIOUS
<1>3. /\ cap.pin.low \subseteq vmcs.pin /\ vmcs.pin \subseteq cap.pin.high
      /\ cap.primary.low \subseteq vmcs.primary /\ vmcs.primary \subseteq cap.primary.high
      /\ cap.secondary.low \subseteq vmcs.secondary /\ vmcs.secondary \subseteq cap.secondary.high
      /\ cap.exit.low \subseteq vmcs.exit /\ vmcs.exit \subseteq cap.exit.high
      /\ cap.entry.low \subseteq vmcs.entry /\ vmcs.entry \subseteq cap.entry.high
  BY <1>1, <1>2 DEF adjust_msr, IsProcessor
<1>4. "mode_based_execute_control" \in vmcs.secondary => "enable_ept" \in vmcs.secondary
  BY <1>1, <1>2, <1>3 DEF IsProcessor, adjust_msr, secondary_controls
<1>5. ControlsAreValid
  BY <1>2, <1>3, <1>4 DEF ControlsAreValid, EffectiveSecondary, EptPointer
<1>6. vmcs.host.cr = AdjustedCr(os.cr) /\ vmcs.host.seg["cs"].selector = host_cs
      /\ vmcs.host.seg["tr"].selector = host_tr
  BY <1>2 DEF HostRegisters, Segs, CodeAndData, NoSegment, Loaded
<1>7. CrIsValid(AdjustedCr(os.cr))
  BY <1>1 DEF CrIsValid, AdjustedCr, IsProcessor
<1>8. "host_address_space_size" \in vmcs.exit
  BY <1>1, <1>2 DEF adjust_msr, exit_controls, IsProcessor
<1>9. \A x \in {host_cs, host_tr} : x # 0 /\ TableIndicator(x) = 0 /\ Rpl(x) = 0
  BY DEF host_cs, host_tr, TableIndicator, Rpl
<1> QED
  BY <1>5, <1>6, <1>7, <1>8, <1>9 DEF HostIsValid

\* The guest state passes the checks if the processor drops reserved bits and the
\* guest has a TSS.
LEMMA ValidGuest ==
  ASSUME os \in OperatingSystems, cap \in Processors, NEW d, vmcs = VmcsWith(d),
         cap.drops, HasTss \/ Room
  PROVE  GuestIsValid
<1> DEFINE seg == [s \in Segs |-> SegmentIn(s)]
<1>1. /\ vmcs.guest.seg = seg /\ vmcs.guest.gdtr = GuestGdtr /\ vmcs.guest.cr = AdjustedCr(os.cr)
      /\ vmcs.entry = adjust_msr(cap.entry, entry_controls)
  BY DEF VmcsWith, GuestRegisters
<1> HIDE DEF seg
<1>2. \A s \in Segs : seg[s] = SegmentIn(s)
  BY DEF seg
<1>3. {"cs", "ss", "ds", "es", "fs", "gs", "tr", "ldtr"} = Segs
  BY DEF Segs, CodeAndData
<1>4. os.selector["cs"] # 0
  BY OperatingSystemsAssumption DEF IsOperatingSystem
<1>5. \A s \in Segs : s # "tr" => SelectorIn(s) = os.selector[s]
  BY DEF SelectorIn
<1>6. ASSUME NEW s \in Segs \ {"tr"}, os.selector[s] = 0
      PROVE  SegmentIn(s).rights.unusable /\ SegmentIn(s).rights.privilege_level = 0
  <2>1. DescriptorIn(s) = Zero
    BY <1>6, NoDescriptor
  <2>2. ~DescriptorIn(s).present /\ DescriptorIn(s).privilege_level = 0
    BY <2>1 DEF Zero
  <2> QED
    BY <2>2, SegmentFields
<1>7. Rpl(0) = 0
  BY DEF Rpl
<1>8. CodeIsValid(seg["cs"], seg["ss"]) /\ StackIsValid(seg["cs"], seg["ss"])
  <2> DEFINE c == DescriptorIn("cs")
             t == DescriptorIn("ss")
  <2>1. /\ c.present /\ ~c.system /\ c.type \in {9, 11, 13, 15} /\ ~c.default_operation_size
        /\ c.privilege_level = 0 /\ Rpl(os.selector["cs"]) = 0
        /\ context_dependent_base(c) \in 0 .. Half - 1
    BY <1>3, <1>4, UsedSegment
  <2>2. FormatIsValid(SegmentIn("cs")) /\ ~SegmentIn("cs").rights.unusable
    BY <1>3, <1>4, <1>5, ValidFormat
  <2>3. SegmentIn("ss").rights.privilege_level = 0 /\ Rpl(os.selector["ss"]) = 0
    BY <1>3, <1>6, <1>7, UsedSegment, SegmentFields
  <2>4. context_dependent_base(c) < Half
    BY <2>1, HalfAssumption
  <2>5. CodeIsValid(SegmentIn("cs"), SegmentIn("ss"))
    BY <1>3, <2>1, <2>2, <2>3, <2>4, SegmentFields DEF CodeIsValid
  <2>6. SegmentIn("cs").selector = os.selector["cs"] /\ SegmentIn("ss").selector = os.selector["ss"]
    BY <1>3, <1>5, SegmentFields
  <2>7. StackIsValid(SegmentIn("cs"), SegmentIn("ss"))
    <3>1. CASE os.selector["ss"] = 0
      <4>1. SegmentIn("ss").rights.unusable
        BY <1>3, <1>6, <3>1
      <4> QED
        BY <2>1, <2>3, <2>6, <4>1 DEF StackIsValid
    <3>2. CASE os.selector["ss"] # 0
      <4>1. ~t.system /\ t.type \in {3, 7} /\ context_dependent_base(t) \in 0 .. Half - 1
        BY <1>3, <3>2, UsedSegment
      <4>2. FormatIsValid(SegmentIn("ss")) /\ context_dependent_base(t) < Half
        BY <1>3, <1>5, <3>2, <4>1, ValidFormat, HalfAssumption
      <4>3. ~SegmentIn("ss").rights.system /\ SegmentIn("ss").rights.type \in {3, 7}
            /\ SegmentIn("ss").base < Half
        BY <1>3, <4>1, <4>2, SegmentFields
      <4> QED
        BY <2>1, <2>3, <2>6, <4>2, <4>3 DEF StackIsValid
    <3> QED
      BY <3>1, <3>2
  <2> QED
    BY <1>2, <1>3, <2>5, <2>7
<1>9. ASSUME NEW s \in {"ds", "es", "fs", "gs"}
      PROVE  /\ DataIsValid(seg[s])
             /\ s \in {"ds", "es"} /\ ~seg[s].rights.unusable => seg[s].base < Half
  <2>1. s \in Segs /\ s # "tr"
    BY <1>3
  <2>2. CASE os.selector[s] = 0
    BY <1>2, <1>6, <2>1, <2>2 DEF DataIsValid
  <2>3. CASE os.selector[s] # 0
    <3> DEFINE t == DescriptorIn(s)
    <3>1. /\ ~t.system /\ t.type % 2 = 1 /\ context_dependent_base(t) \in 0 .. Half - 1
          /\ t.type \in 0 .. 11 => t.privilege_level >= Rpl(os.selector[s])
      BY <2>1, <2>3, UsedSegment
    <3>2. FormatIsValid(SegmentIn(s)) /\ context_dependent_base(t) < Half
      BY <1>5, <2>1, <2>3, <3>1, ValidFormat, HalfAssumption
    <3> QED
      BY <1>2, <1>5, <2>1, <3>1, <3>2, SegmentFields DEF DataIsValid
  <2> QED
    BY <2>2, <2>3
<1>10. TaskIsValid(seg["tr"])
  <2>1. GuestTr # 0 /\ TableIndicator(GuestTr) = 0 /\ DescriptorIn("tr").system
        /\ DescriptorIn("tr").type = tss_busy
    <3>1. CASE HasTss
      BY <1>3, <3>1, TssIsPresent, GuestTrValue, UsedSegment
    <3>2. CASE ~HasTss
      <4>1. Added /\ GuestTr # 0
        BY <3>2, GuestTrValue, OsGdtShape, GdtEntriesAssumption DEF Room
      <4> QED
        BY <4>1, IntermediateGdt, AddedDescriptor
    <3> QED
      BY <3>1, <3>2
  <2>2. SelectorIn("tr") = GuestTr
    BY DEF SelectorIn
  <2>3. FormatIsValid(SegmentIn("tr")) /\ ~SegmentIn("tr").rights.unusable
    BY <1>3, <2>1, <2>2, ValidFormat
  <2> QED
    BY <1>2, <1>3, <2>1, <2>2, <2>3, SegmentFields DEF TaskIsValid
<1>11. LdtIsValid(seg["ldtr"])
  <2>1. CASE os.selector["ldtr"] = 0
    BY <1>2, <1>3, <1>6, <2>1 DEF LdtIsValid
  <2>2. CASE os.selector["ldtr"] # 0
    <3>1. /\ DescriptorIn("ldtr").system /\ DescriptorIn("ldtr").type = ldt
          /\ TableIndicator(os.selector["ldtr"]) = 0
      BY <1>3, <2>2, UsedSegment
    <3>2. FormatIsValid(SegmentIn("ldtr"))
      BY <1>3, <1>5, <2>2, ValidFormat
    <3> QED
      BY <1>2, <1>3, <1>5, <3>1, <3>2, SegmentFields DEF LdtIsValid
  <2> QED
    BY <2>1, <2>2
<1>12. CrIsValid(vmcs.guest.cr) /\ "ia_32e_mode_guest" \in vmcs.entry
  BY <1>1, ProcessorsAssumption DEF IsProcessor, CrIsValid, AdjustedCr, adjust_msr, entry_controls
<1>13. vmcs.guest.gdtr.limit < 8 * GdtEntries
  <2>1. OsEntries \in 1 .. GdtEntries /\ GdtEntries \in Nat
    BY OsGdtShape, GdtEntriesAssumption
  <2>2. GuestGdtr.limit = IF HasTss THEN 8 * OsEntries - 1 ELSE 8 * OsEntries - 1 + 2 * 8
    BY DEF GuestGdtr, OsGdtr, Limit, GrownLimit
  <2> QED
    BY <1>1, <2>1, <2>2 DEF Room
<1> QED
  BY <1>1, <1>8, <1>9, <1>10, <1>11, <1>12, <1>13 DEF GuestIsValid

\* A guest that was accepted has a TSS, and no reserved bit in its access rights.
LEMMA AcceptedGuest ==
  ASSUME os \in OperatingSystems, NEW d, vmcs = VmcsWith(d), GuestIsValid
  PROVE  /\ HasTss \/ Room
         /\ \A s \in Segs : SegmentIn(s).rights.limit_high = 0
<1>1. vmcs.guest.seg = [s \in Segs |-> SegmentIn(s)] /\ vmcs.guest.gdtr = GuestGdtr
  BY DEF VmcsWith, GuestRegisters
<1>2. HasTss \/ Room
  <2>1. OsEntries \in 1 .. GdtEntries /\ GdtEntries \in Nat
    BY OsGdtShape, GdtEntriesAssumption
  <2>2. ~HasTss => GuestGdtr.limit = 8 * OsEntries - 1 + 2 * 8
    BY DEF GuestGdtr, Limit, GrownLimit
  <2>3. GuestGdtr.limit < 8 * GdtEntries
    BY <1>1 DEF GuestIsValid
  <2> QED
    BY <2>1, <2>2, <2>3 DEF Room
<1>3. ASSUME NEW s \in Segs
      PROVE  SegmentIn(s).rights.limit_high = 0
  <2>1. vmcs.guest.seg[s] = SegmentIn(s)
    BY <1>1
  <2>2. ~SegmentIn(s).rights.unusable => SegmentIn(s).rights.limit_high = 0
    <3>1. CASE s \in {"cs", "tr"}
      BY <2>1, <3>1 DEF GuestIsValid, CodeIsValid, TaskIsValid, FormatIsValid
    <3>2. CASE s \in {"ss", "ldtr"}
      BY <2>1, <3>2 DEF GuestIsValid, StackIsValid, LdtIsValid, FormatIsValid
    <3>3. CASE s \in {"ds", "es", "fs", "gs"}
      <4>1. DataIsValid(SegmentIn(s))
        BY <2>1, <3>3 DEF GuestIsValid
      <4> QED
        BY <4>1 DEF DataIsValid, FormatIsValid
    <3> QED
      BY <3>1, <3>2, <3>3 DEF Segs, CodeAndData
  <2>3. CASE s = "tr" \/ os.selector[s] # 0
    <3>1. CASE s = "tr"
      BY <2>1, <2>2, <3>1 DEF GuestIsValid, TaskIsValid
    <3>2. CASE os.selector[s] # 0
      <4>1. DescriptorIn(s).present
        BY <3>2, UsedSegment
      <4> QED
        BY <2>2, <4>1, SegmentFields
    <3> QED
      BY <2>3, <3>1, <3>2
  <2>4. CASE s # "tr" /\ os.selector[s] = 0
    <3>1. DescriptorIn(s) = Zero
      BY <2>4, NoDescriptor
    <3>2. DescriptorIn(s).limit = 0 /\ 0 \div LimitLow = 0
      BY <3>1, LimitAssumption DEF Zero
    <3> QED
      BY <3>2, SegmentFields
  <2> QED
    BY <2>3, <2>4
<1> QED
  BY <1>2, <1>3

\* VM entry loads the guest's registers from the VMCS.
LEMMA EntryLoadsGuest ==
  ASSUME NEW d, vmcs = VmcsWith(d), EnterGuest
  PROVE  \E e : cpu' = GuestRegisters(e)
<1> DEFINE e == IF "load_debug_controls" \in vmcs.entry THEN d ELSE cpu.debug
<1>1. vmcs.guest = GuestRegisters(d)
  BY DEF VmcsWith
<1>2. cpu' = [GuestRegisters(d) EXCEPT !.debug = e]
  BY <1>1 DEF EnterGuest, GuestRegisters
<1>3. cpu' = GuestRegisters(e)
  BY <1>2 DEF GuestRegisters
<1> QED
  BY <1>3

\* The VM is launched, or the VMCS rejected.
LEMMA VmlaunchValues ==
  ASSUME ValuesInv, Vmlaunch
  PROVE  ValuesInv'
<1> USE DEF BeforeLoad, Launching, AfterSetup
<1>1. pc = "vmlaunch" /\ UNCHANGED <<os, cap, gdt, hv, vmcs>>
      /\ os \in OperatingSystems /\ cap \in Processors
  BY DEF Vmlaunch, Goto, ValuesInv, PlaceInv
<1>2. hv = HvOf("vmlaunch") /\ gdt = GdtOf("vmlaunch")
      /\ cpu = LaunchRegisters(LaunchGdtr, AdjustedCr(os.cr), "host")
  BY <1>1 DEF ValuesInv, HvInv, GdtInv, CpuInv
<1>3. PICK d : vmcs = VmcsWith(d)
  BY <1>1 DEF ValuesInv, VmcsInv
<1>4. /\ Table(cpu.gdtr) = Intermediate
      /\ cpu.seg["cs"].selector = os.selector["cs"] /\ cpu.seg["ss"].selector = os.selector["ss"]
  <2>1. Table(cpu.gdtr) = Intermediate
    BY <1>2 DEF Table, LaunchRegisters, LaunchGdtr, GdtOf
  <2>2. \A s \in {"cs", "ss"} : cpu.seg[s].selector = os.selector[s]
    BY <1>2 DEF LaunchRegisters, OsRegisters, Loaded, Segs, CodeAndData
  <2> QED
    BY <2>1, <2>2
<1>5. IretAccepts(Table(cpu.gdtr), cpu.seg["cs"].selector, cpu.seg["ss"].selector)
  BY <1>1, <1>4, IretToVmlaunch
<1>6. \A q \in {"guest", "rejected"} : hv = HvOf(q) /\ gdt = GdtOf(q)
  BY <1>2 DEF HvOf, GdtOf
<1>7. CASE ControlsAreValid /\ HostIsValid /\ GuestIsValid
  <2>1. pc' = "guest" /\ EnterGuest
    BY <1>5, <1>7 DEF Vmlaunch, Goto
  <2>2. (HasTss \/ Room) /\ \A s \in Segs : SegmentIn(s).rights.limit_high = 0
    BY <1>1, <1>3, <1>7, AcceptedGuest
  <2>3. \E e : cpu' = GuestRegisters(e)
    BY <1>3, <2>1, EntryLoadsGuest
  <2>4. PlaceInv' /\ GdtInv' /\ HvInv'
    BY <1>1, <1>6, <2>1, ValuesAreConstant DEF ValuesInv, PlaceInv, GdtInv, HvInv
  <2>5. CpuInv' /\ VmcsInv'
    BY <1>1, <1>3, <2>1, <2>3, ValuesAreConstant DEF CpuInv, VmcsInv
  <2>6. DecidedInv'
    BY <1>1, <2>1, <2>2, ValuesAreConstant DEF DecidedInv
  <2> QED
    BY <2>4, <2>5, <2>6 DEF ValuesInv
<1>8. CASE ~(ControlsAreValid /\ HostIsValid /\ GuestIsValid)
  <2>1. pc' = "rejected" /\ UNCHANGED cpu
    BY <1>5, <1>8 DEF Vmlaunch, Goto
  <2>2. ~cap.drops \/ ~(HasTss \/ Room)
    BY <1>1, <1>3, <1>8, ValidControls, ValidGuest
  <2>3. PlaceInv' /\ GdtInv' /\ HvInv'
    BY <1>1, <1>6, <2>1, ValuesAreConstant DEF ValuesInv, PlaceInv, GdtInv, HvInv
  <2>4. CpuInv' /\ VmcsInv'
    BY <1>1, <1>2, <1>3, <2>1, ValuesAreConstant DEF CpuInv, VmcsInv
  <2>5. DecidedInv'
    BY <1>1, <2>1, <2>2, ValuesAreConstant DEF DecidedInv, EntryIsAccepted
  <2> QED
    BY <2>3, <2>4, <2>5 DEF ValuesInv
<1> QED
  BY <1>7, <1>8

\* The guest leaves: its registers are in the VMCS, the host's in the CPU.
LEMMA VmExitValues ==
  ASSUME ValuesInv, VmExit
  PROVE  ValuesInv'
<1> USE DEF BeforeLoad, Launching, AfterSetup
<1>1. pc = "guest" /\ pc' = "host" /\ UNCHANGED <<os, cap, gdt, hv>>
  BY DEF VmExit, Goto
<1>2. PICK d : vmcs = VmcsWith(d)
  BY <1>1 DEF ValuesInv, VmcsInv
<1>3. PICK c : cpu = GuestRegisters(c)
  BY <1>1 DEF ValuesInv, CpuInv
<1> DEFINE e == IF "save_debug_controls" \in vmcs.exit THEN c ELSE d
<1>4. [cpu EXCEPT !.debug = IF "save_debug_controls" \in vmcs.exit THEN @ ELSE vmcs.guest.debug]
        = GuestRegisters(e)
  BY <1>2, <1>3 DEF GuestRegisters, VmcsWith
<1>5. vmcs' = VmcsWith(e)
  <2>1. vmcs' = [vmcs EXCEPT !.guest = GuestRegisters(e)]
    BY <1>4 DEF VmExit
  <2> QED
    BY <1>2, <2>1 DEF VmcsWith
<1>6. cpu' = HostRegisters("reset")
  <2>1. vmcs.host = HostRegisters("zero")
    BY <1>2 DEF VmcsWith
  <2>2. cpu' = [HostRegisters("zero") EXCEPT !.debug = "reset"]
    BY <2>1 DEF VmExit
  <2> DEFINE seg == HostRegisters("zero").seg
             gdtr == [table |-> "host", limit |-> Limit(GdtEntries)]
  <2>3. \A x : HostRegisters(x) = [seg |-> seg, gdtr |-> gdtr, cr |-> AdjustedCr(os.cr), cr3 |-> "host",
                                  idtr |-> "host", debug |-> x, sysenter |-> "zero"]
    BY DEF HostRegisters
  <2> HIDE DEF seg, gdtr
  <2> QED
    BY <2>2, <2>3
<1>7. hv = HvOf("host") /\ gdt = GdtOf("host")
  BY <1>1 DEF ValuesInv, HvInv, GdtInv, HvOf, GdtOf
<1>8. PlaceInv' /\ GdtInv' /\ HvInv'
  BY <1>1, <1>7, ValuesAreConstant DEF ValuesInv, PlaceInv, GdtInv, HvInv
<1>9. CpuInv' /\ VmcsInv'
  BY <1>1, <1>5, <1>6, ValuesAreConstant DEF CpuInv, VmcsInv
<1>10. DecidedInv'
  BY <1>1, ValuesAreConstant DEF ValuesInv, DecidedInv
<1> QED
  BY <1>8, <1>9, <1>10 DEF ValuesInv

\* The host GDT: the code segment, and the TSS in two entries.
LEMMA HostGdtEntries ==
  /\ 16 = host_tr /\ from_memory(HostGdt(HostTss), host_cs).present
  /\ LET c == from_memory(HostGdt(HostTss), host_cs)
     IN  ~c.system /\ c.type >= 8 /\ c.code_64_bit
  /\ LET d == from_memory(HostGdt(HostTss), host_tr)
     IN  d.present /\ d.system /\ d.type = tss_available /\ base_extended(d) = HostTss
<1> USE GdtEntriesAssumption, HalfAssumption, TssAssumption
<1> DEFINE g == HostGdt(HostTss)
           tss == TaskStateSegment(HostTss)
<1>1. /\ Index(host_cs) = 1 /\ Index(host_tr) = 2 /\ host_cs = 8 /\ host_tr = 16
      /\ TableIndicator(host_cs) = 0 /\ TableIndicator(host_tr) = 0
  BY DEF Index, TableIndicator, host_cs, host_tr
<1>2. /\ DOMAIN g = 0 .. GdtEntries - 1 /\ 1 \in DOMAIN g /\ 2 \in DOMAIN g /\ 3 \in DOMAIN g
      /\ g[1] = basic_value(CodeSegment)
      /\ g[2] = basic_value(tss) /\ g[3] = extended_value(tss)
  BY <1>1 DEF HostGdt, WithTss, EmptyGdt
<1> HIDE DEF g, tss
<1>3. from_memory(g, host_cs) = [basic_value(CodeSegment) EXCEPT !.upper = g[2].upper]
  BY <1>1, <1>2 DEF from_memory, EntryAt
<1>4. LET c == from_memory(g, host_cs) IN c.present /\ ~c.system /\ c.type >= 8 /\ c.code_64_bit
  BY <1>3 DEF basic_value, CodeSegment, Descriptor, Zero, code_execute_read
<1>5. from_memory(g, host_tr) = [basic_value(tss) EXCEPT !.upper = extended_value(tss).upper]
  BY <1>1, <1>2 DEF from_memory, EntryAt
<1>6. LET d == from_memory(g, host_tr)
      IN  /\ d.present /\ d.system /\ d.type = tss_available
          /\ d.base = HostTss % Half /\ d.upper = HostTss \div Half
  BY <1>5 DEF tss, basic_value, extended_value, TaskStateSegment, Descriptor, Zero
<1>7. (HostTss % Half) + (HostTss \div Half) * Half = HostTss
  OBVIOUS
<1>8. base_extended(from_memory(g, host_tr)) = HostTss
  BY <1>6, <1>7 DEF base_extended
<1> QED
  BY <1>1, <1>4, <1>6, <1>8 DEF g

\* The handler ends: the guest's registers are loaded again.
LEMMA VmresumeValues ==
  ASSUME ValuesInv, Vmresume
  PROVE  ValuesInv'
<1> USE DEF BeforeLoad, Launching, AfterSetup
<1>1. pc = "host" /\ UNCHANGED <<os, cap, gdt, hv, vmcs>>
  BY DEF Vmresume, Goto
<1>2. PICK d : vmcs = VmcsWith(d)
  BY <1>1 DEF ValuesInv, VmcsInv
<1>3. hv = HvOf("host") /\ gdt = GdtOf("host") /\ cpu = HostRegisters("reset")
  BY <1>1 DEF ValuesInv, HvInv, GdtInv, CpuInv
<1>4. Table(cpu.gdtr) = HostGdt(HostTss)
  BY <1>3 DEF HostRegisters, Table, GdtOf
<1>5. IretAccepts(Table(cpu.gdtr), host_cs, 0)
  BY <1>4, HostGdtEntries DEF IretAccepts
<1>6. pc' = "guest" /\ EnterGuest
  BY <1>5 DEF Vmresume, Goto
<1>7. \E e : cpu' = GuestRegisters(e)
  BY <1>2, <1>6, EntryLoadsGuest
<1>8. hv = HvOf("guest") /\ gdt = GdtOf("guest")
  BY <1>3 DEF HvOf, GdtOf
<1>9. PlaceInv' /\ GdtInv' /\ HvInv'
  BY <1>1, <1>6, <1>8, ValuesAreConstant DEF ValuesInv, PlaceInv, GdtInv, HvInv
<1>10. CpuInv' /\ VmcsInv'
  BY <1>1, <1>2, <1>6, <1>7, ValuesAreConstant DEF CpuInv, VmcsInv
<1>11. DecidedInv'
  BY <1>1, <1>6, ValuesAreConstant DEF ValuesInv, DecidedInv
<1> QED
  BY <1>9, <1>10, <1>11 DEF ValuesInv

\* A step that changes nothing.
LEMMA ValuesStutter ==
  ASSUME ValuesInv, UNCHANGED vars
  PROVE  ValuesInv'
<1>1. UNCHANGED <<os, cap, pc, cpu, gdt, hv, vmcs>>
  BY DEF vars
<1>2. PlaceInv' /\ GdtInv' /\ HvInv'
  BY <1>1, ValuesAreConstant DEF ValuesInv, PlaceInv, GdtInv, HvInv, BeforeLoad, Launching, AfterSetup
<1>3. CpuInv' /\ VmcsInv'
  BY <1>1, ValuesAreConstant DEF ValuesInv, CpuInv, VmcsInv, BeforeLoad, AfterSetup
<1>4. DecidedInv'
  BY <1>1, ValuesAreConstant DEF ValuesInv, DecidedInv, EntryIsAccepted
<1> QED
  BY <1>2, <1>3, <1>4 DEF ValuesInv

\* Every step keeps ValuesInv.
LEMMA ValuesInvNext == ValuesInv /\ [Next]_vars => ValuesInv'
BY InitializeRegistersValues, InitializeHostGdtValues, InitializeIntermediateGdtValues,
   LoadIntermediateGdtValues, InitializeVmxMsrsValues, EnterRootModeValues, MainFailsValues,
   LoadOsGdtValues, SetupVmcsValues, VmlaunchValues, VmExitValues, VmresumeValues, ValuesStutter
DEF Next, Stopped

\* ValuesInv is an invariant of the launch.
THEOREM ValuesInvariance == Spec => []ValuesInv
BY ValuesInvInit, ValuesInvNext, PTL DEF Spec

-----------------------------------------------------------------------------
(***************************************************************************)
(* The properties.                                                         *)
(***************************************************************************)

\* For every operating system the VMCS is accepted, unless the processor keeps
\* reserved bits, or a TSS is missing and the GDT has no room for one.
THEOREM VmcsIsAccepted == Spec => []EntryIsAccepted
<1>1. ValuesInv => EntryIsAccepted
  BY DEF ValuesInv, DecidedInv, EntryIsAccepted
<1> QED
  BY <1>1, ValuesInvariance, PTL

\* Nothing in the launch or in the exits faults, but an MSR that is missing and the
\* ltr of a task register of zero after a launch that failed.
THEOREM LaunchDoesNotFault == Spec => []NoFault
<1>1. ValuesInv => NoFault
  <2> SUFFICES ASSUME ValuesInv, pc = "fault", VmxMsrs \subseteq cap.msrs
               PROVE  cpu.gdtr.table = "os" /\ os.selector["tr"] = 0
    BY DEF NoFault
  <2>1. os.selector["tr"] = 0 /\ cpu = LaunchRegisters(OsGdtr, os.cr, "os")
    BY DEF ValuesInv, DecidedInv
  <2> QED
    BY <2>1 DEF LaunchRegisters, OsGdtr
<1> QED
  BY <1>1, ValuesInvariance, PTL

\* The handler runs on the hypervisor's own GDT, IDT and page table, and its task
\* register has host_tss, wherever that is.
THEOREM HandlerIsSound == Spec => []HostIsSound
<1>1. ValuesInv => HostIsSound
  <2> SUFFICES ASSUME ValuesInv, pc = "host" PROVE HostIsSound
    BY DEF HostIsSound
  <2>1. cpu = HostRegisters("reset") /\ gdt = GdtOf("host")
    BY DEF ValuesInv, CpuInv, GdtInv
  <2>2. /\ cpu.gdtr.table = "host" /\ cpu.cr3 = "host" /\ cpu.idtr = "host"
        /\ Table(cpu.gdtr) = HostGdt(HostTss)
    BY <2>1 DEF HostRegisters, GdtOf, Table
  <2>3. cpu.seg["tr"].selector = host_tr /\ cpu.seg["tr"].base = HostTss
    BY <2>1 DEF HostRegisters, Segs, NoSegment, Loaded
  <2> QED
    BY <2>2, <2>3, HostGdtEntries DEF HostIsSound
<1> QED
  BY <1>1, ValuesInvariance, PTL

\* Where the processor has the controls the guest runs behind the EPT, with the MSR
\* bitmap and the processor id of its launch; and on every processor with the
\* instructions it can have and without unwanted exits.
THEOREM GuestRunsConfined == Spec => []GuestIsConfined
<1>1. ValuesInv => GuestIsConfined
  <2> SUFFICES ASSUME ValuesInv, pc = "guest" PROVE GuestIsConfined
    BY DEF GuestIsConfined
  <2>1. PICK d : vmcs = VmcsWith(d)
    BY DEF ValuesInv, VmcsInv, AfterSetup
  <2>2. /\ vmcs.pin = adjust_msr(cap.pin, {})
        /\ vmcs.primary = adjust_msr(cap.primary, primary_controls)
        /\ vmcs.secondary = adjust_msr(cap.secondary, secondary_controls)
        /\ vmcs.eptp = EptPointer /\ vmcs.vpid = 1
    BY <2>1 DEF VmcsWith
  <2>3. hv.next_virtual_processor = 1
    BY DEF ValuesInv, HvInv, HvOf, NewHypervisor
  <2>4. /\ "enable_secondary_controls" \in cap.primary.high => "enable_secondary_controls" \in vmcs.primary
        /\ "enable_msr_bitmaps" \in cap.primary.high => "enable_msr_bitmaps" \in vmcs.primary
    BY <2>2 DEF adjust_msr, primary_controls
  <2>5. cap.secondary.high \cap ({"enable_ept", "enable_vpid"} \cup GuestInstructions) \subseteq vmcs.secondary
    BY <2>2 DEF adjust_msr, secondary_controls, GuestInstructions
  <2>6. CanConfine =>
          /\ {"enable_ept", "enable_vpid"} \subseteq EffectiveSecondary
          /\ "enable_msr_bitmaps" \in vmcs.primary
    BY <2>4, <2>5 DEF CanConfine, EffectiveSecondary
  <2>7. "enable_secondary_controls" \in cap.primary.high =>
          cap.secondary.high \cap GuestInstructions \subseteq EffectiveSecondary
    BY <2>4, <2>5 DEF EffectiveSecondary
  <2>8. (vmcs.pin \cup vmcs.primary) \cap UnwantedExits \subseteq cap.pin.low \cup cap.primary.low
    BY <2>2 DEF adjust_msr, primary_controls, UnwantedExits
  <2> QED
    BY <2>2, <2>3, <2>6, <2>7, <2>8 DEF GuestIsConfined
<1> QED
  BY <1>1, ValuesInvariance, PTL

\* The registers TypeOK asks for.
AreRegisters(r) ==
    /\ DOMAIN r = DOMAIN ZeroRegisters
    /\ r.gdtr.table \in {"os", "intermediate", "host", "none"} /\ r.gdtr.limit \in Nat
    /\ \A s \in Segs : r.seg[s].selector \in 0 .. Limit(GdtEntries) /\ r.seg[s].base \in Nat

\* The GDT registers and the selector of the guest's task register are in range.
LEMMA GdtrTypes ==
  ASSUME os \in OperatingSystems
  PROVE  /\ GuestTr \in 0 .. Limit(GdtEntries)
         /\ \A r \in {OsGdtr, GuestGdtr, LaunchGdtr} :
               r.table \in {"os", "intermediate", "host", "none"} /\ r.limit \in Nat
<1> USE GdtEntriesAssumption
<1>1. OsEntries \in 1 .. GdtEntries
  BY OsGdtShape
<1>2. os.selector["tr"] \in 0 .. Limit(GdtEntries)
  BY OperatingSystemsAssumption DEF IsOperatingSystem, Segs
<1>3. GuestTr \in 0 .. Limit(GdtEntries)
  BY <1>1, <1>2, GuestTrValue DEF Limit
<1>4. Limit(OsEntries) \in Nat /\ GrownLimit(Limit(OsEntries)) \in Nat
  BY <1>1 DEF Limit, GrownLimit
<1>5. GuestGdtr.limit \in Nat /\ OsGdtr.limit \in Nat
  BY <1>4 DEF GuestGdtr, OsGdtr
<1>6. 8 * GdtEntries \in Nat \ {0}
  OBVIOUS
<1>7. LaunchGdtr.limit \in Nat
  BY <1>5, <1>6 DEF LaunchGdtr
<1> QED
  BY <1>3, <1>5, <1>7 DEF OsGdtr, GuestGdtr, LaunchGdtr

\* A segment register that was loaded from the operating system's GDT.
LEMMA OsSegmentTypes ==
  ASSUME os \in OperatingSystems, NEW s \in Segs
  PROVE  /\ OsRegisters.seg[s].selector \in 0 .. Limit(GdtEntries)
         /\ OsRegisters.seg[s].base \in Nat
<1> DEFINE o == from_memory(os.gdt, os.selector[s])
<1>1. os.selector[s] \in 0 .. Limit(GdtEntries) /\ os.fs_base \in Nat /\ os.gs_base \in Nat
  BY OperatingSystemsAssumption DEF IsOperatingSystem
<1>2. context_dependent_base(o) \in Nat
  <2>1. CASE s # "tr" \/ HasTss
    BY <2>1, SegmentsAgree
  <2>2. CASE s = "tr" /\ ~HasTss
    <3>1. o = Zero
      BY <2>2, TssIsPresent DEF from_memory
    <3> QED
      BY <3>1, HalfAssumption DEF Zero, context_dependent_base, base_extended
  <2> QED
    BY <2>1, <2>2
<1>3. Loaded(os.gdt, os.selector[s]).selector = os.selector[s]
      /\ Loaded(os.gdt, os.selector[s]).base = context_dependent_base(o)
  BY DEF Loaded
<1>4. OsRegisters.seg[s].selector = os.selector[s]
  BY DEF OsRegisters, Loaded
<1>5. OsRegisters.seg[s].base \in {context_dependent_base(o), os.fs_base, os.gs_base}
  BY <1>3 DEF OsRegisters, Loaded
<1> QED
  BY <1>1, <1>2, <1>4, <1>5

\* The registers of the launch, of the guest and of the host are registers.
LEMMA RegisterTypes ==
  ASSUME os \in OperatingSystems
  PROVE  /\ AreRegisters(OsRegisters) /\ AreRegisters(ZeroRegisters)
         /\ \A g \in {OsGdtr, LaunchGdtr} : \A c, t : AreRegisters(LaunchRegisters(g, c, t))
         /\ \A d : AreRegisters(GuestRegisters(d)) /\ AreRegisters(HostRegisters(d))
<1> USE GdtEntriesAssumption
<1>1. 0 \in 0 .. Limit(GdtEntries) /\ host_cs \in 0 .. Limit(GdtEntries)
      /\ host_tr \in 0 .. Limit(GdtEntries) /\ Limit(GdtEntries) \in Nat
  BY DEF Limit, host_cs, host_tr
<1>2. AreRegisters(OsRegisters)
  <2>1. /\ DOMAIN OsRegisters = DOMAIN ZeroRegisters
        /\ OsRegisters.gdtr = OsGdtr
    BY DEF OsRegisters, ZeroRegisters, OsGdtr
  <2> QED
    BY <2>1, OsSegmentTypes, GdtrTypes DEF AreRegisters
<1>3. NoSegment.selector = 0 /\ NoSegment.base = 0 /\ DOMAIN NoSegment = {"selector", "limit", "base", "rights"}
  BY HalfAssumption DEF NoSegment, Loaded, from_memory, Zero, context_dependent_base, base_extended
<1>4. AreRegisters(ZeroRegisters)
  BY <1>1, <1>3 DEF AreRegisters, ZeroRegisters, NoTable
<1>5. ASSUME NEW g \in {OsGdtr, LaunchGdtr}, NEW c, NEW t
      PROVE  AreRegisters(LaunchRegisters(g, c, t))
  <2> DEFINE r == LaunchRegisters(g, c, t)
  <2>1. DOMAIN r = DOMAIN ZeroRegisters /\ r.gdtr = g
    BY DEF LaunchRegisters, ZeroRegisters
  <2>2. r.seg = IF Added THEN [OsRegisters.seg EXCEPT !["tr"] = Loaded(Intermediate, GuestTr)]
                ELSE OsRegisters.seg
    BY DEF LaunchRegisters
  <2>3. DOMAIN OsRegisters.seg = Segs
    BY DEF OsRegisters
  <2>4. Added => /\ Loaded(Intermediate, GuestTr).selector \in 0 .. Limit(GdtEntries)
                 /\ Loaded(Intermediate, GuestTr).base \in Nat
    BY AddedDescriptor, GdtrTypes DEF Loaded, DescriptorIn, SelectorIn
  <2>5. \A s \in Segs : r.seg[s].selector \in 0 .. Limit(GdtEntries) /\ r.seg[s].base \in Nat
    BY <2>2, <2>3, <2>4, OsSegmentTypes
  <2> QED
    BY <2>1, <2>5, GdtrTypes DEF AreRegisters
<1>6. ASSUME NEW d
      PROVE  AreRegisters(GuestRegisters(d))
  <2>1. DOMAIN GuestRegisters(d) = DOMAIN ZeroRegisters /\ GuestRegisters(d).gdtr = GuestGdtr
        /\ \A s \in Segs : GuestRegisters(d).seg[s] = SegmentIn(s)
    BY DEF GuestRegisters, ZeroRegisters
  <2>2. ASSUME NEW s \in Segs
        PROVE  SegmentIn(s).selector \in 0 .. Limit(GdtEntries) /\ SegmentIn(s).base \in Nat
    <3>1. SelectorIn(s) \in 0 .. Limit(GdtEntries) /\ os.gs_base \in Nat
      BY OperatingSystemsAssumption, GdtrTypes DEF IsOperatingSystem, SelectorIn
    <3>2. context_dependent_base(DescriptorIn(s)) \in Nat
      <4>1. CASE s # "tr" \/ HasTss
        BY <4>1, SegmentsAgree
      <4>2. CASE s = "tr" /\ Added
        BY <4>2, AddedDescriptor
      <4>3. CASE s = "tr" /\ ~HasTss /\ ~Added
        <5>1. DescriptorIn(s) = Zero
          BY <4>3, GuestTrValue, OsGdtShape, TssIsPresent DEF DescriptorIn, SelectorIn, from_memory, Added
        <5> QED
          BY <5>1, HalfAssumption DEF Zero, context_dependent_base, base_extended
      <4> QED
        BY <4>1, <4>2, <4>3
    <3> QED
      BY <3>1, <3>2 DEF SegmentIn
  <2> QED
    BY <2>1, <2>2, GdtrTypes DEF AreRegisters
<1>7. ASSUME NEW d
      PROVE  AreRegisters(HostRegisters(d))
  <2>1. /\ DOMAIN HostRegisters(d) = DOMAIN ZeroRegisters
        /\ HostRegisters(d).gdtr = [table |-> "host", limit |-> Limit(GdtEntries)]
    BY DEF HostRegisters, ZeroRegisters
  <2>2. ASSUME NEW s \in Segs
        PROVE  /\ HostRegisters(d).seg[s].selector \in {0, host_cs, host_tr}
               /\ HostRegisters(d).seg[s].base \in {0, HostTss}
    BY <1>3 DEF HostRegisters
  <2> QED
    BY <1>1, <2>1, <2>2, TssAssumption DEF AreRegisters
<1> QED
  BY <1>2, <1>4, <1>5, <1>6, <1>7

\* ValuesInv has the types.
LEMMA ValuesHaveTypes == ValuesInv => TypeOK
<1> SUFFICES ASSUME ValuesInv PROVE TypeOK
  OBVIOUS
<1> USE DEF BeforeLoad, Launching, AfterSetup
<1>1. os \in OperatingSystems /\ pc \in BeforeLoad \cup Launching \cup AfterSetup \cup {"returned", "fault"}
  BY DEF ValuesInv, PlaceInv
<1>2. AreRegisters(cpu)
  <2>1. CASE pc \in BeforeLoad \cup {"returned"}
    BY <1>1, <2>1, RegisterTypes DEF ValuesInv, CpuInv
  <2>2. CASE pc \in Launching \cup {"vmlaunch", "rejected"}
    BY <1>1, <2>2, RegisterTypes DEF ValuesInv, CpuInv
  <2>3. CASE pc \in {"guest", "host"}
    BY <1>1, <2>3, RegisterTypes DEF ValuesInv, CpuInv
  <2>4. CASE pc = "fault"
    BY <1>1, <2>4, RegisterTypes DEF ValuesInv, DecidedInv
  <2> QED
    BY <1>1, <2>1, <2>2, <2>3, <2>4
<1>3. AreRegisters(vmcs.guest) /\ AreRegisters(vmcs.host)
  <2>1. CASE pc \notin AfterSetup
    <3>1. vmcs.guest = ZeroRegisters /\ vmcs.host = ZeroRegisters
      BY <2>1 DEF ValuesInv, VmcsInv, ClearVmcs
    <3> QED
      BY <1>1, <3>1, RegisterTypes
  <2>2. CASE pc \in AfterSetup
    <3>1. PICK d : vmcs = VmcsWith(d)
      BY <2>2 DEF ValuesInv, VmcsInv
    <3>2. vmcs.guest = GuestRegisters(d) /\ vmcs.host = HostRegisters("zero")
      BY <3>1 DEF VmcsWith
    <3> QED
      BY <1>1, <3>2, RegisterTypes
  <2> QED
    BY <2>1, <2>2
<1>4. \A t \in {"intermediate", "host"} : DOMAIN gdt[t] = DOMAIN EmptyGdt
  <2>1. DOMAIN Intermediate = DOMAIN EmptyGdt /\ DOMAIN Prepared = DOMAIN EmptyGdt
    BY <1>1, IntermediateGdt, PreparedGdt DEF EmptyGdt
  <2>2. DOMAIN HostGdt(HostTss) = DOMAIN EmptyGdt
    BY DEF HostGdt, WithTss, EmptyGdt
  <2>3. /\ gdt["intermediate"] \in {EmptyGdt, Prepared, Intermediate}
        /\ gdt["host"] \in {EmptyGdt, HostGdt(HostTss)}
    BY DEF ValuesInv, GdtInv, GdtOf
  <2> QED
    BY <2>1, <2>2, <2>3
<1>5. hv.guest_tr \in 0 .. Limit(GdtEntries)
  <2>1. hv.guest_tr \in {0, GuestTr}
    BY DEF ValuesInv, HvInv, HvOf, NewHypervisor
  <2>2. 0 \in 0 .. Limit(GdtEntries)
    BY GdtEntriesAssumption DEF Limit
  <2> QED
    BY <1>1, <2>1, <2>2, GdtrTypes
<1> QED
  BY <1>1, <1>2, <1>3, <1>4, <1>5 DEF TypeOK, AreRegisters

\* The guest's GDT: the operating system's, or the intermediate one.
LEMMA GuestTable ==
  ASSUME ValuesInv, pc = "guest"
  PROVE  /\ os \in OperatingSystems /\ (HasTss \/ Room)
         /\ cpu.gdtr = GuestGdtr
         /\ Table(cpu.gdtr) = IF HasTss THEN os.gdt ELSE Intermediate
         /\ (cpu.gdtr.limit + 1) \div 8 = IF HasTss THEN OsEntries ELSE OsEntries + 2
<1>1. os \in OperatingSystems /\ (HasTss \/ Room)
  BY DEF ValuesInv, PlaceInv, DecidedInv
<1>2. PICK d : cpu = GuestRegisters(d)
  BY DEF ValuesInv, CpuInv
<1>3. cpu.gdtr = GuestGdtr
  BY <1>2 DEF GuestRegisters
<1>4. gdt["os"] = os.gdt /\ gdt["intermediate"] = Intermediate
  BY DEF ValuesInv, GdtInv, GdtOf
<1>5. Table(cpu.gdtr) = IF HasTss THEN os.gdt ELSE Intermediate
  BY <1>3, <1>4 DEF Table, GuestGdtr, OsGdtr
<1>6. OsEntries \in Nat
  BY <1>1, OsGdtShape, GdtEntriesAssumption
<1>7. GuestGdtr.limit = IF HasTss THEN 8 * OsEntries - 1 ELSE 8 * OsEntries - 1 + 2 * 8
  BY DEF GuestGdtr, OsGdtr, Limit, GrownLimit
<1> QED
  BY <1>1, <1>3, <1>5, <1>6, <1>7

\* The guest has the operating system's descriptors, and its TSS or the one that
\* was added.
LEMMA DescriptorsAreThere == ValuesInv => DescriptorsAreKept
<1> SUFFICES ASSUME ValuesInv, pc = "guest"
             PROVE  LET table == Table(cpu.gdtr)
                        entries == 0 .. (cpu.gdtr.limit + 1) \div 8 - 1
                        tr == cpu.seg["tr"]
                    IN  /\ \A k \in DOMAIN os.gdt : k \in entries /\ table[k] = os.gdt[k]
                        /\ {Index(tr.selector), Index(tr.selector) + 1} \subseteq entries
                        /\ from_memory(table, tr.selector).type = tss_busy
                        /\ base_extended(from_memory(table, tr.selector)) = tr.base
  BY DEF DescriptorsAreKept
<1>1. /\ os \in OperatingSystems /\ (HasTss \/ Room)
      /\ Table(cpu.gdtr) = IF HasTss THEN os.gdt ELSE Intermediate
      /\ (cpu.gdtr.limit + 1) \div 8 = IF HasTss THEN OsEntries ELSE OsEntries + 2
  BY GuestTable
<1>2. OsEntries \in 1 .. GdtEntries /\ GdtEntries \in Nat /\ DOMAIN os.gdt = 0 .. OsEntries - 1
  BY <1>1, OsGdtShape, GdtEntriesAssumption
<1>3. PICK d : cpu = GuestRegisters(d)
  BY DEF ValuesInv, CpuInv
<1>4. cpu.seg["tr"] = SegmentIn("tr") /\ "tr" \in Segs
  BY <1>3 DEF GuestRegisters, Segs
<1>5. /\ cpu.seg["tr"].selector = GuestTr
      /\ cpu.seg["tr"].base = context_dependent_base(DescriptorIn("tr"))
  BY <1>4, SegmentFields DEF SelectorIn
<1>6. CASE HasTss
  <2>1. GuestTr = os.selector["tr"] /\ os.selector["tr"] # 0
    BY <1>1, <1>6, GuestTrValue, TssIsPresent
  <2> DEFINE e == os.gdt[Index(os.selector["tr"])]
             o == from_memory(os.gdt, os.selector["tr"])
  <2>2. /\ e \in Entries /\ Index(os.selector["tr"]) \in 0 .. OsEntries - 1
        /\ o = [e EXCEPT !.upper = EntryAt(os.gdt, Index(os.selector["tr"]) + 1).upper]
        /\ InUse(os, "tr")
    BY <1>1, <1>4, <2>1, OsDescriptor
  <2>3. e.system /\ e.type = tss_busy /\ Index(os.selector["tr"]) + 1 \in 0 .. OsEntries - 1
    BY <1>2, <2>2 DEF InUse
  <2>4. o.type = tss_busy /\ o.system
    BY <2>2, <2>3 DEF Entries
  <2>5. context_dependent_base(DescriptorIn("tr")) = context_dependent_base(o)
    BY <1>1, <1>4, <1>6, SegmentsAgree
  <2>6. base_extended(o) = cpu.seg["tr"].base
    BY <1>5, <2>4, <2>5 DEF context_dependent_base
  <2> QED
    BY <1>1, <1>2, <1>5, <1>6, <2>1, <2>2, <2>3, <2>4, <2>6
<1>7. CASE ~HasTss
  <2>1. Added /\ Room
    BY <1>1, <1>2, <1>7, GuestTrValue DEF Room
  <2>2. /\ Index(GuestTr) = OsEntries
        /\ \A k \in 0 .. OsEntries - 1 : Intermediate[k] = os.gdt[k]
    BY <1>1, <2>1, IntermediateGdt
  <2>3. DescriptorIn("tr").type = tss_busy /\ DescriptorIn("tr").system
    BY <1>1, <2>1, AddedDescriptor
  <2>4. DescriptorIn("tr") = from_memory(Intermediate, GuestTr)
    BY DEF DescriptorIn, SelectorIn
  <2>5. base_extended(DescriptorIn("tr")) = cpu.seg["tr"].base
    BY <1>5, <2>3 DEF context_dependent_base
  <2> QED
    BY <1>1, <1>2, <1>5, <1>7, <2>2, <2>3, <2>4, <2>5
<1> QED
  BY <1>6, <1>7

\* A segment register of the guest is the operating system's.
LEMMA SegmentsAreKept ==
  ASSUME ValuesInv, pc = "guest", NEW s \in Segs, s = "tr" => HasTss
  PROVE  SegmentIsKept(s)
<1> DEFINE d == DescriptorIn(s)
           o == from_memory(os.gdt, os.selector[s])
           r == OsRegisters.seg[s]
<1>1. os \in OperatingSystems /\ SegmentIn(s).rights.limit_high = 0
  BY DEF ValuesInv, PlaceInv, DecidedInv
<1>2. PICK x : cpu = GuestRegisters(x)
  BY DEF ValuesInv, CpuInv
<1>3. cpu.seg[s] = SegmentIn(s)
  BY <1>2 DEF GuestRegisters
<1>4. /\ SelectorIn(s) = os.selector[s] /\ d.limit = o.limit
      /\ vmx_access_rights(d) = vmx_access_rights(o)
      /\ context_dependent_base(d) = context_dependent_base(o)
  BY <1>1, SegmentsAgree
<1>5. /\ r.selector = os.selector[s] /\ r.limit = ScaledLimit(o)
      /\ r.rights = [vmx_access_rights(o) EXCEPT !.limit_high = 0]
      /\ r.rights.granularity = o.granularity
      /\ s = "gs" => r.base = os.gs_base
      /\ s \notin {"fs", "gs"} => r.base = context_dependent_base(o)
  BY DEF OsRegisters, Loaded, vmx_access_rights
<1>6. SegmentIn(s).rights = [vmx_access_rights(o) EXCEPT !.limit_high = 0]
  <2>1. SegmentIn(s).rights = Written(vmx_access_rights(o))
    BY <1>4 DEF SegmentIn
  <2>2. CASE cap.drops
    BY <2>1, <2>2 DEF Written
  <2>3. CASE ~cap.drops
    <3>1. SegmentIn(s).rights = vmx_access_rights(o) /\ vmx_access_rights(o).limit_high = 0
      BY <1>1, <2>1, <2>3 DEF Written
    <3> QED
      BY <3>1 DEF vmx_access_rights
  <2> QED
    BY <2>2, <2>3
<1>7. SegmentIn(s).selector = os.selector[s] /\ SegmentIn(s).limit = o.limit
      /\ SegmentIn(s).base = IF s = "gs" THEN os.gs_base ELSE context_dependent_base(o)
  BY <1>4 DEF SegmentIn
<1>8. ~r.rights.granularity => SegmentIn(s).limit = r.limit
  BY <1>5, <1>7 DEF ScaledLimit
<1> QED
  BY <1>3, <1>5, <1>6, <1>7, <1>8 DEF SegmentIsKept

\* The operating system finds its descriptors and registers again in the guest,
\* and all of its state after a launch that failed.
THEOREM OperatingSystemIsKept == Spec => []StateIsKept
<1>1. ValuesInv => StateIsKept
  <2> SUFFICES ASSUME ValuesInv PROVE StateIsKept
    OBVIOUS
  <2>1. TypeOK /\ DescriptorsAreKept
    BY ValuesHaveTypes, DescriptorsAreThere
  <2>2. ASSUME pc = "guest"
        PROVE  /\ \A s \in CodeAndData \cup {"ldtr"} : SegmentIsKept(s)
               /\ HasTss => SegmentIsKept("tr") /\ cpu.gdtr = OsRegisters.gdtr
               /\ cpu.cr3 = "os" /\ cpu.idtr = "os" /\ os.cr \subseteq cpu.cr
    <3>1. PICK x : cpu = GuestRegisters(x)
      BY <2>2 DEF ValuesInv, CpuInv
    <3>2. cpu.cr3 = "os" /\ cpu.idtr = "os" /\ cpu.cr = AdjustedCr(os.cr) /\ cpu.gdtr = GuestGdtr
      BY <3>1 DEF GuestRegisters
    <3>3. os.cr \subseteq AdjustedCr(os.cr)
      BY CrAssumption DEF ValuesInv, PlaceInv, AdjustedCr
    <3>4. HasTss => GuestGdtr = OsRegisters.gdtr
      BY DEF GuestGdtr, OsGdtr, OsRegisters
    <3>5. \A s \in CodeAndData \cup {"ldtr"} : SegmentIsKept(s)
      BY <2>2, SegmentsAreKept DEF Segs, CodeAndData
    <3>6. HasTss => SegmentIsKept("tr")
      BY <2>2, SegmentsAreKept DEF Segs
    <3> QED
      BY <3>2, <3>3, <3>4, <3>5, <3>6
  <2>3. pc = "returned" => cpu = OsRegisters /\ gdt["os"] = os.gdt
    BY DEF ValuesInv, CpuInv, GdtInv, GdtOf
  <2> QED
    BY <2>1, <2>2, <2>3 DEF StateIsKept
<1> QED
  BY <1>1, ValuesInvariance, PTL

============================================================================
