---------------------------- MODULE LaunchProofs ----------------------------
(***************************************************************************)
(* Proofs about Launch, for every number of CPUs, every assignment of TSSs *)
(* and interrupt flags, and every set of operations that may fail.         *)
(*                                                                         *)
(* The safety properties are not inductive: they speak of what the shared  *)
(* object holds at the moment it is used.  Inv pins down, for each CPU,    *)
(* its registers as a function of where it is and of its active guards     *)
(* (CpuInv), for the shared object, that it holds the values of the one    *)
(* CPU that is launching (ObjectInv), and that there is at most one such   *)
(* CPU (OrderInv).                                                         *)
(***************************************************************************)
EXTENDS Launch, TLAPS

\* The CPU has taken its private stack.
OnStack == (LaunchPcs \ {"entry"}) \cup Launched \cup {"unwind", "returned", "fault"}

\* The launch is between disabling interrupts and the vmptrld instruction.
Preparing ==
    { "main", "host", "gdt", "cr3", "ept", "vmx", "cr", "vmxon", "vmclear", "vmptrld" }

\* The intermediate GDT of the launch, or of the guest, has been set up.
WithGdt ==
    { "cr3", "ept", "vmx", "cr", "vmxon", "vmclear", "vmptrld", "vmcs", "launch",
      "vmlaunch" }

\* The VMCS region of the launch has been chosen.
WithRegion == {"cr", "vmxon", "vmclear", "vmptrld", "vmcs", "launch", "vmlaunch"}

\* The guards that are active where the launch is.
GuardsAt(p) ==
    CASE p \in {"entry", "main"} -> {}
      [] p \in {"host", "gdt"} -> {"interrupts"}
      [] p = "cr3" -> {"interrupts", "gdt"}
      [] p \in {"ept", "vmx", "cr"} -> {"interrupts", "gdt", "cr3"}
      [] p = "vmxon" -> {"interrupts", "gdt", "cr3", "cr"}
      [] p \in {"vmclear", "vmptrld"} -> {"interrupts", "gdt", "cr3", "cr", "vmx"}
      [] OTHER -> {"interrupts", "gdt", "cr3", "vmx"}

\* The sets of guards that are left during unwinding.
GuardPrefixes ==
    { {}, {"interrupts"}, {"interrupts", "gdt"}, {"interrupts", "gdt", "cr3"},
      {"interrupts", "gdt", "cr3", "cr"}, {"interrupts", "gdt", "cr3", "cr", "vmx"} }

GuestGdt(c) == IF c \in HasTss THEN Os(c) ELSE Intermediate(c)

\* The registers of CPU c while the guards g are active.
UnderGuards(c, g, i) ==
    [ cr3 |-> IF "cr3" \in g THEN Host ELSE Os(c),
      gdtr |-> IF "gdt" \in g THEN Intermediate(c) ELSE Os(c),
      tr |-> IF "gdt" \in g THEN GuestGdt(c) ELSE Os(c),
      cr |-> IF "cr" \in g THEN Adjusted(Os(c)) ELSE Os(c),
      intr |-> IF "interrupts" \in g THEN 0 ELSE i,
      vmxon |-> IF "vmx" \in g THEN c ELSE NoSlot,
      vmcs |-> NoSlot ]

\* The registers of CPU c with its VMCS current, before VM entry.
InRootMode(c) ==
    [ cr3 |-> Host, gdtr |-> Intermediate(c), tr |-> GuestGdt(c),
      cr |-> Adjusted(Os(c)), intr |-> 0, vmxon |-> c, vmcs |-> c ]

InGuest(c) ==
    [ cr3 |-> Os(c), gdtr |-> GuestGdt(c), tr |-> GuestGdt(c), cr |-> Adjusted(Os(c)),
      intr |-> CallerIf[c], vmxon |-> c, vmcs |-> c ]

InHandler(c) ==
    [ cr3 |-> Host, gdtr |-> Host, tr |-> Host, cr |-> Adjusted(Os(c)),
      intr |-> 0, vmxon |-> c, vmcs |-> c ]

\* The VMCS of CPU c whose host stack is s.
OwnVmcs(c, s) ==
    [ vpid |-> c + 1, ept |-> Host, host_cr3 |-> Host, host_gdtr |-> Host,
      host_cr |-> Adjusted(Os(c)), host_stack |-> s,
      guest_cr3 |-> Os(c), guest_gdtr |-> GuestGdt(c), guest_tr |-> GuestGdt(c),
      guest_cr |-> Adjusted(Os(c)), guest_intr |-> CallerIf[c] ]

CpuInv(c) ==
    /\ pc[c] \in {"idle", "entry"} =>
          reg[c] = OsRegisters(c) /\ guards[c] = {} /\ stack[c] = NoSlot
    /\ pc[c] \in OnStack => stack[c] = c /\ frame[c].intr = CallerIf[c]
    /\ pc[c] \in LaunchPcs => guards[c] = GuardsAt(pc[c])
    /\ pc[c] \in Preparing => reg[c] = UnderGuards(c, guards[c], CallerIf[c])
    /\ pc[c] = "unwind" => /\ guards[c] \in GuardPrefixes
                           /\ reg[c] = UnderGuards(c, guards[c], 1)
                           /\ ret[c] \in Errors
    /\ pc[c] \in {"unwind", "vmxon", "vmclear", "vmptrld"} /\ "cr" \in guards[c] =>
          frame[c].cr = Os(c)
    /\ pc[c] \in {"vmcs", "launch", "vmlaunch"} => reg[c] = InRootMode(c)
    /\ pc[c] = "guest" => reg[c] = InGuest(c)
    /\ pc[c] = "vmm" => reg[c] = InHandler(c)
    /\ pc[c] = "returned" => reg[c] = OsRegisters(c) /\ ret[c] \in Errors
    /\ pc[c] = "fault" => /\ reg[c].intr = 0
                          /\ reg[c].vmxon \in {NoSlot, c}
                          /\ reg[c].vmcs \in {NoSlot, c}
    /\ pc[c] \in WithGdt \cup Launched => gdt[c] = c
    /\ pc[c] = "launch" => vmcs[c] = OwnVmcs(c, vmcs[c].host_stack)
    /\ pc[c] \in {"vmlaunch"} \cup Launched => vmcs[c] = OwnVmcs(c, c) /\ ret[c] = "success"

\* CPUs are launched in order; only CPU cpu can be on its way.
OrderInv ==
    /\ \A c \in Cpus : c < cpu => pc[c] \in Launched
    /\ \A c \in Cpus : c > cpu => pc[c] = "idle"
    /\ loader = "load" => cpu = 0
    /\ loader \in {"load", "call"} /\ cpu \in Cpus => pc[cpu] = "idle"
    /\ loader = "wait" => cpu \in Cpus /\ pc[cpu] # "idle"
    /\ loader = "done" /\ cpu \in Cpus => pc[cpu] \in {"idle", "returned"} \cup Launched

\* The object belongs to CPU c, which is launching.
ObjectOf(c) ==
    /\ pc[c] \in {"unwind", "host", "gdt"} \cup WithGdt =>
          /\ hv.guest_cr = Os(c) /\ hv.guest_cr3 = Os(c)
          /\ hv.gdtr = Os(c) /\ hv.os_tr = Os(c)
    /\ pc[c] \in WithGdt \/ (pc[c] = "unwind" /\ "gdt" \in guards[c]) =>
          hv.guest_gdt_pointer = GuestGdt(c) /\ hv.guest_tr = GuestGdt(c)
    /\ pc[c] \in {"gdt"} \cup WithGdt \cup Launched => hv.host_cr3 = Host
    /\ pc[c] \in WithRegion =>
          hv.vmx_physical = c /\ hv.vmcs_physical = c /\ hv.host_cr = Adjusted(Os(c))
    /\ pc[c] \in {"vmx"} \cup WithRegion \cup Launched => hv.ept = Host

ObjectInv ==
    /\ created <=> (0 < cpu \/ pc[0] \in OnStack)
    /\ ~created => hv = ZeroStorage
    /\ hv.available_stack_index =
          IF cpu \in Cpus /\ pc[cpu] \in OnStack THEN cpu + 1 ELSE cpu
    /\ created => hv.next_virtual_processor \in {cpu + 1, cpu + 2}
    /\ created /\ (cpu \in Cpus => pc[cpu] \in {"idle", "entry"} \cup Preparing \cup {"vmcs", "launch"})
          => hv.next_virtual_processor = cpu + 1
    /\ cpu \in Cpus /\ pc[cpu] \in {"vmlaunch"} \cup Launched
          => hv.next_virtual_processor = cpu + 2
    /\ 0 < cpu => hv.host_cr3 = Host /\ hv.ept = Host
    /\ cpu \in Cpus => ObjectOf(cpu)

AllCpuInv == \A c \in Cpus : CpuInv(c)

Inv == TypeOK /\ OrderInv /\ ObjectInv /\ AllCpuInv

-----------------------------------------------------------------------------
(***************************************************************************)
(* The initial states.                                                     *)
(***************************************************************************)
\* Before the load every CPU is the operating system's and the object is zero.
LEMMA InitInv == Init => Inv
<1> SUFFICES ASSUME Init PROVE Inv
  OBVIOUS
<1> USE NumCpusAssumption, HasTssAssumption, CallerIfAssumption
<1>1. TypeOK
  <2>1. \A c \in Cpus : OsRegisters(c) \in Registers
    BY DEF OsRegisters, Registers, Values, Os, SlotOrNone, Slots, NoSlot, Cpus
  <2>2. ZeroStorage \in Hypervisor
    BY DEF ZeroStorage, Hypervisor, Values, Null, Slots
  <2>3. ClearVmcs \in Vmcs
    BY DEF ClearVmcs, Vmcs, Values, Null, Slots, SlotOrNone, NoSlot
  <2>4. [intr |-> 0, cr |-> Null] \in [intr : {0, 1}, cr : Values]
    BY DEF Values, Null, Slots
  <2>5. reg \in [Cpus -> Registers] /\ frame \in [Cpus -> [intr : {0, 1}, cr : Values]]
    BY <2>1, <2>4 DEF Init
  <2>6. vmcs \in [Slots -> Vmcs] /\ hv \in Hypervisor
    BY <2>2, <2>3 DEF Init
  <2>7. guards \in [Cpus -> SUBSET GuardNames]
    BY DEF Init
  <2>8. pc \in [Cpus -> LaunchPcs \cup Launched \cup {"idle", "unwind", "returned", "fault"}]
    BY DEF Init
  <2>9. stack \in [Cpus -> SlotOrNone] /\ gdt \in [Slots -> SlotOrNone] /\ cpu \in Slots
    BY DEF Init, SlotOrNone, Slots
  <2>10. ret \in [Cpus -> Errors \cup {"none", "success"}]
    BY DEF Init
  <2> QED
    BY <2>5, <2>6, <2>7, <2>8, <2>9, <2>10 DEF Init, TypeOK
<1>2. OrderInv
  BY DEF Init, OrderInv, Cpus
<1>3. ObjectInv
  BY DEF Init, ObjectInv, ObjectOf, Cpus, OnStack, LaunchPcs, Launched, Preparing,
         WithGdt, WithRegion, ZeroStorage
<1>4. AllCpuInv
  BY DEF Init, AllCpuInv, CpuInv, OnStack, LaunchPcs, Launched, Preparing, WithGdt
<1> QED
  BY <1>1, <1>2, <1>3, <1>4 DEF Inv

-----------------------------------------------------------------------------
USE DEF LaunchPcs, Launched, OnStack, Preparing, WithGdt, WithRegion

(***************************************************************************)
(* A step of one CPU preserves the invariant of the others.                *)
(***************************************************************************)

\* What CpuInv(d) depends on does not change.
SameCpu(d) ==
    /\ pc'[d] = pc[d] /\ ret'[d] = ret[d] /\ guards'[d] = guards[d]
    /\ reg'[d] = reg[d] /\ frame'[d] = frame[d] /\ stack'[d] = stack[d]
    /\ gdt'[d] = gdt[d] /\ vmcs'[d] = vmcs[d]

\* A step that changes nothing of CPU d, nor its slot, keeps what is known of d.
LEMMA SameCpuInv ==
  ASSUME NEW d \in Cpus, CpuInv(d), SameCpu(d)
  PROVE  CpuInv(d)'
BY DEF SameCpu, CpuInv, OsRegisters, UnderGuards, InRootMode, InGuest, InHandler, OwnVmcs,
       GuestGdt, GuardsAt, GuardPrefixes, OnStack, Preparing, WithGdt, LaunchPcs, Launched,
       Errors, Os, Adjusted, Intermediate, Host, NoSlot

\* A CPU that executes the launch code is the one the loader waits for.
LEMMA LaunchingIsCurrent ==
  ASSUME TypeOK, OrderInv, NEW c \in Cpus,
         pc[c] \in LaunchPcs \cup {"unwind", "fault"}
  PROVE  c = cpu /\ loader = "wait"
<1>1. pc[c] # "idle" /\ pc[c] # "returned" /\ pc[c] \notin Launched
  BY DEF LaunchPcs, Launched
<1>2. c \in Int /\ cpu \in Int
  BY NumCpusAssumption DEF TypeOK, Cpus, Slots
<1>3. c = cpu
  BY <1>1, <1>2 DEF OrderInv
<1>4. loader = "wait"
  BY <1>1, <1>3 DEF OrderInv, TypeOK
<1> QED
  BY <1>3, <1>4

\* The values registers take have the type of values, and CPUs are slots.
LEMMA ValueTypes ==
  /\ Host \in Values /\ Null \in Values /\ NoSlot \in SlotOrNone
  /\ \A c \in Cpus : /\ Os(c) \in Values /\ Intermediate(c) \in Values
                      /\ Adjusted(Os(c)) \in Values /\ GuestGdt(c) \in Values
                      /\ c \in Slots /\ c \in SlotOrNone /\ c \in Nat
                      /\ Os(c) # Intermediate(c) /\ Os(c).of = c
BY NumCpusAssumption DEF Values, Host, Null, NoSlot, SlotOrNone, Os, Intermediate, Adjusted,
   GuestGdt, Cpus, Slots

\* The register sets and VMCS contents of CpuInv are typed.
LEMMA RegisterTypes ==
  ASSUME NEW c \in Cpus
  PROVE  /\ OsRegisters(c) \in Registers /\ InRootMode(c) \in Registers
         /\ InGuest(c) \in Registers /\ InHandler(c) \in Registers
         /\ \A g \in SUBSET GuardNames, i \in {0, 1} : UnderGuards(c, g, i) \in Registers
         /\ \A k \in SlotOrNone : OwnVmcs(c, k) \in Vmcs
         /\ CallerIf[c] \in {0, 1}
<1> USE ValueTypes, CallerIfAssumption
<1>1. OsRegisters(c) \in Registers /\ InRootMode(c) \in Registers
  BY DEF OsRegisters, InRootMode, Registers
<1>2. InGuest(c) \in Registers /\ InHandler(c) \in Registers
  BY DEF InGuest, InHandler, Registers
<1>3. \A g \in SUBSET GuardNames, i \in {0, 1} : UnderGuards(c, g, i) \in Registers
  BY DEF UnderGuards, Registers
<1>4. \A k \in SlotOrNone : OwnVmcs(c, k) \in Vmcs
  BY DEF OwnVmcs, Vmcs
<1> QED
  BY <1>1, <1>2, <1>3, <1>4

\* Registers with the same fields are the same.
LEMMA SameRegisters ==
  ASSUME NEW r \in Registers, NEW s \in Registers,
         r.cr3 = s.cr3, r.gdtr = s.gdtr, r.tr = s.tr, r.cr = s.cr, r.intr = s.intr,
         r.vmxon = s.vmxon, r.vmcs = s.vmcs
  PROVE  r = s
BY DEF Registers

\* The shared counter yields the slot of the CPU that is launching.
LEMMA SlotIsCpu ==
  ASSUME TypeOK, ObjectInv, NEW c \in Cpus, c = cpu,
         pc[c] \in Preparing \cup {"vmcs", "launch"}
  PROVE  Slot = c /\ hv.next_virtual_processor = c + 1 /\ created
<1>1. created
  BY NumCpusAssumption DEF ObjectInv, Cpus
<1>2. hv.next_virtual_processor = cpu + 1
  BY <1>1 DEF ObjectInv
<1> QED
  BY <1>1, <1>2, NumCpusAssumption DEF Slot, Cpus

\* A step of the CPU that is launching keeps the order and the other CPUs.
LEMMA OnlyThisCpu ==
  ASSUME TypeOK, OrderInv, AllCpuInv, NEW c \in Cpus, c = cpu, loader = "wait",
         UNCHANGED <<loader, cpu>>, pc'[c] # "idle",
         \A d \in Cpus \ {c} : SameCpu(d),
         CpuInv(c)'
  PROVE  OrderInv' /\ AllCpuInv'
<1>1. \A d \in Cpus : d # c => pc'[d] = pc[d]
  BY DEF SameCpu
<1>2. OrderInv'
  BY <1>1, NumCpusAssumption DEF OrderInv, TypeOK, Cpus, Slots
<1>3. \A d \in Cpus \ {c} : CpuInv(d)'
  BY SameCpuInv DEF AllCpuInv
<1> QED
  BY <1>2, <1>3 DEF AllCpuInv

\* initialize_registers makes the object the launching CPU's own.
LEMMA InitializeRegistersInv ==
  ASSUME Inv, NEW c \in Cpus, InitializeRegisters(c)
  PROVE  Inv'
<1> USE NumCpusAssumption, ValueTypes, RegisterTypes
<1>1. /\ TypeOK /\ OrderInv /\ ObjectInv /\ AllCpuInv /\ CpuInv(c)
      /\ reg[c] \in Registers /\ hv \in Hypervisor /\ vmcs[c] \in Vmcs
  BY DEF Inv, AllCpuInv, TypeOK
<1>2. pc[c] = "main" /\ c = cpu /\ loader = "wait"
  BY <1>1, LaunchingIsCurrent DEF InitializeRegisters, Goto, PushGuard
<1>3. /\ reg[c] = OsRegisters(c) /\ guards[c] = {}
      /\ reg[c].cr3 = Os(c) /\ reg[c].gdtr = Os(c) /\ reg[c].tr = Os(c) /\ reg[c].cr = Os(c)
  BY <1>1, <1>2, SlotIsCpu DEF CpuInv, GuardsAt, ObjectInv, ObjectOf, UnderGuards, OsRegisters
<1>a. [reg[c] EXCEPT !.intr = 0] = UnderGuards(c, {"interrupts"}, CallerIf[c])
  BY <1>3 DEF UnderGuards, OsRegisters
<1>4. /\ pc' = [pc EXCEPT ![c] = IF c = 0 THEN "host" ELSE "gdt"]
      /\ guards' = [guards EXCEPT ![c] = {"interrupts"}]
      /\ reg' = [reg EXCEPT ![c] = UnderGuards(c, {"interrupts"}, CallerIf[c])]
      /\ hv' = [hv EXCEPT !.guest_cr = Os(c), !.guest_cr3 = Os(c), !.gdtr = Os(c), !.os_tr = Os(c)]
      /\ UNCHANGED <<loader, cpu, result, ret, frame, stack, created, gdt, vmcs>>
  BY <1>1, <1>2, <1>3, <1>a DEF InitializeRegisters, Goto, PushGuard, loaderVars, moduleVars
<1>5. TypeOK'
  <2>1. guards' \in [Cpus -> SUBSET GuardNames]
    BY <1>1, <1>3, <1>a, <1>4 DEF TypeOK, GuardNames
  <2>2. UnderGuards(c, {"interrupts"}, CallerIf[c]) \in Registers
    BY DEF GuardNames
  <2>3. reg' \in [Cpus -> Registers]
    BY <1>1, <1>4, <2>2 DEF TypeOK
  <2>4. hv' \in Hypervisor
    BY <1>1, <1>3, <1>a, <1>4 DEF TypeOK, Hypervisor
  <2>5. pc' \in [Cpus -> LaunchPcs \cup Launched \cup {"idle", "unwind", "returned", "fault"}]
    BY <1>1, <1>4 DEF TypeOK
  <2> QED
    BY <1>1, <1>4, <2>1, <2>3, <2>4, <2>5 DEF TypeOK
<1>6. ObjectInv'
  BY <1>1, <1>2, <1>3, <1>a, <1>4 DEF ObjectInv, ObjectOf, TypeOK, Cpus, Hypervisor
<1>7. CpuInv(c)'
  BY <1>1, <1>2, <1>3, <1>a, <1>4 DEF CpuInv, TypeOK, GuardsAt
<1>8. \A d \in Cpus \ {c} : SameCpu(d)
  BY <1>1, <1>4 DEF SameCpu, TypeOK
<1> QED
  BY <1>1, <1>2, <1>4, <1>5, <1>6, <1>7, <1>8, OnlyThisCpu DEF Inv, TypeOK

\* What initialize_intermediate_gdt and load_intermediate_gdt leave in GDTR and TR.
LEMMA LoadIntermediateGdt ==
  ASSUME NEW c \in Cpus, InitializeIntermediateGdt(c), reg \in [Cpus -> Registers],
         Slot = c, hv.gdtr = Os(c), hv.gdtr.of = c, hv.os_tr = Os(c), reg[c].tr = Os(c),
         reg[c] = UnderGuards(c, {"interrupts"}, CallerIf[c])
  PROVE  reg' = [reg EXCEPT ![c] = UnderGuards(c, {"interrupts", "gdt"}, CallerIf[c])]
<1> DEFINE tr == IF GuestGdt(c) # Os(c) THEN GuestGdt(c) ELSE reg[c].tr
           r == [reg[c] EXCEPT !.gdtr = Intermediate(c), !.tr = tr]
           u == UnderGuards(c, {"interrupts", "gdt"}, CallerIf[c])
<1>1. reg' = [reg EXCEPT ![c] = r]
  <2>1. CASE c \in HasTss
    BY <2>1 DEF InitializeIntermediateGdt, GuestGdt
  <2>2. CASE c \notin HasTss
    BY <2>2, ValueTypes DEF InitializeIntermediateGdt, GuestGdt
  <2> QED
    BY <2>1, <2>2
<1>2. r \in Registers
  <2>1. reg[c] \in Registers /\ tr \in Values
    BY ValueTypes
  <2> HIDE DEF tr
  <2> QED
    BY <2>1, ValueTypes DEF Registers
<1>3. u \in Registers
  BY RegisterTypes DEF GuardNames
<1>4. /\ r.cr3 = u.cr3 /\ r.gdtr = u.gdtr /\ r.tr = u.tr /\ r.cr = u.cr
      /\ r.intr = u.intr /\ r.vmxon = u.vmxon /\ r.vmcs = u.vmcs
  BY DEF UnderGuards
<1>5. r = u
  <2> HIDE DEF r, u
  <2> QED
    BY <1>2, <1>3, <1>4, SameRegisters
<1> QED
  BY <1>1, <1>5

\* The intermediate GDT is built in the slot of the launching CPU.
LEMMA InitializeIntermediateGdtInv ==
  ASSUME Inv, NEW c \in Cpus, InitializeIntermediateGdt(c)
  PROVE  Inv'
<1> USE NumCpusAssumption, ValueTypes, RegisterTypes
<1>1. /\ TypeOK /\ OrderInv /\ ObjectInv /\ AllCpuInv /\ CpuInv(c)
      /\ reg[c] \in Registers /\ hv \in Hypervisor /\ vmcs[c] \in Vmcs
  BY DEF Inv, AllCpuInv, TypeOK
<1>2. pc[c] = "gdt" /\ c = cpu /\ loader = "wait"
  BY <1>1, LaunchingIsCurrent DEF InitializeIntermediateGdt, Goto, PushGuard, GuestGdt
<1>3. /\ reg[c] = UnderGuards(c, {"interrupts"}, CallerIf[c]) /\ guards[c] = {"interrupts"}
      /\ reg[c].tr = Os(c)
      /\ hv.gdtr = Os(c) /\ hv.os_tr = Os(c) /\ hv.host_cr3 = Host
      /\ hv.gdtr.of = c /\ Slot = c
  BY <1>1, <1>2, SlotIsCpu DEF CpuInv, GuardsAt, ObjectInv, ObjectOf, UnderGuards
<1>a. reg' = [reg EXCEPT ![c] = UnderGuards(c, {"interrupts", "gdt"}, CallerIf[c])]
  BY <1>1, <1>3, LoadIntermediateGdt DEF TypeOK
<1>4. /\ pc' = [pc EXCEPT ![c] = "cr3"]
      /\ guards' = [guards EXCEPT ![c] = {"interrupts", "gdt"}]
      /\ reg' = [reg EXCEPT ![c] = UnderGuards(c, {"interrupts", "gdt"}, CallerIf[c])]
      /\ hv' = [hv EXCEPT !.guest_gdt_pointer = GuestGdt(c), !.guest_tr = GuestGdt(c)]
      /\ gdt' = [gdt EXCEPT ![c] = c]
      /\ UNCHANGED <<loader, cpu, result, ret, frame, stack, created, vmcs>>
  BY <1>1, <1>2, <1>3, <1>a DEF InitializeIntermediateGdt, Goto, PushGuard, GuestGdt, loaderVars, moduleVars
<1>5. TypeOK'
  <2>1. guards' \in [Cpus -> SUBSET GuardNames]
    BY <1>1, <1>3, <1>a, <1>4 DEF TypeOK, GuardNames
  <2>2. UnderGuards(c, {"interrupts", "gdt"}, CallerIf[c]) \in Registers
    BY DEF GuardNames
  <2>3. reg' \in [Cpus -> Registers]
    BY <1>1, <1>4, <2>2 DEF TypeOK
  <2>4. hv' \in Hypervisor
    BY <1>1, <1>3, <1>a, <1>4 DEF TypeOK, Hypervisor
  <2>5. gdt' \in [Slots -> SlotOrNone]
    BY <1>1, <1>3, <1>a, <1>4 DEF TypeOK
  <2>6. pc' \in [Cpus -> LaunchPcs \cup Launched \cup {"idle", "unwind", "returned", "fault"}]
    BY <1>1, <1>4 DEF TypeOK
  <2> QED
    BY <1>1, <1>4, <2>1, <2>3, <2>4, <2>5, <2>6 DEF TypeOK
<1>6. ObjectInv'
  BY <1>1, <1>2, <1>3, <1>a, <1>4 DEF ObjectInv, ObjectOf, TypeOK, Cpus, Hypervisor
<1>7. CpuInv(c)'
  BY <1>1, <1>2, <1>3, <1>a, <1>4 DEF CpuInv, TypeOK, GuardsAt
<1>8. \A d \in Cpus \ {c} : SameCpu(d)
  BY <1>1, <1>4 DEF SameCpu, TypeOK
<1> QED
  BY <1>1, <1>2, <1>4, <1>5, <1>6, <1>7, <1>8, OnlyThisCpu DEF Inv, TypeOK

\* The host page table was built by the first CPU before any CPU loads it.
LEMMA SwitchCr3Inv ==
  ASSUME Inv, NEW c \in Cpus, SwitchCr3(c)
  PROVE  Inv'
<1> USE NumCpusAssumption, ValueTypes, RegisterTypes
<1>1. /\ TypeOK /\ OrderInv /\ ObjectInv /\ AllCpuInv /\ CpuInv(c)
      /\ reg[c] \in Registers /\ hv \in Hypervisor /\ vmcs[c] \in Vmcs
  BY DEF Inv, AllCpuInv, TypeOK
<1>2. pc[c] = "cr3" /\ c = cpu /\ loader = "wait"
  BY <1>1, LaunchingIsCurrent DEF SwitchCr3, Goto, PushGuard
<1>3. /\ reg[c] = UnderGuards(c, {"interrupts", "gdt"}, CallerIf[c]) /\ guards[c] = {"interrupts", "gdt"}
      /\ hv.host_cr3 = Host
  BY <1>1, <1>2, SlotIsCpu DEF CpuInv, GuardsAt, ObjectInv, ObjectOf
<1>a. [reg[c] EXCEPT !.cr3 = Host] = UnderGuards(c, {"interrupts", "gdt", "cr3"}, CallerIf[c])
  BY <1>3 DEF UnderGuards
<1>4. /\ pc' = [pc EXCEPT ![c] = IF c = 0 THEN "ept" ELSE "vmx"]
      /\ guards' = [guards EXCEPT ![c] = {"interrupts", "gdt", "cr3"}]
      /\ reg' = [reg EXCEPT ![c] = UnderGuards(c, {"interrupts", "gdt", "cr3"}, CallerIf[c])]
      /\ UNCHANGED <<loader, cpu, result, ret, frame, stack, created, hv, gdt, vmcs>>
  BY <1>1, <1>2, <1>3, <1>a DEF SwitchCr3, Goto, PushGuard, loaderVars, moduleVars
<1>5. TypeOK'
  <2>1. guards' \in [Cpus -> SUBSET GuardNames]
    BY <1>1, <1>3, <1>a, <1>4 DEF TypeOK, GuardNames
  <2>2. UnderGuards(c, {"interrupts", "gdt", "cr3"}, CallerIf[c]) \in Registers
    BY DEF GuardNames
  <2>3. reg' \in [Cpus -> Registers]
    BY <1>1, <1>4, <2>2 DEF TypeOK
  <2>4. pc' \in [Cpus -> LaunchPcs \cup Launched \cup {"idle", "unwind", "returned", "fault"}]
    BY <1>1, <1>4 DEF TypeOK
  <2> QED
    BY <1>1, <1>4, <2>1, <2>3, <2>4 DEF TypeOK
<1>6. ObjectInv'
  BY <1>1, <1>2, <1>3, <1>a, <1>4 DEF ObjectInv, ObjectOf, TypeOK, Cpus
<1>7. CpuInv(c)'
  BY <1>1, <1>2, <1>3, <1>a, <1>4 DEF CpuInv, TypeOK, GuardsAt
<1>8. \A d \in Cpus \ {c} : SameCpu(d)
  BY <1>1, <1>4 DEF SameCpu, TypeOK
<1> QED
  BY <1>1, <1>2, <1>4, <1>5, <1>6, <1>7, <1>8, OnlyThisCpu DEF Inv, TypeOK

\* initialize_vmx selects the regions of the launching CPU.
LEMMA InitializeVmxInv ==
  ASSUME Inv, NEW c \in Cpus, InitializeVmx(c)
  PROVE  Inv'
<1> USE NumCpusAssumption, ValueTypes, RegisterTypes
<1>1. /\ TypeOK /\ OrderInv /\ ObjectInv /\ AllCpuInv /\ CpuInv(c)
      /\ reg[c] \in Registers /\ hv \in Hypervisor /\ vmcs[c] \in Vmcs
  BY DEF Inv, AllCpuInv, TypeOK
<1>2. pc[c] = "vmx" /\ c = cpu /\ loader = "wait"
  BY <1>1, LaunchingIsCurrent DEF InitializeVmx, Goto
<1>3. /\ reg[c] = UnderGuards(c, {"interrupts", "gdt", "cr3"}, CallerIf[c]) /\ guards[c] = {"interrupts", "gdt", "cr3"}
      /\ hv.guest_cr = Os(c) /\ Slot = c
  BY <1>1, <1>2, SlotIsCpu DEF CpuInv, GuardsAt, ObjectInv, ObjectOf
<1>4. /\ pc' = [pc EXCEPT ![c] = "cr"]
      /\ hv' = [hv EXCEPT !.vmx_physical = c, !.vmcs_physical = c, !.host_cr = Adjusted(Os(c))]
      /\ UNCHANGED <<loader, cpu, result, ret, guards, reg, frame, stack, created, gdt, vmcs>>
  BY <1>1, <1>2, <1>3 DEF InitializeVmx, Goto, loaderVars, moduleVars
<1>5. TypeOK'
  <2>1. hv' \in Hypervisor
    BY <1>1, <1>3, <1>4 DEF TypeOK, Hypervisor
  <2>2. pc' \in [Cpus -> LaunchPcs \cup Launched \cup {"idle", "unwind", "returned", "fault"}]
    BY <1>1, <1>4 DEF TypeOK
  <2> QED
    BY <1>1, <1>4, <2>1, <2>2 DEF TypeOK
<1>6. ObjectInv'
  BY <1>1, <1>2, <1>3, <1>4 DEF ObjectInv, ObjectOf, TypeOK, Cpus, Hypervisor
<1>7. CpuInv(c)'
  BY <1>1, <1>2, <1>3, <1>4 DEF CpuInv, TypeOK, GuardsAt
<1>8. \A d \in Cpus \ {c} : SameCpu(d)
  BY <1>1, <1>4 DEF SameCpu, TypeOK
<1> QED
  BY <1>1, <1>2, <1>4, <1>5, <1>6, <1>7, <1>8, OnlyThisCpu DEF Inv, TypeOK

\* enter_root_mode backs up the operating system's cr0 and cr4.
LEMMA EnterRootModeInv ==
  ASSUME Inv, NEW c \in Cpus, EnterRootMode(c)
  PROVE  Inv'
<1> USE NumCpusAssumption, ValueTypes, RegisterTypes
<1>1. /\ TypeOK /\ OrderInv /\ ObjectInv /\ AllCpuInv /\ CpuInv(c)
      /\ reg[c] \in Registers /\ hv \in Hypervisor /\ vmcs[c] \in Vmcs
  BY DEF Inv, AllCpuInv, TypeOK
<1>2. pc[c] = "cr" /\ c = cpu /\ loader = "wait"
  BY <1>1, LaunchingIsCurrent DEF EnterRootMode, Goto, PushGuard
<1>3. /\ reg[c] = UnderGuards(c, {"interrupts", "gdt", "cr3"}, CallerIf[c]) /\ guards[c] = {"interrupts", "gdt", "cr3"}
      /\ hv.host_cr = Adjusted(Os(c)) /\ reg[c].cr = Os(c)
  BY <1>1, <1>2, SlotIsCpu DEF CpuInv, GuardsAt, ObjectInv, ObjectOf, UnderGuards
<1>a. [reg[c] EXCEPT !.cr = Adjusted(Os(c))] = UnderGuards(c, {"interrupts", "gdt", "cr3", "cr"}, CallerIf[c])
  BY <1>3 DEF UnderGuards
<1>4. /\ pc' = [pc EXCEPT ![c] = "vmxon"]
      /\ guards' = [guards EXCEPT ![c] = {"interrupts", "gdt", "cr3", "cr"}]
      /\ reg' = [reg EXCEPT ![c] = UnderGuards(c, {"interrupts", "gdt", "cr3", "cr"}, CallerIf[c])]
      /\ frame' = [frame EXCEPT ![c] = [frame[c] EXCEPT !.cr = Os(c)]]
      /\ UNCHANGED <<loader, cpu, result, ret, stack, created, hv, gdt, vmcs>>
  BY <1>1, <1>2, <1>3, <1>a DEF EnterRootMode, Goto, PushGuard, loaderVars, moduleVars
<1>5. TypeOK'
  <2>1. guards' \in [Cpus -> SUBSET GuardNames]
    BY <1>1, <1>3, <1>a, <1>4 DEF TypeOK, GuardNames
  <2>2. UnderGuards(c, {"interrupts", "gdt", "cr3", "cr"}, CallerIf[c]) \in Registers
    BY DEF GuardNames
  <2>3. reg' \in [Cpus -> Registers]
    BY <1>1, <1>4, <2>2 DEF TypeOK
  <2>4. frame' \in [Cpus -> [intr : {0, 1}, cr : Values]]
    BY <1>1, <1>3, <1>a, <1>4, SMTT(40) DEF TypeOK
  <2>5. pc' \in [Cpus -> LaunchPcs \cup Launched \cup {"idle", "unwind", "returned", "fault"}]
    BY <1>1, <1>4 DEF TypeOK
  <2> QED
    BY <1>1, <1>4, <2>1, <2>3, <2>4, <2>5 DEF TypeOK
<1>6. ObjectInv'
  BY <1>1, <1>2, <1>3, <1>a, <1>4 DEF ObjectInv, ObjectOf, TypeOK, Cpus
<1>7. CpuInv(c)'
  BY <1>1, <1>2, <1>3, <1>a, <1>4 DEF CpuInv, TypeOK, GuardsAt
<1>8. \A d \in Cpus \ {c} : SameCpu(d)
  BY <1>1, <1>4 DEF SameCpu, TypeOK
<1> QED
  BY <1>1, <1>2, <1>4, <1>5, <1>6, <1>7, <1>8, OnlyThisCpu DEF Inv, TypeOK

\* The first CPU sets host_cr3.
LEMMA InitializeHostSucceeds ==
  ASSUME Inv, NEW c \in Cpus, Goto(c, "host", "gdt"),
         hv' = [hv EXCEPT !.host_cr3 = Host],
         UNCHANGED <<loader, cpu, result, ret, guards, reg, frame, stack, created, gdt, vmcs>>
  PROVE  Inv'
<1> USE NumCpusAssumption, ValueTypes, RegisterTypes
<1>1. /\ TypeOK /\ OrderInv /\ ObjectInv /\ AllCpuInv /\ CpuInv(c)
      /\ reg[c] \in Registers /\ hv \in Hypervisor /\ vmcs[c] \in Vmcs
  BY DEF Inv, AllCpuInv, TypeOK
<1>2. pc[c] = "host" /\ c = cpu /\ loader = "wait"
  BY <1>1, LaunchingIsCurrent DEF Goto, PushGuard
<1>3. /\ reg[c] = UnderGuards(c, {"interrupts"}, CallerIf[c]) /\ guards[c] = {"interrupts"}
  BY <1>1, <1>2, SlotIsCpu DEF CpuInv, GuardsAt, ObjectInv, ObjectOf
<1>4. /\ pc' = [pc EXCEPT ![c] = "gdt"]
      /\ hv' = [hv EXCEPT !.host_cr3 = Host]
      /\ UNCHANGED <<loader, cpu, result, ret, guards, reg, frame, stack, created, gdt, vmcs>>
  BY <1>1, <1>2, <1>3 DEF Goto, PushGuard, loaderVars, moduleVars
<1>5. TypeOK'
  <2>1. hv' \in Hypervisor
    BY <1>1, <1>3, <1>4 DEF TypeOK, Hypervisor
  <2>2. pc' \in [Cpus -> LaunchPcs \cup Launched \cup {"idle", "unwind", "returned", "fault"}]
    BY <1>1, <1>4 DEF TypeOK
  <2> QED
    BY <1>1, <1>4, <2>1, <2>2 DEF TypeOK
<1>6. ObjectInv'
  BY <1>1, <1>2, <1>3, <1>4 DEF ObjectInv, ObjectOf, TypeOK, Cpus, Hypervisor
<1>7. CpuInv(c)'
  BY <1>1, <1>2, <1>3, <1>4 DEF CpuInv, TypeOK, GuardsAt
<1>8. \A d \in Cpus \ {c} : SameCpu(d)
  BY <1>1, <1>4 DEF SameCpu, TypeOK
<1> QED
  BY <1>1, <1>2, <1>4, <1>5, <1>6, <1>7, <1>8, OnlyThisCpu DEF Inv, TypeOK

\* The first CPU builds the EPT.
LEMMA InitializeEptSucceeds ==
  ASSUME Inv, NEW c \in Cpus, Goto(c, "ept", "vmx"),
         hv' = [hv EXCEPT !.ept = Host],
         UNCHANGED <<loader, cpu, result, ret, guards, reg, frame, stack, created, gdt, vmcs>>
  PROVE  Inv'
<1> USE NumCpusAssumption, ValueTypes, RegisterTypes
<1>1. /\ TypeOK /\ OrderInv /\ ObjectInv /\ AllCpuInv /\ CpuInv(c)
      /\ reg[c] \in Registers /\ hv \in Hypervisor /\ vmcs[c] \in Vmcs
  BY DEF Inv, AllCpuInv, TypeOK
<1>2. pc[c] = "ept" /\ c = cpu /\ loader = "wait"
  BY <1>1, LaunchingIsCurrent DEF Goto, PushGuard
<1>3. /\ reg[c] = UnderGuards(c, {"interrupts", "gdt", "cr3"}, CallerIf[c]) /\ guards[c] = {"interrupts", "gdt", "cr3"}
  BY <1>1, <1>2, SlotIsCpu DEF CpuInv, GuardsAt, ObjectInv, ObjectOf
<1>4. /\ pc' = [pc EXCEPT ![c] = "vmx"]
      /\ hv' = [hv EXCEPT !.ept = Host]
      /\ UNCHANGED <<loader, cpu, result, ret, guards, reg, frame, stack, created, gdt, vmcs>>
  BY <1>1, <1>2, <1>3 DEF Goto, PushGuard, loaderVars, moduleVars
<1>5. TypeOK'
  <2>1. hv' \in Hypervisor
    BY <1>1, <1>3, <1>4 DEF TypeOK, Hypervisor
  <2>2. pc' \in [Cpus -> LaunchPcs \cup Launched \cup {"idle", "unwind", "returned", "fault"}]
    BY <1>1, <1>4 DEF TypeOK
  <2> QED
    BY <1>1, <1>4, <2>1, <2>2 DEF TypeOK
<1>6. ObjectInv'
  BY <1>1, <1>2, <1>3, <1>4 DEF ObjectInv, ObjectOf, TypeOK, Cpus, Hypervisor
<1>7. CpuInv(c)'
  BY <1>1, <1>2, <1>3, <1>4 DEF CpuInv, TypeOK, GuardsAt
<1>8. \A d \in Cpus \ {c} : SameCpu(d)
  BY <1>1, <1>4 DEF SameCpu, TypeOK
<1> QED
  BY <1>1, <1>2, <1>4, <1>5, <1>6, <1>7, <1>8, OnlyThisCpu DEF Inv, TypeOK

\* vmxon uses a region no other CPU holds.
LEMMA VmxonSucceeds ==
  ASSUME Inv, NEW c \in Cpus, Goto(c, "vmxon", "vmclear"),
         PushGuard(c, "vmx"), reg' = [reg EXCEPT ![c].vmxon = hv.vmx_physical],
         UNCHANGED <<loader, cpu, result, ret, frame, stack, created, hv, gdt, vmcs>>
  PROVE  Inv'
<1> USE NumCpusAssumption, ValueTypes, RegisterTypes
<1>1. /\ TypeOK /\ OrderInv /\ ObjectInv /\ AllCpuInv /\ CpuInv(c)
      /\ reg[c] \in Registers /\ hv \in Hypervisor /\ vmcs[c] \in Vmcs
  BY DEF Inv, AllCpuInv, TypeOK
<1>2. pc[c] = "vmxon" /\ c = cpu /\ loader = "wait"
  BY <1>1, LaunchingIsCurrent DEF Goto, PushGuard
<1>3. /\ reg[c] = UnderGuards(c, {"interrupts", "gdt", "cr3", "cr"}, CallerIf[c]) /\ guards[c] = {"interrupts", "gdt", "cr3", "cr"}
      /\ hv.vmx_physical = c
  BY <1>1, <1>2, SlotIsCpu DEF CpuInv, GuardsAt, ObjectInv, ObjectOf
<1>a. [reg[c] EXCEPT !.vmxon = c] = UnderGuards(c, {"interrupts", "gdt", "cr3", "cr", "vmx"}, CallerIf[c])
  BY <1>3 DEF UnderGuards
<1>4. /\ pc' = [pc EXCEPT ![c] = "vmclear"]
      /\ guards' = [guards EXCEPT ![c] = {"interrupts", "gdt", "cr3", "cr", "vmx"}]
      /\ reg' = [reg EXCEPT ![c] = UnderGuards(c, {"interrupts", "gdt", "cr3", "cr", "vmx"}, CallerIf[c])]
      /\ UNCHANGED <<loader, cpu, result, ret, frame, stack, created, hv, gdt, vmcs>>
  BY <1>1, <1>2, <1>3, <1>a DEF Goto, PushGuard, loaderVars, moduleVars
<1>5. TypeOK'
  <2>1. guards' \in [Cpus -> SUBSET GuardNames]
    BY <1>1, <1>3, <1>a, <1>4 DEF TypeOK, GuardNames
  <2>2. UnderGuards(c, {"interrupts", "gdt", "cr3", "cr", "vmx"}, CallerIf[c]) \in Registers
    BY DEF GuardNames
  <2>3. reg' \in [Cpus -> Registers]
    BY <1>1, <1>4, <2>2 DEF TypeOK
  <2>4. pc' \in [Cpus -> LaunchPcs \cup Launched \cup {"idle", "unwind", "returned", "fault"}]
    BY <1>1, <1>4 DEF TypeOK
  <2> QED
    BY <1>1, <1>4, <2>1, <2>3, <2>4 DEF TypeOK
<1>6. ObjectInv'
  BY <1>1, <1>2, <1>3, <1>a, <1>4 DEF ObjectInv, ObjectOf, TypeOK, Cpus
<1>7. CpuInv(c)'
  BY <1>1, <1>2, <1>3, <1>a, <1>4 DEF CpuInv, TypeOK, GuardsAt
<1>8. \A d \in Cpus \ {c} : SameCpu(d)
  BY <1>1, <1>4 DEF SameCpu, TypeOK
<1> QED
  BY <1>1, <1>2, <1>4, <1>5, <1>6, <1>7, <1>8, OnlyThisCpu DEF Inv, TypeOK

\* vmclear clears the region of the launching CPU, and of no launched one.
LEMMA VmclearSucceeds ==
  ASSUME Inv, NEW c \in Cpus, Goto(c, "vmclear", "vmptrld"),
         vmcs' = [vmcs EXCEPT ![hv.vmcs_physical] = ClearVmcs],
         UNCHANGED <<loader, cpu, result, ret, guards, reg, frame, stack, created, hv, gdt>>
  PROVE  Inv'
<1> USE NumCpusAssumption, ValueTypes, RegisterTypes
<1>1. /\ TypeOK /\ OrderInv /\ ObjectInv /\ AllCpuInv /\ CpuInv(c)
      /\ reg[c] \in Registers /\ hv \in Hypervisor /\ vmcs[c] \in Vmcs
  BY DEF Inv, AllCpuInv, TypeOK
<1>2. pc[c] = "vmclear" /\ c = cpu /\ loader = "wait"
  BY <1>1, LaunchingIsCurrent DEF Goto, PushGuard
<1>3. /\ reg[c] = UnderGuards(c, {"interrupts", "gdt", "cr3", "cr", "vmx"}, CallerIf[c]) /\ guards[c] = {"interrupts", "gdt", "cr3", "cr", "vmx"}
      /\ hv.vmcs_physical = c
  BY <1>1, <1>2, SlotIsCpu DEF CpuInv, GuardsAt, ObjectInv, ObjectOf
<1>4. /\ pc' = [pc EXCEPT ![c] = "vmptrld"]
      /\ vmcs' = [vmcs EXCEPT ![c] = ClearVmcs]
      /\ UNCHANGED <<loader, cpu, result, ret, guards, reg, frame, stack, created, hv, gdt>>
  BY <1>1, <1>2, <1>3 DEF Goto, PushGuard, loaderVars, moduleVars
<1>5. TypeOK'
  <2>1. vmcs' \in [Slots -> Vmcs]
    BY <1>1, <1>3, <1>4 DEF TypeOK, Vmcs, ClearVmcs
  <2>2. pc' \in [Cpus -> LaunchPcs \cup Launched \cup {"idle", "unwind", "returned", "fault"}]
    BY <1>1, <1>4 DEF TypeOK
  <2> QED
    BY <1>1, <1>4, <2>1, <2>2 DEF TypeOK
<1>6. ObjectInv'
  BY <1>1, <1>2, <1>3, <1>4 DEF ObjectInv, ObjectOf, TypeOK, Cpus
<1>7. CpuInv(c)'
  BY <1>1, <1>2, <1>3, <1>4 DEF CpuInv, TypeOK, GuardsAt
<1>8. \A d \in Cpus \ {c} : SameCpu(d)
  BY <1>1, <1>4 DEF SameCpu, TypeOK
<1> QED
  BY <1>1, <1>2, <1>4, <1>5, <1>6, <1>7, <1>8, OnlyThisCpu DEF Inv, TypeOK

\* vmptrld makes the region of the launching CPU current.
LEMMA VmptrldSucceeds ==
  ASSUME Inv, NEW c \in Cpus, Goto(c, "vmptrld", "vmcs"),
         reg' = [reg EXCEPT ![c].vmcs = hv.vmcs_physical], guards' = [guards EXCEPT ![c] = @ \ {"cr"}],
         UNCHANGED <<loader, cpu, result, ret, frame, stack, created, hv, gdt, vmcs>>
  PROVE  Inv'
<1> USE NumCpusAssumption, ValueTypes, RegisterTypes
<1>1. /\ TypeOK /\ OrderInv /\ ObjectInv /\ AllCpuInv /\ CpuInv(c)
      /\ reg[c] \in Registers /\ hv \in Hypervisor /\ vmcs[c] \in Vmcs
  BY DEF Inv, AllCpuInv, TypeOK
<1>2. pc[c] = "vmptrld" /\ c = cpu /\ loader = "wait"
  BY <1>1, LaunchingIsCurrent DEF Goto, PushGuard
<1>3. /\ reg[c] = UnderGuards(c, {"interrupts", "gdt", "cr3", "cr", "vmx"}, CallerIf[c]) /\ guards[c] = {"interrupts", "gdt", "cr3", "cr", "vmx"}
      /\ hv.vmcs_physical = c
  BY <1>1, <1>2, SlotIsCpu DEF CpuInv, GuardsAt, ObjectInv, ObjectOf
<1>a. [reg[c] EXCEPT !.vmcs = c] = InRootMode(c)
  BY <1>3 DEF UnderGuards, InRootMode
<1>4. /\ pc' = [pc EXCEPT ![c] = "vmcs"]
      /\ guards' = [guards EXCEPT ![c] = {"interrupts", "gdt", "cr3", "vmx"}]
      /\ reg' = [reg EXCEPT ![c] = InRootMode(c)]
      /\ UNCHANGED <<loader, cpu, result, ret, frame, stack, created, hv, gdt, vmcs>>
  BY <1>1, <1>2, <1>3, <1>a DEF Goto, PushGuard, loaderVars, moduleVars
<1>5. TypeOK'
  <2>1. guards' \in [Cpus -> SUBSET GuardNames]
    BY <1>1, <1>3, <1>a, <1>4 DEF TypeOK, GuardNames
  <2>2. InRootMode(c) \in Registers
    BY DEF GuardNames
  <2>3. reg' \in [Cpus -> Registers]
    BY <1>1, <1>4, <2>2 DEF TypeOK
  <2>4. pc' \in [Cpus -> LaunchPcs \cup Launched \cup {"idle", "unwind", "returned", "fault"}]
    BY <1>1, <1>4 DEF TypeOK
  <2> QED
    BY <1>1, <1>4, <2>1, <2>3, <2>4 DEF TypeOK
<1>6. ObjectInv'
  BY <1>1, <1>2, <1>3, <1>a, <1>4 DEF ObjectInv, ObjectOf, TypeOK, Cpus
<1>7. CpuInv(c)'
  BY <1>1, <1>2, <1>3, <1>a, <1>4 DEF CpuInv, TypeOK, GuardsAt
<1>8. \A d \in Cpus \ {c} : SameCpu(d)
  BY <1>1, <1>4 DEF SameCpu, TypeOK
<1> QED
  BY <1>1, <1>2, <1>4, <1>5, <1>6, <1>7, <1>8, OnlyThisCpu DEF Inv, TypeOK

\* setup_vmcs fills the VMCS of the launching CPU with that CPU's values.
LEMMA SetupVmcsInv ==
  ASSUME Inv, NEW c \in Cpus, SetupVmcs(c)
  PROVE  Inv'
<1> USE NumCpusAssumption, ValueTypes, RegisterTypes
<1>1. /\ TypeOK /\ OrderInv /\ ObjectInv /\ AllCpuInv /\ CpuInv(c)
      /\ reg[c] \in Registers /\ hv \in Hypervisor /\ vmcs[c] \in Vmcs
  BY DEF Inv, AllCpuInv, TypeOK
<1>2. pc[c] = "vmcs" /\ c = cpu /\ loader = "wait"
  BY <1>1, LaunchingIsCurrent DEF SetupVmcs, Goto, OwnVmcs
<1>3. /\ reg[c] = InRootMode(c) /\ guards[c] = {"interrupts", "gdt", "cr3", "vmx"}
      /\ reg[c].vmcs = c
      /\ hv.guest_cr3 = Os(c) /\ hv.guest_gdt_pointer = GuestGdt(c) /\ hv.guest_tr = GuestGdt(c)
      /\ hv.host_cr = Adjusted(Os(c)) /\ hv.host_cr3 = Host /\ hv.ept = Host
      /\ hv.next_virtual_processor = c + 1 /\ frame[c].intr = CallerIf[c]
      /\ vmcs[c].host_stack \in SlotOrNone
  BY <1>1, <1>2, SlotIsCpu DEF CpuInv, GuardsAt, ObjectInv, ObjectOf, InRootMode, Vmcs
<1>4. /\ pc' = [pc EXCEPT ![c] = "launch"]
      /\ vmcs' = [vmcs EXCEPT ![c] = OwnVmcs(c, vmcs[c].host_stack)]
      /\ UNCHANGED <<loader, cpu, result, ret, guards, reg, frame, stack, created, hv, gdt>>
  BY <1>1, <1>2, <1>3 DEF SetupVmcs, Goto, OwnVmcs, loaderVars, moduleVars
<1>5. TypeOK'
  <2>1. vmcs' \in [Slots -> Vmcs]
    BY <1>1, <1>3, <1>4 DEF TypeOK
  <2>2. pc' \in [Cpus -> LaunchPcs \cup Launched \cup {"idle", "unwind", "returned", "fault"}]
    BY <1>1, <1>4 DEF TypeOK
  <2> QED
    BY <1>1, <1>4, <2>1, <2>2 DEF TypeOK
<1>6. ObjectInv'
  BY <1>1, <1>2, <1>3, <1>4 DEF ObjectInv, ObjectOf, TypeOK, Cpus
<1>7. CpuInv(c)'
  BY <1>1, <1>2, <1>3, <1>4 DEF CpuInv, TypeOK, GuardsAt, OwnVmcs
<1>8. \A d \in Cpus \ {c} : SameCpu(d)
  BY <1>1, <1>4 DEF SameCpu, TypeOK
<1> QED
  BY <1>1, <1>2, <1>4, <1>5, <1>6, <1>7, <1>8, OnlyThisCpu DEF Inv, TypeOK

\* vm_launch hands the next slot to the next CPU.
LEMMA VmLaunchInv ==
  ASSUME Inv, NEW c \in Cpus, VmLaunch(c)
  PROVE  Inv'
<1> USE NumCpusAssumption, ValueTypes, RegisterTypes
<1>1. /\ TypeOK /\ OrderInv /\ ObjectInv /\ AllCpuInv /\ CpuInv(c)
      /\ reg[c] \in Registers /\ hv \in Hypervisor /\ vmcs[c] \in Vmcs
  BY DEF Inv, AllCpuInv, TypeOK
<1>2. pc[c] = "launch" /\ c = cpu /\ loader = "wait"
  BY <1>1, LaunchingIsCurrent DEF VmLaunch, Goto
<1>3. /\ reg[c] = InRootMode(c) /\ guards[c] = {"interrupts", "gdt", "cr3", "vmx"}
      /\ reg[c].vmcs = c
      /\ vmcs[c] = OwnVmcs(c, vmcs[c].host_stack) /\ stack[c] = c
      /\ hv.next_virtual_processor = c + 1
  BY <1>1, <1>2, SlotIsCpu DEF CpuInv, GuardsAt, ObjectInv, ObjectOf, InRootMode
<1>a. [vmcs[c] EXCEPT !.host_stack = c] = OwnVmcs(c, c)
  BY <1>3 DEF OwnVmcs
<1>b. hv.next_virtual_processor + 1 = c + 2 /\ c + 2 \in Nat
  BY <1>3
<1>4. /\ pc' = [pc EXCEPT ![c] = "vmlaunch"]
      /\ ret' = [ret EXCEPT ![c] = "success"]
      /\ hv' = [hv EXCEPT !.next_virtual_processor = c + 2]
      /\ vmcs' = [vmcs EXCEPT ![c] = OwnVmcs(c, c)]
      /\ UNCHANGED <<loader, cpu, result, guards, reg, frame, stack, created, gdt>>
  BY <1>1, <1>2, <1>3, <1>a, <1>b DEF VmLaunch, Goto, loaderVars, moduleVars
<1>5. TypeOK'
  <2>1. ret' \in [Cpus -> Errors \cup {"none", "success"}]
    BY <1>1, <1>3, <1>a, <1>b, <1>4 DEF TypeOK
  <2>2. hv' \in Hypervisor
    BY <1>1, <1>3, <1>a, <1>b, <1>4 DEF TypeOK, Hypervisor
  <2>3. vmcs' \in [Slots -> Vmcs]
    BY <1>1, <1>3, <1>a, <1>b, <1>4 DEF TypeOK
  <2>4. pc' \in [Cpus -> LaunchPcs \cup Launched \cup {"idle", "unwind", "returned", "fault"}]
    BY <1>1, <1>4 DEF TypeOK
  <2> QED
    BY <1>1, <1>4, <2>1, <2>2, <2>3, <2>4 DEF TypeOK
<1>6. ObjectInv'
  BY <1>1, <1>2, <1>3, <1>a, <1>b, <1>4 DEF ObjectInv, ObjectOf, TypeOK, Cpus, Hypervisor
<1>7. CpuInv(c)'
  BY <1>1, <1>2, <1>3, <1>a, <1>b, <1>4 DEF CpuInv, TypeOK, GuardsAt
<1>8. \A d \in Cpus \ {c} : SameCpu(d)
  BY <1>1, <1>4 DEF SameCpu, TypeOK
<1> QED
  BY <1>1, <1>2, <1>4, <1>5, <1>6, <1>7, <1>8, OnlyThisCpu DEF Inv, TypeOK

\* An error return starts to unwind; InitializeHost has set host_cr3 by then.
LEMMA FailInv ==
  ASSUME Inv, NEW c \in Cpus,
         NEW p \in {"host", "ept", "vmxon", "vmclear", "vmptrld"}, NEW e \in Errors,
         Fail(c, p, e), hv' \in {hv, [hv EXCEPT !.host_cr3 = Host]},
         UNCHANGED <<loaderVars, guards, reg, frame, stack, created, gdt, vmcs>>
  PROVE  Inv'
<1> USE NumCpusAssumption, ValueTypes, RegisterTypes
<1>1. /\ TypeOK /\ OrderInv /\ ObjectInv /\ AllCpuInv /\ CpuInv(c)
      /\ reg[c] \in Registers /\ hv \in Hypervisor /\ vmcs[c] \in Vmcs
  BY DEF Inv, AllCpuInv, TypeOK
<1>2. pc[c] = p /\ c = cpu /\ loader = "wait"
  BY <1>1, LaunchingIsCurrent DEF Fail, Goto
<1>3. /\ guards[c] \in GuardPrefixes /\ "interrupts" \in guards[c]
      /\ reg[c] = UnderGuards(c, guards[c], CallerIf[c])
      /\ hv.guest_cr = Os(c) /\ hv.guest_cr3 = Os(c) /\ hv.gdtr = Os(c) /\ hv.os_tr = Os(c)
      /\ "gdt" \in guards[c] => hv.guest_gdt_pointer = GuestGdt(c) /\ hv.guest_tr = GuestGdt(c)
      /\ created /\ hv.next_virtual_processor = cpu + 1
  BY <1>1, <1>2, SlotIsCpu DEF CpuInv, GuardsAt, ObjectInv, ObjectOf, GuardPrefixes
<1>a. reg[c] = UnderGuards(c, guards[c], 1)
  BY <1>3 DEF UnderGuards
<1>b. /\ hv'.available_stack_index = hv.available_stack_index
      /\ hv'.next_virtual_processor = hv.next_virtual_processor
      /\ hv'.guest_cr = hv.guest_cr /\ hv'.guest_cr3 = hv.guest_cr3
      /\ hv'.gdtr = hv.gdtr /\ hv'.os_tr = hv.os_tr
      /\ hv'.guest_gdt_pointer = hv.guest_gdt_pointer /\ hv'.guest_tr = hv.guest_tr
      /\ hv'.ept = hv.ept /\ (hv.host_cr3 = Host => hv'.host_cr3 = Host)
  BY <1>1 DEF Hypervisor
<1>4. /\ pc' = [pc EXCEPT ![c] = "unwind"]
      /\ ret' = [ret EXCEPT ![c] = e]
      /\ hv' = hv'
      /\ UNCHANGED <<loader, cpu, result, guards, reg, frame, stack, created, gdt, vmcs>>
  BY <1>1, <1>2, <1>3, <1>a, <1>b DEF Fail, Goto, loaderVars, moduleVars
<1>5. TypeOK'
  <2>1. ret' \in [Cpus -> Errors \cup {"none", "success"}]
    BY <1>1, <1>3, <1>a, <1>b, <1>4 DEF TypeOK
  <2>2. hv' \in Hypervisor
    BY <1>1, <1>3, <1>a, <1>b, <1>4 DEF TypeOK, Hypervisor
  <2>3. pc' \in [Cpus -> LaunchPcs \cup Launched \cup {"idle", "unwind", "returned", "fault"}]
    BY <1>1, <1>4 DEF TypeOK
  <2> QED
    BY <1>1, <1>4, <2>1, <2>2, <2>3 DEF TypeOK
<1>6. ObjectInv'
  BY <1>1, <1>2, <1>3, <1>a, <1>b, <1>4 DEF ObjectInv, ObjectOf, TypeOK, Cpus
<1>7. CpuInv(c)'
  BY <1>1, <1>2, <1>3, <1>a, <1>b, <1>4 DEF CpuInv, TypeOK, GuardsAt, Errors
<1>8. \A d \in Cpus \ {c} : SameCpu(d)
  BY <1>1, <1>4 DEF SameCpu, TypeOK
<1> QED
  BY <1>1, <1>2, <1>4, <1>5, <1>6, <1>7, <1>8, OnlyThisCpu DEF Inv, TypeOK

\* A fault during the launch leaves the CPU as it was.
LEMMA FaultInv ==
  ASSUME Inv, NEW c \in Cpus, NEW p \in {"vmxon", "vmlaunch"}, Fault(c, p),
         UNCHANGED <<loaderVars, ret, guards, reg, frame, stack, moduleVars>>
  PROVE  Inv'
<1> USE NumCpusAssumption, ValueTypes, RegisterTypes
<1>1. /\ TypeOK /\ OrderInv /\ ObjectInv /\ AllCpuInv /\ CpuInv(c)
      /\ reg[c] \in Registers /\ hv \in Hypervisor /\ vmcs[c] \in Vmcs
  BY DEF Inv, AllCpuInv, TypeOK
<1>2. pc[c] = p /\ c = cpu /\ loader = "wait"
  BY <1>1, LaunchingIsCurrent DEF Fault, Goto
<1>3. /\ reg[c].intr = 0
      /\ reg[c].vmxon \in {NoSlot, c}
      /\ reg[c].vmcs \in {NoSlot, c}
  BY <1>1, <1>2, SlotIsCpu DEF CpuInv, GuardsAt, ObjectInv, ObjectOf, UnderGuards, InRootMode
<1>4. /\ pc' = [pc EXCEPT ![c] = "fault"]
      /\ UNCHANGED <<loader, cpu, result, ret, guards, reg, frame, stack, created, hv, gdt, vmcs>>
  BY <1>1, <1>2, <1>3 DEF Fault, Goto, loaderVars, moduleVars
<1>5. TypeOK'
  <2>1. pc' \in [Cpus -> LaunchPcs \cup Launched \cup {"idle", "unwind", "returned", "fault"}]
    BY <1>1, <1>4 DEF TypeOK
  <2> QED
    BY <1>1, <1>4, <2>1 DEF TypeOK
<1>6. ObjectInv'
  BY <1>1, <1>2, <1>3, <1>4 DEF ObjectInv, ObjectOf, TypeOK, Cpus
<1>7. CpuInv(c)'
  BY <1>1, <1>2, <1>3, <1>4 DEF CpuInv, TypeOK, GuardsAt
<1>8. \A d \in Cpus \ {c} : SameCpu(d)
  BY <1>1, <1>4 DEF SameCpu, TypeOK
<1> QED
  BY <1>1, <1>2, <1>4, <1>5, <1>6, <1>7, <1>8, OnlyThisCpu DEF Inv, TypeOK

\* launch_on_cpu takes the stack of the launching CPU.
LEMMA EntryInv ==
  ASSUME Inv, NEW c \in Cpus, Entry(c)
  PROVE  Inv'
<1> USE NumCpusAssumption, ValueTypes, RegisterTypes
<1>1. /\ TypeOK /\ OrderInv /\ ObjectInv /\ AllCpuInv /\ CpuInv(c)
      /\ reg[c] \in Registers /\ hv \in Hypervisor /\ vmcs[c] \in Vmcs
  BY DEF Inv, AllCpuInv, TypeOK
<1>2. pc[c] = "entry" /\ c = cpu /\ loader = "wait"
  BY <1>1, LaunchingIsCurrent DEF Entry, Goto
<1>3. /\ reg[c] = OsRegisters(c) /\ guards[c] = {}
      /\ reg[c].intr = CallerIf[c]
      /\ hv.available_stack_index = c /\ (created <=> 0 < c)
      /\ created => hv.next_virtual_processor = c + 1 /\ hv.host_cr3 = Host /\ hv.ept = Host
  BY <1>1, <1>2, SlotIsCpu DEF CpuInv, GuardsAt, ObjectInv, ObjectOf, OsRegisters, Cpus
<1>a. /\ NewHypervisor \in Hypervisor /\ NewHypervisor.available_stack_index = 0
      /\ NewHypervisor.next_virtual_processor = 1
  BY DEF NewHypervisor, ZeroStorage, Hypervisor, Slots
<1> DEFINE object == IF created THEN hv ELSE NewHypervisor
<1>b. /\ object \in Hypervisor /\ object.available_stack_index = c
      /\ object.next_virtual_processor = c + 1 /\ c + 1 \in Nat
      /\ 0 < c => object.host_cr3 = Host /\ object.ept = Host
  BY <1>1, <1>3, <1>a DEF Cpus
<1> HIDE DEF object
<1>4. /\ pc' = [pc EXCEPT ![c] = "main"]
      /\ frame' = [frame EXCEPT ![c] = [frame[c] EXCEPT !.intr = CallerIf[c]]]
      /\ stack' = [stack EXCEPT ![c] = c]
      /\ created' = TRUE
      /\ hv' = [object EXCEPT !.available_stack_index = c + 1]
      /\ UNCHANGED <<loader, cpu, result, ret, guards, reg, gdt, vmcs>>
  <2>1. /\ stack' = [stack EXCEPT ![c] = object.available_stack_index]
        /\ hv' = [object EXCEPT !.available_stack_index = object.available_stack_index + 1]
    BY DEF Entry, object
  <2> QED
    BY <1>1, <1>2, <1>3, <1>b, <2>1 DEF Entry, Goto, loaderVars, moduleVars
<1>5. TypeOK'
  <2>1. frame' \in [Cpus -> [intr : {0, 1}, cr : Values]]
    BY <1>1, <1>3, <1>a, <1>4 DEF TypeOK
  <2>2. stack' \in [Cpus -> SlotOrNone]
    BY <1>1, <1>3, <1>a, <1>4 DEF TypeOK
  <2>3. hv' \in Hypervisor
    BY <1>b, <1>4 DEF Hypervisor
  <2>4. pc' \in [Cpus -> LaunchPcs \cup Launched \cup {"idle", "unwind", "returned", "fault"}]
    BY <1>1, <1>4 DEF TypeOK
  <2> QED
    BY <1>1, <1>4, <2>1, <2>2, <2>3, <2>4 DEF TypeOK
<1>6. ObjectInv'
  BY <1>1, <1>2, <1>3, <1>b, <1>4 DEF ObjectInv, ObjectOf, TypeOK, Cpus, Hypervisor
<1>7. CpuInv(c)'
  BY <1>1, <1>2, <1>3, <1>a, <1>4 DEF CpuInv, TypeOK, GuardsAt, UnderGuards, OsRegisters
<1>8. \A d \in Cpus \ {c} : SameCpu(d)
  BY <1>1, <1>4 DEF SameCpu, TypeOK
<1> QED
  BY <1>1, <1>2, <1>4, <1>5, <1>6, <1>7, <1>8, OnlyThisCpu DEF Inv, TypeOK

\* Which guards are left when guard g is the innermost one.
LEMMA Innermost ==
  ASSUME NEW G \in GuardPrefixes, NEW g \in G, \A h \in G : Rank[h] =< Rank[g]
  PROVE  /\ g = "vmx" => G = {"interrupts", "gdt", "cr3", "cr", "vmx"}
         /\ g = "cr" => G = {"interrupts", "gdt", "cr3", "cr"}
         /\ g = "cr3" => G = {"interrupts", "gdt", "cr3"}
         /\ g = "gdt" => G = {"interrupts", "gdt"}
         /\ g = "interrupts" => G = {"interrupts"}
<1>1. /\ Rank["interrupts"] = 1 /\ Rank["gdt"] = 2 /\ Rank["cr3"] = 3 /\ Rank["cr"] = 4
      /\ Rank["vmx"] = 5
  BY DEF Rank, GuardNames
<1> QED
  BY <1>1 DEF GuardPrefixes

\* vmxoff is the first guard to run.
LEMMA TurnOffVmxInv ==
  ASSUME Inv, NEW c \in Cpus, TurnOffVmx(c)
  PROVE  Inv'
<1> USE NumCpusAssumption, ValueTypes, RegisterTypes
<1>1. /\ TypeOK /\ OrderInv /\ ObjectInv /\ AllCpuInv /\ CpuInv(c)
      /\ reg[c] \in Registers /\ hv \in Hypervisor /\ vmcs[c] \in Vmcs
  BY DEF Inv, AllCpuInv, TypeOK
<1>2. pc[c] = "unwind" /\ c = cpu /\ loader = "wait"
  BY <1>1, LaunchingIsCurrent DEF TurnOffVmx, Unwind, Fault, Goto
<1>3. /\ reg[c] = UnderGuards(c, {"interrupts", "gdt", "cr3", "cr", "vmx"}, 1) /\ guards[c] = {"interrupts", "gdt", "cr3", "cr", "vmx"}
      /\ ret[c] \in Errors
  <2>1. guards[c] \in GuardPrefixes /\ "vmx" \in guards[c]
    BY <1>1, <1>2 DEF CpuInv, TurnOffVmx, Unwind
  <2>2. guards[c] = {"interrupts", "gdt", "cr3", "cr", "vmx"}
    BY <2>1, Innermost DEF TurnOffVmx, Unwind
  <2> QED
    BY <1>1, <1>2, <2>2 DEF CpuInv, ObjectInv, ObjectOf, UnderGuards
<1>a. [reg[c] EXCEPT !.vmxon = NoSlot] = UnderGuards(c, {"interrupts", "gdt", "cr3", "cr"}, 1)
  BY <1>3 DEF UnderGuards
<1>4. /\ guards' = [guards EXCEPT ![c] = {"interrupts", "gdt", "cr3", "cr"}]
      /\ reg' = [reg EXCEPT ![c] = UnderGuards(c, {"interrupts", "gdt", "cr3", "cr"}, 1)]
      /\ UNCHANGED <<loader, cpu, result, pc, ret, frame, stack, created, hv, gdt, vmcs>>
  BY <1>1, <1>2, <1>3, <1>a DEF TurnOffVmx, Unwind, Fault, Goto, loaderVars, moduleVars
<1>5. TypeOK'
  <2>1. guards' \in [Cpus -> SUBSET GuardNames]
    BY <1>1, <1>3, <1>a, <1>4 DEF TypeOK, GuardNames
  <2>2. UnderGuards(c, {"interrupts", "gdt", "cr3", "cr"}, 1) \in Registers
    BY DEF GuardNames
  <2>3. reg' \in [Cpus -> Registers]
    BY <1>1, <1>4, <2>2 DEF TypeOK
  <2>4. pc' \in [Cpus -> LaunchPcs \cup Launched \cup {"idle", "unwind", "returned", "fault"}]
    BY <1>1, <1>4 DEF TypeOK
  <2> QED
    BY <1>1, <1>4, <2>1, <2>3, <2>4 DEF TypeOK
<1>6. ObjectInv'
  BY <1>1, <1>2, <1>3, <1>a, <1>4 DEF ObjectInv, ObjectOf, TypeOK, Cpus
<1>7. CpuInv(c)'
  BY <1>1, <1>2, <1>3, <1>a, <1>4 DEF CpuInv, TypeOK, GuardsAt, GuardPrefixes
<1>8. \A d \in Cpus \ {c} : SameCpu(d)
  BY <1>1, <1>4 DEF SameCpu, TypeOK
<1> QED
  BY <1>1, <1>2, <1>4, <1>5, <1>6, <1>7, <1>8, OnlyThisCpu DEF Inv, TypeOK

\* cr0 and cr4 are restored after vmxoff, to the backed up values.
LEMMA RestoreCrInv ==
  ASSUME Inv, NEW c \in Cpus, RestoreCr(c)
  PROVE  Inv'
<1> USE NumCpusAssumption, ValueTypes, RegisterTypes
<1>1. /\ TypeOK /\ OrderInv /\ ObjectInv /\ AllCpuInv /\ CpuInv(c)
      /\ reg[c] \in Registers /\ hv \in Hypervisor /\ vmcs[c] \in Vmcs
  BY DEF Inv, AllCpuInv, TypeOK
<1>2. pc[c] = "unwind" /\ c = cpu /\ loader = "wait"
  BY <1>1, LaunchingIsCurrent DEF RestoreCr, Unwind, Fault, Goto
<1>3. /\ reg[c] = UnderGuards(c, {"interrupts", "gdt", "cr3", "cr"}, 1) /\ guards[c] = {"interrupts", "gdt", "cr3", "cr"}
      /\ reg[c].vmxon = NoSlot /\ frame[c].cr = Os(c)
      /\ ret[c] \in Errors
  <2>1. guards[c] \in GuardPrefixes /\ "cr" \in guards[c]
    BY <1>1, <1>2 DEF CpuInv, RestoreCr, Unwind
  <2>2. guards[c] = {"interrupts", "gdt", "cr3", "cr"}
    BY <2>1, Innermost DEF RestoreCr, Unwind
  <2> QED
    BY <1>1, <1>2, <2>2 DEF CpuInv, ObjectInv, ObjectOf, UnderGuards
<1>a. [reg[c] EXCEPT !.cr = Os(c)] = UnderGuards(c, {"interrupts", "gdt", "cr3"}, 1)
  BY <1>3 DEF UnderGuards
<1>4. /\ guards' = [guards EXCEPT ![c] = {"interrupts", "gdt", "cr3"}]
      /\ reg' = [reg EXCEPT ![c] = UnderGuards(c, {"interrupts", "gdt", "cr3"}, 1)]
      /\ UNCHANGED <<loader, cpu, result, pc, ret, frame, stack, created, hv, gdt, vmcs>>
  BY <1>1, <1>2, <1>3, <1>a DEF RestoreCr, Unwind, Fault, Goto, loaderVars, moduleVars
<1>5. TypeOK'
  <2>1. guards' \in [Cpus -> SUBSET GuardNames]
    BY <1>1, <1>3, <1>a, <1>4 DEF TypeOK, GuardNames
  <2>2. UnderGuards(c, {"interrupts", "gdt", "cr3"}, 1) \in Registers
    BY DEF GuardNames
  <2>3. reg' \in [Cpus -> Registers]
    BY <1>1, <1>4, <2>2 DEF TypeOK
  <2>4. pc' \in [Cpus -> LaunchPcs \cup Launched \cup {"idle", "unwind", "returned", "fault"}]
    BY <1>1, <1>4 DEF TypeOK
  <2> QED
    BY <1>1, <1>4, <2>1, <2>3, <2>4 DEF TypeOK
<1>6. ObjectInv'
  BY <1>1, <1>2, <1>3, <1>a, <1>4 DEF ObjectInv, ObjectOf, TypeOK, Cpus
<1>7. CpuInv(c)'
  BY <1>1, <1>2, <1>3, <1>a, <1>4 DEF CpuInv, TypeOK, GuardsAt, GuardPrefixes
<1>8. \A d \in Cpus \ {c} : SameCpu(d)
  BY <1>1, <1>4 DEF SameCpu, TypeOK
<1> QED
  BY <1>1, <1>2, <1>4, <1>5, <1>6, <1>7, <1>8, OnlyThisCpu DEF Inv, TypeOK

\* guest_cr3 still is the launching CPU's when its guard runs.
LEMMA RestoreCr3Inv ==
  ASSUME Inv, NEW c \in Cpus, RestoreCr3(c)
  PROVE  Inv'
<1> USE NumCpusAssumption, ValueTypes, RegisterTypes
<1>1. /\ TypeOK /\ OrderInv /\ ObjectInv /\ AllCpuInv /\ CpuInv(c)
      /\ reg[c] \in Registers /\ hv \in Hypervisor /\ vmcs[c] \in Vmcs
  BY DEF Inv, AllCpuInv, TypeOK
<1>2. pc[c] = "unwind" /\ c = cpu /\ loader = "wait"
  BY <1>1, LaunchingIsCurrent DEF RestoreCr3, Unwind, Fault, Goto
<1>3. /\ reg[c] = UnderGuards(c, {"interrupts", "gdt", "cr3"}, 1) /\ guards[c] = {"interrupts", "gdt", "cr3"}
      /\ hv.guest_cr3 = Os(c)
      /\ ret[c] \in Errors
  <2>1. guards[c] \in GuardPrefixes /\ "cr3" \in guards[c]
    BY <1>1, <1>2 DEF CpuInv, RestoreCr3, Unwind
  <2>2. guards[c] = {"interrupts", "gdt", "cr3"}
    BY <2>1, Innermost DEF RestoreCr3, Unwind
  <2> QED
    BY <1>1, <1>2, <2>2 DEF CpuInv, ObjectInv, ObjectOf, UnderGuards
<1>a. [reg[c] EXCEPT !.cr3 = Os(c)] = UnderGuards(c, {"interrupts", "gdt"}, 1)
  BY <1>3 DEF UnderGuards
<1>4. /\ guards' = [guards EXCEPT ![c] = {"interrupts", "gdt"}]
      /\ reg' = [reg EXCEPT ![c] = UnderGuards(c, {"interrupts", "gdt"}, 1)]
      /\ UNCHANGED <<loader, cpu, result, pc, ret, frame, stack, created, hv, gdt, vmcs>>
  BY <1>1, <1>2, <1>3, <1>a DEF RestoreCr3, Unwind, Fault, Goto, loaderVars, moduleVars
<1>5. TypeOK'
  <2>1. guards' \in [Cpus -> SUBSET GuardNames]
    BY <1>1, <1>3, <1>a, <1>4 DEF TypeOK, GuardNames
  <2>2. UnderGuards(c, {"interrupts", "gdt"}, 1) \in Registers
    BY DEF GuardNames
  <2>3. reg' \in [Cpus -> Registers]
    BY <1>1, <1>4, <2>2 DEF TypeOK
  <2>4. pc' \in [Cpus -> LaunchPcs \cup Launched \cup {"idle", "unwind", "returned", "fault"}]
    BY <1>1, <1>4 DEF TypeOK
  <2> QED
    BY <1>1, <1>4, <2>1, <2>3, <2>4 DEF TypeOK
<1>6. ObjectInv'
  BY <1>1, <1>2, <1>3, <1>a, <1>4 DEF ObjectInv, ObjectOf, TypeOK, Cpus
<1>7. CpuInv(c)'
  BY <1>1, <1>2, <1>3, <1>a, <1>4 DEF CpuInv, TypeOK, GuardsAt, GuardPrefixes
<1>8. \A d \in Cpus \ {c} : SameCpu(d)
  BY <1>1, <1>4 DEF SameCpu, TypeOK
<1> QED
  BY <1>1, <1>2, <1>4, <1>5, <1>6, <1>7, <1>8, OnlyThisCpu DEF Inv, TypeOK

\* Interrupts are enabled after everything else was restored.
LEMMA RestoreInterruptsInv ==
  ASSUME Inv, NEW c \in Cpus, RestoreInterrupts(c)
  PROVE  Inv'
<1> USE NumCpusAssumption, ValueTypes, RegisterTypes
<1>1. /\ TypeOK /\ OrderInv /\ ObjectInv /\ AllCpuInv /\ CpuInv(c)
      /\ reg[c] \in Registers /\ hv \in Hypervisor /\ vmcs[c] \in Vmcs
  BY DEF Inv, AllCpuInv, TypeOK
<1>2. pc[c] = "unwind" /\ c = cpu /\ loader = "wait"
  BY <1>1, LaunchingIsCurrent DEF RestoreInterrupts, Unwind, Fault, Goto
<1>3. /\ reg[c] = UnderGuards(c, {"interrupts"}, 1) /\ guards[c] = {"interrupts"}
      /\ ret[c] \in Errors
  <2>1. guards[c] \in GuardPrefixes /\ "interrupts" \in guards[c]
    BY <1>1, <1>2 DEF CpuInv, RestoreInterrupts, Unwind
  <2>2. guards[c] = {"interrupts"}
    BY <2>1, Innermost DEF RestoreInterrupts, Unwind
  <2> QED
    BY <1>1, <1>2, <2>2 DEF CpuInv, ObjectInv, ObjectOf, UnderGuards
<1>a. [reg[c] EXCEPT !.intr = 1] = UnderGuards(c, {}, 1)
  BY <1>3 DEF UnderGuards
<1>4. /\ guards' = [guards EXCEPT ![c] = {}]
      /\ reg' = [reg EXCEPT ![c] = UnderGuards(c, {}, 1)]
      /\ UNCHANGED <<loader, cpu, result, pc, ret, frame, stack, created, hv, gdt, vmcs>>
  BY <1>1, <1>2, <1>3, <1>a DEF RestoreInterrupts, Unwind, Fault, Goto, loaderVars, moduleVars
<1>5. TypeOK'
  <2>1. guards' \in [Cpus -> SUBSET GuardNames]
    BY <1>1, <1>3, <1>a, <1>4 DEF TypeOK, GuardNames
  <2>2. UnderGuards(c, {}, 1) \in Registers
    BY DEF GuardNames
  <2>3. reg' \in [Cpus -> Registers]
    BY <1>1, <1>4, <2>2 DEF TypeOK
  <2>4. pc' \in [Cpus -> LaunchPcs \cup Launched \cup {"idle", "unwind", "returned", "fault"}]
    BY <1>1, <1>4 DEF TypeOK
  <2> QED
    BY <1>1, <1>4, <2>1, <2>3, <2>4 DEF TypeOK
<1>6. ObjectInv'
  BY <1>1, <1>2, <1>3, <1>a, <1>4 DEF ObjectInv, ObjectOf, TypeOK, Cpus
<1>7. CpuInv(c)'
  BY <1>1, <1>2, <1>3, <1>a, <1>4 DEF CpuInv, TypeOK, GuardsAt, GuardPrefixes
<1>8. \A d \in Cpus \ {c} : SameCpu(d)
  BY <1>1, <1>4 DEF SameCpu, TypeOK
<1> QED
  BY <1>1, <1>2, <1>4, <1>5, <1>6, <1>7, <1>8, OnlyThisCpu DEF Inv, TypeOK

\* The caller's interrupt flag is restored with its context.
LEMMA ReturnErrorInv ==
  ASSUME Inv, NEW c \in Cpus, ReturnError(c)
  PROVE  Inv'
<1> USE NumCpusAssumption, ValueTypes, RegisterTypes
<1>1. /\ TypeOK /\ OrderInv /\ ObjectInv /\ AllCpuInv /\ CpuInv(c)
      /\ reg[c] \in Registers /\ hv \in Hypervisor /\ vmcs[c] \in Vmcs
  BY DEF Inv, AllCpuInv, TypeOK
<1>2. pc[c] = "unwind" /\ c = cpu /\ loader = "wait"
  BY <1>1, LaunchingIsCurrent DEF ReturnError, Goto
<1>3. /\ reg[c] = UnderGuards(c, {}, 1) /\ guards[c] = {}
      /\ frame[c].intr = CallerIf[c] /\ ret[c] \in Errors
  BY <1>1, <1>2, SlotIsCpu DEF CpuInv, GuardsAt, ObjectInv, ObjectOf, ReturnError
<1>a. [reg[c] EXCEPT !.intr = CallerIf[c]] = OsRegisters(c)
  BY <1>3 DEF UnderGuards, OsRegisters
<1>4. /\ pc' = [pc EXCEPT ![c] = "returned"]
      /\ reg' = [reg EXCEPT ![c] = OsRegisters(c)]
      /\ UNCHANGED <<loader, cpu, result, ret, guards, frame, stack, created, hv, gdt, vmcs>>
  BY <1>1, <1>2, <1>3, <1>a DEF ReturnError, Goto, loaderVars, moduleVars
<1>5. TypeOK'
  <2>1. OsRegisters(c) \in Registers
    BY DEF GuardNames
  <2>2. reg' \in [Cpus -> Registers]
    BY <1>1, <1>4, <2>1 DEF TypeOK
  <2>3. pc' \in [Cpus -> LaunchPcs \cup Launched \cup {"idle", "unwind", "returned", "fault"}]
    BY <1>1, <1>4 DEF TypeOK
  <2> QED
    BY <1>1, <1>4, <2>2, <2>3 DEF TypeOK
<1>6. ObjectInv'
  BY <1>1, <1>2, <1>3, <1>a, <1>4 DEF ObjectInv, ObjectOf, TypeOK, Cpus
<1>7. CpuInv(c)'
  BY <1>1, <1>2, <1>3, <1>a, <1>4 DEF CpuInv, TypeOK, GuardsAt
<1>8. \A d \in Cpus \ {c} : SameCpu(d)
  BY <1>1, <1>4 DEF SameCpu, TypeOK
<1> QED
  BY <1>1, <1>2, <1>4, <1>5, <1>6, <1>7, <1>8, OnlyThisCpu DEF Inv, TypeOK

\* load_os_gdt restores the caller's tables, or faults when it reloads TR.
LEMMA RestoreGdtInv ==
  ASSUME Inv, NEW c \in Cpus, RestoreGdt(c)
  PROVE  Inv'
<1> USE NumCpusAssumption, ValueTypes, RegisterTypes
<1>1. /\ TypeOK /\ OrderInv /\ ObjectInv /\ AllCpuInv /\ CpuInv(c)
      /\ reg[c] \in Registers /\ hv \in Hypervisor /\ vmcs[c] \in Vmcs
  BY DEF Inv, AllCpuInv, TypeOK
<1>2. pc[c] = "unwind" /\ c = cpu /\ loader = "wait"
  BY <1>1, LaunchingIsCurrent DEF RestoreGdt, Unwind
<1>3. /\ reg[c] = UnderGuards(c, {"interrupts", "gdt"}, 1) /\ guards[c] = {"interrupts", "gdt"}
      /\ hv.gdtr = Os(c) /\ hv.os_tr = Os(c) /\ hv.guest_tr = GuestGdt(c)
      /\ ret[c] \in Errors
  <2>1. guards[c] \in GuardPrefixes /\ "gdt" \in guards[c]
    BY <1>1, <1>2 DEF CpuInv, RestoreGdt, Unwind
  <2>2. guards[c] = {"interrupts", "gdt"}
    BY <2>1, Innermost DEF RestoreGdt, Unwind
  <2> QED
    BY <1>1, <1>2, <2>2 DEF CpuInv, ObjectInv, ObjectOf, UnderGuards
<1> DEFINE r == [reg[c] EXCEPT !.gdtr = Os(c)]
<1>a. /\ r \in Registers /\ r.intr = 0 /\ r.vmxon = NoSlot /\ r.vmcs = NoSlot
      /\ GuestGdt(c) = Os(c) => r = UnderGuards(c, {"interrupts"}, 1)
  <2>1. r \in Registers
    BY <1>1 DEF Registers
  <2>2. r.intr = 0 /\ r.vmxon = NoSlot /\ r.vmcs = NoSlot
    BY <1>3 DEF UnderGuards
  <2>3. GuestGdt(c) = Os(c) => r = UnderGuards(c, {"interrupts"}, 1)
    BY <1>3 DEF UnderGuards
  <2> QED
    BY <2>1, <2>2, <2>3
<1>4. /\ pc' = [pc EXCEPT ![c] = IF GuestGdt(c) = Os(c) THEN "unwind" ELSE "fault"]
      /\ guards' = [guards EXCEPT ![c] = {"interrupts"}]
      /\ reg' = [reg EXCEPT ![c] = r]
      /\ UNCHANGED <<loader, cpu, result, ret, frame, stack, created, hv, gdt, vmcs>>
  <2>1. pc' = [pc EXCEPT ![c] = IF GuestGdt(c) = Os(c) THEN "unwind" ELSE "fault"]
    BY <1>1, <1>2, <1>3 DEF RestoreGdt, Fault, Goto, TypeOK
  <2>2. guards' = [guards EXCEPT ![c] = {"interrupts"}]
    BY <1>3 DEF RestoreGdt, Unwind
  <2>3. reg' = [reg EXCEPT ![c] = r]
    BY <1>3 DEF RestoreGdt
  <2> QED
    BY <2>1, <2>2, <2>3 DEF RestoreGdt, Unwind, loaderVars, moduleVars
<1> HIDE DEF r
<1>5. TypeOK'
  <2>1. guards' \in [Cpus -> SUBSET GuardNames]
    BY <1>1, <1>4 DEF TypeOK, GuardNames
  <2>2. reg' \in [Cpus -> Registers]
    BY <1>1, <1>4, <1>a DEF TypeOK
  <2>3. pc' \in [Cpus -> LaunchPcs \cup Launched \cup {"idle", "unwind", "returned", "fault"}]
    BY <1>1, <1>4 DEF TypeOK
  <2> QED
    BY <1>1, <1>4, <2>1, <2>2, <2>3 DEF TypeOK
<1>6. ObjectInv'
  BY <1>1, <1>2, <1>3, <1>4 DEF ObjectInv, ObjectOf, TypeOK, Cpus
<1>7. CpuInv(c)'
  BY <1>1, <1>2, <1>3, <1>a, <1>4 DEF CpuInv, TypeOK, GuardsAt, GuardPrefixes
<1>8. \A d \in Cpus \ {c} : SameCpu(d)
  BY <1>1, <1>4 DEF SameCpu, TypeOK
<1> QED
  BY <1>1, <1>2, <1>4, <1>5, <1>6, <1>7, <1>8, OnlyThisCpu DEF Inv, TypeOK

-----------------------------------------------------------------------------
(***************************************************************************)
(* VM entries and VM exits.                                                *)
(***************************************************************************)

\* VM entry loads the registers of the guest.
LEMMA EnterGuestLoads ==
  ASSUME TypeOK, NEW c \in Cpus, NEW from, EnterGuest(c, from),
         reg[c] = InRootMode(c) \/ reg[c] = InHandler(c), vmcs[c] = OwnVmcs(c, c)
  PROVE  reg' = [reg EXCEPT ![c] = InGuest(c)] /\ pc' = [pc EXCEPT ![c] = "guest"]
<1> USE ValueTypes, RegisterTypes
<1>1. reg[c].vmcs = c /\ reg[c].vmxon = c /\ reg[c] \in Registers
  BY DEF InRootMode, InHandler, TypeOK
<1> DEFINE r == [reg[c] EXCEPT !.cr3 = vmcs[c].guest_cr3, !.gdtr = vmcs[c].guest_gdtr,
                               !.tr = vmcs[c].guest_tr, !.cr = vmcs[c].guest_cr,
                               !.intr = vmcs[c].guest_intr]
<1>2. /\ vmcs[c].guest_cr3 = Os(c) /\ vmcs[c].guest_gdtr = GuestGdt(c)
      /\ vmcs[c].guest_tr = GuestGdt(c) /\ vmcs[c].guest_cr = Adjusted(Os(c))
      /\ vmcs[c].guest_intr = CallerIf[c]
  BY DEF OwnVmcs
<1>3. r \in Registers
  BY <1>1, <1>2, ZenonT(60) DEF Registers
<1>4. /\ r.cr3 = Os(c) /\ r.gdtr = GuestGdt(c) /\ r.tr = GuestGdt(c)
      /\ r.cr = Adjusted(Os(c)) /\ r.intr = CallerIf[c] /\ r.vmxon = c /\ r.vmcs = c
  BY <1>1, <1>2 DEF Registers
<1>5. reg' = [reg EXCEPT ![c] = r]
  BY <1>1 DEF EnterGuest
<1> HIDE DEF r
<1>6. r = InGuest(c)
  <2>1. /\ InGuest(c).cr3 = Os(c) /\ InGuest(c).gdtr = GuestGdt(c)
        /\ InGuest(c).tr = GuestGdt(c) /\ InGuest(c).cr = Adjusted(Os(c))
        /\ InGuest(c).intr = CallerIf[c] /\ InGuest(c).vmxon = c /\ InGuest(c).vmcs = c
    BY DEF InGuest
  <2> QED
    BY <1>3, <1>4, <2>1, SameRegisters
<1> QED
  BY <1>5, <1>6 DEF EnterGuest, Goto

\* vmlaunch enters the guest with the launching CPU's own state.
LEMMA VmlaunchSucceeds ==
  ASSUME Inv, NEW c \in Cpus, EnterGuest(c, "vmlaunch"),
         UNCHANGED <<loader, cpu, result, ret, guards, frame, stack, created, hv, gdt, vmcs>>
  PROVE  Inv'
<1> USE NumCpusAssumption, ValueTypes, RegisterTypes
<1>1. /\ TypeOK /\ OrderInv /\ ObjectInv /\ AllCpuInv /\ CpuInv(c)
  BY DEF Inv, AllCpuInv
<1>2. pc[c] = "vmlaunch" /\ c = cpu /\ loader = "wait"
  BY <1>1, LaunchingIsCurrent DEF EnterGuest, Goto
<1>3. reg[c] = InRootMode(c) /\ vmcs[c] = OwnVmcs(c, c)
  BY <1>1, <1>2 DEF CpuInv
<1>4. reg' = [reg EXCEPT ![c] = InGuest(c)] /\ pc' = [pc EXCEPT ![c] = "guest"]
  BY <1>1, <1>3, EnterGuestLoads
<1>5. TypeOK'
  <2>1. reg' \in [Cpus -> Registers]
    BY <1>1, <1>4 DEF TypeOK
  <2>2. pc' \in [Cpus -> LaunchPcs \cup Launched \cup {"idle", "unwind", "returned", "fault"}]
    BY <1>1, <1>4 DEF TypeOK
  <2> QED
    BY <1>1, <2>1, <2>2 DEF TypeOK
<1>6. ObjectInv'
  BY <1>1, <1>2, <1>4 DEF ObjectInv, ObjectOf, TypeOK, Cpus
<1>7. CpuInv(c)'
  BY <1>1, <1>2, <1>3, <1>4 DEF CpuInv, TypeOK
<1>8. \A d \in Cpus \ {c} : SameCpu(d)
  BY <1>1, <1>4 DEF SameCpu, TypeOK
<1> QED
  BY <1>1, <1>2, <1>4, <1>5, <1>6, <1>7, <1>8, OnlyThisCpu DEF Inv, TypeOK

\* A launched CPU that moves between the guest and the handler, and changes
\* nothing but its own registers, preserves the invariant whatever the loader
\* and the launching CPU are doing.
LEMMA LaunchedStep ==
  ASSUME Inv, NEW c \in Cpus, NEW p \in Launched, pc[c] \in Launched,
         pc' = [pc EXCEPT ![c] = p],
         reg' = [reg EXCEPT ![c] = IF p = "guest" THEN InGuest(c) ELSE InHandler(c)],
         UNCHANGED <<loader, cpu, result, ret, guards, frame, stack, created, hv, gdt, vmcs>>
  PROVE  Inv'
<1> USE NumCpusAssumption, ValueTypes, RegisterTypes
<1>1. /\ TypeOK /\ OrderInv /\ ObjectInv /\ AllCpuInv /\ CpuInv(c)
  BY DEF Inv, AllCpuInv
<1>2. \A d \in Cpus : pc'[d] = IF d = c THEN p ELSE pc[d]
  BY <1>1 DEF TypeOK
<1>3. TypeOK'
  <2>1. reg' \in [Cpus -> Registers]
    BY <1>1 DEF TypeOK
  <2>2. pc' \in [Cpus -> LaunchPcs \cup Launched \cup {"idle", "unwind", "returned", "fault"}]
    BY <1>1 DEF TypeOK
  <2> QED
    BY <1>1, <2>1, <2>2 DEF TypeOK
<1>4. OrderInv'
  BY <1>1, <1>2 DEF OrderInv, TypeOK, Cpus, Slots
<1>5. ObjectInv'
  <2>1. 0 \in Cpus
    BY DEF Cpus
  <2>2. pc'[0] \in OnStack <=> pc[0] \in OnStack
    BY <1>2, <2>1
  <2>3. CASE c = cpu
    BY <1>1, <1>2, <2>2, <2>3 DEF ObjectInv, ObjectOf
  <2>4. CASE c # cpu
    <3>1. cpu \in Cpus => pc'[cpu] = pc[cpu]
      BY <1>2, <2>4
    <3> QED
      BY <1>1, <2>2, <3>1 DEF ObjectInv, ObjectOf
  <2> QED
    BY <2>3, <2>4
<1>6. CpuInv(c)'
  BY <1>1 DEF CpuInv, TypeOK
<1>7. \A d \in Cpus \ {c} : CpuInv(d)'
  <2>1. \A d \in Cpus \ {c} : SameCpu(d)
    BY <1>1, <1>2 DEF SameCpu, TypeOK
  <2> QED
    BY <1>1, <2>1, SameCpuInv DEF AllCpuInv
<1> QED
  BY <1>3, <1>4, <1>5, <1>6, <1>7 DEF Inv, AllCpuInv

\* vmresume enters the guest with the state the VM exit saved.
LEMMA VmResumeInv ==
  ASSUME Inv, NEW c \in Cpus, VmResume(c)
  PROVE  Inv'
<1>1. TypeOK /\ CpuInv(c)
  BY DEF Inv, AllCpuInv
<1>2. pc[c] = "vmm"
  BY DEF VmResume, EnterGuest, Goto
<1>3. reg[c] = InHandler(c) /\ vmcs[c] = OwnVmcs(c, c)
  BY <1>1, <1>2 DEF CpuInv
<1>4. reg' = [reg EXCEPT ![c] = InGuest(c)] /\ pc' = [pc EXCEPT ![c] = "guest"]
  BY <1>1, <1>3, EnterGuestLoads DEF VmResume
<1>5. UNCHANGED <<loader, cpu, result, ret, guards, frame, stack, created, hv, gdt, vmcs>>
  BY DEF VmResume, loaderVars, moduleVars
<1> QED
  BY <1>2, <1>4, <1>5, LaunchedStep

\* VMCS regions with the same fields are the same.
LEMMA SameVmcs ==
  ASSUME NEW v \in Vmcs, NEW w \in Vmcs,
         v.vpid = w.vpid, v.ept = w.ept, v.host_cr3 = w.host_cr3,
         v.host_gdtr = w.host_gdtr, v.host_cr = w.host_cr, v.host_stack = w.host_stack,
         v.guest_cr3 = w.guest_cr3, v.guest_gdtr = w.guest_gdtr,
         v.guest_tr = w.guest_tr, v.guest_cr = w.guest_cr, v.guest_intr = w.guest_intr
  PROVE  v = w
BY DEF Vmcs

\* A VM exit saves the guest's state into its own VMCS, on its own stack.
LEMMA VmExitInv ==
  ASSUME Inv, NEW c \in Cpus, VmExit(c)
  PROVE  Inv'
<1> USE ValueTypes, RegisterTypes
<1>1. TypeOK /\ CpuInv(c) /\ reg[c] \in Registers /\ vmcs[c] \in Vmcs
  BY DEF Inv, AllCpuInv, TypeOK
<1>2. pc[c] = "guest"
  BY DEF VmExit, Goto
<1>3. reg[c] = InGuest(c) /\ vmcs[c] = OwnVmcs(c, c) /\ stack[c] = c
  BY <1>1, <1>2 DEF CpuInv
<1>4. /\ reg[c].cr3 = Os(c) /\ reg[c].gdtr = GuestGdt(c) /\ reg[c].tr = GuestGdt(c)
      /\ reg[c].cr = Adjusted(Os(c)) /\ reg[c].intr = CallerIf[c]
      /\ reg[c].vmxon = c /\ reg[c].vmcs = c
  BY <1>3 DEF InGuest
<1>5. /\ vmcs[c].host_cr3 = Host /\ vmcs[c].host_gdtr = Host
      /\ vmcs[c].host_cr = Adjusted(Os(c)) /\ vmcs[c].host_stack = c
      /\ vmcs[c].guest_cr3 = Os(c) /\ vmcs[c].guest_gdtr = GuestGdt(c)
      /\ vmcs[c].guest_tr = GuestGdt(c) /\ vmcs[c].guest_cr = Adjusted(Os(c))
      /\ vmcs[c].guest_intr = CallerIf[c]
  BY <1>3 DEF OwnVmcs
<1> DEFINE v == [vmcs[c] EXCEPT !.guest_cr3 = reg[c].cr3, !.guest_gdtr = reg[c].gdtr,
                                !.guest_tr = reg[c].tr, !.guest_cr = reg[c].cr,
                                !.guest_intr = reg[c].intr]
           r == [reg[c] EXCEPT !.cr3 = vmcs[c].host_cr3, !.gdtr = vmcs[c].host_gdtr,
                               !.tr = Host, !.cr = vmcs[c].host_cr, !.intr = 0]
<1>6. v \in Vmcs /\ v = vmcs[c]
  <2>1. v \in Vmcs
    BY <1>1, <1>4, ZenonT(60) DEF Vmcs
  <2>2. /\ v.vpid = vmcs[c].vpid /\ v.ept = vmcs[c].ept /\ v.host_cr3 = vmcs[c].host_cr3
        /\ v.host_gdtr = vmcs[c].host_gdtr /\ v.host_cr = vmcs[c].host_cr
        /\ v.host_stack = vmcs[c].host_stack /\ v.guest_cr3 = vmcs[c].guest_cr3
        /\ v.guest_gdtr = vmcs[c].guest_gdtr /\ v.guest_tr = vmcs[c].guest_tr
        /\ v.guest_cr = vmcs[c].guest_cr /\ v.guest_intr = vmcs[c].guest_intr
    BY <1>1, <1>4, <1>5 DEF Vmcs
  <2> HIDE DEF v
  <2> QED
    BY <1>1, <2>1, <2>2, SameVmcs
<1>7. r = InHandler(c)
  <2>1. r \in Registers
    BY <1>1, <1>5, ZenonT(60) DEF Registers
  <2>2. /\ r.cr3 = Host /\ r.gdtr = Host /\ r.tr = Host
        /\ r.cr = Adjusted(Os(c)) /\ r.intr = 0 /\ r.vmxon = c /\ r.vmcs = c
    BY <1>1, <1>4, <1>5 DEF Registers
  <2>3. /\ InHandler(c).cr3 = Host /\ InHandler(c).gdtr = Host /\ InHandler(c).tr = Host
        /\ InHandler(c).cr = Adjusted(Os(c)) /\ InHandler(c).intr = 0
        /\ InHandler(c).vmxon = c /\ InHandler(c).vmcs = c
    BY DEF InHandler
  <2> HIDE DEF r
  <2> QED
    BY <2>1, <2>2, <2>3, SameRegisters
<1>8. vmcs' = vmcs /\ stack' = stack
  <2>1. vmcs' = [vmcs EXCEPT ![c] = v] /\ stack' = [stack EXCEPT ![c] = c]
    BY <1>4, <1>5 DEF VmExit
  <2> HIDE DEF v
  <2> QED
    BY <1>1, <1>3, <1>6, <2>1 DEF TypeOK
<1>9. reg' = [reg EXCEPT ![c] = InHandler(c)] /\ pc' = [pc EXCEPT ![c] = "vmm"]
  <2>1. reg' = [reg EXCEPT ![c] = r]
    BY <1>4 DEF VmExit
  <2> HIDE DEF r
  <2> QED
    BY <1>7, <2>1 DEF VmExit, Goto
<1>10. UNCHANGED <<loader, cpu, result, ret, guards, frame, stack, created, hv, gdt, vmcs>>
  BY <1>8 DEF VmExit, loaderVars
<1> QED
  BY <1>2, <1>9, <1>10, LaunchedStep

-----------------------------------------------------------------------------
(***************************************************************************)
(* The steps that may fail.                                                *)
(***************************************************************************)
\* A step of the launch preserves the invariant whether it succeeds, fails or faults.
LEMMA FallibleStepInv ==
  ASSUME Inv, NEW c \in Cpus,
         \/ InitializeHost(c) \/ InitializeEpt(c)
         \/ Vmxon(c) \/ Vmclear(c) \/ Vmptrld(c) \/ Vmlaunch(c)
  PROVE  Inv'
<1> USE DEF loaderVars, moduleVars
<1>1. CASE InitializeHost(c)
  <2>1. CASE Goto(c, "host", "gdt") /\ UNCHANGED ret
    BY <1>1, <2>1, InitializeHostSucceeds DEF InitializeHost
  <2>2. CASE Fail(c, "host", "physical_to_virtual_capacity_error")
    BY <1>1, <2>2, FailInv DEF InitializeHost, Errors
  <2> QED
    BY <1>1, <2>1, <2>2 DEF InitializeHost
<1>2. CASE InitializeEpt(c)
  <2>1. CASE Goto(c, "ept", "vmx") /\ hv' = [hv EXCEPT !.ept = Host] /\ UNCHANGED ret
    BY <1>2, <2>1, InitializeEptSucceeds DEF InitializeEpt
  <2>2. CASE Fail(c, "ept", "out_of_ept_entries") /\ UNCHANGED hv
    BY <1>2, <2>2, FailInv DEF InitializeEpt, Errors
  <2> QED
    BY <1>2, <2>1, <2>2 DEF InitializeEpt
<1>3. CASE Vmxon(c)
  <2>1. CASE /\ Goto(c, "vmxon", "vmclear") /\ PushGuard(c, "vmx")
             /\ reg' = [reg EXCEPT ![c].vmxon = hv.vmx_physical] /\ UNCHANGED ret
    BY <1>3, <2>1, VmxonSucceeds DEF Vmxon
  <2>2. CASE Fail(c, "vmxon", "vmxon_failed") /\ UNCHANGED <<guards, reg>>
    BY <1>3, <2>2, FailInv DEF Vmxon, Errors
  <2>3. CASE Fault(c, "vmxon") /\ UNCHANGED <<ret, guards, reg>>
    BY <1>3, <2>3, FaultInv DEF Vmxon
  <2> QED
    BY <1>3, <2>1, <2>2, <2>3 DEF Vmxon
<1>4. CASE Vmclear(c)
  <2>1. CASE /\ Goto(c, "vmclear", "vmptrld")
             /\ vmcs' = [vmcs EXCEPT ![hv.vmcs_physical] = ClearVmcs] /\ UNCHANGED ret
    BY <1>4, <2>1, VmclearSucceeds DEF Vmclear
  <2>2. CASE Fail(c, "vmclear", "vmclear_failed") /\ UNCHANGED vmcs
    BY <1>4, <2>2, FailInv DEF Vmclear, Errors
  <2> QED
    BY <1>4, <2>1, <2>2 DEF Vmclear
<1>5. CASE Vmptrld(c)
  <2>1. CASE /\ Goto(c, "vmptrld", "vmcs")
             /\ reg' = [reg EXCEPT ![c].vmcs = hv.vmcs_physical]
             /\ guards' = [guards EXCEPT ![c] = @ \ {"cr"}] /\ UNCHANGED ret
    BY <1>5, <2>1, VmptrldSucceeds DEF Vmptrld
  <2>2. CASE Fail(c, "vmptrld", "vmptrld_failed") /\ UNCHANGED <<guards, reg>>
    BY <1>5, <2>2, FailInv DEF Vmptrld, Errors
  <2> QED
    BY <1>5, <2>1, <2>2 DEF Vmptrld
<1>6. CASE Vmlaunch(c)
  <2>1. CASE EnterGuest(c, "vmlaunch")
    BY <1>6, <2>1, VmlaunchSucceeds DEF Vmlaunch
  <2>2. CASE Fault(c, "vmlaunch") /\ UNCHANGED reg
    BY <1>6, <2>2, FaultInv DEF Vmlaunch
  <2> QED
    BY <1>6, <2>1, <2>2 DEF Vmlaunch
<1> QED
  BY <1>1, <1>2, <1>3, <1>4, <1>5, <1>6

-----------------------------------------------------------------------------
(***************************************************************************)
(* The loader.                                                             *)
(***************************************************************************)

\* A step of the loader that changes no variable of a CPU or of the object.
LEMMA LoaderOnly ==
  ASSUME AllCpuInv, UNCHANGED <<cpuVars, moduleVars>>
  PROVE  AllCpuInv'
<1>1. \A d \in Cpus : SameCpu(d)
  BY DEF SameCpu, cpuVars, moduleVars
<1> QED
  BY <1>1, SameCpuInv DEF AllCpuInv

\* Loading the ELF file touches no CPU.
LEMMA LoadElfInv == ASSUME Inv, LoadElf PROVE Inv'
<1> USE NumCpusAssumption DEF cpuVars, moduleVars
<1>1. TypeOK /\ OrderInv /\ ObjectInv /\ AllCpuInv
  BY DEF Inv
<1>2. AllCpuInv'
  BY <1>1, LoaderOnly DEF LoadElf
<1>3. /\ loader' \in {"call", "done"} /\ result' \in {"none", "success", "failure"}
      /\ loader = "load" /\ cpu' = cpu
      /\ UNCHANGED <<pc, ret, guards, reg, frame, stack, created, hv, gdt, vmcs>>
  BY <1>1 DEF LoadElf, LoaderReturns, TypeOK
<1>4. TypeOK'
  BY <1>1, <1>3 DEF TypeOK
<1>5. OrderInv' /\ ObjectInv'
  BY <1>1, <1>3 DEF OrderInv, ObjectInv, ObjectOf
<1> QED
  BY <1>2, <1>4, <1>5 DEF Inv

\* The loader calls the entry point on the next idle CPU.
LEMMA CallOnCpuInv == ASSUME Inv, CallOnCpu PROVE Inv'
<1> USE NumCpusAssumption DEF cpuVars, moduleVars
<1>1. TypeOK /\ OrderInv /\ ObjectInv /\ AllCpuInv
  BY DEF Inv
<1>2. cpu \in Cpus /\ loader = "call" /\ pc[cpu] = "idle"
  BY <1>1 DEF CallOnCpu, TypeOK, OrderInv, Slots, Cpus
<1>3. CASE /\ loader' = "done" /\ result' = "failure" /\ UNCHANGED <<cpu, pc>>
  <2>1. UNCHANGED <<cpu, pc, ret, guards, reg, frame, stack, created, hv, gdt, vmcs>>
    BY <1>3 DEF CallOnCpu
  <2>2. AllCpuInv'
    BY <1>1, <2>1, LoaderOnly
  <2>3. TypeOK'
    BY <1>1, <1>3, <2>1 DEF TypeOK
  <2>4. OrderInv' /\ ObjectInv'
    BY <1>1, <1>2, <1>3, <2>1 DEF OrderInv, ObjectInv, ObjectOf
  <2> QED
    BY <2>2, <2>3, <2>4 DEF Inv
<1>4. CASE /\ loader' = "wait" /\ pc' = [pc EXCEPT ![cpu] = "entry"]
           /\ UNCHANGED <<cpu, result>>
  <2>1. UNCHANGED <<cpu, result, ret, guards, reg, frame, stack, created, hv, gdt, vmcs>>
    BY <1>4 DEF CallOnCpu
  <2>2. \A d \in Cpus : pc'[d] = IF d = cpu THEN "entry" ELSE pc[d]
    BY <1>1, <1>4 DEF TypeOK
  <2>3. TypeOK'
    <3>1. pc' \in [Cpus -> LaunchPcs \cup Launched \cup {"idle", "unwind", "returned", "fault"}]
      BY <1>1, <1>2, <1>4 DEF TypeOK
    <3> QED
      BY <1>1, <1>4, <2>1, <3>1 DEF TypeOK
  <2>4. OrderInv'
    BY <1>1, <1>2, <1>4, <2>1, <2>2 DEF OrderInv, TypeOK, Slots, Cpus
  <2>5. ObjectInv'
    BY <1>1, <1>2, <1>4, <2>1, <2>2 DEF ObjectInv, ObjectOf, Cpus
  <2>6. \A d \in Cpus \ {cpu} : CpuInv(d)'
    <3>1. \A d \in Cpus \ {cpu} : SameCpu(d)
      BY <2>1, <2>2 DEF SameCpu
    <3> QED
      BY <1>1, <3>1, SameCpuInv DEF AllCpuInv
  <2>7. \A d \in {cpu} : CpuInv(d)'
    <3>1. SUFFICES ASSUME NEW d \in Cpus, d = cpu PROVE CpuInv(d)'
      BY <1>2
    <3>2. CpuInv(d) /\ pc[d] = "idle" /\ pc'[d] = "entry"
      BY <1>1, <1>2, <2>2, <3>1 DEF AllCpuInv
    <3>3. reg[d] = OsRegisters(d) /\ guards[d] = {} /\ stack[d] = NoSlot
      BY <3>2 DEF CpuInv
    <3> QED
      BY <2>1, <3>2, <3>3 DEF CpuInv, GuardsAt
  <2> QED
    BY <2>3, <2>4, <2>5, <2>6, <2>7 DEF Inv, AllCpuInv
<1> QED
  BY <1>3, <1>4 DEF CallOnCpu, LoaderReturns

\* The loader moves on only from a CPU that has become a guest.
LEMMA JoinInv == ASSUME Inv, Join PROVE Inv'
<1> USE NumCpusAssumption DEF cpuVars, moduleVars
<1>1. TypeOK /\ OrderInv /\ ObjectInv /\ AllCpuInv
  BY DEF Inv
<1>2. AllCpuInv'
  BY <1>1, LoaderOnly DEF Join
<1>3. /\ cpu \in Cpus /\ loader = "wait" /\ pc[cpu] \in {"guest", "returned"} /\ CpuInv(cpu)
      /\ UNCHANGED <<pc, ret, guards, reg, frame, stack, created, hv, gdt, vmcs>>
  BY <1>1 DEF Join, OrderInv, AllCpuInv
<1>4. CASE loader' = "done" /\ result' = "failure" /\ UNCHANGED cpu
  <2>1. TypeOK'
    BY <1>1, <1>3, <1>4 DEF TypeOK
  <2>2. OrderInv' /\ ObjectInv'
    BY <1>1, <1>3, <1>4 DEF OrderInv, ObjectInv, ObjectOf
  <2> QED
    BY <1>2, <2>1, <2>2 DEF Inv
<1>5. CASE ret[cpu] = "success" /\ loader' = "call" /\ cpu' = cpu + 1 /\ UNCHANGED result
  <2>1. pc[cpu] = "guest"
    BY <1>3, <1>5 DEF CpuInv, Errors
  <2>2. cpu + 1 \in Slots /\ cpu \in Nat
    BY <1>3 DEF Cpus, Slots
  <2>3. TypeOK'
    BY <1>1, <1>3, <1>5, <2>2 DEF TypeOK
  <2>4. OrderInv'
    BY <1>1, <1>3, <1>5, <2>1, <2>2 DEF OrderInv, Cpus
  <2>5. /\ hv.host_cr3 = Host /\ hv.ept = Host /\ created
        /\ hv.available_stack_index = cpu + 1 /\ hv.next_virtual_processor = cpu + 2
    BY <1>1, <1>3, <2>1, <2>2 DEF ObjectInv, ObjectOf
  <2>6. cpu + 1 \in Cpus => pc[cpu + 1] = "idle"
    BY <1>1, <2>2 DEF OrderInv
  <2>7. ObjectInv'
    BY <1>3, <1>5, <2>2, <2>5, <2>6 DEF ObjectInv, ObjectOf
  <2> QED
    BY <1>2, <2>3, <2>4, <2>7 DEF Inv
<1> QED
  BY <1>4, <1>5 DEF Join, LoaderReturns

\* The load ends when all CPUs are guests.
LEMMA LoadDoneInv == ASSUME Inv, LoadDone PROVE Inv'
<1> USE NumCpusAssumption DEF cpuVars, moduleVars
<1>1. TypeOK /\ OrderInv /\ ObjectInv /\ AllCpuInv
  BY DEF Inv
<1>2. AllCpuInv'
  BY <1>1, LoaderOnly DEF LoadDone
<1>3. /\ loader' = "done" /\ result' = "success" /\ cpu = NumCpus /\ cpu' = cpu
      /\ UNCHANGED <<pc, ret, guards, reg, frame, stack, created, hv, gdt, vmcs>>
  BY DEF LoadDone, LoaderReturns
<1>4. TypeOK'
  BY <1>1, <1>3 DEF TypeOK
<1>5. OrderInv' /\ ObjectInv'
  BY <1>1, <1>3 DEF OrderInv, ObjectInv, ObjectOf, Cpus
<1> QED
  BY <1>2, <1>4, <1>5 DEF Inv

-----------------------------------------------------------------------------
(***************************************************************************)
(* The invariant.                                                          *)
(***************************************************************************)
\* A stuttering step preserves the invariant.
LEMMA StutterInv == ASSUME Inv, UNCHANGED vars PROVE Inv'
<1>1. UNCHANGED <<loader, cpu, result, cpuVars, moduleVars>>
  BY DEF vars, cpuVars, moduleVars
<1>2. AllCpuInv'
  BY <1>1, LoaderOnly DEF Inv
<1>3. TypeOK'
  BY <1>1 DEF Inv, TypeOK, cpuVars, moduleVars
<1>4. OrderInv' /\ ObjectInv'
  BY <1>1 DEF Inv, OrderInv, ObjectInv, ObjectOf, cpuVars, moduleVars
<1> QED
  BY <1>2, <1>3, <1>4 DEF Inv

\* The invariant is inductive.
LEMMA NextInv == Inv /\ [Next]_vars => Inv'
<1> SUFFICES ASSUME Inv, [Next]_vars PROVE Inv'
  OBVIOUS
<1>1. CASE LoaderStep
  BY <1>1, LoadElfInv, CallOnCpuInv, JoinInv, LoadDoneInv DEF LoaderStep
<1>2. ASSUME NEW c \in Cpus, LaunchStep(c) PROVE Inv'
  <2>1. CASE Entry(c) \/ InitializeRegisters(c) \/ InitializeIntermediateGdt(c)
    BY <2>1, EntryInv, InitializeRegistersInv, InitializeIntermediateGdtInv
  <2>2. CASE SwitchCr3(c) \/ InitializeVmx(c) \/ EnterRootMode(c)
    BY <2>2, SwitchCr3Inv, InitializeVmxInv, EnterRootModeInv
  <2>3. CASE SetupVmcs(c) \/ VmLaunch(c)
    BY <2>3, SetupVmcsInv, VmLaunchInv
  <2>4. CASE \/ InitializeHost(c) \/ InitializeEpt(c)
             \/ Vmxon(c) \/ Vmclear(c) \/ Vmptrld(c) \/ Vmlaunch(c)
    BY <2>4, FallibleStepInv
  <2> QED
    BY <1>2, <2>1, <2>2, <2>3, <2>4 DEF LaunchStep
<1>3. ASSUME NEW c \in Cpus, UnwindStep(c) PROVE Inv'
  BY <1>3, TurnOffVmxInv, RestoreCrInv, RestoreCr3Inv, RestoreGdtInv,
     RestoreInterruptsInv, ReturnErrorInv DEF UnwindStep
<1>4. ASSUME NEW c \in Cpus, VmExit(c) \/ VmResume(c) PROVE Inv'
  BY <1>4, VmExitInv, VmResumeInv
<1>5. CASE UNCHANGED vars
  BY <1>5, StutterInv
<1> QED
  BY <1>1, <1>2, <1>3, <1>4, <1>5 DEF Next, Finished

\* At every moment of a load the registers of each CPU are the ones its place
\* in the launch code calls for, and the shared object holds the values of the
\* one CPU that is launching.
THEOREM Invariance == Spec => []Inv
<1>1. Init => Inv
  BY InitInv
<1>2. Inv /\ [Next]_vars => Inv'
  BY NextInv
<1> QED
  BY <1>1, <1>2, PTL DEF Spec

-----------------------------------------------------------------------------
(***************************************************************************)
(* The properties.                                                         *)
(***************************************************************************)

\* Every variable keeps its type: no launch computes a slot outside the slots
\* of the CPUs, however many launches failed before.
THEOREM TypeCorrectness == Spec => []TypeOK
<1>1. Inv => TypeOK
  BY DEF Inv
<1> QED
  BY <1>1, Invariance, PTL

\* The slots CPU c holds are its own.
LEMMA OwnSlots ==
  ASSUME Inv, NEW c \in Cpus
  PROVE  /\ stack[c] \in {NoSlot, c} /\ reg[c].vmxon \in {NoSlot, c}
         /\ reg[c].vmcs \in {NoSlot, c}
         /\ pc[c] \in Launched => /\ reg[c].vmcs = c /\ stack[c] = c
                                  /\ vmcs[c].vpid = c + 1 /\ vmcs[c].host_stack = c
<1>1. CpuInv(c) /\ TypeOK
  BY DEF Inv, AllCpuInv
<1>2. pc[c] \in LaunchPcs \cup Launched \cup {"idle", "unwind", "returned", "fault"}
  BY <1>1 DEF TypeOK
<1>3. stack[c] \in {NoSlot, c}
  BY <1>1, <1>2 DEF CpuInv
<1>4. reg[c].vmxon \in {NoSlot, c} /\ reg[c].vmcs \in {NoSlot, c}
  BY <1>1, <1>2 DEF CpuInv, OsRegisters, UnderGuards, InRootMode, InGuest, InHandler
<1>5. pc[c] \in Launched => /\ reg[c].vmcs = c /\ stack[c] = c
                            /\ vmcs[c].vpid = c + 1 /\ vmcs[c].host_stack = c
  BY <1>1 DEF CpuInv, InGuest, InHandler, OwnVmcs
<1> QED
  BY <1>3, <1>4, <1>5

\* No two CPUs ever share a private stack, a VMXON region, a VMCS or a virtual
\* processor id, although launch_on_cpu and vm_launch take them all from
\* counters of one object.
THEOREM ResourcesAreOwn == Spec => []OwnResources
<1>1. Inv => OwnResources
  <2> SUFFICES ASSUME Inv PROVE OwnResources
    OBVIOUS
  <2>1. \A c \in Cpus : c + 1 # 0 /\ c # NoSlot /\ c \in Nat
    BY NumCpusAssumption DEF Cpus, NoSlot
  <2>2. \A c \in Cpus : pc[c] \in Launched =>
          /\ vmcs[reg[c].vmcs].vpid # 0
          /\ vmcs[reg[c].vmcs].host_stack = stack[c]
    BY <2>1, OwnSlots
  <2>3. ASSUME NEW c \in Cpus, NEW d \in Cpus, c # d
        PROVE  /\ stack[c] # NoSlot => stack[c] # stack[d]
               /\ reg[c].vmxon # NoSlot => reg[c].vmxon # reg[d].vmxon
               /\ reg[c].vmcs # NoSlot => reg[c].vmcs # reg[d].vmcs
    BY <2>1, <2>3, OwnSlots
  <2>4. ASSUME NEW c \in Cpus, NEW d \in Cpus, c # d, {pc[c], pc[d]} \subseteq Launched
        PROVE  vmcs[reg[c].vmcs].vpid # vmcs[reg[d].vmcs].vpid
    BY <2>1, <2>4, OwnSlots
  <2> QED
    BY <2>2, <2>3, <2>4 DEF OwnResources
<1> QED
  BY <1>1, Invariance, PTL

\* A machine with at most max_cpus CPUs never makes launch_on_cpu use a stack,
\* or initialize_vmx a region, past the end of the arrays.
THEOREM StorageSuffices ==
  ASSUME NumCpus =< MaxCpus
  PROVE  Spec => []InStorage
<1>1. Inv => InStorage
  <2>1. \A c \in Cpus : c < MaxCpus /\ NoSlot < MaxCpus
    BY NumCpusAssumption, MaxCpusAssumption DEF Cpus, NoSlot
  <2> QED
    BY <2>1, OwnSlots DEF InStorage
<1> QED
  BY <1>1, Invariance, PTL

\* Every guest runs with the page table, GDT, TR, control registers and
\* interrupt flag of its own CPU, although setup_vmcs takes them from members
\* that every launch overwrites.
THEOREM GuestRunsWithOwnState == Spec => []GuestStateIsOwn
<1>1. Inv => GuestStateIsOwn
  <2> SUFFICES ASSUME Inv, NEW c \in Cpus, pc[c] = "guest"
               PROVE  /\ reg[c].cr3 = Os(c)
                      /\ reg[c].cr = Adjusted(Os(c))
                      /\ reg[c].intr = CallerIf[c]
                      /\ GdtOwner(reg[c].gdtr) = c
                      /\ reg[c].tr = IF c \in HasTss THEN Os(c) ELSE reg[c].gdtr
                      /\ vmcs[reg[c].vmcs].ept = Host
                      /\ vmcs[reg[c].vmcs].host_cr3 = Host
    BY DEF GuestStateIsOwn
  <2>1. reg[c] = InGuest(c) /\ gdt[c] = c /\ vmcs[c] = OwnVmcs(c, c)
    BY DEF Inv, AllCpuInv, CpuInv
  <2>2. /\ reg[c].cr3 = Os(c) /\ reg[c].cr = Adjusted(Os(c)) /\ reg[c].intr = CallerIf[c]
        /\ reg[c].gdtr = GuestGdt(c) /\ reg[c].tr = GuestGdt(c) /\ reg[c].vmcs = c
    BY <2>1 DEF InGuest
  <2>3. GdtOwner(GuestGdt(c)) = c
    BY <2>1 DEF GdtOwner, GuestGdt, Os, Intermediate
  <2>4. vmcs[c].ept = Host /\ vmcs[c].host_cr3 = Host
    BY <2>1 DEF OwnVmcs
  <2> QED
    BY <2>2, <2>3, <2>4 DEF GuestGdt
<1> QED
  BY <1>1, Invariance, PTL

\* Interrupts are never enabled outside a guest while any of the tables of the
\* operating system is switched away: main's first guard is the last to run.
THEOREM InterruptsAreSafe == Spec => []InterruptSafety
<1>1. Inv => InterruptSafety
  <2> SUFFICES ASSUME Inv, NEW c \in Cpus, reg[c].intr = 1, pc[c] # "guest"
               PROVE  reg[c] = [OsRegisters(c) EXCEPT !.intr = 1]
    BY DEF InterruptSafety
  <2>1. CpuInv(c) /\ pc[c] \in LaunchPcs \cup Launched \cup {"idle", "unwind", "returned", "fault"}
    BY DEF Inv, AllCpuInv, TypeOK
  <2>2. pc[c] \in {"idle", "entry", "main", "unwind", "returned"}
    BY <2>1 DEF CpuInv, GuardsAt, UnderGuards, InRootMode, InHandler
  <2>3. CASE pc[c] \in {"idle", "entry", "returned"}
    BY <2>1, <2>3 DEF CpuInv, OsRegisters
  <2>4. CASE pc[c] = "main"
    <3>1. reg[c] = UnderGuards(c, {}, CallerIf[c])
      BY <2>1, <2>4 DEF CpuInv, GuardsAt
    <3> QED
      BY <3>1 DEF UnderGuards, OsRegisters
  <2>5. CASE pc[c] = "unwind"
    <3>1. guards[c] \in GuardPrefixes /\ reg[c] = UnderGuards(c, guards[c], 1)
      BY <2>1, <2>5 DEF CpuInv
    <3>2. guards[c] = {}
      BY <3>1 DEF UnderGuards, GuardPrefixes
    <3> QED
      BY <3>1, <3>2 DEF UnderGuards, OsRegisters
  <2> QED
    BY <2>2, <2>3, <2>4, <2>5
<1> QED
  BY <1>1, Invariance, PTL

\* A launch that returns an error code has undone everything it did to the
\* registers of its CPU, whichever step of main failed.
THEOREM FailureIsClean == Spec => []FailureRestores
<1>1. Inv => FailureRestores
  BY DEF Inv, AllCpuInv, CpuInv, FailureRestores
<1> QED
  BY <1>1, Invariance, PTL

\* No step of another CPU or of the loader changes the registers, the stack,
\* the VMCS or the intermediate GDT of a launched CPU: the invariant determines
\* all of them from the CPU's place alone, before the step and after it.
THEOREM LaunchedCpusAreIsolated == Spec => LaunchedIsIsolated
<1> DEFINE Isolated == \A c \in Cpus : pc[c] \in Launched /\ pc'[c] = pc[c] =>
          LET k == reg[c].vmcs
          IN  /\ reg'[c] = reg[c] /\ stack'[c] = stack[c]
              /\ vmcs'[k] = vmcs[k]
              /\ gdt'[k] = gdt[k]
<1>1. Inv /\ Inv' => Isolated
  <2> SUFFICES ASSUME Inv, Inv', NEW c \in Cpus, pc[c] \in Launched, pc'[c] = pc[c]
               PROVE  /\ reg'[c] = reg[c] /\ stack'[c] = stack[c]
                      /\ vmcs'[reg[c].vmcs] = vmcs[reg[c].vmcs]
                      /\ gdt'[reg[c].vmcs] = gdt[reg[c].vmcs]
    OBVIOUS
  <2>1. CpuInv(c) /\ CpuInv(c)' /\ reg[c].vmcs = c
    BY OwnSlots DEF Inv, AllCpuInv
  <2>2. reg'[c] = reg[c]
    BY <2>1 DEF CpuInv, InGuest, InHandler, GuestGdt, Os, Adjusted, Intermediate, Host
  <2>3. vmcs'[c] = vmcs[c] /\ stack'[c] = stack[c] /\ gdt'[c] = gdt[c]
    BY <2>1 DEF CpuInv, OwnVmcs, GuestGdt, Os, Adjusted, Intermediate, Host
  <2> QED
    BY <2>1, <2>2, <2>3
<1>2. Inv /\ [Next]_vars => [Isolated]_vars
  BY <1>1, NextInv
<1>3. Spec => [][Isolated]_vars
  BY <1>2, Invariance, PTL DEF Spec
<1> QED
  BY <1>3 DEF LaunchedIsIsolated

\* Before vmlaunch a launch has no result yet.
NoResultYet == \A c \in Cpus : pc[c] \in {"idle"} \cup (LaunchPcs \ {"vmlaunch"}) => ret[c] = "none"

\* What a fault of CPU c with result r and guards g may come from.
KnownFault(c, r, g) ==
    IF r \in Errors
    THEN c \notin HasTss /\ g = {"interrupts"}
    ELSE \/ r = "none" /\ "feature_control" \in MayFail
         \/ r = "success" /\ "vmlaunch" \in MayFail

\* CPU c goes to q with result r and guards g.
Moves(c, q, r, g) ==
    /\ pc' = [pc EXCEPT ![c] = q]
    /\ ret' = [ret EXCEPT ![c] = r]
    /\ guards' = [guards EXCEPT ![c] = g]
    /\ q # "idle"
    /\ q \in LaunchPcs \ {"vmlaunch"} => pc[c] \in LaunchPcs \ {"vmlaunch"} /\ r = ret[c]
    /\ q = "fault" => KnownFault(c, r, g)

\* A step of main on CPU c faults only in vmxon and vmlaunch.
LEMMA LaunchStepMoves ==
  ASSUME Inv, NoResultYet, NEW c \in Cpus, LaunchStep(c)
  PROVE  \E q, r, g : Moves(c, q, r, g)
<1>1. /\ ret = [ret EXCEPT ![c] = ret[c]] /\ guards = [guards EXCEPT ![c] = guards[c]]
  BY DEF Inv, TypeOK
<1>2. CASE Entry(c) \/ InitializeRegisters(c)
  <2>1. Entry(c) => Moves(c, "main", ret[c], guards[c])
    BY <1>1 DEF Entry, Goto, Moves
  <2>2. InitializeRegisters(c) =>
           Moves(c, IF c = 0 THEN "host" ELSE "gdt", ret[c], guards[c] \cup {"interrupts"})
    BY <1>1 DEF InitializeRegisters, Goto, PushGuard, Moves
  <2> QED
    BY <1>2, <2>1, <2>2
<1>3. CASE InitializeIntermediateGdt(c) \/ SwitchCr3(c)
  <2>1. InitializeIntermediateGdt(c) => Moves(c, "cr3", ret[c], guards[c] \cup {"gdt"})
    BY <1>1 DEF InitializeIntermediateGdt, Goto, PushGuard, Moves
  <2>2. SwitchCr3(c) =>
           Moves(c, IF c = 0 THEN "ept" ELSE "vmx", ret[c], guards[c] \cup {"cr3"})
    BY <1>1 DEF SwitchCr3, Goto, PushGuard, Moves
  <2> QED
    BY <1>3, <2>1, <2>2
<1>4. CASE InitializeVmx(c) \/ EnterRootMode(c)
  <2>1. InitializeVmx(c) => Moves(c, "cr", ret[c], guards[c])
    BY <1>1 DEF InitializeVmx, Goto, Moves
  <2>2. EnterRootMode(c) => Moves(c, "vmxon", ret[c], guards[c] \cup {"cr"})
    BY <1>1 DEF EnterRootMode, Goto, PushGuard, Moves
  <2> QED
    BY <1>4, <2>1, <2>2
<1>5. CASE SetupVmcs(c) \/ VmLaunch(c)
  <2>1. SetupVmcs(c) => Moves(c, "launch", ret[c], guards[c])
    BY <1>1 DEF SetupVmcs, Goto, Moves
  <2>2. VmLaunch(c) => Moves(c, "vmlaunch", "success", guards[c])
    BY <1>1 DEF VmLaunch, Goto, Moves
  <2> QED
    BY <1>5, <2>1, <2>2
<1>6. CASE InitializeHost(c) \/ InitializeEpt(c)
  BY <1>1, <1>6 DEF InitializeHost, InitializeEpt, Fail, Goto, Moves
<1>7. CASE Vmclear(c) \/ Vmptrld(c)
  BY <1>1, <1>7 DEF Vmclear, Vmptrld, Fail, Goto, Moves
<1>8. CASE Vmxon(c)
  <2>1. pc[c] = "vmxon" /\ ret[c] = "none" /\ "none" \notin Errors
    BY <1>8 DEF Vmxon, Fail, Fault, Goto, NoResultYet, Errors
  <2> QED
    BY <1>1, <1>8, <2>1 DEF Vmxon, Fail, Fault, Goto, PushGuard, Moves, KnownFault
<1>9. CASE Vmlaunch(c)
  <2>1. pc[c] = "vmlaunch" /\ CpuInv(c)
    BY <1>9 DEF Vmlaunch, EnterGuest, Fault, Goto, Inv, AllCpuInv
  <2>2. ret[c] = "success" /\ "success" \notin Errors
    BY <2>1 DEF CpuInv, Errors
  <2> QED
    BY <1>1, <1>9, <2>2 DEF Vmlaunch, EnterGuest, Fault, Goto, Moves, KnownFault
<1> QED
  BY <1>2, <1>3, <1>4, <1>5, <1>6, <1>7, <1>8, <1>9 DEF LaunchStep

\* vmxoff runs before the guard that clears CR4.VMXE, so of the guards only
\* load_os_gdt faults, and only where the launch had to add a TSS.
LEMMA UnwindStepMoves ==
  ASSUME Inv, NEW c \in Cpus, UnwindStep(c)
  PROVE  \E q, r, g : Moves(c, q, r, g)
<1>1. /\ ret = [ret EXCEPT ![c] = ret[c]] /\ guards = [guards EXCEPT ![c] = guards[c]]
      /\ pc = [pc EXCEPT ![c] = pc[c]]
  BY DEF Inv, TypeOK
<1>2. pc[c] = "unwind"
  BY DEF UnwindStep, TurnOffVmx, RestoreCr, RestoreCr3, RestoreGdt, RestoreInterrupts,
         ReturnError, Unwind, Goto
<1>3. CpuInv(c) /\ guards[c] \in GuardPrefixes /\ ret[c] \in Errors
  BY <1>2 DEF Inv, AllCpuInv, CpuInv
<1>4. CASE TurnOffVmx(c) \/ RestoreCr3(c) \/ RestoreInterrupts(c)
  BY <1>1, <1>2, <1>4 DEF TurnOffVmx, RestoreCr3, RestoreInterrupts, Unwind, Moves
<1>5. CASE ReturnError(c)
  <2>1. Moves(c, "returned", ret[c], guards[c])
    BY <1>1, <1>5 DEF ReturnError, Goto, Moves
  <2> QED
    BY <2>1
<1>6. CASE RestoreCr(c)
  <2>1. guards[c] = {"interrupts", "gdt", "cr3", "cr"}
    BY <1>3, <1>6, Innermost DEF RestoreCr, Unwind
  <2>2. reg[c].vmxon = NoSlot
    BY <1>2, <1>3, <2>1 DEF CpuInv, UnderGuards
  <2> QED
    BY <1>1, <1>2, <1>6, <2>2 DEF RestoreCr, Unwind, Moves
<1>7. CASE RestoreGdt(c)
  <2>1. "gdt" \in guards[c] /\ guards[c] = {"interrupts", "gdt"}
    BY <1>3, <1>7, Innermost DEF RestoreGdt, Unwind
  <2>2. c = cpu
    BY <1>2, LaunchingIsCurrent DEF Inv
  <2>3. hv.guest_tr = GuestGdt(c) /\ hv.os_tr = Os(c)
    BY <1>2, <2>1, <2>2 DEF Inv, ObjectInv, ObjectOf
  <2>4. hv.guest_tr # hv.os_tr => c \notin HasTss
    BY <2>3 DEF GuestGdt
  <2>5. guards' = [guards EXCEPT ![c] = {"interrupts"}] /\ UNCHANGED ret
    BY <1>7, <2>1 DEF RestoreGdt, Unwind
  <2>6. KnownFault(c, ret[c], {"interrupts"}) \/ UNCHANGED pc
    BY <1>3, <1>7, <2>4 DEF RestoreGdt, KnownFault
  <2>7. \/ UNCHANGED pc
        \/ pc' = [pc EXCEPT ![c] = "fault"] /\ KnownFault(c, ret[c], {"interrupts"})
    BY <1>7, <2>6 DEF RestoreGdt, Fault, Goto
  <2> QED
    BY <1>1, <1>2, <2>5, <2>7 DEF Moves
<1> QED
  BY <1>4, <1>5, <1>6, <1>7 DEF UnwindStep

\* A fault, and a CPU without a result, stay what they are in the steps of others.
LEMMA NextFaults ==
  ASSUME Inv, NoOtherFault, NoResultYet, [Next]_vars
  PROVE  NoOtherFault' /\ NoResultYet'
<1>1. ASSUME NEW c \in Cpus, NEW q, NEW r, NEW g, Moves(c, q, r, g)
      PROVE  NoOtherFault' /\ NoResultYet'
  <2>1. /\ \A d \in Cpus : d # c => pc'[d] = pc[d] /\ ret'[d] = ret[d] /\ guards'[d] = guards[d]
        /\ pc'[c] = q /\ ret'[c] = r /\ guards'[c] = g
    BY <1>1 DEF Moves, Inv, TypeOK
  <2>2. NoOtherFault'
    BY <1>1, <2>1 DEF Moves, KnownFault, NoOtherFault
  <2>3. NoResultYet'
    BY <1>1, <2>1 DEF Moves, NoResultYet
  <2> QED
    BY <2>2, <2>3
<1>2. ASSUME NEW c \in Cpus, LaunchStep(c) \/ UnwindStep(c)
      PROVE  NoOtherFault' /\ NoResultYet'
  BY <1>1, <1>2, LaunchStepMoves, UnwindStepMoves
<1>3. ASSUME NEW c \in Cpus, VmExit(c) \/ VmResume(c)
      PROVE  NoOtherFault' /\ NoResultYet'
  <2>1. ret = [ret EXCEPT ![c] = ret[c]] /\ guards = [guards EXCEPT ![c] = guards[c]]
    BY DEF Inv, TypeOK
  <2>2. \E q : Moves(c, q, ret[c], guards[c])
    BY <1>3, <2>1 DEF VmExit, VmResume, EnterGuest, Goto, Moves
  <2> QED
    BY <1>1, <2>2
<1>4. CASE CallOnCpu
  <2>1. \A c \in Cpus : pc'[c] = pc[c] \/ (pc[c] = "idle" /\ pc'[c] = "entry")
    <3>1. cpu \in Cpus /\ pc[cpu] = "idle"
      BY <1>4, NumCpusAssumption DEF CallOnCpu, Inv, TypeOK, OrderInv, Slots, Cpus
    <3> QED
      BY <1>4, <3>1 DEF CallOnCpu, Inv, TypeOK
  <2>2. UNCHANGED <<ret, guards>>
    BY <1>4 DEF CallOnCpu
  <2> QED
    BY <2>1, <2>2 DEF NoOtherFault, NoResultYet
<1>5. CASE LoadElf \/ Join \/ LoadDone \/ UNCHANGED vars
  <2>1. UNCHANGED <<pc, ret, guards>>
    BY <1>5 DEF LoadElf, Join, LoadDone, cpuVars, vars
  <2> QED
    BY <2>1 DEF NoOtherFault, NoResultYet
<1> QED
  BY <1>2, <1>3, <1>4, <1>5 DEF Next, LoaderStep, Finished

\* Whatever fails, a CPU is lost only to a vmxon that the firmware forbids, to a
\* vmlaunch that the processor rejects, and to load_os_gdt where there is no TSS.
THEOREM FaultsAreKnown == Spec => []NoOtherFault
<1>1. Init => NoOtherFault /\ NoResultYet
  BY DEF Init, NoOtherFault, NoResultYet
<1>2. Inv /\ NoOtherFault /\ NoResultYet /\ [Next]_vars => NoOtherFault' /\ NoResultYet'
  BY NextFaults
<1> QED
  BY <1>1, <1>2, Invariance, PTL DEF Spec

\* Where every CPU has a TSS, VMX is allowed by the firmware and vmlaunch does
\* not fail, no launch ends in a fault.
THEOREM LaunchesDoNotFault ==
  ASSUME HasTss = Cpus, MayFail \cap {"feature_control", "vmlaunch"} = {}
  PROVE  Spec => []NoFault
<1>1. NoOtherFault => NoFault
  BY DEF NoOtherFault, NoFault
<1> QED
  BY <1>1, FaultsAreKnown, PTL

-----------------------------------------------------------------------------
(***************************************************************************)
(* Refinement.                                                             *)
(***************************************************************************)

\* The loader has a result exactly when it has returned.
ResultInv == loader # "done" <=> result = "none"

Virtualized == {c \in Cpus : pc[c] \in Launched}

\* A step of CPU c leaves the loader alone, and virtualizes c if it is the
\* vmlaunch instruction; any other step keeps it in or out of its VM.
LEMMA CpuStepEffect ==
  ASSUME Inv, NEW c \in Cpus,
         LaunchStep(c) \/ UnwindStep(c) \/ VmExit(c) \/ VmResume(c)
  PROVE  /\ UNCHANGED <<loader, cpu, result>>
         /\ \E q : /\ pc' = [pc EXCEPT ![c] = q]
                   /\ \/ pc[c] \in Launched <=> q \in Launched
                      \/ pc[c] = "vmlaunch" /\ q = "guest"
<1> USE DEF loaderVars
<1>0. pc = [pc EXCEPT ![c] = pc[c]]
  BY DEF Inv, TypeOK
<1>1. CASE \/ Entry(c) \/ InitializeRegisters(c) \/ InitializeIntermediateGdt(c)
           \/ SwitchCr3(c) \/ InitializeVmx(c) \/ EnterRootMode(c) \/ SetupVmcs(c)
           \/ VmLaunch(c)
  <2>1. CASE Entry(c) \/ InitializeRegisters(c)
    BY <2>1 DEF Entry, InitializeRegisters, Goto
  <2>2. CASE InitializeIntermediateGdt(c) \/ SwitchCr3(c)
    BY <2>2 DEF InitializeIntermediateGdt, SwitchCr3, Goto
  <2>3. CASE InitializeVmx(c) \/ EnterRootMode(c)
    BY <2>3 DEF InitializeVmx, EnterRootMode, Goto
  <2>4. CASE SetupVmcs(c) \/ VmLaunch(c)
    BY <2>4 DEF SetupVmcs, VmLaunch, Goto
  <2> QED
    BY <1>1, <2>1, <2>2, <2>3, <2>4
<1>2. CASE InitializeHost(c) \/ InitializeEpt(c) \/ Vmclear(c) \/ Vmptrld(c) \/ Vmxon(c)
  <2>1. CASE InitializeHost(c) \/ InitializeEpt(c)
    BY <2>1 DEF InitializeHost, InitializeEpt, Fail, Goto
  <2>2. CASE Vmclear(c) \/ Vmptrld(c) \/ Vmxon(c)
    BY <2>2 DEF Vmclear, Vmptrld, Vmxon, Fail, Fault, Goto
  <2> QED
    BY <1>2, <2>1, <2>2
<1>3. CASE Vmlaunch(c) \/ VmExit(c) \/ VmResume(c)
  BY <1>3 DEF Vmlaunch, VmExit, VmResume, EnterGuest, Fault, Goto
<1>4. CASE UnwindStep(c)
  <2>1. CASE TurnOffVmx(c) \/ RestoreCr3(c) \/ RestoreInterrupts(c)
    BY <1>0, <2>1 DEF TurnOffVmx, RestoreCr3, RestoreInterrupts, Unwind
  <2>2. CASE RestoreCr(c) \/ RestoreGdt(c) \/ ReturnError(c)
    BY <1>0, <2>2 DEF RestoreCr, RestoreGdt, ReturnError, Unwind, Fault, Goto
  <2> QED
    BY <1>4, <2>1, <2>2 DEF UnwindStep
<1> QED
  BY <1>1, <1>2, <1>3, <1>4 DEF LaunchStep

\* The loader's result is set when it returns, and only then.
LEMMA NextResultInv == Inv /\ ResultInv /\ [Next]_vars => ResultInv'
<1> SUFFICES ASSUME Inv, ResultInv, [Next]_vars PROVE ResultInv'
  OBVIOUS
<1>1. CASE LoaderStep
  BY <1>1 DEF ResultInv, LoaderStep, LoadElf, CallOnCpu, Join, LoadDone, LoaderReturns
<1>2. ASSUME NEW c \in Cpus, LaunchStep(c) \/ UnwindStep(c) \/ VmExit(c) \/ VmResume(c)
      PROVE  ResultInv'
  BY <1>2, CpuStepEffect DEF ResultInv
<1>3. CASE UNCHANGED vars
  BY <1>3 DEF ResultInv, vars
<1> QED
  BY <1>1, <1>2, <1>3 DEF Next, Finished

\* Every step of a load virtualizes the next CPU, ends the load, or is
\* invisible to the operating system.
LEMMA StepImplements ==
  ASSUME Inv, ResultInv, [Next]_vars
  PROVE  [Abstract!Next]_<<Virtualized, result>>
<1> USE NumCpusAssumption
<1>1. CASE LoaderStep
  <2>1. CASE LoadDone
    <3>1. Virtualized = Cpus
      BY <2>1 DEF LoadDone, Inv, OrderInv, Virtualized, Cpus
    <3>2. UNCHANGED Virtualized /\ result = "none" /\ result' = "success"
      BY <2>1 DEF LoadDone, LoaderReturns, ResultInv, cpuVars, Virtualized
    <3> QED
      BY <3>1, <3>2 DEF Abstract!Next, Abstract!Succeed, Abstract!Cpus, Cpus, Virtualized
  <2>2. CASE LoadElf \/ Join
    <3>1. UNCHANGED Virtualized
      BY <2>2 DEF LoadElf, Join, cpuVars, Virtualized
    <3>2. result = "none" /\ result' \in {"none", "failure"}
      BY <2>2 DEF LoadElf, Join, LoaderReturns, ResultInv
    <3> QED
      BY <3>1, <3>2 DEF Abstract!Next, Abstract!Fail, Virtualized
  <2>3. CASE CallOnCpu
    <3>1. cpu \in Cpus /\ pc[cpu] = "idle" /\ TypeOK
      BY <2>3 DEF CallOnCpu, Inv, TypeOK, OrderInv, Slots, Cpus
    <3>2. UNCHANGED Virtualized
      BY <2>3, <3>1 DEF CallOnCpu, TypeOK, Virtualized
    <3>3. result = "none" /\ result' \in {"none", "failure"}
      BY <2>3 DEF CallOnCpu, LoaderReturns, ResultInv
    <3> QED
      BY <3>2, <3>3 DEF Abstract!Next, Abstract!Fail, Virtualized
  <2> QED
    BY <1>1, <2>1, <2>2, <2>3 DEF LoaderStep
<1>2. ASSUME NEW c \in Cpus, LaunchStep(c) \/ UnwindStep(c) \/ VmExit(c) \/ VmResume(c)
      PROVE  [Abstract!Next]_<<Virtualized, result>>
  <2>1. PICK q : /\ pc' = [pc EXCEPT ![c] = q]
                 /\ \/ pc[c] \in Launched <=> q \in Launched
                    \/ pc[c] = "vmlaunch" /\ q = "guest"
    BY <1>2, CpuStepEffect
  <2>2. UNCHANGED <<loader, cpu, result>> /\ TypeOK /\ OrderInv
    BY <1>2, CpuStepEffect DEF Inv
  <2>3. CASE pc[c] \in Launched <=> q \in Launched
    <3>1. UNCHANGED Virtualized
      BY <2>1, <2>2, <2>3 DEF TypeOK, Virtualized
    <3> QED
      BY <2>2, <3>1
  <2>4. CASE pc[c] = "vmlaunch" /\ q = "guest"
    <3>1. c = cpu /\ loader = "wait"
      BY <2>2, <2>4, LaunchingIsCurrent
    <3>2. Virtualized = 0 .. c - 1
      <4>1. \A d \in Cpus : pc[d] \in Launched <=> d < c
        BY <2>2, <2>4, <3>1 DEF OrderInv, Cpus
      <4> QED
        BY <4>1 DEF Virtualized, Cpus
    <3>3. Virtualized' = 0 .. c
      <4>1. \A d \in Cpus : pc'[d] \in Launched <=> d < c \/ d = c
        BY <2>1, <2>2, <2>4, <3>1 DEF OrderInv, TypeOK, Cpus
      <4> QED
        BY <4>1 DEF Virtualized, Cpus
    <3>4. result = "none" /\ result' = "none"
      BY <2>2, <3>1 DEF ResultInv
    <3> QED
      BY <3>2, <3>3, <3>4 DEF Abstract!Next, Abstract!Virtualize, Abstract!Cpus, Cpus, Virtualized
  <2> QED
    BY <2>1, <2>3, <2>4
<1>3. CASE UNCHANGED vars
  BY <1>3 DEF vars, Virtualized
<1> QED
  BY <1>1, <1>2, <1>3 DEF Next, Finished

\* The launch protocol implements Virtualization: CPUs
\* become guests one after the other and for ever, and zpp_load_elf returns 0
\* only when all of them are, whatever fails and however the guests interleave.
THEOREM LoadRefinesVirtualization == Spec => ImplementsVirtualization
<1>1. Init => Abstract!Init
  BY DEF Init, Abstract!Init
<1>2. Init => ResultInv
  BY DEF Init, ResultInv
<1>3. Inv /\ ResultInv /\ [Next]_vars => [Abstract!Next]_<<Virtualized, result>>
  BY StepImplements
<1>4. Spec => []ResultInv
  BY <1>2, NextResultInv, Invariance, PTL DEF Spec
<1>5. Spec => Abstract!Init /\ [][Abstract!Next]_<<Virtualized, result>>
  BY <1>1, <1>3, <1>4, Invariance, PTL DEF Spec
<1> QED
  BY <1>5, PTL DEF ImplementsVirtualization, Abstract!Spec, Virtualized

=============================================================================
