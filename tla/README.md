# A verification of zpp_hypervisor

zpp_hypervisor is a thin hypervisor for Intel processors: a
loader (Linux module, Windows driver or UEFI application) puts the hypervisor's
ELF file into memory and calls its entry point on every CPU; each call turns the
running operating system on that CPU into a guest and returns to it. This
directory holds TLA+ models of it, TLC configurations, and TLAPS proofs.
Paths in this file are relative to `src/`; `H` is
`hypervisor/src/hypervisor/hypervisor.cpp`.

## The system

| part | state | operations | interacts with |
|---|---|---|---|
| loader, `loader/src/main.cpp` | loop variable, result | `zpp_load_elf`: load the ELF file, call the entry point on CPU 0, 1, ... and stop at the first failure | `call_on_cpu` of the OS loaders; the entry point |
| OS loaders, `linux_loader`, `windows_loader` | affinity of the loading thread | `number_of_cpus`, `call_on_cpu`, `allocate_rwx` | block until the entry point returns on the CPU |
| UEFI loader, `uefi_loader` | an event, a result on the loader's stack, pool memory | `call_on_cpu` through the MP services; afterwards look for a boot loader and start it | firmware services, an application processor |
| entry, `hypervisor/src/hypervisor/main.cpp`, `state.cpp` | the `created` flag | `_start` captures the caller's context, `create_once` constructs the global object | `launch_on_cpu` |
| launch, `H` | one object for all CPUs: captured registers, addresses, two slot counters, per-CPU arrays; the registers of the CPU; scope guards | `launch_on_cpu`, `main` and the steps it calls, undone by the guards on an error | all of the below |
| contexts, `main.cpp`, `asm.cpp`, `asm.h:256-376` | contexts on the caller's stack, the private stack and `host_vm_launch_stack` | capture, copy, redirect, restore | launch, VM exit handler |
| VM exit handler, `H:965`, `vm_exit_entry.cpp` | VMCS, the stack and contexts of the launch | cpuid, xsetbv, invd; advance rip; `vmresume` | runs on launched CPUs while others are launched |
| EPT, `H:329-533` | `epd`, `ept`, `module_physical_to_virtual` | `initialize_ept`, `protect_module`, `unprotect_guest_memory` | MTRRs, host page table, the map |
| MTRRs, `H:285` | `mtrrs` | `initialize_mtrrs` | EPT memory types |
| page tables, `page_table.cpp`, `os_page_table.cpp`, `detail/page_table.h` | a pool of tables, their own mapping | `map_from`, `map_self`, `virtual_to_physical` | OS page table walk through `physical_to_virtual` |
| `small_map.h` | an array of pairs sorted by key | `emplace`, `erase`, `find`, moves and copies | `module_physical_to_virtual` |
| `elf_file.h` | program headers | `load`: map segments, relocate | loader; `elf_image_base` |
| segments, `segment_descriptor.h`, `H:123-269` | the host GDT, an intermediate GDT and a TSS per CPU | build, copy, add a TSS, load | launch, VMCS |
| VMCS, `vmcs.h`, `msr.h`, `H:613-776` | guest state, host state, controls | `setup_vmcs`, `adjust_msr` | vmlaunch, VM exits |
| assembly wrappers | none | one instruction each | launch, handler |

What is hard here, and what the properties are about:

* **one object, many launches.** Every launch overwrites the members that hold
  the captured registers; they are read again when the VMCS is filled and when a
  guard undoes a step. Slots come from two counters that advance at different
  moments.
* **failures in the middle.** cr0, cr4, cr3, GDTR, TR, the interrupt flag and VMX
  operation are switched one after the other, and any of five steps may fail.
* **concurrency.** A launched CPU takes VM exits on shared data while the next CPU
  is launched; the loader's own thread is a guest by then.
* **control passes through saved contexts.** One call of `capture_context` returns
  once for the launch and once for every VM exit; the caller's context is read for
  the VMCS and redirected to `vmlaunch` within a few lines.
* **the hypervisor maps itself** with a page table that is part of what it maps.
* **one chance to be right.** Descriptors, selectors, limits, access rights and
  controls are written to the VMCS without a test, and the processor either refuses
  all of it or runs with it.
* **the UEFI loader shares its stack** with the application processor it starts, and
  every firmware service it uses may fail between two others.
* **the module protects itself** with tables that are pages of the module, whose
  physical places the operating system chose.

`PROJECT.json` lists these hazards with their lines. Some more are in the code and out
of the models' sight: the wrappers of vmwrite and the other VMX instructions test the
carry flag and not the zero flag (`intel/asm.h:104`); cr0 and cr4 get read shadows but no
guest/host mask, so the guest sees CR4.VMXE (`H:757`); instructions whose secondary
control the program does not know stay disabled in the guest although cpuid reports
them (`H:635`). Those that are assumptions of a model are stated with it below.

## Modules

* `Virtualization`: what a load promises. CPUs become virtual in order and for
  ever; success is reported only when all CPUs are virtual.
* `Launch`: the loader, the launch on every CPU, VM exits, and unwinding. One
  action per step of `main` and `enter_root_mode` that can fail or that another
  CPU could observe; one action per scope guard.
* `MCLaunch`: its instances. `LaunchProofs`: its proofs.
* `Ept`: building the EPT, one action per iteration of the loops over the
  module's pages. `MCEpt`: its instance. `EptProofs`: its proofs.
  It begins with `initialize_mtrrs`, one action per register, whose ranges give
  the EPT its memory types.
* `Guest`: what a CPU promises the operating system whose registers it takes over.
* `GuestContext`: the registers and saved contexts of one CPU, from `_start` through
  every VM exit. `MCGuestContext`: its instance. `GuestContextProofs`: its proofs.
* `KeyedMap`: a map of bounded capacity. `SmallMap`: `small_map`, with the binary
  search one action per iteration. `SmallMapProofs`: its proofs.
* `PageTable`: the host page table, one action per page mapped, and the translation
  of the operating system's. `MCPageTable`: its instances. `PageTableProofs`: its proofs.
* `ElfFile`: loading the hypervisor's file, one action per segment and relocation.
  `MCElfFile`: its instances. `ElfFileProofs`: its proofs.
* `Segments`: descriptors and GDTs. `VmEntry`: the values of one CPU's launch, from
  the capture of its registers to the VMCS, VM entries and exits. `MCVmEntry`: its
  instances. `VmEntryProofs`: its proofs.
* `UefiLoader`: the UEFI application, composed with `ElfFile` and shown to implement
  `Virtualization`. `MCUefiLoader`: its instance. `UefiLoaderProofs`: its proofs.

### Launch

Values of machine registers are represented by where they come from: `Os(c)` is
whatever the operating system had on CPU c, `Adjusted` adds the bits VMX needs,
`Intermediate(k)` is a table in slot k of `unprotected_memory`, `Host` is the
hypervisor's own table. `cr` stands for cr0 and cr4, which are always handled
together. `hv` holds the members of `g_state.hypervisor` that a launch writes,
under their names. `guards[c]` is the set of active scope guards, `Rank` their
declaration order, and `Unwind` runs the innermost one; the guard on cr0/cr4
belongs to `enter_root_mode`, which cancels it when it succeeds, and main takes
over the one that turns VMX off.

The environment is in the constants. `HasTss` is the set of CPUs whose TR selects
a present TSS (all of them under Linux and Windows, none in UEFI), `CallerIf` the
interrupt flags of the callers, `MayFail` the operations that may fail. Three
outcomes are faults, after which the CPU does nothing more: vmxon where
IA32_FEATURE_CONTROL forbids it (nothing reads that register), a failing
vmlaunch, and `ltr` of a selector without a TSS in `load_os_gdt`. A fault of
clearing CR4.VMXE in VMX operation is modelled and shown not to happen.

`call_on_cpu` blocks until the entry point has returned on its CPU (the thread
migrates there, or waits for the application processor), so the loader is a
sequential process; guests run concurrently with it and with each other. A VM
exit is the hardware's exchange of guest and host state plus `vm_exit_entry`; the
handler is one step, because it touches only its own VMCS and stack. The handler
also returns if the exit reason cannot be read, which needs a CPU without a
current VMCS; `OwnResources` excludes that. Registers the handler changes for the
guest (rax, rbx, ... and XCR0) are in GuestContext.

### GuestContext

The processor is its general registers, the interrupt flag, the code segment, the
GDT in use, CR4.OSXSAVE and XCR0. A word is the set of its bits, so that truncation
to 32 bits, `|` and `<<` are set operations. `regs.rip` is the program counter of
the model as well: a place in the hypervisor's code is a negative number, and control
moves by restoring a context whose rip is that place. Contexts are kept by their
address, counted in words of 8 bytes, with the offsets of the assembly. Code the
compiler produced leaves `Clobbered` in the registers, so a value the guest gets back
can only come from a saved context. `trapped` is a history variable for the
refinement mapping: the registers the operating system had when the CPU entered the
hypervisor.

Assumed of guests: rax has zeros in its upper half at cpuid and xsetbv (the handler
compares and joins all 64 bits, the instructions read eax), and the operand of xsetbv
is one the processor accepts (otherwise it faults in the handler; that branch is in
`HandleXsetbv`). Only exits that an instruction causes are modelled: the handler adds
the instruction length to rip for every exit, and the length is undefined for an EPT
violation or an INIT signal. The upper halves of ymm registers are not saved by the
code and not in the model, nor are caches, which invd discards with whatever the
handler wrote.

### SmallMap

A slot of the storage holds a pair or `Raw`. `emplace` does not test the capacity:
its one caller does (`H:99`), and that is the guard of `EmplaceCall`. The move
assignment does not compile when it is used (`small_map.h:167` applies `->` to a pair)
and copy assignment uses it: neither is modelled. The copy constructor loops up to the
size of the object it constructs, which is 0, and so copies nothing although its
comment says "Copy construct a small map from another one". The model does as the code
does, and `KeyedMap` as the comment says: there a copy has the pairs of the other map.
`CopiesPairs` says whether the caller copies a map that holds pairs. No caller in the
repository does, so `small_map` checks the refinement without such copies, and
`small_map_copy` shows that it fails with them.

### PageTable

Addresses are page numbers. The object's tables are pages of the module; the
operating system's page table is a function from the pages of the module to the entry
the walk ends at, with the size of page it maps. `Walks` is the processor's walk with
`host_cr3`, through physical memory; `Translate` is the object's, which finds its
tables without looking at their entries.

### ElfFile

Memory consists of cells that can be read as a word or as an entry of a relocation
table, as the code casts addresses. Files have a read-only segment with the table and
a writable one, not aligned to a page, with the relocated words and memory that is not
in the file. The accessor `dynamic_program_header` returns the first program header;
nothing uses it.
`elf_image_base`, which searches memory for the file's magic number, is not modelled.

### Segments and VmEntry

`Launch` says whose tables a register has, `VmEntry` what is in them. An entry of a
GDT is the record of its fields; `upper` is its meaning as the second half of a system
descriptor, and `Unrelated` stands for the bits of an entry that is not one. The units
are constants: 2^32, the page, the 2^16 of a limit and the 2^13 entries of a GDT, so
that selectors wrap and limits overflow where they do in the code. An operating
system is its GDT, its selectors, its FS and GS base and its cr0 and cr4 bits (one set
of bits for both); a processor is the controls and control register bits it allows
and demands, the VMX MSRs it has, and whether it drops the reserved bits of the access
rights at vmwrite, on which the manual leaves it free. Registers that no code computes
with are names. What vmlaunch and iretq check, what ltr does and what entries and exits
load and store is the processor's; these definitions are marked external in the map.

The steps are those of `main` on the first CPU, in its order; a step of `Launch` that
does not touch these values is left out. `MainFails` stands for every failure of
`enter_root_mode`. `rejected` is a vmlaunch that fails: the wrapper then returns on the
caller's stack with the host's cr3, which `Launch` counts among the faults.

What the checks had to except, and so what the code relies on:

* the processor drops the reserved bits of access rights: `vmx_access_rights` leaves
  the upper bits of the limit in them (`segment_descriptor.h:299`);
* the operating system's GDT has room for a TSS if it has none (`H:236`);
* the processor has all MSRs up to 0x491 (`H:276`);
* a limit in pages is written without scaling it (`H:682`); 64 bit code does not use
  limits of these segments;
* the SYSENTER fields are not written, and the debug registers are not kept over an
  exit (the load and save controls are not asked for);
* no segment register has a selector of the LDT: `from_memory` does not clear the table
  indicator (`segment_descriptor.h:66`).

### UefiLoader

The state of `ElfFile` is part of it: `elf.load` takes its steps inside
`zpp_load_elf`. The loader's processor and the application processor are two
processes. StartupThisAP is called in blocking mode (no event, no timeout), so the
firmware returns when the AP's procedure has; the event is signaled by then. Any of the
processors may be the one that runs the loader and any others may be disabled; the code
takes CPU 0 for the loader's. The entry point returns 0 or an error or never returns:
what happens in it is `Launch`. Every service may fail. `file_device_path` stores a
pointer in a smaller variable and uses the variable as the path
(`uefi_loader/src/main.cpp:262-274`); the model lets it end with any path or none.
SignalEvent is a boot service that UEFI allows only on the loader's processor; it is
taken to work. Images that are not boot loaders stay loaded, and the buffer of the
handles stays allocated; `NothingLeaks` excepts the buffer, and images are not counted.

### Ept

A physical page is a large page and an offset. The four access bits are written
together and are one bit. `physical`, the place of each page of the module, is any
injective function. The processor's walk (`Entry`) finds a table by its physical
address, the code by looking that address up in `module_physical_to_virtual`.
The module is assumed to lie below the 512 GB that the directories map, and the
processor to have at most the 8 MTRRs that fit into `mtrrs`: the code tests
neither. Masks are ones above zeros and bases aligned, as the processor requires of its
software (`RangeAssumption`); a valid register with a zero mask, which by the rule quoted
in the code covers all memory, is left out, because `initialize_mtrrs` computes size 0 for
it. For these masks `x & mask` is `x` without its remainder (`Masked`), which is what the
proofs use; `MCEpt` has TLC compare it with the bitwise `&`. Sizes are rounded to pages by
`elf_file`, so `module_size / page_size` is exact.

## Model checking

| run | instance | checks |
|---|---|---|
| `launch` | 4 CPUs for `max_cpus` of 4, the first and the last with a TSS, the last called with interrupts disabled; anything may fail or fault | `TypeOK`; `OwnResources`: stacks, VMXON regions, VMCSs and virtual processor ids are never shared; `InStorage`: slots lie inside the arrays; `GuestStateIsOwn`: every guest has its own CPU's registers and tables; `InterruptSafety`: interrupts are only enabled on the OS's tables; `FailureRestores`: a launch that fails has undone everything; `NoOtherFault`: a CPU is lost only to the three faults listed under Launch; `LaunchedIsIsolated`: nobody disturbs a launched CPU; `ImplementsVirtualization`, the refinement; `LoadSucceeds`: a load ends in success for good unless a step fails or faults; `ExitsResume`. The system stops only when the load has ended or a CPU has faulted (`Finished`); deadlock is checked |
| `ept_placements` | 3 large pages of 2 pages, a module of 4 pages (3 tables, 1 unprotected page), all placements, 17 settings of the MTRRs | `MapsToItself`: identity mapping through every split, with `TypeOK` and `DirectoryIsWellFormed`; `TypesFollowMtrrs`: each page has the memory type of the first register that covers its large page by the processor's rule; `ModuleIsIsolated`: guests reach exactly what is not the module's, and its unprotected page; `FindSucceeds`; `TablesSuffice` |
| `guest_context` | 2 callers, 10 guest states with operands on both sides of each test, 4 instructions | `StackIsSound`: `TypeOK`, alignment, contexts disjoint and out of the way of the stack, the frame of `vm_launch` found at every exit; `NoFault`: iretq and xsetbv do not fault in the hypervisor; `InterruptsAreOff`; `ImplementsGuest`, the refinement with its liveness |
| `small_map` | 2 objects of capacity 3, 4 keys, 2 values | `TypeOK`; `StorageIsSorted`; `SearchIsExact`; `ImplementsMap`, the refinement of `KeyedMap`, where only empty maps are copied; `OperationsReturn` |
| `page_table_placements` | 14 pages, tables of 4 entries, every base in 256 pages, 2 OS page tables of small pages, with and without `physical_to_virtual` | `TablesAreMapped`; `HostReachesModule`: with `host_cr3` the processor reaches the module, executable and writable, and nothing else |
| `uefi_load` | tables of up to 2 rel or rela entries, and none; 2 bases; 3 processors, any of them the loader's, any others disabled; 2 handles | `ImageIsLoaded`: loaded, relocated and protected as the file says; `StaysInAllocation`; `BootsOnHypervisor`: a boot loader is started only when the entry point was called once on every processor and returned 0; `EntryIsJoined`: nobody uses the result or leaves the stack frame while the AP runs; `NothingLeaks`; `UefiImplementsVirtualization`, the refinement; `LoaderEnds`. The application ends, so deadlock is not checked |
| `vm_entry` | 5 operating systems (Linux-like, Windows-like, firmware without a TSS and 4, 8 or 10 of 10 entries) on 6 processors | `EntryIsAccepted`: the VMCS passes the processor's checks; `NoFault`: ltr and iretq find what they need; `StateIsKept`: `TypeOK`, the operating system's registers, in the guest and after a failure, and `DescriptorsAreKept`: each selector means the same in the guest's GDT, whose TSS is busy and within the limit; `HostIsSound`; `GuestIsConfined`: where the processor has the controls, the EPT, the MSR bitmap and a nonzero processor id, that of the launch, are in effect at the launch and after exits; the instructions the processor has are, and exits the handler mishandles are not, unless it demands them |

Five runs show where the code departs from what its comments say:

* `launch_no_tss_failure`: where the OS has no TSS, a launch that fails faults in
  `load_os_gdt` ("On failure this function will restore the context with an error
  code").
* `vm_entry_captured`: the FS base is captured and never used; the guest gets the base
  of the FS descriptor, which under Linux is another one ("Get the FS and GS base",
  "Capture important registers for later use of the hypervisor").
* `page_table_huge_page`: the page number of a huge entry is shifted by 30 bits
  although it counts 4 KB pages, so the host page table maps other memory ("Converts a
  virtual address to physical address").
* `elf_followed`: the size of the relocation table in bytes is used as the number of
  its entries, and what follows the table is applied if it looks like a relative
  relocation ("Iterate rela entries").
* `small_map_copy`: a copy of a map that holds a pair is empty ("Copy construct a small
  map from another one").

Seen and not run: a failing vmlaunch does not return to the caller, a fault in `launch`;
the exceptions listed under VmEntry; where the processor lacks the EPT, `adjust_msr` drops
the control and the guest runs without it (`GuestIsConfined` asks nothing there); nothing
compares the number of CPUs with `max_cpus` (`H:1065`), and with one more `InStorage` fails,
so `StorageSuffices` below assumes it; the zero MTRR mask, see above. No document says
that the program supports such processors or numbers.

**Bounds.** Slots, stacks and the object are handed from one CPU to the next:
two CPUs show any confusion of neighbours, a third a stale value that survives one
launch, and four leave launched CPUs on both sides of a failing one's predecessor.
All counters are bounded by the number of CPUs. In `Ept`, two pages per large page
make pages share a large page or not; three large pages reach the exhaustion of
three tables; the settings are every single aligned range of 3 bits, overlapping
ranges in both orders and registers that are not valid. `GuestContext` bounds rip by
`CodeEnd`, so that two instructions in a row leave the guest before it jumps; stale
contexts and VMCS fields of one exit meet every other exit. Capacity 3 is the least
with a search of two iterations on both sides and a shift of several slots; a fourth
key is absent from a full map. Tables of 4 entries with 2 page directories make
directories shared, and every base lets the module cross the borders of each level.
`MCVmEntry` keeps the order of the real units (a TSS limit below a page's, a flat limit
above 2^16, bases above 2^32) with small numbers; the processors differ in each thing
the code depends on: secondary controls, their newer bits, MSRs, the debug controls,
reserved bits. Three processors make the loader's, a disabled and an ordinary AP
different; two handles a rejected image followed by another.

**Fairness.** Code that a CPU executes makes progress (weak fairness of the launch,
the unwinding and the handler), and so does the loader's thread. The return of the
entry point to the loader runs as a guest and can be interrupted by any number of
VM exits; each exit retires one instruction (`rip += instruction length`), so it is
strongly fair. `Ept`, `PageTable`, `ElfFile` and the operations of `SmallMap` are
sequential code, and so is the hypervisor's part of `GuestContext`: weak fairness of
their steps. The loader's processor and the AP of `UefiLoader` are each weakly fair; a
boot loader that was started need not return. Nothing is assumed about how often guests
exit.

## Proofs

`LaunchProofs` proves, for every number of CPUs, every `HasTss` and `CallerIf` and
every set of failures, the safety properties above: `TypeCorrectness`,
`ResourcesAreOwn`, `GuestRunsWithOwnState`, `InterruptsAreSafe`, `FailureIsClean`,
`LaunchedCpusAreIsolated`, `FaultsAreKnown`, which is `NoOtherFault`, and that the protocol
implements `Virtualization` (`LoadRefinesVirtualization`). `StorageSuffices` assumes at most
`MaxCpus` CPUs. `LaunchesDoNotFault` is a corollary of `FaultsAreKnown`: where every CPU has
a TSS, VMX is allowed and vmlaunch does not fail, `NoFault` holds, which
`launch_no_tss_failure` shows violated without a TSS.

None of the properties is inductive: they say what a guest or an error return
looks like, not why. The invariant `Inv` has four parts:

* `CpuInv(c)`: the registers of CPU c, its guards and its slots are a function of
  where it is: `UnderGuards` while it prepares or unwinds, `InRootMode`, `InGuest`,
  `InHandler` afterwards, and its VMCS is `OwnVmcs`;
* `OrderInv`: CPUs below the loader's variable are launched, CPUs above it idle, so
  at most one CPU is on its way;
* `ObjectInv`: the shared object holds that CPU's values, and its counters are that
  CPU's slot;
* `TypeOK`.

Each action has a lemma: the facts it reads, its effect in closed form, then type,
object and CPU parts; `SameCpuInv` and `OnlyThisCpu` take care of the other CPUs.
`LaunchedCpusAreIsolated` follows from `Inv` before and after a step, because `Inv`
determines everything a launched CPU has. The refinement adds that the loader has a
result exactly when it has returned. `Inv` itself was checked with TLC on the
instances above before it was proved.

`SmallMapProofs` proves `TypeCorrectness`, `StorageStaysSorted`, `SearchFindsTheSlot`
and `SmallMapRefinesKeyedMap` for every set of objects, integer keys and values and
every capacity; the last assumes that no map that holds pairs is copied (`~CopiesPairs`), the
others do not. The invariant is the sortedness of each storage (`Holds`) together
with what the search has excluded so far, which is needed because an insertion keeps
the order only at the index an exact search returns; what is in the call record of the
operation that runs; and, inside `erase(first, last)`, that the keys still to be erased
are those of the slots between the two indices. `InsertedHolds`, `ErasedHolds` and
`AssignedHolds` say what the shifts do to one storage; every action has a lemma that
gives both the invariant and the step of `KeyedMap` it maps to.

`EptProofs` proves all five invariants of the `ept_placements` run, `MapsToItself`,
`ModuleIsIsolated`, `FindSucceeds`, `TablesSuffice` and `TypesFollowMtrrs`,
for every size of module, memory and pool of tables, every injective placement and every
setting of the MTRRs. Isolation only holds at the end, so `EptInv` is about the pages
walked so far: a large page is split exactly if one of them lies in it (`SplitInv`); each
split large page has a table of its own, found through the physical address of the table
(`DirInv`); the table maps the large page to itself except for what is hidden so far
(`TableInv`); and there are as many tables in use as split large pages (`CountInv`), which
makes the error of `protect_module` exact. The assumptions are that the tables and the
unprotected memory are parts of the module and do not overlap (members of one object), at
most as many registers as `mtrrs` has room for, and `RangeAssumption`.

The memory types add `TypesInv`: `mtrrs` holds the ranges of the registers read so far, and
each page, in its large page or in the table it was split into, has the type `TypeOf` gives.
What is left is that the loop in `initialize_mtrrs` computes the size of the range for any
width of addresses (`SizeOfMask`), that the pages that agree with the base under the mask are
an interval of that size (`Aligned`), and so that the test of `initialize_ept` is the
processor's rule (`TouchesIffCovers`). `Size` and `Power` are recursive functions over numbers;
their equations and values are proved by induction, done on sets of numbers through their
least elements (`Induction`), because the library's induction theorems cannot be instantiated
by the provers. `StepsAreLocal` is an action property: once the EPT is built, a step changes
nothing the processor finds for any page but the access of the page the loop is at, although
a split replaces one entry by a table, and only `unprotect_guest_memory` opens a page.

`GuestContextProofs` proves `StackIsSound`, `NoFault` and `InterruptsAreOff` for every
caller, every guest and every layout of the stacks, and `ContextsRefineGuest`: the launch
and the exits implement `Guest!Safety`. There is one thread of control, which moves by
restoring contexts; `ContextInv` is the diagram of its twelve places (`AtStart`, ...,
`AtVmresume`, `InGuest`). A stage says which contexts exist, where, and what each of their
registers is in terms of `trapped`, the registers the operating system had. The proof
showed that two cases of the refinement mapping `SeenState` overlapped, so that its value was
left open where TLC takes the first; they are disjoint now. `LayoutAssumption` (16-byte
alignment, the launch stack below the private one), `CallerAssumption` and
`GuestAssumption` (64-bit code with its own code segment, a stack that is not the
hypervisor's) are what the build and the calling convention give.

`VmEntryProofs` proves all five properties of the `vm_entry` run, `EntryIsAccepted`,
`NoFault`, `StateIsKept`, `HostIsSound` and `GuestIsConfined`, for every operating system
and processor that `IsOperatingSystem` and `IsProcessor` describe and every size of the
units of a descriptor. The properties compare registers that were captured, copied and
loaded several steps apart; `ValuesInv` has, for each step, every variable as a function of
the operating system and the processor alone, and `DecidedInv` what a step that could go
wrong has established. What remains are facts about the GDT the segments are read from:
the copy agrees with the original below the limit, the TSS that is added lies behind it,
and ltr changes one entry. The exceptions listed under VmEntry are in the properties.
`GuestRunsConfined` is about the controls in effect: the EPT and the processor id count only
if the primary controls enable the secondary ones. That no other CPU has the same id is
`ResourcesAreOwn`.

`PageTableProofs` works for every size of tables, every base and every page table of the
operating system. An entry is written through a table that is found without looking at the
entries above it. `TablesInv` says that for every page mapped so far the entry in each level
is the one for the table in use there (`MappedInv`), and that every entry that is present is
for the page of the module with its indices (`ForeignInv`), all of it in terms of
what `virtual_to_physical` returned, right or not. The lemma behind it is
`SlotIsOwn`: the module is small enough (`ModuleAssumption`) that two of its pages with the
same indices are the same page, so mapping one never undoes another. From it
follows the action property `MappingsStay`: a page that is mapped is never mapped elsewhere
or taken out again, also while `map_from` goes over the tables it translates with.
`TablesAreMapped` and `HostReachesModule` are about the pages the processor uses, and need
the hypothesis `OsUsesSmallPages`, that the operating system maps the module with small
pages; it enters in one lemma, `OsTranslates`, and the run `page_table_huge_page` shows
that it is needed there.

`ElfFileProofs` proves `ImageIsLoaded` and `StaysInAllocation` for every file that is
sound, every page and entry size and every base. `FileIsSound` is what a linker writes:
segments in order and apart, a relocation table inside the image, whose entries relocate
different words outside of the table; and in addition that nothing relocate reads behind
the table looks like a relocation, without which `elf_followed` shows a word changed that is not in the table.
The files of `uefi_load` are sound. `ElfInv` gives the whole of memory after each step:
`Copied(i)` while segments are mapped, `Patched(i)` with the first i relocations applied
once, and `ProtectedBelow(i)`. A rel entry adds to the word it finds, so the proof needs
that no earlier relocation changed it.

`UefiLoaderProofs` proves `BootsOnHypervisor`, `EntryIsJoined`, `NothingLeaks` and the
refinement `UefiImplementsVirtualization` for any number of processors and handles,
whichever processor runs the loader. `LoaderInv` is a history of the loop: which
processors have run the entry point with which result (`CalledInv`), where the call in
progress stands (`CallInv`), who holds the event and the memory (`HeldInv`). Every step of
the loader is a step of `ElfFile` or leaves the image alone, which lifts `ElfInv`:
`LoadedImageStays` and `LoaderStaysInAllocation`.

Each of these invariants was checked with TLC on the instance of the component's run before
it was proved.

Only model-checked:

* liveness, which is out of the prover's reach: `LoadSucceeds`, `ExitsResume`,
  `OperationsReturn`, `LoaderEnds`, and the liveness in `ImplementsGuest`, whose safety is
  proved;
* that `Masked` is the processor's `&` (`MaskedIsAnd` in `MCEpt`, for 3 bits): the module of
  the bitwise operators cannot be reasoned about;
* the five violations, which are about single instances.

## Not modelled

Left out: VMCS accessors that nothing calls, the numbers of fields and MSRs,
`maybe` (a value or an error; each use is a disjunction here), the C runtime stubs and the
build files. Fixed range MTRRs and the default memory type are not read by the code.

What a next step could add: what `load` does to memory for a file with relocations behind
its table (`ElfFileProofs` assumes there are none); the zero mask of an MTRR; and one module
for the EPT and the host page table together, which today meet only in the assumption that
both see the same physical pages of the module.
