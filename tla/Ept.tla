-------------------------------- MODULE Ept --------------------------------
(***************************************************************************)
(* The extended page table: how the first CPU builds it and takes the      *)
(* hypervisor module out of what the guests can reach.                     *)
(*                                                                         *)
(* initialize_mtrrs turns the variable range MTRRs into ranges of physical *)
(* memory; initialize_ept fills the page directories with large pages that *)
(* map physical memory to itself, with the memory type of the range each   *)
(* one lies in; protect_module walks the pages of the module, splits the   *)
(* large page each one lies in, unless an earlier page did, and clears the *)
(* access bits of the page; unprotect_guest_memory gives the pages that    *)
(* hold the intermediate GDTs back to the guests.                          *)
(* The tables made by splitting are pages of the module themselves, found  *)
(* again through module_physical_to_virtual, and the operating system      *)
(* chose where each page of the module lies in physical memory.            *)
(*                                                                         *)
(* A physical page is a large page and an offset in it, and its number     *)
(* where the MTRRs are concerned; a virtual page of the module is its      *)
(* number.  The four access bits are always written together and are one   *)
(* bit here.                                                               *)
(***************************************************************************)
EXTENDS Integers, FiniteSets, Sequences

CONSTANTS
    LargePages,      \* the number of large pages the page directories map
    PagesPerLarge,   \* pages in a large page (512)
    ModulePages,     \* module_size / page_size
    EptFirst,        \* the module page of ept[0]; ept[k] is k pages further
    EptCount,        \* the number of tables in ept (1024)
    FirstUnprotected, UnprotectedPages,  \* the pages of unprotected_memory
    Capacity,        \* the capacity of module_physical_to_virtual
    MemoryTypes, Uncacheable, WriteBack,  \* Uncacheable is memory_type{}
    MtrrCount,       \* the number of elements of mtrrs (8)
    PageBits,        \* the width of physical_mask
    MtrrSettings     \* what the variable range MTRRs may hold

Large == 0 .. LargePages - 1
Offsets == 0 .. PagesPerLarge - 1
Pages == [large : Large, offset : Offsets]
Module == 0 .. ModulePages - 1
Tables == 0 .. EptCount - 1
Unprotected == FirstUnprotected .. FirstUnprotected + UnprotectedPages - 1
EptPage(k) == EptFirst + k

\* 2^k; page numbers have PageBits bits.
Power[k \in 0 .. PageBits] == IF k = 0 THEN 1 ELSE 2 * Power[k - 1]
Numbers == 0 .. Power[PageBits] - 1
Registers == [valid : {0, 1}, base : Numbers, mask : Numbers, type : MemoryTypes]

ASSUME SizeAssumption ==
    /\ LargePages \in Nat \ {0} /\ PagesPerLarge \in Nat \ {0}
    /\ ModulePages \in Nat \ {0} /\ Capacity \in Nat
ASSUME EptAssumption ==
    /\ EptFirst \in Nat /\ EptCount \in Nat \ {0}
    /\ EptFirst + EptCount =< ModulePages
ASSUME UnprotectedAssumption ==
    /\ FirstUnprotected \in Nat /\ UnprotectedPages \in Nat
    /\ FirstUnprotected + UnprotectedPages =< ModulePages
    /\ \A k \in Tables : EptPage(k) \notin Unprotected
ASSUME MtrrAssumption ==
    /\ {Uncacheable, WriteBack} \subseteq MemoryTypes
    /\ MtrrCount \in Nat /\ PageBits \in Nat
    /\ \A s \in MtrrSettings : s \in Seq(Registers) /\ Len(s) =< MtrrCount
\* The processor asks of a valid register that its mask be ones above zeros, and
\* its base aligned to the size of the range.  A mask of zeros, for a range of all
\* memory, is left out: initialize_mtrrs would give it the size 0.
ASSUME RangeAssumption ==
    \A s \in MtrrSettings : \A r \in 1 .. Len(s) : s[r].valid = 1 =>
        \E k \in 0 .. PageBits - 1 :
            /\ s[r].mask = Power[PageBits] - Power[k]
            /\ s[r].base % Power[k] = 0

VARIABLES
    physical,    \* the physical page of each page of the module, chosen by the OS
    registers,   \* the variable range MTRRs: pairs of a base and a mask
    pc,          \* where the first CPU is
    i,           \* the loop variable of the function that runs
    mtrrs,       \* mtrrs[r]: the range of register r
    ept_index,   \* the next table of ept to use
    epd,         \* epd[l]: the directory entry of large page l
    ept,         \* ept[k][o]: the entries of the tables
    module_physical_to_virtual

vars == <<physical, registers, pc, i, mtrrs, ept_index, epd, ept,
          module_physical_to_virtual>>
environment == <<physical, registers>>

-----------------------------------------------------------------------------
ZeroPage == [large |-> 0, offset |-> 0]
ZeroEntry == [access |-> 0, large |-> 0, type |-> Uncacheable, page |-> ZeroPage]

\* An mtrr object as constructed.
EmptyMtrr == [valid |-> 0, base |-> 0, size |-> 0, type |-> Uncacheable]

Init ==
    /\ physical \in [Module -> Pages]
    /\ \A v, w \in Module : physical[v] = physical[w] => v = w
    /\ registers \in MtrrSettings
    /\ pc = "p2v" /\ i = 1 /\ ept_index = 0
    /\ mtrrs = [r \in 1 .. MtrrCount |-> EmptyMtrr]
    /\ epd = [l \in Large |-> ZeroEntry]
    /\ ept = [k \in Tables |-> [o \in Offsets |-> ZeroEntry]]
    /\ module_physical_to_virtual = {}

\* module_physical_to_virtual.find(p)->second, for a key that is present.
Find(p) == (CHOOSE m \in module_physical_to_virtual : m.key = p).value

\* Mutant: the loop counts large pages of the module.
InitializeModulePhysicalToVirtualByLargePage ==
    /\ pc = "p2v"
    /\ IF ModulePages >= Capacity
       THEN /\ pc' = "capacity_error"
            /\ UNCHANGED module_physical_to_virtual
       ELSE /\ pc' = "mtrrs"
            /\ module_physical_to_virtual' =
                  {[key |-> physical[v], value |-> v] :
                      v \in 0 .. (ModulePages \div PagesPerLarge) - 1}
    /\ UNCHANGED <<environment, mtrrs, i, ept_index, epd, ept>>

\* initialize_module_physical_to_virtual: one mapping for each module page.
InitializeModulePhysicalToVirtual ==
    /\ pc = "p2v"
    /\ IF ModulePages >= Capacity
       THEN /\ pc' = "capacity_error"
            /\ UNCHANGED module_physical_to_virtual
       ELSE /\ pc' = "mtrrs"
            /\ module_physical_to_virtual' =
                  {[key |-> physical[v], value |-> v] : v \in Module}
    /\ UNCHANGED <<environment, mtrrs, i, ept_index, epd, ept>>

\* Mutant: the loop stops one bit early.
SizeHalved(m) ==
    LET size[n \in Numbers \ {0}] == IF n % 4 # 0 THEN 1 ELSE 2 * size[n \div 2]
    IN  size[m]

\* The size doubles for each zero at the low end of the mask m # 0.
Size(m) ==
    LET size[n \in Numbers \ {0}] == IF n % 2 = 1 THEN 1 ELSE 2 * size[n \div 2]
    IN  size[m]

\* An iteration of initialize_mtrrs.
ReadMtrr ==
    LET r == registers[i]
    IN  /\ pc = "mtrrs"
        /\ i =< Len(registers)
        /\ mtrrs' = [mtrrs EXCEPT ![i] =
               [valid |-> r.valid, base |-> r.base, type |-> r.type,
                size |-> IF r.mask = 0 THEN 0 ELSE Size(r.mask)]]
        /\ i' = i + 1
        /\ UNCHANGED <<environment, pc, ept_index, epd, ept, module_physical_to_virtual>>

MtrrsRead ==
    /\ pc = "mtrrs"
    /\ i = Len(registers) + 1
    /\ pc' = "ept"
    /\ UNCHANGED <<environment, i, mtrrs, ept_index, epd, ept, module_physical_to_virtual>>

\* A valid MTRR that touches large page l.
Touches(m, l) ==
    /\ m.valid = 1
    /\ l * PagesPerLarge + (PagesPerLarge - 1) >= m.base
    /\ l * PagesPerLarge < m.base + m.size

\* The type of the first MTRR that touches large page l, or write back.
TypeOf(l) ==
    LET touching == {r \in DOMAIN mtrrs : Touches(mtrrs[r], l)}
    IN  IF touching = {} THEN WriteBack
        ELSE mtrrs[CHOOSE r \in touching : \A q \in touching : r =< q].type

\* initialize_ept: large pages that map physical memory to itself.
InitializeEpt ==
    /\ pc = "ept"
    /\ epd' = [l \in Large |-> [access |-> 1, large |-> 1, type |-> TypeOf(l),
                                page |-> [large |-> l, offset |-> 0]]]
    /\ pc' = "protect" /\ i' = 0 /\ ept_index' = 0
    /\ UNCHANGED <<environment, mtrrs, ept, module_physical_to_virtual>>

\* Mutant: every entry maps the first page.
SplitFirstPage(l) ==
    [o \in Offsets |-> [access |-> 1, large |-> 0, type |-> epd[l].type,
                        page |-> [large |-> epd[l].page.large, offset |-> 0]]]

\* The entries of the table that directory entry l is split into.
Split(l) ==
    [o \in Offsets |-> [access |-> 1, large |-> 0, type |-> epd[l].type,
                        page |-> [large |-> epd[l].page.large, offset |-> o]]]

\* An iteration of protect_module where the large page has been split before:
\* its table is found through module_physical_to_virtual.
ProtectInTable ==
    LET p == physical[i]
        k == Find(epd[p.large].page) - EptFirst
    IN  /\ pc = "protect"
        /\ i < ModulePages
        /\ epd[p.large].large = 0
        /\ ept' = [ept EXCEPT ![k][p.offset].access = 0]
        /\ i' = i + 1
        /\ UNCHANGED <<environment, mtrrs, pc, ept_index, epd, module_physical_to_virtual>>

\* Mutant: the page that caused the split stays accessible.
ProtectSplittingOnly ==
    LET p == physical[i]
        k == ept_index
        exhausted == ept_index + 1 = EptCount
    IN  /\ pc = "protect"
        /\ i < ModulePages
        /\ epd[p.large].large = 1
        /\ ept' = [ept EXCEPT ![k] =
               Split(p.large)]
        /\ epd' = [epd EXCEPT ![p.large] =
               [access |-> 1, large |-> 0, type |-> Uncacheable,
                page |-> physical[EptPage(k)]]]
        /\ ept_index' = ept_index + 1
        /\ IF exhausted THEN pc' = "ept_error" /\ UNCHANGED i
                        ELSE i' = i + 1 /\ UNCHANGED pc
        /\ UNCHANGED <<environment, mtrrs, module_physical_to_virtual>>

\* Mutant: the tables are exhausted one split too late.
ProtectSplittingLate ==
    LET p == physical[i]
        k == ept_index
        exhausted == ept_index = EptCount
    IN  /\ pc = "protect"
        /\ i < ModulePages
        /\ epd[p.large].large = 1
        /\ ept' = [ept EXCEPT ![k] =
               IF exhausted THEN Split(p.large)
               ELSE [Split(p.large) EXCEPT ![p.offset].access = 0]]
        /\ epd' = [epd EXCEPT ![p.large] =
               [access |-> 1, large |-> 0, type |-> Uncacheable,
                page |-> physical[EptPage(k)]]]
        /\ ept_index' = ept_index + 1
        /\ IF exhausted THEN pc' = "ept_error" /\ UNCHANGED i
                        ELSE i' = i + 1 /\ UNCHANGED pc
        /\ UNCHANGED <<environment, mtrrs, module_physical_to_virtual>>

\* An iteration that splits the large page into the next table; when it was
\* the last table, protect_module fails before it protects the page.
ProtectSplitting ==
    LET p == physical[i]
        k == ept_index
        exhausted == ept_index + 1 = EptCount
    IN  /\ pc = "protect"
        /\ i < ModulePages
        /\ epd[p.large].large = 1
        /\ ept' = [ept EXCEPT ![k] =
               IF exhausted THEN Split(p.large)
               ELSE [Split(p.large) EXCEPT ![p.offset].access = 0]]
        /\ epd' = [epd EXCEPT ![p.large] =
               [access |-> 1, large |-> 0, type |-> Uncacheable,
                page |-> physical[EptPage(k)]]]
        /\ ept_index' = ept_index + 1
        /\ IF exhausted THEN pc' = "ept_error" /\ UNCHANGED i
                        ELSE i' = i + 1 /\ UNCHANGED pc
        /\ UNCHANGED <<environment, mtrrs, module_physical_to_virtual>>

\* protect_module returns success; unprotect_guest_memory starts.
ModuleProtected ==
    /\ pc = "protect"
    /\ i = ModulePages
    /\ pc' = "unprotect" /\ i' = FirstUnprotected
    /\ UNCHANGED <<environment, mtrrs, ept_index, epd, ept, module_physical_to_virtual>>

\* An iteration of unprotect_guest_memory, which does not look at the large
\* bit of the directory entry.
UnprotectPage ==
    LET p == physical[i]
        k == Find(epd[p.large].page) - EptFirst
    IN  /\ pc = "unprotect"
        /\ i < FirstUnprotected + UnprotectedPages
        /\ ept' = [ept EXCEPT ![k][p.offset].access = 1]
        /\ i' = i + 1
        /\ UNCHANGED <<environment, mtrrs, pc, ept_index, epd, module_physical_to_virtual>>

MemoryUnprotected ==
    /\ pc = "unprotect"
    /\ i = FirstUnprotected + UnprotectedPages
    /\ pc' = "done"
    /\ UNCHANGED <<environment, mtrrs, i, ept_index, epd, ept, module_physical_to_virtual>>

Outcomes == {"done", "capacity_error", "ept_error"}

\* The construction has ended.
Finished == pc \in Outcomes /\ UNCHANGED vars

Next ==
    \/ InitializeModulePhysicalToVirtual
    \/ ReadMtrr \/ MtrrsRead \/ InitializeEpt
    \/ ProtectInTable \/ ProtectSplitting \/ ModuleProtected
    \/ UnprotectPage \/ MemoryUnprotected \/ Finished

\* The loops are sequential code: the CPU that runs them takes its next step.
Spec == Init /\ [][Next]_vars /\ WF_vars(Next)

-----------------------------------------------------------------------------
(***************************************************************************)
(* The walk of the processor: the entry that translates page p, found      *)
(* through physical memory.                                                *)
(***************************************************************************)
TableAt(q) == CHOOSE k \in Tables : physical[EptPage(k)] = q

Entry(p) ==
    IF epd[p.large].large = 1
    THEN [epd[p.large] EXCEPT !.page = [large |-> epd[p.large].page.large,
                                        offset |-> p.offset]]
    ELSE ept[TableAt(epd[p.large].page)][p.offset]

\* The large pages the module lies in.
LargeOfModule == {physical[v].large : v \in Module}

-----------------------------------------------------------------------------
(***************************************************************************)
(* Properties.                                                             *)
(***************************************************************************)
Entries == [access : {0, 1}, large : {0, 1}, type : MemoryTypes, page : Pages]

\* Every variable has its type: in particular the tables are indexed inside ept.
TypeOK ==
    /\ physical \in [Module -> Pages]
    /\ registers \in MtrrSettings
    /\ \A r \in 1 .. MtrrCount :
           /\ DOMAIN mtrrs[r] = {"valid", "base", "size", "type"}
           /\ mtrrs[r].valid \in {0, 1} /\ mtrrs[r].base \in Numbers
           /\ mtrrs[r].type \in MemoryTypes
    /\ pc \in {"p2v", "mtrrs", "ept", "protect", "unprotect"} \cup Outcomes
    /\ pc \notin {"p2v", "mtrrs", "ept"} => i \in 0 .. ModulePages
    /\ ept_index \in 0 .. EptCount
    /\ epd \in [Large -> Entries]
    /\ ept \in [Tables -> [Offsets -> Entries]]
    /\ module_physical_to_virtual \subseteq [key : Pages, value : Module]

Built == pc \in {"protect", "unprotect", "done", "ept_error"}

\* A directory entry that is not a large page has the address of a table that
\* is in use, a table of its own, and zero in the bits that are reserved there.
DirectoryIsWellFormed ==
    Built => \A l \in Large : epd[l].large = 0 =>
        /\ \E k \in 0 .. ept_index - 1 : epd[l].page = physical[EptPage(k)]
        /\ epd[l].type = Uncacheable
        /\ \A m \in Large \ {l} : epd[m].large = 0 => epd[m].page # epd[l].page

\* From initialize_ept on, and through every split, the directory is well formed
\* and each page of physical memory is mapped to itself.
MapsToItself ==
    /\ TypeOK /\ DirectoryIsWellFormed
    /\ Built => \A p \in Pages : Entry(p).page = p

\* When the EPT is finished the guests reach exactly the memory that is not
\* the module's, and the module's unprotected pages.
ModuleIsIsolated ==
    pc = "done" => \A p \in Pages :
        Entry(p).access = 0 <=> \E v \in Module \ Unprotected : physical[v] = p

\* Every lookup in module_physical_to_virtual whose result is dereferenced
\* finds a table of ept.
FindSucceeds ==
    \/ pc = "protect" /\ i < ModulePages /\ epd[physical[i].large].large = 0
    \/ pc = "unprotect" /\ i < FirstUnprotected + UnprotectedPages
    => \E m \in module_physical_to_virtual :
          /\ m.key = epd[physical[i].large].page
          /\ m.value - EptFirst \in Tables

\* protect_module runs out of tables exactly when the module lies in as many
\* large pages as there are tables, or more.
TablesSuffice ==
    /\ pc = "ept_error" => Cardinality(LargeOfModule) >= EptCount
    /\ pc \in {"unprotect", "done"} => Cardinality(LargeOfModule) < EptCount

\* x & m for a mask m of ones above zeros: the bits of x below the ones are dropped.
Masked(x, m) == x - (x % (Power[PageBits] - m))

\* "The rule is that (address_in_range & mask == mask & base)"
\* (hypervisor.cpp:318): register r covers a page of large page l.
Covers(r, l) ==
    /\ registers[r].valid = 1
    /\ \E o \in Offsets :
          /\ l * PagesPerLarge + o \in Numbers
          /\ Masked(l * PagesPerLarge + o, registers[r].mask)
                = Masked(registers[r].base, registers[r].mask)

\* The memory type the guests use for a page, through initialize_mtrrs,
\* initialize_ept and every split, is that of the first register that covers
\* a page of its large page by the processor's rule, and write back where
\* there is none; and no range is larger than physical memory.
TypesFollowMtrrs ==
    /\ Built => \A p \in Pages :
           LET covering == {r \in DOMAIN registers : Covers(r, p.large)}
           IN  Entry(p).type =
                   IF covering = {} THEN WriteBack
                   ELSE registers[CHOOSE r \in covering : \A q \in covering : r =< q].type
    /\ \A r \in 1 .. MtrrCount : mtrrs[r].size \in 0 .. Power[PageBits]

============================================================================
