----------------------------- MODULE PageTable -----------------------------
(***************************************************************************)
(* The host page table: initialize_os_page_table and                       *)
(* initialize_host_page_table.                                             *)
(*                                                                         *)
(* The hypervisor runs on a page table of its own, an object of its module *)
(* that has one page directory pointer table and only a few page           *)
(* directories, so that many virtual addresses share each of them.         *)
(* map_self maps the pages of that object with the addresses the operating *)
(* system's page table gives; from then on the object translates the       *)
(* addresses of its own tables itself, and map_from maps the module.       *)
(*                                                                         *)
(* Addresses are page numbers, physical ones included.  A page is mapped   *)
(* in one step.                                                            *)
(***************************************************************************)
EXTENDS Integers

CONSTANTS
    Fanout,            \* the entries of a table (512)
    PageDirectories,   \* the page directories of the object (2)
    ModulePages,       \* module_size / page_size
    FirstTable,        \* the page of the module where the object begins
    ModuleBases,       \* where the module may be in virtual memory
    OsPageTables       \* what the page table of the operating system may be

Index == 0 .. Fanout - 1
Directories == 0 .. PageDirectories - 1
Module == 0 .. ModulePages - 1

\* The pages of the object, in the order of its members, from FirstTable on.
Pml4Page == FirstTable
PdptPage == FirstTable + 1
PdPage(d) == FirstTable + 2 + d
PtPage(d, e) == FirstTable + 2 + PageDirectories + d * Fanout + e
TablePages == 2 + PageDirectories + PageDirectories * Fanout

\* An entry of the operating system's tables as the walk finds it: the number
\* of pages it maps (1, or a large bit was set) and its page number field.
OsEntries == [pages : {1, Fanout, Fanout * Fanout}, page_number : Nat]

ASSUME FanoutAssumption ==
    /\ Fanout \in Nat \ {0} /\ PageDirectories \in 1 .. Fanout
    /\ Fanout % PageDirectories = 0
ASSUME OsAssumption == \A t \in OsPageTables : t \in [Module -> OsEntries]
ASSUME ModuleAssumption ==
    /\ ModulePages \in Nat /\ FirstTable \in Nat
    /\ FirstTable + TablePages =< ModulePages
    /\ ModulePages =< Fanout * Fanout
    /\ ModuleBases \subseteq Nat

VARIABLES
    base,     \* the page of module_base
    physical_to_virtual, \* whether the loader gives one: UEFI does not, and
                         \* maps every address to itself
    os,       \* os[m]: the entry of the OS that maps page m of the module
    pml4, pdpt, pds, pts,
    pc, i,    \* the loop that runs and its counter
    host_cr3

vars == <<base, physical_to_virtual, os, pml4, pdpt, pds, pts, pc, i, host_cr3>>
environment == <<base, physical_to_virtual, os>>
tables == <<pml4, pdpt, pds, pts>>

-----------------------------------------------------------------------------
\* virtual_address.
pte(a) == a % Fanout
pde(a) == (a \div Fanout) % Fanout
pdpte(a) == (a \div (Fanout * Fanout)) % Fanout
pml4e(a) == (a \div (Fanout * Fanout * Fanout)) % Fanout

ZeroEntry == [present |-> FALSE, write |-> FALSE, execute_disable |-> FALSE, page |-> 0]
TableEntry(p) == [present |-> TRUE, write |-> TRUE, execute_disable |-> FALSE, page |-> p]

\* The page directory that serves address a.
pd_index(a) == pdpte(a) \div (Fanout \div PageDirectories)

Init ==
    /\ base \in ModuleBases /\ os \in OsPageTables
    /\ physical_to_virtual \in BOOLEAN
    /\ pml4 = [x \in Index |-> ZeroEntry]
    /\ pdpt = [x \in Index |-> ZeroEntry]
    /\ pds = [d \in Directories |-> [x \in Index |-> ZeroEntry]]
    /\ pts = [d \in Directories |-> [e \in Index |-> [x \in Index |-> ZeroEntry]]]
    /\ pc = "map_self" /\ i = 0 /\ host_cr3 = 0

\* os_page_table::virtual_to_physical of page m of the module: the page number
\* of a large entry is shifted by the size of the page it maps.
OsTranslate(m) ==
    IF ~physical_to_virtual THEN base + m
    ELSE os[m].page_number * os[m].pages + ((base + m) % os[m].pages)

\* page_table::virtual_to_physical: the object finds its tables without a look
\* at their entries.  No entry of it is large.
Translate(a) == pts[pd_index(a)][pde(a)][pte(a)].page

\* map_page_from: page a is mapped to p, and the tables on the way to it are
\* entered with the physical pages another page table gives for them.
MapPageFrom(a, p, write, execute, physical) ==
    LET d == pd_index(a)
    IN  /\ pml4' = [pml4 EXCEPT ![pml4e(a)] = TableEntry(physical[PdptPage])]
        /\ pdpt' = [pdpt EXCEPT ![pdpte(a)] = TableEntry(physical[PdPage(d)])]
        /\ pds' = [pds EXCEPT ![d][pde(a)] = TableEntry(physical[PtPage(d, pde(a))])]
        /\ pts' = [pts EXCEPT ![d][pde(a)][pte(a)] =
               [present |-> TRUE, write |-> write, execute_disable |-> ~execute, page |-> p]]

\* The page table of the operating system, and the object itself, as the other
\* page table.
OsPhysical == [m \in Module |-> OsTranslate(m)]
OwnPhysical == [m \in Module |-> Translate(base + m)]

\* An iteration of self_map_from: readable and writable.
MapSelf ==
    /\ pc = "map_self" /\ i < TablePages
    /\ MapPageFrom(base + FirstTable + i, OsTranslate(FirstTable + i), TRUE, FALSE, OsPhysical)
    /\ i' = i + 1
    /\ UNCHANGED <<environment, pc, host_cr3>>

\* Mutant: the last page of the tables is not mapped.
SelfMappedEarly ==
    /\ pc = "map_self" /\ i = TablePages - 1
    /\ pc' = "map_from" /\ i' = 0
    /\ UNCHANGED <<environment, tables, host_cr3>>

SelfMapped ==
    /\ pc = "map_self" /\ i = TablePages
    /\ pc' = "map_from" /\ i' = 0
    /\ UNCHANGED <<environment, tables, host_cr3>>

\* Mutant: the protection of the tables is kept for the module.
MapModuleNotExecutable ==
    /\ pc = "map_from" /\ i < ModulePages
    /\ MapPageFrom(base + i, OsTranslate(i), TRUE, FALSE, OwnPhysical)
    /\ i' = i + 1
    /\ UNCHANGED <<environment, pc, host_cr3>>

\* An iteration of map_from, which uses map_page: readable, writable and
\* executable.
MapModule ==
    /\ pc = "map_from" /\ i < ModulePages
    /\ MapPageFrom(base + i, OsTranslate(i), TRUE, TRUE, OwnPhysical)
    /\ i' = i + 1
    /\ UNCHANGED <<environment, pc, host_cr3>>

ModuleMapped ==
    /\ pc = "map_from" /\ i = ModulePages
    /\ host_cr3' = Translate(base + Pml4Page)
    /\ pc' = "done"
    /\ UNCHANGED <<environment, tables, i>>

\* The host page table is finished.
Finished == pc = "done" /\ UNCHANGED vars

Next == MapSelf \/ SelfMapped \/ MapModule \/ ModuleMapped \/ Finished

\* The loops are sequential code of the first CPU.
Spec == Init /\ [][Next]_vars /\ WF_vars(Next)

-----------------------------------------------------------------------------
(***************************************************************************)
(* The processor.  Where page m of the module is in physical memory: a     *)
(* page number counts small pages, whatever the entry maps.                *)
(***************************************************************************)
PhysicalPage(m) ==
    IF ~physical_to_virtual THEN base + m
    ELSE os[m].page_number + ((base + m) % os[m].pages)

\* The walk with cr3 finds the pages of the tables through their entries and
\* ends at entry e.
Walks(a, e) ==
    /\ host_cr3 = PhysicalPage(Pml4Page)
    /\ pml4[pml4e(a)] = TableEntry(PhysicalPage(PdptPage))
    /\ \E d \in Directories :
          /\ pdpt[pdpte(a)] = TableEntry(PhysicalPage(PdPage(d)))
          /\ \E t \in Directories, u \in Index :
                /\ pds[d][pde(a)] = TableEntry(PhysicalPage(PtPage(t, u)))
                /\ pts[t][u][pte(a)] = e

-----------------------------------------------------------------------------
(***************************************************************************)
(* Properties.                                                             *)
(***************************************************************************)
\* From the end of map_self on, the object translates the address of each of
\* its tables: map_page never enters a table that is not mapped, and mapping
\* the module, whose pages share the tables, never changes the translation.
TablesAreMapped ==
    pc # "map_self" =>
        \A t \in 0 .. TablePages - 1 : Translate(base + FirstTable + t) = PhysicalPage(FirstTable + t)

\* With host_cr3 the processor reaches every page of the module where the
\* operating system put it, readable, writable and executable, wherever the
\* module lies in virtual memory; and at every moment each page that is mapped
\* is a page of the module.
HostReachesModule ==
    /\ pc = "done" => \A m \in Module :
          Walks(base + m, [present |-> TRUE, write |-> TRUE, execute_disable |-> FALSE,
                           page |-> PhysicalPage(m)])
    /\ \A d \in Directories, e, x \in Index :
          pts[d][e][x].present => \E m \in Module : pts[d][e][x].page = PhysicalPage(m)

============================================================================
